--------------------------- MODULE HandshakeCache ---------------------------
(***************************************************************************)
(* The answers of decoy sites (web/handshake/handshake_cache_manager.cpp): *)
(* each session in Reality mode asks for one, by the name in its           *)
(* ClientHello.  The calls are coroutines on the server's io threads: they *)
(* share the cache, whose mutex is held neither while a site is asked nor  *)
(* from the look-up to the store.  What happens between two suspensions of *)
(* a call is one step; its critical sections commute with other calls'.    *)
(***************************************************************************)
EXTENDS Naturals

CONSTANTS
  Calls,      \* calls of GetHandshake, each made once
  Names,      \* the names clients ask for
  Default,    \* default_domain_
  Ttl,        \* cache_ttl_
  MaxTime,    \* bound: steps of the clock
  NoAnswer    \* nullptr, no entry

ASSUME CacheAssumption ==
  /\ Default \in Names /\ Ttl \in Nat \ {0} /\ MaxTime \in Nat
  /\ NoAnswer \notin Names \cup Nat

VARIABLES
  cache,      \* cache_: the answer stored for a name, and when it was stored
  call,       \* where each call is, for which name, and what it returned
  now,        \* the clock
  failed      \* history: when a name's own site last failed to answer

cacheVars == <<cache, call, now, failed>>

\* An answer is known by its site and, for the properties, by its age.
Answers == [site : Names, fetched : 0..MaxTime]
Entries == [data : Answers, timestamp : 0..MaxTime]

\* CheckCache: an entry that is too old is erased.
Fresh(n)      == cache[n] # NoAnswer /\ now < cache[n].timestamp + Ttl
CheckCache(n) == cache' = IF Fresh(n) THEN cache ELSE [cache EXCEPT ![n] = NoAnswer]

Return(c, answer) == call' = [call EXCEPT ![c].pc = "returned", ![c].answer = answer]
GoOn(c, pc)       == call' = [call EXCEPT ![c].pc = pc]

\* Defect: the default domain's answer is stored for the name as well.
StoreDefault(c) ==
  cache' = IF Fresh(Default)
             THEN [cache EXCEPT ![call[c].sni] = [data |-> cache[Default].data, timestamp |-> now]]
             ELSE [cache EXCEPT ![Default] = NoAnswer]

\* An answer of the default domain that is in the cache stays there only.
UseDefault(c) == CheckCache(Default)

GetHandshake(c, n) ==
  /\ call[c].pc = "new"
  /\ CheckCache(n)
  /\ call' = IF Fresh(n)
               THEN [call EXCEPT ![c] = [pc |-> "returned", sni |-> n, answer |-> cache[n].data]]
               ELSE [call EXCEPT ![c] = [pc |-> "target", sni |-> n, answer |-> NoAnswer]]
  /\ UNCHANGED <<now, failed>>

\* What FetchForwardedHandshake brings from a site, and a new entry for it.
Fetched(site) == [site |-> site, fetched |-> now]
Entry(answer) == [data |-> answer, timestamp |-> now]

\* The site of the name answers in time, with whole records.
TargetAnswers(c) ==
  /\ call[c].pc = "target"
  /\ LET answer == Fetched(call[c].sni) IN
       /\ cache' = [cache EXCEPT ![call[c].sni] = Entry(answer)]
       /\ Return(c, answer)
  /\ UNCHANGED <<now, failed>>

\* It does not: an answer of the default domain will do, but is not stored.
TargetFails(c) ==
  /\ call[c].pc = "target"
  /\ failed' = [failed EXCEPT ![call[c].sni] = now]
  /\ UseDefault(c)
  /\ IF Fresh(Default) THEN Return(c, cache[Default].data) ELSE GoOn(c, "fallback")
  /\ UNCHANGED now

\* The default domain answers, for itself and for the name.
FallbackAnswers(c) ==
  /\ call[c].pc = "fallback"
  /\ LET new == Entry(Fetched(Default)) IN
       cache' = [cache EXCEPT ![Default] = new, ![call[c].sni] = new]
  /\ Return(c, Fetched(Default))
  /\ UNCHANGED <<now, failed>>

FallbackFails(c) ==
  /\ call[c].pc = "fallback"
  /\ Return(c, NoAnswer)
  /\ UNCHANGED <<cache, now, failed>>

Tick == now < MaxTime /\ now' = now + 1 /\ UNCHANGED <<cache, call, failed>>

\* Requests have a deadline each.
Proceed(c) == TargetAnswers(c) \/ TargetFails(c) \/ FallbackAnswers(c) \/ FallbackFails(c)

CacheInit ==
  /\ cache = [n \in Names |-> NoAnswer]
  /\ call = [c \in Calls |-> [pc |-> "new", sni |-> NoAnswer, answer |-> NoAnswer]]
  /\ now = 0
  /\ failed = [n \in Names |-> NoAnswer]

CacheNext ==
  \/ \E c \in Calls, n \in Names : GetHandshake(c, n)
  \/ \E c \in Calls : Proceed(c)
  \/ Tick

CacheSpec == CacheInit /\ [][CacheNext]_cacheVars
-----------------------------------------------------------------------------
(* Properties *)

CacheTypeOK ==
  /\ cache \in [Names -> Entries \cup {NoAnswer}]
  /\ \A c \in Calls : call[c].sni \in Names \cup {NoAnswer} /\ call[c].answer \in Answers \cup {NoAnswer}

\* What a call that returns now gets.
ReturnsDue(c) ==
  LET answer == call'[c].answer IN
  call'[c].pc = "returned" /\ call[c].pc # "returned" /\ answer # NoAnswer =>
    /\ now < answer.fetched + Ttl
    /\ \/ answer.site = call'[c].sni
       \/ answer.site = Default /\ failed'[call'[c].sni] # NoAnswer

\* No answer is repeated for longer than the cache's time to live
\* (handshake_cache_manager.h:22-24), however many calls share it and under
\* however many names it is stored; and a client gets the answer of the site it
\* named, or else the default domain's, which is handed on only after the site
\* failed to answer somebody (handshake_cache_manager.cpp:144-181).
AnswersAreDue == []CacheTypeOK /\ [][\A c \in Calls : ReturnsDue(c)]_cacheVars
=============================================================================
