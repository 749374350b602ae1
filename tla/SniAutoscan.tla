----------------------------- MODULE SniAutoscan -----------------------------
(***************************************************************************)
(* The dialog that looks for a server name that works                      *)
(* (gui/sni_autoscan_dialog/sni_autoscan_dialog.cpp).  Detached workers    *)
(* share the context of their scan: they take names from its list and try  *)
(* each with a handshake and a request.  A timer of the dialog looks for a *)
(* result; Cancel lets go of the context, and the next scan has its own,   *)
(* with workers of the last one perhaps still at work.                     *)
(*                                                                         *)
(* A worker is a pair of its scan and its number; its requests are module  *)
(* ApiClient.  One server stands for the list a name is tried on.          *)
(***************************************************************************)
EXTENDS Naturals, FiniteSets

CONSTANTS
  Scans,       \* bound: the scans of a run, 1 .. their number
  PerScan,     \* kThreadCount
  NameCount    \* sni_list.size(), already shuffled

ASSUME ScanAssumption ==
  Scans \subseteq Nat \ {0} /\ PerScan \in Nat \ {0} /\ NameCount \in Nat \ {0}

VARIABLES
  scan,      \* ctx_: the scan that runs, or 0
  begun,     \* how many scans were started
  context,   \* the ScanContext of each scan
  pc,        \* where each worker is, and the name it tries
  seen,      \* onUpdateProgress: the found_sni it has read, or Unread
  adopted,   \* history: the name that was saved, 0 if none was
  call, job, answer

Workers == Scans \X (1..PerScan)

INSTANCE ApiClient WITH Callers <- Workers

requests   == <<call, job, answer>>
dialogVars == <<scan, begun, seen, adopted>>
scanVars   == <<dialogVars, context, pc>>
allVars    == <<scanVars, requests>>

Unread == NameCount + 1
Fresh  == [next |-> 1, found |-> 0, stop |-> FALSE, active |-> PerScan, tested |-> 0]
Gone   == [at |-> "none", name |-> 0]
Of(w)  == context[w[1]]
At(w, where) == pc' = [pc EXCEPT ![w].at = where]

-----------------------------------------------------------------------------
(* WorkerThread *)

\* Defect: the last name is never tried.
LastLeftOut(ctx) == ctx.next >= NameCount

Exhausted(ctx) == ctx.next > NameCount

TakeName(w) ==
  /\ pc[w].at = "take"
  /\ IF Of(w).stop \/ Exhausted(Of(w))
       THEN At(w, "leave") /\ UNCHANGED context
       ELSE /\ pc' = [pc EXCEPT ![w] = [at |-> "try", name |-> Of(w).next]]
            /\ context' = [context EXCEPT ![w[1]].next = @ + 1]
  /\ UNCHANGED <<dialogVars, requests>>

\* TestHandshake, unless the scan was stopped in the meantime.
TryName(w) ==
  /\ pc[w].at = "try"
  /\ \/ Of(w).stop /\ At(w, "failed") /\ UNCHANGED requests
     \/ ~Of(w).stop /\ At(w, "handshake") /\ Ask(w, "handshake")
  /\ UNCHANGED <<dialogVars, context>>

\* After a handshake that succeeds comes the request, after it the verdict.
NextTry(w) ==
  /\ pc[w].at \in {"handshake", "get"}
  /\ At(w, IF answer[w] # "ok" THEN "failed" ELSE IF pc[w].at = "get" THEN "works" ELSE "again")
  /\ TakeAnswer(w)
  /\ UNCHANGED <<dialogVars, context>>

GetName(w) ==
  /\ pc[w].at = "again"
  /\ At(w, "get")
  /\ Ask(w, "get")
  /\ UNCHANGED <<dialogVars, context>>

\* The first name that works is kept, and ends the scan.
Report(w) ==
  /\ pc[w].at \in {"works", "failed"}
  /\ LET ctx == [Of(w) EXCEPT !.tested = @ + 1]
     IN  context' = [context EXCEPT ![w[1]] =
           IF pc[w].at = "failed" THEN ctx
           ELSE [ctx EXCEPT !.found = IF ctx.found = 0 THEN pc[w].name ELSE ctx.found,
                            !.stop = TRUE]]
  /\ At(w, IF pc[w].at = "failed" THEN "take" ELSE "leave")
  /\ UNCHANGED <<dialogVars, requests>>

\* Defect: a worker that leaves is still counted.
StaysCounted(w) == UNCHANGED context

CountOut(w) == context' = [context EXCEPT ![w[1]].active = @ - 1]

Leave(w) ==
  /\ pc[w].at = "leave"
  /\ CountOut(w)
  /\ pc' = [pc EXCEPT ![w] = Gone]
  /\ UNCHANGED <<dialogVars, requests>>

WorkerTurn(w) == TakeName(w) \/ TryName(w) \/ NextTry(w) \/ GetName(w) \/ Report(w) \/ Leave(w)

\* One step of a worker's thread, or of the thread of its request.
Thread(w) == WorkerTurn(w) \/ (RequestStep(w) /\ UNCHANGED scanVars)
-----------------------------------------------------------------------------
(* The dialog *)

StartScanning ==
  /\ scan = 0
  /\ begun + 1 \in Scans
  /\ begun' = begun + 1
  /\ scan' = begun'
  /\ context' = [context EXCEPT ![begun'] = Fresh]
  /\ pc' = [w \in Workers |-> IF w[1] = begun' THEN [Gone EXCEPT !.at = "take"] ELSE pc[w]]
  /\ UNCHANGED <<seen, adopted, requests>>

\* StopScanning: the workers are told, and left to themselves.
StopScanning ==
  /\ context' = [context EXCEPT ![scan].stop = TRUE]
  /\ scan' = 0
  /\ seen' = Unread

CancelScan ==
  /\ scan # 0 /\ seen = Unread
  /\ StopScanning
  /\ UNCHANGED <<begun, adopted, pc, requests>>

\* onUpdateProgress reads found_sni first, and active_workers afterwards.
LookForResult ==
  /\ scan # 0 /\ seen = Unread
  /\ seen' = context[scan].found
  /\ UNCHANGED <<scan, begun, adopted, context, pc, requests>>

\* A name that was found is set and saved; without one, and without workers,
\* the user is told that none works.
ActOnResult ==
  /\ seen # Unread
  /\ IF seen # 0 \/ context[scan].active = 0
       THEN /\ StopScanning
            /\ adopted' = IF seen # 0 THEN seen ELSE adopted
       ELSE seen' = Unread /\ UNCHANGED <<scan, adopted, context>>
  /\ UNCHANGED <<begun, pc, requests>>

Timer == LookForResult \/ ActOnResult
-----------------------------------------------------------------------------
ScanInit ==
  /\ RequestInit
  /\ scan = 0 /\ begun = 0 /\ seen = Unread /\ adopted = 0
  /\ context = [s \in Scans |-> [Fresh EXCEPT !.active = 0]]
  /\ pc = [w \in Workers |-> Gone]
-----------------------------------------------------------------------------
(* Properties *)

ScanTypeOK ==
  /\ scan \in Scans \cup {0} /\ begun \in Scans \cup {0} /\ scan \in {0, begun}
  /\ seen \in 0..Unread /\ adopted \in 0..NameCount
  /\ \A s \in Scans : /\ context[s].next \in 1..Unread /\ context[s].found \in 0..NameCount
                      /\ context[s].tested \in 0..NameCount /\ context[s].active \in 0..PerScan
  /\ DOMAIN pc = Workers /\ DOMAIN call = Workers

\* Every name is tried by one worker at most: the names taken from the list are
\* those that were counted and those still in a worker's hands
\* (sni_autoscan_dialog.cpp:297-302, 338).
TriedOnce ==
  \A s \in Scans :
    context[s].next - 1 = context[s].tested
      + Cardinality({w \in Workers : w[1] = s /\
                       pc[w].at \in {"try", "handshake", "again", "get", "works", "failed"}})

\* A scan that says that no name works has tried them all, or a name was found
\* between its look at the result and its look at the workers
\* (sni_autoscan_dialog.cpp:186-192).
VerdictIsSound ==
  (seen = 0 /\ scan # 0 /\ scan' = 0)
    => context[scan].tested = NameCount \/ context[scan].found # 0

\* Liveness: a scan comes to its end, unless one of its workers is stuck in a
\* request (sni_autoscan_dialog.cpp:192, 354).
ScanEnds == scan # 0 ~> (scan = 0 \/ \E w \in Workers : w[1] = scan /\ Stuck(w))
=============================================================================
