---------------------------- MODULE LoginSearch ----------------------------
(***************************************************************************)
(* The race for a server: speed_estimator.cpp, called through ConfigFile.  *)
(* Half of the servers are asked at once, each by a thread of its own that *)
(* stores its answer under State::mtx; the caller waits on State::cv for   *)
(* the first success, for all the answers, or for the timeout, and joins   *)
(* the threads.  FindServerByLogin (smart connect) and FindFastestServer   *)
(* race in the same way and differ in what an empty result means.          *)
(***************************************************************************)
EXTENDS Naturals, FiniteSets

CONSTANTS
  Servers,    \* the servers of the configuration
  Slow,       \* the servers that may answer later than their request waits
  None        \* an empty std::optional

ASSUME SearchAssumption ==
  IsFiniteSet(Servers) /\ None \notin Servers /\ Slow \subseteq Servers

VARIABLES
  finder,     \* where the calling thread is
  worker,     \* where the thread of each server is
  first,      \* State::result, State::first_server
  completed   \* State::completed

searchVars == <<finder, worker, first, completed>>

WorkerSteps == {"none", "asking", "success", "failure", "hung", "ended"}

\* The servers that are asked: half of them, at least one, chosen by shuffling.
HalfSize == IF Cardinality(Servers) < 2 THEN 1 ELSE Cardinality(Servers) \div 2
Halves   == {S \in SUBSET Servers : Cardinality(S) = HalfSize}
Selected == {s \in Servers : worker[s] # "none"}

StartSearch(S) ==
  /\ finder = "idle"
  /\ finder' = "waiting"
  /\ worker' = [s \in Servers |-> IF s \in S THEN "asking" ELSE "none"]
  /\ first' = None
  /\ completed' = 0

\* A POST (PostImpl): 200 and its body, or an error of one of its steps.  A
\* request that is answered late never returns (module ApiClient).
PostImpl(s) == {"success", "failure"} \cup (IF s \in Slow THEN {"hung"} ELSE {})

\* GetDownloadTimeMs, or the POST of the credentials, in the server's thread.
Answer(s) ==
  /\ worker[s] = "asking"
  /\ \E a \in PostImpl(s) : worker' = [worker EXCEPT ![s] = a]
  /\ UNCHANGED <<finder, first, completed>>

\* The caller holds mtx whenever wait_for has returned.
MutexFree == finder \in {"idle", "waiting"}

\* A thread stores its answer, notifies the caller and ends.
StoreResult(s) ==
  /\ worker[s] \in {"success", "failure"}
  /\ MutexFree
  /\ first' = IF worker[s] = "success" /\ first = None THEN s ELSE first
  /\ completed' = completed + 1
  /\ worker' = [worker EXCEPT ![s] = "ended"]
  /\ UNCHANGED finder

\* cv.wait_for returns, with mtx locked: its predicate holds, or its time
\* (longer than a request's) is over.
WaitReturns ==
  /\ finder = "waiting"
  /\ \/ first # None \/ completed = Cardinality(Selected)
     \/ \A s \in Selected : worker[s] # "asking"
  /\ finder' = "joining"
  /\ UNCHANGED <<worker, first, completed>>

\* All the threads are joined; the lock goes out of scope with the result.
JoinWorkers ==
  /\ finder = "joining"
  /\ \A s \in Selected : worker[s] = "ended"
  /\ finder' = "returned"
  /\ UNCHANGED <<worker, first, completed>>

\* The caller takes the result; the shared State is gone.
TakeResult ==
  /\ finder = "returned"
  /\ finder' = "idle"
  /\ worker' = [s \in Servers |-> "none"]
  /\ first' = None
  /\ completed' = 0
-----------------------------------------------------------------------------
SearchInit ==
  /\ finder = "idle"
  /\ worker = [s \in Servers |-> "none"]
  /\ first = None
  /\ completed = 0

WorkerStep(s) == Answer(s) \/ StoreResult(s)
FinderStep    == WaitReturns \/ JoinWorkers

SearchNext ==
  \/ \E S \in Halves : StartSearch(S)
  \/ \E s \in Servers : WorkerStep(s)
  \/ FinderStep
  \/ TakeResult
  \/ finder = "joining" /\ UNCHANGED searchVars   \* a join that waits

\* The threads keep running; nobody has to start a search.
SearchFairness == (\A s \in Servers : WF_searchVars(WorkerStep(s))) /\ WF_searchVars(FinderStep)

FairSearchSpec == SearchInit /\ [][SearchNext]_searchVars /\ SearchFairness
-----------------------------------------------------------------------------
(* Properties *)

\* A search is stuck once it joins a thread that still needs mtx to end.
SearchStuck == finder = "joining" /\ \E s \in Selected : worker[s] # "ended"

\* Every search returns, all its threads joined (speed_estimator.cpp:191).
\* The code does not keep it: the caller joins with mtx locked.
SearchReturns == (finder = "waiting") ~> (finder = "returned")
=============================================================================
