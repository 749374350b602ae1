------------------------------ MODULE ApiClient ------------------------------
(***************************************************************************)
(* Requests to a server (https/api_client/api_client.cpp).  Get, Post and  *)
(* TestHandshake run their work on a thread of its own; the caller waits   *)
(* for the result on a condition variable, for so many seconds, and joins  *)
(* the thread.  Every step of the work has a timeout, and all of them      *)
(* together may take longer than the caller waits.                         *)
(***************************************************************************)
EXTENDS Naturals

CONSTANT Callers    \* the threads that make requests, one at a time each

VARIABLES
  call,     \* where the caller is in ExecuteWithTimeout
  job,      \* what is asked for, and where the thread that asks for it is
  answer    \* SharedState::result

requestVars == <<call, job, answer>>

NoJob == [for |-> "none", at |-> "none"]

\* The steps of a request, once the port is open: the connection, the fake
\* handshake of a reality mode, TLS, and what is asked for.
GetImpl(at) ==
  CASE at = "connect"  -> "fake"
    [] at = "fake"     -> "tls"
    [] at = "tls"      -> "exchange"
    [] at = "exchange" -> "storing"

TestHandshakeImpl(at) ==
  CASE at = "connect" -> "fake"
    [] at = "fake"    -> "tls"
    [] at = "tls"     -> "storing"

\* IsPortOpen connects to the port, with a timeout of its own, before the rest.
IsPortOpen == "connect"

Follows(j) ==
  IF j.at = "port" THEN IsPortOpen
  ELSE IF j.for = "handshake" THEN TestHandshakeImpl(j.at) ELSE GetImpl(j.at)

Works(c) == job[c].at \in {"port", "connect", "fake", "tls", "exchange"}

\* A failed fake handshake ends a request; a test of the handshake goes on.
PerformFakeHandshake(c) == job[c].at = "fake" /\ job[c].for = "handshake"

Ask(c, for) ==
  /\ call[c] = "idle"
  /\ call' = [call EXCEPT ![c] = "waiting"]
  /\ job' = [job EXCEPT ![c] = [for |-> for, at |-> "port"]]
  /\ answer' = [answer EXCEPT ![c] = "none"]

\* The port is open, the name resolves and the connection stands, the
\* certificate is the expected one, the response is read.
Proceed(c) ==
  /\ Works(c)
  /\ job' = [job EXCEPT ![c].at = Follows(job[c])]
  /\ answer' = [answer EXCEPT ![c] = IF Follows(job[c]) = "storing" THEN "ok" ELSE "none"]
  /\ UNCHANGED call

\* A step fails or runs into its own timeout; exceptions become a response.
GiveUp(c) ==
  /\ Works(c)
  /\ ~PerformFakeHandshake(c)
  /\ job' = [job EXCEPT ![c].at = "storing"]
  /\ answer' = [answer EXCEPT ![c] = "failed"]
  /\ UNCHANGED call

\* wait_for gives the mutex up only while it waits.
MutexFree(c) == call[c] = "waiting"

StoreAnswer(c) ==
  /\ job[c].at = "storing"
  /\ MutexFree(c)
  /\ job' = [job EXCEPT ![c].at = "ended"]
  /\ UNCHANGED <<call, answer>>

\* wait_for returns with the mutex: the result is there, or it is late.
WaitEnds(c) ==
  /\ call[c] = "waiting"
  /\ call' = [call EXCEPT ![c] = IF job[c].at = "ended" THEN "served" ELSE "timedOut"]
  /\ UNCHANGED <<job, answer>>

\* The thread is joined with the mutex held, be it late or not.
Join(c) ==
  /\ call[c] \in {"served", "timedOut"}
  /\ job[c].at = "ended"
  /\ call' = [call EXCEPT ![c] = "over"]
  /\ UNCHANGED <<job, answer>>

\* The caller has its response.
TakeAnswer(c) ==
  /\ call[c] = "over"
  /\ call' = [call EXCEPT ![c] = "idle"]
  /\ job' = [job EXCEPT ![c] = NoJob]
  /\ answer' = [answer EXCEPT ![c] = "none"]

RequestStep(c) == Proceed(c) \/ GiveUp(c) \/ StoreAnswer(c) \/ WaitEnds(c) \/ Join(c)

RequestInit ==
  /\ call = [c \in Callers |-> "idle"]
  /\ job = [c \in Callers |-> NoJob]
  /\ answer = [c \in Callers |-> "none"]

\* The thread needs the mutex that its caller holds while joining it.
Stuck(c) == call[c] = "timedOut" /\ job[c].at = "storing"
=============================================================================
