-------------------------- MODULE MCServerSessions --------------------------
(* Bounded instance of ServerSessions for TLC. *)
EXTENDS ServerSessions

CONSTANTS c1, c2, s1, s2, u1, a1, b1, b2

Req(s, u, exp) ==
  [session_id |-> s, username |-> u, sends |-> FALSE, expires |-> exp]

\* One user's pooled connection that expires and a plain one of another
\* session: addresses, joins, expiry and both orders of release occur.
MCRequests == {Req(s1, u1, TRUE), Req(s2, u1, FALSE)}
=============================================================================
