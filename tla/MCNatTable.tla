----------------------------- MODULE MCNatTable -----------------------------
(* Bounded instance of NatTable for TLC. *)
EXTENDS NatTable, TLC

CONSTANTS c1, c2, c3, c4, s1, s2, u1, u2, a1, a2, b1, b2

Req(s, u, snd, exp) ==
  [session_id |-> s, username |-> u, sends |-> snd, expires |-> exp]

\* A pooled connection with a send window and a ttl, a plain bidirectional
\* one, another user's claim on the same session, and a second session.
MCRequests == {Req(s1, u1, TRUE, TRUE), Req(s1, u1, FALSE, FALSE),
               Req(s1, u2, TRUE, TRUE), Req(s2, u2, FALSE, TRUE)}

Symmetry == Permutations(Clients)
=============================================================================
