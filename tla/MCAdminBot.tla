----------------------------- MODULE MCAdminBot -----------------------------
(* AdminBot with symmetry among the users and among the backend's calls.   *)
EXTENDS AdminBot, TLC

Symmetry == Permutations(Users) \cup Permutations(Workers)
=============================================================================
