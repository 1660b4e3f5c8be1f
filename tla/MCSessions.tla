----------------------------- MODULE MCSessions -----------------------------
(***************************************************************************)
(* Instances of Sessions for TLC.                                          *)
(***************************************************************************)
EXTENDS Sessions, TLC

Interchangeable ==
  Permutations(Request) \cup Permutations(Session) \cup Permutations(Bootstrap)
    \cup Permutations(Email)
=============================================================================
