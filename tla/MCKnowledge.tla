---------------------------- MODULE MCKnowledge ----------------------------
(***************************************************************************)
(* Instances of Knowledge for TLC: a directory whose file changes from one *)
(* import to the next.                                                     *)
(***************************************************************************)
EXTENDS Knowledge, TLC

CONSTANTS k1, k2, t1, t2, i1, i2, i3

\* The first import finds two files of one key, with another between them.
ChangingFiles ==
  (i1 :> <<[key |-> k1, text |-> t1], [key |-> k2, text |-> t1],
          [key |-> k1, text |-> t2]>>) @@
  (i2 :> <<[key |-> k1, text |-> t2]>>) @@
  (i3 :> <<[key |-> k1, text |-> t1]>>)

Interchangeable == Permutations(Publication)
=============================================================================
