----------------------------- MODULE MCSplitRunner -----------------------------
(***************************************************************************)
(* Two data sets and three experiments: two of them on the same data, one  *)
(* by a program that reads the export and one by a program that does not.  *)
(***************************************************************************)
EXTENDS SplitRunner, TLC

CONSTANTS r1, r2, r3, d1, d2

ThreeRunners == {r1, r2, r3}
TwoDataSets == <<d1, d2>>
ThreeExperiments ==
  <<[data |-> d1, tns |-> TRUE], [data |-> d1, tns |-> FALSE], [data |-> d2, tns |-> TRUE]>>
Interchangeable == Permutations(Runner)
===============================================================================
