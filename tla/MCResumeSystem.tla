---------------------------- MODULE MCResumeSystem ----------------------------
(***************************************************************************)
(* Two waiters with their runners, one experiment that reads the export of *)
(* one data set.                                                           *)
(***************************************************************************)
EXTENDS ResumeSystem

CONSTANTS p1, p2, d1

TwoWaiters == {p1, p2}
OneDataSet == <<d1>>
OneExperiment == <<[data |-> d1, tns |-> TRUE]>>
===============================================================================
