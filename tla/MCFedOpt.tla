------------------------------ MODULE MCFedOpt ------------------------------
(***************************************************************************)
(* A grid of processes over two modes, in which each block is held by two  *)
(* ranks, and the combinations of options that are tried.                  *)
(***************************************************************************)
EXTENDS FedOpt

TwoByTwo == <<2, 2>>
AverageAndOptimise == {[method |-> "avg", step |-> "adam", metaStep |-> "sgd"],
             [method |-> "opt", step |-> "momentum", metaStep |-> "adam"],
             [method |-> "opt", step |-> "adagrad", metaStep |-> "adagrad"]}
TwoByOne == <<2, 1>>
MetaAdam == {[method |-> "opt", step |-> "sgd", metaStep |-> "adam"]}
=============================================================================
