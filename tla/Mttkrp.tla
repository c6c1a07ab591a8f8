-------------------------------- MODULE Mttkrp --------------------------------
(***************************************************************************)
(* What a caller of mttkrp_alto_dev_onemode relies on: it asks for the     *)
(* MTTKRP of one mode, and when the device has been synchronised the sum   *)
(* over the nonzeros, each of them counted once, has been added to the     *)
(* result matrix, which the caller cleared before or not.  How the         *)
(* nonzeros are cut into blocks and streams does not show.                 *)
(***************************************************************************)
EXTENDS Naturals

CONSTANTS
  Nonzero,
  Clears    \* the caller clears the matrix before each call

VARIABLES
  busy,    \* a call is under way
  result   \* the matrix when the last call ended, or the next began: is what was
           \* in it at first still there, and how often has each nonzero been added

mttkrpVars == <<busy, result>>

Init == busy = FALSE /\ result = [initial |-> TRUE, times |-> [x \in Nonzero |-> 0]]

Call ==
  /\ ~busy /\ busy' = TRUE
  /\ result' = IF Clears THEN [initial |-> FALSE, times |-> [x \in Nonzero |-> 0]] ELSE result

Return ==
  /\ busy /\ busy' = FALSE
  /\ result' = [result EXCEPT !.times = [x \in Nonzero |-> result.times[x] + 1]]

Spec == Init /\ [][Call \/ Return]_mttkrpVars /\ WF_mttkrpVars(Return)
===============================================================================
