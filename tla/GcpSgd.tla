------------------------------- MODULE GcpSgd -------------------------------
(***************************************************************************)
(* The epoch loop of GCP-SGD as one process runs it (GCPSGD::solve): an    *)
(* epoch that makes the objective estimate worse is undone, one that does  *)
(* not is kept.  The model is abstracted to the set of epochs whose steps  *)
(* it contains; epoch 0 is the initial guess.                              *)
(***************************************************************************)
EXTENDS Integers

CONSTANTS MaxEpochs,    \* maxiters
          MaxFails,     \* max_fails
          Tol,          \* gcp_tol
          Estimates,    \* the values an estimate may have, numbers
          NaN

VARIABLES epoch,        \* numEpochs, 0 before the first estimate
          kept,         \* the epochs in u_prev
          prev,         \* fest_prev
          fails,        \* nfails
          done

vars == <<epoch, kept, prev, fails, done>>

\* v > w of IEEE numbers: false as soon as one of them is NaN.
Greater(v, w) == NaN \notin {v, w} /\ v > w

\* failed_epoch
Failed(v, w) == Greater(v, w) \/ v = NaN

\* The break at the end of the loop, and the loop's condition.
Stops(f, v, e) == f > MaxFails \/ Greater(Tol, v) \/ e = MaxEpochs

Init ==
  /\ epoch = 0 /\ kept = {} /\ prev = NaN /\ fails = 0
  /\ done = FALSE

\* The estimate of the initial guess.
Start ==
  /\ epoch = 0 /\ ~done
  /\ prev' \in Estimates \cup {NaN}
  /\ epoch' = 1 /\ kept' = {0}
  /\ done' = (MaxEpochs = 0)
  /\ UNCHANGED fails

Pass ==
  /\ epoch > 0 /\ ~done
  /\ \E v \in Estimates \cup {NaN} : ~Failed(v, prev) /\ prev' = v
  /\ kept' = kept \cup {epoch}
  /\ epoch' = epoch + 1
  /\ done' = Stops(fails, prev', epoch)
  /\ UNCHANGED fails

Fail ==
  /\ epoch > 0 /\ ~done
  /\ \E v \in Estimates \cup {NaN} : Failed(v, prev)
  /\ fails' = fails + 1
  /\ epoch' = epoch + 1
  /\ done' = Stops(fails', prev, epoch)
  /\ UNCHANGED <<kept, prev>>

Next == Start \/ Pass \/ Fail

Spec == Init /\ [][Next]_vars
=============================================================================
