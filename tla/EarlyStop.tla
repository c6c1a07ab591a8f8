------------------------------- MODULE EarlyStop -------------------------------
(***************************************************************************)
(* When each of the four programs stops training: tc_converge of cuTC,     *)
(* the epoch loop of cpals_blco_dev, the GenTen epoch tool and CoSTCo's    *)
(* main.  Each compares the monitored RMSE of an epoch with the best one   *)
(* and gives up after Patience epochs that are not better by more than     *)
(* Tolerance.  The comparison of the programs rests on their doing this    *)
(* alike, so all of them judge the same curve here, one epoch at a time;   *)
(* RMSEs are whole multiples of some unit.                                 *)
(***************************************************************************)
EXTENDS Integers, Sequences, FiniteSets

CONSTANTS
  MaxRmse,    \* the largest finite RMSE
  NaN,        \* the RMSE of a model that diverged
  Tolerance,  \* tolerance, rmse_min_improve
  Patience,   \* max_badepochs, max_bad_epochs, rmse_patience, patience
  MaxEpochs,  \* max_iterate, maxiter, maxiters, epochs
  BEST_RMSE,  \* base.h: the best RMSE of cuTC before the first epoch
  Infinity    \* float("inf")

Rmse == 0 .. MaxRmse
Program == {"cutc", "blco", "genten", "costco"}

\* BEST_RMSE is 1e7, far above the RMSE of a first model.
ASSUME StopAssumption ==
  /\ {MaxRmse, Tolerance} \subseteq Nat
  /\ {Patience, MaxEpochs} \subseteq Nat \ {0}
  /\ NaN \notin Int
  /\ {BEST_RMSE, Infinity} \subseteq Nat
  /\ BEST_RMSE > MaxRmse + Tolerance /\ Infinity > MaxRmse + Tolerance

VARIABLES
  curve,   \* curve[e + 1]: the monitored RMSE after epoch e
  best,    \* best_rmse, best_stop_rmse, best_val of each program
  bad,     \* nbadepochs, bad_epochs, rmse_no_improve
  state,   \* running, or why the program ended
  ended,   \* the epochs it ran
  kept     \* bestepochs: the epoch whose model cuTC holds in best_mats

stopVars == <<curve, best, bad, state, ended, kept>>

At(e) == curve[e + 1]
Epochs == Len(curve) - 1

Improves(p, v) == v # NaN /\ v + Tolerance < best[p]

\* Before training cuTC judges its first model, BLCO takes its RMSE for the
\* best, and the others do neither.
Init ==
  \E v \in Rmse :
    /\ curve = <<v>>
    /\ best = [cutc |-> IF v + Tolerance < BEST_RMSE THEN v ELSE BEST_RMSE,
               blco |-> v, genten |-> Infinity, costco |-> Infinity]
    /\ bad = [p \in Program |-> IF p = "cutc" /\ v + Tolerance >= BEST_RMSE THEN 1 ELSE 0]
    /\ state = [p \in Program |-> "running"]
    /\ ended = [p \in Program |-> 0]
    /\ kept = 0

\* (mutant) Every decrease moves the best RMSE and still counts as a bad epoch.
BestFollows(p, v) ==
  IF Improves(p, v) THEN [best |-> v, bad |-> 0]
  ELSE [best |-> IF v # NaN /\ v < best[p] THEN v ELSE best[p], bad |-> bad[p] + 1]

\* (mutant) A good epoch does not clear the count.
CountAll(p, v) ==
  IF Improves(p, v) THEN [best |-> v, bad |-> bad[p]]
  ELSE [best |-> best[p], bad |-> bad[p] + 1]

\* The best RMSE and the bad epochs of p after an epoch that gave v.  GenTen
\* passes over what is not finite.
Judge(p, v) ==
  IF Improves(p, v) THEN [best |-> v, bad |-> 0]
  ELSE IF p = "genten" /\ v = NaN THEN [best |-> best[p], bad |-> bad[p]]
  ELSE [best |-> best[p], bad |-> bad[p] + 1]

\* (mutant) BLCO gives up one epoch later.
VerdictLate(p, v, n) ==
  IF p = "blco" /\ v = NaN THEN "diverged"
  ELSE IF Judge(p, v).bad >= Patience + (IF p = "blco" THEN 1 ELSE 0) THEN "stalled"
  ELSE IF n = MaxEpochs THEN "finished"
  ELSE "running"

\* What p does after epoch n.  BLCO ends when the fit, and with it the RMSE,
\* is NaN.
Verdict(p, v, n) ==
  IF p = "blco" /\ v = NaN THEN "diverged"
  ELSE IF Judge(p, v).bad >= Patience THEN "stalled"
  ELSE IF n = MaxEpochs THEN "finished"
  ELSE "running"

\* (mutant) The checkpoint moves only when the epoch counts as an improvement.
KeepImproved(v, n) == IF v # NaN /\ v + Tolerance < At(kept) THEN n ELSE kept

\* best_mats takes every model with a smaller RMSE, whatever the tolerance.
Keep(v, n) == IF v # NaN /\ v < At(kept) THEN n ELSE kept

\* One more epoch of every program that still runs.
Epoch(v) ==
  LET n == Len(curve)
      on(p) == state[p] = "running"
  IN /\ \E p \in Program : on(p)
     /\ curve' = Append(curve, v)
     /\ best' = [p \in Program |-> IF on(p) THEN Judge(p, v).best ELSE best[p]]
     /\ bad' = [p \in Program |-> IF on(p) THEN Judge(p, v).bad ELSE bad[p]]
     /\ state' = [p \in Program |-> IF on(p) THEN Verdict(p, v, n) ELSE state[p]]
     /\ ended' = [p \in Program |-> IF on(p) THEN n ELSE ended[p]]
     /\ kept' = IF on("cutc") THEN Keep(v, n) ELSE kept

\* All programs have ended.
AllEnded == (\A p \in Program : state[p] # "running") /\ UNCHANGED stopVars

Next == (\E v \in Rmse \union {NaN} : Epoch(v)) \/ AllEnded

Spec == Init /\ [][Next]_stopVars

-------------------------------------------------------------------------------

TypeOK ==
  /\ curve \in Seq(Rmse \union {NaN}) /\ Len(curve) \in 1 .. MaxEpochs + 1
  /\ best \in [Program -> Nat]
  /\ bad \in [Program -> 0 .. Patience]
  /\ state \in [Program -> {"running", "stalled", "diverged", "finished"}]
  /\ ended \in [Program -> 0 .. Epochs]
  /\ kept \in 0 .. ended["cutc"]

\* The epochs that p has judged: cuTC and BLCO start from the RMSE before
\* training, GenTen takes no account of NaN.
Judged(p) ==
  {e \in 0 .. ended[p] : /\ p \in {"genten", "costco"} => e > 0
                         /\ p = "genten" => At(e) # NaN}

\* What the tools print, "did not improve by <tolerance> for <patience>
\* epochs": there is an epoch better than all before it, after which Patience
\* epochs were judged and none was better by more than the tolerance.
StopMeansStalled ==
  \A p \in Program : state[p] = "stalled" =>
    \E from \in 0 .. ended[p] :
      LET after == {e \in Judged(p) : e > from}
      IN /\ Cardinality(after) = Patience
         /\ \A e \in after : At(e) = NaN \/ (At(from) # NaN /\ At(e) + Tolerance >= At(from))
         /\ \A e \in Judged(p) : e < from /\ At(e) # NaN => At(from) # NaN /\ At(from) < At(e)

\* Patience judged epochs, none of them below all judged before them, stop a
\* program at once.
StallMeansStopped ==
  \A p \in Program : state[p] = "running" =>
    \A from \in Judged(p) :
      LET after == {e \in Judged(p) : e > from}
          before == {e \in Judged(p) : e <= from /\ At(e) # NaN}
      IN (\A e \in after : At(e) = NaN \/ \E d \in before : At(e) >= At(d)) =>
           Cardinality(after) < Patience

\* The model cuTC returns is, as a comment in sgd.cu says, "the true best-epoch
\* model": no epoch it ran had a smaller RMSE, and none before it the same.
BestIsReturned ==
  \A e \in 0 .. ended["cutc"] :
    At(e) # NaN => At(kept) <= At(e) /\ (e < kept => At(kept) < At(e))

\* On a curve without NaN whose first epoch is a clear improvement, all four
\* programs train for the same number of epochs and for the same reason.
SameStop ==
  (\A e \in 0 .. Epochs : At(e) # NaN) /\ (Epochs > 0 => At(1) + Tolerance < At(0)) =>
    \A p, q \in Program : state[p] = state[q] /\ ended[p] = ended[q]
===============================================================================
