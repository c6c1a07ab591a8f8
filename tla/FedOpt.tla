------------------------------- MODULE FedOpt -------------------------------
(***************************************************************************)
(* GCP-FedOpt and GCP-FedAvg (Genten_GCP_FedOpt.hpp): every MPI rank takes *)
(* gradient steps on its own samples and its own copy of its factor        *)
(* blocks; every dp_iters steps the ranks that hold the same block average *)
(* it, and after epoch_iters steps all ranks judge the epoch together.     *)
(*                                                                         *)
(* A block of a factor matrix, a moment or a difference is abstracted to   *)
(* the set of gradient steps it contains: averaging is union.  A step with *)
(* a rate that is not a number puts NaN into it.                           *)
(***************************************************************************)
EXTENDS Integers, Sequences, FiniteSets, Functions

CONSTANTS Grid,         \* processes along each mode (CartGrid)
          EpochIters,   \* epoch_iters
          DpIters,      \* downpour_iters
          MaxEpochs,    \* maxiters
          MaxFails,     \* max_fails
          Tol,          \* gcp_tol
          LocalValues,  \* what the samples of one rank may add to the estimate
          Setups,       \* options tried: fed_method and the two step types
          NaN

Steppers == {"sgd", "adam", "adagrad", "momentum"}

Modes == 1 .. Len(Grid)

\* The coordinates of the ranks in the Cartesian communicator.
Ranks == {r \in [Modes -> UNION {0 .. Grid[n] - 1 : n \in Modes}] :
            \A n \in Modes : r[n] < Grid[n]}

ASSUME FedOptAssumption ==
  /\ Grid \in Seq(Nat \ {0}) /\ Len(Grid) >= 1
  /\ EpochIters \in Nat \ {0} /\ DpIters \in Nat \ {0}
  /\ MaxEpochs \in Nat /\ MaxFails \in Nat /\ Tol \in Int
  /\ LocalValues \subseteq Int
  /\ NaN \notin Int /\ NaN \notin Ranks \X Int \X Int
  /\ Setups \subseteq [method : {"avg", "opt"}, step : Steppers, metaStep : Steppers]

\* The sub-communicator of r for mode n: the ranks that hold the same block.
Group(r, n) == {q \in Ranks : q[n] = r[n]}

VARIABLES
  setup,
  curve,      \* ghost: the estimates of the initial guess and of each epoch
  pc, epoch, iter, mode,
  u, meta, best,          \* u, meta_u, u_best: a block for each mode
  wire,                   \* the buffers of the all-reduce: ut or Dfac
  stepper, metaStepper,
  fest, prev, nfails

vars == <<setup, curve, pc, epoch, iter, mode, u, meta, best, wire,
          stepper, metaStepper, fest, prev, nfails>>

-----------------------------------------------------------------------------
(* Steppers (Genten_GCP_SGD_Step.hpp): the moments m (s of AdaGrad, v of     *)
(* momentum), their last accepted values, the exponent t of beta1t and       *)
(* beta2t, the step and the rate that update() computed from it.             *)

Empty == [n \in Modes |-> {}]

NewStepper(kind) ==
  [kind |-> kind, m |-> Empty, mPrev |-> Empty, t |-> 0, step |-> "zero", rate |-> "zero"]

SetStep(s) == [s EXCEPT !.step = "set"]

\* adam_step: sqrt(1 - beta2^t) / (1 - beta1^t) is 0/0 for t = 0 and the root of
\* a negative number for t < 0.
Update(s) ==
  IF s.kind # "adam" THEN s
  ELSE [s EXCEPT !.t = @ + 1,
                 !.rate = IF s.t + 1 <= 0 THEN "nan" ELSE s.step]

Join(v, w) == [n \in Modes |-> v[n] \cup w[n]]

\* eval() in two parts: the moments after gradient g, and the step it takes.
Accumulate(s, g) == IF s.kind = "sgd" THEN s ELSE [s EXCEPT !.m = Join(@, g)]

Direction(s, g) ==
  CASE s.kind \in {"sgd", "adagrad"} -> g
    [] s.kind = "momentum" -> Join(s.m, g)
    [] s.kind = "adam" /\ s.rate = "set" -> Join(s.m, g)
    [] s.kind = "adam" /\ s.rate = "nan" -> [n \in Modes |-> {NaN}]
    [] s.kind = "adam" /\ s.rate = "zero" -> Empty

SetPassed(s) == IF s.kind \in {"adam", "adagrad"} THEN [s EXCEPT !.mPrev = s.m] ELSE s

\* (mutant) The exponent of beta1t and beta2t is not taken back.
SetFailedKeepsCount(s) ==
  CASE s.kind = "sgd" -> s
    [] s.kind = "momentum" -> [s EXCEPT !.m = Empty]
    [] s.kind \in {"adagrad", "adam"} -> [s EXCEPT !.m = s.mPrev]

SetFailed(s) ==
  CASE s.kind = "sgd" -> s
    [] s.kind = "momentum" -> [s EXCEPT !.m = Empty]
    [] s.kind = "adagrad" -> [s EXCEPT !.m = s.mPrev]
    [] s.kind = "adam" -> [s EXCEPT !.m = s.mPrev, !.t = @ - EpochIters]

-----------------------------------------------------------------------------
\* A gradient step of rank r; epoch 0 stands for its part of the initial guess.
Token(r, e, i) == [n \in Modes |-> {<<r, e, i>>}]

\* diff = meta_u - u
Difference(v, w) == [n \in Modes |-> (w[n] \ v[n]) \cup ({NaN} \cap (v[n] \cup w[n]))]

\* v > w of IEEE numbers: false as soon as one of them is NaN.
Greater(v, w) == NaN \notin {v, w} /\ v > w

\* fest is worse than before.
FailedEpoch(v, w) == Greater(v, w) \/ v = NaN

\* The sum of the estimates of all ranks.
Total(f) == IF \E r \in Ranks : f[r] = NaN THEN NaN
            ELSE FoldFunction(LAMBDA v, w : v + w, 0, f)

Totals == {Total(f) : f \in [Ranks -> LocalValues]}

Init ==
  /\ setup \in Setups
  /\ curve = <<>>
  /\ pc = [r \in Ranks |-> "reduce"]
  /\ epoch = [r \in Ranks |-> 0]
  /\ iter = [r \in Ranks |-> 0]
  /\ mode = [r \in Ranks |-> 1]
  /\ u = [r \in Ranks |-> Token(r, 0, 0)]
  /\ meta = [r \in Ranks |-> Empty]
  /\ best = [r \in Ranks |-> Empty]
  /\ wire = u
  /\ stepper = [r \in Ranks |-> NewStepper(setup.step)]
  /\ metaStepper = [r \in Ranks |-> NewStepper(setup.metaStep)]
  /\ fest = [r \in Ranks |-> NaN]
  /\ prev = [r \in Ranks |-> NaN]
  /\ nfails = [r \in Ranks |-> 0]

-----------------------------------------------------------------------------
\* (mutant) The last, short round of an epoch is not synchronised.
LocalStepWithoutLastSync(r) ==
  /\ pc[r] = "iter"
  /\ LET i == iter[r] + 1
         g == Token(r, epoch[r], i)
         s == Accumulate(Update(SetStep(stepper[r])), g)
         v == Join(u[r], Direction(s, g))
         sync == i % DpIters = 0
     IN /\ iter' = [iter EXCEPT ![r] = i]
        /\ stepper' = [stepper EXCEPT ![r] = s]
        /\ u' = [u EXCEPT ![r] = v]
        /\ pc' = [pc EXCEPT ![r] = IF sync THEN "reduce"
                                   ELSE IF i = EpochIters THEN "value" ELSE "iter"]
        /\ wire' = IF ~sync THEN wire
                   ELSE [wire EXCEPT ![r] = IF setup.method = "avg" THEN v
                                            ELSE Difference(meta[r], v)]
  /\ UNCHANGED <<setup, curve, epoch, mode, meta, best, metaStepper, fest, prev, nfails>>

\* do_epoch_iter, and diff = meta_u - u when a synchronisation follows.
LocalStep(r) ==
  /\ pc[r] = "iter"
  /\ LET i == iter[r] + 1
         g == Token(r, epoch[r], i)
         s == Accumulate(Update(SetStep(stepper[r])), g)
         v == Join(u[r], Direction(s, g))
         sync == i % DpIters = 0 \/ i = EpochIters
     IN /\ iter' = [iter EXCEPT ![r] = i]
        /\ stepper' = [stepper EXCEPT ![r] = s]
        /\ u' = [u EXCEPT ![r] = v]
        /\ pc' = [pc EXCEPT ![r] = IF sync THEN "reduce" ELSE "iter"]
        /\ wire' = IF ~sync THEN wire
                   ELSE [wire EXCEPT ![r] = IF setup.method = "avg" THEN v
                                            ELSE Difference(meta[r], v)]
  /\ UNCHANGED <<setup, curve, epoch, mode, meta, best, metaStepper, fest, prev, nfails>>

\* subGridAllReduce(n, ...): all ranks of the sub-communicator take part, each in
\* the n-th call of its loop over the modes.
SubGridAllReduce(n, G) ==
  /\ \A r \in G : pc[r] = "reduce" /\ mode[r] = n
  /\ wire' = [r \in Ranks |-> IF r \in G
                              THEN [wire[r] EXCEPT ![n] = UNION {wire[q][n] : q \in G}]
                              ELSE wire[r]]
  /\ mode' = [r \in Ranks |-> IF r \in G THEN n + 1 ELSE mode[r]]
  /\ UNCHANGED <<setup, curve, pc, epoch, iter, u, meta, best, stepper, metaStepper,
                 fest, prev, nfails>>

\* (mutant) One iteration too many.
AfterSyncLate(r) == IF iter[r] > EpochIters THEN "value" ELSE "iter"

AfterSync(r) == IF iter[r] = EpochIters THEN "value" ELSE "iter"

\* dtc_.allReduce(ut, true): the blocks are reduced in place.  After the first of
\* these, of the initial guess, u_best and meta_u are copied from u.
Averaged(r) ==
  /\ pc[r] = "reduce" /\ mode[r] > Len(Grid)
  /\ epoch[r] = 0 \/ setup.method = "avg"
  /\ u' = [u EXCEPT ![r] = wire[r]]
  /\ mode' = [mode EXCEPT ![r] = 1]
  /\ IF epoch[r] = 0
     THEN /\ best' = [best EXCEPT ![r] = wire[r]]
          /\ meta' = [meta EXCEPT ![r] = wire[r]]
          /\ pc' = [pc EXCEPT ![r] = "value"]
     ELSE /\ pc' = [pc EXCEPT ![r] = AfterSync(r)]
          /\ UNCHANGED <<best, meta>>
  /\ UNCHANGED <<setup, curve, epoch, iter, wire, stepper, metaStepper, fest, prev, nfails>>

\* The meta step on the averaged difference.  update() comes before setStep().
MetaStep(r) ==
  /\ pc[r] = "reduce" /\ mode[r] > Len(Grid)
  /\ epoch[r] > 0 /\ setup.method = "opt"
  /\ LET s == Accumulate(SetStep(Update(metaStepper[r])), wire[r])
         v == Join(meta[r], Direction(s, wire[r]))
     IN /\ metaStepper' = [metaStepper EXCEPT ![r] = s]
        /\ meta' = [meta EXCEPT ![r] = v]
        /\ u' = [u EXCEPT ![r] = v]
  /\ mode' = [mode EXCEPT ![r] = 1]
  /\ pc' = [pc EXCEPT ![r] = AfterSync(r)]
  /\ UNCHANGED <<setup, curve, epoch, iter, best, wire, stepper, fest, prev, nfails>>

\* (mutant) A rank whose own estimate is NaN stops by itself.
EvaluateOrQuit(r) ==
  /\ pc[r] = "value"
  /\ \E v \in LocalValues \cup {NaN} :
       /\ (\E n \in Modes : NaN \in u[r][n]) => v = NaN
       /\ fest' = [fest EXCEPT ![r] = v]
       /\ pc' = [pc EXCEPT ![r] = IF v = NaN THEN "done" ELSE "grid"]
  /\ UNCHANGED <<setup, curve, epoch, iter, mode, u, meta, best, wire, stepper,
                 metaStepper, prev, nfails>>

\* sampler.value: NaN anywhere in the model makes the estimate NaN.
Evaluate(r) ==
  /\ pc[r] = "value"
  /\ \E v \in LocalValues \cup {NaN} :
       /\ (\E n \in Modes : NaN \in u[r][n]) => v = NaN
       /\ fest' = [fest EXCEPT ![r] = v]
  /\ pc' = [pc EXCEPT ![r] = "grid"]
  /\ UNCHANGED <<setup, curve, epoch, iter, mode, u, meta, best, wire, stepper,
                 metaStepper, prev, nfails>>

\* (mutant) Each rank judges by its own samples.
GridAllReduceLocal ==
  /\ \A r \in Ranks : pc[r] = "grid"
  /\ curve' = Append(curve, Total(fest))
  /\ pc' = [r \in Ranks |-> "judge"]
  /\ UNCHANGED <<setup, epoch, iter, mode, u, meta, best, wire, stepper, metaStepper,
                 fest, prev, nfails>>

\* fest = pmap->gridAllReduce(fest)
GridAllReduce ==
  /\ \A r \in Ranks : pc[r] = "grid"
  /\ fest' = [r \in Ranks |-> Total(fest)]
  /\ curve' = Append(curve, Total(fest))
  /\ pc' = [r \in Ranks |-> "judge"]
  /\ UNCHANGED <<setup, epoch, iter, mode, u, meta, best, wire, stepper, metaStepper,
                 prev, nfails>>

\* The end of an epoch on rank r, up to the loop's condition, and u.set(u_best)
\* after the loop.
EpochEnds(r, f, v, b) ==
  /\ epoch' = [epoch EXCEPT ![r] = @ + 1]
  /\ iter' = [iter EXCEPT ![r] = 0]
  /\ LET stop == f > MaxFails \/ Greater(Tol, v) \/ epoch[r] = MaxEpochs
     IN /\ pc' = [pc EXCEPT ![r] = IF stop THEN "done" ELSE "iter"]
        /\ u' = [u EXCEPT ![r] = b]
  /\ UNCHANGED <<setup, curve, mode, wire>>

\* The loop begins with the estimate of the initial guess as fest_prev.
Start(r) ==
  /\ pc[r] = "judge" /\ epoch[r] = 0
  /\ prev' = [prev EXCEPT ![r] = fest[r]]
  /\ epoch' = [epoch EXCEPT ![r] = 1]
  /\ pc' = [pc EXCEPT ![r] = IF MaxEpochs = 0 THEN "done" ELSE "iter"]
  /\ UNCHANGED <<setup, curve, iter, mode, u, meta, best, wire, stepper, metaStepper,
                 fest, nfails>>

\* (mutant) The model of the epoch is not saved.
PassWithoutCopy(r) ==
  /\ pc[r] = "judge" /\ epoch[r] > 0
  /\ ~FailedEpoch(fest[r], prev[r])
  /\ prev' = [prev EXCEPT ![r] = fest[r]]
  /\ stepper' = [stepper EXCEPT ![r] = SetPassed(@)]
  /\ metaStepper' = [metaStepper EXCEPT ![r] = SetPassed(@)]
  /\ EpochEnds(r, nfails[r], fest[r], u[r])
  /\ UNCHANGED <<meta, best, fest, nfails>>

\* The epoch made nothing worse: it is the new "last epoch".
Pass(r) ==
  /\ pc[r] = "judge" /\ epoch[r] > 0
  /\ ~FailedEpoch(fest[r], prev[r])
  /\ best' = [best EXCEPT ![r] = u[r]]
  /\ prev' = [prev EXCEPT ![r] = fest[r]]
  /\ stepper' = [stepper EXCEPT ![r] = SetPassed(@)]
  /\ metaStepper' = [metaStepper EXCEPT ![r] = SetPassed(@)]
  /\ EpochEnds(r, nfails[r], fest[r], u[r])
  /\ UNCHANGED <<meta, fest, nfails>>

\* (mutant) The meta model keeps what the failed epoch did.
FailKeepsMeta(r) ==
  /\ pc[r] = "judge" /\ epoch[r] > 0
  /\ FailedEpoch(fest[r], prev[r])
  /\ nfails' = [nfails EXCEPT ![r] = @ + 1]
  /\ fest' = [fest EXCEPT ![r] = prev[r]]
  /\ stepper' = [stepper EXCEPT ![r] = SetFailed(@)]
  /\ metaStepper' = [metaStepper EXCEPT ![r] = SetFailed(@)]
  /\ EpochEnds(r, nfails[r] + 1, prev[r], best[r])
  /\ UNCHANGED <<meta, best, prev>>

\* (mutant) The next epoch is compared with the failed one.
FailComparesOn(r) ==
  /\ pc[r] = "judge" /\ epoch[r] > 0
  /\ FailedEpoch(fest[r], prev[r])
  /\ nfails' = [nfails EXCEPT ![r] = @ + 1]
  /\ meta' = [meta EXCEPT ![r] = best[r]]
  /\ prev' = [prev EXCEPT ![r] = fest[r]]
  /\ stepper' = [stepper EXCEPT ![r] = SetFailed(@)]
  /\ metaStepper' = [metaStepper EXCEPT ![r] = SetFailed(@)]
  /\ EpochEnds(r, nfails[r] + 1, prev[r], best[r])
  /\ UNCHANGED <<best, fest>>

\* The epoch is undone: "restart from last epoch".
Fail(r) ==
  /\ pc[r] = "judge" /\ epoch[r] > 0
  /\ FailedEpoch(fest[r], prev[r])
  /\ nfails' = [nfails EXCEPT ![r] = @ + 1]
  /\ meta' = [meta EXCEPT ![r] = best[r]]
  /\ fest' = [fest EXCEPT ![r] = prev[r]]
  /\ stepper' = [stepper EXCEPT ![r] = SetFailed(@)]
  /\ metaStepper' = [metaStepper EXCEPT ![r] = SetFailed(@)]
  /\ EpochEnds(r, nfails[r] + 1, prev[r], best[r])
  /\ UNCHANGED <<best, prev>>

Next ==
  \/ \E r \in Ranks : \/ LocalStep(r) \/ Averaged(r) \/ MetaStep(r) \/ Evaluate(r)
                      \/ Start(r) \/ Pass(r) \/ Fail(r)
  \/ \E n \in Modes, r \in Ranks : SubGridAllReduce(n, Group(r, n))
  \/ GridAllReduce

Spec == Init /\ [][Next]_vars /\ WF_vars(Next)

-----------------------------------------------------------------------------
Blocks == [Modes -> SUBSET ({NaN} \cup (Ranks \X Int \X Int))]

StepperType == [kind : Steppers, m : Blocks, mPrev : Blocks, t : Int,
                step : {"zero", "set"}, rate : {"zero", "set", "nan"}]

\* Types.
TypeOK ==
  /\ setup \in Setups
  /\ curve \in Seq(Int \cup {NaN})
  /\ pc \in [Ranks -> {"iter", "reduce", "value", "grid", "judge", "done"}]
  /\ epoch \in [Ranks -> 0 .. MaxEpochs + 1]
  /\ iter \in [Ranks -> 0 .. EpochIters]
  /\ mode \in [Ranks -> 1 .. Len(Grid) + 1]
  /\ {u, meta, best, wire} \subseteq [Ranks -> Blocks]
  /\ {stepper, metaStepper} \subseteq [Ranks -> StepperType]
  /\ {fest, prev} \subseteq [Ranks -> Int \cup {NaN}]
  /\ nfails \in [Ranks -> Nat]

-----------------------------------------------------------------------------
(* What the estimates say by themselves, without fest_prev and nfails.       *)

\* The epochs that made no earlier estimate worse, and the initial guess.
Passed == {e \in 0 .. Len(curve) - 1 :
             e = 0 \/ /\ curve[e + 1] # NaN
                      /\ \A d \in 0 .. e - 1 : ~Greater(curve[e + 1], curve[d + 1])}

\* The epochs before the one that r runs that passed.
PassedBefore(r) == {e \in Passed : e < epoch[r]}

\* The gradient steps in block n of a model that contains the epochs E.
WholeModel(E, r, n) ==
  {<<q, 0, 0>> : q \in Group(r, n)}
    \cup {<<q, e, i>> : q \in Group(r, n), e \in E \ {0}, i \in 1 .. EpochIters}

\* r stands between two epochs, or between its last synchronisation and the end of
\* its epoch.
BetweenEpochs(r) == pc[r] \in {"iter", "done"} /\ iter[r] = 0
Judges(r) == pc[r] \in {"value", "grid", "judge"}

\* The ranks judge every epoch alike, although each does so by its own variables,
\* and none is more than one decision ahead.
RanksDecideAlike ==
  \A r, q \in Ranks :
    /\ epoch[r] <= epoch[q] + 1
    /\ epoch[r] = epoch[q] => /\ prev[r] = prev[q]
                              /\ nfails[r] = nfails[q]
                              /\ pc[r] = "done" <=> pc[q] = "done"

\* All copies of a block are the same after each synchronisation and at the start
\* of each epoch, and so is what the meta stepper remembers of it ("Everyone agrees
\* that meta_u is the new factors").
ReplicasAgree ==
  \A n \in Modes : \A r \in Ranks : \A q \in Group(r, n) :
    (epoch[r] = epoch[q] /\ (\/ BetweenEpochs(r) /\ BetweenEpochs(q)
                             \/ Judges(r) /\ Judges(q)))
      => /\ u[r][n] = u[q][n]
         /\ meta[r][n] = meta[q][n]
         /\ best[r][n] = best[q][n]
         /\ metaStepper[r].m[n] = metaStepper[q].m[n]
         /\ metaStepper[r].t = metaStepper[q].t

\* Whatever failed epochs did is undone when the next one starts: in the model, in
\* the meta model, and in the moments of both steppers on every rank.
FailedEpochsAreForgotten ==
  \A r \in Ranks : BetweenEpochs(r) =>
    \A n \in Modes :
      \A x \in UNION {u[r][n], meta[r][n], best[r][n], stepper[r].m[n], metaStepper[r].m[n]} :
        x # NaN /\ x[2] \in PassedBefore(r)

\* The bias correction of the local steppers counts the steps of the passed epochs
\* only ("restart from last epoch").
LocalStepperIsRestored ==
  \A r \in Ranks : BetweenEpochs(r) /\ stepper[r].kind = "adam" =>
    stepper[r].t = EpochIters * Cardinality(PassedBefore(r) \ {0})

\* The same of the meta stepper, which takes one step for each synchronisation.
Syncs == {i \in 1 .. EpochIters : i % DpIters = 0 \/ i = EpochIters}

MetaStepperIsRestored ==
  \A r \in Ranks : BetweenEpochs(r) /\ metaStepper[r].kind = "adam" /\ setup.method = "opt" =>
    metaStepper[r].t = Cardinality(Syncs) * Cardinality(PassedBefore(r) \ {0})

\* The model that is returned holds every step of every rank in every epoch that
\* passed, and no other.
ModelIsWhole ==
  \A r \in Ranks : pc[r] = "done" =>
    \A n \in Modes : u[r][n] = WholeModel(PassedBefore(r), r, n)

\* No rank waits for ever in a collective call that another rank does not make.
AllFinish == <>(\A r \in Ranks : pc[r] = "done")

-----------------------------------------------------------------------------
(* The ranks together run the loop of one process: the abstract state is that of the *)
(* rank that is last to decide.                                                      *)

Slowest == CHOOSE r \in Ranks : \A q \in Ranks : epoch[r] <= epoch[q]

Solo == INSTANCE GcpSgd WITH
  Estimates <- Totals,
  epoch <- epoch[Slowest],
  kept <- IF epoch[Slowest] = 0 THEN {} ELSE {x[2] : x \in best[Slowest][1]},
  prev <- prev[Slowest],
  fails <- nfails[Slowest],
  done <- pc[Slowest] = "done"

\* Any number of ranks judge, keep and undo epochs as GCPSGD::solve does, and stop
\* when it stops.
ImplementsGcpSgd == Solo!Spec
=============================================================================
