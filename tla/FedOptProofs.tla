---------------------------- MODULE FedOptProofs ----------------------------
(***************************************************************************)
(* The ranks of GCP-FedOpt judge every epoch alike, on every grid and for  *)
(* every number of iterations, epochs and failures allowed; and what each  *)
(* rank decides from its own variables is what the estimates say.          *)
(*                                                                         *)
(* RanksDecideAlike is not inductive: it says nothing of the estimate the  *)
(* ranks are about to judge.  When one rank has judged and another has not *)
(* yet, what the first one kept must be what the second one is going to    *)
(* keep; PrevAfter, FailsAfter and StopsAfter are that verdict.  TypeOK    *)
(* needs the line at which a rank can be with each count (Place), and      *)
(* LocalStepperIsRestored that fest_prev is the least estimate so far      *)
(* (LeastBefore), so that the verdict is the one Passed gives.             *)
(*                                                                         *)
(* The second half is about what is in the model, and ends with the        *)
(* refinement of GcpSgd.                                                   *)
(***************************************************************************)
EXTENDS FedOpt, FiniteSetTheorems, FunctionTheorems, TLAPS

\* The epoch of r counts as failed; the initial guess never does.
Fails(r) == epoch[r] > 0 /\ FailedEpoch(fest[r], prev[r])

PrevAfter(r) == IF Fails(r) THEN prev[r] ELSE fest[r]
FailsAfter(r) == IF Fails(r) THEN nfails[r] + 1 ELSE nfails[r]
StopsAfter(r) ==
  \/ epoch[r] = MaxEpochs
  \/ epoch[r] > 0 /\ (FailsAfter(r) > MaxFails \/ Greater(Tol, PrevAfter(r)))

\* Two ranks in the same epoch.
Level(r, q) ==
  /\ prev[r] = prev[q] /\ nfails[r] = nfails[q]
  /\ pc[r] = "done" <=> pc[q] = "done"
  /\ pc[r] = "judge" <=> pc[q] = "judge"
  /\ pc[r] = "judge" => fest[r] = fest[q]

\* q has judged the epoch that r is about to judge.
Ahead(q, r) ==
  /\ pc[r] = "judge" /\ pc[q] # "judge"
  /\ prev[q] = PrevAfter(r) /\ nfails[q] = FailsAfter(r)
  /\ pc[q] = "done" <=> StopsAfter(r)

OfRanks(f) == f = [r \in Ranks |-> f[r]]

DecisionShape ==
  /\ epoch \in [Ranks -> Nat]
  /\ OfRanks(pc) /\ OfRanks(prev) /\ OfRanks(nfails) /\ OfRanks(fest)

Pair(r, q) ==
  /\ epoch[r] <= epoch[q] + 1
  /\ epoch[r] = epoch[q] => Level(r, q)
  /\ epoch[r] = epoch[q] + 1 => Ahead(r, q)

DecisionInv == DecisionShape /\ \A r, q \in Ranks : Pair(r, q)

LEMMA DecisionInit == Init => DecisionInv
<1> SUFFICES ASSUME Init PROVE DecisionInv
  OBVIOUS
<1>1. DecisionShape
  BY DEF Init, DecisionShape, OfRanks
<1>2. ASSUME NEW r \in Ranks, NEW q \in Ranks PROVE Pair(r, q)
  BY DEF Init, Pair, Level
<1> QED
  BY <1>1, <1>2 DEF DecisionInv

\* What one rank does inside an epoch is no decision.
LEMMA WorkKeepsDecisions ==
  ASSUME DecisionInv, NEW r \in Ranks, NEW s,
         pc[r] \notin {"judge", "done"}, s \notin {"judge", "done"},
         pc' = [pc EXCEPT ![r] = s],
         UNCHANGED <<epoch, prev, nfails>>,
         OfRanks(fest)',
         \A q \in Ranks \ {r} : fest'[q] = fest[q]
  PROVE  DecisionInv'
<1>1. DecisionShape'
  BY DEF DecisionInv, DecisionShape, OfRanks
<1>2. /\ pc'[r] = s
      /\ \A q \in Ranks \ {r} : pc'[q] = pc[q]
  BY DEF DecisionInv, DecisionShape, OfRanks
<1>3. ASSUME NEW a \in Ranks, NEW b \in Ranks PROVE Pair(a, b)'
  <2>1. Pair(a, b) /\ epoch[a] \in Nat /\ epoch[b] \in Nat
    BY DEF DecisionInv, DecisionShape
  <2>2. ASSUME epoch[a] = epoch[b] PROVE Level(a, b)'
    BY <1>2, <2>1, <2>2 DEF Pair, Level
  <2>3. ASSUME epoch[a] = epoch[b] + 1 PROVE Ahead(a, b)'
    <3>1. Ahead(a, b) /\ b # r
      BY <2>1, <2>3 DEF Pair, Ahead
    <3>2. /\ fest'[b] = fest[b] /\ pc'[b] = pc[b]
          /\ PrevAfter(b)' = PrevAfter(b) /\ FailsAfter(b)' = FailsAfter(b)
          /\ StopsAfter(b)' = StopsAfter(b)
      BY <1>2, <3>1 DEF PrevAfter, FailsAfter, StopsAfter, Fails
    <3> QED
      BY <1>2, <3>1, <3>2 DEF Ahead
  <2> QED
    BY <2>1, <2>2, <2>3 DEF Pair
<1> QED
  BY <1>1, <1>3 DEF DecisionInv

\* The ranks meet in gridAllReduce in the same epoch and leave it with one estimate.
LEMMA ReduceKeepsDecisions == DecisionInv /\ GridAllReduce => DecisionInv'
<1> SUFFICES ASSUME DecisionInv, GridAllReduce PROVE DecisionInv'
  OBVIOUS
<1>1. DecisionShape'
  BY DEF DecisionInv, DecisionShape, OfRanks, GridAllReduce
<1>2. ASSUME NEW a \in Ranks, NEW b \in Ranks PROVE Pair(a, b)'
  <2>1. /\ Pair(a, b) /\ Pair(b, a)
        /\ epoch[a] \in Nat /\ epoch[b] \in Nat
        /\ pc[a] = "grid" /\ pc[b] = "grid"
    BY DEF DecisionInv, DecisionShape, GridAllReduce
  <2>2. epoch[a] = epoch[b] /\ Level(a, b)
    BY <2>1 DEF Pair, Ahead
  <2>3. /\ pc'[a] = "judge" /\ pc'[b] = "judge"
        /\ fest'[a] = fest'[b]
        /\ epoch' = epoch /\ prev' = prev /\ nfails' = nfails
    BY DEF GridAllReduce
  <2> QED
    BY <2>1, <2>2, <2>3 DEF Pair, Level
<1> QED
  BY <1>1, <1>2 DEF DecisionInv

\* A decision of one rank, in any order with those of the others.
Decides(r) ==
  /\ pc[r] = "judge"
  /\ epoch' = [epoch EXCEPT ![r] = @ + 1]
  /\ prev' = [prev EXCEPT ![r] = PrevAfter(r)]
  /\ nfails' = [nfails EXCEPT ![r] = FailsAfter(r)]
  /\ pc' = [pc EXCEPT ![r] = IF StopsAfter(r) THEN "done" ELSE "iter"]
  /\ OfRanks(fest)'
  /\ \A q \in Ranks \ {r} : fest'[q] = fest[q]

LEMMA DecidingKeepsDecisions ==
  ASSUME DecisionInv, NEW r \in Ranks, Decides(r)
  PROVE  DecisionInv'
<1>1. DecisionShape'
  <2>1. epoch' \in [Ranks -> Nat]
    BY DEF DecisionInv, DecisionShape, Decides
  <2>2. OfRanks(pc)'
    BY DEF DecisionInv, DecisionShape, OfRanks, Decides
  <2>3. OfRanks(prev)' /\ OfRanks(nfails)'
    BY DEF DecisionInv, DecisionShape, OfRanks, Decides
  <2> QED
    BY <2>1, <2>2, <2>3 DEF DecisionShape, Decides
<1>2. /\ epoch'[r] = epoch[r] + 1 /\ prev'[r] = PrevAfter(r) /\ nfails'[r] = FailsAfter(r)
      /\ pc'[r] = IF StopsAfter(r) THEN "done" ELSE "iter"
  BY DEF DecisionInv, DecisionShape, OfRanks, Decides
<1>3. ASSUME NEW q \in Ranks \ {r}
      PROVE  /\ epoch'[q] = epoch[q] /\ prev'[q] = prev[q] /\ nfails'[q] = nfails[q]
             /\ pc'[q] = pc[q] /\ fest'[q] = fest[q]
  BY DEF DecisionInv, DecisionShape, OfRanks, Decides
<1>4. ASSUME NEW q \in Ranks \ {r}
      PROVE  /\ PrevAfter(q)' = PrevAfter(q) /\ FailsAfter(q)' = FailsAfter(q)
             /\ StopsAfter(q)' = StopsAfter(q)
  BY <1>3 DEF PrevAfter, FailsAfter, StopsAfter, Fails
<1>5. \A q \in Ranks : epoch[q] \in Nat
  BY DEF DecisionInv, DecisionShape
\* r is not ahead of any rank, since it has yet to judge.
<1>6. ASSUME NEW q \in Ranks PROVE epoch[q] = epoch[r] \/ epoch[q] = epoch[r] + 1
  BY <1>5 DEF DecisionInv, Pair, Ahead, Decides
<1>7. ASSUME NEW q \in Ranks \ {r}, epoch[q] = epoch[r]
      PROVE  Pair(r, q)' /\ Pair(q, r)'
  <2>1. Level(r, q) /\ pc[q] = "judge"
    BY <1>7 DEF DecisionInv, Pair, Level, Decides
  <2>2. /\ PrevAfter(q) = PrevAfter(r) /\ FailsAfter(q) = FailsAfter(r)
        /\ StopsAfter(q) = StopsAfter(r)
    BY <1>7, <2>1 DEF Level, PrevAfter, FailsAfter, StopsAfter, Fails
  <2>3. Ahead(r, q)'
    BY <1>2, <1>3, <1>4, <2>1, <2>2 DEF Ahead
  <2> QED
    BY <1>2, <1>3, <1>5, <1>7, <2>3 DEF Pair
<1>8. ASSUME NEW q \in Ranks \ {r}, epoch[q] = epoch[r] + 1
      PROVE  Pair(r, q)' /\ Pair(q, r)'
  <2>1. Ahead(q, r)
    BY <1>8 DEF DecisionInv, Pair
  <2>2. Level(r, q)' /\ Level(q, r)'
    BY <1>2, <1>3, <2>1 DEF Level, Ahead
  <2> QED
    BY <1>2, <1>3, <1>5, <1>8, <2>2 DEF Pair
<1>9. ASSUME NEW a \in Ranks \ {r}, NEW b \in Ranks \ {r} PROVE Pair(a, b)'
  <2>1. Pair(a, b)
    BY DEF DecisionInv
  <2> QED
    BY <1>3, <1>4, <2>1 DEF Pair, Level, Ahead
<1>10. Pair(r, r)'
  BY <1>1 DEF Pair, Level, DecisionShape
<1> QED
  BY <1>1, <1>6, <1>7, <1>8, <1>9, <1>10 DEF DecisionInv

\* Start, Pass and Fail are such decisions.
LEMMA VerdictsAreDecisions ==
  ASSUME DecisionInv, NEW r \in Ranks, Start(r) \/ Pass(r) \/ Fail(r)
  PROVE  Decides(r)
<1>0. epoch[r] \in Nat /\ OfRanks(nfails) /\ OfRanks(fest) /\ OfRanks(prev)
  BY DEF DecisionInv, DecisionShape
<1>1. [nfails EXCEPT ![r] = nfails[r]] = nfails /\ [prev EXCEPT ![r] = prev[r]] = prev
  BY <1>0 DEF OfRanks
<1>2. CASE Start(r)
  <2>1. /\ ~Fails(r) /\ PrevAfter(r) = fest[r] /\ FailsAfter(r) = nfails[r]
        /\ StopsAfter(r) <=> MaxEpochs = 0
    BY <1>0, <1>2 DEF Start, Fails, PrevAfter, FailsAfter, StopsAfter
  <2>2. /\ nfails' = [nfails EXCEPT ![r] = FailsAfter(r)]
        /\ OfRanks(fest)' /\ fest' = fest
    BY <1>0, <1>1, <1>2, <2>1 DEF Start, OfRanks
  <2>3. /\ epoch' = [epoch EXCEPT ![r] = @ + 1]
        /\ pc' = [pc EXCEPT ![r] = IF StopsAfter(r) THEN "done" ELSE "iter"]
    <3>1. epoch[r] = 0
      BY <1>2 DEF Start
    <3>2. epoch' = [epoch EXCEPT ![r] = epoch[r] + 1]
      BY <1>2, <3>1 DEF Start
    <3> QED
      BY <1>2, <2>1, <3>2 DEF Start
  <2> QED
    BY <1>2, <2>1, <2>2, <2>3 DEF Start, Decides
<1>3. CASE Pass(r)
  <2>1. /\ ~Fails(r) /\ PrevAfter(r) = fest[r] /\ FailsAfter(r) = nfails[r]
        /\ StopsAfter(r) <=> nfails[r] > MaxFails \/ Greater(Tol, fest[r]) \/ epoch[r] = MaxEpochs
    BY <1>0, <1>3 DEF Pass, Fails, PrevAfter, FailsAfter, StopsAfter
  <2> QED
    BY <1>0, <1>1, <1>3, <2>1 DEF Pass, EpochEnds, Decides
<1>4. CASE Fail(r)
  <2>1. /\ Fails(r) /\ PrevAfter(r) = prev[r] /\ FailsAfter(r) = nfails[r] + 1
        /\ StopsAfter(r) <=>
             nfails[r] + 1 > MaxFails \/ Greater(Tol, prev[r]) \/ epoch[r] = MaxEpochs
    BY <1>0, <1>4 DEF Fail, Fails, PrevAfter, FailsAfter, StopsAfter
  <2>2. OfRanks(fest)' /\ \A q \in Ranks \ {r} : fest'[q] = fest[q]
    BY <1>0, <1>4 DEF Fail, OfRanks
  <2> QED
    BY <1>0, <1>1, <1>4, <2>1, <2>2 DEF Fail, EpochEnds, Decides
<1> QED
  BY <1>2, <1>3, <1>4

LEMMA DecisionStep == DecisionInv /\ [Next]_vars => DecisionInv'
<1> SUFFICES ASSUME DecisionInv, [Next]_vars PROVE DecisionInv'
  OBVIOUS
<1> USE DEF DecisionInv
<1>0. OfRanks(fest)
  BY DEF DecisionShape
<1>1. ASSUME NEW r \in Ranks, LocalStep(r) PROVE DecisionInv'
  <2>1. PICK s \in {"reduce", "iter"} : pc' = [pc EXCEPT ![r] = s]
    BY <1>1 DEF LocalStep
  <2>2. /\ pc[r] = "iter" /\ fest' = fest
        /\ UNCHANGED <<epoch, prev, nfails>>
    BY <1>1 DEF LocalStep
  <2> QED
    BY <1>0, <2>1, <2>2, WorkKeepsDecisions
<1>2. ASSUME NEW r \in Ranks, Averaged(r) \/ MetaStep(r) PROVE DecisionInv'
  <2>1. PICK s \in {"value", "iter"} : pc' = [pc EXCEPT ![r] = s]
    BY <1>2 DEF Averaged, MetaStep, AfterSync
  <2>2. /\ pc[r] = "reduce" /\ fest' = fest
        /\ UNCHANGED <<epoch, prev, nfails>>
    BY <1>2 DEF Averaged, MetaStep
  <2> QED
    BY <1>0, <2>1, <2>2, WorkKeepsDecisions
<1>3. ASSUME NEW r \in Ranks, Evaluate(r) PROVE DecisionInv'
  <2>1. /\ pc[r] = "value" /\ pc' = [pc EXCEPT ![r] = "grid"]
        /\ UNCHANGED <<epoch, prev, nfails>>
    BY <1>3 DEF Evaluate
  <2>2. OfRanks(fest)' /\ \A q \in Ranks \ {r} : fest'[q] = fest[q]
    BY <1>0, <1>3 DEF Evaluate, OfRanks
  <2> QED
    BY <2>1, <2>2, WorkKeepsDecisions
<1>4. ASSUME NEW r \in Ranks, Start(r) \/ Pass(r) \/ Fail(r) PROVE DecisionInv'
  BY <1>4, VerdictsAreDecisions, DecidingKeepsDecisions
<1>5. ASSUME UNCHANGED <<pc, epoch, prev, nfails, fest>> PROVE DecisionInv'
  BY <1>5 DEF DecisionShape, OfRanks, Pair, Level, Ahead, PrevAfter, FailsAfter, StopsAfter, Fails
<1>6. CASE \E n \in Modes, r \in Ranks : SubGridAllReduce(n, Group(r, n))
  BY <1>5, <1>6 DEF SubGridAllReduce
<1>7. CASE GridAllReduce
  BY <1>7, ReduceKeepsDecisions
<1>8. CASE UNCHANGED vars
  BY <1>5, <1>8 DEF vars
<1> QED
  BY <1>1, <1>2, <1>3, <1>4, <1>6, <1>7, <1>8 DEF Next

LEMMA DecisionInvImplies == DecisionInv => RanksDecideAlike
BY DEF DecisionInv, Pair, Level, RanksDecideAlike

\* On every grid, all ranks judge each epoch alike, and none is more than one
\* decision ahead of another (gcp_fedopt: every rank compares its own fest with its
\* own fest_prev and counts its own nfails).
THEOREM AllDecideAlike == Spec => []RanksDecideAlike
<1>1. Spec => []DecisionInv
  BY DecisionInit, DecisionStep, PTL DEF Spec
<1> QED
  BY <1>1, DecisionInvImplies, PTL

-----------------------------------------------------------------------------
(* Sums.  FoldFunction is a recursive function on the subsets of a domain; that it   *)
(* exists, and what it computes, is shown with a least set for which it would fail.  *)

Pick(s) == CHOOSE x \in s : TRUE

\* g holds the sum of f over each subset of S.
Sums(f, g, S) ==
  g = [s \in SUBSET S |-> IF s = {} THEN 0 ELSE f[Pick(s)] + g[s \ {Pick(s)}]]

Sum(f) == FoldFunction(LAMBDA v, w : v + w, 0, f)

LEMMA SumIsRecursive ==
  ASSUME NEW f
  PROVE  Sum(f) = (CHOOSE g : Sums(f, g, DOMAIN f))[DOMAIN f]
BY DEF Sum, FoldFunction, FoldFunctionOnSet, MapThenFoldSet, Sums, Pick

LEMMA PickIsElement == ASSUME NEW s, s # {} PROVE Pick(s) \in s
BY DEF Pick

LEMMA SumsAt ==
  ASSUME NEW f, NEW S, NEW g, Sums(f, g, S), NEW s \in SUBSET S
  PROVE  g[s] = IF s = {} THEN 0 ELSE f[Pick(s)] + g[s \ {Pick(s)}]
BY DEF Sums

\* A non-empty collection of finite sets has a member that includes no other.
LEMMA LeastSet ==
  ASSUME NEW S, IsFiniteSet(S), NEW T \in SUBSET SUBSET S, T # {}
  PROVE  \E m \in T : \A s \in T : s \subseteq m => s = m
<1>1. T \subseteq FiniteSubsetsOf(S)
  BY FS_Subset DEF FiniteSubsetsOf
<1>2. \E m \in T : \A s \in T : ~ (<<s, m>> \in StrictSubsetOrdering(S))
  BY <1>1, FS_StrictSubsetOrderingWellFounded, WFMin
<1> QED
  BY <1>2 DEF StrictSubsetOrdering

\* Two such functions agree where both are defined.
LEMMA SumsUnique ==
  ASSUME NEW f, NEW S, IsFiniteSet(S), NEW T, NEW g, NEW h, Sums(f, g, S), Sums(f, h, T),
         NEW s \in SUBSET S, s \subseteq T
  PROVE  g[s] = h[s]
<1> DEFINE B == {t \in SUBSET S : t \subseteq T /\ g[t] # h[t]}
<1> SUFFICES ASSUME B # {} PROVE FALSE
  OBVIOUS
<1>1. B \in SUBSET SUBSET S
  OBVIOUS
<1>2. PICK m \in B : \A t \in B : t \subseteq m => t = m
  <2> HIDE DEF B
  <2> QED
    BY <1>1, LeastSet
<1>3. m # {}
  <2>1. {} \in SUBSET S /\ {} \in SUBSET T
    OBVIOUS
  <2>2. g[{}] = 0 /\ h[{}] = 0
    BY <2>1, SumsAt
  <2> QED
    BY <1>2, <2>2
<1>4. Pick(m) \in m
  BY <1>3, PickIsElement
<1>5. g[m \ {Pick(m)}] = h[m \ {Pick(m)}]
  BY <1>2, <1>4
<1> QED
  BY <1>2, <1>3, <1>5, SumsAt

LEMMA SumsExist ==
  ASSUME NEW f, NEW S, IsFiniteSet(S)
  PROVE  \E g : Sums(f, g, S)
<1> DEFINE B == {s \in SUBSET S : ~ \E g : Sums(f, g, s)}
<1> SUFFICES ASSUME B # {} PROVE FALSE
  OBVIOUS
<1>1. B \in SUBSET SUBSET S
  OBVIOUS
<1>2. PICK m \in B : \A t \in B : t \subseteq m => t = m
  <2> HIDE DEF B
  <2> QED
    BY <1>1, LeastSet
<1> DEFINE H(t) == CHOOSE g : Sums(f, g, t)
           Rest(s) == s \ {Pick(s)}
           G == [s \in SUBSET m |-> IF s = {} THEN 0 ELSE f[Pick(s)] + H(Rest(s))[Rest(s)]]
<1>3. ASSUME NEW t \in SUBSET m, t # m PROVE Sums(f, H(t), t)
  BY <1>2, <1>3
<1> HIDE DEF H
<1>4. ASSUME NEW t \in SUBSET m, t # m PROVE G[t] = H(t)[t]
  <2>1. Sums(f, H(t), t) /\ t \in SUBSET t
    BY <1>3, <1>4
  <2>2. CASE t = {}
    BY <2>1, <2>2, SumsAt
  <2>3. CASE t # {}
    <3>1. Pick(t) \in t
      BY <2>3, PickIsElement
    <3>2. H(t)[t] = f[Pick(t)] + H(t)[Rest(t)]
      BY <2>1, <2>3, SumsAt
    <3>3. Sums(f, H(Rest(t)), Rest(t))
      BY <1>3, <1>4, <3>1
    <3>4. IsFiniteSet(Rest(t)) /\ Rest(t) \subseteq t
      BY FS_Subset
    <3>5. H(Rest(t))[Rest(t)] = H(t)[Rest(t)]
      BY <2>1, <3>3, <3>4, SumsUnique
    <3> QED
      BY <2>3, <3>2, <3>5
  <2> QED
    BY <2>2, <2>3
<1>5. ASSUME NEW s \in SUBSET m, s # {} PROVE G[Rest(s)] = H(Rest(s))[Rest(s)]
  BY <1>4, <1>5, PickIsElement
<1>6. \A s \in SUBSET m : G[s] = IF s = {} THEN 0 ELSE f[Pick(s)] + G[Rest(s)]
  BY <1>5
<1>7. Sums(f, G, m)
  <2>1. G = [s \in SUBSET m |-> G[s]]
    OBVIOUS
  <2> HIDE DEF G
  <2> QED
    BY <1>6, <2>1 DEF Sums
<1> QED
  BY <1>2, <1>7

LEMMA SumsAreIntegers ==
  ASSUME NEW S, IsFiniteSet(S), NEW f \in [S -> Int], NEW g, Sums(f, g, S)
  PROVE  g[S] \in Int
<1> DEFINE B == {s \in SUBSET S : g[s] \notin Int}
<1> SUFFICES ASSUME B # {} PROVE FALSE
  OBVIOUS
<1>1. B \in SUBSET SUBSET S
  OBVIOUS
<1>2. PICK m \in B : \A t \in B : t \subseteq m => t = m
  <2> HIDE DEF B
  <2> QED
    BY <1>1, LeastSet
<1>3. m \in SUBSET S /\ g[m] \notin Int
  OBVIOUS
<1>4. g[m] = IF m = {} THEN 0 ELSE f[Pick(m)] + g[m \ {Pick(m)}]
  <2> HIDE DEF B
  <2> QED
    BY <1>3, SumsAt
<1>5. m # {}
  BY <1>3, <1>4
<1>6. Pick(m) \in m
  BY <1>5, PickIsElement
<1>7. g[m \ {Pick(m)}] \in Int
  BY <1>2, <1>6
<1>8. f[Pick(m)] \in Int
  BY <1>3, <1>6
<1> QED
  BY <1>3, <1>4, <1>5, <1>7, <1>8

LEMMA SumIsInteger ==
  ASSUME NEW S, IsFiniteSet(S), NEW f \in [S -> Int]
  PROVE  Sum(f) \in Int
<1>1. Sums(f, CHOOSE g : Sums(f, g, S), S)
  BY SumsExist
<1>2. Sum(f) = (CHOOSE g : Sums(f, g, S))[S]
  BY SumIsRecursive
<1> QED
  BY <1>1, <1>2, SumsAreIntegers

\* A function is a subset of its domain times its range.
LEMMA FunctionsAreFinite ==
  ASSUME NEW S, NEW T, IsFiniteSet(S), IsFiniteSet(T)
  PROVE  IsFiniteSet([S -> T])
<1> DEFINE Graph(f) == {x \in S \X T : f[x[1]] = x[2]}
           g == [f \in [S -> T] |-> Graph(f)]
<1>1. IsFiniteSet(SUBSET (S \X T))
  BY FS_Product, FS_SUBSET
<1>2. ASSUME NEW f \in [S -> T], NEW h \in [S -> T], Graph(f) = Graph(h) PROVE f = h
  <2>1. ASSUME NEW s \in S PROVE f[s] = h[s]
    <3>1. <<s, f[s]>> \in Graph(f)
      OBVIOUS
    <3> QED
      BY <1>2, <3>1
  <2> QED
    BY <2>1
<1>3. g \in Injection([S -> T], SUBSET (S \X T))
  BY <1>2 DEF Injection, IsInjective
<1> QED
  BY <1>1, <1>3, FS_Injection

LEMMA RanksAreFinite == IsFiniteSet(Ranks)
<1>1. Len(Grid) \in Nat /\ \A n \in Modes : Grid[n] \in Nat
  BY FedOptAssumption DEF Modes
<1>2. IsFiniteSet(Modes)
  BY <1>1, FS_Interval DEF Modes
<1> DEFINE Op(n) == 0 .. Grid[n] - 1
<1>3. IsFiniteSet({Op(n) : n \in Modes})
  <2>1. [n \in Modes |-> Op(n)] \in Surjection(Modes, {Op(n) : n \in Modes})
    BY DEF Surjection
  <2> QED
    BY <1>2, <2>1, FS_Surjection
<1>4. \A T \in {Op(n) : n \in Modes} : IsFiniteSet(T)
  <2>1. ASSUME NEW n \in Modes PROVE IsFiniteSet(Op(n))
    <3>1. Grid[n] - 1 \in Int
      BY <1>1
    <3> QED
      BY <3>1, FS_Interval
  <2> HIDE DEF Op
  <2> QED
    BY <2>1
<1>5. IsFiniteSet(UNION {Op(n) : n \in Modes})
  BY <1>3, <1>4, FS_UNION
<1>6. IsFiniteSet([Modes -> UNION {Op(n) : n \in Modes}])
  BY <1>2, <1>5, FunctionsAreFinite
<1>7. Ranks \subseteq [Modes -> UNION {Op(n) : n \in Modes}]
  BY DEF Ranks
<1> QED
  BY <1>6, <1>7, FS_Subset

LEMMA TotalsAreIntegers == Totals \subseteq Int
<1> SUFFICES ASSUME NEW f \in [Ranks -> LocalValues] PROVE Total(f) \in Int
  BY DEF Totals
<1>1. f \in [Ranks -> Int] /\ ~ \E r \in Ranks : f[r] = NaN
  BY FedOptAssumption
<1>2. Total(f) = Sum(f)
  BY <1>1 DEF Total, Sum
<1> QED
  BY <1>1, <1>2, RanksAreFinite, SumIsInteger

-----------------------------------------------------------------------------
(* Types, and where a rank can be at each line.                              *)

\* The line, the epoch, the iteration and the mode of a rank fit together.
Place(r) ==
  /\ epoch[r] = 0 => iter[r] = 0 /\ pc[r] \in {"reduce", "value", "grid", "judge"}
  /\ pc[r] = "iter" => iter[r] < EpochIters
  /\ pc[r] = "reduce" /\ epoch[r] > 0 => iter[r] \in Syncs
  /\ pc[r] \in {"value", "grid", "judge"} /\ epoch[r] > 0 => iter[r] = EpochIters
  /\ pc[r] = "done" => iter[r] = 0
  /\ pc[r] # "reduce" => mode[r] = 1
  /\ pc[r] # "done" => epoch[r] <= MaxEpochs
  /\ pc[r] = "grid" => fest[r] \in LocalValues \cup {NaN}

TypeInv == TypeOK /\ \A r \in Ranks : Place(r)

LEMMA EmptyType == Empty \in Blocks
BY DEF Empty, Blocks

LEMMA JoinType == ASSUME NEW v \in Blocks, NEW w \in Blocks PROVE Join(v, w) \in Blocks
BY DEF Join, Blocks

LEMMA TokenType ==
  ASSUME NEW r \in Ranks, NEW e \in Int, NEW i \in Int
  PROVE  Token(r, e, i) \in Blocks
BY DEF Token, Blocks

LEMMA DifferenceType ==
  ASSUME NEW v \in Blocks, NEW w \in Blocks PROVE Difference(v, w) \in Blocks
BY DEF Difference, Blocks

LEMMA NewStepperType == ASSUME NEW k \in Steppers PROVE NewStepper(k) \in StepperType
BY EmptyType DEF NewStepper, StepperType

LEMMA StepperTypes ==
  ASSUME NEW s \in StepperType, NEW g \in Blocks
  PROVE  /\ SetStep(s) \in StepperType /\ Update(s) \in StepperType
         /\ Accumulate(s, g) \in StepperType
         /\ SetPassed(s) \in StepperType /\ SetFailed(s) \in StepperType
         /\ Direction(s, g) \in Blocks
<1>0. /\ s.kind \in Steppers /\ s.m \in Blocks /\ s.mPrev \in Blocks /\ s.t \in Int
      /\ s.step \in {"zero", "set"} /\ s.rate \in {"zero", "set", "nan"}
      /\ EpochIters \in Int
  BY FedOptAssumption DEF StepperType
<1>1. SetStep(s) \in StepperType
  BY DEF SetStep, StepperType
<1>2. Update(s) \in StepperType
  <2>1. /\ s.t + 1 \in Int
        /\ (IF s.t + 1 <= 0 THEN "nan" ELSE s.step) \in {"zero", "set", "nan"}
    BY <1>0
  <2> QED
    BY <2>1 DEF Update, StepperType
<1>3. Accumulate(s, g) \in StepperType
  BY <1>0, JoinType DEF Accumulate, StepperType
<1>4. SetPassed(s) \in StepperType
  BY <1>0 DEF SetPassed, StepperType
<1>5. SetFailed(s) \in StepperType
  <2>1. s.t - EpochIters \in Int
    BY <1>0
  <2>2. [s EXCEPT !.m = s.mPrev, !.t = @ - EpochIters] \in StepperType
    BY <1>0, <2>1 DEF StepperType
  <2>3. /\ [s EXCEPT !.m = s.mPrev] \in StepperType
        /\ [s EXCEPT !.m = Empty] \in StepperType
    BY <1>0, EmptyType DEF StepperType
  <2> QED
    BY <1>0, <2>2, <2>3 DEF SetFailed, Steppers
<1>6. Direction(s, g) \in Blocks
  <2>1. [n \in Modes |-> {NaN}] \in Blocks
    BY DEF Blocks
  <2> QED
    BY <1>0, <2>1, EmptyType, JoinType DEF Direction, Steppers
<1> QED
  BY <1>1, <1>2, <1>3, <1>4, <1>5, <1>6

LEMMA TotalType ==
  ASSUME NEW f, f = [r \in Ranks |-> f[r]], \A r \in Ranks : f[r] \in LocalValues \cup {NaN}
  PROVE  Total(f) \in Totals \cup {NaN} /\ Totals \subseteq Int
<1>1. CASE \E r \in Ranks : f[r] = NaN
  BY <1>1, TotalsAreIntegers DEF Total
<1>2. CASE \A r \in Ranks : f[r] # NaN
  <2>1. f \in [Ranks -> LocalValues]
    BY <1>2
  <2> QED
    BY <2>1, TotalsAreIntegers DEF Totals
<1> QED
  BY <1>1, <1>2

LEMMA TypeInit == Init => TypeInv
<1> SUFFICES ASSUME Init PROVE TypeInv
  OBVIOUS
<1>0. EpochIters \in Nat \ {0} /\ MaxEpochs \in Nat /\ Len(Grid) \in Nat
  BY FedOptAssumption
<1>1. setup.step \in Steppers /\ setup.metaStep \in Steppers
  BY FedOptAssumption DEF Init
<1>2. \A r \in Ranks : Token(r, 0, 0) \in Blocks
  BY TokenType
<1>3. TypeOK
  BY <1>0, <1>1, <1>2, EmptyType, NewStepperType DEF Init, TypeOK
<1> QED
  BY <1>0, <1>3 DEF Init, TypeInv, Place

\* What is said of each rank on its own.
LEMMA RankTypes ==
  ASSUME TypeOK, NEW r \in Ranks
  PROVE  /\ pc[r] \in {"iter", "reduce", "value", "grid", "judge", "done"}
         /\ epoch[r] \in 0 .. MaxEpochs + 1 /\ epoch[r] \in Nat
         /\ iter[r] \in 0 .. EpochIters /\ iter[r] \in Nat
         /\ mode[r] \in 1 .. Len(Grid) + 1
         /\ u[r] \in Blocks /\ meta[r] \in Blocks /\ best[r] \in Blocks /\ wire[r] \in Blocks
         /\ stepper[r] \in StepperType /\ metaStepper[r] \in StepperType
         /\ fest[r] \in Int \cup {NaN} /\ prev[r] \in Int \cup {NaN}
         /\ nfails[r] \in Nat
         /\ MaxEpochs \in Nat /\ EpochIters \in Nat \ {0} /\ Len(Grid) \in Nat
BY FedOptAssumption, SMTT(30) DEF TypeOK

LEMMA LocalStepTypes ==
  ASSUME TypeInv, NEW r \in Ranks, LocalStep(r) PROVE TypeInv'
<1> DEFINE i == iter[r] + 1
           g == Token(r, epoch[r], i)
           s == Accumulate(Update(SetStep(stepper[r])), g)
           v == Join(u[r], Direction(s, g))
           sync == i % DpIters = 0 \/ i = EpochIters
           w == IF setup.method = "avg" THEN v ELSE Difference(meta[r], v)
<1>0. TypeOK /\ \A q \in Ranks : Place(q)
  BY DEF TypeInv
<1>1. /\ pc[r] = "iter"
      /\ iter' = [iter EXCEPT ![r] = i] /\ stepper' = [stepper EXCEPT ![r] = s]
      /\ u' = [u EXCEPT ![r] = v]
      /\ pc' = [pc EXCEPT ![r] = IF sync THEN "reduce" ELSE "iter"]
      /\ wire' = IF ~sync THEN wire ELSE [wire EXCEPT ![r] = w]
      /\ UNCHANGED <<setup, curve, epoch, mode, meta, best, metaStepper, fest, prev, nfails>>
  BY DEF LocalStep
<1>2. i \in 1 .. EpochIters /\ (~sync => i < EpochIters) /\ (sync => i \in Syncs)
  BY <1>0, <1>1, RankTypes DEF Place, Syncs
<1>3. g \in Blocks
  BY <1>0, <1>2, RankTypes, TokenType
<1>4. s \in StepperType
  BY <1>0, <1>3, RankTypes, StepperTypes
<1>5. v \in Blocks /\ w \in Blocks
  BY <1>0, <1>3, <1>4, RankTypes, StepperTypes, JoinType, DifferenceType
<1>6. TypeOK'
  <2> HIDE DEF s, v, w, sync
  <2> QED
    BY <1>0, <1>1, <1>2, <1>4, <1>5, RankTypes, SMTT(30) DEF TypeOK
<1>7. ASSUME NEW q \in Ranks PROVE Place(q)'
  <2> HIDE DEF s, v, w, sync
  <2>1. Place(q) /\ Place(r)
    BY <1>0
  <2>2. CASE q = r
    BY <1>0, <1>1, <1>2, <2>1, <2>2, RankTypes DEF Place, TypeOK
  <2>3. CASE q # r
    BY <1>0, <1>1, <2>1, <2>3 DEF Place, TypeOK, Syncs
  <2> QED
    BY <2>2, <2>3
<1> QED
  BY <1>6, <1>7 DEF TypeInv

LEMMA SubGridTypes ==
  ASSUME TypeInv, NEW n \in Modes, NEW a \in Ranks, SubGridAllReduce(n, Group(a, n))
  PROVE  TypeInv'
<1> DEFINE G == Group(a, n)
<1>0. TypeOK /\ \A q \in Ranks : Place(q)
  BY DEF TypeInv
<1>1. /\ \A r \in G : pc[r] = "reduce" /\ mode[r] = n
      /\ wire' = [r \in Ranks |-> IF r \in G
                              THEN [wire[r] EXCEPT ![n] = UNION {wire[q][n] : q \in G}]
                              ELSE wire[r]]
      /\ mode' = [r \in Ranks |-> IF r \in G THEN n + 1 ELSE mode[r]]
      /\ UNCHANGED <<setup, curve, pc, epoch, iter, u, meta, best, stepper, metaStepper,
                     fest, prev, nfails>>
  BY DEF SubGridAllReduce
<1>2. G \subseteq Ranks
  BY DEF Group
<1> HIDE DEF G
<1>3. UNION {wire[q][n] : q \in G} \subseteq {NaN} \cup (Ranks \X Int \X Int)
  BY <1>0, <1>2, RankTypes DEF Blocks
<1>4. n + 1 \in 1 .. Len(Grid) + 1
  BY FedOptAssumption DEF Modes
<1>5. ASSUME NEW r \in Ranks
      PROVE  wire'[r] \in Blocks /\ mode'[r] \in 1 .. Len(Grid) + 1
  BY <1>0, <1>1, <1>3, <1>4, RankTypes DEF Blocks
<1>6. wire' \in [Ranks -> Blocks] /\ mode' \in [Ranks -> 1 .. Len(Grid) + 1]
  BY <1>1, <1>5
<1>7. TypeOK'
  BY <1>0, <1>1, <1>6, ZenonT(30) DEF TypeOK
<1>8. ASSUME NEW q \in Ranks PROVE Place(q)'
  BY <1>0, <1>1 DEF Place, Syncs
<1> QED
  BY <1>7, <1>8 DEF TypeInv

\* A rank is after a synchronisation where it belongs.
LEMMA AfterSyncPlace ==
  ASSUME TypeInv, NEW r \in Ranks, pc[r] = "reduce",
         pc' = [pc EXCEPT ![r] = IF epoch[r] = 0 THEN "value" ELSE AfterSync(r)],
         mode' = [mode EXCEPT ![r] = 1], UNCHANGED <<epoch, iter, fest>>
  PROVE  \A q \in Ranks : Place(q)'
<1>0. TypeOK /\ \A q \in Ranks : Place(q)
  BY DEF TypeInv
<1>1. SUFFICES ASSUME NEW q \in Ranks PROVE Place(q)'
  OBVIOUS
<1>2. CASE q = r
  BY <1>0, <1>2, RankTypes DEF Place, TypeOK, AfterSync, Syncs
<1>3. CASE q # r
  BY <1>0, <1>3 DEF Place, TypeOK, Syncs
<1> QED
  BY <1>2, <1>3

LEMMA AveragedTypes == ASSUME TypeInv, NEW r \in Ranks, Averaged(r) PROVE TypeInv'
<1>0. TypeOK /\ wire[r] \in Blocks /\ 1 \in 1 .. Len(Grid) + 1
  BY RankTypes DEF TypeInv
<1>1. /\ pc' = [pc EXCEPT ![r] = IF epoch[r] = 0 THEN "value" ELSE AfterSync(r)]
      /\ mode' = [mode EXCEPT ![r] = 1] /\ u' = [u EXCEPT ![r] = wire[r]]
      /\ UNCHANGED <<setup, curve, epoch, iter, wire, stepper, metaStepper, fest, prev, nfails>>
      /\ best' \in {best, [best EXCEPT ![r] = wire[r]]}
      /\ meta' \in {meta, [meta EXCEPT ![r] = wire[r]]}
  BY DEF Averaged
<1>2. TypeOK'
  <2>1. /\ [u EXCEPT ![r] = wire[r]] \in [Ranks -> Blocks]
        /\ [best EXCEPT ![r] = wire[r]] \in [Ranks -> Blocks]
        /\ [meta EXCEPT ![r] = wire[r]] \in [Ranks -> Blocks]
    BY <1>0 DEF TypeOK
  <2>2. pc' \in [Ranks -> {"iter", "reduce", "value", "grid", "judge", "done"}]
    BY <1>0, <1>1 DEF TypeOK, AfterSync
  <2>3. {u', best', meta'} \subseteq [Ranks -> Blocks]
    BY <1>0, <1>1, <2>1, ZenonT(30) DEF TypeOK
  <2>4. mode' \in [Ranks -> 1 .. Len(Grid) + 1]
    BY <1>0, <1>1 DEF TypeOK
  <2> QED
    BY <1>0, <1>1, <2>2, <2>3, <2>4 DEF TypeOK
<1>3. pc[r] = "reduce"
  BY DEF Averaged
<1> QED
  BY <1>1, <1>2, <1>3, AfterSyncPlace DEF TypeInv

LEMMA MetaStepTypes == ASSUME TypeInv, NEW r \in Ranks, MetaStep(r) PROVE TypeInv'
<1> DEFINE s == Accumulate(SetStep(Update(metaStepper[r])), wire[r])
           v == Join(meta[r], Direction(s, wire[r]))
<1>0. TypeOK /\ wire[r] \in Blocks /\ 1 \in 1 .. Len(Grid) + 1
  BY RankTypes DEF TypeInv
<1>1. /\ pc' = [pc EXCEPT ![r] = AfterSync(r)]
      /\ mode' = [mode EXCEPT ![r] = 1]
      /\ metaStepper' = [metaStepper EXCEPT ![r] = s]
      /\ meta' = [meta EXCEPT ![r] = v] /\ u' = [u EXCEPT ![r] = v]
      /\ UNCHANGED <<setup, curve, epoch, iter, best, wire, stepper, fest, prev, nfails>>
  BY DEF MetaStep
<1>2. s \in StepperType /\ v \in Blocks
  BY <1>0, RankTypes, StepperTypes, JoinType
<1>3. TypeOK'
  <2> HIDE DEF s, v
  <2> QED
    BY <1>0, <1>1, <1>2 DEF TypeOK, AfterSync
<1>4. pc[r] = "reduce" /\ epoch[r] > 0
  BY DEF MetaStep
<1>5. epoch[r] # 0
  BY <1>0, <1>4, RankTypes
<1> QED
  BY <1>1, <1>3, <1>4, <1>5, AfterSyncPlace DEF TypeInv

LEMMA EvaluateTypes == ASSUME TypeInv, NEW r \in Ranks, Evaluate(r) PROVE TypeInv'
<1>0. TypeOK /\ \A q \in Ranks : Place(q)
  BY DEF TypeInv
<1>1. PICK v \in LocalValues \cup {NaN} : fest' = [fest EXCEPT ![r] = v]
  BY DEF Evaluate
<1>2. /\ pc[r] = "value" /\ pc' = [pc EXCEPT ![r] = "grid"]
      /\ UNCHANGED <<setup, curve, epoch, iter, mode, u, meta, best, wire, stepper,
                     metaStepper, prev, nfails>>
  BY DEF Evaluate
<1>3. TypeOK'
  <2>1. v \in Int \cup {NaN}
    BY FedOptAssumption
  <2> QED
    BY <1>0, <1>1, <1>2, <2>1 DEF TypeOK
<1>4. ASSUME NEW q \in Ranks PROVE Place(q)'
  BY <1>0, <1>1, <1>2 DEF Place, TypeOK, Syncs
<1> QED
  BY <1>3, <1>4 DEF TypeInv

LEMMA GridReduceTypes == ASSUME TypeInv, GridAllReduce PROVE TypeInv'
<1>0. TypeOK /\ \A q \in Ranks : Place(q)
  BY DEF TypeInv
<1>1. /\ \A r \in Ranks : pc[r] = "grid"
      /\ fest' = [r \in Ranks |-> Total(fest)]
      /\ curve' = Append(curve, Total(fest))
      /\ pc' = [r \in Ranks |-> "judge"]
      /\ UNCHANGED <<setup, epoch, iter, mode, u, meta, best, wire, stepper, metaStepper,
                     prev, nfails>>
  BY DEF GridAllReduce
<1>2. Total(fest) \in Int \cup {NaN}
  <2>1. /\ fest = [r \in Ranks |-> fest[r]]
        /\ \A r \in Ranks : fest[r] \in LocalValues \cup {NaN}
    BY <1>0, <1>1 DEF TypeOK, Place
  <2> QED
    BY <2>1, TotalType
<1>3. TypeOK'
  BY <1>0, <1>1, <1>2 DEF TypeOK
<1>4. ASSUME NEW q \in Ranks PROVE Place(q)'
  BY <1>0, <1>1 DEF Place, TypeOK, Syncs
<1> QED
  BY <1>3, <1>4 DEF TypeInv

\* A verdict ends the epoch of its rank.
LEMMA VerdictPlace ==
  ASSUME TypeInv, NEW r \in Ranks, Decides(r), iter' = [iter EXCEPT ![r] = 0], UNCHANGED mode
  PROVE  /\ pc' \in [Ranks -> {"iter", "reduce", "value", "grid", "judge", "done"}]
         /\ epoch' \in [Ranks -> 0 .. MaxEpochs + 1]
         /\ iter' \in [Ranks -> 0 .. EpochIters]
         /\ \A q \in Ranks : Place(q)'
<1>0. TypeOK /\ \A q \in Ranks : Place(q)
  BY DEF TypeInv
<1>1. pc[r] = "judge" /\ epoch[r] <= MaxEpochs /\ mode[r] = 1
  BY <1>0 DEF Decides, Place
<1>2. epoch[r] + 1 \in 1 .. MaxEpochs + 1 /\ 0 \in 0 .. EpochIters
  BY <1>0, <1>1, RankTypes
<1>3. ASSUME NEW q \in Ranks PROVE Place(q)'
  <2>1. CASE q # r
    BY <1>0, <2>1 DEF Decides, Place, TypeOK, Syncs
  <2>2. CASE q = r
    <3>1. /\ epoch'[r] = epoch[r] + 1 /\ iter'[r] = 0 /\ mode'[r] = 1
          /\ pc'[r] = IF StopsAfter(r) THEN "done" ELSE "iter"
      BY <1>0, <1>1 DEF Decides, TypeOK
    <3>2. ~StopsAfter(r) => epoch[r] + 1 <= MaxEpochs
      BY <1>0, <1>1, RankTypes DEF StopsAfter
    <3>3. epoch'[r] # 0 /\ 0 < EpochIters
      BY <1>0, <1>2, <3>1, RankTypes
    <3> QED
      BY <2>2, <3>1, <3>2, <3>3 DEF Place
  <2> QED
    BY <2>1, <2>2
<1>4. epoch' \in [Ranks -> 0 .. MaxEpochs + 1]
  BY <1>0, <1>2 DEF Decides, TypeOK
<1>5. /\ pc' \in [Ranks -> {"iter", "reduce", "value", "grid", "judge", "done"}]
      /\ iter' \in [Ranks -> 0 .. EpochIters]
  BY <1>0, <1>2 DEF Decides, TypeOK
<1> QED
  BY <1>3, <1>4, <1>5

LEMMA StartTypes ==
  ASSUME TypeInv, DecisionInv, NEW r \in Ranks, Start(r) PROVE TypeInv'
<1>0. TypeOK /\ Place(r) /\ Decides(r)
  BY VerdictsAreDecisions DEF TypeInv
<1>1. /\ UNCHANGED <<setup, curve, iter, mode, u, meta, best, wire, stepper, metaStepper,
                     fest, nfails>>
      /\ prev' = [prev EXCEPT ![r] = fest[r]] /\ epoch[r] = 0
  BY DEF Start
<1>2. iter' = [iter EXCEPT ![r] = 0]
  <2>1. iter[r] = 0
    BY <1>0, <1>1 DEF Place
  <2> QED
    BY <1>0, <1>1, <2>1 DEF TypeOK
<1>3. /\ pc' \in [Ranks -> {"iter", "reduce", "value", "grid", "judge", "done"}]
      /\ epoch' \in [Ranks -> 0 .. MaxEpochs + 1]
      /\ \A q \in Ranks : Place(q)'
  BY <1>0, <1>1, <1>2, VerdictPlace
<1>4. TypeOK'
  BY <1>0, <1>1, <1>3, RankTypes DEF TypeOK
<1> QED
  BY <1>3, <1>4 DEF TypeInv

LEMMA JudgeTypes ==
  ASSUME TypeInv, DecisionInv, NEW r \in Ranks, Pass(r) \/ Fail(r) PROVE TypeInv'
<1>0. TypeOK /\ Decides(r)
  BY VerdictsAreDecisions DEF TypeInv
<1>1. /\ iter' = [iter EXCEPT ![r] = 0]
      /\ UNCHANGED <<setup, curve, mode, wire>>
      /\ u' \in {[u EXCEPT ![r] = u[r]], [u EXCEPT ![r] = best[r]]}
      /\ meta' \in {meta, [meta EXCEPT ![r] = best[r]]}
      /\ best' \in {best, [best EXCEPT ![r] = u[r]]}
      /\ stepper' \in {[stepper EXCEPT ![r] = SetPassed(@)], [stepper EXCEPT ![r] = SetFailed(@)]}
      /\ metaStepper' \in {[metaStepper EXCEPT ![r] = SetPassed(@)],
                           [metaStepper EXCEPT ![r] = SetFailed(@)]}
      /\ fest' \in {fest, [fest EXCEPT ![r] = prev[r]]}
      /\ prev' \in {prev, [prev EXCEPT ![r] = fest[r]]}
      /\ nfails' \in {nfails, [nfails EXCEPT ![r] = @ + 1]}
  BY DEF Pass, Fail, EpochEnds
<1>2. /\ SetPassed(stepper[r]) \in StepperType /\ SetFailed(stepper[r]) \in StepperType
      /\ SetPassed(metaStepper[r]) \in StepperType /\ SetFailed(metaStepper[r]) \in StepperType
  BY <1>0, RankTypes, StepperTypes
<1>3. /\ pc' \in [Ranks -> {"iter", "reduce", "value", "grid", "judge", "done"}]
      /\ epoch' \in [Ranks -> 0 .. MaxEpochs + 1]
      /\ iter' \in [Ranks -> 0 .. EpochIters]
      /\ \A q \in Ranks : Place(q)'
  BY <1>0, <1>1, VerdictPlace
<1>4. /\ u' \in [Ranks -> Blocks] /\ meta' \in [Ranks -> Blocks] /\ best' \in [Ranks -> Blocks]
  BY <1>0, <1>1, RankTypes, ZenonT(30) DEF TypeOK
<1>5. stepper' \in [Ranks -> StepperType] /\ metaStepper' \in [Ranks -> StepperType]
  <2>1. /\ [stepper EXCEPT ![r] = SetPassed(@)] \in [Ranks -> StepperType]
        /\ [stepper EXCEPT ![r] = SetFailed(@)] \in [Ranks -> StepperType]
    BY <1>0, <1>2 DEF TypeOK
  <2>2. /\ [metaStepper EXCEPT ![r] = SetPassed(@)] \in [Ranks -> StepperType]
        /\ [metaStepper EXCEPT ![r] = SetFailed(@)] \in [Ranks -> StepperType]
    BY <1>0, <1>2 DEF TypeOK
  <2> QED
    BY <1>1, <2>1, <2>2
<1>6. /\ fest' \in [Ranks -> Int \cup {NaN}] /\ prev' \in [Ranks -> Int \cup {NaN}]
      /\ nfails' \in [Ranks -> Nat]
  <2>1. /\ [fest EXCEPT ![r] = prev[r]] \in [Ranks -> Int \cup {NaN}]
        /\ [prev EXCEPT ![r] = fest[r]] \in [Ranks -> Int \cup {NaN}]
        /\ [nfails EXCEPT ![r] = @ + 1] \in [Ranks -> Nat]
    BY <1>0, RankTypes DEF TypeOK
  <2> QED
    BY <1>0, <1>1, <2>1, ZenonT(30) DEF TypeOK
<1>7. TypeOK'
  BY <1>0, <1>1, <1>3, <1>4, <1>5, <1>6 DEF TypeOK
<1> QED
  BY <1>3, <1>7 DEF TypeInv

LEMMA TypeStep == TypeInv /\ DecisionInv /\ [Next]_vars => TypeInv'
<1> SUFFICES ASSUME TypeInv, DecisionInv, [Next]_vars PROVE TypeInv'
  OBVIOUS
<1>1. CASE UNCHANGED vars
  BY <1>1 DEF vars, TypeInv, TypeOK, Place, Syncs
<1> QED
  BY <1>1, LocalStepTypes, SubGridTypes, AveragedTypes, MetaStepTypes, EvaluateTypes,
     GridReduceTypes, StartTypes, JudgeTypes DEF Next

\* The types of all variables, and with them that the exponent of ADAM, the estimates and
\* their sum are numbers or NaN, and that no rank counts past epoch_iters, maxiters or the
\* modes.
THEOREM Typing == Spec => []TypeOK
<1>1. TypeInv => TypeOK
  BY DEF TypeInv
<1>2. Init /\ [][Next]_vars => [](DecisionInv /\ TypeInv)
  BY DecisionInit, DecisionStep, TypeInit, TypeStep, PTL
<1> QED
  BY <1>1, <1>2, PTL DEF Spec

-----------------------------------------------------------------------------
(* The estimates.  A rank compares with the least number of the curve so far, so its *)
(* verdict is the one that the curve gives: an epoch fails just when it is not in    *)
(* Passed.                                                                           *)

\* prev[r] is the least number among the estimates of the epochs before that of r.
LeastBefore(r) ==
  /\ \A d \in 1 .. epoch[r] : curve[d] # NaN => prev[r] # NaN /\ prev[r] <= curve[d]
  /\ prev[r] # NaN => \E d \in 1 .. epoch[r] : curve[d] = prev[r]

Curve(r) ==
  /\ Len(curve) = IF pc[r] = "judge" THEN epoch[r] + 1 ELSE epoch[r]
  /\ pc[r] = "judge" => fest[r] = curve[epoch[r] + 1]
  /\ LeastBefore(r)

CurveInv ==
  /\ curve \in Seq(Totals \cup {NaN})
  /\ \A r \in Ranks : Curve(r)

LEMMA CurveValues ==
  ASSUME CurveInv, NEW d \in 1 .. Len(curve)
  PROVE  curve[d] \in Totals \cup {NaN} /\ curve[d] \in Int \cup {NaN}
<1>1. curve \in Seq(Totals \cup {NaN})
  BY DEF CurveInv
<1>2. curve[d] \in Totals \cup {NaN}
  BY <1>1
<1> QED
  BY <1>2, TotalsAreIntegers

LEMMA CurveInit == Init => CurveInv
BY DEF Init, CurveInv, Curve, LeastBefore

\* Steps that are no verdict and leave the curve alone.
LEMMA WorkKeepsCurve ==
  ASSUME CurveInv, UNCHANGED <<curve, epoch, prev>>,
         \A r \in Ranks : pc'[r] = "judge" <=> pc[r] = "judge",
         \A r \in Ranks : pc[r] = "judge" => fest'[r] = fest[r]
  PROVE  CurveInv'
BY DEF CurveInv, Curve, LeastBefore

LEMMA ReduceKeepsCurve == ASSUME TypeInv, CurveInv, GridAllReduce PROVE CurveInv'
<1>0. TypeOK /\ \A r \in Ranks : Place(r)
  BY DEF TypeInv
<1>1. /\ \A r \in Ranks : pc[r] = "grid"
      /\ fest' = [r \in Ranks |-> Total(fest)] /\ curve' = Append(curve, Total(fest))
      /\ pc' = [r \in Ranks |-> "judge"] /\ UNCHANGED <<epoch, prev>>
  BY DEF GridAllReduce
<1>2. Total(fest) \in Totals \cup {NaN}
  <2>1. /\ fest = [r \in Ranks |-> fest[r]]
        /\ \A r \in Ranks : fest[r] \in LocalValues \cup {NaN}
    BY <1>0, <1>1 DEF TypeOK, Place
  <2> QED
    BY <2>1, TotalType
<1>3. /\ curve' \in Seq(Totals \cup {NaN}) /\ Len(curve') = Len(curve) + 1
      /\ curve'[Len(curve) + 1] = Total(fest)
      /\ \A d \in 1 .. Len(curve) : curve'[d] = curve[d]
  BY <1>1, <1>2 DEF CurveInv
<1>4. ASSUME NEW r \in Ranks PROVE Curve(r)'
  <2>1. Len(curve) = epoch[r] /\ LeastBefore(r) /\ epoch[r] \in Nat
    BY <1>0, <1>1, RankTypes DEF CurveInv, Curve
  <2>2. LeastBefore(r)'
    BY <1>1, <1>3, <2>1 DEF LeastBefore
  <2> QED
    BY <1>1, <1>3, <2>1, <2>2 DEF Curve
<1> QED
  BY <1>3, <1>4 DEF CurveInv

LEMMA VerdictKeepsCurve ==
  ASSUME TypeInv, CurveInv, NEW r \in Ranks, Decides(r), UNCHANGED curve
  PROVE  CurveInv'
<1>0. TypeOK
  BY DEF TypeInv
<1>1. /\ pc[r] = "judge" /\ epoch'[r] = epoch[r] + 1 /\ prev'[r] = PrevAfter(r)
      /\ pc'[r] # "judge"
  BY <1>0 DEF Decides, TypeOK
<1>2. ASSUME NEW q \in Ranks \ {r}
      PROVE  /\ epoch'[q] = epoch[q] /\ prev'[q] = prev[q] /\ pc'[q] = pc[q]
             /\ fest'[q] = fest[q]
  BY <1>0 DEF Decides, TypeOK
<1>3. ASSUME NEW q \in Ranks \ {r} PROVE Curve(q)'
  BY <1>2 DEF CurveInv, Curve, LeastBefore
<1>4. Curve(r)'
  <2>1. /\ Len(curve) = epoch[r] + 1 /\ fest[r] = curve[epoch[r] + 1] /\ LeastBefore(r)
        /\ epoch[r] \in Nat /\ prev[r] \in Int \cup {NaN} /\ fest[r] \in Int \cup {NaN}
        /\ NaN \notin Int
    BY <1>0, <1>1, RankTypes, FedOptAssumption DEF CurveInv, Curve
  <2>2. \A d \in 1 .. epoch[r] + 1 : curve[d] \in Int \cup {NaN}
    BY <2>1, CurveValues
  <2>3. LeastBefore(r)'
    <3>1. \A d \in 1 .. epoch[r] + 1 : d \in 1 .. epoch[r] \/ d = epoch[r] + 1
      BY <2>1
    <3>2. \A d \in 1 .. epoch[r] : d \in 1 .. epoch[r] + 1
      BY <2>1
    <3>3. epoch[r] + 1 \in 1 .. epoch[r] + 1
      BY <2>1
    <3>4. CASE Fails(r)
      <4>1. prev'[r] = prev[r] /\ FailedEpoch(fest[r], prev[r])
        BY <1>1, <3>4 DEF PrevAfter, Fails
      <4>2. fest[r] # NaN => prev[r] # NaN /\ prev[r] < fest[r]
        BY <2>1, <4>1 DEF FailedEpoch, Greater
      <4> QED
        BY <1>1, <2>1, <2>2, <3>1, <3>2, <4>1, <4>2 DEF LeastBefore
    <3>5. CASE ~Fails(r) /\ epoch[r] = 0
      BY <1>1, <2>1, <3>5 DEF LeastBefore, PrevAfter
    <3>6. CASE ~Fails(r) /\ epoch[r] # 0
      <4>1. prev'[r] = fest[r] /\ ~FailedEpoch(fest[r], prev[r])
        BY <1>1, <2>1, <3>6 DEF PrevAfter, Fails
      <4>2. fest[r] # NaN /\ (prev[r] # NaN => fest[r] <= prev[r])
        BY <2>1, <4>1 DEF FailedEpoch, Greater
      <4>3. \A d \in 1 .. epoch[r] : curve[d] # NaN => fest[r] <= curve[d]
        BY <2>1, <2>2, <3>2, <4>2 DEF LeastBefore
      <4> QED
        BY <1>1, <2>1, <2>2, <3>1, <3>3, <4>1, <4>2, <4>3 DEF LeastBefore
    <3> QED
      BY <3>4, <3>5, <3>6
  <2> QED
    BY <1>1, <2>1, <2>3 DEF Curve
<1> QED
  BY <1>3, <1>4 DEF CurveInv

LEMMA CurveStep ==
  TypeInv /\ DecisionInv /\ CurveInv /\ [Next]_vars => CurveInv'
<1> SUFFICES ASSUME TypeInv, DecisionInv, CurveInv, [Next]_vars PROVE CurveInv'
  OBVIOUS
<1>0. TypeOK
  BY DEF TypeInv
<1>1. ASSUME NEW r \in Ranks, LocalStep(r) \/ Averaged(r) \/ MetaStep(r) PROVE CurveInv'
  <2>1. /\ UNCHANGED <<curve, epoch, prev, fest>> /\ pc[r] # "judge"
        /\ \E s \in {"reduce", "iter", "value"} : pc' = [pc EXCEPT ![r] = s]
    BY <1>1 DEF LocalStep, Averaged, MetaStep, AfterSync
  <2> QED
    BY <1>0, <2>1, WorkKeepsCurve DEF TypeOK
<1>2. ASSUME NEW r \in Ranks, Evaluate(r) PROVE CurveInv'
  <2>1. /\ UNCHANGED <<curve, epoch, prev>> /\ pc[r] = "value"
        /\ pc' = [pc EXCEPT ![r] = "grid"] /\ \E v : fest' = [fest EXCEPT ![r] = v]
    BY <1>2 DEF Evaluate
  <2> QED
    BY <1>0, <2>1, WorkKeepsCurve DEF TypeOK
<1>3. ASSUME NEW r \in Ranks, Start(r) \/ Pass(r) \/ Fail(r) PROVE CurveInv'
  <2>1. UNCHANGED curve
    BY <1>3 DEF Start, Pass, Fail, EpochEnds
  <2> QED
    BY <1>3, <2>1, VerdictsAreDecisions, VerdictKeepsCurve
<1>4. CASE \E n \in Modes, r \in Ranks : SubGridAllReduce(n, Group(r, n))
  BY <1>4, WorkKeepsCurve DEF SubGridAllReduce
<1>5. CASE UNCHANGED vars
  BY <1>5, WorkKeepsCurve DEF vars
<1> QED
  BY <1>1, <1>2, <1>3, <1>4, <1>5, ReduceKeepsCurve DEF Next

-----------------------------------------------------------------------------
(* The epochs that passed.                                                   *)

\* The verdict of a rank is that of the curve.
LEMMA VerdictIsTrue ==
  ASSUME TypeInv, CurveInv, NEW r \in Ranks, pc[r] = "judge"
  PROVE  Fails(r) <=> epoch[r] \notin Passed
<1>1. /\ Len(curve) = epoch[r] + 1 /\ fest[r] = curve[epoch[r] + 1] /\ LeastBefore(r)
      /\ epoch[r] \in Nat /\ prev[r] \in Int \cup {NaN} /\ fest[r] \in Int \cup {NaN}
      /\ NaN \notin Int
  BY RankTypes, FedOptAssumption DEF CurveInv, Curve, TypeInv
<1>2. \A d \in 1 .. epoch[r] + 1 : curve[d] \in Int \cup {NaN}
  BY <1>1, CurveValues
<1>3. CASE epoch[r] = 0
  BY <1>1, <1>3 DEF Fails, Passed
<1>4. CASE epoch[r] # 0
  <2>1. epoch[r] \in Passed <=>
          fest[r] # NaN /\ \A d \in 0 .. epoch[r] - 1 : ~Greater(fest[r], curve[d + 1])
    <3>1. epoch[r] \in 0 .. Len(curve) - 1
      BY <1>1
    <3>2. \A e : e \in Passed <=>
            /\ e \in 0 .. Len(curve) - 1
            /\ e = 0 \/ /\ curve[e + 1] # NaN
                        /\ \A d \in 0 .. e - 1 : ~Greater(curve[e + 1], curve[d + 1])
      BY DEF Passed
    <3> QED
      BY <1>1, <1>4, <3>1, <3>2
  <2>2. Fails(r) <=> fest[r] = NaN \/ (prev[r] # NaN /\ fest[r] > prev[r])
    BY <1>1, <1>4 DEF Fails, FailedEpoch, Greater
  <2>3. ASSUME prev[r] # NaN, fest[r] # NaN, fest[r] > prev[r]
        PROVE  \E d \in 0 .. epoch[r] - 1 : Greater(fest[r], curve[d + 1])
    <3>1. PICK d \in 1 .. epoch[r] : curve[d] = prev[r]
      BY <1>1, <2>3 DEF LeastBefore
    <3>2. d - 1 \in 0 .. epoch[r] - 1 /\ (d - 1) + 1 = d
      BY <1>1
    <3> QED
      BY <2>3, <3>1, <3>2 DEF Greater
  <2>4. ASSUME NEW d \in 0 .. epoch[r] - 1, Greater(fest[r], curve[d + 1])
        PROVE  prev[r] # NaN /\ fest[r] > prev[r]
    <3>1. d + 1 \in 1 .. epoch[r]
      BY <1>1
    <3> QED
      BY <1>1, <1>2, <2>4, <3>1, SMTT(30) DEF LeastBefore, Greater
  <2> QED
    BY <2>1, <2>2, <2>3, <2>4
<1> QED
  BY <1>3, <1>4

LEMMA PassedType ==
  ASSUME TypeInv, CurveInv, NEW r \in Ranks
  PROVE  /\ PassedBefore(r) \subseteq 0 .. epoch[r] - 1
         /\ epoch[r] > 0 => 0 \in PassedBefore(r)
         /\ epoch[r] = 0 => PassedBefore(r) = {}
         /\ IsFiniteSet(PassedBefore(r))
<1>1. epoch[r] \in Nat /\ Len(curve) >= epoch[r] /\ Len(curve) \in Nat
  BY RankTypes DEF CurveInv, Curve, TypeInv
<1>2. PassedBefore(r) \subseteq 0 .. epoch[r] - 1
  BY <1>1 DEF PassedBefore, Passed
<1>3. IsFiniteSet(0 .. epoch[r] - 1)
  BY <1>1, FS_Interval, SMTT(30)
<1> QED
  BY <1>1, <1>2, <1>3, FS_Subset DEF PassedBefore, Passed

LEMMA PassedKept ==
  ASSUME UNCHANGED curve, NEW r \in Ranks, epoch'[r] = epoch[r]
  PROVE  PassedBefore(r)' = PassedBefore(r)
BY DEF PassedBefore, Passed

LEMMA PassedAtReduce ==
  ASSUME TypeInv, CurveInv, GridAllReduce, NEW r \in Ranks
  PROVE  PassedBefore(r)' = PassedBefore(r)
<1>1. /\ epoch[r] \in Nat /\ Len(curve) = epoch[r] /\ epoch' = epoch
      /\ curve \in Seq(Totals \cup {NaN}) /\ curve' = Append(curve, Total(fest))
      /\ Total(fest) \in Totals \cup {NaN}
  <2>1. /\ fest = [q \in Ranks |-> fest[q]]
        /\ \A q \in Ranks : fest[q] \in LocalValues \cup {NaN}
    BY DEF TypeInv, TypeOK, Place, GridAllReduce
  <2> QED
    BY <2>1, RankTypes, TotalType DEF CurveInv, Curve, TypeInv, GridAllReduce
<1>2. Len(curve') = Len(curve) + 1 /\ \A d \in 1 .. Len(curve) : curve'[d] = curve[d]
  BY <1>1
<1>3. ASSUME NEW e \in 0 .. epoch[r] - 1 PROVE e \in Passed' <=> e \in Passed
  <2>1. /\ e \in 0 .. Len(curve) - 1 /\ e \in 0 .. Len(curve') - 1
        /\ curve'[e + 1] = curve[e + 1]
    BY <1>1, <1>2
  <2>2. \A d \in 0 .. e - 1 : curve'[d + 1] = curve[d + 1]
    <3> TAKE d \in 0 .. e - 1
    <3>1. d + 1 \in 1 .. Len(curve)
      BY <1>1
    <3> QED
      BY <1>2, <3>1
  <2> QED
    BY <2>1, <2>2 DEF Passed, Greater
<1>4. /\ PassedBefore(r) = {e \in 0 .. epoch[r] - 1 : e \in Passed}
      /\ PassedBefore(r)' = {e \in 0 .. epoch[r] - 1 : e \in Passed'}
  <2>1. Passed \subseteq 0 .. epoch[r] - 1 /\ Passed' \subseteq 0 .. epoch[r]
    BY <1>1, <1>2 DEF Passed
  <2>2. /\ \A e \in 0 .. epoch[r] - 1 : e < epoch[r]
        /\ \A e \in 0 .. epoch[r] : e < epoch[r] => e \in 0 .. epoch[r] - 1
    BY <1>1
  <2>3. epoch'[r] = epoch[r]
    BY <1>1
  <2>4. PassedBefore(r) = {e \in 0 .. epoch[r] - 1 : e \in Passed}
    BY <2>1, <2>2 DEF PassedBefore
  <2> QED
    BY <2>1, <2>2, <2>3, <2>4 DEF PassedBefore
<1> QED
  BY <1>3, <1>4

LEMMA PassedAtVerdict ==
  ASSUME TypeInv, CurveInv, NEW r \in Ranks, Decides(r), UNCHANGED curve
  PROVE  /\ PassedBefore(r)' = IF Fails(r) THEN PassedBefore(r)
                               ELSE PassedBefore(r) \cup {epoch[r]}
         /\ \A q \in Ranks \ {r} : PassedBefore(q)' = PassedBefore(q)
<1>1. /\ pc[r] = "judge" /\ epoch[r] \in Nat /\ epoch'[r] = epoch[r] + 1
      /\ \A q \in Ranks \ {r} : epoch'[q] = epoch[q]
  BY RankTypes DEF TypeInv, TypeOK, Decides
<1>2. Fails(r) <=> epoch[r] \notin Passed
  BY <1>1, VerdictIsTrue
<1>3. Passed' = Passed /\ Passed \subseteq Nat
  BY DEF Passed, Greater, CurveInv
<1>4. PassedBefore(r)' = PassedBefore(r) \cup (Passed \cap {epoch[r]})
  <2>1. \A e \in Passed : e < epoch[r] + 1 <=> e < epoch[r] \/ e = epoch[r]
    BY <1>1, <1>3
  <2> QED
    BY <1>1, <1>3, <2>1 DEF PassedBefore
<1>5. ASSUME NEW q \in Ranks \ {r} PROVE PassedBefore(q)' = PassedBefore(q)
  BY <1>1, PassedKept
<1> QED
  BY <1>2, <1>4, <1>5

-----------------------------------------------------------------------------
(* The exponent of the local ADAM.                                           *)

Counted(r) ==
  stepper[r].kind = "adam" =>
    stepper[r].t = EpochIters * Cardinality(PassedBefore(r) \ {0}) + iter[r]

CountInv == \A r \in Ranks : Counted(r)

LEMMA StepperCounts ==
  ASSUME NEW s \in StepperType, NEW g \in Blocks
  PROVE  /\ SetStep(s).kind = s.kind /\ Update(s).kind = s.kind /\ Accumulate(s, g).kind = s.kind
         /\ SetPassed(s).kind = s.kind /\ SetFailed(s).kind = s.kind
         /\ SetStep(s).t = s.t /\ Accumulate(s, g).t = s.t /\ SetPassed(s).t = s.t
         /\ s.kind = "adam" => Update(s).t = s.t + 1 /\ SetFailed(s).t = s.t - EpochIters
<1>0. s.kind \in Steppers
  BY DEF StepperType
<1>1. /\ SetStep(s).kind = s.kind /\ SetStep(s).t = s.t
      /\ Accumulate(s, g).kind = s.kind /\ Accumulate(s, g).t = s.t
      /\ SetPassed(s).kind = s.kind /\ SetPassed(s).t = s.t
  BY DEF SetStep, Accumulate, SetPassed, StepperType
<1>2. Update(s).kind = s.kind /\ (s.kind = "adam" => Update(s).t = s.t + 1)
  BY DEF Update, StepperType
<1>3. SetFailed(s).kind = s.kind /\ (s.kind = "adam" => SetFailed(s).t = s.t - EpochIters)
  BY <1>0 DEF SetFailed, StepperType, Steppers
<1> QED
  BY <1>1, <1>2, <1>3

LEMMA CountInit == ASSUME Init PROVE CountInv
<1> SUFFICES ASSUME NEW r \in Ranks PROVE Counted(r)
  BY DEF CountInv
<1>1. PassedBefore(r) \ {0} = {} /\ iter[r] = 0 /\ stepper[r].t = 0
  BY DEF Init, PassedBefore, Passed, NewStepper
<1>2. EpochIters * 0 + 0 = 0
  BY FedOptAssumption
<1> QED
  BY <1>1, <1>2, FS_EmptySet DEF Counted

LEMMA PassedCount ==
  ASSUME TypeInv, CurveInv, NEW r \in Ranks
  PROVE  EpochIters * Cardinality(PassedBefore(r) \ {0}) \in Nat
<1>1. Cardinality(PassedBefore(r) \ {0}) \in Nat
  BY PassedType, FS_Subset, FS_CardinalityType
<1> QED
  BY <1>1, FedOptAssumption

LEMMA OthersKeepCount ==
  ASSUME CountInv, NEW r \in Ranks, stepper'[r] = stepper[r], iter'[r] = iter[r],
         PassedBefore(r)' = PassedBefore(r)
  PROVE  Counted(r)'
BY DEF CountInv, Counted

LEMMA LocalStepCounts ==
  ASSUME TypeInv, CurveInv, CountInv, NEW r \in Ranks, LocalStep(r)
  PROVE  CountInv'
<1> DEFINE g == Token(r, epoch[r], iter[r] + 1)
           s == SetStep(stepper[r])
<1>0. TypeOK
  BY DEF TypeInv
<1>1. /\ iter' = [iter EXCEPT ![r] = iter[r] + 1]
      /\ stepper' = [stepper EXCEPT ![r] = Accumulate(Update(s), g)]
      /\ UNCHANGED <<curve, epoch>>
  BY DEF LocalStep
<1>2. g \in Blocks /\ stepper[r] \in StepperType /\ iter[r] \in Nat
  BY <1>0, RankTypes, TokenType
<1>3. s \in StepperType /\ Update(s) \in StepperType
  BY <1>2, StepperTypes
<1> HIDE DEF g, s
<1>4. /\ stepper'[r] = Accumulate(Update(s), g) /\ iter'[r] = iter[r] + 1
      /\ \A q \in Ranks \ {r} : stepper'[q] = stepper[q] /\ iter'[q] = iter[q]
  BY <1>0, <1>1 DEF TypeOK
<1>5. /\ stepper'[r].kind = stepper[r].kind
      /\ stepper[r].kind = "adam" => stepper'[r].t = stepper[r].t + 1
  BY <1>2, <1>3, <1>4, StepperCounts DEF s
<1>6. \A q \in Ranks : PassedBefore(q)' = PassedBefore(q)
  BY <1>1, PassedKept
<1>7. ASSUME stepper[r].kind = "adam"
      PROVE  stepper'[r].t = EpochIters * Cardinality(PassedBefore(r) \ {0}) + iter'[r]
  <2>1. stepper[r].t = EpochIters * Cardinality(PassedBefore(r) \ {0}) + iter[r]
    BY <1>7 DEF CountInv, Counted
  <2>2. stepper[r].t \in Int
    BY <1>2 DEF StepperType
  <2> QED
    BY <1>2, <1>4, <1>5, <1>7, <2>1, <2>2, PassedCount
<1>8. Counted(r)'
  BY <1>5, <1>6, <1>7 DEF Counted
<1>9. \A q \in Ranks \ {r} : Counted(q)'
  BY <1>4, <1>6, OthersKeepCount
<1> QED
  BY <1>8, <1>9 DEF CountInv

\* A passed epoch is counted with its epoch_iters steps; those of a failed one are taken back.
LEMMA VerdictCounts ==
  ASSUME TypeInv, DecisionInv, CurveInv, CountInv, NEW r \in Ranks,
         Start(r) \/ Pass(r) \/ Fail(r)
  PROVE  CountInv'
<1>0. TypeOK /\ Place(r) /\ Decides(r)
  BY VerdictsAreDecisions DEF TypeInv
<1>1. /\ UNCHANGED curve /\ epoch[r] \in Nat /\ stepper[r] \in StepperType /\ pc[r] = "judge"
  BY <1>0, RankTypes DEF Start, Pass, Fail, EpochEnds, Decides
<1>2. /\ PassedBefore(r)' = IF Fails(r) THEN PassedBefore(r) ELSE PassedBefore(r) \cup {epoch[r]}
      /\ \A q \in Ranks \ {r} : PassedBefore(q)' = PassedBefore(q)
  BY <1>0, <1>1, PassedAtVerdict
<1>3. /\ PassedBefore(r) \subseteq 0 .. epoch[r] - 1 /\ IsFiniteSet(PassedBefore(r))
      /\ epoch[r] = 0 => PassedBefore(r) = {}
  BY PassedType
<1>4. ASSUME NEW q \in Ranks \ {r} PROVE stepper'[q] = stepper[q] /\ iter'[q] = iter[q]
  BY <1>0 DEF TypeOK, Start, Pass, Fail, EpochEnds
<1> DEFINE P == PassedBefore(r) \ {0}
<1>5. IsFiniteSet(P) /\ Cardinality(P) \in Nat /\ epoch[r] \notin P
  BY <1>1, <1>3, FS_Subset, FS_CardinalityType
<1>6. SetPassed(stepper[r]).kind = stepper[r].kind /\ SetFailed(stepper[r]).kind = stepper[r].kind
  BY <1>1, StepperCounts, EmptyType
<1>7. ASSUME stepper[r].kind = "adam"
      PROVE  /\ stepper[r].t = EpochIters * Cardinality(P) + iter[r] /\ stepper[r].t \in Int
             /\ SetPassed(stepper[r]).t = stepper[r].t
             /\ SetFailed(stepper[r]).t = stepper[r].t - EpochIters
             /\ EpochIters \in Nat
  BY <1>1, <1>7, StepperCounts, EmptyType, FedOptAssumption DEF StepperType, CountInv, Counted
<1> HIDE DEF P
<1>8. CASE Start(r)
  <2>1. /\ stepper'[r] = stepper[r] /\ iter'[r] = iter[r]
        /\ epoch[r] = 0 /\ ~Fails(r)
    BY <1>8 DEF Start, Fails
  <2>2. (PassedBefore(r) \ {0})' = P
    BY <1>2, <1>3, <2>1 DEF P
  <2> QED
    BY <1>7, <2>1, <2>2, <1>2, <1>4, OthersKeepCount DEF CountInv, Counted
<1>9. CASE Pass(r)
  <2>1. /\ stepper'[r] = SetPassed(stepper[r]) /\ iter'[r] = 0 /\ iter[r] = EpochIters
        /\ epoch[r] > 0 /\ ~Fails(r)
    BY <1>0, <1>9 DEF Pass, EpochEnds, Fails, TypeOK, Place
  <2>2. (PassedBefore(r) \ {0})' = P \cup {epoch[r]}
    BY <1>1, <1>2, <2>1 DEF P
  <2>3. Cardinality(P \cup {epoch[r]}) = Cardinality(P) + 1
    BY <1>5, FS_AddElement
  <2>4. stepper[r].kind = "adam" => stepper[r].t = EpochIters * (Cardinality(P) + 1) + 0
    BY <1>5, <1>7, <2>1
  <2>5. Counted(r)'
    BY <1>6, <1>7, <2>1, <2>2, <2>3, <2>4 DEF Counted
  <2> QED
    BY <2>5, <1>2, <1>4, OthersKeepCount DEF CountInv
<1>10. CASE Fail(r)
  <2>1. /\ stepper'[r] = SetFailed(stepper[r]) /\ iter'[r] = 0 /\ iter[r] = EpochIters
        /\ Fails(r)
    BY <1>0, <1>10 DEF Fail, EpochEnds, Fails, TypeOK, Place
  <2>2. (PassedBefore(r) \ {0})' = P
    BY <1>2, <2>1 DEF P
  <2>3. stepper[r].kind = "adam" => stepper[r].t - EpochIters = EpochIters * Cardinality(P) + 0
    BY <1>5, <1>7, <2>1
  <2>4. Counted(r)'
    BY <1>6, <1>7, <2>1, <2>2, <2>3 DEF Counted
  <2> QED
    BY <2>4, <1>2, <1>4, OthersKeepCount DEF CountInv
<1> QED
  BY <1>8, <1>9, <1>10

LEMMA CountStep ==
  TypeInv /\ DecisionInv /\ CurveInv /\ CountInv /\ [Next]_vars => CountInv'
<1> SUFFICES ASSUME TypeInv, DecisionInv, CurveInv, CountInv, [Next]_vars PROVE CountInv'
  OBVIOUS
<1>1. ASSUME UNCHANGED <<stepper, iter, epoch, curve>> PROVE CountInv'
  BY <1>1, PassedKept, OthersKeepCount DEF CountInv
<1>2. ASSUME NEW r \in Ranks, Averaged(r) \/ MetaStep(r) \/ Evaluate(r) PROVE CountInv'
  BY <1>1, <1>2 DEF Averaged, MetaStep, Evaluate
<1>3. CASE \E n \in Modes, r \in Ranks : SubGridAllReduce(n, Group(r, n))
  BY <1>1, <1>3 DEF SubGridAllReduce
<1>4. CASE GridAllReduce
  <2>1. UNCHANGED <<stepper, iter>>
    BY <1>4 DEF GridAllReduce
  <2> QED
    BY <1>4, <2>1, PassedAtReduce, OthersKeepCount DEF CountInv
<1>5. CASE UNCHANGED vars
  BY <1>1, <1>5 DEF vars
<1> QED
  BY <1>2, <1>3, <1>4, <1>5, LocalStepCounts, VerdictCounts DEF Next

Inv == DecisionInv /\ TypeInv /\ CurveInv

LEMMA InvInit == Init => Inv
BY DecisionInit, TypeInit, CurveInit DEF Inv

LEMMA InvStep == Inv /\ [Next]_vars => Inv'
BY DecisionStep, TypeStep, CurveStep DEF Inv

\* On every grid and after every sequence of passed and failed epochs, the bias correction
\* of the local ADAM counts the steps of the passed epochs (gcp_fedopt: SetFailed takes
\* back epoch_iters, whatever the last, short round was).
THEOREM LocalStepperRestored == Spec => []LocalStepperIsRestored
<1>1. Inv /\ CountInv => LocalStepperIsRestored
  <2> SUFFICES ASSUME Inv, CountInv, NEW r \in Ranks, BetweenEpochs(r), stepper[r].kind = "adam"
               PROVE  stepper[r].t = EpochIters * Cardinality(PassedBefore(r) \ {0})
    BY DEF LocalStepperIsRestored
  <2> QED
    BY PassedCount DEF Inv, CountInv, Counted, BetweenEpochs
<1>2. Init /\ [][Next]_vars => [](Inv /\ CountInv)
  BY InvInit, InvStep, CountInit, CountStep, PTL DEF Inv
<1> QED
  BY <1>1, <1>2, PTL DEF Spec

-----------------------------------------------------------------------------
(***************************************************************************)
(* What is in the model: the copies of a block agree, a failed epoch       *)
(* leaves nothing behind, no step is lost, and the ranks together run the  *)
(* loop of GCPSGD::solve.                                                  *)
(*                                                                         *)
(* The invariants are stated of all states, so they must say what the      *)
(* properties leave out: what a rank will hold once it has caught up with  *)
(* its group (AgreeInv), what each block may hold in the middle of an      *)
(* epoch (TraceInv), which all-reduces lie behind it (MetInv) and what has *)
(* been gathered by them (ExactInv).                                       *)
(***************************************************************************)

(* The copies of a block.  ReplicasAgree compares ranks that stand at the same place.   *)
(* Between those places one rank may have copied what was reduced, or judged the epoch, *)
(* when another has not yet.  Next* is what the variables of a rank will be once it has  *)
(* caught up, and on this the ranks of a group agree at all times.                        *)

\* Block n of the buffer of r is reduced and not yet used.
Applied(r, n) == pc[r] = "reduce" /\ mode[r] > n

MetaStepped(s, g) == Accumulate(SetStep(Update(s)), g)

TakesMetaStep(r, n) == Applied(r, n) /\ epoch[r] > 0 /\ setup.method = "opt"

NextStepper(r, n) ==
  IF TakesMetaStep(r, n) THEN MetaStepped(metaStepper[r], wire[r])
  ELSE IF pc[r] = "judge" /\ epoch[r] > 0
       THEN IF Fails(r) THEN SetFailed(metaStepper[r]) ELSE SetPassed(metaStepper[r])
       ELSE metaStepper[r]

NextMeta(r, n) ==
  IF TakesMetaStep(r, n)
  THEN meta[r][n] \cup Direction(MetaStepped(metaStepper[r], wire[r]), wire[r])[n]
  ELSE IF Applied(r, n) /\ epoch[r] = 0 THEN wire[r][n]
  ELSE IF pc[r] = "judge" /\ Fails(r) THEN best[r][n] ELSE meta[r][n]

NextBest(r, n) ==
  IF Applied(r, n) /\ epoch[r] = 0 THEN wire[r][n]
  ELSE IF pc[r] = "judge" /\ epoch[r] > 0 /\ ~Fails(r) THEN u[r][n] ELSE best[r][n]

NextU(r, n) ==
  IF TakesMetaStep(r, n) THEN NextMeta(r, n)
  ELSE IF Applied(r, n) THEN wire[r][n]
  ELSE IF pc[r] = "judge" /\ Fails(r) THEN best[r][n] ELSE u[r][n]

NextIter(r) == IF pc[r] = "judge" THEN 0 ELSE iter[r]

\* u is not in the middle of a round of gradient steps.
Settled(r, n) ==
  \/ pc[r] \in {"value", "grid", "judge", "done"} \/ Applied(r, n)
  \/ pc[r] = "iter" /\ iter[r] = 0

SameStepper(s, t, n) ==
  /\ s.kind = t.kind /\ s.m[n] = t.m[n] /\ s.mPrev[n] = t.mPrev[n]
  /\ s.t = t.t /\ s.step = t.step /\ s.rate = t.rate

SameBlock(r, q, n) ==
  /\ u[r][n] = u[q][n] /\ meta[r][n] = meta[q][n] /\ best[r][n] = best[q][n]
  /\ SameStepper(metaStepper[r], metaStepper[q], n)

Agree(r, q, n) ==
  /\ SameStepper(NextStepper(r, n), NextStepper(q, n), n)
  /\ NextMeta(r, n) = NextMeta(q, n) /\ NextBest(r, n) = NextBest(q, n)
  /\ Settled(r, n) /\ Settled(q, n) /\ NextIter(r) = NextIter(q) => NextU(r, n) = NextU(q, n)
  /\ pc[r] = "judge" /\ pc[q] = "judge" => SameBlock(r, q, n)

AgreeInv == \A n \in Modes : \A r \in Ranks : \A q \in Group(r, n) : Agree(r, q, n)

\* What a stepper does to one block depends on what it holds of that block.
LEMMA SteppersAgree ==
  ASSUME NEW n \in Modes, NEW s \in StepperType, NEW t \in StepperType,
         NEW g \in Blocks, NEW h \in Blocks, SameStepper(s, t, n), g[n] = h[n]
  PROVE  /\ SameStepper(MetaStepped(s, g), MetaStepped(t, h), n)
         /\ Direction(MetaStepped(s, g), g)[n] = Direction(MetaStepped(t, h), h)[n]
         /\ SameStepper(SetPassed(s), SetPassed(t), n)
         /\ SameStepper(SetFailed(s), SetFailed(t), n)
<1>0. /\ s.kind \in Steppers /\ s.kind = t.kind
      /\ s.m[n] = t.m[n] /\ s.mPrev[n] = t.mPrev[n] /\ s.t = t.t
  BY DEF StepperType, SameStepper
<1>1. SameStepper(Update(s), Update(t), n)
  BY DEF SameStepper, Update, StepperType
<1>2. SameStepper(SetStep(Update(s)), SetStep(Update(t)), n)
  <2>1. Update(s) \in StepperType /\ Update(t) \in StepperType
    BY StepperTypes
  <2> QED
    BY <1>1, <2>1 DEF SameStepper, SetStep, StepperType
<1>3. SetStep(Update(s)) \in StepperType /\ SetStep(Update(t)) \in StepperType
  BY StepperTypes
<1>4. ASSUME NEW a \in StepperType, NEW b \in StepperType, SameStepper(a, b, n)
      PROVE  SameStepper(Accumulate(a, g), Accumulate(b, h), n)
  <2>1. Join(a.m, g)[n] = Join(b.m, h)[n]
    BY <1>4 DEF SameStepper, Join
  <2> QED
    BY <1>4, <2>1 DEF SameStepper, Accumulate, StepperType
<1>5. SameStepper(MetaStepped(s, g), MetaStepped(t, h), n)
  BY <1>2, <1>3, <1>4 DEF MetaStepped
<1>6. MetaStepped(s, g) \in StepperType /\ MetaStepped(t, h) \in StepperType
  BY <1>3, StepperTypes DEF MetaStepped
<1>7. ASSUME NEW a \in StepperType, NEW b \in StepperType, SameStepper(a, b, n)
      PROVE  Direction(a, g)[n] = Direction(b, h)[n]
  <2>1. /\ a.kind \in Steppers /\ a.rate \in {"zero", "set", "nan"}
        /\ a.kind = b.kind /\ a.rate = b.rate
    BY <1>7 DEF StepperType, SameStepper
  <2>2. Join(a.m, g)[n] = Join(b.m, h)[n]
    BY <1>7 DEF SameStepper, Join
  <2> QED
    BY <2>1, <2>2 DEF Direction, Steppers
<1>8. SameStepper(SetPassed(s), SetPassed(t), n)
  BY DEF SameStepper, SetPassed, StepperType
<1>9. SameStepper(SetFailed(s), SetFailed(t), n)
  BY <1>0 DEF SameStepper, SetFailed, StepperType, Steppers
<1> QED
  BY <1>5, <1>6, <1>7, <1>8, <1>9

\* All variables of a rank are as before.
Unmoved(q) ==
  /\ setup' = setup
  /\ pc'[q] = pc[q] /\ epoch'[q] = epoch[q] /\ iter'[q] = iter[q] /\ mode'[q] = mode[q]
  /\ u'[q] = u[q] /\ meta'[q] = meta[q] /\ best'[q] = best[q] /\ wire'[q] = wire[q]
  /\ metaStepper'[q] = metaStepper[q] /\ fest'[q] = fest[q] /\ prev'[q] = prev[q]

\* Rank r catches up, or does nothing that the others of its groups will do.
Catches(r, n) ==
  /\ NextStepper(r, n)' = NextStepper(r, n) /\ NextMeta(r, n)' = NextMeta(r, n)
  /\ NextBest(r, n)' = NextBest(r, n)
  /\ Settled(r, n)' => /\ Settled(r, n) /\ NextIter(r)' = NextIter(r)
                       /\ NextU(r, n)' = NextU(r, n)
  /\ pc'[r] = "judge" => /\ pc[r] = "judge" /\ u'[r] = u[r] /\ meta'[r] = meta[r]
                         /\ best'[r] = best[r] /\ metaStepper'[r] = metaStepper[r]

LEMMA UnmovedCatches ==
  ASSUME NEW q \in Ranks, NEW n \in Modes, Unmoved(q) PROVE Catches(q, n)
BY DEF Unmoved, Catches, NextStepper, NextMeta, NextBest, NextU, NextIter, Settled, TakesMetaStep,
       Applied, Fails

LEMMA CatchingKeepsAgreement ==
  ASSUME AgreeInv, NEW r \in Ranks, \A n \in Modes : Catches(r, n),
         \A q \in Ranks \ {r} : Unmoved(q)
  PROVE  AgreeInv'
<1>1. ASSUME NEW n \in Modes, NEW q \in Ranks PROVE Catches(q, n)
  BY UnmovedCatches
<1>2. ASSUME NEW n \in Modes, NEW p \in Ranks, NEW q \in Group(p, n) PROVE Agree(p, q, n)'
  <2>1. Agree(p, q, n) /\ q \in Ranks
    BY DEF AgreeInv, Group
  <2> QED
    BY <1>1, <2>1 DEF Catches, Agree, SameBlock
<1> QED
  BY <1>2 DEF AgreeInv, Group

LEMMA AgreeInit == Init => AgreeInv
<1> SUFFICES ASSUME Init, NEW n \in Modes, NEW r \in Ranks, NEW q \in Group(r, n)
             PROVE  Agree(r, q, n)
  BY DEF AgreeInv
<1>0. n \in Nat /\ n >= 1 /\ q \in Ranks
  BY FedOptAssumption DEF Modes, Group
<1>1. /\ ~Applied(r, n) /\ ~Applied(q, n) /\ pc[r] = "reduce" /\ pc[q] = "reduce"
  BY <1>0 DEF Init, Applied
<1>2. /\ NextStepper(r, n) = metaStepper[r] /\ NextStepper(q, n) = metaStepper[q]
      /\ NextMeta(r, n) = meta[r][n] /\ NextMeta(q, n) = meta[q][n]
      /\ NextBest(r, n) = best[r][n] /\ NextBest(q, n) = best[q][n]
      /\ ~Settled(r, n)
  BY <1>1 DEF NextStepper, NextMeta, NextBest, TakesMetaStep, Settled
<1>3. /\ metaStepper[r] = metaStepper[q] /\ meta[r] = meta[q] /\ best[r] = best[q]
  BY <1>0 DEF Init
<1> QED
  BY <1>1, <1>2, <1>3 DEF Agree, SameStepper

LEMMA LocalStepAgrees ==
  ASSUME TypeInv, AgreeInv, NEW r \in Ranks, LocalStep(r) PROVE AgreeInv'
<1>0. TypeOK /\ Place(r)
  BY DEF TypeInv
<1>1. /\ UNCHANGED <<setup, epoch, mode, meta, best, metaStepper, fest, prev>>
      /\ pc[r] = "iter" /\ pc'[r] \in {"iter", "reduce"} /\ iter'[r] = iter[r] + 1 /\ mode[r] = 1
      /\ iter[r] \in Nat
      /\ \A q \in Ranks \ {r} : pc'[q] = pc[q] /\ iter'[q] = iter[q] /\ u'[q] = u[q]
                                /\ wire'[q] = wire[q]
  BY <1>0, RankTypes DEF TypeOK, LocalStep, Place
<1>2. ASSUME NEW n \in Modes PROVE Catches(r, n)
  <2>1. n \in Nat /\ n >= 1
    BY FedOptAssumption DEF Modes
  <2>2. ~Applied(r, n) /\ ~Applied(r, n)' /\ ~Settled(r, n)'
    BY <1>1, <2>1 DEF Applied, Settled
  <2> QED
    BY <1>1, <2>2 DEF Catches, NextStepper, NextMeta, NextBest, TakesMetaStep
<1>3. \A q \in Ranks \ {r} : Unmoved(q)
  BY <1>1 DEF Unmoved
<1> QED
  BY <1>2, <1>3, CatchingKeepsAgreement

LEMMA AveragedAgrees ==
  ASSUME TypeInv, AgreeInv, NEW r \in Ranks, Averaged(r) PROVE AgreeInv'
<1>0. TypeOK /\ Place(r) /\ epoch[r] \in Nat /\ iter[r] \in Nat /\ setup \in Setups
  BY RankTypes DEF TypeInv, TypeOK
<1>1. /\ UNCHANGED <<setup, epoch, iter, wire, metaStepper, fest, prev>>
      /\ pc[r] = "reduce" /\ mode[r] > Len(Grid) /\ u'[r] = wire[r] /\ mode'[r] = 1
      /\ epoch[r] = 0 \/ setup.method = "avg"
      /\ epoch[r] = 0 => best'[r] = wire[r] /\ meta'[r] = wire[r] /\ pc'[r] = "value"
      /\ epoch[r] # 0 => best'[r] = best[r] /\ meta'[r] = meta[r] /\ pc'[r] = AfterSync(r)
      /\ \A q \in Ranks \ {r} : pc'[q] = pc[q] /\ mode'[q] = mode[q] /\ u'[q] = u[q]
                                /\ best'[q] = best[q] /\ meta'[q] = meta[q]
  BY <1>0 DEF TypeOK, Averaged
<1>2. ASSUME NEW n \in Modes PROVE Catches(r, n)
  <2>1. mode[r] > n
    <3>1. n \in 1 .. Len(Grid) /\ mode[r] \in Nat /\ Len(Grid) \in Nat
      BY <1>0, RankTypes DEF Modes
    <3> QED
      BY <1>1, <3>1
  <2>2. Applied(r, n) /\ ~TakesMetaStep(r, n) /\ ~Applied(r, n)' /\ ~TakesMetaStep(r, n)'
    BY <1>0, <1>1, <2>1 DEF Applied, TakesMetaStep, AfterSync
  <2>3. pc'[r] \in {"value", "iter"}
    BY <1>1 DEF AfterSync
  <2> QED
    BY <1>0, <1>1, <2>2, <2>3 DEF Catches, NextStepper, NextMeta, NextBest, NextU, NextIter, Settled
<1>3. \A q \in Ranks \ {r} : Unmoved(q)
  BY <1>1 DEF Unmoved
<1> QED
  BY <1>2, <1>3, CatchingKeepsAgreement

LEMMA MetaStepAgrees ==
  ASSUME TypeInv, AgreeInv, NEW r \in Ranks, MetaStep(r) PROVE AgreeInv'
<1> DEFINE s == MetaStepped(metaStepper[r], wire[r])
           v == Join(meta[r], Direction(s, wire[r]))
<1>0. TypeOK /\ Place(r) /\ epoch[r] \in Nat /\ iter[r] \in Nat
  BY RankTypes DEF TypeInv
<1>1. /\ UNCHANGED <<setup, epoch, iter, best, wire, fest, prev>>
      /\ pc[r] = "reduce" /\ mode[r] > Len(Grid) /\ epoch[r] > 0 /\ setup.method = "opt"
      /\ u'[r] = v /\ meta'[r] = v /\ metaStepper'[r] = s
      /\ mode'[r] = 1 /\ pc'[r] = AfterSync(r)
      /\ \A q \in Ranks \ {r} : pc'[q] = pc[q] /\ mode'[q] = mode[q] /\ u'[q] = u[q]
                                /\ meta'[q] = meta[q] /\ metaStepper'[q] = metaStepper[q]
  BY <1>0 DEF TypeOK, MetaStep, MetaStepped
<1>2. ASSUME NEW n \in Modes PROVE Catches(r, n)
  <2>1. mode[r] > n
    <3>1. n \in 1 .. Len(Grid) /\ mode[r] \in Nat /\ Len(Grid) \in Nat
      BY <1>0, RankTypes DEF Modes
    <3> QED
      BY <1>1, <3>1
  <2>2. pc'[r] \in {"value", "iter"}
    BY <1>1 DEF AfterSync
  <2>3. Applied(r, n) /\ TakesMetaStep(r, n) /\ ~Applied(r, n)' /\ ~TakesMetaStep(r, n)'
    BY <1>0, <1>1, <2>1, <2>2 DEF Applied, TakesMetaStep
  <2>4. v[n] = meta[r][n] \cup Direction(s, wire[r])[n]
    BY DEF Join
  <2> HIDE DEF s, v
  <2>5. /\ NextStepper(r, n) = s /\ NextMeta(r, n) = v[n] /\ NextU(r, n) = v[n]
        /\ NextBest(r, n) = best[r][n] /\ Settled(r, n) /\ NextIter(r) = iter[r]
    BY <1>0, <1>1, <2>3, <2>4 DEF NextStepper, NextMeta, NextBest, NextU, NextIter, Settled, s
  <2>6. /\ NextStepper(r, n)' = s /\ NextMeta(r, n)' = v[n] /\ NextU(r, n)' = v[n]
        /\ NextBest(r, n)' = best[r][n] /\ NextIter(r)' = iter[r]
    BY <1>0, <1>1, <2>2, <2>3 DEF NextStepper, NextMeta, NextBest, NextU, NextIter
  <2> QED
    BY <2>2, <2>5, <2>6 DEF Catches
<1>3. \A q \in Ranks \ {r} : Unmoved(q)
  BY <1>1 DEF Unmoved
<1> QED
  BY <1>2, <1>3, CatchingKeepsAgreement

LEMMA EvaluateAgrees ==
  ASSUME TypeInv, AgreeInv, NEW r \in Ranks, Evaluate(r) PROVE AgreeInv'
<1>0. TypeOK
  BY DEF TypeInv
<1>1. /\ UNCHANGED <<setup, epoch, iter, mode, u, meta, best, wire, metaStepper, prev>>
      /\ pc[r] = "value" /\ pc'[r] = "grid"
      /\ \A q \in Ranks \ {r} : pc'[q] = pc[q] /\ fest'[q] = fest[q]
  BY <1>0 DEF TypeOK, Evaluate
<1>2. ASSUME NEW n \in Modes PROVE Catches(r, n)
  BY <1>1 DEF Catches, NextStepper, NextMeta, NextBest, NextU, NextIter, Settled, TakesMetaStep,
     Applied
<1>3. \A q \in Ranks \ {r} : Unmoved(q)
  BY <1>1 DEF Unmoved
<1> QED
  BY <1>2, <1>3, CatchingKeepsAgreement

LEMMA VerdictAgrees ==
  ASSUME TypeInv, AgreeInv, NEW r \in Ranks, Start(r) \/ Pass(r) \/ Fail(r) PROVE AgreeInv'
<1>0. TypeOK /\ epoch[r] \in Nat /\ Place(r)
  BY RankTypes DEF TypeInv
<1>1. /\ UNCHANGED <<setup, mode, wire>> /\ pc[r] = "judge"
      /\ epoch'[r] = epoch[r] + 1 /\ pc'[r] \in {"iter", "done"} /\ iter'[r] = 0
      /\ \A q \in Ranks \ {r} : Unmoved(q)
  BY <1>0 DEF TypeOK, Start, Pass, Fail, EpochEnds, Unmoved, Place
<1>2. ASSUME NEW n \in Modes PROVE Catches(r, n)
  <2>1. /\ ~Applied(r, n) /\ ~TakesMetaStep(r, n) /\ ~Applied(r, n)' /\ ~TakesMetaStep(r, n)'
        /\ Settled(r, n) /\ NextIter(r) = 0 /\ NextIter(r)' = 0 /\ epoch'[r] > 0
    BY <1>0, <1>1 DEF Applied, TakesMetaStep, Settled, NextIter
  <2>2. CASE Start(r)
    <3>1. /\ u'[r] = u[r] /\ meta'[r] = meta[r] /\ best'[r] = best[r]
          /\ metaStepper'[r] = metaStepper[r] /\ ~Fails(r) /\ epoch[r] = 0
      BY <2>2 DEF Start, Fails
    <3> QED
      BY <1>1, <2>1, <3>1 DEF Catches, NextStepper, NextMeta, NextBest, NextU
  <2>3. CASE Pass(r)
    <3>1. /\ u'[r] = u[r] /\ meta'[r] = meta[r] /\ best'[r] = u[r]
          /\ metaStepper'[r] = SetPassed(metaStepper[r]) /\ ~Fails(r) /\ epoch[r] > 0
      BY <1>0, <2>3 DEF Pass, EpochEnds, Fails, TypeOK
    <3> QED
      BY <1>1, <2>1, <3>1 DEF Catches, NextStepper, NextMeta, NextBest, NextU
  <2>4. CASE Fail(r)
    <3>1. /\ u'[r] = best[r] /\ meta'[r] = best[r] /\ best'[r] = best[r]
          /\ metaStepper'[r] = SetFailed(metaStepper[r]) /\ Fails(r) /\ epoch[r] > 0
      BY <1>0, <2>4 DEF Fail, EpochEnds, Fails, TypeOK
    <3> QED
      BY <1>1, <2>1, <3>1 DEF Catches, NextStepper, NextMeta, NextBest, NextU
  <2> QED
    BY <2>2, <2>3, <2>4
<1> QED
  BY <1>1, <1>2, CatchingKeepsAgreement

\* Ranks that stand at collective calls of their epochs are in the same epoch.
LEMMA SameEpoch ==
  ASSUME DecisionInv, NEW r \in Ranks, NEW q \in Ranks, pc[r] # "judge", pc[q] # "judge"
  PROVE  epoch[r] = epoch[q]
<1>1. epoch[r] \in Nat /\ epoch[q] \in Nat /\ Pair(r, q) /\ Pair(q, r)
  BY DEF DecisionInv, DecisionShape
<1> QED
  BY <1>1 DEF Pair, Ahead

\* gridAllReduce: the ranks stand at the same place with the same copies, and the estimate
\* they get is the same.
LEMMA GridReduceAgrees ==
  ASSUME TypeInv, DecisionInv, AgreeInv, GridAllReduce PROVE AgreeInv'
<1> SUFFICES ASSUME NEW n \in Modes, NEW r \in Ranks, NEW q \in Group(r, n)
             PROVE  Agree(r, q, n)'
  BY DEF AgreeInv, Group
<1>0. q \in Ranks /\ TypeOK /\ Place(r) /\ Place(q) /\ Agree(r, q, n)
  BY DEF TypeInv, Group, AgreeInv
<1>1. /\ pc[r] = "grid" /\ pc[q] = "grid" /\ pc'[r] = "judge" /\ pc'[q] = "judge"
      /\ fest'[r] = fest'[q]
      /\ UNCHANGED <<setup, epoch, iter, mode, u, meta, best, wire, metaStepper, prev>>
  BY <1>0 DEF GridAllReduce
<1>2. /\ epoch[r] = epoch[q] /\ iter[r] = iter[q] /\ prev[r] = prev[q]
      /\ epoch[r] \in Nat /\ epoch[q] \in Nat
  <2>1. epoch[r] = epoch[q] /\ epoch[r] \in Nat /\ Pair(r, q)
    BY <1>0, <1>1, SameEpoch, RankTypes DEF DecisionInv
  <2> QED
    BY <1>0, <1>1, <2>1 DEF Place, Pair, Level
<1>3. /\ ~Applied(r, n) /\ ~Applied(q, n) /\ ~Applied(r, n)' /\ ~Applied(q, n)'
      /\ ~TakesMetaStep(r, n) /\ ~TakesMetaStep(q, n)
      /\ ~TakesMetaStep(r, n)' /\ ~TakesMetaStep(q, n)'
  BY <1>1 DEF Applied, TakesMetaStep
<1>4. SameBlock(r, q, n)
  BY <1>0, <1>1, <1>2, <1>3
     DEF Agree, SameBlock, NextStepper, NextMeta, NextBest, NextU, NextIter, Settled
<1>5. Fails(r)' <=> Fails(q)'
  BY <1>1, <1>2 DEF Fails
<1>6. SameBlock(r, q, n)'
  BY <1>1, <1>4 DEF SameBlock
<1>7. SameStepper(NextStepper(r, n), NextStepper(q, n), n)'
  <2>1. /\ metaStepper[r] \in StepperType /\ metaStepper[q] \in StepperType
        /\ SameStepper(metaStepper[r], metaStepper[q], n)
    BY <1>0, <1>4, RankTypes DEF SameBlock
  <2>2. /\ SameStepper(SetPassed(metaStepper[r]), SetPassed(metaStepper[q]), n)
        /\ SameStepper(SetFailed(metaStepper[r]), SetFailed(metaStepper[q]), n)
    BY <2>1, SteppersAgree, EmptyType
  <2> QED
    BY <1>1, <1>2, <1>3, <1>5, <2>1, <2>2 DEF NextStepper
<1>8. /\ NextMeta(r, n)' = NextMeta(q, n)' /\ NextBest(r, n)' = NextBest(q, n)'
      /\ NextU(r, n)' = NextU(q, n)'
  BY <1>1, <1>2, <1>3, <1>5, <1>6 DEF NextMeta, NextBest, NextU, SameBlock
<1> QED
  BY <1>6, <1>7, <1>8 DEF Agree

\* The n-th all-reduce of a group makes the ranks of the group take the same step in mode
\* n, and changes nothing in the other modes.
LEMMA SubGridAgrees ==
  ASSUME TypeInv, DecisionInv, AgreeInv, NEW n \in Modes, NEW a \in Ranks,
         SubGridAllReduce(n, Group(a, n))
  PROVE  AgreeInv'
<1> SUFFICES ASSUME NEW k \in Modes, NEW r \in Ranks, NEW q \in Group(r, k)
             PROVE  Agree(r, q, k)'
  BY DEF AgreeInv, Group
<1>0. q \in Ranks /\ TypeOK /\ Agree(r, q, k)
  BY DEF TypeInv, Group, AgreeInv
<1> DEFINE G == Group(a, n)
<1>1. /\ \A p \in G : pc[p] = "reduce" /\ mode[p] = n
      /\ \A p \in Ranks \ G : wire'[p] = wire[p] /\ mode'[p] = mode[p]
      /\ \A p \in G : wire'[p] = [wire[p] EXCEPT ![n] = UNION {wire[x][n] : x \in G}]
      /\ \A p \in G : mode'[p] = n + 1
      /\ UNCHANGED <<setup, pc, epoch, iter, u, meta, best, metaStepper, fest, prev>>
      /\ G \subseteq Ranks
  BY DEF SubGridAllReduce, Group
<1> HIDE DEF G
<1>2. /\ \A p \in Ranks : metaStepper[p] \in StepperType /\ wire[p] \in Blocks
        /\ wire'[p] \in Blocks
      /\ \A p \in Ranks : meta[p] \in Blocks
  BY <1>0, RankTypes, SubGridTypes DEF TypeInv, TypeOK
<1>3. ASSUME NEW p \in Ranks, p \notin G \/ k # n
      PROVE  /\ Applied(p, k)' <=> Applied(p, k)
             /\ wire'[p][k] = wire[p][k]
  <2>1. CASE p \notin G
    BY <1>1, <2>1 DEF Applied
  <2>2. CASE p \in G /\ k # n
    <3>1. n \in Nat /\ k \in Nat
      BY FedOptAssumption DEF Modes
    <3>2. Applied(p, k)' <=> Applied(p, k)
      BY <1>1, <2>2, <3>1 DEF Applied
    <3>3. wire[p] \in [Modes -> SUBSET ({NaN} \cup (Ranks \X Int \X Int))]
      BY <1>2 DEF Blocks
    <3>4. wire'[p][k] = wire[p][k]
      BY <1>1, <2>2, <3>3
    <3> QED
      BY <3>2, <3>4
  <2> QED
    BY <1>3, <2>1, <2>2
<1>4. ASSUME NEW p \in Ranks, p \notin G \/ k # n
      PROVE  /\ SameStepper(NextStepper(p, k)', NextStepper(p, k), k)
             /\ NextMeta(p, k)' = NextMeta(p, k) /\ NextBest(p, k)' = NextBest(p, k)
             /\ NextU(p, k)' = NextU(p, k) /\ (Settled(p, k)' <=> Settled(p, k))
             /\ NextIter(p)' = NextIter(p)
  <2>0. /\ pc'[p] = pc[p] /\ epoch'[p] = epoch[p] /\ iter'[p] = iter[p] /\ u'[p] = u[p]
        /\ meta'[p] = meta[p] /\ best'[p] = best[p] /\ metaStepper'[p] = metaStepper[p]
        /\ fest'[p] = fest[p] /\ prev'[p] = prev[p] /\ setup' = setup
        /\ metaStepper[p] \in StepperType /\ wire[p] \in Blocks /\ wire'[p] \in Blocks
    BY <1>1, <1>2
  <2>1. Applied(p, k)' <=> Applied(p, k)
    BY <1>3, <1>4
  <2>2. wire'[p][k] = wire[p][k]
    BY <1>3, <1>4
  <2>3. (TakesMetaStep(p, k)' <=> TakesMetaStep(p, k)) /\ (Fails(p)' <=> Fails(p))
    BY <2>0, <2>1 DEF TakesMetaStep, Fails
  <2>4. SameStepper(metaStepper[p], metaStepper[p], k)
    BY DEF SameStepper
  <2>5. /\ SameStepper(MetaStepped(metaStepper[p], wire'[p]),
          MetaStepped(metaStepper[p], wire[p]), k)
        /\ Direction(MetaStepped(metaStepper[p], wire'[p]), wire'[p])[k]
             = Direction(MetaStepped(metaStepper[p], wire[p]), wire[p])[k]
    BY <2>0, <2>2, <2>4, SteppersAgree
  <2>6. SameStepper(NextStepper(p, k)', NextStepper(p, k), k)
    BY <2>0, <2>3, <2>5 DEF NextStepper, SameStepper
  <2>7. NextMeta(p, k)' = NextMeta(p, k)
    BY <2>0, <2>1, <2>2, <2>3, <2>5 DEF NextMeta
  <2>8. NextBest(p, k)' = NextBest(p, k) /\ NextU(p, k)' = NextU(p, k)
    BY <2>0, <2>1, <2>2, <2>3, <2>7 DEF NextBest, NextU
  <2>9. (Settled(p, k)' <=> Settled(p, k)) /\ NextIter(p)' = NextIter(p)
    BY <2>0, <2>1 DEF NextIter, Settled
  <2> QED
    BY <2>6, <2>7, <2>8, <2>9
<1>5. CASE k # n \/ r \notin G
  <2>1. k # n \/ q \notin G
    BY <1>5 DEF G, Group
  <2> QED
    BY <1>0, <1>1, <1>4, <1>5, <2>1 DEF Agree, SameStepper, SameBlock
<1>6. CASE k = n /\ r \in G
  <2>1. q \in G
    BY <1>6 DEF G, Group
  <2>2. /\ ~Applied(r, n) /\ ~Applied(q, n) /\ Applied(r, n)' /\ Applied(q, n)'
        /\ pc[r] = "reduce" /\ pc[q] = "reduce"
    <3>1. n \in Nat
      BY FedOptAssumption DEF Modes
    <3> QED
      BY <1>1, <1>6, <2>1, <3>1 DEF Applied
  <2>3. epoch[r] = epoch[q]
    BY <1>0, <2>2, SameEpoch
  <2>4. /\ SameStepper(metaStepper[r], metaStepper[q], n) /\ meta[r][n] = meta[q][n]
        /\ best[r][n] = best[q][n]
    BY <1>0, <1>6, <2>2 DEF Agree, NextStepper, NextMeta, NextBest, TakesMetaStep
  <2>5. wire'[r][n] = wire'[q][n]
    <3>1. \A p \in G : wire'[p][n] = UNION {wire[x][n] : x \in G}
      <4> TAKE p \in G
      <4>1. wire[p] \in [Modes -> SUBSET ({NaN} \cup (Ranks \X Int \X Int))]
        BY <1>1, <1>2 DEF Blocks
      <4> QED
        BY <1>1, <4>1
    <3> QED
      BY <1>6, <2>1, <3>1
  <2>6. /\ SameStepper(MetaStepped(metaStepper[r], wire'[r]),
          MetaStepped(metaStepper[q], wire'[q]), n)
        /\ Direction(MetaStepped(metaStepper[r], wire'[r]), wire'[r])[n]
             = Direction(MetaStepped(metaStepper[q], wire'[q]), wire'[q])[n]
    BY <1>0, <1>2, <2>4, <2>5, SteppersAgree
  <2>7. TakesMetaStep(r, n)' <=> TakesMetaStep(q, n)'
    BY <1>1, <2>2, <2>3 DEF TakesMetaStep
  <2>8. SameStepper(NextStepper(r, n)', NextStepper(q, n)', n)
    BY <1>1, <2>2, <2>4, <2>6, <2>7 DEF NextStepper
  <2>9. NextMeta(r, n)' = NextMeta(q, n)'
    BY <1>1, <2>2, <2>3, <2>4, <2>5, <2>6, <2>7 DEF NextMeta
  <2>10. NextBest(r, n)' = NextBest(q, n)' /\ NextU(r, n)' = NextU(q, n)'
    BY <1>1, <2>2, <2>3, <2>4, <2>5, <2>7, <2>9 DEF NextBest, NextU
  <2> QED
    BY <1>1, <1>6, <2>2, <2>8, <2>9, <2>10 DEF Agree
<1> QED
  BY <1>5, <1>6

LEMMA AgreeStep == Inv /\ AgreeInv /\ [Next]_vars => AgreeInv'
<1> SUFFICES ASSUME Inv, AgreeInv, [Next]_vars PROVE AgreeInv'
  OBVIOUS
<1>0. TypeInv /\ DecisionInv
  BY DEF Inv
<1>1. CASE UNCHANGED vars
  <2>1. \A q \in Ranks : Unmoved(q)
    BY <1>1 DEF vars, Unmoved
  <2>2. \A q \in Ranks : \A n \in Modes : Catches(q, n)
    BY <2>1, UnmovedCatches
  <2>3. CASE Ranks = {}
    BY <2>3 DEF AgreeInv
  <2> QED
    BY <2>1, <2>2, <2>3, CatchingKeepsAgreement
<1> QED
  BY <1>0, <1>1, LocalStepAgrees, AveragedAgrees, MetaStepAgrees, EvaluateAgrees, VerdictAgrees,
     GridReduceAgrees, SubGridAgrees DEF Next

LEMMA AgreeInvImplies == Inv /\ AgreeInv => ReplicasAgree
<1> SUFFICES ASSUME Inv, AgreeInv, NEW n \in Modes, NEW r \in Ranks, NEW q \in Group(r, n),
                    epoch[r] = epoch[q],
                    \/ BetweenEpochs(r) /\ BetweenEpochs(q)
                    \/ Judges(r) /\ Judges(q)
             PROVE  SameBlock(r, q, n)
  BY DEF ReplicasAgree, SameBlock, SameStepper
<1>0. q \in Ranks /\ Agree(r, q, n) /\ Place(r) /\ Place(q) /\ Pair(r, q) /\ epoch[r] \in Nat
  BY RankTypes DEF Inv, TypeInv, Group, AgreeInv, DecisionInv
<1>1. pc[r] = "judge" <=> pc[q] = "judge"
  BY <1>0 DEF Pair, Level
<1>2. iter[r] = iter[q]
  BY <1>0 DEF Place, BetweenEpochs, Judges
<1>3. CASE pc[r] = "judge"
  BY <1>0, <1>1, <1>3 DEF Agree
<1>4. CASE pc[r] # "judge"
  <2>1. ~Applied(r, n) /\ ~Applied(q, n) /\ Settled(r, n) /\ Settled(q, n)
    BY DEF Applied, BetweenEpochs, Judges, Settled
  <2> QED
    BY <1>0, <1>1, <1>2, <1>4, <2>1
       DEF Agree, SameBlock, NextStepper, NextMeta, NextBest, NextU, NextIter, TakesMetaStep
<1> QED
  BY <1>3, <1>4

\* On every grid, all copies of a block are the same when their ranks stand at the same
\* place ("Everyone agrees that meta_u is the new factors").
THEOREM ReplicasStayEqual == Spec => []ReplicasAgree
<1>1. Init /\ [][Next]_vars => [](Inv /\ AgreeInv)
  BY InvInit, InvStep, AgreeInit, AgreeStep, PTL
<1> QED
  BY <1>1, AgreeInvImplies, PTL DEF Spec

-----------------------------------------------------------------------------
(* What the blocks and the moments hold: from which epochs, and where NaN may be.       *)

\* The epochs that may have left something behind on rank r.
Span(r) == PassedBefore(r) \cup (IF epoch[r] = 0 \/ iter[r] > 0 THEN {epoch[r]} ELSE {})
Kept(r) == IF epoch[r] = 0 THEN {0} ELSE PassedBefore(r)

\* B holds gradient steps of the epochs E (and may hold NaN).
From(B, E) == \A n \in Modes : \A x \in B[n] : x = NaN \/ x[2] \in E
Clean(B) == \A n \in Modes : NaN \notin B[n]
Within(B, C) == \A n \in Modes : NaN \in B[n] => NaN \in C[n]

TraceOfBlocks(r) ==
  /\ From(u[r], Span(r)) /\ From(meta[r], Span(r)) /\ From(best[r], Kept(r))
  /\ pc[r] = "reduce" => From(wire[r], Span(r)) /\ Within(wire[r], meta[r])
  /\ Clean(best[r]) /\ Within(u[r], meta[r])
  /\ epoch[r] = 0 \/ iter[r] = 0 \/ setup.method # "opt" => Clean(meta[r]) /\ Clean(u[r])

TraceOfSteppers(r) ==
  /\ From(stepper[r].m, Span(r)) /\ From(metaStepper[r].m, Span(r))
  /\ From(stepper[r].mPrev, PassedBefore(r)) /\ From(metaStepper[r].mPrev, PassedBefore(r))
  /\ Clean(stepper[r].m) /\ Clean(stepper[r].mPrev) /\ Clean(metaStepper[r].mPrev)
  /\ Within(metaStepper[r].m, meta[r])
  /\ stepper[r].kind = "sgd" => stepper[r].m = Empty
  /\ metaStepper[r].kind = "sgd" => metaStepper[r].m = Empty
  /\ stepper[r].kind = "adam" => stepper[r].t >= iter[r]

\* With a meta stepper, the local model is the meta model after each synchronisation.
TraceOfEpoch(r) ==
  /\ setup.method = "opt" /\ ((epoch[r] > 0 /\ iter[r] = 0) \/ Judges(r)) => u[r] = meta[r]
  /\ pc[r] \in {"grid", "judge"} /\ ~Clean(u[r]) => fest[r] = NaN

Trace(r) == TraceOfBlocks(r) /\ TraceOfSteppers(r) /\ TraceOfEpoch(r)

TraceInv == \A r \in Ranks : Trace(r)

LEMMA FromWider ==
  ASSUME NEW B, NEW E, NEW F, From(B, E), E \subseteq F PROVE From(B, F)
BY DEF From

LEMMA Joins ==
  ASSUME NEW B, NEW C, NEW E, From(B, E), From(C, E)
  PROVE  From(Join(B, C), E) /\ (Clean(B) /\ Clean(C) => Clean(Join(B, C)))
BY DEF From, Clean, Join

LEMMA Empties == ASSUME NEW E PROVE From(Empty, E) /\ Clean(Empty)
BY DEF From, Clean, Empty

LEMMA Tokens ==
  ASSUME NEW r \in Ranks, NEW e \in Int, NEW i \in Int
  PROVE  From(Token(r, e, i), {e}) /\ Clean(Token(r, e, i))
<1>1. <<r, e, i>> \in Ranks \X Int \X Int /\ <<r, e, i>>[2] = e
  OBVIOUS
<1> QED
  BY <1>1, FedOptAssumption DEF From, Clean, Token

\* What a step does to the moments.
LEMMA StepperContents ==
  ASSUME NEW s \in StepperType, NEW g \in Blocks
  PROVE  /\ Accumulate(s, g).m = IF s.kind = "sgd" THEN s.m ELSE Join(s.m, g)
         /\ Accumulate(s, g).mPrev = s.mPrev /\ Accumulate(s, g).rate = s.rate
         /\ Update(s).m = s.m /\ Update(s).mPrev = s.mPrev
         /\ SetStep(s).m = s.m /\ SetStep(s).mPrev = s.mPrev /\ SetStep(s).step = "set"
         /\ s.kind = "adam" /\ s.t >= 0 => Update(s).rate = s.step
BY DEF Accumulate, Update, SetStep, StepperType

LEMMA Accumulates ==
  ASSUME NEW s \in StepperType, NEW g \in Blocks, NEW a, a = Accumulate(s, g)
  PROVE  /\ a \in StepperType /\ a.kind = s.kind /\ a.mPrev = s.mPrev /\ a.rate = s.rate
         /\ a.t = s.t /\ a.m = IF s.kind = "sgd" THEN s.m ELSE Join(s.m, g)
BY StepperTypes, StepperContents, StepperCounts

LEMMA VerdictContents ==
  ASSUME NEW s \in StepperType
  PROVE  /\ SetPassed(s).m = s.m
         /\ SetPassed(s).mPrev \in {s.m, s.mPrev}
         /\ SetFailed(s).m \in {s.mPrev, Empty} \/ (s.kind = "sgd" /\ SetFailed(s).m = s.m)
         /\ SetFailed(s).mPrev = s.mPrev
<1>1. s.kind \in Steppers
  BY DEF StepperType
<1> QED
  BY <1>1 DEF SetPassed, SetFailed, StepperType, Steppers

LEMMA Directions ==
  ASSUME NEW s \in StepperType, NEW g \in Blocks, NEW E, From(s.m, E), From(g, E)
  PROVE  /\ From(Direction(s, g), E)
         /\ Clean(s.m) /\ Clean(g) /\ (s.kind = "adam" => s.rate # "nan") => Clean(Direction(s, g))
<1>0. s.kind \in Steppers /\ s.rate \in {"zero", "set", "nan"}
  BY DEF StepperType
<1>1. From(Join(s.m, g), E) /\ (Clean(s.m) /\ Clean(g) => Clean(Join(s.m, g)))
  BY Joins
<1>2. From([n \in Modes |-> {NaN}], E)
  BY DEF From
<1> QED
  BY <1>0, <1>1, <1>2, Empties DEF Direction, Steppers

\* What the step of a meta stepper brings into the model: NaN if its moments get one.
LEMMA MetaSteps ==
  ASSUME NEW s \in StepperType, NEW g \in Blocks, NEW v \in Blocks, NEW E,
         From(s.m, E), From(g, E), From(v, E), Within(s.m, v), Within(g, v),
         s.kind = "sgd" => s.m = Empty
  PROVE  LET t == MetaStepped(s, g)
             w == Join(v, Direction(t, g))
         IN  /\ t.kind = s.kind /\ t.mPrev = s.mPrev /\ From(t.m, E) /\ From(w, E)
             /\ Within(t.m, w) /\ (t.kind = "sgd" => t.m = Empty)
<1> DEFINE a == SetStep(Update(s))
           t == MetaStepped(s, g)
           w == Join(v, Direction(t, g))
<1>1. a \in StepperType /\ a.m = s.m /\ a.mPrev = s.mPrev /\ a.kind = s.kind
  BY StepperTypes, StepperContents, StepperCounts
<1>2. /\ t \in StepperType /\ t.kind = s.kind /\ t.mPrev = s.mPrev
      /\ t.m = IF s.kind = "sgd" THEN s.m ELSE Join(s.m, g)
  <2>1. t = Accumulate(a, g)
    BY DEF MetaStepped
  <2> HIDE DEF a, t
  <2> QED
    BY <1>1, <2>1, Accumulates
<1> HIDE DEF a, t
<1>3. From(t.m, E)
  BY <1>2, Joins
<1>4. From(w, E)
  BY <1>2, <1>3, Directions, Joins
<1>5. Within(t.m, w)
  <2>1. Within(t.m, v)
    BY <1>2 DEF Within, Join
  <2> QED
    BY <2>1 DEF Within, Join
<1> QED
  BY <1>2, <1>3, <1>4, <1>5 DEF t

LEMMA TraceInit == Init => TraceInv
<1> SUFFICES ASSUME Init, NEW r \in Ranks PROVE Trace(r)
  BY DEF TraceInv
<1>1. /\ epoch[r] = 0 /\ iter[r] = 0 /\ pc[r] = "reduce"
      /\ u[r] = Token(r, 0, 0) /\ wire[r] = Token(r, 0, 0) /\ meta[r] = Empty /\ best[r] = Empty
      /\ stepper[r].m = Empty /\ stepper[r].mPrev = Empty /\ stepper[r].t = 0
      /\ metaStepper[r].m = Empty /\ metaStepper[r].mPrev = Empty
  BY DEF Init, NewStepper
<1>2. /\ From(Token(r, 0, 0), {0}) /\ Clean(Token(r, 0, 0))
      /\ \A E : From(Empty, E) /\ Clean(Empty)
      /\ \A B : Clean(B) => \A C : Within(B, C)
  <2>1. From(Token(r, 0, 0), {0}) /\ Clean(Token(r, 0, 0))
    BY Tokens
  <2>2. \A E : From(Empty, E) /\ Clean(Empty)
    BY Empties
  <2>3. \A B : Clean(B) => \A C : Within(B, C)
    BY DEF Clean, Within
  <2> QED
    BY <2>1, <2>2, <2>3
<1>3. \A E : From(Token(r, 0, 0), E \cup {0})
  BY <1>2, FromWider
<1>4. TraceOfBlocks(r)
  BY <1>1, <1>2, <1>3 DEF TraceOfBlocks, Span, Kept
<1>5. TraceOfSteppers(r)
  BY <1>1, <1>2 DEF TraceOfSteppers
<1>6. TraceOfEpoch(r)
  BY <1>1 DEF TraceOfEpoch, Judges
<1> QED
  BY <1>4, <1>5, <1>6 DEF Trace

LEMMA UnmovedTrace ==
  ASSUME NEW q \in Ranks, Trace(q), Unmoved(q), stepper'[q] = stepper[q],
         PassedBefore(q)' = PassedBefore(q)
  PROVE  Trace(q)'
<1>1. Span(q)' = Span(q) /\ Kept(q)' = Kept(q)
  BY DEF Unmoved, Span, Kept
<1> QED
  BY <1>1 DEF Unmoved, Trace, TraceOfBlocks, TraceOfSteppers, TraceOfEpoch, Judges

LEMMA LocalStepTrace ==
  ASSUME TypeInv, NEW r \in Ranks, Trace(r), LocalStep(r) PROVE Trace(r)'
<1> DEFINE i == iter[r] + 1
           g == Token(r, epoch[r], i)
           a == SetStep(stepper[r])
           s == Accumulate(Update(a), g)
           v == Join(u[r], Direction(s, g))
           E == PassedBefore(r) \cup {epoch[r]}
<1>0. TypeOK /\ Place(r) /\ epoch[r] \in Nat /\ iter[r] \in Nat
  BY RankTypes DEF TypeInv
<1>1. /\ pc[r] = "iter" /\ pc'[r] \in {"iter", "reduce"} /\ iter'[r] = i
      /\ stepper'[r] = s /\ u'[r] = v
      /\ pc'[r] = "reduce" => wire'[r] \in {v, Difference(meta[r], v)}
      /\ UNCHANGED <<setup, curve, epoch, meta, best, metaStepper>>
  BY <1>0 DEF LocalStep, TypeOK
<1>2. /\ stepper[r] \in StepperType /\ g \in Blocks /\ u[r] \in Blocks /\ meta[r] \in Blocks
  BY <1>0, RankTypes, TokenType
<1>3. From(g, {epoch[r]}) /\ Clean(g)
  BY <1>0, Tokens
<1>4. /\ PassedBefore(r)' = PassedBefore(r) /\ Span(r) \subseteq E /\ Span(r)' = E
      /\ Kept(r)' = Kept(r) /\ epoch[r] # 0
  BY <1>0, <1>1, PassedKept DEF Span, Kept, Place
<1>5. From(g, E) /\ From(stepper[r].m, E) /\ From(u[r], E) /\ From(meta[r], E)
  BY <1>3, <1>4, FromWider DEF Trace, TraceOfBlocks, TraceOfSteppers
<1>6. From(metaStepper[r].m, E)
  BY <1>4, FromWider DEF Trace, TraceOfSteppers
<1>7. /\ a \in StepperType /\ a.m = stepper[r].m /\ a.mPrev = stepper[r].mPrev /\ a.step = "set"
      /\ a.kind = stepper[r].kind /\ a.t = stepper[r].t
  BY <1>2, StepperTypes, StepperContents, StepperCounts
<1> HIDE DEF a, g
<1>8. /\ Update(a) \in StepperType /\ Update(a).m = a.m /\ Update(a).mPrev = a.mPrev
      /\ Update(a).kind = a.kind
      /\ a.kind = "adam" => Update(a).t = a.t + 1 /\ (a.t >= 0 => Update(a).rate = "set")
  BY <1>2, <1>7, StepperTypes, StepperContents, StepperCounts
<1>9. /\ s \in StepperType /\ s.kind = stepper[r].kind /\ s.mPrev = stepper[r].mPrev
      /\ s.m = IF s.kind = "sgd" THEN stepper[r].m ELSE Join(stepper[r].m, g)
      /\ s.rate = Update(a).rate /\ s.t = Update(a).t
  <2> DEFINE b == Update(a)
  <2>1. b \in StepperType /\ s = Accumulate(b, g)
    BY <1>8
  <2> HIDE DEF b, s
  <2>2. b.kind = a.kind /\ b.m = a.m /\ b.mPrev = a.mPrev /\ b.rate = Update(a).rate
          /\ b.t = Update(a).t
    BY <1>8 DEF b
  <2>3. /\ s \in StepperType /\ s.kind = b.kind /\ s.mPrev = b.mPrev /\ s.rate = b.rate
        /\ s.t = b.t /\ s.m = IF b.kind = "sgd" THEN b.m ELSE Join(b.m, g)
    <3>1. g \in Blocks
      BY <1>2
    <3> QED
      BY <2>1, <3>1, Accumulates
  <2> QED
    BY <1>7, <2>2, <2>3
<1> HIDE DEF s
<1>10. s.kind = "adam" => s.rate = "set" /\ s.t >= i
  <2>1. stepper[r].kind = "adam" => stepper[r].t >= iter[r]
    BY DEF Trace, TraceOfSteppers
  <2>2. stepper[r].t \in Int
    BY <1>2 DEF StepperType
  <2> QED
    BY <1>0, <1>7, <1>8, <1>9, <2>1, <2>2
<1>11. From(s.m, E) /\ Clean(s.m) /\ (s.kind = "sgd" => s.m = Empty)
  BY <1>3, <1>5, <1>9, Joins DEF Trace, TraceOfSteppers
<1>12. From(Direction(s, g), E) /\ Clean(Direction(s, g))
  BY <1>2, <1>3, <1>5, <1>9, <1>10, <1>11, Directions
<1>13. From(v, E) /\ Within(v, meta[r]) /\ (Clean(u[r]) => Clean(v))
  BY <1>5, <1>12, Joins DEF Trace, TraceOfBlocks, Within, Clean, Join
<1> HIDE DEF v
<1>14. From(Difference(meta[r], v), E) /\ Within(Difference(meta[r], v), meta[r])
  BY <1>5, <1>13 DEF From, Within, Difference
<1>15. i > 0
  BY <1>0
<1>16. TraceOfBlocks(r)'
  BY <1>1, <1>4, <1>5, <1>13, <1>14, <1>15 DEF Trace, TraceOfBlocks
<1>17. TraceOfSteppers(r)'
  BY <1>1, <1>4, <1>6, <1>9, <1>10, <1>11 DEF Trace, TraceOfSteppers
<1>18. TraceOfEpoch(r)'
  BY <1>1, <1>15 DEF TraceOfEpoch, Judges
<1> QED
  BY <1>16, <1>17, <1>18 DEF Trace

LEMMA AveragedTrace ==
  ASSUME TypeInv, NEW r \in Ranks, Trace(r), Averaged(r) PROVE Trace(r)'
<1>0. TypeOK /\ Place(r) /\ epoch[r] \in Nat /\ iter[r] \in Nat /\ setup \in Setups
  BY RankTypes DEF TypeInv, TypeOK
<1>1. /\ UNCHANGED <<setup, curve, epoch, iter, stepper, metaStepper, fest>>
      /\ pc[r] = "reduce" /\ u'[r] = wire[r] /\ pc'[r] \in {"value", "iter"}
      /\ epoch[r] = 0 => best'[r] = wire[r] /\ meta'[r] = wire[r]
      /\ epoch[r] # 0 => /\ best'[r] = best[r] /\ meta'[r] = meta[r] /\ setup.method = "avg"
  BY <1>0 DEF TypeOK, Averaged, AfterSync
<1>2. PassedBefore(r)' = PassedBefore(r) /\ Span(r)' = Span(r) /\ Kept(r)' = Kept(r)
  BY <1>1, PassedKept DEF Span, Kept
<1>3. /\ From(wire[r], Span(r)) /\ Within(wire[r], meta[r])
      /\ epoch[r] = 0 \/ setup.method # "opt" => Clean(meta[r]) /\ Clean(wire[r])
  BY <1>1 DEF Trace, TraceOfBlocks, Within, Clean
<1>4. epoch[r] = 0 => From(wire[r], Kept(r)) /\ Clean(metaStepper[r].m)
  <2>1. epoch[r] = 0 => PassedBefore(r) = {}
    BY DEF PassedBefore, Passed
  <2> QED
    BY <1>3, <2>1 DEF Span, Kept, Trace, TraceOfSteppers, Within, Clean
<1>5. Clean(wire[r])
  BY <1>1, <1>3
<1>6. TraceOfBlocks(r)'
  BY <1>1, <1>2, <1>3, <1>4, <1>5 DEF Trace, TraceOfBlocks, Within
<1>7. TraceOfSteppers(r)'
  BY <1>1, <1>2, <1>4 DEF Trace, TraceOfSteppers, Within, Clean
<1>8. TraceOfEpoch(r)'
  BY <1>0, <1>1 DEF Trace, TraceOfEpoch, Judges, Place, Syncs
<1> QED
  BY <1>6, <1>7, <1>8 DEF Trace

LEMMA MetaStepTrace ==
  ASSUME TypeInv, NEW r \in Ranks, Trace(r), MetaStep(r) PROVE Trace(r)'
<1> DEFINE s == MetaStepped(metaStepper[r], wire[r])
           v == Join(meta[r], Direction(s, wire[r]))
<1>0. TypeOK /\ Place(r) /\ epoch[r] \in Nat /\ iter[r] \in Nat
  BY RankTypes DEF TypeInv
<1>1. /\ UNCHANGED <<setup, curve, epoch, iter, best, wire, stepper, fest>>
      /\ pc[r] = "reduce" /\ epoch[r] > 0 /\ setup.method = "opt"
      /\ u'[r] = v /\ meta'[r] = v /\ metaStepper'[r] = s /\ pc'[r] \in {"value", "iter"}
  BY <1>0 DEF TypeOK, MetaStep, MetaStepped, AfterSync
<1>2. PassedBefore(r)' = PassedBefore(r) /\ Span(r)' = Span(r) /\ Kept(r)' = Kept(r)
  BY <1>1, PassedKept DEF Span, Kept
<1>3. /\ metaStepper[r] \in StepperType /\ wire[r] \in Blocks /\ meta[r] \in Blocks
  BY <1>0, RankTypes
<1>4. /\ From(metaStepper[r].m, Span(r)) /\ From(wire[r], Span(r)) /\ From(meta[r], Span(r))
      /\ Within(metaStepper[r].m, meta[r]) /\ Within(wire[r], meta[r])
      /\ metaStepper[r].kind = "sgd" => metaStepper[r].m = Empty
  BY <1>1 DEF Trace, TraceOfBlocks, TraceOfSteppers
<1>5. /\ s.kind = metaStepper[r].kind /\ s.mPrev = metaStepper[r].mPrev
      /\ From(s.m, Span(r)) /\ From(v, Span(r))
      /\ Within(s.m, v) /\ (s.kind = "sgd" => s.m = Empty)
  BY <1>3, <1>4, MetaSteps
<1> HIDE DEF s, v
<1>6. iter[r] # 0 /\ epoch[r] # 0
  BY <1>0, <1>1 DEF Place, Syncs
<1>7. TraceOfBlocks(r)'
  BY <1>1, <1>2, <1>5, <1>6 DEF Trace, TraceOfBlocks, Within
<1>8. TraceOfSteppers(r)'
  BY <1>1, <1>2, <1>5 DEF Trace, TraceOfSteppers
<1>9. TraceOfEpoch(r)'
  BY <1>1 DEF TraceOfEpoch
<1> QED
  BY <1>7, <1>8, <1>9 DEF Trace

\* A rank that judges has one model, and a number as estimate only if there is no NaN in it.
LEMMA JudgedTrace ==
  ASSUME TypeInv, NEW r \in Ranks, Trace(r), pc[r] = "judge", fest[r] # NaN \/ epoch[r] = 0
  PROVE  Clean(u[r]) /\ Clean(meta[r]) /\ Clean(metaStepper[r].m)
<1>1. Clean(u[r]) /\ Clean(meta[r])
  <2>1. setup \in Setups /\ (setup.method = "opt" => u[r] = meta[r])
    BY DEF TypeInv, TypeOK, Trace, TraceOfEpoch, Judges
  <2> QED
    BY <2>1 DEF Trace, TraceOfBlocks, TraceOfEpoch
<1> QED
  BY <1>1 DEF Trace, TraceOfSteppers, Within, Clean

LEMMA VerdictTrace ==
  ASSUME TypeInv, DecisionInv, CurveInv, NEW r \in Ranks, Trace(r), Start(r) \/ Pass(r) \/ Fail(r)
  PROVE  Trace(r)'
<1>0. /\ TypeOK /\ Place(r) /\ Decides(r) /\ epoch[r] \in Nat /\ iter[r] \in Nat
      /\ stepper[r] \in StepperType /\ metaStepper[r] \in StepperType
      /\ EpochIters \in Nat \ {0}
  BY VerdictsAreDecisions, RankTypes DEF TypeInv
<1>1. /\ pc[r] = "judge" /\ UNCHANGED <<setup, curve>> /\ iter'[r] = 0
      /\ epoch'[r] = epoch[r] + 1 /\ epoch'[r] # 0 /\ pc'[r] \in {"iter", "done"}
  BY <1>0 DEF Start, Pass, Fail, EpochEnds, Decides, TypeOK, Place
<1>2. PassedBefore(r)' = IF Fails(r) THEN PassedBefore(r) ELSE PassedBefore(r) \cup {epoch[r]}
  BY <1>0, <1>1, PassedAtVerdict
<1>3. Span(r)' = PassedBefore(r)' /\ Kept(r)' = PassedBefore(r)'
  BY <1>1 DEF Span, Kept
<1>4. epoch[r] > 0 => iter[r] = EpochIters
  BY <1>0, <1>1 DEF Place
<1>5. Span(r) = PassedBefore(r) \cup {epoch[r]}
  BY <1>0, <1>4 DEF Span
<1>6. CASE Start(r) \/ Pass(r)
  <2>1. ~Fails(r) /\ (epoch[r] > 0 => fest[r] # NaN)
    BY <1>0, <1>6 DEF Start, Pass, Fails, FailedEpoch
  <2>2. Span(r)' = Span(r) /\ Kept(r)' = Span(r) /\ PassedBefore(r)' = Span(r)
    BY <1>2, <1>3, <1>5, <2>1
  <2>3. Clean(u[r]) /\ Clean(meta[r]) /\ Clean(metaStepper[r].m)
    BY <1>0, <1>1, <2>1, JudgedTrace
  <2>4. PassedBefore(r) \subseteq Span(r) /\ Kept(r) \subseteq Span(r)
    BY <1>5 DEF Kept
  <2>5. From(best[r], Span(r)) /\ From(stepper[r].mPrev, Span(r))
          /\ From(metaStepper[r].mPrev, Span(r))
    BY <2>4, FromWider DEF Trace, TraceOfBlocks, TraceOfSteppers
  <2>6. /\ u'[r] = u[r] /\ meta'[r] = meta[r] /\ best'[r] \in {u[r], best[r]}
    BY <1>0, <1>6 DEF Start, Pass, EpochEnds, TypeOK
  <2>7. /\ stepper'[r] \in {stepper[r], SetPassed(stepper[r])}
        /\ metaStepper'[r] \in {metaStepper[r], SetPassed(metaStepper[r])}
    BY <1>0, <1>6 DEF Start, Pass, TypeOK
  <2>8. TraceOfBlocks(r)'
    BY <1>1, <2>2, <2>3, <2>5, <2>6 DEF Trace, TraceOfBlocks
  <2>9. /\ stepper'[r].m = stepper[r].m /\ stepper'[r].mPrev \in {stepper[r].m, stepper[r].mPrev}
        /\ stepper'[r].kind = stepper[r].kind /\ stepper'[r].t = stepper[r].t
        /\ metaStepper'[r].m = metaStepper[r].m /\ metaStepper'[r].kind = metaStepper[r].kind
        /\ metaStepper'[r].mPrev \in {metaStepper[r].m, metaStepper[r].mPrev}
    BY <1>0, <2>7, VerdictContents, StepperCounts, EmptyType
  <2>10. stepper[r].kind = "adam" => stepper[r].t >= 0
    BY <1>0 DEF Trace, TraceOfSteppers, StepperType
  <2>11. TraceOfSteppers(r)'
    BY <1>1, <2>2, <2>3, <2>5, <2>6, <2>9, <2>10 DEF Trace, TraceOfSteppers
  <2>12. TraceOfEpoch(r)'
    BY <1>1, <2>6 DEF Trace, TraceOfEpoch, Judges
  <2> QED
    BY <2>8, <2>11, <2>12 DEF Trace
<1>7. CASE Fail(r)
  <2>1. Fails(r) /\ epoch[r] > 0
    BY <1>7 DEF Fail, Fails
  <2>2. Span(r)' = Kept(r) /\ Kept(r)' = Kept(r) /\ PassedBefore(r)' = Kept(r)
    BY <1>0, <1>2, <1>3, <2>1 DEF Kept
  <2>3. u'[r] = best[r] /\ meta'[r] = best[r] /\ best'[r] = best[r]
    BY <1>0, <1>7 DEF Fail, EpochEnds, TypeOK
  <2>4. /\ stepper'[r] = SetFailed(stepper[r]) /\ metaStepper'[r] = SetFailed(metaStepper[r])
    BY <1>0, <1>7 DEF Fail, TypeOK
  <2>5. TraceOfBlocks(r)'
    BY <1>1, <2>2, <2>3 DEF Trace, TraceOfBlocks, Within
  <2>6. /\ stepper'[r].m \in {stepper[r].mPrev, Empty}
        /\ stepper'[r].kind = "sgd" => stepper'[r].m = Empty
        /\ stepper'[r].mPrev = stepper[r].mPrev
        /\ stepper'[r].kind = stepper[r].kind
        /\ stepper'[r].kind = "adam" => stepper'[r].t >= 0
    <3>1. stepper[r].kind = "adam" => stepper[r].t >= EpochIters /\ stepper[r].t \in Int
      BY <1>0, <1>4, <2>1 DEF Trace, TraceOfSteppers, StepperType
    <3>2. SetFailed(stepper[r]).m = Empty \/ stepper[r].kind # "sgd"
      BY <1>0 DEF SetFailed, Trace, TraceOfSteppers
    <3> QED
      BY <1>0, <2>4, <3>1, <3>2, VerdictContents, StepperCounts, EmptyType
  <2>7. /\ metaStepper'[r].m \in {metaStepper[r].mPrev, Empty}
        /\ metaStepper'[r].kind = "sgd" => metaStepper'[r].m = Empty
        /\ metaStepper'[r].mPrev = metaStepper[r].mPrev
    <3>1. SetFailed(metaStepper[r]).m = Empty \/ metaStepper[r].kind # "sgd"
      BY <1>0 DEF SetFailed, Trace, TraceOfSteppers
    <3> QED
      BY <1>0, <2>4, <3>1, VerdictContents, StepperCounts, EmptyType
  <2>8. From(Empty, Kept(r)) /\ Clean(Empty)
    BY Empties
  <2>9. TraceOfSteppers(r)'
    <3>1. From(stepper[r].mPrev, Kept(r)) /\ From(metaStepper[r].mPrev, Kept(r))
      BY <1>0, <2>1 DEF Trace, TraceOfSteppers, Kept
    <3> QED
      BY <1>1, <2>2, <2>6, <2>7, <2>8, <3>1 DEF Trace, TraceOfSteppers, Within, Clean
  <2>10. TraceOfEpoch(r)'
    BY <1>1, <2>3 DEF TraceOfEpoch
  <2> QED
    BY <2>5, <2>9, <2>10 DEF Trace
<1> QED
  BY <1>6, <1>7

LEMMA EvaluateTrace ==
  ASSUME TypeInv, NEW r \in Ranks, Trace(r), Evaluate(r) PROVE Trace(r)'
<1>0. TypeOK
  BY DEF TypeInv
<1>1. /\ UNCHANGED <<setup, curve, epoch, iter, u, meta, best, wire, stepper, metaStepper>>
      /\ pc[r] = "value" /\ pc'[r] = "grid"
      /\ (\E n \in Modes : NaN \in u[r][n]) => fest'[r] = NaN
  BY <1>0 DEF Evaluate, TypeOK
<1>2. PassedBefore(r)' = PassedBefore(r) /\ Span(r)' = Span(r) /\ Kept(r)' = Kept(r)
  BY <1>1, PassedKept DEF Span, Kept
<1> QED
  BY <1>1, <1>2 DEF Trace, TraceOfBlocks, TraceOfSteppers, TraceOfEpoch, Judges, Clean

LEMMA GridReduceTrace ==
  ASSUME TypeInv, CurveInv, TraceInv, GridAllReduce PROVE TraceInv'
<1> SUFFICES ASSUME NEW r \in Ranks PROVE Trace(r)'
  BY DEF TraceInv
<1>1. /\ UNCHANGED <<setup, epoch, iter, u, meta, best, wire, stepper, metaStepper>>
      /\ pc[r] = "grid" /\ pc'[r] = "judge" /\ fest'[r] = Total(fest)
      /\ PassedBefore(r)' = PassedBefore(r) /\ Trace(r)
  BY PassedAtReduce DEF GridAllReduce, TraceInv
<1>2. Span(r)' = Span(r) /\ Kept(r)' = Kept(r)
  BY <1>1 DEF Span, Kept
<1>3. fest[r] = NaN => fest'[r] = NaN
  BY <1>1 DEF Total
<1> QED
  BY <1>1, <1>2, <1>3 DEF Trace, TraceOfBlocks, TraceOfSteppers, TraceOfEpoch, Judges

\* What a block receives from the others of its group is of the same epochs, and NaN comes
\* into it only if it is in the meta models of all.
LEMMA SubGridTrace ==
  ASSUME TypeInv, DecisionInv, AgreeInv, TraceInv, NEW n \in Modes, NEW a \in Ranks,
         SubGridAllReduce(n, Group(a, n))
  PROVE  TraceInv'
<1> DEFINE G == Group(a, n)
<1> SUFFICES ASSUME NEW r \in Ranks PROVE Trace(r)'
  BY DEF TraceInv
<1>0. TypeOK /\ (\A q \in Ranks : Place(q) /\ Trace(q)) /\ n \in Nat
  BY FedOptAssumption DEF TypeInv, TraceInv, Modes
<1>1. /\ \A p \in G : pc[p] = "reduce" /\ mode[p] = n
      /\ \A p \in Ranks \ G : wire'[p] = wire[p]
      /\ \A p \in G : wire'[p] = [wire[p] EXCEPT ![n] = UNION {wire[x][n] : x \in G}]
      /\ UNCHANGED <<setup, curve, pc, epoch, iter, u, meta, best, stepper, metaStepper, fest>>
      /\ G \subseteq Ranks
  BY DEF SubGridAllReduce, Group
<1> HIDE DEF G
<1>2. PassedBefore(r)' = PassedBefore(r) /\ Span(r)' = Span(r) /\ Kept(r)' = Kept(r)
  BY <1>1, PassedKept DEF Span, Kept
<1>3. CASE r \notin G
  BY <1>0, <1>1, <1>2, <1>3
     DEF Trace, TraceOfBlocks, TraceOfSteppers, TraceOfEpoch, Judges
<1>4. CASE r \in G
  <2>1. ASSUME NEW q \in G, NEW x \in wire[q][n]
        PROVE  (x = NaN \/ x[2] \in Span(r)) /\ (x = NaN => NaN \in meta[r][n])
    <3>1. q \in Ranks /\ pc[q] = "reduce" /\ pc[r] = "reduce" /\ epoch[r] = epoch[q]
      BY <1>1, <1>4, SameEpoch
    <3>2. From(wire[q], Span(q)) /\ Within(wire[q], meta[q])
      BY <1>0, <3>1 DEF Trace, TraceOfBlocks
    <3>3. Span(q) \subseteq Span(r)
      <4>1. epoch[r] \in Nat /\ Place(r)
        BY <1>0, RankTypes
      <4>2. epoch[r] > 0 => iter[r] > 0
        BY <3>1, <4>1 DEF Place, Syncs
      <4> QED
        BY <3>1, <4>1, <4>2 DEF Span, PassedBefore
    <3>4. meta[r][n] = meta[q][n]
      <4>1. q \in Group(r, n)
        BY <1>4 DEF G, Group
      <4>2. ~Applied(r, n) /\ ~Applied(q, n)
        BY <1>0, <1>1, <1>4 DEF Applied
      <4> QED
        BY <3>1, <4>1, <4>2 DEF AgreeInv, Agree, NextMeta, TakesMetaStep
    <3> QED
      BY <2>1, <3>2, <3>3, <3>4 DEF From, Within
  <2>2. wire[r] \in [Modes -> SUBSET ({NaN} \cup (Ranks \X Int \X Int))] /\ pc[r] = "reduce"
    BY <1>0, <1>1, <1>4, RankTypes DEF Blocks
  <2>3. From(wire[r], Span(r)) /\ Within(wire[r], meta[r])
    BY <1>0, <2>2 DEF Trace, TraceOfBlocks
  <2>4. /\ wire'[r][n] = UNION {wire[x][n] : x \in G}
        /\ \A k \in Modes \ {n} : wire'[r][k] = wire[r][k]
    BY <1>1, <1>4, <2>2
  <2>5. From(wire'[r], Span(r)) /\ Within(wire'[r], meta[r])
    BY <2>1, <2>3, <2>4 DEF From, Within
  <2> QED
    BY <1>0, <1>1, <1>2, <2>5
       DEF Trace, TraceOfBlocks, TraceOfSteppers, TraceOfEpoch, Judges
<1> QED
  BY <1>3, <1>4

LEMMA TraceStep == Inv /\ AgreeInv /\ TraceInv /\ [Next]_vars => TraceInv'
<1> SUFFICES ASSUME Inv, AgreeInv, TraceInv, [Next]_vars PROVE TraceInv'
  OBVIOUS
<1>0. TypeInv /\ TypeOK /\ DecisionInv /\ CurveInv
  BY DEF Inv, TypeInv
<1>1. ASSUME NEW r \in Ranks,
             \/ LocalStep(r) \/ Averaged(r) \/ MetaStep(r) \/ Evaluate(r)
             \/ Start(r) \/ Pass(r) \/ Fail(r)
      PROVE  TraceInv'
  <2>1. Trace(r)'
    BY <1>0, <1>1, LocalStepTrace, AveragedTrace, MetaStepTrace, EvaluateTrace, VerdictTrace
       DEF TraceInv
  <2>2. UNCHANGED curve
    BY <1>1 DEF LocalStep, Averaged, MetaStep, Evaluate, Start, Pass, Fail, EpochEnds
  <2>3. ASSUME NEW q \in Ranks \ {r} PROVE Unmoved(q) /\ stepper'[q] = stepper[q]
    <3>1. CASE LocalStep(r) \/ Averaged(r) \/ MetaStep(r) \/ Evaluate(r)
      BY <1>0, <3>1 DEF TypeOK, Unmoved, LocalStep, Averaged, MetaStep, Evaluate
    <3>2. CASE Start(r) \/ Pass(r) \/ Fail(r)
      BY <1>0, <3>2 DEF TypeOK, Unmoved, Start, Pass, Fail, EpochEnds
    <3> QED
      BY <1>1, <3>1, <3>2
  <2>4. ASSUME NEW q \in Ranks \ {r} PROVE Trace(q)'
    <3>1. PassedBefore(q)' = PassedBefore(q)
      BY <2>2, <2>3, PassedKept DEF Unmoved
    <3> QED
      BY <2>3, <3>1, UnmovedTrace DEF TraceInv
  <2> QED
    BY <2>1, <2>4 DEF TraceInv
<1>2. CASE UNCHANGED vars
  <2>1. ASSUME NEW q \in Ranks PROVE Trace(q)'
    <3>1. Unmoved(q) /\ stepper'[q] = stepper[q] /\ UNCHANGED curve
      BY <1>2 DEF vars, Unmoved
    <3>2. PassedBefore(q)' = PassedBefore(q)
      BY <3>1, PassedKept DEF Unmoved
    <3> QED
      BY <3>1, <3>2, UnmovedTrace DEF TraceInv
  <2> QED
    BY <2>1 DEF TraceInv
<1> QED
  BY <1>0, <1>1, <1>2, GridReduceTrace, SubGridTrace DEF Next

LEMMA TraceInvImplies == TypeInv /\ TraceInv => FailedEpochsAreForgotten
<1> SUFFICES ASSUME TypeInv, TraceInv, NEW r \in Ranks, BetweenEpochs(r), NEW n \in Modes,
                    NEW x \in UNION {u[r][n], meta[r][n], best[r][n], stepper[r].m[n],
                                     metaStepper[r].m[n]}
             PROVE  x # NaN /\ x[2] \in PassedBefore(r)
  BY DEF FailedEpochsAreForgotten
<1>1. Trace(r) /\ Place(r) /\ iter[r] = 0 /\ epoch[r] # 0
  BY DEF TypeInv, TraceInv, BetweenEpochs, Place
<1>2. Span(r) = PassedBefore(r) /\ Kept(r) = PassedBefore(r)
  BY <1>1 DEF Span, Kept
<1>3. Clean(u[r]) /\ Clean(meta[r]) /\ Clean(best[r]) /\ Clean(stepper[r].m)
        /\ Clean(metaStepper[r].m)
  BY <1>1 DEF Trace, TraceOfBlocks, TraceOfSteppers, Within, Clean
<1>4. /\ From(u[r], PassedBefore(r)) /\ From(meta[r], PassedBefore(r))
      /\ From(best[r], PassedBefore(r)) /\ From(stepper[r].m, PassedBefore(r))
      /\ From(metaStepper[r].m, PassedBefore(r))
  BY <1>1, <1>2 DEF Trace, TraceOfBlocks, TraceOfSteppers
<1> QED
  BY <1>3, <1>4 DEF Clean, From

\* On every grid, with every stepper, and whatever NaN came up: a failed epoch leaves
\* nothing behind when the next one starts ("restart from last epoch").
THEOREM FailuresAreUndone == Spec => []FailedEpochsAreForgotten
<1>1. Init /\ [][Next]_vars => [](Inv /\ AgreeInv /\ TraceInv)
  BY InvInit, InvStep, AgreeInit, AgreeStep, TraceInit, TraceStep, PTL
<1>2. Inv => TypeInv
  BY DEF Inv
<1> QED
  BY <1>1, <1>2, TraceInvImplies, PTL DEF Spec

-----------------------------------------------------------------------------
(* Where the ranks of a group are: the same all-reduces of a block lie behind them.     *)

\* Block n of rank r has been reduced after iteration j of its epoch.
Reduced(r, n, j) == j < iter[r] \/ (j = iter[r] /\ (pc[r] # "reduce" \/ mode[r] > n))

Met(r, n) == {j \in (IF epoch[r] = 0 THEN {0} ELSE Syncs) : Reduced(r, n, j)}

Together(r, q, n) ==
  /\ epoch[r] = epoch[q] => Met(r, n) = Met(q, n)
  /\ epoch[r] = epoch[q] + 1 => Met(r, n) = {}

MetInv == \A n \in Modes : \A r \in Ranks : \A q \in Group(r, n) : Together(r, q, n)

LEMMA MetInit == Init => MetInv
BY DEF Init, MetInv, Together, Met, Reduced, Group

LEMMA ModesType == ASSUME NEW n \in Modes PROVE n \in Nat /\ n >= 1 /\ n <= Len(Grid)
BY FedOptAssumption DEF Modes

LEMMA SyncsType ==
  /\ Syncs \subseteq 1 .. EpochIters /\ EpochIters \in Syncs
  /\ \A j \in Syncs : j \in Int /\ 1 <= j /\ j <= EpochIters
BY FedOptAssumption DEF Syncs

\* Steps that leave the all-reduces as they are.
LEMMA SameMet ==
  ASSUME MetInv, UNCHANGED epoch, \A n \in Modes : \A r \in Ranks : Met(r, n)' = Met(r, n)
  PROVE  MetInv'
BY DEF MetInv, Together, Group

LEMMA LocalStepMet ==
  ASSUME TypeInv, MetInv, NEW r \in Ranks, LocalStep(r) PROVE MetInv'
<1>0. TypeOK /\ Place(r) /\ epoch[r] \in Nat /\ iter[r] \in 0 .. EpochIters /\ EpochIters \in Nat
  BY RankTypes DEF TypeInv
<1>1. /\ UNCHANGED <<epoch, mode>> /\ pc[r] = "iter" /\ iter'[r] = iter[r] + 1
      /\ pc'[r] = IF iter[r] + 1 \in Syncs THEN "reduce" ELSE "iter"
      /\ mode[r] = 1 /\ epoch[r] # 0
      /\ \A q \in Ranks \ {r} : pc'[q] = pc[q] /\ iter'[q] = iter[q]
  <2>1. iter[r] + 1 \in 1 .. EpochIters
    BY <1>0 DEF LocalStep, Place
  <2> QED
    BY <1>0, <2>1 DEF LocalStep, TypeOK, Place, Syncs
<1>2. ASSUME NEW n \in Modes, NEW j \in Syncs PROVE Reduced(r, n, j)' <=> Reduced(r, n, j)
  BY <1>0, <1>1, ModesType, SyncsType DEF Reduced
<1>3. ASSUME NEW n \in Modes, NEW q \in Ranks PROVE Met(q, n)' = Met(q, n)
  <2>1. CASE q = r
    <3>1. Syncs' = Syncs
      BY DEF Syncs
    <3> HIDE DEF Syncs
    <3> QED
      BY <1>1, <1>2, <2>1, <3>1 DEF Met
  <2>2. CASE q # r
    BY <1>1, <2>2 DEF Met, Reduced, Syncs
  <2> QED
    BY <2>1, <2>2
<1> QED
  BY <1>1, <1>3, SameMet

\* The ranks of a group that wait for the same all-reduce are in the same iteration.
LEMMA SameIteration ==
  ASSUME TypeInv, DecisionInv, MetInv, NEW n \in Modes, NEW r \in Ranks, NEW q \in Group(r, n),
         pc[r] = "reduce", pc[q] = "reduce", mode[r] = n, mode[q] = n
  PROVE  /\ q \in Ranks /\ epoch[r] = epoch[q] /\ iter[r] = iter[q]
         /\ Met(r, n) = Met(q, n)
<1>0. q \in Ranks
  BY DEF Group
<1>1. epoch[r] = epoch[q] /\ Met(r, n) = Met(q, n)
  <2>1. epoch[r] = epoch[q]
    BY <1>0, SameEpoch
  <2> QED
    BY <2>1 DEF MetInv, Together
<1>2. /\ Place(r) /\ Place(q) /\ epoch[r] \in Nat /\ iter[r] \in Nat /\ iter[q] \in Nat /\ n \in Nat
  BY <1>0, RankTypes, ModesType DEF TypeInv
<1>3. CASE epoch[r] = 0
  <2>1. iter[r] = 0
    BY <1>2, <1>3 DEF Place
  <2>2. epoch[q] = 0
    BY <1>1, <1>3
  <2>3. iter[q] = 0
    BY <1>2, <2>2 DEF Place
  <2> QED
    BY <1>0, <1>1, <2>1, <2>3
<1>4. CASE epoch[r] # 0
  <2>1. iter[r] \in Syncs /\ iter[q] \in Syncs
    BY <1>1, <1>2, <1>4 DEF Place
  <2>2. /\ iter[r] \in Met(q, n) <=> iter[r] < iter[q]
        /\ iter[q] \in Met(r, n) <=> iter[q] < iter[r]
        /\ iter[r] \notin Met(r, n) /\ iter[q] \notin Met(q, n)
    BY <1>1, <1>2, <1>4, <2>1 DEF Met, Reduced
  <2> QED
    BY <1>0, <1>1, <1>2, <2>2
<1> QED
  BY <1>0, <1>1, <1>3, <1>4

LEMMA SubGridMet ==
  ASSUME TypeInv, DecisionInv, MetInv, NEW n \in Modes, NEW a \in Ranks,
         SubGridAllReduce(n, Group(a, n))
  PROVE  MetInv'
<1> DEFINE G == Group(a, n)
<1>1. /\ \A p \in G : pc[p] = "reduce" /\ mode[p] = n /\ mode'[p] = n + 1
      /\ \A p \in Ranks \ G : mode'[p] = mode[p]
      /\ UNCHANGED <<pc, epoch, iter>>
      /\ G \subseteq Ranks
  BY DEF SubGridAllReduce, Group
<1>2. \A p \in Ranks : \A q \in Group(p, n) : p \in G <=> q \in G
  BY DEF Group
<1>3. \A p \in G : \A q \in G : q \in Group(p, n)
  BY DEF Group
<1> HIDE DEF G
<1>4. ASSUME NEW p \in Ranks, NEW k \in Modes, k # n \/ p \notin G PROVE Met(p, k)' = Met(p, k)
  <2>1. \A j : Reduced(p, k, j)' <=> Reduced(p, k, j)
    <3>1. CASE p \notin G
      BY <1>1, <3>1 DEF Reduced
    <3>2. CASE p \in G /\ k # n
      BY <1>1, <3>2, ModesType DEF Reduced
    <3> QED
      BY <1>4, <3>1, <3>2
  <2> QED
    BY <1>1, <2>1 DEF Met, Syncs
<1>5. ASSUME NEW p \in G PROVE
        Met(p, n)' = Met(p, n) \cup ({iter[p]} \cap (IF epoch[p] = 0 THEN {0} ELSE Syncs))
  <2>1. \A j : Reduced(p, n, j)' <=> Reduced(p, n, j) \/ j = iter[p]
    BY <1>1, ModesType DEF Reduced
  <2> QED
    BY <1>1, <2>1 DEF Met, Syncs
<1>6. ASSUME NEW k \in Modes, NEW p \in Ranks, NEW q \in Group(p, k) PROVE Together(p, q, k)'
  <2>0. q \in Ranks /\ Together(p, q, k)
    BY DEF Group, MetInv
  <2>1. CASE k # n \/ p \notin G
    <3>1. k # n \/ q \notin G
      BY <1>2, <2>1
    <3> QED
      BY <1>1, <1>4, <2>0, <2>1, <3>1 DEF Together
  <2>2. CASE k = n /\ p \in G
    <3>1. q \in G
      BY <1>2, <2>2
    <3>2. epoch[p] = epoch[q] /\ iter[p] = iter[q] /\ Met(p, n) = Met(q, n)
      BY <1>1, <2>2, <3>1, SameIteration
    <3>3. epoch[q] # epoch[q] + 1
      BY <2>0, RankTypes DEF TypeInv
    <3> QED
      BY <1>1, <1>5, <2>2, <3>1, <3>2, <3>3 DEF Together
  <2> QED
    BY <2>1, <2>2
<1> QED
  BY <1>6 DEF MetInv, Group

\* A rank that has done its all-reduces moves on.
LEMMA AfterSyncMet ==
  ASSUME TypeInv, MetInv, NEW r \in Ranks, pc[r] = "reduce", mode[r] > Len(Grid),
         pc' = [pc EXCEPT ![r] = pc'[r]], pc'[r] # "reduce",
         mode' = [mode EXCEPT ![r] = 1], UNCHANGED <<epoch, iter>>
  PROVE  MetInv'
<1>0. TypeOK /\ mode[r] \in Nat /\ Len(Grid) \in Nat
  BY RankTypes DEF TypeInv
<1>1. ASSUME NEW n \in Modes, NEW q \in Ranks PROVE Met(q, n)' = Met(q, n)
  <2>1. CASE q = r
    <3>1. mode[r] > n
      BY <1>0, ModesType
    <3>2. \A j : Reduced(r, n, j)' <=> Reduced(r, n, j)
      BY <1>0, <3>1 DEF Reduced
    <3> QED
      BY <2>1, <3>2 DEF Met, Syncs
  <2>2. CASE q # r
    BY <1>0, <2>2 DEF TypeOK, Met, Reduced, Syncs
  <2> QED
    BY <2>1, <2>2
<1> QED
  BY <1>1, SameMet

LEMMA VerdictMet ==
  ASSUME TypeInv, DecisionInv, MetInv, NEW r \in Ranks, Start(r) \/ Pass(r) \/ Fail(r)
  PROVE  MetInv'
<1>0. TypeOK /\ Place(r) /\ \A q \in Ranks : epoch[q] \in Nat
  BY RankTypes DEF TypeInv
<1>1. /\ pc[r] = "judge" /\ UNCHANGED mode /\ epoch'[r] = epoch[r] + 1 /\ iter'[r] = 0
      /\ \A q \in Ranks \ {r} : pc'[q] = pc[q] /\ iter'[q] = iter[q] /\ epoch'[q] = epoch[q]
  BY <1>0 DEF TypeOK, Place, Start, Pass, Fail, EpochEnds
<1>2. \A n \in Modes : Met(r, n)' = {}
  <2>1. \A j \in Syncs : j > 0
    BY SyncsType
  <2>2. epoch'[r] # 0
    BY <1>0, <1>1
  <2> QED
    BY <1>0, <1>1, <2>1, <2>2 DEF Met, Reduced, Syncs
<1>3. ASSUME NEW q \in Ranks \ {r}, NEW n \in Modes PROVE Met(q, n)' = Met(q, n)
  BY <1>1 DEF Met, Reduced, Syncs
\* r is the last, or one of the last, to judge its epoch.
<1>4. ASSUME NEW q \in Ranks PROVE epoch[q] = epoch[r] \/ epoch[q] = epoch[r] + 1
  BY <1>0, <1>1 DEF DecisionInv, Pair, Ahead
<1>5. ASSUME NEW n \in Modes, NEW p \in Ranks, NEW q \in Group(p, n) PROVE Together(p, q, n)'
  <2>0. q \in Ranks /\ p \in Group(q, n) /\ Together(p, q, n) /\ Together(q, p, n)
    BY DEF Group, MetInv
  <2>1. CASE p = r /\ q = r
    BY <1>0, <1>1, <2>1 DEF Together
  <2>2. CASE p = r /\ q # r
    BY <1>0, <1>1, <1>2, <1>3, <1>4, <2>0, <2>2 DEF Together
  <2>3. CASE p # r /\ q = r
    <3>1. epoch'[p] = epoch[p] /\ epoch'[q] = epoch[r] + 1 /\ epoch[r] \in Nat
      BY <1>0, <1>1, <2>0, <2>3
    <3>2. Met(p, n)' = Met(p, n) /\ Met(q, n)' = {}
      BY <1>2, <1>3, <2>0, <2>3
    <3>3. epoch[p] = epoch[r] + 1 => Met(p, n) = {}
      BY <2>0, <2>3 DEF Together
    <3>4. epoch[p] = epoch[r] \/ epoch[p] = epoch[r] + 1
      BY <1>4
    <3> QED
      BY <3>1, <3>2, <3>3, <3>4 DEF Together
  <2>4. CASE p # r /\ q # r
    BY <1>1, <1>3, <2>0, <2>4 DEF Together
  <2> QED
    BY <2>1, <2>2, <2>3, <2>4
<1> QED
  BY <1>5 DEF MetInv, Group

LEMMA MetStep == Inv /\ MetInv /\ [Next]_vars => MetInv'
<1> SUFFICES ASSUME Inv, MetInv, [Next]_vars PROVE MetInv'
  OBVIOUS
<1>0. TypeInv /\ DecisionInv /\ TypeOK
  BY DEF Inv, TypeInv
<1>1. ASSUME UNCHANGED <<epoch, iter, mode>>,
             \A r \in Ranks : pc'[r] = "reduce" <=> pc[r] = "reduce"
      PROVE  MetInv'
  <2>1. ASSUME NEW n \in Modes, NEW r \in Ranks PROVE Met(r, n)' = Met(r, n)
    BY <1>1 DEF Met, Reduced, Syncs
  <2> QED
    BY <1>1, <2>1, SameMet
<1>2. ASSUME NEW r \in Ranks, Averaged(r) \/ MetaStep(r) PROVE MetInv'
  <2>1. /\ pc[r] = "reduce" /\ mode[r] > Len(Grid) /\ UNCHANGED <<epoch, iter>>
        /\ mode' = [mode EXCEPT ![r] = 1] /\ pc'[r] \in {"value", "iter"}
        /\ pc' = [pc EXCEPT ![r] = pc'[r]]
    BY <1>0, <1>2 DEF TypeOK, Averaged, MetaStep, AfterSync
  <2> QED
    BY <1>0, <2>1, AfterSyncMet
<1>3. ASSUME NEW r \in Ranks, Evaluate(r) PROVE MetInv'
  BY <1>0, <1>1, <1>3 DEF Evaluate, TypeOK
<1>4. CASE GridAllReduce
  BY <1>0, <1>1, <1>4 DEF GridAllReduce, TypeOK
<1>5. CASE UNCHANGED vars
  BY <1>1, <1>5 DEF vars
<1> QED
  BY <1>0, <1>2, <1>3, <1>4, <1>5, LocalStepMet, SubGridMet, VerdictMet DEF Next

-----------------------------------------------------------------------------
(* The steps in the blocks, counted out.  The model is whole only if the first step of   *)
(* ADAM as meta stepper, which has rate zero, is not the only one of its epoch.           *)

Rounds == \A s \in Setups : s.method = "opt" /\ s.metaStep = "adam" => DpIters < EpochIters

Steps(Q, e, J) == {<<q, e, j>> : q \in Q, j \in J}

\* The synchronisations of its epoch that r has applied, and the steps they cover.
Stepped(r) == {j \in Syncs : j < iter[r] \/ (j = iter[r] /\ pc[r] # "reduce")}
Covered(r) == {j \in 1 .. EpochIters : \E s \in Stepped(r) : j <= s}

\* In block n: what the applied synchronisations have gathered, and what all steps up to the
\* iteration of r come to; and the steps of r itself, in its epoch and since the last
\* synchronisation.
Whole(r, n) == best[r][n] \cup Steps(Group(r, n), epoch[r], Covered(r))
All(r, n) == best[r][n] \cup Steps(Group(r, n), epoch[r], 1 .. iter[r])
Own(r) == Steps({r}, epoch[r], 1 .. iter[r])
New(r) == Steps({r}, epoch[r], (1 .. iter[r]) \ Covered(r))

\* The meta stepper made its last step with rate zero.
Thin(r) == metaStepper[r].kind = "adam" /\ metaStepper[r].rate = "zero"

Rates(r) ==
  /\ metaStepper[r].kind = setup.metaStep
  /\ setup.metaStep = "adam" /\ metaStepper[r].step = "zero" => metaStepper[r].rate = "zero"
  /\ epoch[r] > 0 /\ setup.method = "opt" /\ Thin(r) =>
       /\ \A s \in Stepped(r) : s <= DpIters
       /\ metaStepper[r].step = "zero" => Stepped(r) = {}

Guess(r, n) ==
  /\ pc[r] = "reduce" =>
       wire[r][n] = Steps(IF mode[r] > n THEN Group(r, n) ELSE {r}, 0, {0})
  /\ pc[r] # "reduce" => /\ u[r][n] = Steps(Group(r, n), 0, {0})
                         /\ meta[r][n] = u[r][n] /\ best[r][n] = u[r][n]
  /\ stepper[r].m[n] = {} /\ stepper[r].mPrev[n] = {}
  /\ metaStepper[r].m[n] = {} /\ metaStepper[r].mPrev[n] = {}

Memory(r, n) ==
  /\ best[r][n] = WholeModel(PassedBefore(r), r, n)
  /\ stepper[r].m[n] \subseteq best[r][n] \cup Own(r)
  /\ stepper[r].mPrev[n] \subseteq best[r][n]
  /\ setup.method = "opt" => metaStepper[r].mPrev[n] \subseteq best[r][n]

Averages(r, n) ==
  /\ u[r][n] = Whole(r, n) \cup Own(r)
  /\ pc[r] = "reduce" => wire[r][n] = IF mode[r] > n THEN All(r, n) ELSE u[r][n]

MetaModel(r, n) ==
  /\ meta[r][n] \cup metaStepper[r].m[n] = Whole(r, n)
  /\ ~Thin(r) \/ Stepped(r) = {} => metaStepper[r].m[n] \subseteq meta[r][n]
  /\ New(r) \subseteq u[r][n] /\ meta[r][n] \subseteq u[r][n]
          /\ u[r][n] \subseteq Whole(r, n) \cup Own(r)
  /\ pc[r] = "reduce" =>
       IF mode[r] > n
       THEN /\ Steps(Group(r, n), epoch[r], (1 .. iter[r]) \ Covered(r)) \subseteq wire[r][n]
            /\ wire[r][n] \subseteq All(r, n)
       ELSE New(r) \subseteq wire[r][n] /\ wire[r][n] \subseteq Whole(r, n) \cup Own(r)

ExactBlock(r, n) ==
  /\ epoch[r] = 0 => Guess(r, n)
  /\ epoch[r] > 0 => Memory(r, n)
  /\ epoch[r] > 0 /\ setup.method = "avg" => Averages(r, n)
  /\ epoch[r] > 0 /\ setup.method = "opt" /\ NaN \notin meta[r][n] => MetaModel(r, n)

Exact(r) == Rates(r) /\ \A n \in Modes : ExactBlock(r, n)

ExactInv == \A r \in Ranks : Exact(r)

LEMMA StepsAreSteps ==
  ASSUME NEW Q, Q \subseteq Ranks, NEW e \in Int, NEW J, J \subseteq Int
  PROVE  NaN \notin Steps(Q, e, J)
<1>1. \A x \in Steps(Q, e, J) : x \in Ranks \X Int \X Int
  BY DEF Steps
<1> QED
  BY <1>1, FedOptAssumption

LEMMA WholeIsSteps ==
  ASSUME NEW E, E \subseteq Nat, NEW r, NEW n
  PROVE  NaN \notin WholeModel(E, r, n)
<1>1. \A x \in WholeModel(E, r, n) : x \in Ranks \X Int \X Int
  BY DEF WholeModel, Group
<1> QED
  BY <1>1, FedOptAssumption

\* The steps of an epoch are in no model of the epochs before it.
LEMMA NewIsNew ==
  ASSUME NEW e \in Nat, e > 0, NEW E, E \subseteq 0 .. e - 1, NEW r, NEW n, NEW J, NEW C,
         J \cap C = {}
  PROVE  Steps({r}, e, J) \cap (WholeModel(E, r, n) \cup Steps(Group(r, n), e, C)) = {}
<1> SUFFICES ASSUME NEW j \in J,
                    <<r, e, j>> \in WholeModel(E, r, n) \cup Steps(Group(r, n), e, C)
             PROVE  FALSE
  BY DEF Steps
<1>1. CASE <<r, e, j>> \in WholeModel(E, r, n)
  <2>1. e \in E \/ e = 0
    BY <1>1 DEF WholeModel
  <2> QED
    BY <2>1
<1>2. CASE <<r, e, j>> \in Steps(Group(r, n), e, C)
  BY <1>2 DEF Steps
<1> QED
  BY <1>1, <1>2

\* What a step of the meta stepper does to one block.
LEMMA MetaStepContents ==
  ASSUME NEW s \in StepperType, NEW g \in Blocks,
         NEW t, t = MetaStepped(s, g), NEW d, d = Direction(t, g)
  PROVE  /\ t.kind = s.kind /\ t.mPrev = s.mPrev /\ t.step = "set" /\ t \in StepperType
         /\ t.kind = "adam" => t.rate = s.step \/ t.rate = "nan"
         /\ \A n \in Modes :
              /\ s.kind = "sgd" => t.m[n] = s.m[n]
              /\ s.kind # "sgd" => t.m[n] = s.m[n] \cup g[n]
              /\ t.kind \in {"sgd", "adagrad"} => d[n] = g[n]
              /\ t.kind = "momentum" => d[n] = t.m[n]
              /\ t.kind = "adam" => /\ t.rate = "set" => d[n] = t.m[n]
                                    /\ t.rate = "nan" => NaN \in d[n]
                                    /\ t.rate = "zero" => d[n] = {}
<1> DEFINE a == Update(s)
           b == SetStep(a)
<1>1. a \in StepperType /\ a.kind = s.kind /\ a.m = s.m /\ a.mPrev = s.mPrev
  BY StepperTypes, StepperContents, StepperCounts
<1>2. s.kind = "adam" => a.rate \in {s.step, "nan"}
  BY DEF Update, StepperType
<1> HIDE DEF a
<1>3. /\ b \in StepperType /\ b.kind = a.kind /\ b.m = a.m /\ b.mPrev = a.mPrev
      /\ b.rate = a.rate /\ b.step = "set"
  BY <1>1, StepperTypes DEF SetStep, StepperType
<1> HIDE DEF b
<1>4. t = Accumulate(b, g)
  BY DEF MetaStepped, a, b
<1>5. /\ t \in StepperType /\ t.kind = b.kind /\ t.mPrev = b.mPrev /\ t.rate = b.rate
      /\ t.m = IF b.kind = "sgd" THEN b.m ELSE Join(b.m, g)
  BY <1>3, <1>4, Accumulates
<1>6. t.step = "set"
  BY <1>3, <1>4 DEF Accumulate, StepperType
<1>7. t.kind \in Steppers /\ t.rate \in {"zero", "set", "nan"}
  BY <1>5 DEF StepperType
<1>8. ASSUME NEW n \in Modes
      PROVE  /\ s.kind = "sgd" => t.m[n] = s.m[n]
             /\ s.kind # "sgd" => t.m[n] = s.m[n] \cup g[n]
             /\ t.kind \in {"sgd", "adagrad"} => d[n] = g[n]
             /\ t.kind = "momentum" => d[n] = t.m[n]
             /\ t.kind = "adam" => /\ t.rate = "set" => d[n] = t.m[n]
                                   /\ t.rate = "nan" => NaN \in d[n]
                                   /\ t.rate = "zero" => d[n] = {}
  <2>1. /\ s.kind = "sgd" => t.m[n] = s.m[n]
        /\ s.kind # "sgd" => t.m[n] = s.m[n] \cup g[n]
    BY <1>1, <1>3, <1>5 DEF Join
  <2>2. Join(t.m, g)[n] = t.m[n] \cup g[n]
    BY DEF Join
  <2>3. t.kind # "sgd" => t.m[n] \cup g[n] = t.m[n]
    BY <1>1, <1>3, <1>5, <2>1
  <2> QED
    BY <1>7, <2>1, <2>2, <2>3 DEF Direction, Empty
<1> QED
  BY <1>1, <1>2, <1>3, <1>5, <1>6, <1>7, <1>8

LEMMA ExactInit == Init => ExactInv
<1> SUFFICES ASSUME Init, NEW r \in Ranks PROVE Exact(r)
  BY DEF ExactInv
<1>1. /\ epoch[r] = 0 /\ pc[r] = "reduce" /\ mode[r] = 1 /\ wire[r] = Token(r, 0, 0)
      /\ stepper[r].m = Empty /\ stepper[r].mPrev = Empty
      /\ metaStepper[r] = NewStepper(setup.metaStep)
  BY DEF Init, NewStepper
<1>2. Rates(r)
  BY <1>1 DEF Rates, NewStepper
<1>3. ASSUME NEW n \in Modes PROVE Guess(r, n)
  <2>1. ~(mode[r] > n) /\ wire[r][n] = Steps({r}, 0, {0})
    BY <1>1, ModesType DEF Token, Steps
  <2> QED
    BY <1>1, <2>1 DEF Guess, NewStepper, Empty
<1> QED
  BY <1>1, <1>2, <1>3 DEF Exact, ExactBlock

LEMMA UnmovedExact ==
  ASSUME NEW q \in Ranks, Exact(q), Unmoved(q), stepper'[q] = stepper[q],
         PassedBefore(q)' = PassedBefore(q)
  PROVE  Exact(q)'
<1>1. Stepped(q)' = Stepped(q)
  BY DEF Unmoved, Stepped, Syncs
<1>2. Covered(q)' = Covered(q)
  BY <1>1 DEF Covered
<1>3. Own(q)' = Own(q) /\ New(q)' = New(q) /\ Thin(q)' = Thin(q)
  BY <1>2 DEF Own, New, Thin, Unmoved
<1>4. Rates(q)'
  BY <1>1, <1>3 DEF Exact, Rates, Unmoved
<1>5. ASSUME NEW n \in Modes PROVE ExactBlock(q, n)'
  <2>0. ExactBlock(q, n)
    BY DEF Exact
  <2>1. Whole(q, n)' = Whole(q, n) /\ All(q, n)' = All(q, n)
    BY <1>2 DEF Whole, All, Unmoved, Group
  <2>2. WholeModel(PassedBefore(q), q, n)' = WholeModel(PassedBefore(q), q, n)
    BY DEF WholeModel, Group
  <2>3. Guess(q, n)' = Guess(q, n)
    BY DEF Guess, Unmoved, Group
  <2>4. Memory(q, n)' = Memory(q, n)
    BY <1>3, <2>2 DEF Memory, Unmoved
  <2>5. Averages(q, n)' = Averages(q, n)
    BY <1>3, <2>1 DEF Averages, Unmoved
  <2>6. MetaModel(q, n)' = MetaModel(q, n)
    BY <1>1, <1>2, <1>3, <2>1 DEF MetaModel, Unmoved, Group
  <2> QED
    BY <2>0, <2>3, <2>4, <2>5, <2>6 DEF ExactBlock, Unmoved
<1> QED
  BY <1>4, <1>5 DEF Exact

\* A local step adds its own token to what it touches.
LEMMA LocalStepExact ==
  ASSUME TypeInv, CurveInv, NEW r \in Ranks, Trace(r), Exact(r), LocalStep(r) PROVE Exact(r)'
<1> DEFINE i == iter[r] + 1
           e == epoch[r]
           g == Token(r, e, i)
           a == Update(SetStep(stepper[r]))
           s == Accumulate(a, g)
           d == Direction(s, g)
           v == Join(u[r], d)
           x == <<r, e, i>>
<1>0. /\ TypeOK /\ Place(r) /\ e \in Nat /\ iter[r] \in Nat /\ EpochIters \in Nat
      /\ stepper[r] \in StepperType /\ setup \in Setups /\ setup.method \in {"avg", "opt"}
  BY RankTypes, FedOptAssumption DEF TypeInv, TypeOK
<1>1. /\ pc[r] = "iter" /\ iter'[r] = i /\ pc'[r] = IF i \in Syncs THEN "reduce" ELSE "iter"
      /\ mode[r] = 1 /\ e > 0 /\ i \in 1 .. EpochIters
      /\ stepper'[r] = s /\ u'[r] = v
      /\ pc'[r] = "reduce" => wire'[r] = IF setup.method = "avg" THEN v ELSE Difference(meta[r], v)
      /\ UNCHANGED <<setup, curve, epoch, mode, meta, best, metaStepper>>
  <2>1. i \in 1 .. EpochIters /\ e > 0
    BY <1>0 DEF LocalStep, Place
  <2> QED
    BY <1>0, <2>1 DEF LocalStep, TypeOK, Place, Syncs
<1>2. /\ s.kind = stepper[r].kind /\ s.mPrev = stepper[r].mPrev
      /\ s.m = IF s.kind = "sgd" THEN stepper[r].m ELSE Join(stepper[r].m, g)
      /\ s \in StepperType /\ (s.kind = "adam" => s.rate = "set")
  <2>1. g \in Blocks /\ (stepper[r].kind = "adam" => stepper[r].t >= 0)
    BY <1>0, TokenType DEF Trace, TraceOfSteppers, StepperType
  <2> DEFINE b == SetStep(stepper[r])
  <2>2. /\ b \in StepperType /\ b.m = stepper[r].m /\ b.mPrev = stepper[r].mPrev /\ b.step = "set"
        /\ b.kind = stepper[r].kind /\ b.t = stepper[r].t
    BY <1>0, <2>1, StepperTypes, StepperContents, StepperCounts, EmptyType
  <2> HIDE DEF b
  <2>3. /\ a \in StepperType /\ a.m = b.m /\ a.mPrev = b.mPrev /\ a.kind = b.kind
        /\ a.kind = "adam" => a.rate = "set"
    <3>1. a = Update(b)
      BY DEF b
    <3>2. /\ Update(b) \in StepperType /\ Update(b).m = b.m /\ Update(b).mPrev = b.mPrev
          /\ Update(b).kind = b.kind /\ (b.kind = "adam" => Update(b).rate = "set")
      BY <2>1, <2>2, StepperTypes, StepperContents, StepperCounts
    <3> HIDE DEF a
    <3> QED
      BY <3>1, <3>2
  <2> HIDE DEF a, g
  <2> QED
    BY <2>1, <2>2, <2>3, Accumulates
<1>3. \A n \in Modes : g[n] = {x} /\ v[n] = u[r][n] \cup d[n]
  BY DEF Token, Join
<1>4. \A n \in Modes : /\ s.m[n] \subseteq stepper[r].m[n] \cup {x}
                       /\ x \in d[n] /\ d[n] \subseteq stepper[r].m[n] \cup {x}
  <2>1. s.kind \in Steppers
    BY <1>2 DEF StepperType
  <2>2. \A n \in Modes : /\ Join(s.m, g)[n] = s.m[n] \cup {x}
                       /\ Join(stepper[r].m, g)[n] = stepper[r].m[n] \cup {x}
    BY <1>3 DEF Join
  <2> HIDE DEF s, g, x
  <2>3. \A n \in Modes : d[n] = {x} \/ d[n] = s.m[n] \cup {x}
    BY <1>2, <1>3, <2>1, <2>2 DEF Direction, Steppers
  <2> QED
    BY <1>2, <2>2, <2>3
<1> HIDE DEF s, d, v, a, g
<1>5. Stepped(r)' = Stepped(r) /\ \A j \in Stepped(r) : j < i
  <2>1. \A j \in Syncs : j < i <=> j < iter[r] \/ j = iter[r]
    BY <1>0, SyncsType
  <2>2. Syncs' = Syncs
    BY DEF Syncs
  <2> HIDE DEF i
  <2>3. i \notin Syncs => \A j \in Syncs : (j < i \/ j = i) <=> j < i
    OBVIOUS
  <2> QED
    BY <1>1, <2>1, <2>2, <2>3 DEF Stepped
<1>6. Covered(r)' = Covered(r) /\ i \notin Covered(r) /\ 1 .. i = (1 .. iter[r]) \cup {i}
  <2>1. \A j \in Stepped(r) : j \in Int
    BY SyncsType DEF Stepped
  <2>2. Covered(r)' = Covered(r) /\ i \notin Covered(r)
    BY <1>0, <1>5, <2>1 DEF Covered
  <2>3. 1 .. i = (1 .. iter[r]) \cup {i}
    BY <1>0
  <2> QED
    BY <2>2, <2>3
<1>7. Own(r)' = Own(r) \cup {x} /\ New(r)' = New(r) \cup {x} /\ Thin(r)' = Thin(r)
  <2> HIDE DEF i
  <2>1. Own(r)' = Own(r) \cup {x}
    BY <1>1, <1>6 DEF Own, Steps
  <2>2. New(r)' = New(r) \cup {x}
    BY <1>1, <1>6 DEF New, Steps
  <2> QED
    BY <1>1, <2>1, <2>2 DEF Thin
<1>8. Rates(r)'
  BY <1>1, <1>5, <1>7 DEF Exact, Rates
<1>9. ASSUME NEW n \in Modes PROVE ExactBlock(r, n)'
  <2>0. /\ Memory(r, n) /\ (setup.method = "avg" => Averages(r, n))
        /\ setup.method = "opt" /\ NaN \notin meta[r][n] => MetaModel(r, n)
    BY <1>1 DEF Exact, ExactBlock
  <2>1. Whole(r, n)' = Whole(r, n) /\ best'[r][n] = best[r][n]
        /\ WholeModel(PassedBefore(r), r, n)' = WholeModel(PassedBefore(r), r, n)
    BY <1>1, <1>6, PassedKept DEF Whole, Group, WholeModel
  <2>2. Memory(r, n)'
    <3>1. stepper'[r].m[n] \subseteq best[r][n] \cup Own(r) \cup {x}
      BY <1>1, <1>4, <2>0 DEF Memory
    <3> QED
      BY <1>1, <1>2, <1>7, <2>0, <2>1, <3>1 DEF Memory
  <2>3. best[r][n] \subseteq Whole(r, n) /\ ~(mode'[r] > n)
    BY <1>1, ModesType DEF Whole
  <2>4. u'[r][n] = u[r][n] \cup d[n] /\ x \in d[n]
          /\ d[n] \subseteq Whole(r, n) \cup Own(r) \cup {x}
    BY <1>1, <1>3, <1>4, <2>0, <2>3 DEF Memory
  <2>5. setup.method = "avg" => Averages(r, n)'
    BY <1>1, <1>7, <2>0, <2>1, <2>3, <2>4 DEF Averages
  <2>6. ASSUME setup.method = "opt", NaN \notin meta[r][n] PROVE MetaModel(r, n)'
    <3>0. MetaModel(r, n) /\ setup.method # "avg"
      BY <2>0, <2>6
    <3>1. New(r)' \subseteq u'[r][n] /\ meta[r][n] \subseteq u'[r][n]
          /\ u'[r][n] \subseteq Whole(r, n) \cup Own(r)'
      BY <1>7, <2>4, <3>0 DEF MetaModel
    <3>2. PassedBefore(r) \subseteq 0 .. e - 1 /\ PassedBefore(r) \subseteq Nat
      BY <1>0, PassedType
    <3>3. New(r)' \cap Whole(r, n) = {}
      <4>1. New(r)' = Steps({r}, e, (1 .. i) \ Covered(r))
        BY <1>1, <1>6 DEF New
      <4>2. Whole(r, n) = WholeModel(PassedBefore(r), r, n) \cup Steps(Group(r, n), e, Covered(r))
        BY <2>0 DEF Whole, Memory
      <4>3. ((1 .. i) \ Covered(r)) \cap Covered(r) = {}
        OBVIOUS
      <4> QED
        BY <1>0, <1>1, <3>2, <4>1, <4>2, <4>3, NewIsNew
    <3>4. NaN \notin Whole(r, n) \cup Own(r)'
      <4>1. Own(r)' = Steps({r}, e, 1 .. i) /\ 1 .. i \subseteq Int /\ {r} \subseteq Ranks
        BY <1>1 DEF Own
      <4>2. Group(r, n) \subseteq Ranks /\ Covered(r) \subseteq Int
        BY DEF Group, Covered
      <4>3. NaN \notin Steps({r}, e, 1 .. i) /\ NaN \notin Steps(Group(r, n), e, Covered(r))
        BY <1>0, <4>1, <4>2, StepsAreSteps
      <4> QED
        BY <2>0, <3>2, <4>1, <4>3, WholeIsSteps DEF Whole, Memory
    <3>5. meta[r][n] \subseteq Whole(r, n)
      BY <3>0 DEF MetaModel
    <3>6. Difference(meta[r], v)[n] = v[n] \ meta[r][n]
      BY <1>1, <2>6, <3>1, <3>4 DEF Difference
    <3>7. pc'[r] = "reduce" => /\ New(r)' \subseteq wire'[r][n]
                               /\ wire'[r][n] \subseteq Whole(r, n) \cup Own(r)'
      BY <1>1, <3>0, <3>1, <3>3, <3>5, <3>6
    <3> QED
      BY <1>1, <1>5, <1>7, <2>1, <2>3, <3>0, <3>1, <3>7 DEF MetaModel
  <2> QED
    BY <1>1, <2>2, <2>5, <2>6 DEF ExactBlock
<1> QED
  BY <1>8, <1>9 DEF Exact

\* After a synchronisation all steps so far are covered.
LEMMA AfterSyncCovers ==
  ASSUME TypeInv, NEW r \in Ranks, pc[r] = "reduce", pc'[r] # "reduce", epoch[r] > 0,
         UNCHANGED <<epoch, iter>>
  PROVE  /\ Stepped(r)' = Stepped(r) \cup {iter[r]} /\ iter[r] \in Syncs
         /\ Covered(r)' = 1 .. iter[r] /\ Covered(r) \subseteq 1 .. iter[r]
         /\ Own(r)' = Own(r) /\ New(r)' = {}
         /\ Stepped(r) = {j \in Syncs : j < iter[r]}
<1>0. Place(r) /\ epoch[r] \in Nat /\ iter[r] \in 0 .. EpochIters /\ iter[r] \in Syncs
        /\ EpochIters \in Nat
  BY RankTypes DEF TypeInv, Place
<1>1. /\ Stepped(r)' = Stepped(r) \cup {iter[r]}
      /\ Stepped(r) = {j \in Syncs : j < iter[r]}
  <2>1. Syncs' = Syncs /\ iter'[r] = iter[r]
    BY DEF Syncs
  <2> HIDE DEF Syncs
  <2> QED
    BY <1>0, <2>1 DEF Stepped
<1>2. /\ \A s \in Stepped(r) : s \in 1 .. EpochIters /\ s < iter[r]
      /\ \A s \in Stepped(r)' : s \in 1 .. EpochIters /\ s <= iter[r]
  <2>1. \A j \in Syncs : j \in 1 .. EpochIters
    BY SyncsType
  <2>2. \A s \in Stepped(r) : s \in 1 .. EpochIters /\ s < iter[r]
    BY <1>1, <2>1
  <2>3. \A s \in Stepped(r)' : s \in Stepped(r) \/ s = iter[r]
    BY <1>1
  <2> QED
    BY <1>0, <2>1, <2>2, <2>3
<1>3. Covered(r)' = {j \in 1 .. EpochIters : \E s \in Stepped(r)' : j <= s}
  BY DEF Covered
<1>4. Covered(r)' = 1 .. iter[r] /\ Covered(r) \subseteq 1 .. iter[r]
  <2>1. Covered(r) \subseteq 1 .. iter[r]
    BY <1>0, <1>2 DEF Covered
  <2>2. Covered(r)' = 1 .. iter[r]
    BY <1>0, <1>1, <1>2, <1>3
  <2> QED
    BY <2>1, <2>2
<1>5. Own(r)' = Own(r) /\ New(r)' = {}
  <2>1. ((1 .. iter[r]) \ Covered(r))' = {}
    BY <1>4
  <2> QED
    BY <2>1 DEF Own, New, Steps
<1> QED
  BY <1>0, <1>1, <1>4, <1>5

LEMMA AveragedExact ==
  ASSUME TypeInv, NEW r \in Ranks, Exact(r), Averaged(r) PROVE Exact(r)'
<1>0. /\ TypeOK /\ Place(r) /\ epoch[r] \in Nat /\ iter[r] \in Nat
      /\ mode[r] \in Nat /\ Len(Grid) \in Nat
  BY RankTypes DEF TypeInv
<1>1. /\ UNCHANGED <<setup, curve, epoch, iter, stepper, metaStepper>>
      /\ pc[r] = "reduce" /\ mode[r] > Len(Grid) /\ u'[r] = wire[r] /\ pc'[r] # "reduce"
      /\ epoch[r] = 0 => best'[r] = wire[r] /\ meta'[r] = wire[r]
      /\ epoch[r] # 0 => /\ best'[r] = best[r] /\ meta'[r] = meta[r] /\ setup.method = "avg"
  BY <1>0 DEF TypeOK, Averaged, AfterSync
<1>2. \A n \in Modes : mode[r] > n
  BY <1>0, <1>1, ModesType
<1>3. setup.method = "avg" => setup.method # "opt"
  OBVIOUS
<1>4. CASE epoch[r] = 0
  <2>1. Rates(r)'
    BY <1>1, <1>4 DEF Exact, Rates
  <2>2. ASSUME NEW n \in Modes PROVE Guess(r, n)'
    BY <1>1, <1>2, <1>4, ZenonT(30) DEF Exact, ExactBlock, Guess, Group
  <2> QED
    BY <1>0, <1>1, <1>4, <2>1, <2>2 DEF Exact, ExactBlock
<1>5. CASE epoch[r] # 0
  <2>0. epoch[r] > 0
    BY <1>0, <1>5
  <2>1. Rates(r)'
    BY <1>1, <1>3, <1>5 DEF Exact, Rates
  <2>2. /\ Covered(r)' = 1 .. iter[r] /\ Own(r)' = Own(r)
    BY <1>1, <2>0, AfterSyncCovers
  <2>3. ASSUME NEW n \in Modes PROVE ExactBlock(r, n)'
    <3>1. Memory(r, n) /\ Averages(r, n)
      BY <1>1, <1>5, <2>0 DEF Exact, ExactBlock
    <3>2. Memory(r, n)'
      <4>1. WholeModel(PassedBefore(r), r, n)' = WholeModel(PassedBefore(r), r, n)
        BY <1>1, PassedKept DEF WholeModel, Group
      <4> QED
        BY <1>1, <1>5, <2>2, <3>1, <4>1 DEF Memory
    <3>3. Averages(r, n)'
      <4>1. u'[r][n] = All(r, n)
        BY <1>1, <1>2, <3>1 DEF Averages
      <4>2. Whole(r, n)' = All(r, n)
        BY <1>1, <1>5, <2>2 DEF Whole, All, Group
      <4>3. Own(r) \subseteq All(r, n)
        BY DEF Own, All, Steps, Group
      <4> QED
        BY <1>1, <2>2, <4>1, <4>2, <4>3 DEF Averages
    <3> QED
      BY <1>1, <1>3, <1>5, <3>2, <3>3 DEF ExactBlock
  <2> QED
    BY <2>1, <2>3 DEF Exact
<1> QED
  BY <1>4, <1>5

\* The steps that the wire brings go into the meta model or, if the rate is zero, into the
\* moments only.
LEMMA MetaStepExact ==
  ASSUME TypeInv, NEW r \in Ranks, Trace(r), Exact(r), MetaStep(r) PROVE Exact(r)'
<1> DEFINE s == metaStepper[r]
           g == wire[r]
           t == MetaStepped(s, g)
           d == Direction(t, g)
           v == Join(meta[r], d)
<1>0. /\ TypeOK /\ Place(r) /\ epoch[r] \in Nat /\ iter[r] \in Nat
      /\ mode[r] \in Nat /\ Len(Grid) \in Nat /\ s \in StepperType /\ g \in Blocks
  BY RankTypes DEF TypeInv
<1>1. /\ UNCHANGED <<setup, curve, epoch, iter, best, wire, stepper>>
      /\ pc[r] = "reduce" /\ mode[r] > Len(Grid) /\ pc'[r] # "reduce"
      /\ epoch[r] > 0 /\ epoch[r] # 0 /\ setup.method = "opt"
      /\ u'[r] = v /\ meta'[r] = v /\ metaStepper'[r] = t
  BY <1>0 DEF TypeOK, MetaStep, MetaStepped, AfterSync
<1>2. \A n \in Modes : mode[r] > n /\ v[n] = meta[r][n] \cup d[n]
  BY <1>0, <1>1, ModesType DEF Join
<1>3. /\ Stepped(r)' = Stepped(r) \cup {iter[r]} /\ iter[r] \in Syncs
      /\ Covered(r)' = 1 .. iter[r] /\ Covered(r) \subseteq 1 .. iter[r]
      /\ Own(r)' = Own(r) /\ New(r)' = {}
      /\ Stepped(r) = {j \in Syncs : j < iter[r]}
  BY <1>1, AfterSyncCovers
<1>4. /\ t.kind = s.kind /\ t.mPrev = s.mPrev /\ t.step = "set" /\ t \in StepperType
      /\ t.kind = "adam" => t.rate = s.step \/ t.rate = "nan"
      /\ \A n \in Modes :
           /\ s.kind = "sgd" => t.m[n] = s.m[n]
           /\ s.kind # "sgd" => t.m[n] = s.m[n] \cup g[n]
           /\ t.kind \in {"sgd", "adagrad"} => d[n] = g[n]
           /\ t.kind = "momentum" => d[n] = t.m[n]
           /\ t.kind = "adam" => /\ t.rate = "set" => d[n] = t.m[n]
                                 /\ t.rate = "nan" => NaN \in d[n]
                                 /\ t.rate = "zero" => d[n] = {}
  <2>1. t = MetaStepped(s, g) /\ d = Direction(t, g) /\ s \in StepperType /\ g \in Blocks
    BY <1>0
  <2> HIDE DEF s, g, t, d, v
  <2> QED
    BY <2>1, MetaStepContents
<1> HIDE DEF d, t, v
<1>5. Rates(r)'
  <2>1. Rates(r)
    BY DEF Exact
  <2>2. metaStepper'[r].kind = setup'.metaStep /\ metaStepper'[r].step # "zero"
    BY <1>1, <1>4, <2>1 DEF Rates
  <2>3. ASSUME Thin(r)' PROVE \A j \in Stepped(r)' : j <= DpIters
    <3>1. t.rate = "zero" /\ t.kind = "adam"
      BY <1>1, <2>3 DEF Thin
    <3>2. s.step = "zero" /\ s.kind = "adam"
      BY <1>4, <3>1
    <3>3. Stepped(r) = {}
      BY <1>1, <2>1, <3>2 DEF Rates, Thin
    <3>4. DpIters < iter[r] => DpIters \in Syncs
      BY <1>3, FedOptAssumption DEF Syncs
    <3>5. iter[r] <= DpIters
      BY <1>0, <1>3, <3>3, <3>4, FedOptAssumption
    <3> QED
      BY <1>3, <3>3, <3>5
  <2> QED
    BY <2>2, <2>3 DEF Rates
<1>6. ASSUME NEW n \in Modes PROVE ExactBlock(r, n)'
  <2>0. /\ Memory(r, n) /\ (NaN \notin meta[r][n] => MetaModel(r, n))
        /\ setup'.method # "avg" /\ epoch'[r] # 0
    BY <1>1 DEF Exact, ExactBlock
  <2>1. Memory(r, n)'
    <3>1. WholeModel(PassedBefore(r), r, n)' = WholeModel(PassedBefore(r), r, n)
      BY <1>1, PassedKept DEF WholeModel, Group
    <3> QED
      BY <1>1, <1>3, <1>4, <2>0, <3>1 DEF Memory
  <2>2. ASSUME NaN \notin meta'[r][n] PROVE MetaModel(r, n)'
    <3>1. meta'[r][n] = meta[r][n] \cup d[n] /\ u'[r][n] = meta'[r][n]
      BY <1>1, <1>2
    <3>2. MetaModel(r, n) /\ NaN \notin d[n]
      BY <2>0, <2>2, <3>1
    <3>3. Whole(r, n)' = All(r, n)
      BY <1>1, <1>3 DEF Whole, All, Group
    <3>4. Whole(r, n) \cup g[n] = All(r, n)
      <4>1. /\ Steps(Group(r, n), epoch[r], (1 .. iter[r]) \ Covered(r)) \subseteq g[n]
            /\ g[n] \subseteq All(r, n)
        BY <1>1, <1>2, <3>2 DEF MetaModel
      <4>2. All(r, n) = Whole(r, n)
                          \cup Steps(Group(r, n), epoch[r], (1 .. iter[r]) \ Covered(r))
        BY <1>3 DEF All, Whole, Steps
      <4> QED
        BY <4>1, <4>2
    <3>5. meta[r][n] \cup s.m[n] = Whole(r, n) /\ (~Thin(r) => s.m[n] \subseteq meta[r][n])
      BY <3>2 DEF MetaModel
    <3>6. s.kind = "sgd" => s.m[n] = {}
      BY DEF Trace, TraceOfSteppers, Empty
    <3>7. /\ t.m[n] \cup meta'[r][n] = All(r, n)
          /\ ~Thin(r)' => t.m[n] \subseteq meta'[r][n]
      <4>1. s.kind = "adam" => t.rate # "nan"
        BY <1>4, <3>2
      <4>2. t.m[n] = s.m[n] \cup g[n] \/ (s.kind = "sgd" /\ t.m[n] = {} /\ d[n] = g[n])
        BY <1>4, <3>6
      <4>3. CASE t.kind = "adam"
        <5>1. d[n] = t.m[n] \/ (t.rate = "zero" /\ d[n] = {})
          <6>1. t.rate \in {"zero", "set", "nan"}
            BY <1>4 DEF StepperType
          <6> QED
            BY <1>4, <4>1, <4>3, <6>1
        <5>2. t.m[n] = s.m[n] \cup g[n]
          BY <1>4, <4>2, <4>3
        <5>3. t.rate = "zero" => Thin(r)'
          BY <1>1, <4>3 DEF Thin
        <5> QED
          BY <3>1, <3>4, <3>5, <5>1, <5>2, <5>3
      <4>4. CASE t.kind # "adam"
        <5>1. ~Thin(r)
          BY <1>4, <4>4 DEF Thin
        <5>2. d[n] = g[n] \/ d[n] = t.m[n]
          <6>1. t.kind \in Steppers
            BY <1>4 DEF StepperType
          <6> QED
            BY <1>4, <4>4, <6>1 DEF Steppers
        <5> QED
          BY <3>1, <3>4, <3>5, <3>6, <4>2, <5>1, <5>2
      <4> QED
        BY <4>3, <4>4
    <3>8. Stepped(r)' # {} /\ metaStepper'[r] = t
      BY <1>1, <1>3
    <3>9. pc'[r] # "reduce" /\ New(r)' = {}
      BY <1>1, <1>3
    <3> QED
      BY <3>1, <3>3, <3>7, <3>8, <3>9 DEF MetaModel
  <2> QED
    BY <2>0, <2>1, <2>2 DEF ExactBlock
<1> QED
  BY <1>5, <1>6 DEF Exact

\* Estimates leave the blocks alone.
LEMMA EstimatesExact ==
  ASSUME NEW r \in Ranks, Exact(r), pc[r] \in {"value", "grid"}, pc'[r] \in {"grid", "judge"},
         UNCHANGED <<setup, epoch, iter, mode, u, meta, best, wire, stepper, metaStepper>>,
         PassedBefore(r)' = PassedBefore(r)
  PROVE  Exact(r)'
<1>1. Stepped(r)' = Stepped(r)
  BY DEF Stepped, Syncs
<1>2. Covered(r)' = Covered(r)
  BY <1>1 DEF Covered
<1>3. Own(r)' = Own(r) /\ New(r)' = New(r) /\ Thin(r)' = Thin(r)
  BY <1>2 DEF Own, New, Thin
<1>4. Rates(r)'
  BY <1>1, <1>3 DEF Exact, Rates
<1>5. ASSUME NEW n \in Modes PROVE ExactBlock(r, n)'
  <2>0. ExactBlock(r, n)
    BY DEF Exact
  <2>1. Whole(r, n)' = Whole(r, n)
    BY <1>2 DEF Whole, Group
  <2>2. WholeModel(PassedBefore(r), r, n)' = WholeModel(PassedBefore(r), r, n)
    BY DEF WholeModel, Group
  <2>3. Guess(r, n) => Guess(r, n)'
    BY DEF Guess, Group
  <2>4. Memory(r, n)' = Memory(r, n)
    BY <1>3, <2>2 DEF Memory
  <2>5. Averages(r, n) => Averages(r, n)'
    BY <1>3, <2>1 DEF Averages
  <2>6. MetaModel(r, n) => MetaModel(r, n)'
    BY <1>1, <1>2, <1>3, <2>1 DEF MetaModel
  <2> QED
    BY <2>0, <2>3, <2>4, <2>5, <2>6 DEF ExactBlock
<1> QED
  BY <1>4, <1>5 DEF Exact

LEMMA StaleCovers ==
  ASSUME NEW r \in Ranks, TypeOK, pc[r] = "reduce" PROVE Covered(r) \subseteq 1 .. iter[r]
<1>1. iter[r] \in Nat /\ EpochIters \in Nat
  BY RankTypes
<1>2. \A j \in Stepped(r) : j < iter[r] /\ j \in Int
  <2>1. \A j \in Syncs : j \in Int
    BY SyncsType
  <2>2. \A j \in Stepped(r) : j \in Syncs /\ j < iter[r]
    BY DEF Stepped
  <2> QED
    BY <2>1, <2>2
<1> QED
  BY <1>1, <1>2 DEF Covered

\* The ranks of a group put together what each of them has done.
LEMMA SubGridExact ==
  ASSUME TypeInv, DecisionInv, MetInv, AgreeInv, ExactInv, NEW n \in Modes, NEW a \in Ranks,
         SubGridAllReduce(n, Group(a, n))
  PROVE  ExactInv'
<1> DEFINE G == Group(a, n)
<1> SUFFICES ASSUME NEW r \in Ranks PROVE Exact(r)'
  BY DEF ExactInv
<1>0. TypeOK /\ (\A q \in Ranks : Exact(q)) /\ n \in Nat
  BY ModesType DEF TypeInv, ExactInv
<1>1. /\ \A p \in G : pc[p] = "reduce" /\ mode[p] = n /\ mode'[p] = n + 1
      /\ \A p \in Ranks \ G : wire'[p] = wire[p] /\ mode'[p] = mode[p]
      /\ \A p \in G : wire'[p] = [wire[p] EXCEPT ![n] = UNION {wire[x][n] : x \in G}]
      /\ UNCHANGED <<setup, curve, pc, epoch, iter, u, meta, best, stepper, metaStepper,
                     fest, prev>>
      /\ G \subseteq Ranks
  BY DEF SubGridAllReduce, Group
<1>2. r \in G => G = Group(r, n)
  BY DEF Group
<1> HIDE DEF G
<1>3. PassedBefore(r)' = PassedBefore(r)
  BY <1>1, PassedKept
<1>4. CASE r \notin G
  <2>1. Unmoved(r) /\ stepper'[r] = stepper[r]
    BY <1>1, <1>4 DEF Unmoved
  <2> QED
    BY <1>0, <1>3, <2>1, UnmovedExact
<1>5. CASE r \in G
  <2>0. pc[r] = "reduce" /\ mode[r] = n /\ mode'[r] = n + 1 /\ pc'[r] = "reduce" /\ Exact(r)
    BY <1>0, <1>1, <1>5
  <2>1. Stepped(r)' = Stepped(r)
    BY <1>1 DEF Stepped, Syncs
  <2>2. Covered(r)' = Covered(r)
    BY <2>1 DEF Covered
  <2>3. Own(r)' = Own(r) /\ New(r)' = New(r) /\ Thin(r)' = Thin(r)
    BY <1>1, <2>2 DEF Own, New, Thin
  <2>4. Rates(r)'
    BY <1>1, <2>0, <2>1, <2>3 DEF Exact, Rates
  <2>5. ASSUME NEW k \in Modes
        PROVE  /\ Whole(r, k)' = Whole(r, k) /\ All(r, k)' = All(r, k)
               /\ WholeModel(PassedBefore(r), r, k)' = WholeModel(PassedBefore(r), r, k)
    BY <1>1, <1>3, <2>2 DEF Whole, All, Group, WholeModel
  <2>6. wire[r] \in [Modes -> SUBSET ({NaN} \cup (Ranks \X Int \X Int))]
    BY <1>0, RankTypes DEF Blocks
  <2>7. ASSUME NEW k \in Modes, k # n PROVE ExactBlock(r, k)'
    <3>1. wire'[r][k] = wire[r][k] /\ (mode'[r] > k <=> mode[r] > k)
      <4>1. k \in Nat
        BY ModesType
      <4>2. wire'[r][k] = wire[r][k]
        BY <1>1, <1>5, <2>6, <2>7
      <4> QED
        BY <1>0, <2>0, <2>7, <4>1, <4>2
    <3>2. Guess(r, k)' = Guess(r, k)
      BY <1>1, <3>1 DEF Guess, Group
    <3>3. Memory(r, k)' = Memory(r, k)
      BY <1>1, <2>3, <2>5 DEF Memory
    <3>4. Averages(r, k)' = Averages(r, k)
      BY <1>1, <2>3, <2>5, <3>1 DEF Averages
    <3>5. MetaModel(r, k)' = MetaModel(r, k)
      BY <1>1, <2>1, <2>2, <2>3, <2>5, <3>1 DEF MetaModel, Group
    <3> QED
      BY <1>1, <2>0, <3>2, <3>3, <3>4, <3>5 DEF Exact, ExactBlock
  <2>8. ExactBlock(r, n)'
    <3>0. ExactBlock(r, n) /\ mode'[r] > n /\ ~(mode[r] > n)
      BY <1>0, <2>0 DEF Exact
    <3>1. wire'[r][n] = UNION {wire[x][n] : x \in G}
      BY <1>1, <1>5, <2>6, ZenonT(30)
    <3>2. ASSUME NEW q \in G
          PROVE  /\ q \in Ranks /\ pc[q] = "reduce" /\ ~(mode[q] > n) /\ epoch[q] = epoch[r]
                 /\ iter[q] = iter[r] /\ ExactBlock(q, n) /\ Stepped(q) = Stepped(r)
                 /\ Covered(q) = Covered(r) /\ PassedBefore(q) = PassedBefore(r)
                 /\ Group(q, n) = G
      <4>1. q \in Ranks /\ pc[q] = "reduce" /\ mode[q] = n /\ q \in Group(r, n) /\ Group(q, n) = G
        BY <1>1, <1>2, <1>5 DEF G, Group
      <4>2. epoch[r] = epoch[q] /\ iter[r] = iter[q]
        BY <1>1, <1>5, <4>1, SameIteration
      <4>3. Stepped(q) = Stepped(r)
        BY <2>0, <4>1, <4>2 DEF Stepped
      <4>4. Covered(q) = Covered(r) /\ PassedBefore(q) = PassedBefore(r)
        BY <4>2, <4>3 DEF Covered, PassedBefore
      <4> QED
        BY <1>0, <4>1, <4>2, <4>3, <4>4 DEF Exact
    <3>3. epoch[r] = 0 => Guess(r, n)'
      <4> SUFFICES ASSUME epoch[r] = 0 PROVE Guess(r, n)'
        OBVIOUS
      <4>1. \A q \in G : wire[q][n] = Steps({q}, 0, {0})
        BY <3>2 DEF ExactBlock, Guess
      <4>2. wire'[r][n] = Steps(G, 0, {0})
        BY <3>1, <4>1 DEF Steps
      <4>3. Guess(r, n)
        BY <3>0 DEF ExactBlock
      <4> QED
        BY <1>1, <1>2, <1>5, <2>0, <3>0, <4>2, <4>3 DEF Guess, Group
    <3>4. Memory(r, n)' = Memory(r, n)
      BY <1>1, <2>3, <2>5 DEF Memory
    <3>5. ASSUME epoch[r] > 0, NEW q \in G
          PROVE  /\ Whole(q, n) = Whole(r, n) /\ best[r][n] \subseteq Whole(r, n)
                 /\ Own(q) = Steps({q}, epoch[r], 1 .. iter[r])
                 /\ New(q) = Steps({q}, epoch[r], (1 .. iter[r]) \ Covered(r))
                 /\ Group(r, n) = G
      <4>1. best[q][n] = best[r][n]
        <5>1. Memory(q, n) /\ Memory(r, n)
          BY <1>5, <3>2, <3>5 DEF ExactBlock
        <5>2. WholeModel(PassedBefore(q), q, n) = WholeModel(PassedBefore(r), r, n)
          BY <1>5, <3>2 DEF WholeModel
        <5> QED
          BY <5>1, <5>2 DEF Memory
      <4> QED
        BY <1>5, <3>2, <4>1 DEF Whole, Own, New
    <3> DEFINE Old == 1 .. iter[r]
               Fresh == Old \ Covered(r)
    <3>6. /\ All(r, n) = best[r][n] \cup Steps(Group(r, n), epoch[r], Old)
          /\ Whole(r, n) = best[r][n] \cup Steps(Group(r, n), epoch[r], Covered(r))
      BY DEF All, Whole
    <3>7. epoch[r] > 0 => Steps(Group(r, n), epoch[r], Covered(r))
                            \subseteq Steps(Group(r, n), epoch[r], Old)
      <4>1. Covered(r) \subseteq Old
        BY <1>0, <2>0, StaleCovers DEF Old
      <4> QED
        BY <4>1 DEF Steps
    <3> HIDE DEF Old, Fresh
    <3>8. ASSUME epoch[r] > 0, setup.method = "avg" PROVE Averages(r, n)'
      <4>1. \A q \in G : wire[q][n] = Whole(r, n) \cup Steps({q}, epoch[r], Old)
        BY <3>2, <3>5, <3>8 DEF ExactBlock, Averages, Old
      <4>2. UNION {wire[q][n] : q \in G} = Whole(r, n) \cup Steps(G, epoch[r], Old)
        BY <1>5, <4>1 DEF Steps
      <4>3. wire'[r][n] = All(r, n)
        BY <1>2, <1>5, <3>1, <3>6, <3>7, <3>8, <4>2
      <4>4. Averages(r, n)
        BY <3>0, <3>8 DEF ExactBlock
      <4> QED
        BY <1>1, <2>3, <2>5, <3>0, <4>3, <4>4 DEF Averages
    <3>9. ASSUME epoch[r] > 0, setup.method = "opt", NaN \notin meta[r][n] PROVE MetaModel(r, n)'
      <4>0. MetaModel(r, n)
        BY <3>0, <3>9 DEF ExactBlock
      <4>1. ASSUME NEW q \in G PROVE NaN \notin meta[q][n]
        <5>1. q \in Group(r, n) /\ ~Applied(r, n) /\ ~Applied(q, n)
          BY <1>2, <1>5, <3>0, <3>2 DEF Applied
        <5>2. meta[r][n] = meta[q][n]
          BY <2>0, <3>2, <5>1 DEF AgreeInv, Agree, NextMeta, TakesMetaStep
        <5> QED
          BY <3>9, <5>2
      <4>2. ASSUME NEW q \in G
            PROVE  /\ Steps({q}, epoch[r], Fresh) \subseteq wire[q][n]
                   /\ wire[q][n] \subseteq Whole(r, n) \cup Steps({q}, epoch[r], Old)
        <5>1. MetaModel(q, n)
          BY <3>2, <3>9, <4>1 DEF ExactBlock
        <5> QED
          BY <3>2, <3>5, <3>9, <5>1 DEF MetaModel, Old, Fresh
      <4>3. /\ Steps(G, epoch[r], Fresh) \subseteq wire'[r][n]
            /\ wire'[r][n] \subseteq Whole(r, n) \cup Steps(G, epoch[r], Old)
        BY <3>1, <4>2 DEF Steps
      <4>4. wire'[r][n] \subseteq All(r, n)
        BY <1>2, <1>5, <3>6, <3>7, <3>9, <4>3
      <4>5. /\ Steps(Group(r, n), epoch[r], Fresh)' = Steps(G, epoch[r], Fresh)
            /\ Fresh' = ((1 .. iter[r]) \ Covered(r))'
        BY <1>1, <1>2, <1>5, <2>2 DEF Steps, Group, Old, Fresh
      <4> QED
        BY <1>1, <2>0, <2>1, <2>3, <2>5, <3>0, <4>0, <4>3, <4>4, <4>5 DEF MetaModel
    <3> QED
      BY <1>1, <3>0, <3>3, <3>4, <3>8, <3>9 DEF ExactBlock
  <2> QED
    BY <2>4, <2>7, <2>8 DEF Exact
<1> QED
  BY <1>4, <1>5

LEMMA SyncsAfterZero ==
  Syncs' = Syncs /\ \A j \in Syncs : j # 0 /\ ~(j < 0)
<1>1. Syncs' = Syncs
  BY DEF Syncs
<1>2. \A j \in Syncs : j \in 1 .. EpochIters
  BY SyncsType
<1> QED
  BY <1>1, <1>2

\* An epoch begins with the model of the epochs that passed.
LEMMA FreshEpoch ==
  ASSUME NEW r \in Ranks, epoch'[r] \in Nat, epoch'[r] # 0, iter'[r] = 0, pc'[r] # "reduce",
         setup.method \in {"avg", "opt"}, setup' = setup, Rates(r)',
         \A n \in Modes :
           /\ best'[r][n] = WholeModel(PassedBefore(r)', r, n)
           /\ u'[r][n] = best'[r][n]
           /\ stepper'[r].m[n] \subseteq best'[r][n] /\ stepper'[r].mPrev[n] \subseteq best'[r][n]
           /\ setup.method = "opt" => /\ meta'[r][n] = best'[r][n]
                                      /\ metaStepper'[r].m[n] \subseteq best'[r][n]
                                      /\ metaStepper'[r].mPrev[n] \subseteq best'[r][n]
  PROVE  Exact(r)'
<1>1. Stepped(r)' = {}
  BY SyncsAfterZero DEF Stepped
<1>2. Covered(r)' = {}
  BY <1>1 DEF Covered
<1>3. Own(r)' = {} /\ New(r)' = {}
  BY DEF Own, New, Steps
<1>4. ASSUME NEW n \in Modes PROVE ExactBlock(r, n)'
  <2>1. Whole(r, n)' = best'[r][n]
    BY <1>2 DEF Whole, Steps
  <2>2. WholeModel(PassedBefore(r), r, n)' = WholeModel(PassedBefore(r)', r, n)
    BY DEF WholeModel, Group
  <2>3. Memory(r, n)'
    BY <1>3, <2>2 DEF Memory
  <2>4. setup.method = "avg" => Averages(r, n)'
    BY <1>3, <2>1 DEF Averages
  <2>5. setup.method = "opt" => MetaModel(r, n)'
    BY <1>3, <2>1 DEF MetaModel
  <2> QED
    BY <2>3, <2>4, <2>5 DEF ExactBlock
<1> QED
  BY <1>4 DEF Exact

LEMMA StartExact ==
  ASSUME TypeInv, DecisionInv, CurveInv, NEW r \in Ranks, Exact(r), Start(r) PROVE Exact(r)'
<1>0. TypeOK /\ Place(r) /\ Decides(r) /\ setup.method \in {"avg", "opt"}
  BY VerdictsAreDecisions, FedOptAssumption DEF TypeInv, TypeOK
<1>1. /\ pc[r] = "judge" /\ pc'[r] # "reduce" /\ iter'[r] = 0 /\ iter[r] = 0 /\ epoch[r] = 0
        /\ epoch'[r] = 1
      /\ UNCHANGED <<setup, curve, iter, u, meta, best, stepper, metaStepper>>
  BY <1>0 DEF Start, TypeOK, Place
<1>2. PassedBefore(r)' = {0}
  <2>1. PassedBefore(r) = {} /\ ~Fails(r)
    BY <1>1, PassedType DEF Fails
  <2> QED
    BY <1>0, <1>1, <2>1, PassedAtVerdict
<1>3. Rates(r)'
  <2>1. Stepped(r)' = {}
    BY <1>1, SyncsAfterZero DEF Stepped
  <2> QED
    BY <1>1, <2>1 DEF Exact, Rates
<1>4. ASSUME NEW n \in Modes
      PROVE  /\ best'[r][n] = WholeModel(PassedBefore(r)', r, n)
             /\ u'[r][n] = best'[r][n] /\ meta'[r][n] = best'[r][n]
             /\ stepper'[r].m[n] = {} /\ stepper'[r].mPrev[n] = {}
             /\ metaStepper'[r].m[n] = {} /\ metaStepper'[r].mPrev[n] = {}
  <2>1. Guess(r, n)
    BY <1>1 DEF Exact, ExactBlock
  <2>2. WholeModel({0}, r, n) = Steps(Group(r, n), 0, {0})
    BY DEF WholeModel, Steps
  <2> QED
    BY <1>1, <1>2, <2>1, <2>2 DEF Guess
<1>5. epoch'[r] \in Nat /\ epoch'[r] # 0
  BY <1>1
<1> QED
  BY <1>0, <1>1, <1>3, <1>4, <1>5, FreshEpoch

\* The last synchronisation of an epoch covers all of it, and unless it was the first one
\* as well, the meta model holds what the moments hold.
LEMMA EpochIsWhole ==
  ASSUME Rounds, TypeInv, NEW r \in Ranks, Trace(r), Exact(r), pc[r] = "judge", epoch[r] > 0,
         fest[r] # NaN, NEW n \in Modes
  PROVE  /\ u[r][n] = best[r][n] \cup Steps(Group(r, n), epoch[r], 1 .. EpochIters)
         /\ Own(r) \subseteq u[r][n]
         /\ setup.method = "opt" => meta[r][n] = u[r][n] /\ metaStepper[r].m[n] \subseteq u[r][n]
<1>0. /\ TypeOK /\ Place(r) /\ iter[r] = EpochIters /\ setup \in Setups
      /\ setup.method \in {"avg", "opt"} /\ EpochIters \in Nat \ {0} /\ DpIters \in Nat
  BY FedOptAssumption DEF TypeInv, TypeOK, Place
<1>1. Stepped(r) = Syncs /\ EpochIters \in Stepped(r)
  <2>1. ASSUME NEW j \in Syncs PROVE j < EpochIters \/ j = EpochIters
    <3>1. j \in Int /\ j <= EpochIters
      BY SyncsType
    <3>2. EpochIters \in Int
      BY <1>0
    <3> QED
      BY <3>1, <3>2
  <2> QED
    BY <1>0, <2>1, SyncsType DEF Stepped
<1>2. Covered(r) = 1 .. EpochIters
  BY <1>0, <1>1 DEF Covered
<1>3. Own(r) \subseteq Whole(r, n)
  BY <1>0, <1>2 DEF Own, Whole, Steps, Group
<1>4. Whole(r, n) = best[r][n] \cup Steps(Group(r, n), epoch[r], 1 .. EpochIters)
  BY <1>2 DEF Whole
<1>5. CASE setup.method = "avg"
  <2>1. Averages(r, n)
    BY <1>5 DEF Exact, ExactBlock
  <2> QED
    BY <1>3, <1>4, <1>5, <2>1 DEF Averages
<1>6. CASE setup.method = "opt"
  <2>1. Clean(meta[r]) /\ u[r] = meta[r]
    BY <1>6, JudgedTrace DEF Trace, TraceOfEpoch, Judges
  <2>2. MetaModel(r, n)
    BY <1>6, <2>1 DEF Exact, ExactBlock, Clean
  <2>3. ~Thin(r)
    <3>1. Rates(r)
      BY DEF Exact
    <3>2. Thin(r) => EpochIters <= DpIters
      BY <1>1, <1>6, <3>1 DEF Rates
    <3>3. Thin(r) => DpIters < EpochIters
      BY <1>0, <1>6, <3>1 DEF Rates, Thin, Rounds
    <3> QED
      BY <1>0, <3>2, <3>3
  <2> QED
    BY <1>3, <1>4, <1>6, <2>1, <2>2, <2>3 DEF MetaModel
<1> QED
  BY <1>0, <1>5, <1>6

LEMMA PassExact ==
  ASSUME Rounds, TypeInv, DecisionInv, CurveInv, NEW r \in Ranks, Trace(r), Exact(r), Pass(r)
  PROVE  Exact(r)'
<1>0. /\ TypeOK /\ Place(r) /\ Decides(r) /\ setup.method \in {"avg", "opt"} /\ epoch[r] \in Nat
      /\ stepper[r] \in StepperType /\ metaStepper[r] \in StepperType
  BY VerdictsAreDecisions, FedOptAssumption, RankTypes DEF TypeInv, TypeOK
<1>1. /\ pc[r] = "judge" /\ epoch[r] > 0 /\ fest[r] # NaN /\ ~Fails(r)
      /\ UNCHANGED <<setup, curve, meta>> /\ pc'[r] # "reduce" /\ iter'[r] = 0
      /\ epoch'[r] = epoch[r] + 1 /\ u'[r] = u[r] /\ best'[r] = u[r]
      /\ stepper'[r] = SetPassed(stepper[r]) /\ metaStepper'[r] = SetPassed(metaStepper[r])
  BY <1>0 DEF Pass, EpochEnds, TypeOK, FailedEpoch, Fails
<1>2. PassedBefore(r)' = PassedBefore(r) \cup {epoch[r]}
  BY <1>0, <1>1, PassedAtVerdict
<1>3. Rates(r)'
  <2>1. Stepped(r)' = {}
    BY <1>1, SyncsAfterZero DEF Stepped
  <2>2. /\ metaStepper'[r].kind = metaStepper[r].kind /\ metaStepper'[r].step = metaStepper[r].step
        /\ metaStepper'[r].rate = metaStepper[r].rate
    BY <1>0, <1>1 DEF SetPassed, StepperType
  <2> QED
    BY <1>1, <2>1, <2>2 DEF Exact, Rates
<1>4. ASSUME NEW n \in Modes
      PROVE  /\ best'[r][n] = WholeModel(PassedBefore(r)', r, n) /\ u'[r][n] = best'[r][n]
             /\ stepper'[r].m[n] \subseteq best'[r][n] /\ stepper'[r].mPrev[n] \subseteq best'[r][n]
             /\ setup.method = "opt" => /\ meta'[r][n] = best'[r][n]
                                        /\ metaStepper'[r].m[n] \subseteq best'[r][n]
                                        /\ metaStepper'[r].mPrev[n] \subseteq best'[r][n]
  <2>1. /\ u[r][n] = best[r][n] \cup Steps(Group(r, n), epoch[r], 1 .. EpochIters)
        /\ Own(r) \subseteq u[r][n]
        /\ setup.method = "opt" => meta[r][n] = u[r][n] /\ metaStepper[r].m[n] \subseteq u[r][n]
    BY <1>1, EpochIsWhole
  <2>2. Memory(r, n)
    BY <1>1 DEF Exact, ExactBlock
  <2>3. WholeModel(PassedBefore(r)', r, n) = u[r][n]
    <3>1. epoch[r] # 0
      BY <1>0, <1>1
    <3>2. WholeModel(PassedBefore(r) \cup {epoch[r]}, r, n)
            = WholeModel(PassedBefore(r), r, n) \cup Steps(Group(r, n), epoch[r], 1 .. EpochIters)
      BY <3>1 DEF WholeModel, Steps
    <3>3. best[r][n] = WholeModel(PassedBefore(r), r, n)
      BY <2>2 DEF Memory
    <3> QED
      BY <1>2, <2>1, <3>2, <3>3
  <2>4. /\ stepper'[r].m = stepper[r].m /\ stepper'[r].mPrev \in {stepper[r].m, stepper[r].mPrev}
        /\ metaStepper'[r].m = metaStepper[r].m
        /\ metaStepper'[r].mPrev \in {metaStepper[r].m, metaStepper[r].mPrev}
    BY <1>0, <1>1, VerdictContents
  <2>5. /\ stepper[r].m[n] \subseteq u[r][n] /\ stepper[r].mPrev[n] \subseteq u[r][n]
        /\ setup.method = "opt" => metaStepper[r].mPrev[n] \subseteq u[r][n]
    BY <2>1, <2>2 DEF Memory
  <2> QED
    BY <1>1, <2>1, <2>3, <2>4, <2>5
<1>5. epoch'[r] \in Nat /\ epoch'[r] # 0
  BY <1>0, <1>1
<1> QED
  BY <1>0, <1>1, <1>3, <1>4, <1>5, FreshEpoch

LEMMA FailExact ==
  ASSUME TypeInv, DecisionInv, CurveInv, NEW r \in Ranks, Trace(r), Exact(r), Fail(r)
  PROVE  Exact(r)'
<1>0. /\ TypeOK /\ Place(r) /\ Decides(r) /\ setup.method \in {"avg", "opt"} /\ epoch[r] \in Nat
      /\ stepper[r] \in StepperType /\ metaStepper[r] \in StepperType
  BY VerdictsAreDecisions, FedOptAssumption, RankTypes DEF TypeInv, TypeOK
<1>1. /\ pc[r] = "judge" /\ epoch[r] > 0 /\ Fails(r)
      /\ UNCHANGED <<setup, curve, best>> /\ pc'[r] # "reduce" /\ iter'[r] = 0
      /\ epoch'[r] = epoch[r] + 1 /\ u'[r] = best[r] /\ meta'[r] = best[r]
      /\ stepper'[r] = SetFailed(stepper[r]) /\ metaStepper'[r] = SetFailed(metaStepper[r])
  BY <1>0 DEF Fail, EpochEnds, TypeOK, Fails
<1>2. PassedBefore(r)' = PassedBefore(r)
  BY <1>0, <1>1, PassedAtVerdict
<1>3. Rates(r)'
  <2>1. Stepped(r)' = {}
    BY <1>1, SyncsAfterZero DEF Stepped
  <2>2. /\ metaStepper'[r].kind = metaStepper[r].kind /\ metaStepper'[r].step = metaStepper[r].step
        /\ metaStepper'[r].rate = metaStepper[r].rate
    <3>1. metaStepper[r].kind \in Steppers
      BY <1>0 DEF StepperType
    <3> QED
      BY <1>0, <1>1, <3>1 DEF SetFailed, StepperType, Steppers
  <2> QED
    BY <1>1, <2>1, <2>2 DEF Exact, Rates
<1>4. ASSUME NEW n \in Modes
      PROVE  /\ best'[r][n] = WholeModel(PassedBefore(r)', r, n) /\ u'[r][n] = best'[r][n]
             /\ stepper'[r].m[n] \subseteq best'[r][n] /\ stepper'[r].mPrev[n] \subseteq best'[r][n]
             /\ meta'[r][n] = best'[r][n]
             /\ setup.method = "opt" => /\ metaStepper'[r].m[n] \subseteq best'[r][n]
                                        /\ metaStepper'[r].mPrev[n] \subseteq best'[r][n]
  <2>1. Memory(r, n)
    BY <1>1 DEF Exact, ExactBlock
  <2>2. \A s \in {stepper[r], metaStepper[r]} :
          s \in StepperType /\ (s.kind = "sgd" => s.m[n] = {})
    BY <1>0 DEF Trace, TraceOfSteppers, Empty
  <2>3. \A s \in {stepper[r], metaStepper[r]} :
          SetFailed(s).m[n] \subseteq s.mPrev[n] /\ SetFailed(s).mPrev = s.mPrev
    BY <2>2, VerdictContents DEF Empty
  <2> QED
    BY <1>1, <1>2, <2>1, <2>3 DEF Memory
<1>5. epoch'[r] \in Nat /\ epoch'[r] # 0
  BY <1>0, <1>1
<1> QED
  BY <1>0, <1>1, <1>3, <1>4, <1>5, FreshEpoch

LEMMA ExactStep ==
  ASSUME Rounds, Inv, MetInv, AgreeInv, TraceInv, ExactInv, [Next]_vars PROVE ExactInv'
<1>0. /\ TypeInv /\ TypeOK /\ DecisionInv /\ CurveInv
      /\ \A r \in Ranks : Trace(r) /\ Exact(r)
  BY DEF Inv, TypeInv, TraceInv, ExactInv
<1>1. ASSUME NEW r \in Ranks,
             \/ LocalStep(r) \/ Averaged(r) \/ MetaStep(r) \/ Evaluate(r)
             \/ Start(r) \/ Pass(r) \/ Fail(r)
      PROVE  ExactInv'
  <2>1. UNCHANGED curve
    BY <1>1 DEF LocalStep, Averaged, MetaStep, Evaluate, Start, Pass, Fail, EpochEnds
  <2>2. Exact(r)'
    <3>1. CASE Evaluate(r)
      <4>1. /\ pc[r] = "value" /\ pc'[r] = "grid"
            /\ UNCHANGED <<setup, epoch, iter, mode, u, meta, best, wire, stepper, metaStepper>>
        BY <1>0, <3>1 DEF Evaluate, TypeOK
      <4>2. PassedBefore(r)' = PassedBefore(r)
        BY <2>1, <4>1, PassedKept
      <4> QED
        BY <1>0, <4>1, <4>2, EstimatesExact
    <3> QED
      BY <1>0, <1>1, <3>1, LocalStepExact, AveragedExact, MetaStepExact, StartExact, PassExact,
         FailExact
  <2>3. ASSUME NEW q \in Ranks \ {r} PROVE Unmoved(q) /\ stepper'[q] = stepper[q]
    <3>1. CASE LocalStep(r) \/ Averaged(r) \/ MetaStep(r) \/ Evaluate(r)
      BY <1>0, <3>1 DEF TypeOK, Unmoved, LocalStep, Averaged, MetaStep, Evaluate
    <3>2. CASE Start(r) \/ Pass(r) \/ Fail(r)
      BY <1>0, <3>2 DEF TypeOK, Unmoved, Start, Pass, Fail, EpochEnds
    <3> QED
      BY <1>1, <3>1, <3>2
  <2>4. ASSUME NEW q \in Ranks \ {r} PROVE Exact(q)'
    <3>1. PassedBefore(q)' = PassedBefore(q)
      BY <2>1, <2>3, PassedKept DEF Unmoved
    <3> QED
      BY <1>0, <2>3, <3>1, UnmovedExact
  <2> QED
    BY <2>2, <2>4 DEF ExactInv
<1>2. CASE GridAllReduce
  <2>1. ASSUME NEW r \in Ranks PROVE Exact(r)'
    <3>1. /\ pc[r] = "grid" /\ pc'[r] = "judge" /\ PassedBefore(r)' = PassedBefore(r)
          /\ UNCHANGED <<setup, epoch, iter, mode, u, meta, best, wire, stepper, metaStepper>>
      BY <1>0, <1>2, PassedAtReduce DEF GridAllReduce
    <3> QED
      BY <1>0, <3>1, EstimatesExact
  <2> QED
    BY <2>1 DEF ExactInv
<1>3. CASE UNCHANGED vars
  <2>1. ASSUME NEW q \in Ranks PROVE Exact(q)'
    <3>1. Unmoved(q) /\ stepper'[q] = stepper[q] /\ UNCHANGED curve
      BY <1>3 DEF vars, Unmoved
    <3>2. PassedBefore(q)' = PassedBefore(q)
      BY <3>1, PassedKept DEF Unmoved
    <3> QED
      BY <1>0, <3>1, <3>2, UnmovedExact
  <2> QED
    BY <2>1 DEF ExactInv
<1> QED
  BY <1>0, <1>1, <1>2, <1>3, SubGridExact DEF Next

LEMMA ExactInvImplies == Inv /\ TraceInv /\ ExactInv => ModelIsWhole
<1> SUFFICES ASSUME Inv, TraceInv, ExactInv, NEW r \in Ranks, pc[r] = "done", NEW n \in Modes
             PROVE  u[r][n] = WholeModel(PassedBefore(r), r, n)
  BY DEF ModelIsWhole
<1>0. /\ TypeOK /\ Place(r) /\ Trace(r) /\ iter[r] = 0 /\ epoch[r] \in Nat /\ epoch[r] # 0
      /\ setup.method \in {"avg", "opt"} /\ ExactBlock(r, n) /\ epoch[r] > 0
  <2>1. TypeOK /\ Place(r) /\ Trace(r) /\ ExactBlock(r, n)
    BY DEF Inv, TypeInv, TraceInv, ExactInv, Exact
  <2>2. epoch[r] \in Nat
    BY <2>1, RankTypes
  <2>3. iter[r] = 0 /\ epoch[r] # 0
    BY <2>1 DEF Place
  <2>4. setup.method \in {"avg", "opt"}
    BY <2>1, FedOptAssumption DEF TypeOK
  <2> QED
    BY <2>1, <2>2, <2>3, <2>4
<1>1. Stepped(r) = {} /\ Own(r) = {} /\ Whole(r, n) = best[r][n]
  <2>1. Stepped(r) = {}
    BY <1>0, SyncsAfterZero DEF Stepped
  <2> QED
    BY <1>0, <2>1 DEF Own, Whole, Covered, Steps
<1>2. best[r][n] = WholeModel(PassedBefore(r), r, n)
  BY <1>0 DEF ExactBlock, Memory
<1>3. CASE setup.method = "avg"
  BY <1>0, <1>1, <1>2, <1>3 DEF ExactBlock, Averages
<1>4. CASE setup.method = "opt"
  <2>1. Clean(meta[r])
    BY <1>0 DEF Trace, TraceOfBlocks
  <2>2. MetaModel(r, n)
    BY <1>0, <1>4, <2>1 DEF ExactBlock, Clean
  <2> QED
    BY <1>1, <1>2, <2>2 DEF MetaModel
<1> QED
  BY <1>0, <1>3, <1>4

AllInv == Inv /\ MetInv /\ AgreeInv /\ TraceInv /\ ExactInv

LEMMA AllInit == Init => AllInv
BY InvInit, MetInit, AgreeInit, TraceInit, ExactInit DEF AllInv

LEMMA AllStep == ASSUME Rounds, AllInv, [Next]_vars PROVE AllInv'
BY InvStep, MetStep, AgreeStep, TraceStep, ExactStep DEF AllInv

\* On every grid that synchronises more than once in an epoch, or does not use ADAM as meta
\* stepper: the model returned holds every step of every rank in every epoch that passed,
\* in every block, and no other.
THEOREM FinalModelIsWhole == ASSUME Rounds PROVE Spec => []ModelIsWhole
<1>1. AllInv /\ [Next]_vars => AllInv'
  BY AllStep
<1>2. AllInv => ModelIsWhole
  BY ExactInvImplies DEF AllInv
<1> QED
  BY <1>1, <1>2, AllInit, PTL DEF Spec

-----------------------------------------------------------------------------
(* The refinement.  The rank that is last to decide stands for all: whichever of the     *)
(* ranks in its epoch is chosen, the abstract state is the same.                           *)

View(r) == <<epoch[r], PassedBefore(r), prev[r], nfails[r], pc[r] = "done">>

KeptBy(r) == IF epoch[r] = 0 THEN {} ELSE {x[2] : x \in best[r][1]}

LEMMA KeptAreThePassed ==
  ASSUME Inv, ExactInv, NEW r \in Ranks PROVE KeptBy(r) = PassedBefore(r)
<1>0. TypeInv /\ CurveInv /\ 1 \in Modes /\ epoch[r] \in Nat
  BY RankTypes, FedOptAssumption DEF Inv, TypeInv, Modes
<1>1. CASE epoch[r] = 0
  BY <1>0, <1>1, PassedType DEF KeptBy
<1>2. CASE epoch[r] # 0
  <2>1. best[r][1] = WholeModel(PassedBefore(r), r, 1) /\ 0 \in PassedBefore(r)
    BY <1>0, <1>2, PassedType DEF ExactInv, Exact, ExactBlock, Memory
  <2>2. r \in Group(r, 1) /\ 1 \in 1 .. EpochIters
    BY FedOptAssumption DEF Group
  <2>3. ASSUME NEW x \in best[r][1] PROVE x[2] \in PassedBefore(r)
    BY <2>1 DEF WholeModel
  <2>4. ASSUME NEW e \in PassedBefore(r) PROVE \E x \in best[r][1] : e = x[2]
    <3>1. e = 0 => <<r, 0, 0>> \in best[r][1] /\ <<r, 0, 0>>[2] = e
      BY <2>1, <2>2 DEF WholeModel
    <3>2. e # 0 => <<r, e, 1>> \in best[r][1] /\ <<r, e, 1>>[2] = e
      BY <2>1, <2>2, <2>4 DEF WholeModel
    <3> QED
      BY <3>1, <3>2
  <2> QED
    BY <1>2, <2>3, <2>4 DEF KeptBy
<1> QED
  BY <1>1, <1>2

LEMMA SlowestIsLeast ==
  ASSUME DecisionInv
  PROVE  Slowest \in Ranks /\ \A q \in Ranks : epoch[Slowest] <= epoch[q]
<1>1. PICK p : p \in Ranks
  <2>1. \A n \in Modes : Grid[n] \in Nat \ {0}
    BY FedOptAssumption DEF Modes
  <2>2. [n \in Modes |-> 0] \in Ranks
    BY <2>1 DEF Ranks
  <2> QED
    BY <2>2
<1>2. /\ \A q \in Ranks : epoch[q] \in Nat
      /\ \A r, q \in Ranks : epoch[r] <= epoch[q] + 1
  BY DEF DecisionInv, DecisionShape, Pair
<1>3. \E r \in Ranks : \A q \in Ranks : epoch[r] <= epoch[q]
  <2>1. CASE \E q \in Ranks : epoch[q] < epoch[p]
    <3>1. PICK q \in Ranks : epoch[q] < epoch[p]
      BY <2>1
    <3>2. \A x \in Ranks : epoch[q] <= epoch[x]
      <4> TAKE x \in Ranks
      <4>1. epoch[p] <= epoch[x] + 1 /\ epoch[p] \in Nat /\ epoch[q] \in Nat /\ epoch[x] \in Nat
        BY <1>1, <1>2
      <4> QED
        BY <3>1, <4>1
    <3> QED
      BY <3>2
  <2>2. CASE ~\E q \in Ranks : epoch[q] < epoch[p]
    BY <1>1, <1>2, <2>2
  <2> QED
    BY <2>1, <2>2
<1> QED
  BY <1>3 DEF Slowest

LEMMA SameView ==
  ASSUME DecisionInv, NEW r \in Ranks, NEW q \in Ranks, epoch[r] = epoch[q]
  PROVE  View(r) = View(q)
<1>1. Level(r, q)
  BY DEF DecisionInv, Pair
<1>2. (pc[r] = "done") = (pc[q] = "done") /\ PassedBefore(r) = PassedBefore(q)
  BY <1>1 DEF Level, PassedBefore
<1> QED
  BY <1>1, <1>2 DEF View, Level

\* One step of the ranks, seen from the slowest: nothing, or the verdict of the last rank.
LEMMA ViewStep ==
  ASSUME Inv, Inv', [Next]_vars
  PROVE  \/ View(Slowest)' = View(Slowest)
         \/ \E r \in Ranks : /\ Start(r) \/ Pass(r) \/ Fail(r)
                             /\ View(Slowest) = View(r) /\ View(Slowest)' = View(r)'
<1>0. /\ DecisionInv /\ DecisionInv' /\ TypeInv /\ TypeOK /\ CurveInv
      /\ Slowest \in Ranks /\ \A q \in Ranks : epoch[Slowest] <= epoch[q]
      /\ \A q \in Ranks : epoch[q] \in Nat
  BY SlowestIsLeast DEF Inv, TypeInv, DecisionInv, DecisionShape
<1>1. Slowest' \in Ranks /\ \A q \in Ranks : epoch'[Slowest'] <= epoch'[q]
  <2>1. (Slowest \in Ranks /\ \A q \in Ranks : epoch[Slowest] <= epoch[q])'
    BY <1>0, SlowestIsLeast, PTL
  <2> QED
    BY <2>1
<1>2. ASSUME NEW r \in Ranks, Start(r) \/ Pass(r) \/ Fail(r)
      PROVE  \/ View(Slowest)' = View(Slowest)
             \/ View(Slowest) = View(r) /\ View(Slowest)' = View(r)'
  <2>1. Decides(r) /\ UNCHANGED curve
    BY <1>0, <1>2, VerdictsAreDecisions DEF Start, Pass, Fail, EpochEnds
  <2>2. /\ pc[r] = "judge" /\ epoch'[r] = epoch[r] + 1
        /\ \A q \in Ranks \ {r} : /\ epoch'[q] = epoch[q] /\ prev'[q] = prev[q]
                                  /\ nfails'[q] = nfails[q] /\ pc'[q] = pc[q]
    BY <1>0, <2>1 DEF Decides, TypeOK
  <2>3. epoch[r] = epoch[Slowest]
    <3>1. /\ epoch[r] <= epoch[Slowest] + 1 /\ epoch[Slowest] <= epoch[r]
          /\ epoch[r] \in Nat /\ epoch[Slowest] \in Nat
      BY <1>0 DEF DecisionInv, Pair
    <3>2. epoch[r] # epoch[Slowest] + 1
      BY <1>0, <2>2 DEF DecisionInv, Pair, Ahead
    <3> QED
      BY <3>1, <3>2
  <2>4. View(Slowest) = View(r)
    BY <1>0, <2>3, SameView
  <2>5. PICK s \in Ranks : s = Slowest'
    BY <1>1
  <2>6. View(Slowest)' = View(s)'
    BY <2>5 DEF View, PassedBefore
  <2>7. CASE epoch'[s] = epoch[Slowest]
    <3>1. s # r /\ epoch[s] = epoch[Slowest]
      BY <1>0, <2>2, <2>3, <2>7
    <3>2. PassedBefore(s)' = PassedBefore(s)
      BY <2>1, <2>2, <3>1, PassedKept
    <3>3. View(s)' = View(s)
      BY <2>2, <3>1, <3>2 DEF View
    <3>4. View(s) = View(Slowest)
      BY <1>0, <3>1, SameView
    <3> QED
      BY <2>6, <3>3, <3>4
  <2>8. CASE epoch'[s] # epoch[Slowest]
    <3>1. epoch'[s] = epoch'[r]
      <4>1. /\ epoch[Slowest] \in Nat /\ epoch[s] \in Nat /\ epoch[Slowest] <= epoch[s]
            /\ epoch'[s] <= epoch'[r] /\ (s # r => epoch'[s] = epoch[s])
        BY <1>0, <1>1, <2>2, <2>5
      <4> QED
        BY <2>2, <2>3, <2>8, <4>1
    <3>2. Level(s, r)'
      BY <1>0, <3>1 DEF DecisionInv, Pair
    <3>3. View(s)' = View(r)'
      <4>1. (pc'[s] = "done") = (pc'[r] = "done") /\ PassedBefore(s)' = PassedBefore(r)'
        BY <3>1, <3>2 DEF Level, PassedBefore
      <4> QED
        BY <3>1, <3>2, <4>1 DEF View, Level
    <3> QED
      BY <2>4, <2>6, <3>3
  <2> QED
    BY <2>7, <2>8
<1>3. PICK s \in Ranks : s = Slowest
  BY <1>0
<1>4. ASSUME UNCHANGED <<epoch, prev, nfails>>, pc'[s] = "done" <=> pc[s] = "done",
             PassedBefore(s)' = PassedBefore(s)
      PROVE  View(Slowest)' = View(Slowest)
  <2>1. Slowest' = s
    BY <1>3, <1>4 DEF Slowest
  <2>2. View(Slowest) = View(s) /\ View(Slowest)' = View(s)'
    BY <1>3, <2>1 DEF View, PassedBefore
  <2>3. (pc'[s] = "done") = (pc[s] = "done")
    BY <1>4
  <2> QED
    BY <1>4, <2>2, <2>3 DEF View
<1>5. ASSUME NEW r \in Ranks, LocalStep(r) \/ Averaged(r) \/ MetaStep(r) \/ Evaluate(r)
      PROVE  View(Slowest)' = View(Slowest)
  <2>1. /\ UNCHANGED <<epoch, prev, nfails, curve>> /\ pc[r] # "done"
        /\ \E c \in {"reduce", "iter", "value", "grid"} : pc' = [pc EXCEPT ![r] = c]
    BY <1>5 DEF LocalStep, Averaged, MetaStep, Evaluate, AfterSync
  <2>2. pc'[s] = "done" <=> pc[s] = "done"
    BY <1>0, <2>1 DEF TypeOK
  <2>3. PassedBefore(s)' = PassedBefore(s)
    BY <2>1, PassedKept
  <2> QED
    BY <1>4, <2>1, <2>2, <2>3
<1>6. ASSUME NEW n \in Modes, NEW r \in Ranks, SubGridAllReduce(n, Group(r, n))
      PROVE  View(Slowest)' = View(Slowest)
  <2>1. UNCHANGED <<epoch, prev, nfails, curve, pc>>
    BY <1>6 DEF SubGridAllReduce
  <2>2. PassedBefore(s)' = PassedBefore(s)
    BY <2>1, PassedKept
  <2> QED
    BY <1>4, <2>1, <2>2
<1>7. CASE GridAllReduce
  <2>1. UNCHANGED <<epoch, prev, nfails>> /\ pc[s] = "grid" /\ pc'[s] = "judge"
    BY <1>7 DEF GridAllReduce
  <2>2. PassedBefore(s)' = PassedBefore(s)
    BY <1>0, <1>7, PassedAtReduce
  <2> QED
    BY <1>4, <2>1, <2>2
<1>8. CASE UNCHANGED vars
  <2>1. UNCHANGED <<epoch, prev, nfails, curve, pc>>
    BY <1>8 DEF vars
  <2>2. PassedBefore(s)' = PassedBefore(s)
    BY <2>1, PassedKept
  <2> QED
    BY <1>4, <2>1, <2>2
<1> QED
  BY <1>2, <1>5, <1>6, <1>7, <1>8 DEF Next

LEMMA SoloVars ==
  ASSUME Inv, ExactInv
  PROVE  /\ epoch[Slowest] = View(Slowest)[1] /\ prev[Slowest] = View(Slowest)[3]
         /\ nfails[Slowest] = View(Slowest)[4] /\ (pc[Slowest] = "done") = View(Slowest)[5]
         /\ (IF epoch[Slowest] = 0 THEN {} ELSE {x[2] : x \in best[Slowest][1]}) = View(Slowest)[2]
<1>1. Slowest \in Ranks
  BY SlowestIsLeast DEF Inv
<1>2. KeptBy(Slowest) = PassedBefore(Slowest)
  BY <1>1, KeptAreThePassed
<1> QED
  BY <1>2 DEF View, KeptBy

LEMMA SoloInit == ASSUME Init, Inv PROVE Solo!Init
<1>1. Slowest \in Ranks
  BY SlowestIsLeast DEF Inv
<1> QED
  BY <1>1 DEF Init, Solo!Init

\* The verdict of a rank is an epoch of GCPSGD::solve.
LEMMA VerdictIsSolo ==
  ASSUME Inv, NEW r \in Ranks, Start(r) \/ Pass(r) \/ Fail(r),
         NEW w, w = View(r), NEW z, z = View(r)'
  PROVE  \/ /\ w[1] = 0 /\ ~w[5] /\ z[3] \in Totals \cup {NaN} /\ z[1] = 1 /\ z[2] = {0}
            /\ z[5] = (MaxEpochs = 0) /\ z[4] = w[4]
         \/ /\ w[1] > 0 /\ ~w[5] /\ z[3] \in Totals \cup {NaN} /\ ~FailedEpoch(z[3], w[3])
            /\ z[2] = w[2] \cup {w[1]} /\ z[1] = w[1] + 1 /\ z[4] = w[4]
            /\ z[5] = (w[4] > MaxFails \/ Greater(Tol, z[3]) \/ w[1] = MaxEpochs)
         \/ /\ w[1] > 0 /\ ~w[5] /\ \E v \in Totals \cup {NaN} : FailedEpoch(v, w[3])
            /\ z[2] = w[2] /\ z[3] = w[3] /\ z[1] = w[1] + 1 /\ z[4] = w[4] + 1
            /\ z[5] = (z[4] > MaxFails \/ Greater(Tol, w[3]) \/ w[1] = MaxEpochs)
<1>0. /\ TypeInv /\ TypeOK /\ CurveInv /\ Decides(r) /\ epoch[r] \in Nat /\ UNCHANGED curve
      /\ MaxEpochs \in Nat
  BY VerdictsAreDecisions, RankTypes DEF Inv, TypeInv, Start, Pass, Fail, EpochEnds
<1>1. /\ pc[r] = "judge" /\ epoch'[r] = epoch[r] + 1 /\ prev'[r] = PrevAfter(r)
      /\ nfails'[r] = FailsAfter(r) /\ (pc'[r] = "done") = StopsAfter(r)
  <2>1. pc'[r] = "done" <=> StopsAfter(r)
    BY <1>0 DEF Decides, TypeOK
  <2> QED
    BY <1>0, <2>1 DEF Decides, TypeOK, StopsAfter
<1>2. fest[r] \in Totals \cup {NaN}
  <2>1. fest[r] = curve[epoch[r] + 1] /\ Len(curve) = epoch[r] + 1
    BY <1>0, <1>1 DEF CurveInv, Curve
  <2>2. epoch[r] + 1 \in 1 .. Len(curve)
    BY <1>0, <2>1
  <2> QED
    BY <1>0, <2>1, <2>2, CurveValues
<1>3. PassedBefore(r)' = IF Fails(r) THEN PassedBefore(r) ELSE PassedBefore(r) \cup {epoch[r]}
  BY <1>0, PassedAtVerdict
<1>4. /\ w[1] = epoch[r] /\ w[2] = PassedBefore(r) /\ w[3] = prev[r] /\ w[4] = nfails[r]
      /\ ~w[5]
      /\ z[1] = epoch'[r] /\ z[2] = PassedBefore(r)' /\ z[3] = prev'[r] /\ z[4] = nfails'[r]
      /\ z[5] = StopsAfter(r)
  BY <1>1 DEF View
<1>5. CASE epoch[r] = 0
  <2>1. ~Fails(r) /\ PassedBefore(r) = {}
    BY <1>0, <1>5, PassedType DEF Fails
  <2>2. StopsAfter(r) = (MaxEpochs = 0)
    <3>1. StopsAfter(r) <=> MaxEpochs = 0
      BY <1>0, <1>5 DEF StopsAfter
    <3>2. StopsAfter(r) \in BOOLEAN
      BY DEF StopsAfter
    <3> QED
      BY <3>1, <3>2
  <2> QED
    BY <1>1, <1>2, <1>3, <1>4, <1>5, <2>1, <2>2 DEF PrevAfter, FailsAfter
<1>6. CASE epoch[r] # 0 /\ ~Fails(r)
  <2>1. epoch[r] > 0 /\ ~FailedEpoch(fest[r], prev[r])
    BY <1>0, <1>6 DEF Fails
  <2>2. StopsAfter(r) = (nfails[r] > MaxFails \/ Greater(Tol, fest[r]) \/ epoch[r] = MaxEpochs)
    BY <1>6, <2>1 DEF StopsAfter, PrevAfter, FailsAfter
  <2> QED
    BY <1>1, <1>2, <1>3, <1>4, <1>6, <2>1, <2>2 DEF PrevAfter, FailsAfter
<1>7. CASE epoch[r] # 0 /\ Fails(r)
  <2>1. epoch[r] > 0 /\ FailedEpoch(fest[r], prev[r])
    BY <1>7 DEF Fails
  <2>2. StopsAfter(r) = (nfails[r] + 1 > MaxFails \/ Greater(Tol, prev[r]) \/ epoch[r] = MaxEpochs)
    BY <1>7, <2>1 DEF StopsAfter, PrevAfter, FailsAfter
  <2> QED
    BY <1>1, <1>2, <1>3, <1>4, <1>7, <2>1, <2>2 DEF PrevAfter, FailsAfter
<1> QED
  BY <1>5, <1>6, <1>7

LEMMA SoloStep ==
  ASSUME Inv, ExactInv, Inv', ExactInv', [Next]_vars PROVE [Solo!Next]_(Solo!vars)
<1>1. /\ epoch[Slowest] = View(Slowest)[1] /\ prev[Slowest] = View(Slowest)[3]
      /\ nfails[Slowest] = View(Slowest)[4] /\ (pc[Slowest] = "done") = View(Slowest)[5]
      /\ (IF epoch[Slowest] = 0 THEN {} ELSE {x[2] : x \in best[Slowest][1]}) = View(Slowest)[2]
  BY SoloVars
<1>2. (/\ epoch[Slowest] = View(Slowest)[1] /\ prev[Slowest] = View(Slowest)[3]
       /\ nfails[Slowest] = View(Slowest)[4] /\ (pc[Slowest] = "done") = View(Slowest)[5]
       /\ (IF epoch[Slowest] = 0 THEN {} ELSE {x[2] : x \in best[Slowest][1]})
            = View(Slowest)[2])'
  BY SoloVars, PTL
<1>3. CASE View(Slowest)' = View(Slowest)
  BY <1>1, <1>2, <1>3 DEF Solo!vars
<1>4. CASE \E r \in Ranks : /\ Start(r) \/ Pass(r) \/ Fail(r)
                            /\ View(Slowest) = View(r) /\ View(Slowest)' = View(r)'
  <2>1. PICK r \in Ranks : /\ Start(r) \/ Pass(r) \/ Fail(r)
                           /\ View(Slowest) = View(r) /\ View(Slowest)' = View(r)'
    BY <1>4
  <2> DEFINE w == View(r)
             z == View(r)'
  <2>2. \/ /\ w[1] = 0 /\ ~w[5] /\ z[3] \in Totals \cup {NaN} /\ z[1] = 1 /\ z[2] = {0}
           /\ z[5] = (MaxEpochs = 0) /\ z[4] = w[4]
        \/ /\ w[1] > 0 /\ ~w[5] /\ z[3] \in Totals \cup {NaN} /\ ~FailedEpoch(z[3], w[3])
           /\ z[2] = w[2] \cup {w[1]} /\ z[1] = w[1] + 1 /\ z[4] = w[4]
           /\ z[5] = (w[4] > MaxFails \/ Greater(Tol, z[3]) \/ w[1] = MaxEpochs)
        \/ /\ w[1] > 0 /\ ~w[5] /\ \E v \in Totals \cup {NaN} : FailedEpoch(v, w[3])
           /\ z[2] = w[2] /\ z[3] = w[3] /\ z[1] = w[1] + 1 /\ z[4] = w[4] + 1
           /\ z[5] = (z[4] > MaxFails \/ Greater(Tol, w[3]) \/ w[1] = MaxEpochs)
    BY <2>1, VerdictIsSolo
  <2>3. \A v, x : /\ Solo!Failed(v, x) <=> FailedEpoch(v, x)
                  /\ Solo!Greater(v, x) <=> Greater(v, x)
    BY DEF Solo!Failed, Solo!Greater, FailedEpoch, Greater
  <2>4. /\ epoch[Slowest] = w[1] /\ prev[Slowest] = w[3]
        /\ nfails[Slowest] = w[4] /\ (pc[Slowest] = "done") = w[5]
        /\ (IF epoch[Slowest] = 0 THEN {} ELSE {x[2] : x \in best[Slowest][1]}) = w[2]
    BY <1>1, <2>1
  <2>5. /\ (epoch[Slowest])' = z[1] /\ (prev[Slowest])' = z[3]
        /\ (nfails[Slowest])' = z[4] /\ (pc[Slowest] = "done")' = z[5]
        /\ (IF epoch[Slowest] = 0 THEN {} ELSE {x[2] : x \in best[Slowest][1]})' = z[2]
    BY <1>2, <2>1
  <2> HIDE DEF w, z
  <2> QED
    BY <2>2, <2>3, <2>4, <2>5 DEF Solo!Next, Solo!Start, Solo!Pass, Solo!Fail, Solo!Stops
<1> QED
  BY <1>3, <1>4, ViewStep

\* Any number of ranks, on every grid, run the epoch loop of one process: they keep, undo
\* and stop as GCPSGD::solve does, and the model of the last of them holds just the epochs
\* that this loop would have kept.
THEOREM RanksRunOneLoop == ASSUME Rounds PROVE Spec => ImplementsGcpSgd
<1>1. AllInv /\ [Next]_vars => AllInv'
  BY AllStep
<1>2. AllInv => Inv /\ ExactInv
  BY DEF AllInv
<1>3. Init => Solo!Init
  BY InvInit, SoloInit
<1>4. Inv /\ ExactInv /\ (Inv /\ ExactInv)' /\ [Next]_vars => [Solo!Next]_(Solo!vars)
  BY SoloStep
<1> QED
  BY <1>1, <1>2, <1>3, <1>4, AllInit, PTL DEF Spec, ImplementsGcpSgd, Solo!Spec
=============================================================================
