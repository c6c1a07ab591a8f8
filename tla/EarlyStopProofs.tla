---------------------------- MODULE EarlyStopProofs ----------------------------
(***************************************************************************)
(* cuTC returns its best model, the four programs stop alike, and each     *)
(* stops exactly when the epochs say that it has stalled, for every        *)
(* tolerance, patience, number of epochs and size of the RMSE.             *)
(***************************************************************************)
EXTENDS EarlyStop, FiniteSetTheorems, TLAPS

Value == Rmse \union {NaN}

\* A program that runs has run every epoch.
Kept == \A p \in Program : state[p] = "running" => ended[p] = Epochs

StopType ==
  /\ curve \in Seq(Value) /\ Len(curve) \in Nat \ {0}
  /\ best \in [Program -> Nat]
  /\ bad \in [Program -> Nat]
  /\ state \in [Program -> {"running", "stalled", "diverged", "finished"}]
  /\ ended \in [Program -> 0 .. Epochs]
  /\ kept \in 0 .. ended["cutc"]

CheckpointInv == StopType /\ Kept /\ At(kept) \in Rmse /\ BestIsReturned

\* The curves on which the four are alike.
Alike ==
  /\ \A e \in 0 .. Epochs : At(e) # NaN
  /\ Epochs > 0 => At(1) + Tolerance < At(0)

\* Before the first epoch: no program has counted one, and whatever it
\* compares with is far above a clear improvement on the first model.
Untrained ==
  /\ At(0) \in Rmse
  /\ \A p \in Program : best[p] = At(0) \/ best[p] > MaxRmse + Tolerance
  /\ \A p \in Program : state[p] = "running" /\ bad[p] = 0 /\ ended[p] = 0

\* After it they agree on everything they compare.
Agree ==
  \A p, q \in Program :
    state[p] = state[q] /\ ended[p] = ended[q] /\ bad[p] = bad[q] /\ best[p] = best[q]

StopInv ==
  /\ StopType /\ Kept
  /\ Epochs = 0 => Untrained
  /\ Epochs > 0 /\ Alike => Agree

LEMMA JudgeType ==
  ASSUME StopType, NEW p \in Program, NEW v \in Value
  PROVE  Judge(p, v).best \in Nat /\ Judge(p, v).bad \in Nat
<1>1. Improves(p, v) => v \in Nat
  BY DEF Improves, Value, Rmse
<1> QED
  BY <1>1 DEF Judge, StopType

\* What is known of a curve when it grows by one epoch.
LEMMA CurveGrows ==
  ASSUME StopType, NEW v \in Value, curve' = Append(curve, v)
  PROVE  /\ curve' \in Seq(Value) /\ Len(curve') = Len(curve) + 1
         /\ Epochs \in Nat /\ Epochs' = Epochs + 1
         /\ \A e \in 0 .. Epochs : At(e)' = At(e) /\ At(e) \in Value
         /\ At(Epochs)' = v
<1>1. curve' \in Seq(Value) /\ Len(curve') = Len(curve) + 1
  BY DEF StopType
<1>2. /\ \A i \in 1 .. Len(curve) : curve'[i] = curve[i] /\ curve[i] \in Value
      /\ curve'[Len(curve) + 1] = v
  BY DEF StopType
<1>3. Epochs \in Nat /\ Epochs' = Epochs + 1 /\ Epochs' + 1 = Len(curve) + 1
  BY <1>1 DEF StopType, Epochs
<1>4. ASSUME NEW e \in 0 .. Epochs
      PROVE  At(e)' = At(e) /\ At(e) \in Value
  <2>1. e + 1 \in 1 .. Len(curve)
    BY <1>3, <1>4 DEF StopType, Epochs
  <2> QED
    BY <1>2, <2>1 DEF At
<1>5. At(Epochs)' = v
  BY <1>2, <1>3 DEF At
<1> QED
  BY <1>1, <1>3, <1>4, <1>5

LEMMA StopTypeInit == Init => StopType /\ Kept
<1> SUFFICES ASSUME Init PROVE StopType /\ Kept
  OBVIOUS
<1>1. PICK v \in Rmse : curve = <<v>>
  BY DEF Init
<1>2. curve \in Seq(Value) /\ Len(curve) = 1
  BY <1>1 DEF Value
<1> QED
  BY <1>2, StopAssumption DEF Init, StopType, Kept, Epochs, Program, Rmse

LEMMA StopTypeStep ==
  ASSUME StopType, Kept, [Next]_stopVars
  PROVE  StopType' /\ Kept'
<1>1. CASE stopVars' = stopVars
  BY <1>1 DEF stopVars, StopType, Kept, Epochs, At
<1>2. CASE AllEnded
  BY <1>2 DEF AllEnded, stopVars, StopType, Kept, Epochs, At
<1>3. ASSUME NEW v \in Rmse \union {NaN}, Epoch(v)
      PROVE  StopType' /\ Kept'
  <2>1. v \in Value /\ curve' = Append(curve, v)
    BY <1>3 DEF Epoch, Value
  <2>2. /\ curve' \in Seq(Value) /\ Len(curve') = Len(curve) + 1
        /\ Epochs \in Nat /\ Epochs' = Epochs + 1
    BY <2>1, CurveGrows
  <2>3. Len(curve) = Epochs'
    BY <2>2 DEF Epochs, StopType
  <2>4. best' \in [Program -> Nat] /\ bad' \in [Program -> Nat]
    BY <1>3, <2>1, JudgeType DEF Epoch, StopType
  <2>5. state' \in [Program -> {"running", "stalled", "diverged", "finished"}]
    BY <1>3 DEF Epoch, StopType, Verdict
  <2>6. ended' \in [Program -> 0 .. Epochs'] /\ \A p \in Program : ended'[p] >= ended[p]
    BY <1>3, <2>2, <2>3, SMTT(20) DEF Epoch, StopType
  <2>7. \A p \in Program : state[p] = "running" => ended'[p] = Epochs'
    BY <1>3, <2>3 DEF Epoch
  <2>8. kept' \in 0 .. ended'["cutc"]
    <3>1. "cutc" \in Program
      BY DEF Program
    <3>2. CASE state["cutc"] = "running"
      BY <1>3, <3>1, <3>2, <2>2, <2>3, <2>6, <2>7 DEF Epoch, Keep, StopType
    <3>3. CASE state["cutc"] # "running"
      BY <1>3, <3>1, <3>3, <2>6 DEF Epoch, StopType
    <3> QED
      BY <3>2, <3>3
  <2>9. \A p \in Program : state'[p] = "running" => state[p] = "running"
    BY <1>3 DEF Epoch
  <2> QED
    BY <2>2, <2>4, <2>5, <2>6, <2>7, <2>8, <2>9 DEF StopType, Kept
<1> QED
  BY <1>1, <1>2, <1>3 DEF Next
-------------------------------------------------------------------------------

LEMMA CheckpointStep ==
  ASSUME CheckpointInv, [Next]_stopVars
  PROVE  CheckpointInv'
<1> USE DEF CheckpointInv
<1>0. StopType' /\ Kept'
  BY StopTypeStep
<1>1. CASE stopVars' = stopVars \/ AllEnded
  BY <1>0, <1>1 DEF AllEnded, stopVars, At, BestIsReturned
<1>2. ASSUME NEW v \in Rmse \union {NaN}, Epoch(v)
      PROVE  CheckpointInv'
  <2>1. v \in Value /\ curve' = Append(curve, v) /\ "cutc" \in Program
    BY <1>2 DEF Epoch, Value, Program
  <2>2. /\ Epochs \in Nat /\ Epochs' = Epochs + 1 /\ Len(curve) = Epochs'
        /\ \A e \in 0 .. Epochs : At(e)' = At(e) /\ At(e) \in Value
        /\ At(Epochs)' = v
    BY <2>1, CurveGrows DEF Epochs
  <2>3. ended["cutc"] \in 0 .. Epochs /\ kept \in 0 .. ended["cutc"]
    BY <2>1 DEF StopType
  <2>4. CASE state["cutc"] # "running"
    <3>1. kept' = kept /\ ended'["cutc"] = ended["cutc"]
      BY <1>2, <2>1, <2>4 DEF Epoch
    <3>2. \A e \in 0 .. ended["cutc"] : At(e)' = At(e)
      BY <2>2, <2>3
    <3>3. At(kept)' = At(kept)
      BY <3>1, <2>2, <2>3 DEF At
    <3> QED
      BY <1>0, <3>1, <3>2, <3>3 DEF BestIsReturned
  <2>5. CASE state["cutc"] = "running"
    <3>1. ended["cutc"] = Epochs /\ ended'["cutc"] = Epochs'
      BY <1>2, <2>1, <2>2, <2>5 DEF Epoch, Kept
    <3>2. kept' = IF v # NaN /\ v < At(kept) THEN Epochs' ELSE kept
      BY <1>2, <2>2, <2>5 DEF Epoch, Keep
    <3>3. At(kept)' = IF v # NaN /\ v < At(kept) THEN v ELSE At(kept)
      <4>1. kept \in 0 .. Epochs
        BY <2>2, <2>3
      <4>2. At(kept)' = curve'[kept' + 1]
        BY DEF At
      <4>3. curve'[kept + 1] = At(kept) /\ curve'[Epochs' + 1] = v
        BY <2>2, <4>1 DEF At
      <4> QED
        BY <3>2, <4>2, <4>3
    <3>4. At(kept)' \in Rmse
      BY <3>3
    <3>5. ASSUME NEW e \in 0 .. Epochs', At(e)' # NaN
          PROVE  At(kept)' <= At(e)' /\ (e < kept' => At(kept)' < At(e)')
      <4>1. CASE e = Epochs'
        <5>1. At(e)' = v /\ v \in Int /\ At(kept) \in Int
          <6>1. At(e)' = v
            BY <2>2, <4>1
          <6> QED
            BY <6>1, <3>5, StopAssumption DEF Rmse
        <5> QED
          BY <2>2, <2>3, <3>2, <3>3, <3>5, <4>1, <5>1
      <4>2. CASE e # Epochs'
        <5>1. e \in 0 .. Epochs /\ At(e)' = At(e) /\ At(e) \in Rmse
          BY <2>2, <3>5, <4>2 DEF Value, At
        <5>2. At(kept) <= At(e) /\ (e < kept => At(kept) < At(e))
          BY <3>1, <3>5, <5>1 DEF BestIsReturned
        <5> QED
          BY <5>1, <5>2, <3>2, <3>3 DEF Rmse
      <4> QED
        BY <4>1, <4>2
    <3> QED
      BY <1>0, <3>1, <3>4, <3>5 DEF BestIsReturned
  <2> QED
    BY <2>4, <2>5
<1> QED
  BY <1>1, <1>2 DEF Next

\* The model that tc_sgd restores before its report (sgd.cu: "the true
\* best-epoch model") has the smallest RMSE of all epochs it ran, the first
\* of those with that RMSE: patience and tolerance never decide what is kept.
THEOREM CheckpointIsBest == Spec => []BestIsReturned
<1>1. Init => CheckpointInv
  <2> SUFFICES ASSUME Init PROVE CheckpointInv
    OBVIOUS
  <2>1. StopType /\ Kept
    BY StopTypeInit
  <2>2. At(0) \in Rmse /\ kept = 0 /\ ended["cutc"] = 0
    BY DEF Init, At, Program
  <2> QED
    BY <2>1, <2>2 DEF CheckpointInv, BestIsReturned, Rmse
<1>2. CheckpointInv /\ [Next]_stopVars => CheckpointInv'
  BY CheckpointStep
<1>3. CheckpointInv => BestIsReturned
  BY DEF CheckpointInv
<1> QED
  BY <1>1, <1>2, <1>3, PTL DEF Spec
-------------------------------------------------------------------------------

LEMMA StopInit == Init => StopInv
<1> SUFFICES ASSUME Init PROVE StopInv
  OBVIOUS
<1>1. StopType /\ Kept
  BY StopTypeInit
<1>2. PICK v \in Rmse :
        /\ curve = <<v>>
        /\ best = [cutc |-> IF v + Tolerance < BEST_RMSE THEN v ELSE BEST_RMSE,
                   blco |-> v, genten |-> Infinity, costco |-> Infinity]
        /\ bad = [p \in Program |-> IF p = "cutc" /\ v + Tolerance >= BEST_RMSE THEN 1 ELSE 0]
  BY DEF Init
<1>3. At(0) = v /\ Epochs = 0
  BY <1>2 DEF At, Epochs
<1>4. v + Tolerance < BEST_RMSE /\ Infinity > MaxRmse + Tolerance
  BY StopAssumption DEF Rmse
<1>5. \A p \in Program : best[p] = v \/ best[p] = Infinity
  BY <1>2, <1>4 DEF Program
<1>6. \A p \in Program : bad[p] = 0
  BY <1>2, <1>4, StopAssumption DEF Rmse
<1>7. \A p \in Program : state[p] = "running" /\ ended[p] = 0
  BY DEF Init
<1> QED
  BY <1>1, <1>3, <1>4, <1>5, <1>6, <1>7 DEF StopInv, Untrained

LEMMA StopStep ==
  ASSUME StopInv, [Next]_stopVars
  PROVE  StopInv'
<1> USE DEF StopInv
<1>0. StopType' /\ Kept'
  BY StopTypeStep
<1>1. CASE stopVars' = stopVars \/ AllEnded
  BY <1>0, <1>1 DEF AllEnded, stopVars, At, Epochs, Untrained, Agree, Alike
<1>2. ASSUME NEW v \in Rmse \union {NaN}, Epoch(v)
      PROVE  StopInv'
  <2>1. v \in Value /\ curve' = Append(curve, v)
    BY <1>2 DEF Epoch, Value
  <2>2. /\ Epochs \in Nat /\ Epochs' = Epochs + 1 /\ Len(curve) = Epochs'
        /\ \A e \in 0 .. Epochs : At(e)' = At(e)
        /\ At(Epochs)' = v
    BY <2>1, CurveGrows DEF Epochs
  <2>3. ASSUME Alike'
        PROVE  Agree'
    <3>1. v \in Rmse /\ v # NaN
      <4>1. Epochs' \in 0 .. Epochs'
        BY <2>2
      <4>2. At(Epochs)' # NaN
        BY <2>3, <4>1 DEF Alike, At
      <4> QED
        BY <2>1, <2>2, <4>2 DEF Value
    <3>2. \A p \in Program : state[p] = "running"
      <4>1. CASE Epochs = 0
        BY <4>1 DEF Untrained
      <4>2. CASE Epochs > 0
        <5>1. Alike
          BY <2>2, <2>3, <4>2 DEF Alike
        <5> QED
          BY <1>2, <4>2, <5>1 DEF Epoch, Agree
      <4> QED
        BY <2>2, <4>1, <4>2
    <3>3. \A p, q \in Program : Judge(p, v) = Judge(q, v)
      <4>1. CASE Epochs = 0
        <5>1. v + Tolerance < At(0) /\ At(0) \in Rmse
          <6>1. At(1)' = v /\ At(0)' = At(0)
            BY <2>2, <4>1 DEF At
          <6> QED
            BY <2>2, <2>3, <4>1, <6>1 DEF Alike, Untrained
        <5>2. \A p \in Program : Improves(p, v)
          <6>1. ASSUME NEW p \in Program
                PROVE  v + Tolerance < best[p]
            <7>1. best[p] \in Nat /\ (best[p] = At(0) \/ best[p] > MaxRmse + Tolerance)
              BY <4>1, <6>1 DEF Untrained, StopType
            <7>2. v \in Nat /\ v <= MaxRmse /\ Tolerance \in Nat /\ MaxRmse \in Nat
              BY <3>1, StopAssumption DEF Rmse
            <7> QED
              BY <5>1, <7>1, <7>2
          <6> QED
            BY <3>1, <6>1 DEF Improves
        <5> QED
          BY <5>2 DEF Judge
      <4>2. CASE Epochs > 0
        <5>1. Agree
          BY <2>2, <2>3, <4>2 DEF Alike
        <5> QED
          BY <3>1, <5>1 DEF Agree, Judge, Improves
      <4> QED
        BY <2>2, <4>1, <4>2
    <3>4. \A p, q \in Program :
            Verdict(p, v, Len(curve)) = Verdict(q, v, Len(curve))
      BY <3>1, <3>3 DEF Verdict
    <3> QED
      BY <1>2, <3>2, <3>3, <3>4 DEF Epoch, Agree
  <2> QED
    BY <1>0, <2>2, <2>3
<1> QED
  BY <1>1, <1>2 DEF Next

\* On a curve without NaN that starts with a clear improvement, the four
\* stopping loops agree on when and why they end: neither the different first
\* best values nor the order of counting and comparing tells them apart.
THEOREM StopsAlike == Spec => []SameStop
<1>1. Init => StopInv
  BY StopInit
<1>2. StopInv /\ [Next]_stopVars => StopInv'
  BY StopStep
<1>3. StopInv => SameStop
  <2> SUFFICES ASSUME StopInv, Alike
               PROVE  \A p, q \in Program : state[p] = state[q] /\ ended[p] = ended[q]
    BY DEF SameStop, Alike
  <2>1. CASE Epochs = 0
    BY <2>1 DEF StopInv, Untrained
  <2>2. CASE Epochs > 0
    BY <2>2 DEF StopInv, Agree
  <2>3. Epochs \in Nat
    BY DEF StopInv, StopType, Epochs
  <2> QED
    BY <2>1, <2>2, <2>3
<1> QED
  BY <1>1, <1>2, <1>3, PTL DEF Spec

-------------------------------------------------------------------------------

\* A program that runs may count one more bad epoch, and run one more.
Unfinished ==
  /\ Epochs <= MaxEpochs
  /\ \A p \in Program : /\ bad[p] <= Patience
                        /\ state[p] = "running" => bad[p] < Patience /\ ended[p] < MaxEpochs

LEMMA UnfinishedInit == Init => Unfinished
<1> SUFFICES ASSUME Init PROVE Unfinished
  OBVIOUS
<1>1. PICK v \in Rmse :
        /\ curve = <<v>>
        /\ bad = [p \in Program |-> IF p = "cutc" /\ v + Tolerance >= BEST_RMSE THEN 1 ELSE 0]
        /\ ended = [p \in Program |-> 0]
  BY DEF Init
<1>2. ~(v + Tolerance >= BEST_RMSE) /\ Epochs = 0
  BY <1>1, StopAssumption DEF Rmse, Epochs
<1> QED
  BY <1>1, <1>2, StopAssumption DEF Unfinished

LEMMA UnfinishedStep ==
  ASSUME StopType, Kept, Unfinished, [Next]_stopVars
  PROVE  Unfinished'
<1>1. CASE stopVars' = stopVars \/ AllEnded
  BY <1>1 DEF AllEnded, stopVars, Unfinished, Epochs
<1>2. ASSUME NEW v \in Rmse \union {NaN}, Epoch(v)
      PROVE  Unfinished'
  <2>1. /\ v \in Value /\ curve' = Append(curve, v)
        /\ MaxEpochs \in Nat /\ Patience \in Nat /\ Patience > 0
    BY <1>2, StopAssumption DEF Epoch, Value
  <2>2. Epochs \in Nat /\ Epochs' = Epochs + 1 /\ Len(curve) = Epochs + 1
    BY <2>1, CurveGrows DEF Epochs, StopType
  <2>3. PICK p \in Program : state[p] = "running"
    BY <1>2 DEF Epoch
  <2>4. Epochs < MaxEpochs
    BY <2>3 DEF Unfinished, Kept
  <2>5. ASSUME NEW q \in Program
        PROVE  /\ bad'[q] <= Patience
               /\ state'[q] = "running" => bad'[q] < Patience /\ ended'[q] < MaxEpochs
    <3>1. CASE state[q] # "running"
      BY <1>2, <3>1 DEF Epoch, Unfinished
    <3>2. CASE state[q] = "running"
      <4>1. /\ bad'[q] = Judge(q, v).bad /\ state'[q] = Verdict(q, v, Len(curve))
            /\ ended'[q] = Len(curve)
        BY <1>2, <3>2 DEF Epoch
      <4>2. bad[q] \in Nat /\ bad[q] < Patience
        BY <3>2 DEF StopType, Unfinished
      <4>3. Judge(q, v).bad \in Nat /\ Judge(q, v).bad <= bad[q] + 1
        BY <4>2 DEF Judge
      <4>4. state'[q] = "running" => Judge(q, v).bad < Patience /\ Len(curve) # MaxEpochs
        BY <2>1, <4>1, <4>3 DEF Verdict
      <4> QED
        BY <2>1, <2>2, <2>4, <4>1, <4>2, <4>3, <4>4
    <3> QED
      BY <3>1, <3>2
  <2> QED
    BY <2>1, <2>2, <2>4, <2>5 DEF Unfinished
<1> QED
  BY <1>1, <1>2 DEF Next

\* Types, and with them the bounds of the epochs a program runs and of the bad ones it
\* counts: each stops as soon as its patience or its epochs are used up.
THEOREM Typing == Spec => []TypeOK
<1>1. Init => StopType /\ Kept /\ Unfinished
  BY StopTypeInit, UnfinishedInit
<1>2. StopType /\ Kept /\ Unfinished /\ [Next]_stopVars => (StopType /\ Kept /\ Unfinished)'
  BY StopTypeStep, UnfinishedStep
<1>3. StopType /\ Kept /\ Unfinished => TypeOK
  <2> SUFFICES ASSUME StopType, Unfinished PROVE TypeOK
    OBVIOUS
  <2>1. bad \in [Program -> 0 .. Patience]
    BY StopAssumption DEF StopType, Unfinished
  <2>2. Len(curve) \in 1 .. MaxEpochs + 1
    BY StopAssumption DEF StopType, Unfinished, Epochs
  <2> QED
    BY <2>1, <2>2 DEF StopType, TypeOK, Value
<1> QED
  BY <1>1, <1>2, <1>3, PTL DEF Spec

-------------------------------------------------------------------------------
(* What the counts of bad epochs say of the curve.                             *)

After(p, a) == {e \in Judged(p) : e > a}

\* The best epoch of p so far is a, or p has seen none, and the bad epochs are those
\* it has judged since.
Anchor(p, a) ==
  /\ Cardinality(After(p, a)) = bad[p]
  /\ \A e \in After(p, a) : At(e) = NaN \/ At(e) + Tolerance >= best[p]
  /\ \/ /\ a \in Judged(p) /\ At(a) # NaN /\ best[p] = At(a)
        /\ \A e \in Judged(p) : e < a /\ At(e) # NaN => At(a) < At(e)
     \/ a = 0 /\ p \in {"genten", "costco"} /\ best[p] > MaxRmse + Tolerance

CountInv ==
  /\ StopType /\ Kept /\ Unfinished
  /\ \A p \in Program : state[p] = "stalled" => bad[p] = Patience
  /\ \A p \in Program : \E a \in 0 .. ended[p] : Anchor(p, a)

\* Epochs are numbers, and only finitely many were judged.
LEMMA JudgedType ==
  ASSUME StopType, NEW p \in Program
  PROVE  /\ ended[p] \in Nat /\ ended[p] <= Epochs /\ IsFiniteSet(Judged(p))
         /\ \A e \in Judged(p) : e \in Nat /\ e <= ended[p] /\ At(e) \in Value
<1>1. ended[p] \in Nat /\ ended[p] <= Epochs /\ Epochs \in Nat
  BY DEF StopType, Epochs
<1>2. Judged(p) \subseteq 0 .. ended[p]
  BY DEF Judged
<1>3. IsFiniteSet(Judged(p))
  <2>1. IsFiniteSet(0 .. ended[p])
    BY <1>1, FS_Interval
  <2> QED
    BY <1>2, <2>1, FS_Subset
<1>4. ASSUME NEW e \in Judged(p) PROVE e \in Nat /\ e <= ended[p] /\ At(e) \in Value
  <2>1. e \in Nat /\ e <= ended[p]
    BY <1>1, <1>2
  <2>2. e + 1 \in 1 .. Len(curve)
    BY <1>1, <2>1 DEF Epochs, StopType
  <2> QED
    BY <2>1, <2>2 DEF At, StopType
<1> QED
  BY <1>1, <1>3, <1>4

\* A program that has ended takes no account of what the others still do.
LEMMA EndedKeepsAnchor ==
  ASSUME StopType, NEW p \in Program, NEW a \in 0 .. ended[p], Anchor(p, a),
         ended'[p] = ended[p], bad'[p] = bad[p], best'[p] = best[p],
         \A e \in 0 .. ended[p] : At(e)' = At(e)
  PROVE  Anchor(p, a)'
<1>1. Judged(p)' = Judged(p) /\ Judged(p) \subseteq 0 .. ended[p]
  BY DEF Judged
<1>2. After(p, a)' = After(p, a)
  BY <1>1 DEF After
<1> QED
  BY <1>1, <1>2 DEF Anchor, After

\* One more epoch of a program that runs.
LEMMA EpochMovesAnchor ==
  ASSUME StopType, StopType', NEW p \in Program, NEW v \in Value, NEW a \in 0 .. ended[p],
         Anchor(p, a), ended[p] = Epochs, ended'[p] = Epochs', curve' = Append(curve, v),
         best'[p] = Judge(p, v).best, bad'[p] = Judge(p, v).bad
  PROVE  \E b \in 0 .. ended'[p] : Anchor(p, b)'
<1>n. PICK n \in Nat : n = Epochs + 1
  BY CurveGrows
<1>1. /\ Epochs \in Nat /\ Epochs' = n /\ n \in Nat /\ ended'[p] = n
      /\ \A e \in 0 .. Epochs : At(e)' = At(e) /\ At(e) \in Value
      /\ At(n)' = v
  <2>1. Epochs \in Nat /\ Epochs' = n
    BY <1>n, CurveGrows
  <2>2. At(Epochs)' = v /\ \A e \in 0 .. Epochs : At(e)' = At(e) /\ At(e) \in Value
    BY CurveGrows
  <2> QED
    BY <2>1, <2>2 DEF At
<1>2. /\ \A e \in Judged(p) : e \in Nat /\ e <= Epochs /\ At(e) \in Value /\ At(e)' = At(e)
      /\ IsFiniteSet(Judged(p)) /\ a \in Nat /\ a <= Epochs
  BY <1>1, JudgedType
<1>3. /\ best[p] \in Nat /\ bad[p] \in Nat /\ Tolerance \in Nat /\ MaxRmse \in Nat
      /\ NaN \notin Int /\ NaN \notin Nat
      /\ \A w \in Value : w # NaN => w \in Nat /\ w <= MaxRmse
  BY StopAssumption DEF StopType, Value, Rmse
<1>4. n \notin Judged(p)
  BY <1>n, <1>1, <1>2
<1>5. Judged(p)' = IF p = "genten" /\ v = NaN THEN Judged(p) ELSE Judged(p) \cup {n}
  <2>1. 0 .. ended'[p] = 0 .. ended[p] \cup {n}
    BY <1>n, <1>1
  <2>2. \A e \in 0 .. ended[p] : At(e)' = At(e)
    BY <1>1
  <2>3. n > 0
    BY <1>n, <1>1
  <2>4. At(n)' = v
    BY <1>1
  <2> QED
    BY <2>1, <2>2, <2>3, <2>4 DEF Judged
<1>6. CASE Improves(p, v)
  <2>1. best'[p] = v /\ bad'[p] = 0 /\ v # NaN /\ v + Tolerance < best[p] /\ v \in Nat
    BY <1>3, <1>6 DEF Judge, Improves
  <2>2. Judged(p)' = Judged(p) \cup {n}
    BY <1>5, <2>1
  <2>3. After(p, n)' = {}
    BY <1>n, <1>1, <1>2, <2>2 DEF After
  <2>4. ASSUME NEW e \in Judged(p), At(e) # NaN
        PROVE  v < At(e)
    <3>0. e \in Nat /\ At(e) \in Nat /\ At(e) <= MaxRmse
      BY <1>2, <1>3, <2>4
    <3>1. CASE e > a
      <4>1. At(e) + Tolerance >= best[p]
        BY <2>4, <3>1 DEF Anchor, After
      <4> QED
        BY <1>3, <2>1, <3>0, <4>1
    <3>2. CASE a \in Judged(p) /\ best[p] = At(a) /\ ~(e > a)
      <4>1. e = a \/ At(a) < At(e)
        BY <1>2, <1>3, <2>4, <3>0, <3>2 DEF Anchor
      <4> QED
        BY <1>3, <2>1, <3>0, <3>2, <4>1
    <3>3. CASE a = 0 /\ p \in {"genten", "costco"}
      <4>1. e > a
        BY <3>0, <3>3 DEF Judged
      <4> QED
        BY <3>1, <4>1
    <3> QED
      BY <3>1, <3>2, <3>3 DEF Anchor
  <2>5. n \in Judged(p)' /\ At(n)' # NaN /\ best'[p] = At(n)'
    BY <1>1, <2>1, <2>2
  <2>6. \A e \in Judged(p)' : e < n /\ At(e)' # NaN => At(n)' < At(e)'
    BY <1>1, <1>2, <2>2, <2>4
  <2>7. Cardinality(After(p, n)') = bad'[p]
    BY <2>1, <2>3, FS_EmptySet
  <2>8. Anchor(p, n)'
    BY <2>3, <2>5, <2>6, <2>7 DEF Anchor
  <2> QED
    BY <1>1, <2>8
<1>7. CASE ~Improves(p, v)
  <2>1. best'[p] = best[p] /\ (v = NaN \/ v + Tolerance >= best[p])
    <3>1. best'[p] = best[p]
      BY <1>7 DEF Judge
    <3>2. v # NaN => v \in Nat /\ ~(v + Tolerance < best[p])
      BY <1>3, <1>7 DEF Improves
    <3> QED
      BY <1>3, <3>1, <3>2
  <2>2. /\ After(p, a) \subseteq Judged(p) /\ n \notin After(p, a) /\ n > a
        /\ IsFiniteSet(After(p, a))
    <3>1. After(p, a) \subseteq Judged(p) /\ n > a
      BY <1>n, <1>1, <1>2 DEF After
    <3> QED
      BY <1>2, <1>4, <3>1, FS_Subset
  <2>3. CASE p = "genten" /\ v = NaN
    <3>1. After(p, a)' = After(p, a) /\ bad'[p] = bad[p]
      BY <1>5, <1>7, <2>3 DEF After, Judge
    <3>2. Anchor(p, a)'
      BY <1>2, <1>5, <2>1, <2>2, <2>3, <3>1 DEF Anchor
    <3> QED
      BY <1>n, <1>1, <1>2, <3>2
  <2>4. CASE ~(p = "genten" /\ v = NaN)
    <3>1. Judged(p)' = Judged(p) \cup {n} /\ bad'[p] = bad[p] + 1
      BY <1>5, <1>7, <2>4 DEF Judge
    <3>2. After(p, a)' = After(p, a) \cup {n}
      BY <2>2, <3>1 DEF After
    <3>3. Cardinality(After(p, a)') = bad'[p]
      <4>1. Cardinality(After(p, a) \cup {n}) = Cardinality(After(p, a)) + 1
        BY <2>2, FS_AddElement
      <4>2. Cardinality(After(p, a)) = bad[p]
        BY DEF Anchor
      <4> QED
        BY <3>1, <3>2, <4>1, <4>2
    <3>4. \A e \in After(p, a)' : At(e)' = NaN \/ At(e)' + Tolerance >= best'[p]
      BY <1>1, <1>2, <2>1, <2>2, <3>2 DEF Anchor
    <3>5. CASE /\ a \in Judged(p) /\ At(a) # NaN /\ best[p] = At(a)
               /\ \A e \in Judged(p) : e < a /\ At(e) # NaN => At(a) < At(e)
      <4>1. a \in Judged(p)' /\ At(a)' # NaN /\ best'[p] = At(a)'
        BY <1>2, <2>1, <3>1, <3>5
      <4>2. ASSUME NEW e \in Judged(p)', e < a, At(e)' # NaN PROVE At(a)' < At(e)'
        <5>1. e \in Judged(p)
          BY <1>1, <1>2, <2>2, <3>1, <4>2
        <5> QED
          BY <1>2, <3>5, <4>2, <5>1
      <4>3. Anchor(p, a)'
        BY <3>3, <3>4, <4>1, <4>2 DEF Anchor
      <4> QED
        BY <1>n, <1>1, <1>2, <4>3
    <3>6. CASE a = 0 /\ p \in {"genten", "costco"} /\ best[p] > MaxRmse + Tolerance
      <4>1. Anchor(p, a)'
        BY <2>1, <3>3, <3>4, <3>6 DEF Anchor
      <4> QED
        BY <1>n, <1>1, <1>2, <4>1
    <3> QED
      BY <3>5, <3>6 DEF Anchor
  <2> QED
    BY <2>3, <2>4
<1> QED
  BY <1>6, <1>7

LEMMA CountInit == Init => CountInv
<1> SUFFICES ASSUME Init PROVE CountInv
  OBVIOUS
<1>0. StopType /\ Kept /\ Unfinished
  BY StopTypeInit, UnfinishedInit
<1>1. PICK v \in Rmse :
        /\ curve = <<v>>
        /\ best = [cutc |-> IF v + Tolerance < BEST_RMSE THEN v ELSE BEST_RMSE,
                   blco |-> v, genten |-> Infinity, costco |-> Infinity]
        /\ bad = [p \in Program |-> IF p = "cutc" /\ v + Tolerance >= BEST_RMSE THEN 1 ELSE 0]
  BY DEF Init
<1>2. /\ v \in Nat /\ v # NaN /\ v + Tolerance < BEST_RMSE /\ ~(v + Tolerance >= BEST_RMSE)
      /\ Infinity > MaxRmse + Tolerance
  BY StopAssumption DEF Rmse
<1>3. At(0) = v
  BY <1>1 DEF At
<1>4. ASSUME NEW p \in Program
      PROVE  state[p] # "stalled" /\ \E a \in 0 .. ended[p] : Anchor(p, a)
  <2>1. ended[p] = 0 /\ bad[p] = 0 /\ state[p] = "running"
    BY <1>1, <1>2, <1>4 DEF Init
  <2>2. After(p, 0) = {}
    BY <2>1 DEF After, Judged
  <2>3. Cardinality(After(p, 0)) = bad[p]
    BY <2>1, <2>2, FS_EmptySet
  <2>4. CASE p \in {"cutc", "blco"}
    <3>1. best[p] = v /\ 0 \in Judged(p)
      BY <1>1, <1>2, <2>1, <2>4 DEF Judged
    <3>2. \A e \in Judged(p) : ~(e < 0)
      BY <2>1 DEF Judged
    <3> QED
      BY <1>2, <1>3, <2>1, <2>2, <2>3, <3>1, <3>2 DEF Anchor
  <2>5. CASE p \in {"genten", "costco"}
    <3>1. best[p] = Infinity
      BY <1>1, <2>5
    <3> QED
      BY <1>2, <2>1, <2>2, <2>3, <2>5, <3>1 DEF Anchor
  <2> QED
    BY <2>1, <2>4, <2>5 DEF Program
<1> QED
  BY <1>0, <1>4 DEF CountInv

LEMMA CountStep ==
  ASSUME CountInv, [Next]_stopVars
  PROVE  CountInv'
<1> USE DEF CountInv
<1>0. StopType' /\ Kept' /\ Unfinished'
  BY StopTypeStep, UnfinishedStep
<1>1. CASE stopVars' = stopVars \/ AllEnded
  BY <1>0, <1>1 DEF AllEnded, stopVars, At, Anchor, After, Judged
<1>2. ASSUME NEW v \in Rmse \union {NaN}, Epoch(v)
      PROVE  CountInv'
  <2>1. v \in Value /\ curve' = Append(curve, v)
    BY <1>2 DEF Epoch, Value
  <2>2. /\ Epochs \in Nat /\ Epochs' = Epochs + 1 /\ Len(curve) = Epochs'
        /\ \A e \in 0 .. Epochs : At(e)' = At(e)
    BY <2>1, CurveGrows DEF Epochs
  <2>3. ASSUME NEW p \in Program
        PROVE  /\ state'[p] = "stalled" => bad'[p] = Patience
               /\ \E a \in 0 .. ended'[p] : Anchor(p, a)'
    <3>1. PICK a \in 0 .. ended[p] : Anchor(p, a)
      OBVIOUS
    <3>2. CASE state[p] # "running"
      <4>1. /\ state'[p] = state[p] /\ bad'[p] = bad[p] /\ best'[p] = best[p]
            /\ ended'[p] = ended[p]
        BY <1>2, <3>2 DEF Epoch
      <4>2. \A e \in 0 .. ended[p] : At(e)' = At(e)
        BY <2>2 DEF StopType
      <4>3. Anchor(p, a)'
        BY <3>1, <4>1, <4>2, EndedKeepsAnchor
      <4> QED
        BY <3>1, <4>1, <4>3
    <3>3. CASE state[p] = "running"
      <4>1. /\ state'[p] = Verdict(p, v, Len(curve)) /\ bad'[p] = Judge(p, v).bad
            /\ best'[p] = Judge(p, v).best /\ ended'[p] = Epochs' /\ ended[p] = Epochs
        BY <1>2, <2>2, <3>3 DEF Epoch, Kept
      <4>2. state'[p] = "stalled" => bad'[p] >= Patience
        BY <4>1 DEF Verdict
      <4>3. bad'[p] \in Nat /\ bad'[p] <= Patience /\ Patience \in Nat
        BY <1>0, StopAssumption DEF StopType, Unfinished
      <4>4. \E b \in 0 .. ended'[p] : Anchor(p, b)'
        BY <1>0, <2>1, <3>1, <4>1, EpochMovesAnchor
      <4> QED
        BY <4>2, <4>3, <4>4
    <3> QED
      BY <3>2, <3>3
  <2> QED
    BY <1>0, <2>3
<1> QED
  BY <1>1, <1>2 DEF Next

\* "Did not improve by <tolerance> for <patience> epochs" is true of each program that
\* says so: it stops with Patience judged epochs behind its best one, none better.
THEOREM StopsAreTrue == Spec => []StopMeansStalled
<1>1. CountInv => StopMeansStalled
  <2> SUFFICES ASSUME CountInv, NEW p \in Program, state[p] = "stalled"
               PROVE  \E a \in 0 .. ended[p] :
                        /\ Cardinality(After(p, a)) = Patience
                        /\ \A e \in After(p, a) : At(e) = NaN \/
                             (At(a) # NaN /\ At(e) + Tolerance >= At(a))
                        /\ \A e \in Judged(p) : e < a /\ At(e) # NaN =>
                             At(a) # NaN /\ At(a) < At(e)
    BY DEF StopMeansStalled, After
  <2>1. PICK a \in 0 .. ended[p] : Anchor(p, a)
    BY DEF CountInv
  <2>2. Cardinality(After(p, a)) = Patience
    BY <2>1 DEF CountInv, Anchor
  <2>3. CASE /\ a \in Judged(p) /\ At(a) # NaN /\ best[p] = At(a)
             /\ \A e \in Judged(p) : e < a /\ At(e) # NaN => At(a) < At(e)
    BY <2>1, <2>2, <2>3 DEF Anchor
  <2>4. CASE a = 0 /\ best[p] > MaxRmse + Tolerance
    <3>1. ASSUME NEW e \in Judged(p) PROVE e \in Nat /\ At(e) \in Value
      BY JudgedType DEF CountInv
    <3>2. ASSUME NEW e \in After(p, a) PROVE At(e) = NaN
      <4>1. At(e) \in Value /\ (At(e) = NaN \/ At(e) + Tolerance >= best[p])
        BY <2>1, <3>1, <3>2 DEF Anchor, After
      <4>2. best[p] \in Nat /\ MaxRmse \in Nat /\ Tolerance \in Nat
        BY StopAssumption DEF CountInv, StopType
      <4> QED
        BY <2>4, <4>1, <4>2 DEF Value, Rmse
    <3>3. \A e \in Judged(p) : ~(e < a)
      BY <2>4, <3>1
    <3> QED
      BY <2>2, <3>2, <3>3
  <2> QED
    BY <2>1, <2>3, <2>4 DEF Anchor
<1> QED
  BY <1>1, CountInit, CountStep, PTL DEF Spec

\* No program trains on when its patience is used up: Patience judged epochs that are
\* not below all judged before them stop it, whatever lies between.
THEOREM StallsStop == Spec => []StallMeansStopped
<1>1. CountInv => StallMeansStopped
  <2> SUFFICES ASSUME CountInv, NEW p \in Program, state[p] = "running",
                      NEW b \in Judged(p),
                      \A e \in After(p, b) : \/ At(e) = NaN
                                             \/ \E d \in Judged(p) : /\ d <= b /\ At(d) # NaN
                                                                     /\ At(e) >= At(d)
               PROVE  Cardinality(After(p, b)) < Patience
    BY DEF StallMeansStopped, After
  <2>1. PICK a \in 0 .. ended[p] : Anchor(p, a)
    BY DEF CountInv
  <2>2. IsFiniteSet(Judged(p)) /\ \A e \in Judged(p) : e \in Nat /\ At(e) \in Value
    BY JudgedType DEF CountInv
  <2>3. a \in Nat
    BY JudgedType DEF CountInv
  <2>4. ASSUME a > b PROVE FALSE
    <3>1. a # 0
      BY <2>2, <2>3, <2>4
    <3>2. /\ a \in Judged(p) /\ At(a) # NaN
          /\ \A e \in Judged(p) : e < a /\ At(e) # NaN => At(a) < At(e)
      BY <2>1, <3>1 DEF Anchor
    <3>3. a \in After(p, b)
      BY <2>4, <3>2 DEF After
    <3>4. PICK d \in Judged(p) : d <= b /\ At(d) # NaN /\ At(a) >= At(d)
      BY <3>2, <3>3
    <3>5. d < a
      BY <2>2, <2>3, <2>4, <3>4
    <3>6. At(a) < At(d)
      BY <3>2, <3>4, <3>5
    <3>7. At(a) \in Nat /\ At(d) \in Nat
      BY <2>2, <3>2, <3>4 DEF Value, Rmse
    <3> QED
      BY <3>4, <3>6, <3>7
  <2>5. After(p, b) \subseteq After(p, a)
    BY <2>2, <2>3, <2>4 DEF After
  <2>6. IsFiniteSet(After(p, a))
    BY <2>2, FS_Subset DEF After
  <2>7. Cardinality(After(p, b)) <= Cardinality(After(p, a))
    BY <2>5, <2>6, FS_Subset
  <2>8. Cardinality(After(p, a)) = bad[p] /\ bad[p] < Patience /\ bad[p] \in Nat
    BY <2>1 DEF Anchor, CountInv, Unfinished, StopType
  <2>9. IsFiniteSet(After(p, b)) /\ Cardinality(After(p, b)) \in Nat
    BY <2>5, <2>6, FS_Subset, FS_CardinalityType
  <2> QED
    BY <2>7, <2>8, <2>9, StopAssumption
<1> QED
  BY <1>1, CountInit, CountStep, PTL DEF Spec
===============================================================================
