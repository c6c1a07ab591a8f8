--------------------------- MODULE BlcoMttkrpProofs ---------------------------
(***************************************************************************)
(* Proofs about BlcoMttkrp, for every tensor, blocking, number of streams  *)
(* and interleaving of host and device: the types; with streaming that     *)
(* every kernel finds the block it was launched for; and, where the code   *)
(* supports it, that nothing touches memory outside an allocation and that *)
(* the result is the sum of all nonzeros, each of them once.               *)
(*                                                                         *)
(* The first argument is a discipline of the queues.  A kernel has its     *)
(* copy directly before it; once that copy has run, the kernel is at the   *)
(* head and nothing but its own retirement can follow.                     *)
(*                                                                         *)
(* The second is an account.  What the streams have added so far is fixed  *)
(* by what they still have to do (Summed): a step of a thread block moves  *)
(* one tile from the one side to the other, every other step leaves it as  *)
(* it is, and the tiles of a launch share its block out.  Sums says which  *)
(* buffer holds that sum in which phase of the call.                       *)
(*                                                                         *)
(* A batched launch has an account of its own: it begins and ends with a   *)
(* device that has nothing to do, and while it runs there is no other work *)
(* (BatchInv), so that the result is what its thread blocks have added.    *)
(***************************************************************************)
EXTENDS BlcoMttkrp, SequenceTheorems, FiniteSetTheorems, WellFoundedInduction, TLAPS

-------------------------------------------------------------------------------
(* Facts about the division of work. *)

LEMMA StreamCountPositive == StreamCount \in Nat \ {0}
  BY HostAssumption, LaunchAssumption DEF StreamCount

LEMMA RemainderBound == ASSUME NEW n \in Nat, NEW d \in Nat \ {0}
                        PROVE  n % d \in 0 .. d - 1
  OBVIOUS

LEMMA QuotientBound == ASSUME NEW d \in Nat \ {0}, NEW k \in Nat, NEW n \in 0 .. d * k - 1
                       PROVE  n \div d \in 0 .. k - 1
  OBVIOUS

LEMMA CeilIsNat == ASSUME NEW n \in Nat, NEW d \in Nat \ {0}
                   PROVE  Ceil(n, d) \in Nat
  BY DEF Ceil

LEMMA CapacityIsNat == ASSUME NEW s \in Stream
                       PROVE  CapacityOf(s) \subseteq Nat
  BY HostAssumption, LaunchAssumption DEF CapacityOf, Gen, RequestedSize

LEMMA ImageIsFinite ==
  ASSUME NEW S, IsFiniteSet(S), NEW f
  PROVE  IsFiniteSet({f[x] : x \in S})
  <1> DEFINE T == {f[x] : x \in S}
             g == [x \in S |-> f[x]]
  <1>1. g \in Surjection(S, T)
    BY DEF Surjection
  <1> HIDE DEF T, g
  <1>2. IsFiniteSet(T)
    BY <1>1, FS_Surjection
  <1> QED
    BY <1>2 DEF T

LEMMA WarpInfoIsFinite ==
  ASSUME NEW c \in [Stream -> Nat]
  PROVE  IsFiniteSet(WarpInfo(c))
  <1> DEFINE Entry(j, s) == j * TILE_SIZE * StreamCount + s
             Entries(s) == {Entry(j, s) : j \in 0 .. Ceil(c[s], TILE_SIZE) - 1}
             S == {Entries(s) : s \in Stream}
  <1>1. IsFiniteSet(Stream)
    <2>1. 0 \in Int /\ StreamCount - 1 \in Int
      BY StreamCountPositive
    <2> QED
      BY <2>1, FS_Interval DEF Stream
  <1>2. IsFiniteSet(S)
    <2> DEFINE f == [s \in Stream |-> Entries(s)]
    <2>1. S = {f[s] : s \in Stream}
      OBVIOUS
    <2> HIDE DEF S, f
    <2> QED
      BY <1>1, <2>1, ImageIsFinite
  <1>3. ASSUME NEW s \in Stream
        PROVE  IsFiniteSet(Entries(s))
    <2> DEFINE J == 0 .. Ceil(c[s], TILE_SIZE) - 1
    <2>1. 0 \in Int /\ Ceil(c[s], TILE_SIZE) - 1 \in Int
      BY LaunchAssumption, CeilIsNat
    <2>2. IsFiniteSet(J)
      BY <2>1, FS_Interval
    <2> DEFINE f == [j \in J |-> Entry(j, s)]
    <2> HIDE DEF J, Entry
    <2>3. Entries(s) = {f[j] : j \in J}
      BY DEF J
    <2> HIDE DEF f
    <2> QED
      BY <2>2, <2>3, ImageIsFinite
  <1>4. \A T \in S : IsFiniteSet(T)
    BY <1>3
  <1>5. WarpInfo(c) = UNION S
    BY DEF WarpInfo
  <1> HIDE DEF S
  <1> QED
    BY <1>2, <1>4, <1>5, FS_UNION

\* Every thread block of a launch reads a device block that exists.
LEMMA ThreadBlocksReadDeviceBlocks ==
  ASSUME TypeOK, NEW s \in Stream, RunningKernel(s), NEW t \in ThreadBlocks(s)
  PROVE  t.block \in Stream
  <1> DEFINE op == Head(queue[s])
  <1>1. CASE op.kind = "kernel"
    <2>1. t \in Grid(short, s, op.nnz)
      BY <1>1 DEF ThreadBlocks
    <2> HIDE DEF op
    <2> QED
      BY <2>1 DEF Grid, ChunkGrid, AtomicGrid, PartitionGrid, ThreadBlock
  <1>2. CASE op.kind # "kernel" /\ Kernel = 11
    <2>1. PICK q \in Stream : t \in BatchedGrid(StagedNnz, cap[q])
      BY <1>2 DEF ThreadBlocks, Largest
    <2> DEFINE n == cap[q]
    <2>2. n \in Nat
      BY DEF TypeOK
    <2> HIDE DEF n
    <2>3. Ceil(n, TILE_SIZE) \in Nat
      BY <2>2, LaunchAssumption, CeilIsNat
    <2>4. PICK g \in 0 .. Ceil(n, TILE_SIZE) * StreamCount - 1 :
                t.block = g \div Ceil(n, TILE_SIZE)
      BY <2>1 DEF n, BatchedGrid, ThreadBlock
    <2>5. Ceil(n, TILE_SIZE) # 0
      BY <2>3, <2>4, StreamCountPositive
    <2> QED
      BY <2>3, <2>4, <2>5, StreamCountPositive, QuotientBound DEF Stream
  <1>3. CASE op.kind # "kernel" /\ Kernel # 11
    <2>1. t \in WarpInfoGrid(StagedNnz, cap)
      BY <1>3 DEF ThreadBlocks
    <2>2. PICK wi \in WarpInfo(cap) : t.block = wi % StreamCount
      BY <2>1 DEF WarpInfoGrid, ThreadBlock
    <2>3. PICK r \in Stream :
                \E j \in 0 .. Ceil(cap[r], TILE_SIZE) - 1 : wi = j * TILE_SIZE * StreamCount + r
      BY <2>2 DEF WarpInfo
    <2>4. wi \in Nat
      BY <2>3, StreamCountPositive, LaunchAssumption DEF Stream
    <2> QED
      BY <2>2, <2>4, StreamCountPositive, RemainderBound DEF Stream
  <1> QED
    BY <1>1, <1>2, <1>3

-------------------------------------------------------------------------------
(* Type correctness. *)

LEMMA FilledIsSeq == ASSUME NEW n \in Nat, NEW S, NEW f \in [1 .. n -> S]
                     PROVE  f \in Seq(S) /\ Len(f) = n
  BY SeqDef

LEMMA OverwriteType ==
  ASSUME NEW blk \in HostBlocks, NEW n \in Nat, NEW mem \in [1 .. n -> Value]
  PROVE  Overwrite(mem, blk) \in [1 .. n -> Value]
  <1>1. HostBlock[blk] \in Seq(Nonzero)
    BY HostAssumption
  <1> DEFINE host_block == HostBlock[blk]
  <1>2. \A i \in 1 .. n : i <= Len(host_block) => host_block[i] \in Value
    BY <1>1, ElementOfSeq, LenProperties DEF Value
  <1> QED
    BY <1>2 DEF Overwrite

LEMMA PopType ==
  ASSUME TypeOK, NEW s \in Stream, queue[s] # <<>>, Pop(s)
  PROVE  queue' \in [Stream -> Seq(Work)]
  <1>1. Tail(queue[s]) \in Seq(Work)
    BY HeadTailProperties DEF TypeOK
  <1> QED
    BY <1>1 DEF TypeOK, Pop

LEMMA ReducedType ==
  ASSUME NEW D, NEW f \in [D -> SUBSET Value]
  PROVE  Reduced(f) \subseteq Value
  BY DEF Reduced

LEMMA HostBlockLen == ASSUME NEW blk \in HostBlocks
                      PROVE  Len(HostBlock[blk]) \in Nat
  BY HostAssumption

LEMMA AppendType ==
  ASSUME NEW q \in [Stream -> Seq(Work)], NEW w \in Work
  PROVE  /\ [r \in Stream |-> Append(q[r], w)] \in [Stream -> Seq(Work)]
         /\ \A s \in Stream : [q EXCEPT ![s] = Append(@, w)] \in [Stream -> Seq(Work)]
  <1>1. \A r \in Stream : Append(q[r], w) \in Seq(Work)
    OBVIOUS
  <1> QED
    BY <1>1

LEMMA HeadSource ==
  ASSUME TypeOK, NEW s \in Stream, queue[s] # <<>>
  PROVE  Head(queue[s]).src \in HostBlocks
  <1>1. Head(queue[s]) \in Work
    BY HeadTailProperties DEF TypeOK
  <1> QED
    BY <1>1 DEF Work

LEMMA ZeroIsStream == 0 \in Stream
  BY StreamCountPositive DEF Stream

\* The host launches only for blocks that are left, and only in a call that
\* the bound admits: what the types of b and calls rest on.
HostInv ==
  /\ pc = "zeroing" => b = 0
  /\ pc = "launching" => b < BlockCount
  /\ pc \notin {"start", "idle"} => calls < MaxCalls
TypeInv == TypeOK /\ HostInv

LEMMA WholeSumsType == ASSUME NEW initial \in BOOLEAN, NEW n \in Nat
                      PROVE  WholeSums(initial, n) \in [initial : BOOLEAN, times : [Nonzero -> Nat]]
  BY DEF WholeSums

LEMMA ContentType == ASSUME held \in [initial : BOOLEAN, times : [Nonzero -> Nat]]
                    PROVE  Content \in [initial : BOOLEAN, times : [Nonzero -> Nat]]
  <1>1. [x \in Nonzero |-> held.times[x] + (IF x \in output THEN 1 ELSE 0)] \in [Nonzero -> Nat]
    OBVIOUS
  <1> QED
    BY <1>1 DEF Content

LEMMA TypeInvInit == Init => TypeInv
  <1> SUFFICES ASSUME Init
               PROVE  TypeInv
    OBVIOUS
  <1>1. slot \in [Stream -> Seq(Value)] /\ queue \in [Stream -> Seq(Work)]
    BY EmptySeq DEF Init
  <1>2. partial \in [Stream -> [Partition -> SUBSET Value]]
    BY DEF Init
  <1>3. calls \in 0 .. MaxCalls /\ b \in 0 .. BlockCount /\ b = 0 /\ short \in BOOLEAN
    BY HostAssumption, CallAssumption DEF Init
  <1>4. /\ merged \in [Stream -> SUBSET Value] /\ output \subseteq Value
        /\ held \in [initial : BOOLEAN, times : [Nonzero -> Nat]]
    BY WholeSumsType DEF Init
  <1> QED
    BY <1>1, <1>2, <1>3, <1>4 DEF Init, TypeInv, TypeOK, HostInv

LEMMA TypeInvStep == TypeInv /\ [Next]_blcoVars => TypeInv'
  <1> SUFFICES ASSUME TypeInv, [Next]_blcoVars
               PROVE  TypeInv'
    OBVIOUS
  <1> USE StreamCountPositive, HostAssumption, CallAssumption, LaunchAssumption
  <1>a. TypeOK /\ HostInv
    BY DEF TypeInv
  <1>1. CASE Prepare
    <2>1. PICK c \in [Stream -> UNION {CapacityOf(s) : s \in Stream}] :
            /\ \A s \in Stream : c[s] \in CapacityOf(s)
            /\ cap' = c
            /\ IF StreamData
                 THEN /\ slot' = [s \in Stream |-> [i \in 1 .. c[s] |-> Garbage]]
                      /\ blockNnz' = c
                      /\ fault' = (GenReadsPastBlocks \/ WarpInfoOverflows(c))
                 ELSE /\ slot' = [s \in Stream |->
                                    Overwrite([i \in 1 .. c[s] |-> Garbage], s)]
                      /\ blockNnz' = [s \in Stream |-> Len(HostBlock[s])]
                      /\ fault' = ((GenReadsPastBlocks \/ WarpInfoOverflows(c))
                                     \/ \E s \in Stream : c[s] < Len(HostBlock[s]))
      BY <1>1 DEF Prepare
    <2>2. c \in [Stream -> Nat]
      BY <2>1, CapacityIsNat
    <2>3. ~StreamData => Stream = HostBlocks
      BY DEF Stream, StreamCount, HostBlocks
    <2>4. slot' \in [Stream -> Seq(Value)]
      <3>1. \A s \in Stream : [i \in 1 .. c[s] |-> Garbage] \in [1 .. c[s] -> Value]
        BY DEF Value
      <3>2. \A s \in Stream : [i \in 1 .. c[s] |-> Garbage] \in Seq(Value)
        BY <2>2, <3>1, FilledIsSeq
      <3>3. CASE StreamData
        BY <2>1, <3>2, <3>3
      <3>4. CASE ~StreamData
        <4>1. \A s \in Stream : Overwrite([i \in 1 .. c[s] |-> Garbage], s) \in Seq(Value)
          <5> SUFFICES ASSUME NEW s \in Stream
                       PROVE  Overwrite([i \in 1 .. c[s] |-> Garbage], s) \in Seq(Value)
            OBVIOUS
          <5> DEFINE empty == [i \in 1 .. c[s] |-> Garbage]
          <5>1. c[s] \in Nat /\ s \in HostBlocks /\ empty \in [1 .. c[s] -> Value]
            BY <2>2, <2>3, <3>1, <3>4
          <5> HIDE DEF empty
          <5>2. Overwrite(empty, s) \in [1 .. c[s] -> Value]
            BY <5>1, OverwriteType
          <5>3. Overwrite(empty, s) \in Seq(Value)
            BY <5>1, <5>2, FilledIsSeq
          <5> QED
            BY <5>3 DEF empty
        <4> QED
          BY <2>1, <4>1, <3>4, ZenonT(30)
      <3> QED
        BY <3>3, <3>4
    <2>5. blockNnz' \in [Stream -> Nat]
      BY <2>1, <2>2, <2>3, HostBlockLen
    <2>6. fault' \in BOOLEAN
      BY <2>1
    <2> QED
      BY <1>1, <1>a, <2>1, <2>2, <2>4, <2>5, <2>6 DEF Prepare, TypeInv, TypeOK, HostInv
  <1>2. ASSUME NEW k \in ModeKinds, BeginCall(k)
        PROVE  TypeInv'
    <2>1. ZeroPartials \in Work
      BY DEF ZeroPartials, Work, HostBlocks
    <2>2. queue' \in [Stream -> Seq(Work)]
      <3>1. queue \in [Stream -> Seq(Work)]
        BY <1>a DEF TypeOK
      <3>2. [s \in Stream |-> Append(queue[s], ZeroPartials)] \in [Stream -> Seq(Work)]
        BY <2>1, <3>1, AppendType
      <3>3. queue' \in {queue, [s \in Stream |-> Append(queue[s], ZeroPartials)]}
        BY <1>2 DEF BeginCall
      <3> QED
        BY <3>1, <3>2, <3>3
    <2>3. held' \in [initial : BOOLEAN, times : [Nonzero -> Nat]]
      <3>1. Content \in [initial : BOOLEAN, times : [Nonzero -> Nat]]
        BY <1>a, ContentType DEF TypeOK
      <3>2. held' \in {WholeSums(FALSE, 0), Content}
        BY <1>2 DEF BeginCall
      <3>3. WholeSums(FALSE, 0) \in [initial : BOOLEAN, times : [Nonzero -> Nat]]
        BY WholeSumsType
      <3> QED
        BY <3>1, <3>2, <3>3, Zenon
    <2>4. /\ pc = "idle" /\ calls < MaxCalls /\ short' = k /\ b' = 0 /\ output' = {}
          /\ pc' \in {"zeroing", "launching"} /\ default' \in {"none", "zero", default}
          /\ calls' = calls /\ cap' = cap /\ blockNnz' = blockNnz /\ staged' = staged
          /\ slot' = slot /\ finished' = finished /\ partial' = partial
          /\ merged' = merged /\ fault' = fault /\ exact' = exact
      BY <1>2 DEF BeginCall
    <2>5. TypeOK'
      BY <1>a, <2>2, <2>3, <2>4 DEF TypeOK
    <2>6. HostInv'
      BY <2>4 DEF HostInv
    <2> QED
      BY <2>5, <2>6 DEF TypeInv
  <1>3. CASE SyncZero
    BY <1>3, <1>a DEF SyncZero, TypeInv, TypeOK, HostInv, memory
  <1>4. CASE LaunchBlock
    <2>1. b \in HostBlocks
      BY <1>4, <1>a DEF LaunchBlock, TypeOK, HostInv, HostBlocks
    <2>2. StreamOf(b) \in Stream
      <3>1. BlockCount + b \in Nat
        BY <2>1 DEF HostBlocks
      <3> QED
        BY <3>1, RemainderBound DEF StreamOf, Stream
    <2> DEFINE s == StreamOf(b)
               nnz == IF StreamData THEN Len(HostBlock[b]) ELSE blockNnz[s]
               copy == IF StreamData THEN <<CopyBlock(b)>> ELSE <<>>
    <2>3. nnz \in Nat
      BY <1>a, <2>1, <2>2, HostBlockLen DEF TypeOK
    <2>4. queue' = [queue EXCEPT ![s] = @ \o copy \o <<LaunchKernel(b, nnz)>>]
      BY <1>4 DEF LaunchBlock
    <2>5. blockNnz' = [blockNnz EXCEPT ![s] = nnz]
      BY <1>4 DEF LaunchBlock
    <2>6. copy \in Seq(Work) /\ <<LaunchKernel(b, nnz)>> \in Seq(Work)
      <3> HIDE DEF s, nnz
      <3>1. CopyBlock(b) \in Work /\ LaunchKernel(b, nnz) \in Work
        BY <2>1, <2>3 DEF CopyBlock, LaunchKernel, Work
      <3>2. <<CopyBlock(b)>> \in Seq(Work) /\ <<>> \in Seq(Work)
        BY <3>1
      <3>3. <<LaunchKernel(b, nnz)>> \in Seq(Work)
        BY <3>1
      <3> QED
        BY <3>2, <3>3
    <2> HIDE DEF s, nnz, copy
    <2>7. queue' \in [Stream -> Seq(Work)]
      BY <1>a, <2>4, <2>6, ConcatProperties DEF TypeOK
    <2>8. blockNnz' \in [Stream -> Nat]
      BY <1>a, <2>3, <2>5 DEF TypeOK
    <2>9. /\ b' = b + 1 /\ pc' = IF b + 1 = BlockCount THEN "merging" ELSE "launching"
          /\ calls' = calls /\ short' = short /\ cap' = cap /\ staged' = staged
          /\ default' = default /\ finished' = finished /\ slot' = slot /\ partial' = partial
          /\ merged' = merged /\ held' = held /\ output' = output
          /\ fault' = fault /\ exact' = exact
      BY <1>4 DEF LaunchBlock, memory
    <2>10. b' \in 0 .. BlockCount /\ (pc' = "launching" => b' < BlockCount)
      BY <2>1, <2>9 DEF HostBlocks
    <2>11. TypeOK'
      BY <1>a, <2>7, <2>8, <2>9, <2>10 DEF TypeOK
    <2>12. HostInv'
      BY <1>4, <1>a, <2>9, <2>10 DEF LaunchBlock, HostInv
    <2> QED
      BY <2>11, <2>12 DEF TypeInv
  <1>5. CASE LaunchAll
    <2>1. LaunchBatch \in Work
      BY DEF LaunchBatch, Work, HostBlocks
    <2>2. queue' \in [Stream -> Seq(Work)]
      BY <1>5, <1>a, <2>1, AppendType, ZeroIsStream DEF LaunchAll, TypeOK
    <2> QED
      BY <1>5, <1>a, <2>2 DEF LaunchAll, TypeInv, TypeOK, HostInv, memory
  <1>6. CASE Merge
    <2>1. ReducePartials \in Work
      BY DEF ReducePartials, Work, HostBlocks
    <2>2. queue' \in [Stream -> Seq(Work)]
      <3>1. queue \in [Stream -> Seq(Work)]
        BY <1>a DEF TypeOK
      <3>2. [s \in Stream |-> Append(queue[s], ReducePartials)] \in [Stream -> Seq(Work)]
        BY <2>1, <3>1, AppendType
      <3>3. queue' \in {queue, [s \in Stream |-> Append(queue[s], ReducePartials)]}
        BY <1>6 DEF Merge
      <3> QED
        BY <3>1, <3>2, <3>3
    <2> QED
      BY <1>6, <1>a, <2>2 DEF Merge, TypeInv, TypeOK, HostInv, memory
  <1>7. CASE EndCall
    BY <1>7, <1>a DEF EndCall, TypeInv, TypeOK, HostInv, memory
  <1>8. ASSUME NEW s \in Stream, Zero(s)
        PROVE  TypeInv'
    <2>1. queue' \in [Stream -> Seq(Work)]
      BY <1>8, <1>a, PopType DEF Zero, AtHead
    <2> QED
      BY <1>8, <1>a, <2>1 DEF Zero, TypeInv, TypeOK, HostInv, host
  <1>9. ASSUME NEW s \in Stream, Copy(s)
        PROVE  TypeInv'
    <2>1. queue' \in [Stream -> Seq(Work)]
      BY <1>9, <1>a, PopType DEF Copy, AtHead
    <2>2. Head(queue[s]).src \in HostBlocks
      BY <1>9, <1>a, HeadSource DEF Copy, AtHead
    <2>3. slot[s] \in [1 .. Len(slot[s]) -> Value] /\ Len(slot[s]) \in Nat
      BY <1>a, LenProperties DEF TypeOK
    <2>4. Overwrite(slot[s], Head(queue[s]).src) \in Seq(Value)
      <3>1. Overwrite(slot[s], Head(queue[s]).src) \in [1 .. Len(slot[s]) -> Value]
        BY <2>2, <2>3, OverwriteType
      <3> QED
        BY <3>1, <2>3, FilledIsSeq
    <2>5. slot' \in [Stream -> Seq(Value)]
      BY <1>9, <1>a, <2>4 DEF Copy, TypeOK
    <2> QED
      BY <1>9, <1>a, <2>1, <2>5 DEF Copy, TypeInv, TypeOK, HostInv, host
  <1>10. ASSUME NEW s \in Stream, RunThreadBlock(s)
         PROVE  TypeInv'
    <2>1. PICK t \in ThreadBlocks(s) :
            LET mem == slot[t.block]
                read == IF FollowsBlockMasks THEN {} ELSE (t.lo .. t.hi) \intersect DOMAIN mem
                vals == {mem[i] : i \in read}
            IN /\ finished' = [finished EXCEPT ![s] = @ \union {t}]
               /\ fault' \in BOOLEAN
               /\ exact' \in BOOLEAN
               /\ IF UsesPartials(short)
                    THEN /\ partial' = [partial EXCEPT ![s][t.part] = @ \union vals]
                         /\ UNCHANGED output
                    ELSE /\ output' = output \union vals
                         /\ UNCHANGED partial
      BY <1>10 DEF RunThreadBlock
    <2> DEFINE mem == slot[t.block]
               read == IF FollowsBlockMasks THEN {} ELSE (t.lo .. t.hi) \intersect DOMAIN mem
               vals == {mem[i] : i \in read}
    <2>2. mem \in Seq(Value)
      BY <1>10, <1>a, <2>1, ThreadBlocksReadDeviceBlocks DEF RunThreadBlock, TypeOK
    <2>3. vals \subseteq Value
      BY <2>2, LenProperties, ElementOfSeq
    <2>4. partial' \in [Stream -> [Partition -> SUBSET Value]] /\ output' \subseteq Value
      <3> HIDE DEF vals
      <3>1. CASE UsesPartials(short)
        <4>1. partial' = [partial EXCEPT ![s][t.part] = @ \union vals] /\ output' = output
          BY <2>1, <3>1 DEF vals
        <4> DEFINE row == [partial[s] EXCEPT ![t.part] = @ \union vals]
        <4>2. partial' = [partial EXCEPT ![s] = row]
          BY <4>1
        <4>3. row \in [Partition -> SUBSET Value]
          <5>1. partial[s] \in [Partition -> SUBSET Value]
            BY <1>a DEF TypeOK
          <5> QED
            BY <5>1, <2>3
        <4> HIDE DEF row
        <4> QED
          <5>1. partial \in [Stream -> [Partition -> SUBSET Value]] /\ output' \subseteq Value
            BY <4>1, <1>a DEF TypeOK
          <5> QED
            BY <4>2, <4>3, <5>1
      <3>2. CASE ~UsesPartials(short)
        <4>1. partial' = partial /\ output' = output \union vals
          BY <2>1, <3>2 DEF vals
        <4> QED
          BY <4>1, <1>a, <2>3 DEF TypeOK
      <3> QED
        BY <3>1, <3>2
    <2>5. DOMAIN finished' = Stream
      BY <1>a, <2>1 DEF TypeOK
    <2>6. {fault', exact'} \subseteq BOOLEAN
      BY <2>1
    <2> QED
      BY <1>10, <1>a, <2>4, <2>5, <2>6 DEF RunThreadBlock, TypeInv, TypeOK, HostInv, host
  <1>11. ASSUME NEW s \in Stream, Retire(s)
         PROVE  TypeInv'
    <2>1. queue' \in [Stream -> Seq(Work)]
      BY <1>11, <1>a, PopType DEF Retire, RunningKernel, AtHead
    <2> QED
      BY <1>11, <1>a, <2>1 DEF Retire, TypeInv, TypeOK, HostInv, host, memory
  <1>12. ASSUME NEW s \in Stream, Reduce(s)
         PROVE  TypeInv'
    <2>1. queue' \in [Stream -> Seq(Work)]
      BY <1>12, <1>a, PopType DEF Reduce, AtHead
    <2>2. Reduced(partial[s]) \subseteq Value
      BY <1>a, ReducedType DEF TypeOK
    <2>3. merged' \in [Stream -> SUBSET Value]
      BY <1>12, <1>a, <2>2 DEF Reduce, TypeOK
    <2>4. exact' \in BOOLEAN
      BY <1>12 DEF Reduce
    <2> QED
      BY <1>12, <1>a, <2>1, <2>3, <2>4 DEF Reduce, TypeInv, TypeOK, HostInv, host
  <1>13. CASE DefaultZero
    BY <1>13, <1>a DEF DefaultZero, TypeInv, TypeOK, HostInv, host
  <1>14. CASE DefaultReduce
    <2>1. 0 \in Stream
      BY ZeroIsStream
    <2>2. Reduced(merged) \subseteq Value /\ Reduced(partial[0]) \subseteq Value
      BY <1>a, <2>1, ReducedType DEF TypeOK
    <2>3. output' \subseteq Value /\ exact' \in BOOLEAN
      BY <1>14, <1>a, <2>2 DEF DefaultReduce, TypeOK
    <2> QED
      BY <1>14, <1>a, <2>3 DEF DefaultReduce, TypeInv, TypeOK, HostInv, host
  <1>15. CASE UNCHANGED blcoVars \/ Stop
    BY <1>15, <1>a DEF blcoVars, Stop, TypeInv, TypeOK, HostInv, host, memory
  <1> QED
    BY <1>1, <1>2, <1>3, <1>4, <1>5, <1>6, <1>7, <1>8, <1>9, <1>10, <1>11,
       <1>12, <1>13, <1>14, <1>15 DEF Next, Host, Device

\* The types of the variables hold in every behaviour: the queues hold work
\* the device knows, the host never launches past the last block, and no
\* buffer holds anything but sums of what was read.
THEOREM Typing == Spec => []TypeOK
  <1>1. TypeInv => TypeOK
    BY DEF TypeInv
  <1> QED
    BY <1>1, TypeInvInit, TypeInvStep, PTL DEF Spec

-------------------------------------------------------------------------------
(* Streaming. *)

\* Device memory mem begins with host block blk.
Holds(mem, blk) ==
  \A i \in 1 .. Len(HostBlock[blk]) : mem[i] = HostBlock[blk][i]

\* In q, the work left of a stream whose device block holds mem, a kernel is
\* directly behind its copy, or first when the copy has run.
WellFed(q, mem) ==
  \A i \in 1 .. Len(q) : q[i].kind = "kernel" =>
    /\ q[i].nnz = Len(HostBlock[q[i].src])
    /\ i = 1 => Holds(mem, q[i].src)
    /\ i > 1 => q[i - 1].kind = "copy" /\ q[i - 1].src = q[i].src

LEMMA AppendWellFed ==
  ASSUME NEW q \in Seq(Work), NEW w \in Work, w.kind # "kernel", NEW mem, WellFed(q, mem)
  PROVE  WellFed(Append(q, w), mem)
  <1> DEFINE r == Append(q, w)
  <1>1. /\ Len(r) = Len(q) + 1 /\ Len(q) \in Nat
        /\ \A i \in 1 .. Len(q) : r[i] = q[i]
        /\ r[Len(q) + 1] = w
    OBVIOUS
  <1> HIDE DEF r
  <1>2. WellFed(r, mem)
    BY <1>1 DEF WellFed
  <1> QED
    BY <1>2 DEF r

LEMMA LaunchWellFed ==
  ASSUME NEW q \in Seq(Work), NEW blk \in HostBlocks, NEW mem, WellFed(q, mem)
  PROVE  WellFed(q \o <<CopyBlock(blk)>> \o <<LaunchKernel(blk, Len(HostBlock[blk]))>>, mem)
  <1> DEFINE c == CopyBlock(blk)
             k == LaunchKernel(blk, Len(HostBlock[blk]))
             r == q \o <<c>> \o <<k>>
  <1>1. /\ c \in Work /\ c.kind = "copy" /\ c.src = blk
        /\ k \in Work /\ k.kind = "kernel" /\ k.src = blk /\ k.nnz = Len(HostBlock[blk])
    BY HostBlockLen DEF CopyBlock, LaunchKernel, Work
  <1> HIDE DEF c, k
  <1>2. /\ Len(q) \in Nat /\ Len(r) = Len(q) + 2
        /\ \A i \in 1 .. Len(q) : r[i] = q[i]
        /\ r[Len(q) + 1] = c /\ r[Len(q) + 2] = k
    BY <1>1
  <1> HIDE DEF r
  <1>3. ASSUME NEW i \in 1 .. Len(r), r[i].kind = "kernel"
        PROVE  /\ r[i].nnz = Len(HostBlock[r[i].src])
               /\ i = 1 => Holds(mem, r[i].src)
               /\ i > 1 => r[i - 1].kind = "copy" /\ r[i - 1].src = r[i].src
    <2>1. CASE i \in 1 .. Len(q)
      <3>1. r[i] = q[i] /\ (i > 1 => r[i - 1] = q[i - 1])
        BY <1>2, <2>1
      <3> QED
        BY <1>3, <2>1, <3>1 DEF WellFed
    <2>2. CASE i = Len(q) + 1
      BY <1>1, <1>2, <1>3, <2>2
    <2>3. CASE i = Len(q) + 2
      <3>1. i > 1 /\ i - 1 = Len(q) + 1
        BY <1>2, <2>3
      <3> QED
        BY <1>1, <1>2, <2>3, <3>1
    <2> QED
      BY <1>2, <2>1, <2>2, <2>3
  <1>4. WellFed(r, mem)
    BY <1>3 DEF WellFed
  <1> QED
    BY <1>4 DEF r, c, k

LEMMA TailWellFed ==
  ASSUME NEW q \in Seq(Work), q # <<>>, NEW mem, NEW after, WellFed(q, mem),
         Head(q).kind = "copy" => Holds(after, Head(q).src)
  PROVE  WellFed(Tail(q), after)
  <1> DEFINE r == Tail(q)
  <1>1. /\ Len(r) = Len(q) - 1 /\ Len(q) \in Nat
        /\ \A i \in 1 .. Len(r) : r[i] = q[i + 1]
        /\ Head(q) = q[1]
    BY HeadTailProperties
  <1> HIDE DEF r
  <1>2. ASSUME NEW i \in 1 .. Len(r), r[i].kind = "kernel"
        PROVE  /\ r[i].nnz = Len(HostBlock[r[i].src])
               /\ i = 1 => Holds(after, r[i].src)
               /\ i > 1 => r[i - 1].kind = "copy" /\ r[i - 1].src = r[i].src
    <2>1. i + 1 \in 1 .. Len(q) /\ i + 1 > 1 /\ (i + 1) - 1 = i
      BY <1>1
    <2>2. /\ q[i + 1].nnz = Len(HostBlock[q[i + 1].src])
          /\ q[i].kind = "copy" /\ q[i].src = q[i + 1].src
      BY <1>1, <1>2, <2>1 DEF WellFed
    <2>3. i > 1 => r[i - 1] = q[i]
      BY <1>1
    <2> QED
      BY <1>1, <2>2, <2>3
  <1>3. WellFed(r, after)
    BY <1>2 DEF WellFed
  <1> QED
    BY <1>3 DEF r

LEMMA OverwriteHolds ==
  ASSUME NEW blk \in HostBlocks, NEW mem \in Seq(Value), Len(mem) = MaxBlockSize
  PROVE  /\ Holds(Overwrite(mem, blk), blk)
         /\ Len(Overwrite(mem, blk)) = MaxBlockSize
  <1> DEFINE over == Overwrite(mem, blk)
             n == Len(HostBlock[blk])
  <1>1. n \in 1 .. MaxBlockSize /\ MaxBlockSize \in Nat
    BY HostAssumption
  <1>2. mem \in [1 .. MaxBlockSize -> Value]
    BY LenProperties
  <1>3. over \in [1 .. MaxBlockSize -> Value]
    BY <1>1, <1>2, OverwriteType
  <1>4. \A i \in 1 .. n : over[i] = HostBlock[blk][i]
    BY <1>1, <1>2 DEF Overwrite
  <1> HIDE DEF over
  <1>5. Len(over) = MaxBlockSize
    BY <1>1, <1>3, FilledIsSeq
  <1> QED
    BY <1>4, <1>5 DEF over, Holds
-------------------------------------------------------------------------------
(* The discipline in every behaviour. *)

StreamInv ==
  /\ TypeInv
  /\ pc = "start" => \A s \in Stream : queue[s] = <<>>
  /\ pc # "start" => \A s \in Stream : cap[s] = MaxBlockSize /\ Len(slot[s]) = MaxBlockSize
  /\ \A s \in Stream : WellFed(queue[s], slot[s])

LEMMA BenchmarkCapacity ==
  ASSUME StreamData, CallSite = "mttkrp_alto_dev", NEW s \in Stream
  PROVE  CapacityOf(s) = {MaxBlockSize}
  BY HostAssumption DEF CapacityOf, Gen, RequestedSize

\* Finished work leaves the queue of stream s; only a copy changes the slot.
LEMMA PopKeepsDiscipline ==
  ASSUME StreamInv, NEW s \in Stream, queue[s] # <<>>, Pop(s), pc' = pc, cap' = cap, TypeInv',
         \/ slot' = slot /\ Head(queue[s]).kind # "copy"
         \/ slot' = [slot EXCEPT ![s] = Overwrite(@, Head(queue[s]).src)]
  PROVE  StreamInv'
  <1>1. TypeOK /\ pc # "start"
    BY DEF StreamInv, TypeInv
  <1>2. queue[s] \in Seq(Work) /\ slot[s] \in Seq(Value) /\ Len(slot[s]) = MaxBlockSize
    BY <1>1 DEF TypeOK, StreamInv
  <1>3. Head(queue[s]).src \in HostBlocks
    BY <1>1, HeadSource
  <1>4. /\ queue'[s] = Tail(queue[s])
        /\ \A r \in Stream \ {s} : queue'[r] = queue[r] /\ slot'[r] = slot[r]
    BY <1>1 DEF Pop, TypeOK
  <1>5. \/ slot'[s] = slot[s] /\ Head(queue[s]).kind # "copy"
        \/ slot'[s] = Overwrite(slot[s], Head(queue[s]).src)
    BY <1>1 DEF TypeOK
  <1>6. /\ Head(queue[s]).kind = "copy" => Holds(slot'[s], Head(queue[s]).src)
        /\ Len(slot'[s]) = MaxBlockSize
    BY <1>2, <1>3, <1>5, OverwriteHolds
  <1>7. WellFed(queue[s], slot[s])
    BY DEF StreamInv
  <1>8. WellFed(queue'[s], slot'[s])
    BY <1>2, <1>4, <1>6, <1>7, TailWellFed
  <1>9. \A r \in Stream : WellFed(queue'[r], slot'[r]) /\ Len(slot'[r]) = MaxBlockSize
    BY <1>1, <1>4, <1>6, <1>8 DEF StreamInv
  <1> QED
    BY <1>1, <1>9 DEF StreamInv

LEMMA StreamInvInit == Init => StreamInv
  <1> SUFFICES ASSUME Init
               PROVE  StreamInv
    OBVIOUS
  <1>1. TypeInv
    BY TypeInvInit
  <1>2. \A s \in Stream : queue[s] = <<>> /\ slot[s] = <<>>
    BY DEF Init
  <1>3. \A s \in Stream : Len(queue[s]) = 0
    BY <1>2, EmptySeq
  <1> QED
    BY <1>1, <1>2, <1>3 DEF Init, StreamInv, WellFed

LEMMA StreamInvStep ==
  ASSUME StreamData, CallSite = "mttkrp_alto_dev", StreamInv, [Next]_blcoVars
  PROVE  StreamInv'
  <1>1. TypeInv' /\ TypeOK
    BY TypeInvStep DEF StreamInv, TypeInv
  <1>q. \A s \in Stream : queue[s] \in Seq(Work) /\ WellFed(queue[s], slot[s])
    BY <1>1 DEF TypeOK, StreamInv
  <1>2. CASE Prepare
    <2>1. PICK c \in [Stream -> UNION {CapacityOf(s) : s \in Stream}] :
            /\ \A s \in Stream : c[s] \in CapacityOf(s)
            /\ cap' = c
            /\ slot' = [s \in Stream |-> [i \in 1 .. c[s] |-> Garbage]]
      BY <1>2 DEF Prepare
    <2>2. \A s \in Stream : c[s] = MaxBlockSize
      BY <2>1, BenchmarkCapacity
    <2>3. \A s \in Stream : slot'[s] = [i \in 1 .. MaxBlockSize |-> Garbage]
      BY <2>1, <2>2
    <2>4. \A s \in Stream : Len(slot'[s]) = MaxBlockSize
      <3>1. [i \in 1 .. MaxBlockSize |-> Garbage] \in [1 .. MaxBlockSize -> Value]
        BY DEF Value
      <3> DEFINE empty == [i \in 1 .. MaxBlockSize |-> Garbage]
      <3> HIDE DEF empty
      <3>2. Len(empty) = MaxBlockSize
        BY <3>1, HostAssumption, FilledIsSeq DEF empty
      <3> QED
        BY <2>3, <3>2 DEF empty
    <2>5. \A s \in Stream : queue'[s] = <<>> /\ Len(<<>>) = 0
      BY <1>2, EmptySeq DEF Prepare, StreamInv
    <2>6. \A s \in Stream : WellFed(queue'[s], slot'[s])
      BY <2>5 DEF WellFed
    <2>7. pc' # "start" /\ \A s \in Stream : cap'[s] = MaxBlockSize
      BY <1>2, <2>1, <2>2 DEF Prepare
    <2> QED
      BY <1>1, <2>4, <2>6, <2>7 DEF StreamInv
  <1>3. ASSUME NEW k \in ModeKinds, BeginCall(k)
        PROVE  StreamInv'
    <2>1. pc # "start" /\ pc' # "start" /\ cap' = cap /\ slot' = slot
      BY <1>3 DEF BeginCall
    <2>2. ZeroPartials \in Work /\ ZeroPartials.kind # "kernel"
      BY HostAssumption DEF ZeroPartials, Work, HostBlocks
    <2>3. \A s \in Stream : queue'[s] \in {queue[s], Append(queue[s], ZeroPartials)}
      BY <1>1, <1>3 DEF BeginCall, TypeOK
    <2>4. \A s \in Stream : WellFed(queue'[s], slot'[s])
      BY <1>q, <2>1, <2>2, <2>3, AppendWellFed
    <2> QED
      BY <1>1, <2>1, <2>4 DEF StreamInv
  <1>4. CASE LaunchBlock
    <2> DEFINE s == StreamOf(b)
    <2>1. pc # "start" /\ pc' # "start" /\ cap' = cap /\ slot' = slot
      BY <1>4 DEF LaunchBlock, memory
    <2>2. b \in HostBlocks
      BY <1>4, HostAssumption DEF LaunchBlock, StreamInv, TypeInv, TypeOK, HostInv, HostBlocks
    <2>3. queue' = [queue EXCEPT ![s] = @ \o <<CopyBlock(b)>>
                                          \o <<LaunchKernel(b, Len(HostBlock[b]))>>]
      BY <1>4 DEF LaunchBlock
    <2> HIDE DEF s
    <2>4. \A r \in Stream :
            \/ queue'[r] = queue[r]
            \/ queue'[r] = queue[r] \o <<CopyBlock(b)>>
                                    \o <<LaunchKernel(b, Len(HostBlock[b]))>>
      BY <1>1, <2>3 DEF TypeOK
    <2>5. \A r \in Stream : queue[r] \in Seq(Work) /\ WellFed(queue[r], slot[r])
      BY <1>1 DEF TypeOK, StreamInv
    <2>6. \A r \in Stream : WellFed(queue'[r], slot'[r])
      BY <2>1, <2>2, <2>4, <2>5, LaunchWellFed
    <2> QED
      BY <1>1, <2>1, <2>6 DEF StreamInv
  <1>5. CASE LaunchAll
    <2>1. pc # "start" /\ pc' # "start" /\ cap' = cap /\ slot' = slot
      BY <1>5 DEF LaunchAll, memory
    <2>2. LaunchBatch \in Work /\ LaunchBatch.kind # "kernel"
      BY HostAssumption DEF LaunchBatch, Work, HostBlocks
    <2>3. \A s \in Stream : queue'[s] \in {queue[s], Append(queue[s], LaunchBatch)}
      BY <1>1, <1>5 DEF LaunchAll, TypeOK
    <2>4. \A s \in Stream : WellFed(queue'[s], slot'[s])
      BY <1>q, <2>1, <2>2, <2>3, AppendWellFed
    <2> QED
      BY <1>1, <2>1, <2>4 DEF StreamInv
  <1>6. CASE Merge
    <2>1. pc # "start" /\ pc' # "start" /\ cap' = cap /\ slot' = slot
      BY <1>6 DEF Merge, memory
    <2>2. ReducePartials \in Work /\ ReducePartials.kind # "kernel"
      BY HostAssumption DEF ReducePartials, Work, HostBlocks
    <2>3. \A s \in Stream : queue'[s] \in {queue[s], Append(queue[s], ReducePartials)}
      BY <1>1, <1>6 DEF Merge, TypeOK
    <2>4. \A s \in Stream : WellFed(queue'[s], slot'[s])
      BY <1>q, <2>1, <2>2, <2>3, AppendWellFed
    <2> QED
      BY <1>1, <2>1, <2>4 DEF StreamInv
  <1>7. CASE SyncZero \/ EndCall \/ DefaultZero \/ DefaultReduce \/ Stop \/ UNCHANGED blcoVars
    <2>1. queue' = queue /\ slot' = slot /\ cap' = cap
      BY <1>7 DEF SyncZero, EndCall, DefaultZero, DefaultReduce, Stop, blcoVars, memory
    <2>2. pc' = "start" <=> pc = "start"
      BY <1>7 DEF SyncZero, EndCall, DefaultZero, DefaultReduce, Stop, blcoVars, host
    <2> QED
      BY <1>1, <2>1, <2>2 DEF StreamInv
  <1>8. ASSUME NEW s \in Stream, Zero(s) \/ Reduce(s) \/ Retire(s) \/ Copy(s)
        PROVE  StreamInv'
    <2>1. queue[s] # <<>> /\ Pop(s) /\ pc' = pc /\ cap' = cap
      BY <1>8 DEF Zero, Reduce, Retire, Copy, RunningKernel, AtHead, host
    <2>2. \/ slot' = slot /\ Head(queue[s]).kind # "copy"
          \/ slot' = [slot EXCEPT ![s] = Overwrite(@, Head(queue[s]).src)]
      BY <1>8 DEF Zero, Reduce, Retire, Copy, RunningKernel, AtHead, memory
    <2> QED
      BY <1>1, <2>1, <2>2, PopKeepsDiscipline
  <1>9. ASSUME NEW s \in Stream, RunThreadBlock(s)
        PROVE  StreamInv'
    <2>1. queue' = queue /\ slot' = slot /\ cap' = cap /\ pc' = pc
      BY <1>9 DEF RunThreadBlock, host
    <2> QED
      BY <1>1, <2>1 DEF StreamInv
  <1> QED
    BY <1>2, <1>3, <1>4, <1>5, <1>6, <1>7, <1>8, <1>9 DEF Next, Host, Device

\* What the queue discipline means for the kernel at the head of a stream.
LEMMA StreamInvMeaning == StreamInv => KernelReadsItsBlock
  <1> SUFFICES ASSUME StreamInv, NEW s \in Stream, AtHead(s, "kernel")
               PROVE  /\ Head(queue[s]).nnz = Len(HostBlock[Head(queue[s]).src])
                      /\ Head(queue[s]).nnz <= Len(slot[s])
                      /\ \A i \in 1 .. Head(queue[s]).nnz :
                           slot[s][i] = HostBlock[Head(queue[s]).src][i]
    BY DEF KernelReadsItsBlock
  <1>1. queue[s] \in Seq(Work) /\ queue[s] # <<>> /\ TypeOK
    BY DEF StreamInv, TypeInv, TypeOK, AtHead
  <1>2. Head(queue[s]) = queue[s][1] /\ 1 \in 1 .. Len(queue[s])
    BY <1>1, EmptySeq
  <1>3. queue[s][1].kind = "kernel"
    BY <1>2 DEF AtHead
  <1>4. /\ queue[s][1].nnz = Len(HostBlock[queue[s][1].src])
        /\ Holds(slot[s], queue[s][1].src)
    BY <1>2, <1>3 DEF StreamInv, WellFed
  <1>5. pc # "start" /\ Len(slot[s]) = MaxBlockSize
    BY <1>1 DEF StreamInv
  <1>6. Len(HostBlock[queue[s][1].src]) <= MaxBlockSize
    BY <1>1, <1>2, HeadSource, HostAssumption
  <1> QED
    BY <1>2, <1>4, <1>5, <1>6 DEF Holds

\* With streaming, however many blocks share a stream and however far the host
\* has run ahead, the kernel at the head of a stream finds its own block in
\* device memory, whole: send_block_over may reuse blk for the next block.
THEOREM StreamedKernelsReadTheirBlocks ==
  ASSUME StreamData, CallSite = "mttkrp_alto_dev"
  PROVE  Spec => []KernelReadsItsBlock
  <1>1. StreamInv /\ [Next]_blcoVars => StreamInv'
    BY StreamInvStep
  <1> QED
    BY <1>1, StreamInvInit, StreamInvMeaning, PTL DEF Spec

-------------------------------------------------------------------------------
(* The elements of a thread block. *)

Unbatched == ~DoBatching /\ Kernel \notin {11, 12}

\* The elements of a thread block lie within the nnz its kernel was given.
LEMMA GridStaysInside ==
  ASSUME NEW k \in BOOLEAN, NEW s \in Stream, NEW nnz \in Nat, NEW t \in Grid(k, s, nnz)
  PROVE  t.block = s /\ t.lo .. t.hi \subseteq 1 .. nnz
  <1>1. PICK g \in Nat, start \in Nat, size \in Nat, p \in Nat :
          t = ThreadBlock(g, s, start, size, nnz, p)
    <2>1. /\ TILE_SIZE \in Nat /\ ThreadCf \in Nat /\ Nprtn \in Nat \ {0}
          /\ AtomicThreads \in Nat \ {0} /\ TILE_SIZE * ThreadCf \in Nat
      BY LaunchAssumption
    <2>2. ASSUME NEW chunk \in Nat, t \in ChunkGrid(s, nnz, chunk)
          PROVE  \E g, start, size, p \in Nat : t = ThreadBlock(g, s, start, size, nnz, p)
      <3>1. PICK g \in 0 .. Ceil(nnz, chunk) - 1 :
              t = ThreadBlock(g, s, g * chunk, chunk, nnz, 0)
        BY <2>2 DEF ChunkGrid
      <3>2. g \in Nat /\ g * chunk \in Nat
        OBVIOUS
      <3> QED
        BY <3>1, <3>2
    <2>3. ASSUME t \in AtomicGrid(s, nnz)
          PROVE  \E g, start, size, p \in Nat : t = ThreadBlock(g, s, start, size, nnz, p)
      <3>1. PICK e \in 0 .. nnz - 1 :
              t = ThreadBlock(e % AtomicThreads, s, e, 1, nnz, 0)
        BY <2>3 DEF AtomicGrid
      <3>2. e \in Nat /\ e % AtomicThreads \in Nat
        BY <2>1
      <3> QED
        BY <3>1, <3>2
    <2>4. ASSUME t \in PartitionGrid(s, nnz)
          PROVE  \E g, start, size, p \in Nat : t = ThreadBlock(g, s, start, size, nnz, p)
      <3> DEFINE chunk == TILE_SIZE * ThreadCf
                 blocks == Ceil(Ceil(nnz, Nprtn), chunk)
      <3>1. PICK g \in 0 .. Nprtn * blocks - 1 :
              t = ThreadBlock(g, s, ((g % Nprtn) * blocks + g \div Nprtn) * chunk,
                              chunk, nnz, g % Nprtn)
        BY <2>4 DEF PartitionGrid
      <3>2. g \in Nat /\ g % Nprtn \in Nat /\ g \div Nprtn \in Nat
        BY <2>1
      <3>3. chunk \in Nat \ {0}
        BY LaunchAssumption
      <3>4. blocks \in Nat
        BY <2>1, <3>3, CeilIsNat
      <3> HIDE DEF blocks, chunk
      <3>5. (g % Nprtn) * blocks \in Nat
        BY <3>2, <3>4
      <3>6. ((g % Nprtn) * blocks + g \div Nprtn) * chunk \in Nat
        BY <3>2, <3>3, <3>5
      <3> QED
        BY <3>1, <3>2, <3>3, <3>6
    <2> QED
      BY <2>1, <2>2, <2>3, <2>4 DEF Grid
  <1> QED
    BY <1>1 DEF ThreadBlock, Smaller

-------------------------------------------------------------------------------
(* Division: what the grids of the kernels rest on. *)

LEMMA Division ==
  ASSUME NEW n \in Nat, NEW d \in Nat \ {0}
  PROVE  /\ n \div d \in Nat /\ n % d \in 0 .. d - 1
         /\ n = (n \div d) * d + (n % d)
  <1>0. d \in Nat /\ d > 0
    OBVIOUS
  <1>1. n \div d \in Nat /\ n % d \in 0 .. d - 1
    BY <1>0
  <1>2. d * (n \div d) <= n /\ n - d * (n \div d) = n % d
    BY <1>0
  <1> QED
    BY <1>0, <1>1, <1>2

LEMMA Multiple == ASSUME NEW m \in Nat, NEW n \in Nat, NEW d \in Nat, m < n
                  PROVE  m * d \in Nat /\ n * d \in Nat /\ m * d + d <= n * d
  <1>1. PICK k \in Nat : n = m + 1 + k
    <2>1. n - m - 1 \in Nat /\ n = m + 1 + (n - m - 1)
      OBVIOUS
    <2> QED
      BY <2>1
  <1>2. n * d = m * d + d + k * d /\ k * d \in Nat /\ m * d \in Nat
    BY <1>1
  <1> QED
    BY <1>2

LEMMA LessFactor ==
  ASSUME NEW m \in Nat, NEW n \in Nat, NEW d \in Nat, m * d < n * d
  PROVE  m < n
  <1> SUFFICES ASSUME n <= m PROVE FALSE
    OBVIOUS
  <1>1. CASE n = m
    BY <1>1
  <1>2. CASE n < m
    <2>1. n * d + d <= m * d /\ n * d \in Nat /\ m * d \in Nat
      BY <1>2, Multiple
    <2> QED
      BY <2>1
  <1> QED
    BY <1>1, <1>2

LEMMA CeilCovers ==
  ASSUME NEW n \in Nat, NEW d \in Nat \ {0}
  PROVE  Ceil(n, d) \in Nat /\ Ceil(n, d) * d \in Nat /\ n <= Ceil(n, d) * d
  <1> DEFINE c == (n + d - 1) \div d
             r == (n + d - 1) % d
  <1>1. n + d - 1 \in Nat
    OBVIOUS
  <1>2. c \in Nat /\ r \in 0 .. d - 1 /\ n + d - 1 = c * d + r
    BY <1>1, Division
  <1>3. Ceil(n, d) = c
    BY DEF Ceil
  <1> HIDE DEF c, r
  <1>4. c * d \in Nat
    BY <1>2
  <1> QED
    BY <1>2, <1>3, <1>4

\* Quotient and remainder are unique.
LEMMA DivisionUnique ==
  ASSUME NEW d \in Nat \ {0}, NEW q1 \in Nat, NEW q2 \in Nat,
         NEW r1 \in 0 .. d - 1, NEW r2 \in 0 .. d - 1, q1 * d + r1 = q2 * d + r2
  PROVE  q1 = q2 /\ r1 = r2
  <1>0. q1 * d \in Nat /\ q2 * d \in Nat
    OBVIOUS
  <1>1. CASE q1 < q2
    <2>1. q1 * d + d <= q2 * d
      BY <1>1, Multiple
    <2> QED
      BY <1>0, <2>1
  <1>2. CASE q2 < q1
    <2>1. q2 * d + d <= q1 * d
      BY <1>2, Multiple
    <2> QED
      BY <1>0, <2>1
  <1>3. CASE q1 = q2
    BY <1>0, <1>3
  <1> QED
    BY <1>1, <1>2, <1>3

\* The chunks of a size: element i is in one of the first n, and in no other.
LEMMA ChunkOf ==
  ASSUME NEW d \in Nat \ {0}, NEW n \in Nat, NEW nnz \in Nat, nnz <= n * d, NEW i \in 1 .. nnz
  PROVE  \E g \in 0 .. n - 1 : g * d \in Nat /\ i \in g * d + 1 .. g * d + d
  <1> DEFINE g == (i - 1) \div d
             r == (i - 1) % d
  <1>1. g \in Nat /\ r \in 0 .. d - 1 /\ i - 1 = g * d + r
    <2>1. i - 1 \in Nat
      OBVIOUS
    <2> QED
      BY <2>1, Division
  <1> HIDE DEF g, r
  <1>2. g * d \in Nat /\ n * d \in Nat
    BY <1>1
  <1>3. g * d < n * d
    BY <1>1, <1>2
  <1>4. g < n
    BY <1>1, <1>3, LessFactor
  <1>5. i \in g * d + 1 .. g * d + d
    BY <1>1, <1>2
  <1> QED
    BY <1>1, <1>2, <1>4, <1>5

LEMMA ChunksApart ==
  ASSUME NEW d \in Nat, NEW g \in Nat, NEW h \in Nat, g # h
  PROVE  (g * d + 1 .. g * d + d) \cap (h * d + 1 .. h * d + d) = {}
  <1>0. g * d \in Nat /\ h * d \in Nat
    OBVIOUS
  <1>1. CASE g < h
    <2>1. g * d + d <= h * d
      BY <1>1, Multiple
    <2> QED
      BY <1>0, <2>1
  <1>2. CASE h < g
    <2>1. h * d + d <= g * d
      BY <1>2, Multiple
    <2> QED
      BY <1>0, <2>1
  <1> QED
    BY <1>1, <1>2

\* Consecutive pieces of B chunks each, dealt out to N parts.
Dealt(N, B, g) == (g % N) * B + g \div N

LEMMA DealtType ==
  ASSUME NEW N \in Nat \ {0}, NEW B \in Nat \ {0}, NEW g \in 0 .. N * B - 1
  PROVE  /\ g % N \in 0 .. N - 1 /\ g \div N \in 0 .. B - 1
         /\ Dealt(N, B, g) \in 0 .. N * B - 1
  <1>1. g \in Nat /\ N * B \in Nat
    OBVIOUS
  <1>2. g % N \in 0 .. N - 1 /\ g \div N \in Nat /\ g = (g \div N) * N + (g % N)
    BY <1>1, Division
  <1> DEFINE x == g % N
             y == g \div N
  <1> HIDE DEF x, y
  <1>3. y * N < B * N
    <2>1. y * N \in Nat /\ B * N = N * B
      BY <1>2 DEF y
    <2> QED
      BY <1>1, <1>2, <2>1 DEF x, y
  <1>4. y < B
    BY <1>2, <1>3, LessFactor DEF y
  <1>5. x * B + B <= N * B /\ x * B \in Nat
    BY <1>2, Multiple DEF x
  <1>6. x * B + y \in 0 .. N * B - 1
    BY <1>1, <1>2, <1>4, <1>5 DEF y
  <1> QED
    BY <1>2, <1>4, <1>6 DEF Dealt, x, y

LEMMA DealtInjective ==
  ASSUME NEW N \in Nat \ {0}, NEW B \in Nat \ {0}, NEW g \in 0 .. N * B - 1,
         NEW h \in 0 .. N * B - 1, Dealt(N, B, g) = Dealt(N, B, h)
  PROVE  g = h
  <1>1. g % N \in Nat /\ g \div N \in 0 .. B - 1 /\ h % N \in Nat /\ h \div N \in 0 .. B - 1
    BY DealtType
  <1>2. (g % N) * B + g \div N = (h % N) * B + h \div N
    BY DEF Dealt
  <1>3. g % N = h % N /\ g \div N = h \div N
    BY <1>1, <1>2, DivisionUnique
  <1>4. g \in Nat /\ h \in Nat
    OBVIOUS
  <1>5. g = (g \div N) * N + (g % N)
    BY <1>4, Division
  <1>6. h = (h \div N) * N + (h % N)
    BY <1>4, Division
  <1> QED
    BY <1>3, <1>5, <1>6

LEMMA DealtOnto ==
  ASSUME NEW N \in Nat \ {0}, NEW B \in Nat, NEW c \in 0 .. N * B - 1
  PROVE  \E g \in 0 .. N * B - 1 : Dealt(N, B, g) = c
  <1>0. B \in Nat \ {0} /\ N * B \in Nat /\ c \in Nat
    <2>1. B # 0
      OBVIOUS
    <2> QED
      BY <2>1
  <1> DEFINE x == c \div B
             y == c % B
             g == y * N + x
  <1>1. x \in Nat /\ y \in 0 .. B - 1 /\ c = x * B + y
    BY <1>0, Division
  <1> HIDE DEF x, y
  <1>2. x * B < N * B
    <2>1. x * B \in Nat
      BY <1>0, <1>1
    <2> QED
      BY <1>0, <1>1, <2>1
  <1>3. x \in 0 .. N - 1
    BY <1>0, <1>1, <1>2, LessFactor
  <1>4. g \in 0 .. N * B - 1
    <2>1. y * N + N <= B * N /\ y * N \in Nat
      BY <1>0, <1>1, Multiple
    <2>2. B * N = N * B
      BY <1>0
    <2> QED
      BY <1>0, <1>3, <2>1, <2>2
  <1>5. g % N = x /\ g \div N = y
    <2>1. g \in Nat
      BY <1>0, <1>4
    <2> HIDE DEF g
    <2>2. g \div N \in Nat /\ g % N \in 0 .. N - 1 /\ g = (g \div N) * N + (g % N)
      BY <2>1, Division
    <2>3. (g \div N) * N + (g % N) = y * N + x
      BY <2>2 DEF g
    <2>4. y \in Nat /\ N \in Nat \ {0}
      BY <1>0, <1>1
    <2>5. PICK q \in Nat, r \in 0 .. N - 1 : q = g \div N /\ r = g % N
      BY <2>2
    <2>6. q * N + r = y * N + x
      BY <2>3, <2>5
    <2>7. q = y /\ r = x
      BY <1>3, <2>4, <2>6, DivisionUnique
    <2> QED
      BY <2>5, <2>7
  <1>6. Dealt(N, B, g) = c
    BY <1>1, <1>5 DEF Dealt
  <1> QED
    BY <1>4, <1>6

-------------------------------------------------------------------------------
(* The thread blocks of a launch cut its elements into tiles. *)

\* Each of the elements 1 .. nnz is given to exactly one thread block of T.
Tiles(T, nnz) ==
  /\ \A i \in 1 .. nnz : \E t \in T : i \in t.lo .. t.hi
  /\ \A t, u \in T : t # u => (t.lo .. t.hi) \cap (u.lo .. u.hi) = {}

\* Thread block t takes chunk c of size d.
Takes(t, c, d, nnz) == t.lo = c * d + 1 /\ t.hi = Smaller(nnz, c * d + d)

LEMMA TilesByChunks ==
  ASSUME NEW d \in Nat \ {0}, NEW n \in Nat, NEW nnz \in Nat, nnz <= n * d, NEW T,
         \A c \in 0 .. n - 1 : \E t \in T : Takes(t, c, d, nnz),
         \A t, u \in T : t # u =>
           \E c, e \in 0 .. n - 1 : c # e /\ Takes(t, c, d, nnz) /\ Takes(u, e, d, nnz)
  PROVE  Tiles(T, nnz)
  <1>1. ASSUME NEW i \in 1 .. nnz
        PROVE  \E t \in T : i \in t.lo .. t.hi
    <2>1. PICK c \in 0 .. n - 1 : c * d \in Nat /\ i \in c * d + 1 .. c * d + d
      BY ChunkOf
    <2>2. PICK t \in T : Takes(t, c, d, nnz)
      OBVIOUS
    <2>3. PICK x \in Nat : x = c * d
      BY <2>1
    <2>4. i \in x + 1 .. x + d /\ t.lo = x + 1 /\ t.hi = Smaller(nnz, x + d)
      BY <2>1, <2>2, <2>3 DEF Takes
    <2>5. i \in t.lo .. t.hi
      BY <2>4 DEF Smaller
    <2> QED
      BY <2>5
  <1>2. ASSUME NEW t \in T, NEW u \in T, t # u
        PROVE  (t.lo .. t.hi) \cap (u.lo .. u.hi) = {}
    <2>1. PICK c \in 0 .. n - 1, e \in 0 .. n - 1 :
            c # e /\ Takes(t, c, d, nnz) /\ Takes(u, e, d, nnz)
      BY <1>2
    <2>2. c \in Nat /\ e \in Nat /\ d \in Nat
      OBVIOUS
    <2>3. (c * d + 1 .. c * d + d) \cap (e * d + 1 .. e * d + d) = {}
      BY <2>1, <2>2, ChunksApart
    <2>4. PICK x \in Nat, y \in Nat : x = c * d /\ y = e * d
      BY <2>2
    <2>5. t.lo .. t.hi \subseteq x + 1 .. x + d /\ u.lo .. u.hi \subseteq y + 1 .. y + d
      BY <2>1, <2>4 DEF Takes, Smaller
    <2> QED
      BY <2>3, <2>4, <2>5
  <1> QED
    BY <1>1, <1>2 DEF Tiles

LEMMA ThreadBlockTakes ==
  ASSUME NEW g, NEW s, NEW c \in Nat, NEW d \in Nat, NEW nnz \in Nat, NEW p
  PROVE  /\ Takes(ThreadBlock(g, s, c * d, d, nnz, p), c, d, nnz)
         /\ ThreadBlock(g, s, c * d, d, nnz, p).part = p
  BY DEF ThreadBlock, Takes

LEMMA ChunkTiles ==
  ASSUME NEW s, NEW nnz \in Nat, NEW chunk \in Nat \ {0}
  PROVE  Tiles(ChunkGrid(s, nnz, chunk), nnz)
  <1> DEFINE n == Ceil(nnz, chunk)
             T == ChunkGrid(s, nnz, chunk)
  <1>1. n \in Nat /\ nnz <= n * chunk
    BY CeilCovers
  <1>2. T = {ThreadBlock(g, s, g * chunk, chunk, nnz, 0) : g \in 0 .. n - 1}
    BY DEF ChunkGrid
  <1> HIDE DEF n, T
  <1>3. \A c \in 0 .. n - 1 : \E t \in T : Takes(t, c, chunk, nnz)
    <2> SUFFICES ASSUME NEW c \in 0 .. n - 1
                 PROVE  \E t \in T : Takes(t, c, chunk, nnz)
      OBVIOUS
    <2>1. Takes(ThreadBlock(c, s, c * chunk, chunk, nnz, 0), c, chunk, nnz)
      BY <1>1, ThreadBlockTakes
    <2> QED
      BY <1>2, <2>1
  <1>4. ASSUME NEW t \in T, NEW u \in T, t # u
        PROVE  \E c, e \in 0 .. n - 1 :
                 c # e /\ Takes(t, c, chunk, nnz) /\ Takes(u, e, chunk, nnz)
    <2>1. PICK c \in 0 .. n - 1 : t = ThreadBlock(c, s, c * chunk, chunk, nnz, 0)
      BY <1>2
    <2>2. PICK e \in 0 .. n - 1 : u = ThreadBlock(e, s, e * chunk, chunk, nnz, 0)
      BY <1>2
    <2>3. Takes(t, c, chunk, nnz) /\ Takes(u, e, chunk, nnz)
      BY <1>1, <2>1, <2>2, ThreadBlockTakes
    <2>4. c # e
      BY <1>4, <2>1, <2>2
    <2> QED
      BY <2>3, <2>4
  <1>5. Tiles(T, nnz)
    BY <1>1, <1>3, <1>4, TilesByChunks
  <1> QED
    BY <1>5 DEF T

LEMMA AtomicTiles ==
  ASSUME NEW s, NEW nnz \in Nat
  PROVE  Tiles(AtomicGrid(s, nnz), nnz)
  <1> DEFINE T == AtomicGrid(s, nnz)
  <1>1. T = {ThreadBlock(e % AtomicThreads, s, e, 1, nnz, 0) : e \in 0 .. nnz - 1}
    BY DEF AtomicGrid
  <1> HIDE DEF T
  <1>2. \A c \in 0 .. nnz - 1 :
          Takes(ThreadBlock(c % AtomicThreads, s, c, 1, nnz, 0), c, 1, nnz)
    BY DEF ThreadBlock, Takes
  <1>3. \A c \in 0 .. nnz - 1 : \E t \in T : Takes(t, c, 1, nnz)
    BY <1>1, <1>2
  <1>4. ASSUME NEW t \in T, NEW u \in T, t # u
        PROVE  \E c, e \in 0 .. nnz - 1 : c # e /\ Takes(t, c, 1, nnz) /\ Takes(u, e, 1, nnz)
    <2>1. PICK c \in 0 .. nnz - 1 : t = ThreadBlock(c % AtomicThreads, s, c, 1, nnz, 0)
      BY <1>1
    <2>2. PICK e \in 0 .. nnz - 1 : u = ThreadBlock(e % AtomicThreads, s, e, 1, nnz, 0)
      BY <1>1
    <2>3. Takes(t, c, 1, nnz) /\ Takes(u, e, 1, nnz)
      BY <1>2, <2>1, <2>2
    <2>4. c # e
      BY <1>4, <2>1, <2>2
    <2> QED
      BY <2>3, <2>4
  <1>5. nnz <= nnz * 1 /\ 1 \in Nat \ {0}
    OBVIOUS
  <1>6. Tiles(T, nnz)
    BY <1>3, <1>4, <1>5, TilesByChunks
  <1> QED
    BY <1>6 DEF T

LEMMA PartitionTiles ==
  ASSUME NEW s, NEW nnz \in Nat
  PROVE  /\ Tiles(PartitionGrid(s, nnz), nnz)
         /\ \A t \in PartitionGrid(s, nnz) : t.part \in Partition
  <1> DEFINE chunk == TILE_SIZE * ThreadCf
             share == Ceil(nnz, Nprtn)
             B == Ceil(share, chunk)
             N == Nprtn
             T == PartitionGrid(s, nnz)
  <1>0. chunk \in Nat \ {0} /\ N \in Nat \ {0}
    BY LaunchAssumption
  <1>1. T = {ThreadBlock(g, s, Dealt(N, B, g) * chunk, chunk, nnz, g % N) : g \in 0 .. N * B - 1}
    BY DEF PartitionGrid, Dealt
  <1>2. share \in Nat /\ nnz <= share * N
    BY <1>0, CeilCovers
  <1> HIDE DEF chunk, share
  <1>3. B \in Nat /\ share <= B * chunk
    BY <1>0, <1>2, CeilCovers
  <1> HIDE DEF B, T, N
  <1>4. N * B \in Nat /\ nnz <= (N * B) * chunk
    <2>1. PICK k \in Nat : B * chunk = share + k
      <3>1. B * chunk \in Nat
        BY <1>0, <1>3
      <3>2. B * chunk - share \in Nat /\ B * chunk = share + (B * chunk - share)
        BY <1>2, <1>3, <3>1
      <3> QED
        BY <3>2
    <2>2. (N * B) * chunk = (B * chunk) * N
      BY <1>0, <1>3
    <2>3. (share + k) * N = share * N + k * N /\ k * N \in Nat /\ share * N \in Nat
      BY <1>0, <1>2
    <2>4. N * B \in Nat
      BY <1>0, <1>3
    <2> QED
      BY <1>2, <2>1, <2>2, <2>3, <2>4
  <1>5. ASSUME NEW g \in 0 .. N * B - 1
        PROVE  /\ g % N \in 0 .. N - 1 /\ Dealt(N, B, g) \in 0 .. N * B - 1
               /\ Takes(ThreadBlock(g, s, Dealt(N, B, g) * chunk, chunk, nnz, g % N),
                        Dealt(N, B, g), chunk, nnz)
    <2>1. B \in Nat \ {0}
      <3>1. B # 0
        BY <1>0
      <3> QED
        BY <1>3, <3>1
    <2>2. g % N \in 0 .. N - 1 /\ Dealt(N, B, g) \in 0 .. N * B - 1
      BY <1>0, <2>1, DealtType
    <2>3. Dealt(N, B, g) \in Nat /\ chunk \in Nat
      BY <1>0, <2>2
    <2> QED
      BY <2>2, <2>3, ThreadBlockTakes
  <1>6. ASSUME NEW c \in 0 .. N * B - 1
        PROVE  \E t \in T : Takes(t, c, chunk, nnz)
    <2>1. PICK g \in 0 .. N * B - 1 : Dealt(N, B, g) = c
      BY <1>0, <1>3, DealtOnto
    <2> QED
      BY <1>1, <1>5, <2>1
  <1>7. ASSUME NEW t \in T, NEW u \in T, t # u
        PROVE  \E c, e \in 0 .. N * B - 1 :
                 c # e /\ Takes(t, c, chunk, nnz) /\ Takes(u, e, chunk, nnz)
    <2>1. PICK g \in 0 .. N * B - 1 :
            t = ThreadBlock(g, s, Dealt(N, B, g) * chunk, chunk, nnz, g % N)
      BY <1>1
    <2>2. PICK h \in 0 .. N * B - 1 :
            u = ThreadBlock(h, s, Dealt(N, B, h) * chunk, chunk, nnz, h % N)
      BY <1>1
    <2>3. g # h
      BY <1>7, <2>1, <2>2
    <2>4. B \in Nat \ {0}
      <3>1. B # 0
        BY <1>0
      <3> QED
        BY <1>3, <3>1
    <2>5. Dealt(N, B, g) # Dealt(N, B, h)
      BY <1>0, <2>3, <2>4, DealtInjective
    <2>6. /\ Dealt(N, B, g) \in 0 .. N * B - 1 /\ Takes(t, Dealt(N, B, g), chunk, nnz)
      BY <1>5, <2>1
    <2>7. /\ Dealt(N, B, h) \in 0 .. N * B - 1 /\ Takes(u, Dealt(N, B, h), chunk, nnz)
      BY <1>5, <2>2
    <2> QED
      BY <2>5, <2>6, <2>7
  <1>8. Tiles(T, nnz)
    BY <1>0, <1>4, <1>6, <1>7, TilesByChunks
  <1>9. \A t \in T : t.part \in Partition
    <2> SUFFICES ASSUME NEW t \in T
                 PROVE  t.part \in Partition
      OBVIOUS
    <2>1. PICK g \in 0 .. N * B - 1 :
            t = ThreadBlock(g, s, Dealt(N, B, g) * chunk, chunk, nnz, g % N)
      BY <1>1
    <2>2. t.part = g % N
      BY <2>1 DEF ThreadBlock
    <2> QED
      BY <1>5, <2>2 DEF Partition, N
  <1> QED
    BY <1>8, <1>9 DEF T

\* Every launch gives every element to one thread block, in level 3 with a
\* partial matrix that exists.
LEMMA GridTiles ==
  ASSUME NEW k \in BOOLEAN, NEW s \in Stream, NEW nnz \in Nat
  PROVE  /\ Tiles(Grid(k, s, nnz), nnz)
         /\ UsesPartials(k) => \A t \in Grid(k, s, nnz) : t.part \in Partition
  <1>1. TILE_SIZE \in Nat \ {0} /\ TILE_SIZE * ThreadCf \in Nat \ {0}
    BY LaunchAssumption
  <1>2. UsesPartials(k) => Grid(k, s, nnz) = PartitionGrid(s, nnz)
    BY DEF Grid, UsesPartials
  <1>3. Tiles(Grid(k, s, nnz), nnz)
    BY <1>1, ChunkTiles, AtomicTiles, PartitionTiles DEF Grid
  <1> QED
    BY <1>2, <1>3, PartitionTiles

\* The thread blocks of a batched launch share out every device block.
SharesOut(T) ==
  \A s \in Stream :
    LET mine == {t \in T : t.block = s}
        n == Len(HostBlock[s])
    IN Tiles(mine, n) /\ \A t \in mine : t.lo .. t.hi \subseteq 1 .. n

\* T is one thread block, id[c], for each of the N tiles of device block s.
TileByTile(T, s, nnz, N, id) ==
  /\ \A c \in 0 .. N - 1 : ThreadBlock(id[c], s, c * TILE_SIZE, TILE_SIZE, nnz, 0) \in T
  /\ \A t \in T : \E c \in 0 .. N - 1 :
       t = ThreadBlock(id[c], s, c * TILE_SIZE, TILE_SIZE, nnz, 0)

LEMMA TileByTileSharesOut ==
  ASSUME NEW s, NEW nnz \in Nat, NEW N \in Nat, nnz <= N * TILE_SIZE, NEW id, NEW T,
         TileByTile(T, s, nnz, N, id)
  PROVE  Tiles(T, nnz) /\ \A t \in T : t.lo .. t.hi \subseteq 1 .. nnz
  <1> USE DEF TileByTile
  <1>1. TILE_SIZE \in Nat \ {0}
    BY LaunchAssumption
  <1>2. ASSUME NEW c \in 0 .. N - 1
        PROVE  Takes(ThreadBlock(id[c], s, c * TILE_SIZE, TILE_SIZE, nnz, 0), c, TILE_SIZE, nnz)
    BY <1>1, ThreadBlockTakes
  <1>3. \A c \in 0 .. N - 1 : \E t \in T : Takes(t, c, TILE_SIZE, nnz)
    BY <1>2
  <1>4. ASSUME NEW t \in T, NEW u \in T, t # u
        PROVE  \E c, e \in 0 .. N - 1 :
                 c # e /\ Takes(t, c, TILE_SIZE, nnz) /\ Takes(u, e, TILE_SIZE, nnz)
    <2>1. PICK c \in 0 .. N - 1 : t = ThreadBlock(id[c], s, c * TILE_SIZE, TILE_SIZE, nnz, 0)
      OBVIOUS
    <2>2. PICK e \in 0 .. N - 1 : u = ThreadBlock(id[e], s, e * TILE_SIZE, TILE_SIZE, nnz, 0)
      OBVIOUS
    <2>3. c # e
      BY <1>4, <2>1, <2>2
    <2> QED
      BY <1>2, <2>1, <2>2, <2>3
  <1>5. Tiles(T, nnz)
    BY <1>1, <1>3, <1>4, TilesByChunks
  <1>6. ASSUME NEW t \in T
        PROVE  t.lo .. t.hi \subseteq 1 .. nnz
    <2>1. PICK c \in 0 .. N - 1 : t = ThreadBlock(id[c], s, c * TILE_SIZE, TILE_SIZE, nnz, 0)
      OBVIOUS
    <2>2. PICK x \in Nat : x = c * TILE_SIZE
      BY <1>1
    <2>3. t.lo = x + 1 /\ t.hi = Smaller(nnz, x + TILE_SIZE)
      BY <2>1, <2>2 DEF ThreadBlock
    <2> QED
      BY <1>1, <2>3 DEF Smaller
  <1> QED
    BY <1>5, <1>6

\* Version 1: thread block s * warps + c takes tile c of device block s.
LEMMA BatchedSharesOut ==
  ASSUME NEW len, len = [s \in Stream |-> Len(HostBlock[s])], NEW m \in Nat \ {0},
         \A s \in Stream : len[s] \in Nat /\ len[s] <= m
  PROVE  SharesOut(BatchedGrid(len, m))
  <1> DEFINE W == Ceil(m, TILE_SIZE)
             T == BatchedGrid(len, m)
  <1>1. TILE_SIZE \in Nat \ {0} /\ StreamCount \in Nat \ {0}
    BY LaunchAssumption, StreamCountPositive
  <1>2. W \in Nat /\ W * TILE_SIZE \in Nat /\ m <= W * TILE_SIZE
    BY <1>1, CeilCovers
  <1>3. T = {ThreadBlock(g, g \div W, (g % W) * TILE_SIZE, TILE_SIZE, len[g \div W], 0)
               : g \in 0 .. W * StreamCount - 1}
    BY DEF BatchedGrid
  <1> HIDE DEF W, T
  <1>4. W \in Nat \ {0}
    <2>1. W # 0
      BY <1>1, <1>2
    <2> QED
      BY <1>2, <2>1
  <1>5. ASSUME NEW s \in Stream, NEW c \in 0 .. W - 1
        PROVE  /\ s * W + c \in 0 .. W * StreamCount - 1
               /\ (s * W + c) \div W = s /\ (s * W + c) % W = c
    <2>1. s \in Nat /\ s < StreamCount /\ c \in Nat
      BY <1>1 DEF Stream
    <2>2. s * W \in Nat /\ s * W + W <= StreamCount * W /\ StreamCount * W \in Nat
      BY <1>1, <1>2, <2>1, Multiple
    <2>3. PICK g \in Nat : g = s * W + c
      BY <2>1, <2>2
    <2>4. g \div W \in Nat /\ g % W \in 0 .. W - 1 /\ g = (g \div W) * W + (g % W)
      BY <1>4, <2>3, Division
    <2>5. PICK q \in Nat, x \in 0 .. W - 1 : q = g \div W /\ x = g % W
      BY <2>4
    <2>6. q * W + x = s * W + c
      BY <2>3, <2>4, <2>5
    <2>7. q = s /\ x = c
      BY <1>4, <2>1, <2>6, DivisionUnique
    <2>8. StreamCount * W = W * StreamCount
      BY <1>1, <1>2
    <2>9. s * W + c \in 0 .. W * StreamCount - 1
      <3>1. PICK y \in Nat, z \in Nat : y = s * W /\ z = StreamCount * W
        BY <2>2
      <3>2. y + W <= z /\ c \in Nat /\ c < W
        BY <1>2, <2>1, <2>2, <3>1
      <3>3. y + c \in 0 .. z - 1
        BY <1>2, <3>2
      <3> QED
        BY <2>8, <3>1, <3>3
    <2> QED
      BY <2>3, <2>5, <2>7, <2>9
  <1>6. ASSUME NEW s \in Stream
        PROVE  LET mine == {t \in T : t.block = s}
                   n == Len(HostBlock[s])
               IN Tiles(mine, n) /\ \A t \in mine : t.lo .. t.hi \subseteq 1 .. n
    <2> DEFINE mine == {t \in T : t.block = s}
               n == Len(HostBlock[s])
               id == [c \in 0 .. W - 1 |-> s * W + c]
               tile(c) == ThreadBlock(id[c], s, c * TILE_SIZE, TILE_SIZE, n, 0)
    <2>1. n \in Nat /\ n <= W * TILE_SIZE /\ len[s] = n
      BY <1>2
    <2>2. ASSUME NEW t \in mine
          PROVE  \E c \in 0 .. W - 1 : t = tile(c)
      <3>1. PICK g \in 0 .. W * StreamCount - 1 :
              t = ThreadBlock(g, g \div W, (g % W) * TILE_SIZE, TILE_SIZE, len[g \div W], 0)
        BY <1>3
      <3>2. g \div W = s
        BY <3>1 DEF ThreadBlock
      <3>3. g \in Nat
        BY <1>1, <1>2
      <3>4. g % W \in 0 .. W - 1 /\ g = s * W + (g % W)
        BY <1>4, <3>2, <3>3, Division
      <3>5. t = ThreadBlock(g, s, (g % W) * TILE_SIZE, TILE_SIZE, n, 0)
        BY <2>1, <3>1, <3>2
      <3>6. id[g % W] = g
        BY <3>4
      <3> HIDE DEF id
      <3>7. t = tile(g % W)
        BY <3>5, <3>6
      <3> QED
        BY <3>4, <3>7
    <2>3. ASSUME NEW c \in 0 .. W - 1
          PROVE  tile(c) \in mine
      <3>1. id[c] = s * W + c
        OBVIOUS
      <3>2. tile(c).block = s
        BY DEF ThreadBlock
      <3>3. PICK g \in 0 .. W * StreamCount - 1 : g = s * W + c /\ g \div W = s /\ g % W = c
        BY <1>5
      <3> HIDE DEF id
      <3>4. tile(c) = ThreadBlock(g, g \div W, (g % W) * TILE_SIZE, TILE_SIZE, len[g \div W], 0)
        BY <2>1, <3>1, <3>3
      <3>5. tile(c) \in T
        BY <1>3, <3>4
      <3> HIDE DEF tile
      <3> QED
        BY <3>2, <3>5
    <2> HIDE DEF n, id, mine
    <2>4. TileByTile(mine, s, n, W, id)
      BY <2>2, <2>3 DEF TileByTile
    <2>5. Tiles(mine, n) /\ \A t \in mine : t.lo .. t.hi \subseteq 1 .. n
      BY <1>2, <2>1, <2>4, TileByTileSharesOut
    <2> QED
      BY <2>5 DEF mine, n
  <1> QED
    BY <1>6 DEF SharesOut, T

\* Version 2: entry c * TILE_SIZE * StreamCount + s of warp_info stands for tile c of
\* device block s.
LEMMA WarpInfoSharesOut ==
  ASSUME NEW len, len = [s \in Stream |-> Len(HostBlock[s])], \A s \in Stream : len[s] \in Nat
  PROVE  SharesOut(WarpInfoGrid(len, len))
  <1> DEFINE T == WarpInfoGrid(len, len)
             N(s) == Ceil(len[s], TILE_SIZE)
             entry(c, s) == c * TILE_SIZE * StreamCount + s
  <1>1. TILE_SIZE \in Nat \ {0} /\ StreamCount \in Nat \ {0}
    BY LaunchAssumption, StreamCountPositive
  <1>2. ASSUME NEW s \in Stream
        PROVE  N(s) \in Nat /\ len[s] <= N(s) * TILE_SIZE
    BY <1>1, CeilCovers
  <1>3. \A w : w \in WarpInfo(len) <=> \E s \in Stream : \E c \in 0 .. N(s) - 1 : w = entry(c, s)
    BY DEF WarpInfo
  <1>4. T = {ThreadBlock(wi, wi % StreamCount, wi \div StreamCount, TILE_SIZE,
                         len[wi % StreamCount], 0) : wi \in WarpInfo(len)}
    BY DEF WarpInfoGrid
  <1> HIDE DEF N, T
  <1>5. ASSUME NEW s \in Stream, NEW c \in 0 .. N(s) - 1
        PROVE  /\ entry(c, s) % StreamCount = s
               /\ entry(c, s) \div StreamCount = c * TILE_SIZE
    <2>1. c \in Nat /\ s \in 0 .. StreamCount - 1
      BY <1>2 DEF Stream
    <2>2. PICK x \in Nat : x = c * TILE_SIZE
      BY <1>1, <2>1
    <2>3. PICK w \in Nat : w = x * StreamCount + s
      BY <1>1, <2>1
    <2>4. w \div StreamCount \in Nat /\ w % StreamCount \in 0 .. StreamCount - 1
          /\ w = (w \div StreamCount) * StreamCount + (w % StreamCount)
      BY <1>1, Division
    <2>5. PICK q \in Nat, y \in 0 .. StreamCount - 1 :
            q = w \div StreamCount /\ y = w % StreamCount
      BY <2>4
    <2>6. q * StreamCount + y = x * StreamCount + s
      BY <2>3, <2>4, <2>5
    <2>7. q = x /\ y = s
      <3>1. PICK d \in Nat \ {0} : d = StreamCount
        BY <1>1
      <3>2. q * d + y = x * d + s /\ y \in 0 .. d - 1 /\ s \in 0 .. d - 1
        BY <2>1, <2>6, <3>1
      <3> QED
        BY <3>2, DivisionUnique
    <2>8. entry(c, s) = w
      BY <2>2, <2>3
    <2> QED
      BY <2>2, <2>5, <2>7, <2>8
  <1> HIDE DEF entry
  <1>6. ASSUME NEW s \in Stream
        PROVE  LET mine == {t \in T : t.block = s}
                   n == Len(HostBlock[s])
               IN Tiles(mine, n) /\ \A t \in mine : t.lo .. t.hi \subseteq 1 .. n
    <2> DEFINE mine == {t \in T : t.block = s}
               n == Len(HostBlock[s])
               id == [c \in 0 .. N(s) - 1 |-> entry(c, s)]
               tile(c) == ThreadBlock(id[c], s, c * TILE_SIZE, TILE_SIZE, n, 0)
    <2>1. n \in Nat /\ n <= N(s) * TILE_SIZE /\ len[s] = n /\ N(s) \in Nat
      BY <1>2
    <2>2. ASSUME NEW t \in mine
          PROVE  \E c \in 0 .. N(s) - 1 : t = tile(c)
      <3>1. PICK wi \in WarpInfo(len) :
              t = ThreadBlock(wi, wi % StreamCount, wi \div StreamCount, TILE_SIZE,
                              len[wi % StreamCount], 0)
        BY <1>4
      <3>2. PICK q \in Stream : \E c \in 0 .. N(q) - 1 : wi = entry(c, q)
        BY <1>3
      <3>3. PICK c \in 0 .. N(q) - 1 : wi = entry(c, q)
        BY <3>2
      <3>4. wi % StreamCount = q /\ wi \div StreamCount = c * TILE_SIZE
        BY <1>5, <3>3
      <3>5. t.block = q
        BY <3>1, <3>4 DEF ThreadBlock
      <3>6. q = s
        BY <3>5
      <3>7. t = ThreadBlock(wi, s, c * TILE_SIZE, TILE_SIZE, n, 0)
        BY <2>1, <3>1, <3>4, <3>6
      <3>8. c \in 0 .. N(s) - 1 /\ id[c] = wi
        BY <3>3, <3>6
      <3> HIDE DEF id
      <3>9. t = tile(c)
        BY <3>7, <3>8
      <3> QED
        BY <3>8, <3>9
    <2>3. ASSUME NEW c \in 0 .. N(s) - 1
          PROVE  tile(c) \in mine
      <3>1. id[c] = entry(c, s)
        OBVIOUS
      <3>2. tile(c).block = s
        BY DEF ThreadBlock
      <3>3. PICK wi \in WarpInfo(len) :
              wi = entry(c, s) /\ wi % StreamCount = s /\ wi \div StreamCount = c * TILE_SIZE
        BY <1>3, <1>5
      <3> HIDE DEF id
      <3>4. tile(c) = ThreadBlock(wi, wi % StreamCount, wi \div StreamCount, TILE_SIZE,
                                  len[wi % StreamCount], 0)
        BY <2>1, <3>1, <3>3
      <3>5. tile(c) \in T
        BY <1>4, <3>4
      <3> HIDE DEF tile
      <3> QED
        BY <3>2, <3>5
    <2> HIDE DEF n, id, mine
    <2>4. TileByTile(mine, s, n, N(s), id)
      BY <2>2, <2>3 DEF TileByTile
    <2>5. Tiles(mine, n) /\ \A t \in mine : t.lo .. t.hi \subseteq 1 .. n
      BY <2>1, <2>4, TileByTileSharesOut
    <2> QED
      BY <2>5 DEF mine, n
  <1> QED
    BY <1>6 DEF SharesOut, T

-------------------------------------------------------------------------------
(* What a stream has added so far. *)

\* The nonzeros of a block, and those that thread block t of its kernel adds.
Elements(blk) == {HostBlock[blk][i] : i \in 1 .. Len(HostBlock[blk])}
Part(t, blk) == {HostBlock[blk][i] : i \in t.lo .. t.hi}

\* The nonzeros of the blocks L, and those that the thread blocks T add.
Cover(L) == UNION {Elements(blk) : blk \in L}
Parts(T, blk) == UNION {Part(t, blk) : t \in T}

\* What gen_blcotensor_host makes of a tensor: each nonzero is in one place of
\* one block (MCBlcoFormat checks that on BlcoFormat).
Partitioned ==
  /\ \A blk \in HostBlocks : \A i, j \in 1 .. Len(HostBlock[blk]) :
       HostBlock[blk][i] = HostBlock[blk][j] => i = j
  /\ \A x, y \in HostBlocks : x # y => Elements(x) \cap Elements(y) = {}
  /\ Nonzero = Cover(HostBlocks)

\* The kernels in q, the work left of a stream, and the blocks they are for.
Kernels(q) == {i \in 1 .. Len(q) : q[i].kind = "kernel"}
Waiting(q) == {q[i].src : i \in Kernels(q)}

\* No two kernels of q are for the same block.
Distinct(q) == \A i, j \in Kernels(q) : q[i].src = q[j].src => i = j

\* What a stream has added that was given the blocks L and has the work q left,
\* when the thread blocks done of the kernel at the head of q have run.
Sum(q, done, L) ==
  Cover(L \ Waiting(q)) \cup Parts(done, Head(q).src)

LEMMA InCover == \A L, e : e \in Cover(L) <=> \E blk \in L : e \in Elements(blk)
  BY DEF Cover

LEMMA InParts == \A T, blk, e : e \in Parts(T, blk) <=> \E t \in T : e \in Part(t, blk)
  BY DEF Parts

LEMMA AppendOther ==
  ASSUME NEW q \in Seq(Work), NEW w \in Work, w.kind # "kernel"
  PROVE  /\ Waiting(Append(q, w)) = Waiting(q)
         /\ Distinct(q) => Distinct(Append(q, w))
         /\ q # <<>> => Append(q, w) # <<>> /\ Head(Append(q, w)) = Head(q)
  <1> DEFINE r == Append(q, w)
  <1>1. /\ Len(r) = Len(q) + 1 /\ Len(q) \in Nat
        /\ \A i \in 1 .. Len(q) : r[i] = q[i]
        /\ r[Len(q) + 1] = w
    OBVIOUS
  <1>2. q # <<>> => r # <<>> /\ Head(r) = Head(q)
    OBVIOUS
  <1> HIDE DEF r
  <1>3. Kernels(r) = Kernels(q)
    <2>1. \A i \in 1 .. Len(r) : r[i].kind = "kernel" => i \in 1 .. Len(q)
      BY <1>1
    <2>2. 1 .. Len(q) \subseteq 1 .. Len(r)
      BY <1>1
    <2> QED
      BY <1>1, <2>1, <2>2 DEF Kernels
  <1>4. \A i \in Kernels(q) : r[i] = q[i]
    BY <1>1 DEF Kernels
  <1>5. Waiting(r) = Waiting(q) /\ (Distinct(q) => Distinct(r))
    BY <1>3, <1>4 DEF Waiting, Distinct
  <1> QED
    BY <1>2, <1>5 DEF r

LEMMA AppendKernel ==
  ASSUME NEW q \in Seq(Work), NEW w \in Work, w.kind = "kernel", w.src \notin Waiting(q)
  PROVE  /\ Waiting(Append(q, w)) = Waiting(q) \cup {w.src}
         /\ Distinct(q) => Distinct(Append(q, w))
         /\ q # <<>> => Append(q, w) # <<>> /\ Head(Append(q, w)) = Head(q)
  <1> DEFINE r == Append(q, w)
             n == Len(q) + 1
  <1>1. /\ Len(r) = n /\ Len(q) \in Nat
        /\ \A i \in 1 .. Len(q) : r[i] = q[i]
        /\ r[n] = w
    OBVIOUS
  <1>2. q # <<>> => r # <<>> /\ Head(r) = Head(q)
    OBVIOUS
  <1> HIDE DEF r
  <1>3. Kernels(r) = Kernels(q) \cup {n}
    <2>1. \A i \in 1 .. Len(r) : i \in 1 .. Len(q) \/ i = n
      BY <1>1
    <2>2. 1 .. Len(q) \subseteq 1 .. Len(r) /\ n \in 1 .. Len(r)
      BY <1>1
    <2> QED
      BY <1>1, <2>1, <2>2 DEF Kernels
  <1>4. \A i \in Kernels(q) : r[i] = q[i]
    BY <1>1 DEF Kernels
  <1> HIDE DEF n
  <1>5. Waiting(r) = Waiting(q) \cup {w.src}
    BY <1>1, <1>3, <1>4 DEF Waiting
  <1>6. ASSUME Distinct(q), NEW i \in Kernels(r), NEW j \in Kernels(r), r[i].src = r[j].src
        PROVE  i = j
    <2>1. \A k \in Kernels(q) : r[k].src # w.src
      BY <1>4 DEF Waiting
    <2> QED
      BY <1>1, <1>3, <1>4, <1>6, <2>1 DEF Distinct
  <1>7. Distinct(q) => Distinct(r)
    BY <1>6 DEF Distinct
  <1> QED
    BY <1>2, <1>5, <1>7 DEF r

LEMMA TailShift ==
  ASSUME NEW q \in Seq(Work), q # <<>>
  PROVE  /\ Len(Tail(q)) = Len(q) - 1 /\ Len(q) \in Nat \ {0} /\ Head(q) = q[1]
         /\ \A i \in 1 .. Len(Tail(q)) : i + 1 \in 1 .. Len(q) /\ Tail(q)[i] = q[i + 1]
         /\ \A j \in 1 .. Len(q) : j # 1 => j - 1 \in 1 .. Len(Tail(q)) /\ q[j] = Tail(q)[j - 1]
  <1> DEFINE r == Tail(q)
  <1>1. /\ Len(r) = Len(q) - 1 /\ Len(q) \in Nat \ {0}
        /\ \A i \in 1 .. Len(r) : r[i] = q[i + 1]
        /\ Head(q) = q[1]
    BY HeadTailProperties, EmptySeq
  <1> HIDE DEF r
  <1>2. \A j \in 1 .. Len(q) : j # 1 => j - 1 \in 1 .. Len(r) /\ q[j] = r[j - 1]
    BY <1>1
  <1>3. \A i \in 1 .. Len(r) : i + 1 \in 1 .. Len(q)
    BY <1>1
  <1> QED
    BY <1>1, <1>2, <1>3 DEF r

LEMMA TailWork ==
  ASSUME NEW q \in Seq(Work), q # <<>>, Distinct(q)
  PROVE  /\ Distinct(Tail(q))
         /\ Head(q).kind # "kernel" => Waiting(Tail(q)) = Waiting(q)
         /\ Head(q).kind = "kernel" => /\ Waiting(Tail(q)) = Waiting(q) \ {Head(q).src}
                                       /\ Head(q).src \in Waiting(q)
  <1> DEFINE r == Tail(q)
  <1>1. /\ Len(q) \in Nat \ {0} /\ Head(q) = q[1] /\ Len(r) \in Nat
        /\ \A i \in 1 .. Len(r) : i + 1 \in 1 .. Len(q) /\ r[i] = q[i + 1]
        /\ \A j \in 1 .. Len(q) : j # 1 => j - 1 \in 1 .. Len(r) /\ q[j] = r[j - 1]
    BY TailShift
  <1> HIDE DEF r
  <1>2. \A i \in Kernels(r) : i + 1 \in Kernels(q) /\ r[i] = q[i + 1] /\ i + 1 # 1
    BY <1>1 DEF Kernels
  <1>3. \A j \in Kernels(q) : j # 1 => j - 1 \in Kernels(r) /\ q[j] = r[j - 1]
    BY <1>1 DEF Kernels
  <1>4. 1 \in Kernels(q) <=> Head(q).kind = "kernel"
    BY <1>1 DEF Kernels
  <1>5. Distinct(r)
    <2> SUFFICES ASSUME NEW i \in Kernels(r), NEW j \in Kernels(r), r[i].src = r[j].src
                 PROVE  i = j
      BY DEF Distinct
    <2>1. i + 1 = j + 1
      BY <1>2 DEF Distinct
    <2>2. i \in Nat /\ j \in Nat
      BY DEF Kernels
    <2> QED
      BY <2>1, <2>2
  <1>6. Waiting(r) \subseteq Waiting(q)
    BY <1>2 DEF Waiting
  <1>7. \A j \in Kernels(q) : j # 1 => q[j].src \in Waiting(r)
    BY <1>3 DEF Waiting
  <1>8. ASSUME Head(q).kind # "kernel"
        PROVE  Waiting(r) = Waiting(q)
    BY <1>4, <1>6, <1>7, <1>8 DEF Waiting
  <1>9. ASSUME Head(q).kind = "kernel"
        PROVE  /\ Waiting(r) = Waiting(q) \ {Head(q).src} /\ Head(q).src \in Waiting(q)
    <2>1. Head(q).src \in Waiting(q)
      BY <1>1, <1>4, <1>9 DEF Waiting
    <2>2. Head(q).src \notin Waiting(r)
      BY <1>1, <1>2, <1>4, <1>9 DEF Waiting, Distinct
    <2>3. \A blk \in Waiting(q) : blk # Head(q).src => blk \in Waiting(r)
      BY <1>1, <1>7 DEF Waiting
    <2> QED
      BY <1>6, <2>1, <2>2, <2>3
  <1> QED
    BY <1>5, <1>8, <1>9 DEF r

\* The sum does not change when other work is appended or done, ...
LEMMA SumAppend ==
  ASSUME NEW q \in Seq(Work), NEW w \in Work, w.kind # "kernel", NEW L, NEW done,
         done # {} => q # <<>>
  PROVE  Sum(Append(q, w), done, L) = Sum(q, done, L)
  <1>1. Waiting(Append(q, w)) = Waiting(q)
    BY AppendOther
  <1>2. q # <<>> => Head(Append(q, w)) = Head(q)
    BY AppendOther
  <1>3. Parts(done, Head(Append(q, w)).src) = Parts(done, Head(q).src)
    <2>1. CASE done = {}
      BY <2>1 DEF Parts
    <2>2. CASE q # <<>>
      BY <1>2, <2>2
    <2> QED
      BY <2>1, <2>2
  <1> QED
    BY <1>1, <1>3 DEF Sum

\* ... when the kernel of one more block is launched, ...
LEMMA SumLaunch ==
  ASSUME NEW q \in Seq(Work), NEW w \in Work, w.kind = "kernel", NEW L, w.src \notin L,
         Waiting(q) \subseteq L, NEW done, done # {} => q # <<>>
  PROVE  Sum(Append(q, w), done, L \cup {w.src}) = Sum(q, done, L)
  <1>1. Waiting(Append(q, w)) = Waiting(q) \cup {w.src}
    BY AppendKernel
  <1>2. (L \cup {w.src}) \ Waiting(Append(q, w)) = L \ Waiting(q)
    BY <1>1
  <1>3. q # <<>> => Head(Append(q, w)) = Head(q)
    BY AppendKernel
  <1>4. Parts(done, Head(Append(q, w)).src) = Parts(done, Head(q).src)
    <2>1. CASE done = {}
      BY <2>1 DEF Parts
    <2>2. CASE q # <<>>
      BY <1>3, <2>2
    <2> QED
      BY <2>1, <2>2
  <1> QED
    BY <1>2, <1>4 DEF Sum

LEMMA SumTail ==
  ASSUME NEW q \in Seq(Work), q # <<>>, Distinct(q), Head(q).kind # "kernel", NEW L
  PROVE  Sum(Tail(q), {}, L) = Sum(q, {}, L)
  <1>1. Waiting(Tail(q)) = Waiting(q)
    BY TailWork
  <1> QED
    BY <1>1 DEF Sum, Parts

LEMMA CoverMore == ASSUME NEW L, NEW blk
                   PROVE  Cover(L \cup {blk}) = Cover(L) \cup Elements(blk)
  <1>1. \A e : e \in Cover(L \cup {blk}) <=> e \in Cover(L) \/ e \in Elements(blk)
    BY InCover
  <1> QED
    BY <1>1

\* ... and when a kernel ends whose thread blocks have all run.
LEMMA SumRetire ==
  ASSUME NEW q \in Seq(Work), q # <<>>, Distinct(q), Head(q).kind = "kernel", NEW L,
         Waiting(q) \subseteq L, NEW done, Tiles(done, Len(HostBlock[Head(q).src])),
         \A t \in done : t.lo .. t.hi \subseteq 1 .. Len(HostBlock[Head(q).src])
  PROVE  Sum(Tail(q), {}, L) = Sum(q, done, L)
  <1> DEFINE blk == Head(q).src
  <1>1. Waiting(Tail(q)) = Waiting(q) \ {blk} /\ blk \in Waiting(q)
    BY TailWork
  <1>2. L \ Waiting(Tail(q)) = (L \ Waiting(q)) \cup {blk}
    BY <1>1
  <1>3. Parts(done, blk) = Elements(blk)
    <2> HIDE DEF blk
    <2>1. \A t \in done : Part(t, blk) \subseteq Elements(blk)
      BY DEF Part, Elements, blk
    <2>2. ASSUME NEW i \in 1 .. Len(HostBlock[blk])
          PROVE  \E t \in done : HostBlock[blk][i] \in Part(t, blk)
      <3>1. PICK t \in done : i \in t.lo .. t.hi
        BY <2>2 DEF Tiles, blk
      <3> QED
        BY <3>1 DEF Part
    <2>3. \A e \in Elements(blk) : e \in Parts(done, blk)
      BY <2>2, InParts DEF Elements
    <2>4. \A e \in Parts(done, blk) : e \in Elements(blk)
      BY <2>1, InParts
    <2> QED
      BY <2>3, <2>4
  <1>4. Cover((L \ Waiting(q)) \cup {blk}) = Cover(L \ Waiting(q)) \cup Elements(blk)
    BY CoverMore
  <1>5. Parts({}, Head(Tail(q)).src) = {}
    BY DEF Parts
  <1> QED
    BY <1>2, <1>3, <1>4, <1>5 DEF Sum

\* A thread block adds its part.
LEMMA SumThreadBlock ==
  ASSUME NEW q, NEW done, NEW t, NEW L
  PROVE  Sum(q, done \cup {t}, L) = Sum(q, done, L) \cup Part(t, Head(q).src)
  <1> DEFINE blk == Head(q).src
  <1> HIDE DEF blk
  <1>1. \A e : e \in Parts(done \cup {t}, blk) <=> e \in Parts(done, blk) \/ e \in Part(t, blk)
    BY InParts
  <1>2. Parts(done \cup {t}, blk) = Parts(done, blk) \cup Part(t, blk)
    BY <1>1
  <1> QED
    BY <1>2 DEF Sum, blk

LEMMA SumOfNothing ==
  ASSUME NEW q
  PROVE  Sum(q, {}, {}) = {}
  BY DEF Sum, Cover, Parts

LEMMA SumWhenDrained ==
  ASSUME NEW L
  PROVE  Sum(<<>>, {}, L) = Cover(L)
  <1>1. Waiting(<<>>) = {}
    BY EmptySeq DEF Waiting, Kernels
  <1>2. L \ Waiting(<<>>) = L
    BY <1>1
  <1> QED
    BY <1>2 DEF Sum, Parts

LEMMA SumWithin ==
  ASSUME NEW q, NEW done, NEW L,
         done # {} => Head(q).src \in L,
         \A t \in done : t.lo .. t.hi \subseteq 1 .. Len(HostBlock[Head(q).src])
  PROVE  Sum(q, done, L) \subseteq Cover(L)
  <1> DEFINE blk == Head(q).src
  <1> HIDE DEF blk
  <1>1. \A t \in done : Part(t, blk) \subseteq Elements(blk)
    BY DEF Part, Elements, blk
  <1>2. \A e \in Parts(done, blk) : e \in Cover(L)
    BY <1>1, InParts, InCover DEF blk
  <1>3. \A e \in Cover(L \ Waiting(q)) : e \in Cover(L)
    BY InCover
  <1> QED
    BY <1>2, <1>3 DEF Sum, blk

\* Different streams add different nonzeros, ...
LEMMA BlocksApart ==
  ASSUME Partitioned, NEW L \in SUBSET HostBlocks, NEW M \in SUBSET HostBlocks, L \cap M = {}
  PROVE  Cover(L) \cap Cover(M) = {}
  <1> SUFFICES ASSUME NEW e, e \in Cover(L), e \in Cover(M)
               PROVE  FALSE
    OBVIOUS
  <1>1. PICK x \in L : e \in Elements(x)
    BY InCover
  <1>2. PICK y \in M : e \in Elements(y)
    BY InCover
  <1>3. x # y /\ x \in HostBlocks /\ y \in HostBlocks
    OBVIOUS
  <1> QED
    BY <1>1, <1>2, <1>3 DEF Partitioned

\* ... and so do the thread blocks of a stream.
LEMMA PartIsNew ==
  ASSUME Partitioned, NEW q \in Seq(Work), Head(q).src \in HostBlocks, Head(q).src \in Waiting(q),
         NEW L \in SUBSET HostBlocks, NEW T, NEW done \in SUBSET T, NEW t \in T, t \notin done,
         Tiles(T, Len(HostBlock[Head(q).src])),
         \A u \in T : u.lo .. u.hi \subseteq 1 .. Len(HostBlock[Head(q).src])
  PROVE  Part(t, Head(q).src) \cap Sum(q, done, L) = {}
  <1> DEFINE blk == Head(q).src
             n == Len(HostBlock[blk])
  <1>1. /\ blk \in HostBlocks /\ blk \in Waiting(q) /\ Tiles(T, n)
        /\ \A u \in T : u.lo .. u.hi \subseteq 1 .. n
    OBVIOUS
  <1> HIDE DEF blk
  <1>2. Part(t, blk) \subseteq Elements(blk)
    BY <1>1 DEF Part, Elements
  <1>3. ASSUME NEW x \in L \ Waiting(q)
        PROVE  Part(t, blk) \cap Elements(x) = {}
    <2>1. x # blk /\ x \in HostBlocks
      BY <1>1
    <2>2. Elements(x) \cap Elements(blk) = {}
      BY <1>1, <2>1 DEF Partitioned
    <2> QED
      BY <1>2, <2>2
  <1>4. ASSUME NEW u \in done, NEW e \in Part(t, blk), e \in Part(u, blk)
        PROVE  FALSE
    <2>1. PICK i \in t.lo .. t.hi : e = HostBlock[blk][i]
      BY <1>4 DEF Part
    <2>2. PICK j \in u.lo .. u.hi : e = HostBlock[blk][j]
      BY <1>4 DEF Part
    <2>3. i \in 1 .. n /\ j \in 1 .. n
      BY <1>1, <2>1, <2>2
    <2>4. i = j
      BY <1>1, <2>1, <2>2, <2>3 DEF Partitioned
    <2>5. u \in T /\ u # t
      OBVIOUS
    <2> HIDE DEF n
    <2>6. (t.lo .. t.hi) \cap (u.lo .. u.hi) = {}
      BY <1>1, <2>5 DEF Tiles
    <2> QED
      BY <2>1, <2>2, <2>4, <2>6
  <1>5. \A e \in Part(t, blk) : e \notin Parts(done, blk)
    BY <1>4, InParts
  <1>6. \A e \in Part(t, blk) : e \notin Cover(L \ Waiting(q))
    BY <1>3, InCover
  <1> QED
    BY <1>5, <1>6 DEF Sum, blk

-------------------------------------------------------------------------------
(* The tensor on the device: a block of its own for each stream. *)

\* What the code supports: streaming and batching for the benchmark only (CP-ALS passes
\* each of them as the other), and not both of them, since the batched kernels follow
\* pointers to blocks that are not sent when blocks come and go.  Kernel 13, the atomic
\* one, is out: it follows masks that no device block has.
Supported ==
  /\ ~FollowsBlockMasks
  /\ StreamData => Unbatched
  /\ StreamData \/ DoBatching => CallSite = "mttkrp_alto_dev"

\* Kernels for block s only, and nothing to copy, is what stream s has left.
OwnWork(q, s) ==
  \A i \in 1 .. Len(q) :
    /\ q[i].kind # "copy"
    /\ q[i].kind = "kernel" => q[i].src = s /\ q[i].nnz = Len(HostBlock[s])

ResidentInv ==
  /\ TypeInv
  /\ pc = "start" => \A s \in Stream : queue[s] = <<>>
  /\ pc # "start" => staged /\ \A s \in Stream :
       /\ Len(slot[s]) = Len(HostBlock[s]) /\ Holds(slot[s], s)
       /\ blockNnz[s] = Len(HostBlock[s]) /\ cap[s] = Len(HostBlock[s])
  /\ \A s \in Stream : OwnWork(queue[s], s)

LEMMA AppendOwnWork ==
  ASSUME NEW q \in Seq(Work), NEW s, OwnWork(q, s), NEW w \in Work, w.kind # "copy",
         w.kind = "kernel" => w.src = s /\ w.nnz = Len(HostBlock[s])
  PROVE  OwnWork(Append(q, w), s)
  <1> DEFINE r == Append(q, w)
  <1>1. /\ Len(r) = Len(q) + 1 /\ Len(q) \in Nat
        /\ \A i \in 1 .. Len(q) : r[i] = q[i]
        /\ r[Len(q) + 1] = w
    OBVIOUS
  <1> HIDE DEF r
  <1>2. OwnWork(r, s)
    BY <1>1 DEF OwnWork
  <1> QED
    BY <1>2 DEF r

LEMMA TailOwnWork ==
  ASSUME NEW q \in Seq(Work), q # <<>>, NEW s, OwnWork(q, s)
  PROVE  OwnWork(Tail(q), s) /\ Head(q).kind # "copy"
  <1>1. 1 \in 1 .. Len(q) /\ Head(q) = q[1]
    BY TailShift
  <1>2. \A i \in 1 .. Len(Tail(q)) : i + 1 \in 1 .. Len(q) /\ Tail(q)[i] = q[i + 1]
    BY TailShift
  <1> QED
    BY <1>1, <1>2 DEF OwnWork

LEMMA OneStreamEach ==
  ASSUME ~StreamData
  PROVE  Stream = HostBlocks /\ \A blk \in HostBlocks : StreamOf(blk) = blk
  <1>1. StreamCount = BlockCount /\ BlockCount \in Nat \ {0}
    BY HostAssumption DEF StreamCount
  <1>2. ASSUME NEW n \in Nat \ {0}, NEW k \in 0 .. n - 1
        PROVE  (n + k) % n = k
    <2> DEFINE r == (n + k) % n
               x == (n + k) \div n
    <2>1. n + k \in Nat
      OBVIOUS
    <2>2. x \in Nat /\ r \in 0 .. n - 1 /\ n + k = x * n + r
      BY <2>1, Division
    <2> HIDE DEF x, r
    <2>3. x * n + r = 1 * n + k
      BY <2>2
    <2>4. r = k
      BY <2>2, <2>3, DivisionUnique
    <2> QED
      BY <2>4 DEF r
  <1> QED
    BY <1>1, <1>2 DEF StreamOf, Stream, HostBlocks

LEMMA ResidentInvInit == Init => ResidentInv
  <1> SUFFICES ASSUME Init
               PROVE  ResidentInv
    OBVIOUS
  <1>1. TypeInv
    BY TypeInvInit
  <1>2. \A s \in Stream : queue[s] = <<>> /\ Len(queue[s]) = 0
    BY EmptySeq DEF Init
  <1> QED
    BY <1>1, <1>2 DEF Init, ResidentInv, OwnWork

LEMMA ResidentCapacity ==
  ASSUME ~StreamData, Supported, NEW s \in Stream
  PROVE  CapacityOf(s) = {Len(HostBlock[s])}
  BY OneStreamEach DEF CapacityOf, Gen, RequestedSize, Supported

LEMMA ResidentInvStep ==
  ASSUME ~StreamData, Supported, ResidentInv, [Next]_blcoVars
  PROVE  ResidentInv'
  <1>1. TypeInv' /\ TypeOK /\ HostInv
    BY TypeInvStep DEF ResidentInv, TypeInv
  <1>2. Stream = HostBlocks
    BY OneStreamEach
  <1>3. \A s \in Stream : queue[s] \in Seq(Work) /\ OwnWork(queue[s], s)
    BY <1>1 DEF TypeOK, ResidentInv
  <1>4. CASE Prepare
    <2>1. PICK c \in [Stream -> UNION {CapacityOf(s) : s \in Stream}] :
            /\ \A s \in Stream : c[s] \in CapacityOf(s)
            /\ slot' = [s \in Stream |-> Overwrite([i \in 1 .. c[s] |-> Garbage], s)]
            /\ blockNnz' = [s \in Stream |-> Len(HostBlock[s])]
            /\ cap' = c /\ staged'
      BY <1>4 DEF Prepare
    <2>2. \A s \in Stream : c[s] = Len(HostBlock[s])
      BY <2>1, ResidentCapacity
    <2>3. ASSUME NEW s \in Stream
          PROVE  Len(slot'[s]) = Len(HostBlock[s]) /\ Holds(slot'[s], s)
      <3> DEFINE n == Len(HostBlock[s])
                 empty == [i \in 1 .. n |-> Garbage]
                 over == Overwrite(empty, s)
      <3>1. slot'[s] = over
        BY <2>1, <2>2
      <3>2. n \in Nat /\ s \in HostBlocks
        BY <1>2, HostBlockLen
      <3>3. empty \in [1 .. n -> Value]
        BY DEF Value
      <3>4. over \in [1 .. n -> Value]
        BY <3>2, <3>3, OverwriteType
      <3>5. \A i \in 1 .. n : over[i] = HostBlock[s][i]
        BY <3>2 DEF Overwrite
      <3> HIDE DEF over
      <3>6. Len(over) = n
        BY <3>2, <3>4, FilledIsSeq
      <3> QED
        BY <3>1, <3>5, <3>6 DEF Holds
    <2>4. queue' = queue /\ pc' # "start"
      BY <1>4 DEF Prepare
    <2> QED
      BY <1>1, <1>3, <2>1, <2>2, <2>3, <2>4 DEF ResidentInv
  <1>5. ASSUME pc # "start", pc' # "start", slot' = slot, blockNnz' = blockNnz,
               cap' = cap, staged' = staged,
               \A s \in Stream : OwnWork(queue'[s], s)
        PROVE  ResidentInv'
    BY <1>1, <1>5 DEF ResidentInv
  <1>6. ASSUME NEW w \in Work, w.kind \notin {"copy", "kernel"},
               \A s \in Stream : queue'[s] \in {queue[s], Append(queue[s], w)}
        PROVE  \A s \in Stream : OwnWork(queue'[s], s)
    BY <1>3, <1>6, AppendOwnWork
  <1>7. ASSUME NEW k \in ModeKinds, BeginCall(k)
        PROVE  ResidentInv'
    <2>1. ZeroPartials \in Work /\ ZeroPartials.kind \notin {"copy", "kernel"}
      BY HostAssumption DEF ZeroPartials, Work, HostBlocks
    <2>2. \A s \in Stream : queue'[s] \in {queue[s], Append(queue[s], ZeroPartials)}
      BY <1>1, <1>7 DEF BeginCall, TypeOK
    <2>3. /\ pc # "start" /\ pc' # "start" /\ slot' = slot /\ blockNnz' = blockNnz
          /\ cap' = cap /\ staged' = staged
      BY <1>7 DEF BeginCall
    <2> QED
      BY <1>5, <1>6, <2>1, <2>2, <2>3
  <1>8. CASE LaunchAll
    <2>1. LaunchBatch \in Work /\ LaunchBatch.kind \notin {"copy", "kernel"}
      BY HostAssumption DEF LaunchBatch, Work, HostBlocks
    <2>2. \A s \in Stream : queue'[s] \in {queue[s], Append(queue[s], LaunchBatch)}
      BY <1>1, <1>8 DEF LaunchAll, TypeOK
    <2>3. /\ pc # "start" /\ pc' # "start" /\ slot' = slot /\ blockNnz' = blockNnz
          /\ cap' = cap /\ staged' = staged
      BY <1>8 DEF LaunchAll, memory
    <2> QED
      BY <1>5, <1>6, <2>1, <2>2, <2>3
  <1>9. CASE Merge
    <2>1. ReducePartials \in Work /\ ReducePartials.kind \notin {"copy", "kernel"}
      BY HostAssumption DEF ReducePartials, Work, HostBlocks
    <2>2. \A s \in Stream : queue'[s] \in {queue[s], Append(queue[s], ReducePartials)}
      BY <1>1, <1>9 DEF Merge, TypeOK
    <2>3. /\ pc # "start" /\ pc' # "start" /\ slot' = slot /\ blockNnz' = blockNnz
          /\ cap' = cap /\ staged' = staged
      BY <1>9 DEF Merge, memory
    <2> QED
      BY <1>5, <1>6, <2>1, <2>2, <2>3
  <1>10. CASE LaunchBlock
    <2> DEFINE k == LaunchKernel(b, Len(HostBlock[b]))
    <2>1. b \in HostBlocks /\ b \in Stream /\ StreamOf(b) = b
      BY <1>1, <1>2, <1>10, HostAssumption, OneStreamEach
         DEF LaunchBlock, TypeOK, HostInv, HostBlocks
    <2>2. /\ pc # "start" /\ pc' # "start" /\ slot' = slot
          /\ cap' = cap /\ staged' = staged
      BY <1>10 DEF LaunchBlock, memory
    <2>3. blockNnz[b] = Len(HostBlock[b])
      BY <2>1, <2>2 DEF ResidentInv
    <2>4. queue' = [queue EXCEPT ![b] = @ \o <<>> \o <<k>>]
      BY <1>10, <2>1, <2>3 DEF LaunchBlock
    <2>5. blockNnz' = blockNnz
      BY <1>1, <1>10, <2>1, <2>3 DEF LaunchBlock, TypeOK
    <2>6. k \in Work /\ k.kind = "kernel" /\ k.src = b /\ k.nnz = Len(HostBlock[b])
      BY <2>1, HostBlockLen DEF LaunchKernel, Work
    <2> HIDE DEF k
    <2>7. \A s \in Stream : s # b => queue'[s] = queue[s]
      BY <1>1, <2>4 DEF TypeOK
    <2>8. queue'[b] = Append(queue[b], k)
      <3>1. queue'[b] = queue[b] \o <<>> \o <<k>>
        BY <1>1, <2>1, <2>4 DEF TypeOK
      <3>2. queue[b] \o <<>> \o <<k>> = Append(queue[b], k)
        BY <1>3, <2>1, <2>6, AppendIsConcat, ConcatEmptySeq
      <3> QED
        BY <3>1, <3>2
    <2>9. OwnWork(queue'[b], b)
      BY <1>3, <2>1, <2>6, <2>8, AppendOwnWork
    <2>10. \A s \in Stream : OwnWork(queue'[s], s)
      BY <1>3, <2>7, <2>9
    <2> QED
      BY <1>5, <2>2, <2>5, <2>10
  <1>11. CASE SyncZero \/ EndCall \/ DefaultZero \/ DefaultReduce \/ Stop \/ UNCHANGED blcoVars
    <2>1. /\ queue' = queue /\ slot' = slot /\ blockNnz' = blockNnz
          /\ cap' = cap /\ staged' = staged
      BY <1>11 DEF SyncZero, EndCall, DefaultZero, DefaultReduce, Stop, blcoVars, memory
    <2>2. pc' = "start" <=> pc = "start"
      BY <1>11 DEF SyncZero, EndCall, DefaultZero, DefaultReduce, Stop, blcoVars, host
    <2> QED
      BY <1>1, <2>1, <2>2 DEF ResidentInv
  <1>12. ASSUME NEW s \in Stream, Zero(s) \/ Reduce(s) \/ Retire(s) \/ Copy(s)
        PROVE  ResidentInv'
    <2>1. /\ queue[s] # <<>> /\ Pop(s) /\ pc' = pc /\ blockNnz' = blockNnz
          /\ cap' = cap /\ staged' = staged
      BY <1>12 DEF Zero, Reduce, Retire, Copy, RunningKernel, AtHead, host
    <2>2. pc # "start"
      BY <2>1 DEF ResidentInv
    <2>3. OwnWork(Tail(queue[s]), s) /\ Head(queue[s]).kind # "copy"
      BY <1>3, <2>1, TailOwnWork
    <2>4. slot' = slot
      BY <1>12, <2>3 DEF Zero, Reduce, Retire, Copy, AtHead, memory
    <2>5. \A r \in Stream : queue'[r] = IF r = s THEN Tail(queue[s]) ELSE queue[r]
      BY <1>1, <2>1 DEF Pop, TypeOK
    <2>6. \A r \in Stream : OwnWork(queue'[r], r)
      BY <1>3, <2>3, <2>5
    <2> QED
      BY <1>5, <2>1, <2>2, <2>4, <2>6
  <1>13. ASSUME NEW s \in Stream, RunThreadBlock(s)
        PROVE  ResidentInv'
    <2>1. /\ queue' = queue /\ slot' = slot /\ blockNnz' = blockNnz /\ pc' = pc
          /\ cap' = cap /\ staged' = staged
      BY <1>13 DEF RunThreadBlock, host
    <2> QED
      BY <1>1, <2>1 DEF ResidentInv
  <1> QED
    BY <1>4, <1>7, <1>8, <1>9, <1>10, <1>11, <1>12, <1>13 DEF Next, Host, Device

LEMMA ResidentInvMeaning == ASSUME ~StreamData, ResidentInv
                            PROVE  KernelReadsItsBlock
  <1> SUFFICES ASSUME NEW s \in Stream, AtHead(s, "kernel")
               PROVE  /\ Head(queue[s]).nnz = Len(HostBlock[Head(queue[s]).src])
                      /\ Head(queue[s]).nnz <= Len(slot[s])
                      /\ \A i \in 1 .. Head(queue[s]).nnz :
                           slot[s][i] = HostBlock[Head(queue[s]).src][i]
    BY DEF KernelReadsItsBlock
  <1>1. queue[s] \in Seq(Work) /\ queue[s] # <<>>
    BY DEF ResidentInv, TypeInv, TypeOK, AtHead
  <1>2. Head(queue[s]) = queue[s][1] /\ 1 \in 1 .. Len(queue[s])
    BY <1>1, TailShift
  <1>3. Head(queue[s]).src = s /\ Head(queue[s]).nnz = Len(HostBlock[s])
    BY <1>2 DEF ResidentInv, OwnWork, AtHead
  <1>4. Len(slot[s]) = Len(HostBlock[s]) /\ Holds(slot[s], s)
    BY <1>1 DEF ResidentInv
  <1>5. Len(HostBlock[s]) \in Nat
    BY OneStreamEach, HostBlockLen
  <1> QED
    BY <1>3, <1>4, <1>5 DEF Holds

\* The discipline of the queues, whichever way the tensor reaches the device.
DataInv == IF StreamData THEN StreamInv ELSE ResidentInv

LEMMA DataInvInit == Init => DataInv
  BY StreamInvInit, ResidentInvInit DEF DataInv

LEMMA DataInvStep == ASSUME Supported, DataInv, [Next]_blcoVars
                     PROVE  DataInv'
  BY StreamInvStep, ResidentInvStep DEF DataInv, Supported

LEMMA DataInvMeaning == ASSUME DataInv
                        PROVE  TypeInv /\ KernelReadsItsBlock
  BY StreamInvMeaning, ResidentInvMeaning DEF DataInv, StreamInv, ResidentInv

-------------------------------------------------------------------------------
(* What can be in a queue, and when. *)

\* What is allocated is enough, for the blocks and for warp_info.
LEMMA SupportedAllocation ==
  ASSUME Supported
  PROVE  /\ ~GenReadsPastBlocks
         /\ StreamData => \A c : ~WarpInfoOverflows(c)
         /\ \A c \in [Stream -> Nat] :
              (\A s \in Stream : c[s] = Len(HostBlock[s])) => ~WarpInfoOverflows(c)
  <1>1. StreamData => ~Gen.batching /\ Gen.MB # 0
    BY HostAssumption DEF Supported, Unbatched, Gen, RequestedSize
  <1>2. ~GenReadsPastBlocks
    BY <1>1, OneStreamEach DEF GenReadsPastBlocks
  <1>3. ASSUME NEW c \in [Stream -> Nat], \A s \in Stream : c[s] = Len(HostBlock[s])
        PROVE  ~WarpInfoOverflows(c)
    <2>1. c = HostLengths
      BY <1>3 DEF HostLengths
    <2>2. Cardinality(WarpInfo(c)) \in Nat
      BY WarpInfoIsFinite, FS_CardinalityType
    <2> QED
      BY <2>1, <2>2 DEF WarpInfoOverflows
  <1> QED
    BY <1>1, <1>2, <1>3 DEF WarpInfoOverflows

\* In q, the work left of a stream, the partial matrices are cleared before
\* anything is launched and added up after everything is.
Ordered(q) ==
  \A i \in 1 .. Len(q) :
    /\ q[i].kind = "reduce" =>
         i = Len(q) /\ pc = "syncing" /\ UsesPartials(short) /\ StreamCount > 1
    /\ q[i].kind = "zero" => Len(q) = 1
    /\ q[i].kind = "zero" <=> pc = "zeroing"
    /\ q[i].kind # "batch"

OrderInv ==
  /\ \A s \in Stream : Ordered(queue[s])
  /\ pc \in {"start", "idle"} => DeviceIdle

\* The block that is launched next, and its stream.
LEMMA LaunchesExist ==
  ASSUME TypeInv, pc = "launching"
  PROVE  b \in HostBlocks /\ StreamOf(b) \in Stream
  <1>1. b \in HostBlocks
    BY HostAssumption DEF TypeInv, TypeOK, HostInv, HostBlocks
  <1>2. BlockCount + b \in Nat
    BY <1>1, HostAssumption DEF HostBlocks
  <1> QED
    BY <1>1, <1>2, StreamCountPositive, RemainderBound DEF StreamOf, Stream

LEMMA TailOrdered ==
  ASSUME NEW q \in Seq(Work), q # <<>>, Ordered(q)
  PROVE  Ordered(Tail(q))
  <1>1. /\ Len(Tail(q)) = Len(q) - 1 /\ Len(q) \in Nat \ {0}
        /\ \A i \in 1 .. Len(Tail(q)) : i + 1 \in 1 .. Len(q) /\ Tail(q)[i] = q[i + 1]
    BY TailShift
  <1> DEFINE r == Tail(q)
  <1>2. ASSUME NEW i \in 1 .. Len(r)
        PROVE  /\ r[i].kind = "reduce" =>
                    i = Len(r) /\ pc = "syncing" /\ UsesPartials(short) /\ StreamCount > 1
               /\ r[i].kind = "zero" => Len(r) = 1
               /\ r[i].kind = "zero" <=> pc = "zeroing"
               /\ r[i].kind # "batch"
    <2>1. PICK j \in 1 .. Len(q) : j = i + 1 /\ r[i] = q[j] /\ Len(r) = Len(q) - 1
      BY <1>1
    <2> HIDE DEF r
    <2>2. /\ q[j].kind = "reduce" =>
               j = Len(q) /\ pc = "syncing" /\ UsesPartials(short) /\ StreamCount > 1
          /\ q[j].kind = "zero" => Len(q) = 1
          /\ q[j].kind = "zero" <=> pc = "zeroing"
          /\ q[j].kind # "batch"
      BY DEF Ordered
    <2>3. i \in Nat \ {0} /\ Len(q) \in Nat
      BY <1>1
    <2>4. Len(q) # 1
      BY <2>1, <2>3
    <2>5. j = Len(q) => i = Len(r)
      BY <2>1, <2>3
    <2> QED
      BY <2>1, <2>2, <2>4, <2>5
  <1> HIDE DEF r
  <1>3. Ordered(r)
    BY <1>2 DEF Ordered
  <1> QED
    BY <1>3 DEF r

\* The work at the head of a stream, and what it tells of the host.
LEMMA HeadOrdered ==
  ASSUME NEW q \in Seq(Work), q # <<>>, Ordered(q)
  PROVE  /\ Head(q) \in Work /\ Head(q).kind # "batch"
         /\ Head(q).kind = "zero" <=> pc = "zeroing"
         /\ Head(q).kind \in {"zero", "reduce"} => Tail(q) = <<>>
         /\ Head(q).kind = "reduce" => pc = "syncing" /\ UsesPartials(short) /\ StreamCount > 1
  <1>1. Head(q) \in Work /\ Len(Tail(q)) = Len(q) - 1 /\ Tail(q) \in Seq(Work)
    BY HeadTailProperties
  <1>2. 1 \in 1 .. Len(q) /\ Head(q) = q[1] /\ Len(q) \in Nat
    BY TailShift
  <1>a. /\ q[1].kind = "reduce" =>
             1 = Len(q) /\ pc = "syncing" /\ UsesPartials(short) /\ StreamCount > 1
        /\ q[1].kind = "zero" => Len(q) = 1
        /\ q[1].kind = "zero" <=> pc = "zeroing"
        /\ q[1].kind # "batch"
    BY <1>2 DEF Ordered
  <1>3. q[1].kind \in {"zero", "reduce"} => Len(Tail(q)) = 0
    <2> HIDE DEF Ordered
    <2>1. q[1].kind \in {"zero", "reduce"} => Len(q) = 1
      BY <1>a
    <2> QED
      BY <1>1, <2>1
  <1>4. Len(Tail(q)) = 0 => Tail(q) = <<>>
    BY <1>1, EmptySeq
  <1> QED
    BY <1>1, <1>2, <1>a, <1>3, <1>4

\* A launch appends the kernel of the next block to the work of its stream, with
\* streaming behind a copy.
LEMMA LaunchQueue ==
  ASSUME TypeInv, LaunchBlock
  PROVE  \E c, k \in Work :
           /\ c.kind = "copy" /\ k.kind = "kernel" /\ k.src = b
           /\ \/ queue'[StreamOf(b)] = Append(queue[StreamOf(b)], k)
              \/ queue'[StreamOf(b)] = Append(Append(queue[StreamOf(b)], c), k)
           /\ \A r \in Stream : r # StreamOf(b) => queue'[r] = queue[r]
  <1> DEFINE s == StreamOf(b)
             nnz == IF StreamData THEN Len(HostBlock[b]) ELSE blockNnz[s]
             k == LaunchKernel(b, nnz)
             c == CopyBlock(b)
  <1>1. TypeOK /\ \A r \in Stream : queue[r] \in Seq(Work)
    BY DEF TypeInv, TypeOK
  <1>2. queue' = [queue EXCEPT ![s] = @ \o (IF StreamData THEN <<c>> ELSE <<>>) \o <<k>>]
    BY DEF LaunchBlock
  <1>3. b \in HostBlocks /\ s \in Stream
    BY LaunchesExist DEF LaunchBlock
  <1>4. nnz \in Nat
    BY <1>1, <1>3, HostBlockLen DEF TypeOK
  <1> HIDE DEF nnz, s
  <1>5. k \in Work /\ k.kind = "kernel" /\ k.src = b /\ c \in Work /\ c.kind = "copy"
    BY <1>3, <1>4 DEF CopyBlock, LaunchKernel, Work
  <1> HIDE DEF k, c
  <1>6. queue'[s] = Append(queue[s], k) \/ queue'[s] = Append(Append(queue[s], c), k)
    <2>1. queue'[s] = queue[s] \o (IF StreamData THEN <<c>> ELSE <<>>) \o <<k>>
      BY <1>1, <1>2, <1>3 DEF TypeOK
    <2>2. CASE StreamData
      <3>1. queue'[s] = (queue[s] \o <<c>>) \o <<k>>
        BY <2>1, <2>2
      <3>2. queue[s] \o <<c>> = Append(queue[s], c) /\ Append(queue[s], c) \in Seq(Work)
        BY <1>1, <1>3, <1>5, AppendIsConcat
      <3> QED
        BY <1>5, <3>1, <3>2, AppendIsConcat
    <2>3. CASE ~StreamData
      <3>1. queue'[s] = (queue[s] \o <<>>) \o <<k>>
        BY <2>1, <2>3
      <3>2. queue[s] \o <<>> = queue[s]
        BY <1>1, <1>3, ConcatEmptySeq
      <3> QED
        BY <1>1, <1>3, <1>5, <3>1, <3>2, AppendIsConcat
    <2> QED
      BY <2>2, <2>3
  <1>7. \A r \in Stream : r # s => queue'[r] = queue[r]
    BY <1>1, <1>2 DEF TypeOK
  <1> QED
    BY <1>5, <1>6, <1>7 DEF s

LEMMA OrderInvStep ==
  ASSUME TypeInv, OrderInv, [Next]_blcoVars, ~LaunchAll
  PROVE  OrderInv'
  <1>1. TypeOK /\ HostInv /\ \A s \in Stream : queue[s] \in Seq(Work) /\ Ordered(queue[s])
    BY DEF TypeInv, TypeOK, OrderInv
  <1>2. ASSUME NEW w \in Work, NEW s \in Stream, queue[s] = <<>>, queue'[s] = Append(queue[s], w),
               w.kind = "zero", pc' = "zeroing"
        PROVE  Ordered(queue[s])'
    <2>1. Len(queue'[s]) = 1 /\ queue'[s][1] = w
      BY <1>2
    <2> QED
      BY <1>2, <2>1 DEF Ordered
  <1>3. ASSUME NEW k \in ModeKinds, BeginCall(k)
        PROVE  OrderInv'
    <2>1. \A s \in Stream : queue[s] = <<>>
      BY <1>3 DEF BeginCall, OrderInv, DeviceIdle
    <2>2. ZeroPartials \in Work /\ ZeroPartials.kind = "zero"
      BY HostAssumption DEF ZeroPartials, Work, HostBlocks
    <2>3. pc' \notin {"start", "idle"}
      BY <1>3 DEF BeginCall
    <2>4. CASE UsesPartials(k)
      <3>1. pc' = "zeroing" /\ \A s \in Stream : queue'[s] = Append(queue[s], ZeroPartials)
        BY <1>3, <2>4 DEF BeginCall
      <3>2. \A s \in Stream : Ordered(queue[s])'
        BY <1>2, <2>1, <2>2, <3>1
      <3> QED
        BY <2>3, <3>2 DEF OrderInv
    <2>5. CASE ~UsesPartials(k)
      <3>1. queue' = queue /\ \A s \in Stream : Len(queue[s]) = 0
        BY <1>3, <2>1, <2>5, EmptySeq DEF BeginCall
      <3>2. \A s \in Stream : Ordered(queue[s])'
        BY <3>1 DEF Ordered
      <3> QED
        BY <2>3, <3>2 DEF OrderInv
    <2> QED
      BY <2>4, <2>5
  <1>4. CASE LaunchBlock
    <2> DEFINE s == StreamOf(b)
    <2>2. b \in HostBlocks /\ s \in Stream
      BY <1>4, LaunchesExist DEF LaunchBlock
    <2>4. pc = "launching" /\ pc' \in {"launching", "merging"} /\ short' = short
      BY <1>4 DEF LaunchBlock
    <2>5. PICK c \in Work, k \in Work :
            /\ c.kind = "copy" /\ k.kind = "kernel"
            /\ queue'[s] = Append(queue[s], k) \/ queue'[s] = Append(Append(queue[s], c), k)
            /\ \A r \in Stream : r # s => queue'[r] = queue[r]
      BY <1>4, LaunchQueue
    <2> HIDE DEF s
    <2>7. ASSUME NEW q \in Seq(Work),
                 \A i \in 1 .. Len(q) : q[i].kind \notin {"reduce", "zero", "batch"}
          PROVE  \A w \in Work : w.kind \notin {"reduce", "zero", "batch"} =>
                   \A i \in 1 .. Len(Append(q, w)) : Append(q, w)[i].kind \notin {"reduce", "zero", "batch"}
      BY <2>7
    <2>8. \A r \in Stream : \A i \in 1 .. Len(queue[r]) : queue[r][i].kind \notin {"reduce", "zero", "batch"}
      BY <1>1, <2>4 DEF Ordered
    <2>9. \A i \in 1 .. Len(queue'[s]) : queue'[s][i].kind \notin {"reduce", "zero", "batch"}
      <3>1. Append(queue[s], c) \in Seq(Work)
        BY <1>1, <2>2, <2>5
      <3>2. \A i \in 1 .. Len(Append(queue[s], c)) :
              Append(queue[s], c)[i].kind \notin {"reduce", "zero", "batch"}
        BY <1>1, <2>2, <2>5, <2>7, <2>8
      <3>3. \A i \in 1 .. Len(Append(queue[s], k)) :
              Append(queue[s], k)[i].kind \notin {"reduce", "zero", "batch"}
        BY <1>1, <2>2, <2>5, <2>7, <2>8
      <3>4. \A i \in 1 .. Len(Append(Append(queue[s], c), k)) :
              Append(Append(queue[s], c), k)[i].kind \notin {"reduce", "zero", "batch"}
        BY <2>5, <2>7, <3>1, <3>2
      <3> QED
        BY <2>5, <3>3, <3>4
    <2>11. \A r \in Stream : \A i \in 1 .. Len(queue'[r]) :
             queue'[r][i].kind \notin {"reduce", "zero", "batch"}
      BY <2>5, <2>8, <2>9
    <2>12. \A r \in Stream : Ordered(queue[r])'
      BY <2>4, <2>11 DEF Ordered
    <2> QED
      BY <2>4, <2>12 DEF OrderInv
  <1>5. CASE Merge
    <2>1. pc = "merging" /\ pc' = "syncing" /\ short' = short
      BY <1>5 DEF Merge
    <2>2. \A r \in Stream : \A i \in 1 .. Len(queue[r]) : queue[r][i].kind \notin {"reduce", "zero", "batch"}
      BY <1>1, <2>1 DEF Ordered
    <2>3. CASE UsesPartials(short) /\ StreamCount > 1
      <3> DEFINE w == ReducePartials
      <3>1. w \in Work /\ w.kind = "reduce"
        BY HostAssumption DEF ReducePartials, Work, HostBlocks
      <3>2. \A s \in Stream : queue'[s] = Append(queue[s], w)
        BY <1>5, <2>3 DEF Merge
      <3> HIDE DEF w
      <3>3. ASSUME NEW s \in Stream
            PROVE  Ordered(queue[s])'
        <4>1. /\ Len(queue'[s]) = Len(queue[s]) + 1 /\ Len(queue[s]) \in Nat
              /\ \A i \in 1 .. Len(queue[s]) : queue'[s][i] = queue[s][i]
              /\ queue'[s][Len(queue[s]) + 1] = w
          BY <1>1, <3>2
        <4>2. \A i \in 1 .. Len(queue'[s]) : i = Len(queue'[s]) \/ i \in 1 .. Len(queue[s])
          BY <4>1
        <4>3. \A i \in 1 .. Len(queue'[s]) :
                /\ queue'[s][i].kind \notin {"zero", "batch"}
                /\ queue'[s][i].kind = "reduce" => i = Len(queue'[s])
          BY <2>2, <3>1, <4>1, <4>2
        <4> QED
          BY <2>1, <2>3, <4>3 DEF Ordered
      <3> QED
        BY <2>1, <3>3 DEF OrderInv
    <2>4. CASE ~(UsesPartials(short) /\ StreamCount > 1)
      <3>1. queue' = queue
        BY <1>5, <2>4 DEF Merge
      <3>2. \A r \in Stream : Ordered(queue[r])'
        BY <2>1, <2>2, <3>1 DEF Ordered
      <3> QED
        BY <2>1, <3>2 DEF OrderInv
    <2> QED
      BY <2>3, <2>4
  <1>6. CASE SyncZero \/ EndCall
    <2>1. \A s \in Stream : queue'[s] = <<>> /\ Len(queue'[s]) = 0
      BY <1>6, EmptySeq DEF SyncZero, EndCall, DeviceIdle
    <2>2. DeviceIdle'
      BY <1>6 DEF SyncZero, EndCall, DeviceIdle
    <2> QED
      BY <2>1, <2>2 DEF OrderInv, Ordered
  <1>7. CASE Prepare
    <2>1. DeviceIdle' /\ queue' = queue /\ \A s \in Stream : queue[s] = <<>>
      BY <1>7 DEF Prepare, OrderInv, DeviceIdle
    <2>2. \A s \in Stream : Len(queue'[s]) = 0
      BY <2>1, EmptySeq
    <2> QED
      BY <2>1, <2>2 DEF OrderInv, Ordered
  <1>8. CASE LaunchAll
    BY <1>8
  <1>9. ASSUME NEW s \in Stream, Zero(s) \/ Reduce(s) \/ Retire(s) \/ Copy(s)
        PROVE  OrderInv'
    <2>1. queue[s] # <<>> /\ Pop(s) /\ pc' = pc /\ short' = short
      BY <1>9 DEF Zero, Reduce, Retire, Copy, RunningKernel, AtHead, host
    <2>2. \A r \in Stream : queue'[r] = IF r = s THEN Tail(queue[s]) ELSE queue[r]
      BY <1>1, <2>1 DEF Pop, TypeOK
    <2>3. Ordered(Tail(queue[s]))
      BY <1>1, <2>1, TailOrdered
    <2>4. \A r \in Stream : Ordered(queue'[r])
      BY <1>1, <2>2, <2>3
    <2>5. \A r \in Stream : Ordered(queue[r])'
      BY <2>1, <2>4 DEF Ordered
    <2>6. pc \notin {"start", "idle"}
      BY <2>1 DEF OrderInv, DeviceIdle
    <2> QED
      BY <2>1, <2>5, <2>6 DEF OrderInv
  <1>10. CASE DefaultZero \/ DefaultReduce
    <2>1. queue' = queue /\ pc' = pc /\ short' = short /\ pc \notin {"start", "idle"}
      BY <1>10 DEF DefaultZero, DefaultReduce, OrderInv, DeviceIdle, host
    <2>2. \A r \in Stream : Ordered(queue[r])'
      BY <1>1, <2>1 DEF Ordered
    <2> QED
      BY <2>1, <2>2 DEF OrderInv
  <1>11. ASSUME queue' = queue, pc' = pc, short' = short, default' = default
         PROVE  OrderInv'
    <2>1. \A r \in Stream : Ordered(queue[r])'
      BY <1>1, <1>11 DEF Ordered
    <2> QED
      BY <1>11, <2>1 DEF OrderInv, DeviceIdle
  <1> QED
    BY <1>3, <1>4, <1>5, <1>6, <1>7, <1>8, <1>9, <1>10, <1>11
       DEF Next, Host, Device, RunThreadBlock, Stop, blcoVars, host

\* What a thread block does in the launch for one block: it adds its part of
\* the block that its kernel was launched for, and reads nothing else.
LEMMA ThreadBlockMeaning ==
  ASSUME ~FollowsBlockMasks, TypeInv, KernelReadsItsBlock, OrderInv, NEW s \in Stream,
         RunThreadBlock(s)
  PROVE  LET blk == Head(queue[s]).src
             n == Len(HostBlock[blk])
         IN /\ AtHead(s, "kernel") /\ ThreadBlocks(s) = Grid(short, s, n)
            /\ blk \in HostBlocks /\ n \in Nat
            /\ fault' = fault
            /\ \E t \in ThreadBlocks(s) \ finished[s] :
                 LET into == IF UsesPartials(short) THEN partial[s][t.part] ELSE output
                 IN /\ t.lo .. t.hi \subseteq 1 .. n
                    /\ finished' = [finished EXCEPT ![s] = @ \union {t}]
                    /\ exact' = (exact /\ AddsOnce(Part(t, blk), into)
                                  /\ \A i, j \in t.lo .. t.hi :
                                       HostBlock[blk][i] = HostBlock[blk][j] => i = j)
                    /\ IF UsesPartials(short)
                         THEN /\ partial' = [partial EXCEPT ![s][t.part] = @ \union Part(t, blk)]
                              /\ UNCHANGED output
                         ELSE /\ output' = output \union Part(t, blk)
                              /\ UNCHANGED partial
  <1> DEFINE blk == Head(queue[s]).src
             n == Len(HostBlock[blk])
  <1>1. TypeOK /\ queue[s] # <<>> /\ queue[s] \in Seq(Work) /\ Ordered(queue[s])
    BY DEF TypeInv, TypeOK, RunThreadBlock, RunningKernel, AtHead, OrderInv
  <1>2. AtHead(s, "kernel") /\ ~AtHead(s, "batch")
    BY <1>1, HeadOrdered DEF RunThreadBlock, RunningKernel, AtHead
  <1>3. blk \in HostBlocks /\ n \in Nat
    BY <1>1, HeadSource, HostBlockLen
  <1>4. /\ Head(queue[s]).nnz = n /\ n <= Len(slot[s])
        /\ \A i \in 1 .. n : slot[s][i] = HostBlock[blk][i]
    <2>1. Head(queue[s]).nnz = n
      BY <1>2 DEF KernelReadsItsBlock
    <2> QED
      BY <1>2, <2>1 DEF KernelReadsItsBlock
  <1>5. ThreadBlocks(s) = Grid(short, s, n)
    BY <1>2, <1>4 DEF ThreadBlocks, AtHead
  <1>6. DOMAIN slot[s] = 1 .. Len(slot[s]) /\ Len(slot[s]) \in Nat /\ short \in BOOLEAN
    BY <1>1, LenProperties DEF TypeOK
  <1>7. PICK t \in ThreadBlocks(s) \ finished[s] :
          LET mem == slot[t.block]
              read == (t.lo .. t.hi) \intersect DOMAIN mem
              vals == {mem[i] : i \in read}
              into == IF UsesPartials(short) THEN partial[s][t.part] ELSE output
              distinct == \A i, j \in read : mem[i] = mem[j] => i = j
          IN /\ finished' = [finished EXCEPT ![s] = @ \union {t}]
             /\ exact' = (exact /\ AddsOnce(vals, into) /\ distinct)
             /\ fault' = (fault \/ ~(t.lo .. t.hi \subseteq DOMAIN mem)
                                \/ (AtHead(s, "batch") /\ ~staged))
             /\ IF UsesPartials(short)
                  THEN /\ partial' = [partial EXCEPT ![s][t.part] = @ \union vals]
                       /\ UNCHANGED output
                  ELSE /\ output' = output \union vals
                       /\ UNCHANGED partial
    BY DEF RunThreadBlock
  <1> HIDE DEF blk, n
  <1>8. t.block = s /\ t.lo .. t.hi \subseteq 1 .. n
    BY <1>3, <1>5, <1>6, GridStaysInside
  <1> DEFINE read == (t.lo .. t.hi) \intersect DOMAIN slot[s]
             vals == {slot[s][i] : i \in read}
             into == IF UsesPartials(short) THEN partial[s][t.part] ELSE output
             distinct == \A i, j \in read : slot[s][i] = slot[s][j] => i = j
             apart == \A i, j \in t.lo .. t.hi : HostBlock[blk][i] = HostBlock[blk][j] => i = j
  <1>9. 1 .. n \subseteq DOMAIN slot[s]
    BY <1>3, <1>4, <1>6
  <1>10. read = t.lo .. t.hi
    BY <1>8, <1>9
  <1>11. \A i \in t.lo .. t.hi : slot[s][i] = HostBlock[blk][i]
    BY <1>4, <1>8
  <1>12. vals = Part(t, blk) /\ distinct = apart
    <2> HIDE DEF read
    <2>1. vals = Part(t, blk)
      BY <1>10, <1>11 DEF Part
    <2>2. distinct <=> apart
      BY <1>10, <1>11
    <2>3. distinct \in BOOLEAN /\ apart \in BOOLEAN
      OBVIOUS
    <2> QED
      BY <2>1, <2>2, <2>3
  <1>13. /\ finished' = [finished EXCEPT ![s] = @ \union {t}]
         /\ exact' = (exact /\ AddsOnce(vals, into) /\ distinct)
         /\ fault' = (fault \/ ~(t.lo .. t.hi \subseteq DOMAIN slot[s])
                            \/ (AtHead(s, "batch") /\ ~staged))
         /\ IF UsesPartials(short)
              THEN /\ partial' = [partial EXCEPT ![s][t.part] = @ \union vals]
                   /\ UNCHANGED output
              ELSE /\ output' = output \union vals
                   /\ UNCHANGED partial
    BY <1>7, <1>8
  <1>14. fault' = fault
    <2>1. t.lo .. t.hi \subseteq DOMAIN slot[s]
      BY <1>8, <1>9
    <2>2. fault \in BOOLEAN
      BY <1>1 DEF TypeOK
    <2> QED
      BY <1>2, <1>13, <2>1, <2>2
  <1> HIDE DEF read, vals, distinct
  <1>15. /\ exact' = (exact /\ AddsOnce(Part(t, blk), into) /\ apart)
         /\ IF UsesPartials(short)
              THEN /\ partial' = [partial EXCEPT ![s][t.part] = @ \union Part(t, blk)]
                   /\ UNCHANGED output
              ELSE /\ output' = output \union Part(t, blk)
                   /\ UNCHANGED partial
    BY <1>12, <1>13
  <1> QED
    BY <1>2, <1>3, <1>5, <1>7, <1>8, <1>13, <1>14, <1>15 DEF blk, n

-------------------------------------------------------------------------------
(* A batched launch: one kernel for all device blocks, and nothing else. *)

LEMMA BatchedFacts ==
  ASSUME Supported, NEW k \in BOOLEAN, Batched(k)
  PROVE  ~StreamData /\ ~UsesPartials(k)
  BY DEF Supported, Unbatched, Batched, UsesWarpInfo, UsesPartials, Gen, RequestedSize

\* A batched launch finds a device that has nothing to do and an empty result, ...
ReadyInv ==
  Batched(short) /\ pc \notin {"start", "idle"} =>
    pc = "launching" /\ b = 0 /\ DeviceIdle /\ output = {}

LEMMA ReadyInvStep ==
  ASSUME TypeInv, Supported, OrderInv, ReadyInv, [Next]_blcoVars, ~LaunchAll
  PROVE  ReadyInv'
  <1>1. TypeOK
    BY DEF TypeInv
  <1>2. ASSUME NEW k \in ModeKinds, BeginCall(k)
        PROVE  ReadyInv'
    <2>1. pc = "idle" /\ short' = k /\ b' = 0 /\ output' = {} /\ DeviceIdle /\ k \in BOOLEAN
      BY <1>2, CallAssumption DEF BeginCall, OrderInv
    <2>2. Batched(k) => ~UsesPartials(k)
      BY <2>1, BatchedFacts
    <2>3. ~UsesPartials(k) => pc' = "launching" /\ queue' = queue /\ default' = default
      BY <1>2 DEF BeginCall
    <2>4. Batched(short') <=> Batched(k)
      BY <2>1
    <2>5. Batched(k) => DeviceIdle'
      BY <2>1, <2>2, <2>3 DEF DeviceIdle
    <2> QED
      BY <2>1, <2>2, <2>3, <2>4, <2>5 DEF ReadyInv
  <1>3. ASSUME short' = short, pc \in {"start", "idle"}, pc' \in {"start", "idle"}
        PROVE  ReadyInv'
    BY <1>3 DEF ReadyInv
  <1>4. ASSUME short' = short, pc \notin {"start", "idle"}, ~Batched(short)
        PROVE  ReadyInv'
    BY <1>4 DEF ReadyInv
  <1>5. CASE Prepare \/ Stop
    BY <1>3, <1>5 DEF Prepare, Stop, blcoVars, host
  <1>6. CASE SyncZero \/ LaunchBlock \/ Merge \/ EndCall
    <2>1. short' = short /\ pc \notin {"start", "idle"}
      BY <1>6 DEF SyncZero, LaunchBlock, Merge, EndCall
    <2>2. ~Batched(short)
      BY <1>6, <2>1 DEF SyncZero, LaunchBlock, Merge, EndCall, ReadyInv
    <2> QED
      BY <1>4, <2>1, <2>2
  <1>7. CASE Device
    <2>1. ~DeviceIdle /\ short' = short
      BY <1>7 DEF Device, DefaultZero, DefaultReduce, Zero, Copy, RunThreadBlock, Retire,
                  Reduce, RunningKernel, AtHead, DeviceIdle, host
    <2>2. pc \notin {"start", "idle"} /\ ~Batched(short)
      BY <2>1 DEF OrderInv, ReadyInv
    <2> QED
      BY <1>4, <2>1, <2>2
  <1>8. CASE UNCHANGED blcoVars
    BY <1>8 DEF ReadyInv, DeviceIdle, blcoVars, host, memory
  <1> QED
    BY <1>2, <1>5, <1>6, <1>7, <1>8 DEF Next, Host

\* ... and from then on to the end of the call has the device for itself.
BatchInv ==
  /\ ~StreamData /\ ResidentInv /\ ~fault
  /\ Batched(short) /\ pc \in {"merging", "syncing"} /\ default = "none"
  /\ \A s \in Stream : queue[s] = <<>> \/ (s = 0 /\ queue[s] = <<LaunchBatch>>)

LEMMA BatchHead ==
  /\ <<LaunchBatch>> # <<>> /\ Head(<<LaunchBatch>>) = LaunchBatch /\ Tail(<<LaunchBatch>>) = <<>>
  /\ LaunchBatch.kind = "batch"
  BY DEF LaunchBatch

LEMMA BatchSteps ==
  ASSUME Supported, BatchInv, [Next]_blcoVars
  PROVE  Merge \/ EndCall \/ RunThreadBlock(0) \/ Retire(0) \/ UNCHANGED blcoVars
  <1>1. pc \in {"merging", "syncing"} /\ default = "none"
    BY DEF BatchInv
  <1>2. ASSUME NEW s \in Stream, queue[s] # <<>>
        PROVE  s = 0 /\ Head(queue[s]).kind = "batch"
    BY <1>2, BatchHead DEF BatchInv
  <1>3. ASSUME NEW s \in Stream, Zero(s) \/ Copy(s) \/ Reduce(s)
        PROVE  FALSE
    BY <1>2, <1>3 DEF Zero, Copy, Reduce, AtHead
  <1>4. ASSUME NEW s \in Stream, RunThreadBlock(s) \/ Retire(s)
        PROVE  s = 0
    BY <1>2, <1>4 DEF RunThreadBlock, Retire, RunningKernel, AtHead
  <1>5. ~(DefaultZero \/ DefaultReduce)
    BY <1>1 DEF DefaultZero, DefaultReduce
  <1>6. ~(Prepare \/ SyncZero \/ LaunchBlock \/ LaunchAll \/ Stop)
    BY <1>1 DEF Prepare, SyncZero, LaunchBlock, LaunchAll, Stop
  <1>7. ~\E k \in ModeKinds : BeginCall(k)
    BY <1>1 DEF BeginCall
  <1> QED
    BY <1>3, <1>4, <1>5, <1>6, <1>7 DEF Next, Host, Device

\* A non-empty set of bounded numbers has a greatest.
LEMMA GreatestNumber ==
  ASSUME NEW k \in Nat, NEW S \in SUBSET (0 .. k), S # {}
  PROVE  \E m \in S : \A x \in S : x <= m
  <1> DEFINE U == 0 .. k
             T == {x .. k : x \in S}
  <1>1. IsFiniteSet(U)
    BY FS_Interval
  <1>2. T \subseteq SUBSET U /\ T # {}
    <2>1. \A x \in S : x .. k \in SUBSET U
      OBVIOUS
    <2> HIDE DEF U
    <2>2. \A t \in T : t \in SUBSET U
      BY <2>1
    <2>3. T # {}
      OBVIOUS
    <2> HIDE DEF T
    <2> QED
      BY <2>2, <2>3
  <1> HIDE DEF U, T
  <1>3. T \subseteq FiniteSubsetsOf(U)
    BY <1>1, <1>2, FS_Subset DEF FiniteSubsetsOf
  <1>4. PICK t \in T : \A u \in T : ~ (<<u, t>> \in StrictSubsetOrdering(U))
    BY <1>1, <1>2, <1>3, FS_StrictSubsetOrderingWellFounded, WFMin
  <1>5. \A u \in T : u \subseteq t => u = t
    BY <1>2, <1>4 DEF StrictSubsetOrdering
  <1>6. PICK m \in S : t = m .. k
    BY DEF T
  <1>7. ASSUME NEW x \in S
        PROVE  x <= m
    <2> SUFFICES ASSUME m < x
                 PROVE  FALSE
      OBVIOUS
    <2>1. x .. k \in T /\ x .. k \subseteq m .. k
      BY DEF T
    <2>2. x .. k = m .. k
      BY <1>5, <1>6, <2>1
    <2>3. m \in m .. k /\ m \notin x .. k
      OBVIOUS
    <2> QED
      BY <2>2, <2>3
  <1> QED
    BY <1>7

\* The thread blocks of the launch share out the device blocks, in both versions.
LEMMA BatchSharesOut ==
  ASSUME Supported, BatchInv, queue[0] # <<>>
  PROVE  SharesOut(ThreadBlocks(0)) /\ \A t \in ThreadBlocks(0) : t.block \in Stream
  <1> DEFINE len == [s \in Stream |-> Len(HostBlock[s])]
             T == ThreadBlocks(0)
  <1>1. /\ TypeOK /\ staged /\ pc # "start" /\ Stream = HostBlocks
        /\ \A s \in Stream : cap[s] = Len(HostBlock[s])
    BY OneStreamEach DEF BatchInv, ResidentInv, TypeInv
  <1>2. Head(queue[0]).kind = "batch"
    BY ZeroIsStream, BatchHead DEF BatchInv
  <1>3. StagedNnz = len /\ cap = len
    <2>1. DOMAIN cap = Stream /\ cap = [s \in Stream |-> cap[s]]
      BY <1>1 DEF TypeOK
    <2> QED
      BY <1>1, <2>1 DEF StagedNnz
  <1>4. \A s \in Stream : len[s] \in 1 .. MaxBlockSize /\ len[s] \in Nat
    BY <1>1, HostAssumption
  <1>5. \A t \in T : t.block \in Stream
    <2>1. RunningKernel(0)
      BY <1>2 DEF RunningKernel, AtHead
    <2> QED
      BY <1>1, <2>1, ZeroIsStream, ThreadBlocksReadDeviceBlocks
  <1>6. CASE Kernel = 11
    <2> DEFINE sizes == {cap[s] : s \in Stream}
    <2>1. T = UNION {BatchedGrid(StagedNnz, m) : m \in Largest(sizes)}
      BY <1>2, <1>6 DEF ThreadBlocks
    <2>2. sizes \in SUBSET (0 .. MaxBlockSize) /\ sizes # {}
      <3>1. \A s \in Stream : cap[s] \in 0 .. MaxBlockSize
        BY <1>3, <1>4
      <3> QED
        BY <3>1, ZeroIsStream
    <2> HIDE DEF T
    <2>3. PICK m \in sizes : \A n \in sizes : n <= m
      <3>1. PICK S : S = sizes
        OBVIOUS
      <3> HIDE DEF sizes
      <3>2. S \in SUBSET (0 .. MaxBlockSize) /\ S # {} /\ MaxBlockSize \in Nat
        BY <2>2, <3>1, HostAssumption
      <3>3. \E m \in S : \A n \in S : n <= m
        BY <3>2, GreatestNumber
      <3> QED
        BY <3>1, <3>3
    <2>4. Largest(sizes) = {m}
      <3>1. m \in Largest(sizes)
        BY <2>3 DEF Largest
      <3>2. ASSUME NEW n \in Largest(sizes)
            PROVE  n = m
        <4>1. n \in sizes /\ m <= n /\ n <= m
          BY <2>3 DEF Largest
        <4>2. m \in Nat /\ n \in Nat
          BY <2>2, <4>1
        <4> QED
          BY <4>1, <4>2
      <3> QED
        BY <3>1, <3>2
    <2>5. T = BatchedGrid(len, m)
      BY <1>3, <2>1, <2>4
    <2>6. m \in Nat \ {0} /\ \A s \in Stream : len[s] \in Nat /\ len[s] <= m
      <3>1. \A s \in Stream : len[s] \in sizes
        BY <1>3
      <3>2. PICK s \in Stream : m = len[s]
        BY <1>3
      <3> HIDE DEF sizes
      <3>3. m \in Nat \ {0}
        BY <1>4, <3>2
      <3>4. \A r \in Stream : len[r] <= m
        BY <2>3, <3>1
      <3> QED
        BY <1>4, <3>3, <3>4
    <2>7. SharesOut(BatchedGrid(len, m))
      <3>1. PICK f : f = len
        OBVIOUS
      <3> HIDE DEF sizes
      <3>2. f = [s \in Stream |-> Len(HostBlock[s])]
        BY <3>1
      <3>3. \A s \in Stream : f[s] \in Nat /\ f[s] <= m
        BY <2>6, <3>1
      <3> HIDE DEF len
      <3>4. SharesOut(BatchedGrid(f, m))
        BY <2>6, <3>2, <3>3, BatchedSharesOut
      <3> QED
        BY <3>1, <3>4
    <2> QED
      BY <1>5, <2>5, <2>7 DEF T
  <1>7. CASE Kernel # 11
    <2>1. T = WarpInfoGrid(len, len)
      BY <1>2, <1>3, <1>7 DEF ThreadBlocks
    <2>2. SharesOut(WarpInfoGrid(len, len))
      BY <1>4, WarpInfoSharesOut
    <2> QED
      BY <1>5, <2>1, <2>2
  <1> QED
    BY <1>6, <1>7

\* What a thread block of the launch does: it adds its part of one device block, and
\* reads nothing else.
LEMMA BatchThreadBlock ==
  ASSUME Supported, BatchInv, RunThreadBlock(0)
  PROVE  /\ fault' = fault /\ queue[0] # <<>>
         /\ \E t \in ThreadBlocks(0) \ finished[0] :
              /\ t.block \in Stream /\ t.lo .. t.hi \subseteq 1 .. Len(HostBlock[t.block])
              /\ finished' = [finished EXCEPT ![0] = @ \union {t}]
              /\ exact' = (exact /\ AddsOnce(Part(t, t.block), output)
                            /\ \A i, j \in t.lo .. t.hi :
                                 HostBlock[t.block][i] = HostBlock[t.block][j] => i = j)
              /\ output' = output \union Part(t, t.block)
  <1>1. /\ TypeOK /\ short \in BOOLEAN /\ staged /\ Stream = HostBlocks /\ queue[0] # <<>>
        /\ \A s \in Stream : Len(slot[s]) = Len(HostBlock[s]) /\ Holds(slot[s], s)
    BY OneStreamEach DEF BatchInv, ResidentInv, TypeInv, TypeOK, RunThreadBlock, RunningKernel, AtHead
  <1>2. ~UsesPartials(short)
    BY <1>1, BatchedFacts DEF BatchInv
  <1>3. PICK t \in ThreadBlocks(0) \ finished[0] :
          LET mem == slot[t.block]
              read == (t.lo .. t.hi) \intersect DOMAIN mem
              vals == {mem[i] : i \in read}
              distinct == \A i, j \in read : mem[i] = mem[j] => i = j
          IN /\ finished' = [finished EXCEPT ![0] = @ \union {t}]
             /\ exact' = (exact /\ AddsOnce(vals, output) /\ distinct)
             /\ fault' = (fault \/ ~(t.lo .. t.hi \subseteq DOMAIN mem)
                                \/ (AtHead(0, "batch") /\ ~staged))
             /\ output' = output \union vals
    BY <1>2 DEF RunThreadBlock, Supported
  <1> DEFINE s == t.block
             n == Len(HostBlock[s])
  <1>4. s \in Stream /\ t.lo .. t.hi \subseteq 1 .. n
    <2>1. SharesOut(ThreadBlocks(0)) /\ s \in Stream
      BY <1>1, BatchSharesOut
    <2>2. t \in {u \in ThreadBlocks(0) : u.block = s}
      OBVIOUS
    <2> HIDE DEF s
    <2> QED
      BY <2>1, <2>2 DEF SharesOut
  <1> HIDE DEF s, n
  <1>5. /\ DOMAIN slot[s] = 1 .. n /\ \A i \in 1 .. n : slot[s][i] = HostBlock[s][i]
    <2>1. slot[s] \in Seq(Value) /\ Len(slot[s]) = n /\ Holds(slot[s], s)
      BY <1>1, <1>4 DEF TypeOK, n
    <2>2. DOMAIN slot[s] = 1 .. n
      BY <2>1, LenProperties
    <2> QED
      BY <2>1, <2>2 DEF Holds, n
  <1> DEFINE read == (t.lo .. t.hi) \intersect DOMAIN slot[s]
             vals == {slot[s][i] : i \in read}
             distinct == \A i, j \in read : slot[s][i] = slot[s][j] => i = j
             apart == \A i, j \in t.lo .. t.hi : HostBlock[s][i] = HostBlock[s][j] => i = j
  <1>6. read = t.lo .. t.hi
    BY <1>4, <1>5
  <1>7. \A i \in t.lo .. t.hi : slot[s][i] = HostBlock[s][i]
    BY <1>4, <1>5
  <1>8. vals = Part(t, s) /\ distinct = apart
    <2> HIDE DEF read
    <2>1. vals = Part(t, s)
      BY <1>6, <1>7 DEF Part
    <2>2. distinct <=> apart
      BY <1>6, <1>7
    <2>3. distinct \in BOOLEAN /\ apart \in BOOLEAN
      OBVIOUS
    <2> QED
      BY <2>1, <2>2, <2>3
  <1>9. /\ finished' = [finished EXCEPT ![0] = @ \union {t}]
        /\ exact' = (exact /\ AddsOnce(vals, output) /\ distinct)
        /\ fault' = (fault \/ ~(t.lo .. t.hi \subseteq DOMAIN slot[s])
                           \/ (AtHead(0, "batch") /\ ~staged))
        /\ output' = output \union vals
    BY <1>3 DEF s
  <1>10. fault' = fault
    <2>1. t.lo .. t.hi \subseteq DOMAIN slot[s]
      BY <1>4, <1>5
    <2>2. fault \in BOOLEAN
      BY <1>1 DEF TypeOK
    <2> QED
      BY <1>1, <1>9, <2>1, <2>2
  <1> HIDE DEF read, vals, distinct
  <1>11. /\ exact' = (exact /\ AddsOnce(Part(t, s), output) /\ apart)
         /\ output' = output \union Part(t, s)
    BY <1>8, <1>9
  <1> QED
    BY <1>1, <1>3, <1>4, <1>9, <1>10, <1>11 DEF s, n

\* The launch leaves the device as it found it, but for the result.
LEMMA BatchInvStep ==
  ASSUME Supported, BatchInv, [Next]_blcoVars
  PROVE  \/ BatchInv' /\ ~EndCall
         \/ EndCall /\ ~fault' /\ ResidentInv' /\ DeviceIdle' /\ pc' = "idle"
  <1>1. ResidentInv'
    BY ResidentInvStep DEF BatchInv
  <1>2. TypeOK /\ short \in BOOLEAN /\ DOMAIN queue = Stream
    BY DEF BatchInv, ResidentInv, TypeInv, TypeOK
  <1>3. CASE Merge
    <2>1. ~UsesPartials(short)
      BY <1>2, BatchedFacts DEF BatchInv
    <2>2. /\ queue' = queue /\ default' = default /\ pc' = "syncing" /\ short' = short
          /\ fault' = fault /\ pc = "merging"
      BY <1>3, <2>1 DEF Merge, memory
    <2> QED
      BY <1>1, <2>2 DEF BatchInv, EndCall
  <1>4. CASE EndCall
    BY <1>1, <1>4 DEF BatchInv, EndCall, DeviceIdle, memory
  <1>5. CASE RunThreadBlock(0)
    <2>1. /\ queue' = queue /\ default' = default /\ pc' = pc /\ short' = short
      BY <1>5 DEF RunThreadBlock, host
    <2>2. fault' = fault
      BY <1>5, BatchThreadBlock
    <2> QED
      BY <1>1, <2>1, <2>2 DEF BatchInv, EndCall
  <1>6. CASE Retire(0)
    <2>1. /\ default' = default /\ pc' = pc /\ short' = short /\ fault' = fault
          /\ queue[0] # <<>> /\ queue' = [queue EXCEPT ![0] = Tail(@)]
      BY <1>6 DEF Retire, Pop, RunningKernel, AtHead, host, memory
    <2>2. queue'[0] = <<>> /\ \A s \in Stream : s # 0 => queue'[s] = queue[s]
      BY <1>2, <2>1, ZeroIsStream, BatchHead DEF BatchInv
    <2> QED
      BY <1>1, <2>1, <2>2 DEF BatchInv, EndCall
  <1>7. CASE UNCHANGED blcoVars
    <2>1. /\ queue' = queue /\ default' = default /\ pc' = pc /\ short' = short
          /\ fault' = fault
      BY <1>7 DEF blcoVars, host, memory
    <2> QED
      BY <1>1, <2>1 DEF BatchInv, EndCall
  <1> QED
    BY <1>3, <1>4, <1>5, <1>6, <1>7, BatchSteps

-------------------------------------------------------------------------------
(* No access outside an allocation. *)

SafeInv == DataInv /\ OrderInv /\ ReadyInv /\ ~fault

LEMMA OrderInvInit == Init => OrderInv
  <1> SUFFICES ASSUME Init
               PROVE  OrderInv
    OBVIOUS
  <1>1. \A s \in Stream : queue[s] = <<>> /\ Len(queue[s]) = 0
    BY EmptySeq DEF Init
  <1> QED
    BY <1>1 DEF Init, OrderInv, Ordered, DeviceIdle

LEMMA NoFaultStep ==
  ASSUME Supported, SafeInv, [Next]_blcoVars
  PROVE  ~fault'
  <1>1. TypeInv /\ TypeOK /\ KernelReadsItsBlock /\ OrderInv /\ DataInv /\ ~fault
    BY DataInvMeaning DEF SafeInv, TypeInv
  <1>2. CASE Prepare
    <2>1. CASE StreamData
      BY <1>2, <2>1, SupportedAllocation DEF Prepare
    <2>2. CASE ~StreamData
      <3>1. PICK c \in [Stream -> UNION {CapacityOf(s) : s \in Stream}] :
              /\ \A s \in Stream : c[s] \in CapacityOf(s)
              /\ fault' = ((GenReadsPastBlocks \/ WarpInfoOverflows(c))
                             \/ \E s \in Stream : c[s] < Len(HostBlock[s]))
        BY <1>2, <2>2 DEF Prepare
      <3>2. \A s \in Stream : c[s] = Len(HostBlock[s])
        BY <2>2, <3>1, ResidentCapacity
      <3>3. \A s \in Stream : Len(HostBlock[s]) \in Nat
        BY <2>2, OneStreamEach, HostBlockLen
      <3>4. \A s \in Stream : ~(c[s] < Len(HostBlock[s]))
        BY <3>2, <3>3
      <3>5. ~WarpInfoOverflows(c)
        <4>1. c \in [Stream -> Nat]
          BY <3>2, <3>3
        <4> QED
          BY <3>2, <4>1, SupportedAllocation
      <3> QED
        BY <3>1, <3>4, <3>5, SupportedAllocation
    <2> QED
      BY <2>1, <2>2
  <1>3. ASSUME NEW s \in Stream, Copy(s)
        PROVE  ~fault'
    <2>1. queue[s] # <<>> /\ Head(queue[s]).kind = "copy" /\ queue[s] \in Seq(Work)
      BY <1>1, <1>3 DEF Copy, AtHead, TypeOK
    <2>2. StreamData
      BY <1>1, <2>1, TailOwnWork DEF DataInv, ResidentInv
    <2>3. cap[s] = MaxBlockSize
      BY <1>1, <2>1, <2>2 DEF DataInv, StreamInv
    <2>4. Head(queue[s]).src \in HostBlocks
      BY <1>1, <2>1, HeadSource
    <2>5. Fits(Head(queue[s]).src, s)
      BY <2>3, <2>4, HostAssumption DEF Fits
    <2> QED
      BY <1>1, <1>3, <2>5 DEF Copy
  <1>4. ASSUME NEW s \in Stream, RunThreadBlock(s)
        PROVE  ~fault'
    BY <1>1, <1>4, ThreadBlockMeaning DEF Supported
  <1> QED
    BY <1>1, <1>2, <1>3, <1>4
       DEF Next, Host, Device, SyncZero, LaunchBlock, LaunchAll, Merge, EndCall, BeginCall, Zero,
           Retire, Reduce, DefaultZero, DefaultReduce, Stop, blcoVars, memory

LEMMA LaunchAllBegins ==
  ASSUME Supported, SafeInv, LaunchAll
  PROVE  BatchInv'
  <1>1. /\ pc = "launching" /\ pc' = "merging" /\ short' = short /\ default' = default
        /\ fault' = fault /\ queue' = [queue EXCEPT ![0] = Append(@, LaunchBatch)]
        /\ Batched(short)
    BY DEF LaunchAll, memory
  <1>2. TypeOK /\ short \in BOOLEAN /\ DOMAIN queue = Stream
    BY DataInvMeaning DEF SafeInv, TypeInv, TypeOK
  <1>3. ~StreamData
    BY <1>1, <1>2, BatchedFacts
  <1>4. DeviceIdle
    BY <1>1 DEF SafeInv, ReadyInv
  <1>5. ResidentInv'
    <2>1. [Next]_blcoVars
      BY DEF Next, Host
    <2> QED
      BY <1>3, <2>1, ResidentInvStep DEF SafeInv, DataInv
  <1>6. queue'[0] = <<LaunchBatch>> /\ \A s \in Stream : s # 0 => queue'[s] = <<>>
    <2>1. Append(<<>>, LaunchBatch) = <<LaunchBatch>>
      OBVIOUS
    <2>2. queue'[0] = Append(<<>>, LaunchBatch)
      BY <1>1, <1>2, <1>4, ZeroIsStream DEF DeviceIdle
    <2> QED
      BY <1>1, <1>2, <1>4, <2>1, <2>2 DEF DeviceIdle
  <1> QED
    BY <1>1, <1>3, <1>4, <1>5, <1>6 DEF BatchInv, SafeInv, DeviceIdle

\* The state of a device that has nothing to do is in order.
LEMMA IdleIsOrdered == pc \in {"start", "idle"} /\ DeviceIdle => OrderInv /\ ReadyInv
  <1> SUFFICES ASSUME pc \in {"start", "idle"}, DeviceIdle
               PROVE  OrderInv /\ ReadyInv
    OBVIOUS
  <1>1. \A s \in Stream : Len(queue[s]) = 0
    BY EmptySeq DEF DeviceIdle
  <1> QED
    BY <1>1 DEF OrderInv, Ordered, ReadyInv

LEMMA SafeInvKept == ASSUME Supported, SafeInv, [Next]_blcoVars, ~LaunchAll
                     PROVE  SafeInv'
  BY DataInvStep, DataInvMeaning, OrderInvStep, ReadyInvStep, NoFaultStep DEF SafeInv

LEMMA BatchEnds ==
  ASSUME Supported, BatchInv, EndCall
  PROVE  SafeInv' /\ DeviceIdle' /\ pc' = "idle"
  <1>1. ~fault' /\ ResidentInv' /\ DeviceIdle' /\ pc' = "idle"
    <2>1. [Next]_blcoVars
      BY DEF Next, Host
    <2> QED
      BY <2>1, BatchInvStep
  <1>2. (pc \in {"start", "idle"} /\ DeviceIdle)'
    BY <1>1
  <1>3. (OrderInv /\ ReadyInv)'
    BY <1>2, IdleIsOrdered, PTL
  <1>4. DataInv'
    BY <1>1 DEF DataInv, BatchInv
  <1> QED
    BY <1>1, <1>3, <1>4 DEF SafeInv

LEMMA SafeInvStep == ASSUME Supported, SafeInv \/ BatchInv, [Next]_blcoVars
                     PROVE  SafeInv' \/ BatchInv'
  BY SafeInvKept, LaunchAllBegins, BatchInvStep, BatchEnds

\* Nothing is ever copied into a device block that is too small, no thread block reads past
\* the data its kernel was given, and no batched kernel follows a pointer that was not
\* sent: whether the tensor is streamed or stays on the device, for every kernel, and
\* whatever the sizes of the blocks, streams, tiles and partitions.
THEOREM SupportedIsSafe == ASSUME Supported
                           PROVE  Spec => []NoFault
  <1>1. Init => SafeInv
    BY DataInvInit, OrderInvInit DEF SafeInv, ReadyInv, Init
  <1>2. (SafeInv \/ BatchInv) /\ [Next]_blcoVars => (SafeInv \/ BatchInv)'
    BY SafeInvStep
  <1>3. SafeInv \/ BatchInv => NoFault
    BY DEF SafeInv, BatchInv, NoFault
  <1> QED
    BY <1>1, <1>2, <1>3, PTL DEF Spec

\* A kernel finds in device memory the block it was launched for, also when
\* the tensor stays on the device.
THEOREM KernelsReadTheirBlocks == ASSUME Supported
                                  PROVE  Spec => []KernelReadsItsBlock
  <1>1. DataInv /\ [Next]_blcoVars => DataInv'
    BY DataInvStep
  <1>2. DataInv => KernelReadsItsBlock
    BY DataInvMeaning
  <1> QED
    BY <1>1, <1>2, DataInvInit, PTL DEF Spec

-------------------------------------------------------------------------------
(* What the streams have added in this call. *)

\* The blocks that this call has launched on stream s.
Launched(s) == {blk \in HostBlocks : blk < b /\ StreamOf(blk) = s}

Summed(s) == Sum(queue[s], finished[s], Launched(s))

\* The kernels that wait on stream s are each for a block of its own; only the
\* one at the head has run thread blocks, and those are of its launch.
Progress(s) ==
  /\ Distinct(queue[s]) /\ Waiting(queue[s]) \subseteq Launched(s)
  /\ finished[s] # {} =>
       AtHead(s, "kernel") /\ finished[s] \subseteq Grid(short, s, Head(queue[s]).nnz)

LEMMA LaunchOne ==
  ASSUME NEW q \in Seq(Work), Distinct(q), NEW L, Waiting(q) \subseteq L,
         NEW done, done # {} => q # <<>>, NEW k \in Work, k.kind = "kernel", k.src \notin L
  PROVE  /\ Distinct(Append(q, k)) /\ Waiting(Append(q, k)) \subseteq L \cup {k.src}
         /\ q # <<>> => Append(q, k) # <<>> /\ Head(Append(q, k)) = Head(q)
         /\ Sum(Append(q, k), done, L \cup {k.src}) = Sum(q, done, L)
  <1>1. k.src \notin Waiting(q)
    OBVIOUS
  <1>2. /\ Distinct(Append(q, k)) /\ Waiting(Append(q, k)) = Waiting(q) \cup {k.src}
        /\ q # <<>> => Append(q, k) # <<>> /\ Head(Append(q, k)) = Head(q)
    BY <1>1, AppendKernel
  <1>3. Sum(Append(q, k), done, L \cup {k.src}) = Sum(q, done, L)
    BY SumLaunch
  <1> QED
    BY <1>2, <1>3

\* Only a thread block adds to what a stream has summed, and only the start of
\* a call forgets it.
LEMMA ProgressStep ==
  ASSUME Supported, TypeInv, KernelReadsItsBlock, OrderInv, \A s \in Stream : Progress(s),
         [Next]_blcoVars, ~LaunchAll
  PROVE  /\ \A s \in Stream : Progress(s)'
         /\ \/ \A s \in Stream : Summed(s)' = Summed(s)
            \/ \E k \in ModeKinds : BeginCall(k)
            \/ \E s \in Stream : RunThreadBlock(s)
  <1>1. /\ TypeOK /\ HostInv /\ short \in BOOLEAN /\ DOMAIN finished = Stream
        /\ \A s \in Stream : queue[s] \in Seq(Work) /\ Ordered(queue[s])
    BY DEF TypeInv, TypeOK, OrderInv
  <1>2. \A s \in Stream : finished[s] # {} => queue[s] # <<>>
    BY DEF Progress, AtHead
  <1>3. ASSUME NEW s \in Stream, finished'[s] = finished[s], short' = short,
               finished[s] # {} => Head(queue'[s]) = Head(queue[s]) /\ queue'[s] # <<>>,
               Distinct(queue'[s]), Waiting(queue'[s]) \subseteq Launched(s)'
        PROVE  Progress(s)'
    <2>1. finished[s] # {} =>
            AtHead(s, "kernel") /\ finished[s] \subseteq Grid(short, s, Head(queue[s]).nnz)
      BY DEF Progress
    <2>2. finished'[s] # {} =>
            /\ queue'[s] # <<>> /\ Head(queue'[s]).kind = "kernel"
            /\ finished'[s] \subseteq Grid(short', s, Head(queue'[s]).nnz)
      BY <1>3, <2>1 DEF AtHead
    <2> QED
      BY <1>3, <2>2 DEF Progress, AtHead
  <1>4. ASSUME NEW s \in Stream, queue'[s] = queue[s], finished'[s] = finished[s],
               short' = short, Launched(s)' = Launched(s)
        PROVE  Progress(s)' /\ Summed(s)' = Summed(s)
    <2>1. Distinct(queue'[s]) /\ Waiting(queue'[s]) \subseteq Launched(s)'
      BY <1>4 DEF Progress
    <2> QED
      BY <1>2, <1>3, <1>4, <2>1 DEF Summed
  <1>5. CASE /\ queue' = queue /\ finished' = finished /\ short' = short /\ b' = b
    BY <1>4, <1>5 DEF Launched
  <1>6. ASSUME NEW k \in ModeKinds, BeginCall(k)
        PROVE  \A s \in Stream : Progress(s)'
    <2> SUFFICES ASSUME NEW s \in Stream
                 PROVE  Progress(s)'
      OBVIOUS
    <2>1. queue[s] = <<>> /\ finished[s] = {} /\ finished' = finished
      BY <1>2, <1>6 DEF BeginCall, OrderInv, DeviceIdle
    <2>2. ZeroPartials \in Work /\ ZeroPartials.kind # "kernel"
      BY HostAssumption DEF ZeroPartials, Work, HostBlocks
    <2>3. queue'[s] = <<>> \/ queue'[s] = Append(<<>>, ZeroPartials)
      BY <1>1, <1>6, <2>1 DEF BeginCall
    <2>4. Waiting(<<>>) = {} /\ Distinct(<<>>) /\ <<>> \in Seq(Work)
      BY EmptySeq DEF Waiting, Distinct, Kernels
    <2>5. Waiting(queue'[s]) = {} /\ Distinct(queue'[s])
      BY <2>2, <2>3, <2>4, AppendOther
    <2> QED
      BY <2>1, <2>5 DEF Progress
  <1>7. CASE LaunchBlock
    <2>1. PICK s \in Stream : s = StreamOf(b) /\ b \in HostBlocks
      BY <1>7, LaunchesExist DEF LaunchBlock
    <2>2. PICK c \in Work, k \in Work :
            /\ c.kind = "copy" /\ k.kind = "kernel" /\ k.src = b
            /\ queue'[s] = Append(queue[s], k) \/ queue'[s] = Append(Append(queue[s], c), k)
            /\ \A r \in Stream : r # s => queue'[r] = queue[r]
      BY <1>7, <2>1, LaunchQueue
    <2>3. finished' = finished /\ short' = short /\ b' = b + 1
      BY <1>7 DEF LaunchBlock
    <2>4. /\ Launched(s)' = Launched(s) \cup {b} /\ b \notin Launched(s)
          /\ \A r \in Stream : r # s => Launched(r)' = Launched(r)
      <3>1. b \in Nat /\ \A blk \in HostBlocks : blk \in Nat
        BY <2>1, HostAssumption DEF HostBlocks
      <3>2. \A blk \in HostBlocks : blk < b + 1 <=> blk < b \/ blk = b
        BY <3>1
      <3>3. ~(b < b)
        BY <3>1
      <3>4. \A r : Launched(r)' = {blk \in HostBlocks : blk < b + 1 /\ StreamOf(blk) = r}
        BY <2>3 DEF Launched, StreamOf
      <3> QED
        BY <2>1, <3>2, <3>3, <3>4 DEF Launched
    <2>5. ASSUME NEW r \in Stream, r # s
          PROVE  Progress(r)' /\ Summed(r)' = Summed(r)
      BY <1>4, <2>2, <2>3, <2>4, <2>5
    <2> DEFINE q == queue[s]
               L == Launched(s)
               done == finished[s]
               after == queue'[s]
    <2>6. /\ q \in Seq(Work) /\ Distinct(q) /\ Waiting(q) \subseteq L
          /\ done # {} => q # <<>>
      BY <1>1, <1>2, <2>1 DEF Progress
    <2>7. after = Append(q, k) \/ after = Append(Append(q, c), k)
      BY <2>2
    <2>8. k.src \notin L
      BY <2>2, <2>4
    <2> HIDE DEF q, L, done, after
    <2>9. /\ Distinct(after) /\ Waiting(after) \subseteq L \cup {k.src}
          /\ q # <<>> => after # <<>> /\ Head(after) = Head(q)
          /\ Sum(after, done, L \cup {k.src}) = Sum(q, done, L)
      <3>1. CASE after = Append(q, k)
        <4>0. k.kind = "kernel"
          BY <2>2
        <4>1. /\ Distinct(Append(q, k)) /\ Waiting(Append(q, k)) \subseteq L \cup {k.src}
              /\ q # <<>> => Append(q, k) # <<>> /\ Head(Append(q, k)) = Head(q)
              /\ Sum(Append(q, k), done, L \cup {k.src}) = Sum(q, done, L)
          BY <2>6, <2>8, <4>0, LaunchOne
        <4> QED
          BY <3>1, <4>1
      <3>2. CASE after = Append(Append(q, c), k)
        <4>0. c.kind # "kernel" /\ k.kind = "kernel" /\ q \in Seq(Work)
          BY <2>2, <2>6
        <4>1. PICK p \in Seq(Work) : p = Append(q, c)
          <5>1. Append(q, c) \in Seq(Work)
            BY <4>0, AppendProperties
          <5> QED
            BY <5>1, Zenon
        <4>2. /\ Distinct(p) /\ Waiting(p) = Waiting(q)
              /\ q # <<>> => p # <<>> /\ Head(p) = Head(q)
          BY <2>6, <4>0, <4>1, AppendOther
        <4>3. Sum(p, done, L) = Sum(q, done, L)
          BY <2>6, <4>0, <4>1, SumAppend
        <4>4. done # {} => p # <<>>
          BY <2>6, <4>2
        <4>5. Waiting(p) \subseteq L
          BY <2>6, <4>2
        <4>a. after = Append(p, k)
          BY <3>2, <4>1
        <4>6. /\ Distinct(after) /\ Waiting(after) \subseteq L \cup {k.src}
              /\ p # <<>> => after # <<>> /\ Head(after) = Head(p)
              /\ Sum(after, done, L \cup {k.src}) = Sum(p, done, L)
          BY <2>8, <4>0, <4>a, <4>2, <4>4, <4>5, LaunchOne
        <4> QED
          BY <4>2, <4>3, <4>6
      <3> QED
        BY <2>7, <3>1, <3>2
    <2>10. Progress(s)'
      BY <1>3, <2>1, <2>2, <2>3, <2>4, <2>6, <2>9 DEF q, L, done, after
    <2>11. Summed(s)' = Summed(s)
      BY <2>2, <2>3, <2>4, <2>9 DEF Summed, q, L, done, after
    <2> QED
      BY <2>5, <2>10, <2>11
  <1>8. CASE LaunchAll
    BY <1>8
  <1>9. CASE Merge
    <2> SUFFICES ASSUME NEW s \in Stream
                 PROVE  Progress(s)' /\ Summed(s)' = Summed(s)
      OBVIOUS
    <2>1. finished' = finished /\ short' = short /\ Launched(s)' = Launched(s)
      BY <1>9 DEF Merge, Launched
    <2> DEFINE w == ReducePartials
               q == queue[s]
    <2>2. w \in Work /\ w.kind # "kernel"
      BY HostAssumption DEF ReducePartials, Work, HostBlocks
    <2>3. queue'[s] = q \/ queue'[s] = Append(q, w)
      BY <1>1, <1>9 DEF Merge, TypeOK
    <2>4. q \in Seq(Work) /\ Distinct(q) /\ Waiting(q) \subseteq Launched(s)
      BY <1>1 DEF Progress
    <2>5. CASE queue'[s] = q
      BY <1>4, <2>1, <2>5
    <2>6. CASE queue'[s] = Append(q, w)
      <3>1. finished[s] # {} => q # <<>>
        BY <1>2
      <3> HIDE DEF w, q
      <3>2. /\ Distinct(Append(q, w)) /\ Waiting(Append(q, w)) = Waiting(q)
            /\ q # <<>> => Append(q, w) # <<>> /\ Head(Append(q, w)) = Head(q)
        BY <2>2, <2>4, AppendOther
      <3>3. Sum(Append(q, w), finished[s], Launched(s)) = Sum(q, finished[s], Launched(s))
        BY <2>2, <2>4, <3>1, SumAppend
      <3>4. Progress(s)'
        BY <1>3, <2>1, <2>4, <2>6, <3>1, <3>2 DEF q
      <3> QED
        BY <2>1, <2>6, <3>3, <3>4 DEF Summed, q
    <2> QED
      BY <2>3, <2>5, <2>6
  <1>10. ASSUME NEW s \in Stream, Zero(s) \/ Reduce(s) \/ Retire(s) \/ Copy(s)
         PROVE  \A r \in Stream : Progress(r)' /\ Summed(r)' = Summed(r)
    <2> DEFINE q == queue[s]
               L == Launched(s)
    <2>1. q # <<>> /\ Pop(s) /\ short' = short /\ b' = b /\ q \in Seq(Work)
      BY <1>1, <1>10 DEF Zero, Reduce, Retire, Copy, RunningKernel, AtHead, host
    <2>2. queue'[s] = Tail(q) /\ \A r \in Stream : r # s => queue'[r] = queue[r]
      BY <1>1, <2>1 DEF Pop, TypeOK
    <2>3. \A r \in Stream : Launched(r)' = Launched(r)
      BY <2>1 DEF Launched
    <2>4. \A r \in Stream : r # s => finished'[r] = finished[r]
      BY <1>1, <1>10 DEF Zero, Reduce, Retire, Copy
    <2>5. \A r \in Stream : r # s => Progress(r)' /\ Summed(r)' = Summed(r)
      BY <1>4, <2>1, <2>2, <2>3, <2>4
    <2>6. Distinct(q) /\ Waiting(q) \subseteq L
      BY DEF Progress
    <2>7. finished'[s] = {}
      <3>1. CASE Retire(s)
        BY <1>1, <3>1 DEF Retire
      <3>2. CASE ~Retire(s)
        <4>1. finished' = finished /\ ~AtHead(s, "kernel")
          BY <1>10, <3>2 DEF Zero, Reduce, Copy, AtHead
        <4> QED
          BY <4>1 DEF Progress
      <3> QED
        BY <3>1, <3>2
    <2>8. Distinct(Tail(q)) /\ Waiting(Tail(q)) \subseteq L
      <3> HIDE DEF q
      <3> QED
        BY <2>1, <2>6, TailWork
    <2>9. Progress(s)'
      BY <2>2, <2>3, <2>7, <2>8 DEF Progress
    <2>10. Sum(Tail(q), {}, L) = Sum(q, finished[s], L)
      <3>1. CASE Retire(s)
        <4>1. Head(q).kind = "kernel" /\ finished[s] = Grid(short, s, Head(q).nnz)
          <5>1. Head(q).kind # "batch"
            BY <1>1, <2>1, HeadOrdered
          <5> QED
            BY <3>1, <5>1 DEF Retire, RunningKernel, AtHead, ThreadBlocks
        <4> DEFINE n == Len(HostBlock[Head(q).src])
        <4>2. Head(q).nnz = n /\ n \in Nat
          BY <1>1, <2>1, <4>1, HeadSource, HostBlockLen DEF KernelReadsItsBlock, AtHead
        <4>3. Tiles(finished[s], n) /\ \A t \in finished[s] : t.lo .. t.hi \subseteq 1 .. n
          BY <1>1, <4>1, <4>2, GridTiles, GridStaysInside
        <4> HIDE DEF q, L
        <4> QED
          BY <2>1, <2>6, <4>1, <4>3, SumRetire
      <3>2. CASE ~Retire(s)
        <4>1. finished' = finished /\ Head(q).kind # "kernel"
          BY <1>10, <3>2 DEF Zero, Reduce, Copy, AtHead
        <4>2. finished[s] = {}
          BY <2>7, <4>1
        <4> HIDE DEF q, L
        <4> QED
          BY <2>1, <2>6, <4>1, <4>2, SumTail
      <3> QED
        BY <3>1, <3>2
    <2>11. Summed(s)' = Summed(s)
      BY <2>2, <2>3, <2>7, <2>10 DEF Summed
    <2> QED
      BY <2>5, <2>9, <2>11
  <1>11. ASSUME NEW s \in Stream, RunThreadBlock(s)
         PROVE  \A r \in Stream : Progress(r)'
    <2>1. queue' = queue /\ short' = short /\ b' = b
      BY <1>11 DEF RunThreadBlock, host
    <2>2. AtHead(s, "kernel") /\ ThreadBlocks(s) = Grid(short, s, Head(queue[s]).nnz)
      BY <1>11, ThreadBlockMeaning DEF ThreadBlocks, AtHead, Supported
    <2>3. PICK t \in ThreadBlocks(s) : finished' = [finished EXCEPT ![s] = @ \cup {t}]
      BY <1>11 DEF RunThreadBlock
    <2>4. \A r \in Stream : Launched(r)' = Launched(r)
      BY <2>1 DEF Launched
    <2>5. \A r \in Stream : r # s => Progress(r)'
      BY <1>1, <1>4, <2>1, <2>3, <2>4
    <2>6. finished'[s] \subseteq Grid(short, s, Head(queue[s]).nnz)
      BY <1>1, <2>2, <2>3 DEF Progress
    <2>7. Progress(s)'
      BY <2>1, <2>2, <2>4, <2>6 DEF Progress, AtHead
    <2> QED
      BY <2>5, <2>7
  <1> QED
    BY <1>5, <1>6, <1>7, <1>8, <1>9, <1>10, <1>11
       DEF Next, Host, Device, Prepare, SyncZero, EndCall, DefaultZero, DefaultReduce, Stop,
           blcoVars, host

Total == UNION {Summed(s) : s \in Stream}

LEMMA InTotal == \A e : e \in Total <=> \E s \in Stream : e \in Summed(s)
  BY DEF Total

\* The discipline that the facts about the sums rest on.
WorkInv == DataInv /\ OrderInv /\ \A s \in Stream : Progress(s)

\* The kernel at the head of a stream: its block, and its thread blocks.
LEMMA RunningBlock ==
  ASSUME WorkInv, NEW s \in Stream, AtHead(s, "kernel")
  PROVE  LET blk == Head(queue[s]).src
             n == Len(HostBlock[blk])
         IN /\ blk \in HostBlocks /\ blk \in Launched(s) /\ blk \in Waiting(queue[s])
            /\ n \in Nat /\ Head(queue[s]).nnz = n
            /\ Tiles(Grid(short, s, n), n)
            /\ \A t \in Grid(short, s, n) : t.lo .. t.hi \subseteq 1 .. n
            /\ finished[s] \subseteq Grid(short, s, n)
  <1> DEFINE q == queue[s]
             blk == Head(q).src
             n == Len(HostBlock[blk])
  <1>1. TypeOK /\ KernelReadsItsBlock /\ q \in Seq(Work) /\ q # <<>> /\ short \in BOOLEAN
    BY DataInvMeaning DEF WorkInv, TypeInv, TypeOK, AtHead
  <1>2. blk \in HostBlocks /\ n \in Nat
    BY <1>1, HeadSource, HostBlockLen
  <1>3. Head(q).nnz = n
    BY <1>1 DEF KernelReadsItsBlock
  <1>4. Head(q).kind = "kernel" /\ Distinct(q) /\ Waiting(q) \subseteq Launched(s)
    BY DEF AtHead, WorkInv, Progress
  <1>5. finished[s] \subseteq Grid(short, s, Head(q).nnz)
    BY DEF WorkInv, Progress
  <1> HIDE DEF q
  <1>6. blk \in Waiting(q)
    BY <1>1, <1>4, TailWork
  <1> HIDE DEF blk, n
  <1>7. Tiles(Grid(short, s, n), n) /\ \A t \in Grid(short, s, n) : t.lo .. t.hi \subseteq 1 .. n
    BY <1>1, <1>2, GridTiles, GridStaysInside
  <1> QED
    BY <1>2, <1>3, <1>4, <1>5, <1>6, <1>7 DEF q, blk, n

\* A stream adds nonzeros of its own blocks only.
LEMMA SummedWithin ==
  ASSUME WorkInv, NEW s \in Stream
  PROVE  Summed(s) \subseteq Cover(Launched(s))
  <1> DEFINE q == queue[s]
             done == finished[s]
             L == Launched(s)
  <1>1. CASE done = {}
    <2>1. Sum(q, done, L) \subseteq Cover(L)
      BY <1>1, SumWithin
    <2> QED
      BY <2>1 DEF Summed
  <1>2. CASE done # {}
    <2>1. AtHead(s, "kernel")
      BY <1>2 DEF WorkInv, Progress
    <2>2. /\ Head(q).src \in L
          /\ \A t \in done : t.lo .. t.hi \subseteq 1 .. Len(HostBlock[Head(q).src])
      BY <2>1, RunningBlock
    <2> HIDE DEF q, done, L
    <2>3. Sum(q, done, L) \subseteq Cover(L)
      BY <2>2, SumWithin
    <2> QED
      BY <2>3 DEF Summed, q, done, L
  <1> QED
    BY <1>1, <1>2

LEMMA SummedFacts ==
  ASSUME Partitioned, WorkInv
  PROVE  /\ \A s \in Stream : Summed(s) \subseteq Nonzero
         /\ \A r, s \in Stream : r # s => Summed(r) \cap Summed(s) = {}
  <1>1. ASSUME NEW s \in Stream
        PROVE  Summed(s) \subseteq Nonzero
    <2>1. Launched(s) \subseteq HostBlocks
      BY DEF Launched
    <2>2. \A e \in Cover(Launched(s)) : e \in Cover(HostBlocks)
      BY <2>1, InCover
    <2> QED
      BY <2>2, SummedWithin DEF Partitioned
  <1>2. ASSUME NEW r \in Stream, NEW s \in Stream, r # s
        PROVE  Summed(r) \cap Summed(s) = {}
    <2>1. /\ Launched(r) \subseteq HostBlocks /\ Launched(s) \subseteq HostBlocks
          /\ Launched(r) \cap Launched(s) = {}
      BY <1>2 DEF Launched
    <2>2. Cover(Launched(r)) \cap Cover(Launched(s)) = {}
      BY <2>1, BlocksApart
    <2> QED
      BY <2>2, SummedWithin
  <1> QED
    BY <1>1, <1>2

\* What a thread block adds no stream has added before.
LEMMA PartIsNewToAll ==
  ASSUME Partitioned, WorkInv, NEW s \in Stream, AtHead(s, "kernel"),
         NEW t \in Grid(short, s, Head(queue[s]).nnz), t \notin finished[s]
  PROVE  LET vals == Part(t, Head(queue[s]).src)
         IN /\ vals \subseteq Nonzero
            /\ \A r \in Stream : vals \cap Summed(r) = {}
  <1> DEFINE q == queue[s]
             blk == Head(q).src
             n == Len(HostBlock[blk])
             T == Grid(short, s, n)
             vals == Part(t, blk)
  <1>1. /\ blk \in HostBlocks /\ blk \in Launched(s) /\ blk \in Waiting(q)
        /\ n \in Nat /\ Head(q).nnz = n /\ Tiles(T, n)
        /\ \A u \in T : u.lo .. u.hi \subseteq 1 .. n
        /\ finished[s] \subseteq T
    BY RunningBlock
  <1>2. t \in T
    BY <1>1
  <1>3. q \in Seq(Work)
    BY DataInvMeaning DEF WorkInv, TypeInv, TypeOK
  <1>4. \A r : Launched(r) \subseteq HostBlocks
    BY DEF Launched
  <1>5. vals \subseteq Elements(blk)
    BY <1>1, <1>2 DEF Part, Elements
  <1>6. vals \cap Summed(s) = {}
    <2> DEFINE done == finished[s]
               L == Launched(s)
    <2>1. done \subseteq T /\ t \notin done /\ L \subseteq HostBlocks
      BY <1>1, <1>4
    <2> HIDE DEF q, T, done, L
    <2>2. vals \cap Sum(q, done, L) = {}
      BY <1>1, <1>2, <1>3, <2>1, PartIsNew
    <2> QED
      BY <2>2 DEF Summed, q, done, L
  <1>7. ASSUME NEW r \in Stream, r # s
        PROVE  vals \cap Summed(r) = {}
    <2>1. blk \notin Launched(r)
      BY <1>1, <1>7 DEF Launched
    <2>2. Cover(Launched(r)) \cap Cover({blk}) = {}
      BY <1>1, <1>4, <2>1, BlocksApart
    <2>3. \A e \in vals : e \in Cover({blk})
      BY <1>5, InCover
    <2> HIDE DEF vals
    <2> QED
      BY <2>2, <2>3, SummedWithin
  <1>8. vals \subseteq Nonzero
    <2>1. \A e \in vals : e \in Cover(HostBlocks)
      BY <1>1, <1>5, InCover
    <2> QED
      BY <2>1 DEF Partitioned
  <1> QED
    BY <1>6, <1>7, <1>8

\* All nonzeros are summed when the device has nothing left to do.
LEMMA DrainedTotal ==
  ASSUME Partitioned, WorkInv, b = BlockCount, \A s \in Stream : queue[s] = <<>>
  PROVE  Total = Nonzero
  <1>1. ASSUME NEW s \in Stream
        PROVE  Summed(s) = Cover(Launched(s))
    <2>1. queue[s] = <<>> /\ finished[s] = {}
      BY DEF WorkInv, Progress, AtHead
    <2> QED
      BY <2>1, SumWhenDrained DEF Summed
  <1>2. \A blk \in HostBlocks : StreamOf(blk) \in Stream /\ blk \in Launched(StreamOf(blk))
    <2> SUFFICES ASSUME NEW blk \in HostBlocks
                 PROVE  StreamOf(blk) \in Stream /\ blk \in Launched(StreamOf(blk))
      OBVIOUS
    <2>1. BlockCount + blk \in Nat /\ blk < BlockCount
      BY HostAssumption DEF HostBlocks
    <2> QED
      BY <2>1, StreamCountPositive, RemainderBound DEF StreamOf, Stream, Launched
  <1>3. \A e \in Nonzero : e \in Total
    <2> SUFFICES ASSUME NEW e \in Nonzero
                 PROVE  e \in Total
      OBVIOUS
    <2>1. PICK blk \in HostBlocks : e \in Elements(blk)
      BY InCover DEF Partitioned
    <2>2. e \in Cover(Launched(StreamOf(blk)))
      BY <1>2, <2>1, InCover
    <2> QED
      BY <1>1, <1>2, <2>2, InTotal
  <1>4. \A e \in Total : e \in Nonzero
    BY SummedFacts, InTotal
  <1> QED
    BY <1>3, <1>4

LEMMA TotalSame ==
  ASSUME \A s \in Stream : Summed(s)' = Summed(s)
  PROVE  Total' = Total
  BY DEF Total

\* No nonzero is in two of the partial matrices row of a stream.
Apart(row) == \A i, j \in Partition : i # j => row[i] \cap row[j] = {}

\* One matrix of a row gets more.
LEMMA ReducedAdd ==
  ASSUME NEW f \in [Partition -> SUBSET Value], Apart(f), NEW p \in Partition,
         NEW vals, vals \cap Reduced(f) = {}
  PROVE  LET g == [f EXCEPT ![p] = @ \cup vals]
         IN Reduced(g) = Reduced(f) \cup vals /\ Apart(g) /\ vals \cap f[p] = {}
  <1> DEFINE g == [f EXCEPT ![p] = @ \cup vals]
  <1>1. /\ DOMAIN f = Partition /\ DOMAIN g = Partition
        /\ \A i \in Partition : g[i] = IF i = p THEN f[p] \cup vals ELSE f[i]
    OBVIOUS
  <1> HIDE DEF g
  <1>2. \A e : e \in Reduced(f) <=> \E i \in Partition : e \in f[i]
    BY <1>1 DEF Reduced
  <1>3. \A e : e \in Reduced(g) <=> \E i \in Partition : e \in g[i]
    BY <1>1 DEF Reduced
  <1>4. \A e : e \in Reduced(g) <=> e \in Reduced(f) \/ e \in vals
    BY <1>1, <1>2, <1>3
  <1>5. \A i \in Partition : vals \cap f[i] = {}
    BY <1>2
  <1>6. Apart(g)
    BY <1>1, <1>5 DEF Apart
  <1>7. Reduced(g) = Reduced(f) \cup vals
    BY <1>4
  <1> QED
    BY <1>5, <1>6, <1>7 DEF g

-------------------------------------------------------------------------------
(* Where the sums are. *)

Adding == pc \in {"launching", "merging", "syncing"}

\* The matrices are cleared before the first launch of a call.
Cleared ==
  pc = "zeroing" =>
    /\ UsesPartials(short) /\ output = {} /\ default \in {"none", "zero"}
    /\ \A s \in Stream : queue[s] = <<>> => \A p \in Partition : partial[s][p] = {}
    /\ default = "none" /\ StreamCount > 1 => \A s \in Stream : merged[s] = {}

\* Without partial matrices the thread blocks add to the result, ...
DirectSum == Adding /\ ~UsesPartials(short) => default = "none" /\ output = Total

\* ... with them to those of their stream, each nonzero to one of them; ...
PartialsOf(s) == Reduced(partial[s]) = Summed(s) /\ Apart(partial[s])
PartialSum == Adding /\ UsesPartials(short) => \A s \in Stream : PartialsOf(s)

\* ... which the last work of the stream adds up, ...
MergedSum ==
  Adding /\ UsesPartials(short) /\ StreamCount > 1 =>
    \A s \in Stream :
      \/ pc = "syncing" /\ queue[s] = <<>> /\ merged[s] = Summed(s)
      \/ /\ merged[s] = {}
         /\ pc = "syncing" => queue[s] # <<>> /\ queue[s][Len(queue[s])].kind = "reduce"

\* ... and the last work of the call adds up over the streams.
FinalSum ==
  Adding /\ UsesPartials(short) =>
    \/ pc # "syncing" /\ default = "none" /\ output = {}
    \/ pc = "syncing" /\ default = "reduce" /\ output = {}
    \/ pc = "syncing" /\ DeviceIdle /\ output = Total

HostSum ==
  /\ pc \in {"merging", "syncing"} => b = BlockCount
  /\ pc = "start" => calls = 0

\* What a call has added when it returns: every nonzero, once.
CallIsWhole == pc = "idle" /\ calls > 0 => exact /\ output = Nonzero

Sums ==
  /\ exact /\ HostSum /\ Cleared /\ DirectSum /\ PartialSum /\ MergedSum /\ FinalSum
  /\ CallIsWhole

SumInv == WorkInv /\ Sums

LEMMA TailLast ==
  ASSUME NEW q \in Seq(Work), q # <<>>, Head(q).kind # "reduce", q[Len(q)].kind = "reduce"
  PROVE  Tail(q) # <<>> /\ Tail(q)[Len(Tail(q))] = q[Len(q)]
  <1>1. /\ Len(Tail(q)) = Len(q) - 1 /\ Len(q) \in Nat \ {0} /\ Head(q) = q[1]
        /\ \A j \in 1 .. Len(q) : j # 1 => j - 1 \in 1 .. Len(Tail(q)) /\ q[j] = Tail(q)[j - 1]
    BY TailShift
  <1>2. Len(q) # 1
    BY <1>1
  <1>3. Len(q) - 1 \in 1 .. Len(Tail(q)) /\ q[Len(q)] = Tail(q)[Len(q) - 1]
    BY <1>1, <1>2
  <1>4. Len(Tail(q)) # 0
    BY <1>1, <1>2
  <1> QED
    BY <1>1, <1>3, <1>4, EmptySeq

\* Steps that move no numbers: the sums stay where they are.
LEMMA NothingAdded ==
  ASSUME Sums, \A s \in Stream : Summed(s)' = Summed(s), pc' = pc, b' = b, calls' = calls,
         short' = short, default' = default, partial' = partial, merged' = merged,
         output' = output, exact' = exact,
         \A s \in Stream :
           \/ queue'[s] = queue[s]
           \/ /\ pc # "zeroing" /\ queue[s] # <<>> /\ queue[s] \in Seq(Work)
              /\ Head(queue[s]).kind # "reduce" /\ queue'[s] = Tail(queue[s])
  PROVE  Sums'
  <1>1. Total' = Total
    BY TotalSame
  <1>2. exact' /\ HostSum' /\ CallIsWhole'
    BY DEF Sums, HostSum, CallIsWhole
  <1>3. Cleared'
    <2>1. pc = "zeroing" => \A s \in Stream : queue'[s] = queue[s]
      OBVIOUS
    <2> QED
      BY <2>1 DEF Sums, Cleared
  <1>4. DirectSum' /\ PartialSum'
    <2>1. DirectSum'
      BY <1>1 DEF Sums, DirectSum, Adding
    <2>2. \A s \in Stream : PartialsOf(s) => PartialsOf(s)'
      BY DEF PartialsOf
    <2>3. PartialSum'
      BY <2>2 DEF Sums, PartialSum, Adding
    <2> QED
      BY <2>1, <2>3
  <1>5. MergedSum'
    <2> SUFFICES ASSUME Adding, UsesPartials(short), StreamCount > 1, NEW s \in Stream
                 PROVE  \/ pc' = "syncing" /\ queue'[s] = <<>> /\ merged'[s] = Summed(s)'
                        \/ /\ merged'[s] = {}
                           /\ pc' = "syncing" =>
                                queue'[s] # <<>> /\ queue'[s][Len(queue'[s])].kind = "reduce"
      BY DEF MergedSum, Adding
    <2>1. \/ pc = "syncing" /\ queue[s] = <<>> /\ merged[s] = Summed(s)
          \/ /\ merged[s] = {}
             /\ pc = "syncing" => queue[s] # <<>> /\ queue[s][Len(queue[s])].kind = "reduce"
      BY DEF Sums, MergedSum
    <2>2. CASE queue'[s] = queue[s]
      BY <2>1, <2>2
    <2>3. CASE queue'[s] # queue[s]
      <3>1. /\ queue[s] # <<>> /\ queue[s] \in Seq(Work) /\ Head(queue[s]).kind # "reduce"
            /\ queue'[s] = Tail(queue[s])
        BY <2>3
      <3>2. merged[s] = {} /\ (pc = "syncing" => queue[s][Len(queue[s])].kind = "reduce")
        BY <2>1, <3>1
      <3>3. pc = "syncing" =>
              queue'[s] # <<>> /\ queue'[s][Len(queue'[s])].kind = "reduce"
        BY <3>1, <3>2, TailLast
      <3> QED
        BY <3>2, <3>3
    <2> QED
      BY <2>2, <2>3
  <1>6. FinalSum'
    <2>1. DeviceIdle => DeviceIdle'
      BY DEF DeviceIdle
    <2> QED
      BY <1>1, <2>1 DEF Sums, FinalSum, Adding
  <1> QED
    BY <1>2, <1>3, <1>4, <1>5, <1>6 DEF Sums

LEMMA SumInvInit == Init => SumInv
  <1> SUFFICES ASSUME Init
               PROVE  SumInv
    OBVIOUS
  <1>1. DataInv /\ OrderInv
    BY DataInvInit, OrderInvInit
  <1>2. \A s \in Stream : Progress(s)
    <2>1. \A s \in Stream : queue[s] = <<>> /\ finished[s] = {}
      BY DEF Init
    <2>2. Waiting(<<>>) = {} /\ Distinct(<<>>)
      BY EmptySeq DEF Waiting, Distinct, Kernels
    <2> QED
      BY <2>1, <2>2 DEF Progress
  <1>3. Sums
    BY DEF Init, Sums, HostSum, Cleared, DirectSum, PartialSum, MergedSum, FinalSum, Adding,
           CallIsWhole
  <1> QED
    BY <1>1, <1>2, <1>3 DEF SumInv, WorkInv

LEMMA BeginSums ==
  ASSUME SumInv, NEW k \in ModeKinds, BeginCall(k)
  PROVE  Sums'
  <1>1. /\ pc = "idle" /\ short' = k /\ b' = 0 /\ output' = {} /\ finished' = finished
        /\ partial' = partial /\ merged' = merged /\ exact' = exact /\ calls' = calls
    BY DEF BeginCall
  <1>2. default = "none" /\ \A s \in Stream : queue[s] = <<>> /\ finished[s] = {}
    BY <1>1 DEF SumInv, WorkInv, OrderInv, DeviceIdle, Progress, AtHead
  <1>3. \A s \in Stream : Summed(s)' = {}
    <2> SUFFICES ASSUME NEW s \in Stream
                 PROVE  Summed(s)' = {}
      OBVIOUS
    <2>1. Launched(s)' = {}
      <3>1. \A blk \in HostBlocks : ~(blk < 0)
        BY HostAssumption DEF HostBlocks
      <3> QED
        BY <1>1, <3>1 DEF Launched
    <2>2. finished'[s] = {}
      BY <1>1, <1>2
    <2>3. Sum(queue'[s], {}, {}) = {}
      BY SumOfNothing
    <2> QED
      BY <2>1, <2>2, <2>3 DEF Summed
  <1>4. Total' = {}
    BY <1>3 DEF Total
  <1>5. exact' /\ HostSum' /\ CallIsWhole'
    BY <1>1 DEF BeginCall, SumInv, Sums, HostSum, CallIsWhole
  <1>6. CASE UsesPartials(k)
    <2>1. /\ pc' = "zeroing" /\ UsesPartials(short') /\ default' \in {"none", "zero"}
          /\ default' = "none" => ~(StreamCount > 1)
      BY <1>1, <1>6 DEF BeginCall
    <2>2. \A s \in Stream : queue'[s] # <<>>
      <3>1. \A s \in Stream : queue'[s] = Append(<<>>, ZeroPartials)
        BY <1>2, <1>6 DEF BeginCall
      <3>2. Append(<<>>, ZeroPartials) # <<>>
        OBVIOUS
      <3> QED
        BY <3>1, <3>2
    <2>3. Cleared'
      BY <1>1, <2>1, <2>2 DEF Cleared
    <2> QED
      BY <1>5, <2>1, <2>3 DEF Sums, DirectSum, PartialSum, MergedSum, FinalSum, Adding
  <1>7. CASE ~UsesPartials(k)
    <2>1. pc' = "launching" /\ ~UsesPartials(short') /\ default' = "none"
      BY <1>1, <1>2, <1>7 DEF BeginCall
    <2> QED
      BY <1>1, <1>4, <1>5, <2>1
         DEF Sums, Cleared, DirectSum, PartialSum, MergedSum, FinalSum
  <1> QED
    BY <1>6, <1>7

LEMMA SyncZeroSums ==
  ASSUME SumInv, SyncZero, \A s \in Stream : Summed(s)' = Summed(s)
  PROVE  Sums'
  <1>1. /\ pc = "zeroing" /\ pc' = "launching" /\ short' = short /\ b' = b /\ default' = default
        /\ queue' = queue /\ partial' = partial /\ merged' = merged /\ output' = output
        /\ exact' = exact /\ calls' = calls /\ DeviceIdle
    BY DEF SyncZero, memory
  <1>2. TypeInv /\ TypeOK /\ b = 0
    BY <1>1, DataInvMeaning DEF SumInv, WorkInv, TypeInv, HostInv
  <1>3. ASSUME NEW s \in Stream
        PROVE  Summed(s) = {} /\ partial[s] \in [Partition -> SUBSET Value]
                 /\ \A p \in Partition : partial[s][p] = {}
    <2>1. finished[s] = {}
      BY <1>1 DEF DeviceIdle, SumInv, WorkInv, Progress, AtHead
    <2>2. Launched(s) = {}
      <3>1. \A blk \in HostBlocks : ~(blk < 0)
        BY HostAssumption DEF HostBlocks
      <3> QED
        BY <1>2, <3>1 DEF Launched
    <2>3. Summed(s) = {}
      BY <2>1, <2>2, SumOfNothing DEF Summed
    <2>4. \A p \in Partition : partial[s][p] = {}
      BY <1>1 DEF SumInv, Sums, Cleared, DeviceIdle
    <2> QED
      BY <1>2, <2>3, <2>4 DEF TypeOK
  <1>4. \A s \in Stream : PartialsOf(s)'
    <2> SUFFICES ASSUME NEW s \in Stream
                 PROVE  PartialsOf(s)'
      OBVIOUS
    <2>1. Reduced(partial[s]) = {}
      BY <1>3 DEF Reduced
    <2> QED
      BY <1>1, <1>3, <2>1 DEF PartialsOf, Apart
  <1>5. UsesPartials(short) /\ output = {} /\ default = "none"
        /\ (StreamCount > 1 => \A s \in Stream : merged[s] = {})
    BY <1>1 DEF SumInv, Sums, Cleared, DeviceIdle
  <1>6. exact' /\ HostSum' /\ CallIsWhole'
    BY <1>1 DEF SumInv, Sums, HostSum, CallIsWhole
  <1> QED
    BY <1>1, <1>4, <1>5, <1>6
       DEF Sums, Cleared, DirectSum, PartialSum, MergedSum, FinalSum, Adding

LEMMA LaunchSums ==
  ASSUME SumInv, LaunchBlock, \A s \in Stream : Summed(s)' = Summed(s)
  PROVE  Sums'
  <1>1. /\ pc = "launching" /\ pc' \in {"launching", "merging"} /\ short' = short
        /\ pc' = "merging" => b' = BlockCount
        /\ default' = default /\ partial' = partial /\ merged' = merged /\ output' = output
        /\ exact' = exact /\ calls' = calls
    BY DEF LaunchBlock, memory
  <1>2. Total' = Total
    BY TotalSame
  <1>3. \A s \in Stream : PartialsOf(s) => PartialsOf(s)'
    BY <1>1 DEF PartialsOf
  <1>4. exact' /\ HostSum' /\ CallIsWhole' /\ Cleared'
    BY <1>1 DEF SumInv, Sums, HostSum, CallIsWhole, Cleared
  <1>5. DirectSum' /\ PartialSum'
    BY <1>1, <1>2, <1>3 DEF SumInv, Sums, DirectSum, PartialSum, Adding
  <1>6. MergedSum'
    BY <1>1 DEF SumInv, Sums, MergedSum, Adding
  <1>7. FinalSum'
    BY <1>1 DEF SumInv, Sums, FinalSum, Adding
  <1> QED
    BY <1>4, <1>5, <1>6, <1>7 DEF Sums

LEMMA MergeSums ==
  ASSUME SumInv, Merge, \A s \in Stream : Summed(s)' = Summed(s)
  PROVE  Sums'
  <1>1. /\ pc = "merging" /\ pc' = "syncing" /\ short' = short /\ b' = b
        /\ partial' = partial /\ merged' = merged /\ output' = output
        /\ exact' = exact /\ calls' = calls
        /\ UsesPartials(short) => default' = "reduce"
        /\ ~UsesPartials(short) => default' = default
    BY DEF Merge, memory
  <1>2. Total' = Total
    BY TotalSame
  <1>3. \A s \in Stream : PartialsOf(s) => PartialsOf(s)'
    BY <1>1 DEF PartialsOf
  <1>4. exact' /\ HostSum' /\ CallIsWhole' /\ Cleared'
    BY <1>1 DEF SumInv, Sums, HostSum, CallIsWhole, Cleared
  <1>5. DirectSum' /\ PartialSum'
    BY <1>1, <1>2, <1>3 DEF SumInv, Sums, DirectSum, PartialSum, Adding
  <1>6. MergedSum'
    <2> SUFFICES ASSUME UsesPartials(short), StreamCount > 1, NEW s \in Stream
                 PROVE  /\ merged'[s] = {}
                        /\ queue'[s] # <<>> /\ queue'[s][Len(queue'[s])].kind = "reduce"
      BY <1>1 DEF MergedSum, Adding
    <2> DEFINE w == ReducePartials
    <2>1. queue'[s] = Append(queue[s], w) /\ w.kind = "reduce"
      BY DEF Merge, ReducePartials
    <2>2. queue[s] \in Seq(Work)
      BY DataInvMeaning DEF SumInv, WorkInv, TypeInv, TypeOK
    <2>3. merged[s] = {}
      BY <1>1 DEF SumInv, Sums, MergedSum, Adding
    <2> HIDE DEF w
    <2>4. Append(queue[s], w) # <<>> /\ Append(queue[s], w)[Len(Append(queue[s], w))] = w
      BY <2>2
    <2> QED
      BY <1>1, <2>1, <2>3, <2>4
  <1>7. FinalSum'
    BY <1>1 DEF SumInv, Sums, FinalSum, Adding
  <1> QED
    BY <1>4, <1>5, <1>6, <1>7 DEF Sums

LEMMA EndSums ==
  ASSUME Partitioned, SumInv, EndCall
  PROVE  Sums'
  <1>1. /\ pc = "syncing" /\ pc' = "idle" /\ DeviceIdle /\ output' = output /\ exact' = exact
    BY DEF EndCall, memory
  <1>2. output = Total
    BY <1>1 DEF SumInv, Sums, DirectSum, FinalSum, Adding, DeviceIdle
  <1>3. Total = Nonzero
    BY <1>1, DrainedTotal DEF SumInv, Sums, HostSum, DeviceIdle
  <1> QED
    BY <1>1, <1>2, <1>3 DEF SumInv, Sums, HostSum, Cleared, DirectSum, PartialSum, MergedSum,
       FinalSum, Adding, CallIsWhole

LEMMA ZeroSums ==
  ASSUME SumInv, NEW s \in Stream, Zero(s)
  PROVE  Sums'
  <1>1. /\ queue[s] # <<>> /\ Head(queue[s]).kind = "zero"
        /\ queue' = [queue EXCEPT ![s] = Tail(@)]
        /\ partial' = [partial EXCEPT ![s] = [p \in Partition |-> {}]]
        /\ pc' = pc /\ short' = short /\ b' = b /\ calls' = calls /\ default' = default
        /\ merged' = merged /\ output' = output /\ exact' = exact
    BY DEF Zero, AtHead, Pop, host
  <1>2. TypeOK
    BY DataInvMeaning DEF SumInv, WorkInv, TypeInv
  <1>3. pc = "zeroing"
    BY <1>1, <1>2, HeadOrdered DEF SumInv, WorkInv, OrderInv, TypeOK
  <1>4. ASSUME NEW r \in Stream, queue'[r] = <<>>
        PROVE  \A p \in Partition : partial'[r][p] = {}
    <2>1. CASE r = s
      BY <1>1, <1>2, <2>1 DEF TypeOK
    <2>2. CASE r # s
      <3>1. queue[r] = <<>> /\ partial'[r] = partial[r]
        BY <1>1, <1>2, <1>4, <2>2 DEF TypeOK
      <3> QED
        BY <1>3, <3>1 DEF SumInv, Sums, Cleared
    <2> QED
      BY <2>1, <2>2
  <1>5. Cleared'
    BY <1>1, <1>3, <1>4 DEF SumInv, Sums, Cleared
  <1> QED
    BY <1>1, <1>3, <1>5 DEF SumInv, Sums, HostSum, DirectSum, PartialSum, MergedSum, FinalSum,
                            Adding, CallIsWhole

LEMMA DefaultZeroSums ==
  ASSUME SumInv, DefaultZero
  PROVE  Sums'
  <1>1. /\ default = "zero" /\ default' = "none" /\ merged' = [s \in Stream |-> {}]
        /\ queue' = queue /\ partial' = partial
        /\ pc' = pc /\ short' = short /\ b' = b /\ calls' = calls
        /\ output' = output /\ exact' = exact
    BY DEF DefaultZero, host
  <1>2. pc = "zeroing"
    <2>1. pc \notin {"start", "idle"}
      BY <1>1 DEF SumInv, WorkInv, OrderInv, DeviceIdle
    <2>2. ~Adding
      BY <1>1 DEF SumInv, Sums, DirectSum, FinalSum, DeviceIdle
    <2>3. pc \in {"start", "idle", "zeroing", "launching", "merging", "syncing"}
      BY DataInvMeaning DEF SumInv, WorkInv, TypeInv, TypeOK
    <2> QED
      BY <2>1, <2>2, <2>3 DEF Adding
  <1>3. Cleared'
    BY <1>1, <1>2 DEF SumInv, Sums, Cleared
  <1> QED
    BY <1>1, <1>2, <1>3 DEF SumInv, Sums, HostSum, DirectSum, PartialSum, MergedSum, FinalSum,
                            Adding, CallIsWhole

\* The reduction on a stream is its last work: it adds up what the stream has
\* summed, once.
LEMMA ReduceSums ==
  ASSUME Partitioned, SumInv, NEW s \in Stream, Reduce(s),
         \A r \in Stream : Summed(r)' = Summed(r)
  PROVE  Sums'
  <1>1. /\ queue[s] # <<>> /\ Head(queue[s]).kind = "reduce"
        /\ queue' = [queue EXCEPT ![s] = Tail(@)]
        /\ merged' = [merged EXCEPT ![s] = @ \union Reduced(partial[s])]
        /\ exact' = (exact /\ ReducesOnce(partial[s], merged[s]))
        /\ pc' = pc /\ short' = short /\ b' = b /\ calls' = calls /\ default' = default
        /\ partial' = partial /\ output' = output
    BY DEF Reduce, AtHead, Pop, host
  <1>2. TypeOK
    BY DataInvMeaning DEF SumInv, WorkInv, TypeInv
  <1>3. pc = "syncing" /\ UsesPartials(short) /\ StreamCount > 1 /\ Tail(queue[s]) = <<>>
    BY <1>1, <1>2, HeadOrdered DEF SumInv, WorkInv, OrderInv, TypeOK
  <1>4. PartialsOf(s) /\ merged[s] = {}
    BY <1>1, <1>3 DEF SumInv, Sums, PartialSum, MergedSum, Adding
  <1>5. queue'[s] = <<>> /\ merged'[s] = Summed(s)
    BY <1>1, <1>2, <1>3, <1>4 DEF TypeOK, PartialsOf
  <1>6. \A r \in Stream : r # s => queue'[r] = queue[r] /\ merged'[r] = merged[r]
    BY <1>1, <1>2 DEF TypeOK
  <1>7. exact'
    <2>1. partial[s] \in [Partition -> SUBSET Value] /\ DOMAIN partial[s] = Partition
      BY <1>2 DEF TypeOK
    <2>2. \A i \in Partition : partial[s][i] \subseteq Summed(s)
      BY <1>4, <2>1 DEF PartialsOf, Reduced
    <2>3. \A i \in Partition : partial[s][i] \subseteq Nonzero
      BY <2>2, SummedFacts DEF SumInv
    <2>4. ReducesOnce(partial[s], merged[s])
      BY <1>4, <2>1, <2>3 DEF ReducesOnce, AddsOnce, PartialsOf, Apart
    <2> QED
      BY <1>1, <2>4 DEF SumInv, Sums
  <1>8. MergedSum'
    <2> SUFFICES ASSUME NEW r \in Stream
                 PROVE  \/ pc' = "syncing" /\ queue'[r] = <<>> /\ merged'[r] = Summed(r)'
                        \/ /\ merged'[r] = {}
                           /\ pc' = "syncing" =>
                                queue'[r] # <<>> /\ queue'[r][Len(queue'[r])].kind = "reduce"
      BY DEF MergedSum
    <2>1. CASE r = s
      BY <1>1, <1>3, <1>5, <2>1
    <2>2. CASE r # s
      <3>1. \/ pc = "syncing" /\ queue[r] = <<>> /\ merged[r] = Summed(r)
            \/ /\ merged[r] = {}
               /\ pc = "syncing" => queue[r] # <<>> /\ queue[r][Len(queue[r])].kind = "reduce"
        BY <1>3 DEF SumInv, Sums, MergedSum, Adding
      <3> QED
        BY <1>1, <1>6, <2>2, <3>1
    <2> QED
      BY <2>1, <2>2
  <1>9. PartialSum'
    <2>1. \A r \in Stream : PartialsOf(r) => PartialsOf(r)'
      BY <1>1 DEF PartialsOf
    <2> QED
      BY <1>1, <1>3, <2>1 DEF SumInv, Sums, PartialSum, Adding
  <1>10. FinalSum'
    <2>1. default = "reduce" /\ output = {}
      BY <1>1, <1>3 DEF SumInv, Sums, FinalSum, Adding, DeviceIdle
    <2> QED
      BY <1>1, <1>3, <2>1 DEF FinalSum
  <1>11. HostSum' /\ Cleared' /\ DirectSum' /\ CallIsWhole'
    BY <1>1, <1>3 DEF SumInv, Sums, HostSum, Cleared, DirectSum, CallIsWhole
  <1> QED
    BY <1>7, <1>8, <1>9, <1>10, <1>11 DEF Sums

\* The last work of a call adds the sums of the streams, once.
LEMMA DefaultReduceSums ==
  ASSUME Partitioned, SumInv, DefaultReduce, \A r \in Stream : Summed(r)' = Summed(r)
  PROVE  Sums'
  <1> DEFINE matrices == IF StreamCount > 1 THEN merged ELSE partial[0]
  <1>1. /\ default = "reduce" /\ default' = "none" /\ \A s \in Stream : queue[s] = <<>>
        /\ output' = output \union Reduced(matrices)
        /\ exact' = (exact /\ ReducesOnce(matrices, output))
        /\ queue' = queue /\ partial' = partial /\ merged' = merged
        /\ pc' = pc /\ short' = short /\ b' = b /\ calls' = calls
    BY DEF DefaultReduce, Drained, host
  <1>2. TypeOK
    BY DataInvMeaning DEF SumInv, WorkInv, TypeInv
  <1>3. pc = "syncing" /\ UsesPartials(short) /\ output = {}
    <2>1. pc \notin {"start", "idle", "zeroing"}
      BY <1>1 DEF SumInv, WorkInv, OrderInv, DeviceIdle, Sums, Cleared
    <2>2. Adding
      BY <1>2, <2>1 DEF TypeOK, Adding
    <2> QED
      BY <1>1, <2>2 DEF SumInv, Sums, DirectSum, FinalSum, DeviceIdle
  <1>4. \A s \in Stream : PartialsOf(s)
    BY <1>3 DEF SumInv, Sums, PartialSum, Adding
  <1>5. Reduced(matrices) = Total /\ ReducesOnce(matrices, {})
    <2>1. CASE StreamCount > 1
      <3>1. DOMAIN merged = Stream /\ \A s \in Stream : merged[s] = Summed(s)
        BY <1>1, <1>2, <1>3, <2>1 DEF TypeOK, SumInv, Sums, MergedSum, Adding
      <3>2. \A e : e \in Reduced(merged) <=> \E s \in Stream : e \in Summed(s)
        BY <3>1 DEF Reduced
      <3>3. Reduced(merged) = Total
        <4>1. \A e : e \in Reduced(merged) <=> e \in Total
          BY <3>2, InTotal
        <4> QED
          BY <4>1
      <3>4. ReducesOnce(merged, {})
        BY <3>1, SummedFacts DEF SumInv, ReducesOnce, AddsOnce
      <3> QED
        BY <2>1, <3>3, <3>4
    <2>2. CASE ~(StreamCount > 1)
      <3>1. Stream = {0}
        <4>1. StreamCount = 1
          BY <2>2, StreamCountPositive
        <4> QED
          BY <4>1 DEF Stream
      <3>2. DOMAIN partial[0] = Partition /\ PartialsOf(0)
        BY <1>2, <1>4, <3>1 DEF TypeOK
      <3>3. Reduced(partial[0]) = Total
        <4>1. \A e : e \in Total <=> e \in Summed(0)
          BY <3>1, InTotal
        <4> QED
          BY <3>2, <4>1 DEF PartialsOf
      <3>4. \A i \in Partition : partial[0][i] \subseteq Nonzero
        <4>1. Summed(0) \subseteq Nonzero
          BY <3>1, SummedFacts DEF SumInv
        <4>2. \A i \in Partition : partial[0][i] \subseteq Reduced(partial[0])
          BY <3>2 DEF Reduced
        <4> QED
          BY <3>2, <4>1, <4>2 DEF PartialsOf
      <3>5. ReducesOnce(partial[0], {})
        BY <3>2, <3>4 DEF ReducesOnce, AddsOnce, PartialsOf, Apart
      <3> QED
        BY <2>2, <3>3, <3>5
    <2> QED
      BY <2>1, <2>2
  <1> HIDE DEF matrices
  <1>6. exact' /\ output' = Total
    BY <1>1, <1>3, <1>5 DEF SumInv, Sums
  <1>7. Total' = Total
    BY TotalSame
  <1>8. FinalSum'
    <2>1. DeviceIdle'
      BY <1>1 DEF DeviceIdle
    <2> QED
      BY <1>1, <1>3, <1>6, <1>7, <2>1 DEF FinalSum
  <1>9. PartialSum'
    <2>1. \A r \in Stream : PartialsOf(r)'
      BY <1>1, <1>4 DEF PartialsOf
    <2> QED
      BY <2>1 DEF PartialSum
  <1>10. MergedSum'
    BY <1>1 DEF SumInv, Sums, MergedSum, Adding
  <1>11. HostSum' /\ Cleared' /\ DirectSum' /\ CallIsWhole'
    BY <1>1, <1>3 DEF SumInv, Sums, HostSum, Cleared, DirectSum, CallIsWhole
  <1> QED
    BY <1>6, <1>8, <1>9, <1>10, <1>11 DEF Sums

\* A thread block adds what no stream has added, so no sum loses its count.
LEMMA ThreadBlockSums ==
  ASSUME Partitioned, Supported, SumInv, NEW s \in Stream, RunThreadBlock(s)
  PROVE  Sums'
  <1>1. /\ TypeInv /\ TypeOK /\ KernelReadsItsBlock /\ OrderInv /\ WorkInv
        /\ queue[s] \in Seq(Work) /\ short \in BOOLEAN
    BY DataInvMeaning DEF SumInv, WorkInv, TypeInv, TypeOK
  <1>2. /\ queue' = queue /\ b' = b /\ pc' = pc /\ short' = short /\ calls' = calls
        /\ default' = default /\ merged' = merged
    BY DEF RunThreadBlock, host
  <1> DEFINE blk == Head(queue[s]).src
             n == Len(HostBlock[blk])
  <1>3. AtHead(s, "kernel") /\ ThreadBlocks(s) = Grid(short, s, n) /\ blk \in HostBlocks
    BY <1>1, ThreadBlockMeaning DEF Supported
  <1>4. PICK t \in ThreadBlocks(s) \ finished[s] :
          LET into == IF UsesPartials(short) THEN partial[s][t.part] ELSE output
          IN /\ t.lo .. t.hi \subseteq 1 .. n
             /\ finished' = [finished EXCEPT ![s] = @ \union {t}]
             /\ exact' = (exact /\ AddsOnce(Part(t, blk), into)
                           /\ \A i, j \in t.lo .. t.hi :
                                HostBlock[blk][i] = HostBlock[blk][j] => i = j)
             /\ IF UsesPartials(short)
                  THEN /\ partial' = [partial EXCEPT ![s][t.part] = @ \union Part(t, blk)]
                       /\ UNCHANGED output
                  ELSE /\ output' = output \union Part(t, blk)
                       /\ UNCHANGED partial
    BY <1>1, ThreadBlockMeaning DEF Supported
  <1>5. Head(queue[s]).nnz = n /\ n \in Nat
    BY <1>1, <1>3, RunningBlock
  <1>6. PICK vals \in SUBSET Nonzero :
          vals = Part(t, blk) /\ \A r \in Stream : vals \cap Summed(r) = {}
    BY <1>1, <1>3, <1>4, <1>5, PartIsNewToAll
  <1>7. /\ UsesPartials(short) => t.part \in Partition
    BY <1>1, <1>3, <1>4, <1>5, GridTiles
  <1>8. pc \notin {"start", "idle", "zeroing"} /\ Adding
    <2>1. queue[s] # <<>> /\ Head(queue[s]).kind = "kernel"
      BY <1>3 DEF AtHead
    <2>2. pc # "zeroing"
      BY <1>1, <2>1, HeadOrdered DEF OrderInv
    <2>3. pc \notin {"start", "idle"}
      BY <1>1, <2>1 DEF OrderInv, DeviceIdle
    <2> QED
      BY <1>1, <2>2, <2>3 DEF TypeOK, Adding
  <1>9. Summed(s)' = Summed(s) \cup vals /\ \A r \in Stream : r # s => Summed(r)' = Summed(r)
    <2>1. finished' = [finished EXCEPT ![s] = @ \union {t}] /\ DOMAIN finished = Stream
      BY <1>1, <1>4 DEF TypeOK
    <2>2. \A r : Launched(r)' = Launched(r)
      BY <1>2 DEF Launched
    <2>3. Sum(queue[s], finished[s] \cup {t}, Launched(s)) = Summed(s) \cup vals
      BY <1>6, SumThreadBlock DEF Summed
    <2>4. Summed(s)' = Summed(s) \cup vals
      BY <1>2, <2>1, <2>2, <2>3 DEF Summed
    <2>5. \A r \in Stream : r # s => Summed(r)' = Summed(r)
      BY <1>2, <2>1, <2>2 DEF Summed
    <2> QED
      BY <2>4, <2>5
  <1>10. Total' = Total \cup vals /\ vals \cap Total = {}
    <2>1. \A e : e \in Total' <=> \E r \in Stream : e \in Summed(r)'
      BY DEF Total
    <2>2. \A e : e \in Total' <=> e \in Total \/ e \in vals
      BY <1>9, <2>1, InTotal
    <2>3. \A e \in vals : e \notin Total
      BY <1>6, InTotal
    <2> QED
      BY <2>2, <2>3
  <1>11. \A i, j \in t.lo .. t.hi : HostBlock[blk][i] = HostBlock[blk][j] => i = j
    BY <1>3, <1>4 DEF Partitioned
  <1> HIDE DEF blk, n
  <1>12. CASE UsesPartials(short)
    <2> DEFINE row == partial[s]
               after == [row EXCEPT ![t.part] = @ \cup vals]
    <2>1. /\ partial' = [partial EXCEPT ![s] = after] /\ output' = output
          /\ exact' = (exact /\ AddsOnce(vals, row[t.part]))
      BY <1>4, <1>6, <1>11, <1>12
    <2>2. row \in [Partition -> SUBSET Value] /\ t.part \in Partition
      BY <1>1, <1>7, <1>12 DEF TypeOK
    <2>3. Reduced(row) = Summed(s) /\ Apart(row)
      BY <1>8, <1>12 DEF SumInv, Sums, PartialSum, PartialsOf
    <2>4. vals \cap Reduced(row) = {}
      BY <1>6, <2>3
    <2>5. Reduced(after) = Summed(s) \cup vals /\ Apart(after) /\ vals \cap row[t.part] = {}
      <3>1. PICK f \in [Partition -> SUBSET Value], p \in Partition :
              f = row /\ p = t.part /\ after = [f EXCEPT ![p] = @ \cup vals]
        BY <2>2
      <3> HIDE DEF row, after
      <3>2. Apart(f) /\ vals \cap Reduced(f) = {}
        BY <2>3, <2>4, <3>1
      <3>3. Reduced(after) = Reduced(f) \cup vals /\ Apart(after) /\ vals \cap f[p] = {}
        <4> DEFINE g == [f EXCEPT ![p] = @ \cup vals]
        <4>1. Reduced(g) = Reduced(f) \cup vals /\ Apart(g) /\ vals \cap f[p] = {}
          BY <3>2, ReducedAdd
        <4>2. after = g
          BY <3>1
        <4> HIDE DEF g
        <4> QED
          BY <4>1, <4>2
      <3>4. Reduced(f) = Summed(s)
        BY <2>3, <3>1
      <3>5. Reduced(after) = Summed(s) \cup vals
        BY <3>3, <3>4
      <3>6. vals \cap row[t.part] = {}
        BY <3>1, <3>3
      <3> QED
        BY <3>3, <3>5, <3>6
    <2> HIDE DEF row, after
    <2>6. exact'
      BY <2>1, <2>5 DEF AddsOnce, SumInv, Sums
    <2>7. partial'[s] = after /\ \A r \in Stream : r # s => partial'[r] = partial[r]
      BY <1>1, <2>1 DEF TypeOK
    <2>8. ASSUME NEW r \in Stream
          PROVE  PartialsOf(r)'
      <3>1. CASE r = s
        BY <1>9, <2>5, <2>7, <3>1 DEF PartialsOf
      <3>2. CASE r # s
        <4>1. PartialsOf(r)
          BY <1>8, <1>12 DEF SumInv, Sums, PartialSum
        <4> QED
          BY <1>9, <2>7, <3>2, <4>1 DEF PartialsOf
      <3> QED
        BY <3>1, <3>2
    <2>9. PartialSum'
      BY <2>8 DEF PartialSum
    <2>10. MergedSum'
      <3> SUFFICES ASSUME StreamCount > 1, NEW r \in Stream
                   PROVE  \/ pc' = "syncing" /\ queue'[r] = <<>> /\ merged'[r] = Summed(r)'
                          \/ /\ merged'[r] = {}
                             /\ pc' = "syncing" =>
                                  queue'[r] # <<>> /\ queue'[r][Len(queue'[r])].kind = "reduce"
        BY DEF MergedSum
      <3>1. \/ pc = "syncing" /\ queue[r] = <<>> /\ merged[r] = Summed(r)
            \/ /\ merged[r] = {}
               /\ pc = "syncing" => queue[r] # <<>> /\ queue[r][Len(queue[r])].kind = "reduce"
        BY <1>8, <1>12 DEF SumInv, Sums, MergedSum
      <3>2. queue[s] # <<>>
        BY <1>3 DEF AtHead
      <3>3. queue[r] = <<>> => Summed(r)' = Summed(r)
        BY <1>9, <3>2
      <3> QED
        BY <1>2, <3>1, <3>3
    <2>11. FinalSum'
      <3>1. ~DeviceIdle
        BY <1>3 DEF AtHead, DeviceIdle
      <3> QED
        BY <1>2, <1>8, <1>12, <2>1, <3>1 DEF SumInv, Sums, FinalSum
    <2>12. HostSum' /\ Cleared' /\ DirectSum' /\ CallIsWhole'
      BY <1>2, <1>8, <1>12 DEF SumInv, Sums, HostSum, Cleared, DirectSum, CallIsWhole
    <2> QED
      BY <2>6, <2>9, <2>10, <2>11, <2>12 DEF Sums
  <1>13. CASE ~UsesPartials(short)
    <2>1. /\ partial' = partial /\ output' = output \cup vals
          /\ exact' = (exact /\ AddsOnce(vals, output))
      BY <1>4, <1>6, <1>11, <1>13
    <2>2. default = "none" /\ output = Total
      BY <1>8, <1>13 DEF SumInv, Sums, DirectSum
    <2>3. exact' /\ DirectSum'
      BY <1>2, <1>10, <2>1, <2>2 DEF AddsOnce, SumInv, Sums, DirectSum
    <2>4. PartialSum' /\ MergedSum' /\ FinalSum'
      BY <1>2, <1>13 DEF PartialSum, MergedSum, FinalSum
    <2>5. HostSum' /\ Cleared' /\ CallIsWhole'
      BY <1>2, <1>8 DEF SumInv, Sums, HostSum, Cleared, CallIsWhole
    <2> QED
      BY <2>3, <2>4, <2>5 DEF Sums
  <1> QED
    BY <1>12, <1>13

LEMMA SumsStep ==
  ASSUME Partitioned, Supported, SumInv, [Next]_blcoVars, ~LaunchAll
  PROVE  Sums'
  <1>1. TypeInv /\ TypeOK /\ KernelReadsItsBlock /\ OrderInv /\ \A s \in Stream : Progress(s)
    BY DataInvMeaning DEF SumInv, WorkInv, TypeInv
  <1>2. \/ \A s \in Stream : Summed(s)' = Summed(s)
        \/ \E k \in ModeKinds : BeginCall(k)
        \/ \E s \in Stream : RunThreadBlock(s)
    BY <1>1, ProgressStep
  <1>3. CASE \E k \in ModeKinds : BeginCall(k)
    BY <1>3, BeginSums
  <1>4. CASE \E s \in Stream : RunThreadBlock(s)
    BY <1>4, ThreadBlockSums
  <1>5. CASE \A s \in Stream : Summed(s)' = Summed(s)
    <2>1. CASE Prepare
      BY <2>1 DEF Prepare, SumInv, Sums, HostSum, Cleared, DirectSum, PartialSum, MergedSum,
                  FinalSum, Adding, CallIsWhole
    <2>2. CASE SyncZero \/ LaunchBlock \/ Merge \/ EndCall \/ DefaultZero \/ DefaultReduce
      BY <1>5, <2>2, SyncZeroSums, LaunchSums, MergeSums, EndSums, DefaultZeroSums,
         DefaultReduceSums
    <2>3. CASE LaunchAll
      BY <2>3
    <2>4. ASSUME NEW s \in Stream, Zero(s) \/ Reduce(s)
          PROVE  Sums'
      BY <1>5, <2>4, ZeroSums, ReduceSums
    <2>5. ASSUME NEW s \in Stream, Copy(s) \/ Retire(s)
          PROVE  Sums'
      <3> DEFINE q == queue[s]
      <3>1. /\ q # <<>> /\ Pop(s) /\ q \in Seq(Work) /\ Ordered(q)
            /\ Head(q).kind \in {"copy", "kernel", "batch"}
        BY <1>1, <2>5 DEF Copy, Retire, RunningKernel, AtHead, OrderInv, TypeOK
      <3>2. pc # "zeroing" /\ Head(q).kind # "reduce"
        BY <3>1, HeadOrdered
      <3>3. queue'[s] = Tail(q) /\ \A r \in Stream : r # s => queue'[r] = queue[r]
        BY <1>1, <3>1 DEF Pop, TypeOK
      <3>4. /\ pc' = pc /\ b' = b /\ calls' = calls /\ short' = short /\ default' = default
            /\ partial' = partial /\ merged' = merged /\ output' = output /\ exact' = exact
        BY <2>5 DEF Copy, Retire, host, memory
      <3>5. \A r \in Stream :
              \/ queue'[r] = queue[r]
              \/ /\ pc # "zeroing" /\ queue[r] # <<>> /\ queue[r] \in Seq(Work)
                 /\ Head(queue[r]).kind # "reduce" /\ queue'[r] = Tail(queue[r])
        BY <3>1, <3>2, <3>3
      <3> HIDE DEF q
      <3> QED
        BY <1>5, <3>4, <3>5, NothingAdded DEF SumInv
    <2>6. CASE Stop \/ UNCHANGED blcoVars
      <3>1. /\ pc' = pc /\ b' = b /\ calls' = calls /\ short' = short /\ default' = default
            /\ partial' = partial /\ merged' = merged /\ output' = output /\ exact' = exact
            /\ queue' = queue
        BY <2>6 DEF Stop, blcoVars, host, memory
      <3> QED
        BY <1>5, <3>1, NothingAdded DEF SumInv
    <2> QED
      BY <1>3, <1>4, <2>1, <2>2, <2>3, <2>4, <2>5, <2>6 DEF Next, Host, Device
  <1> QED
    BY <1>2, <1>3, <1>4, <1>5

LEMMA SumInvStep ==
  ASSUME Partitioned, Supported, SumInv, [Next]_blcoVars, ~LaunchAll
  PROVE  SumInv'
  <1>1. TypeInv /\ KernelReadsItsBlock /\ OrderInv /\ DataInv /\ \A s \in Stream : Progress(s)
    BY DataInvMeaning DEF SumInv, WorkInv
  <1>2. DataInv' /\ OrderInv'
    BY <1>1, DataInvStep, OrderInvStep
  <1>3. \A s \in Stream : Progress(s)'
    BY <1>1, ProgressStep
  <1> QED
    BY <1>2, <1>3, SumsStep DEF SumInv, WorkInv

-------------------------------------------------------------------------------
(* The sum of a batched launch. *)

\* What the thread blocks T add, each a part of its device block.
Added(T) == UNION {Part(t, t.block) : t \in T}

LEMMA InAdded == \A T, e : e \in Added(T) <=> \E t \in T : e \in Part(t, t.block)
  BY DEF Added

\* A tile that is still to do holds nothing that the tiles done have added.
LEMMA BatchPartIsNew ==
  ASSUME Partitioned, Stream = HostBlocks, NEW T, SharesOut(T), \A t \in T : t.block \in Stream,
         NEW done \in SUBSET T, NEW t \in T, t \notin done
  PROVE  Part(t, t.block) \subseteq Nonzero /\ Part(t, t.block) \cap Added(done) = {}
  <1>1. \A u \in T : /\ u.block \in HostBlocks
                    /\ Tiles({v \in T : v.block = u.block}, Len(HostBlock[u.block]))
                    /\ u.lo .. u.hi \subseteq 1 .. Len(HostBlock[u.block])
    <2> SUFFICES ASSUME NEW u \in T
                 PROVE  /\ u.block \in HostBlocks
                        /\ Tiles({v \in T : v.block = u.block}, Len(HostBlock[u.block]))
                        /\ u.lo .. u.hi \subseteq 1 .. Len(HostBlock[u.block])
      OBVIOUS
    <2>1. u.block \in Stream /\ u \in {v \in T : v.block = u.block}
      OBVIOUS
    <2> QED
      BY <2>1 DEF SharesOut
  <1>2. \A u \in T : Part(u, u.block) \subseteq Elements(u.block)
    BY <1>1 DEF Part, Elements
  <1>3. ASSUME NEW u \in done, NEW e \in Part(t, t.block), e \in Part(u, u.block)
        PROVE  FALSE
    <2>1. t.block = u.block
      BY <1>1, <1>2, <1>3 DEF Partitioned
    <2> DEFINE blk == t.block
               mine == {v \in T : v.block = blk}
    <2>2. PICK i \in t.lo .. t.hi : e = HostBlock[blk][i]
      BY DEF Part
    <2>3. PICK j \in u.lo .. u.hi : e = HostBlock[blk][j]
      BY <1>3, <2>1 DEF Part
    <2>4. i \in 1 .. Len(HostBlock[blk]) /\ j \in 1 .. Len(HostBlock[blk]) /\ blk \in HostBlocks
      BY <1>1, <2>1
    <2>5. i = j
      BY <2>2, <2>3, <2>4 DEF Partitioned
    <2>6. t \in mine /\ u \in mine /\ t # u /\ Tiles(mine, Len(HostBlock[blk]))
      BY <1>1, <2>1
    <2> HIDE DEF mine, blk
    <2>7. (t.lo .. t.hi) \cap (u.lo .. u.hi) = {}
      BY <2>6 DEF Tiles
    <2> QED
      BY <2>5, <2>7
  <1>4. \A e \in Part(t, t.block) : e \notin Added(done)
    BY <1>3, InAdded
  <1>5. \A e \in Part(t, t.block) : e \in Cover(HostBlocks)
    BY <1>1, <1>2, InCover
  <1> QED
    BY <1>4, <1>5 DEF Partitioned

LEMMA BatchTotal ==
  ASSUME Partitioned, Stream = HostBlocks, NEW T, SharesOut(T), \A t \in T : t.block \in Stream
  PROVE  Added(T) = Nonzero
  <1>1. ASSUME NEW e \in Nonzero
        PROVE  e \in Added(T)
    <2>1. PICK s \in Stream : e \in Elements(s)
      BY InCover DEF Partitioned
    <2>2. PICK i \in 1 .. Len(HostBlock[s]) : e = HostBlock[s][i]
      BY <2>1 DEF Elements
    <2>3. PICK t \in {t \in T : t.block = s} : i \in t.lo .. t.hi
      BY DEF SharesOut, Tiles
    <2>4. e \in Part(t, t.block)
      BY <2>2, <2>3 DEF Part
    <2> QED
      BY <2>4, InAdded
  <1>2. ASSUME NEW e \in Added(T)
        PROVE  e \in Nonzero
    <2>1. PICK t \in T : e \in Part(t, t.block)
      BY InAdded
    <2>2. Part(t, t.block) \subseteq Nonzero
      BY <2>1, BatchPartIsNew
    <2> QED
      BY <2>1, <2>2
  <1> QED
    BY <1>1, <1>2

\* While the launch runs the result is what its finished thread blocks have added.
BatchSums ==
  /\ exact
  /\ \A s \in Stream : finished[s] # {} => s = 0 /\ queue[0] # <<>>
  /\ queue[0] # <<>> => finished[0] \subseteq ThreadBlocks(0) /\ output = Added(finished[0])
  /\ queue[0] = <<>> => output = Nonzero

LEMMA BatchSumsBegin ==
  ASSUME Supported, SafeInv, SumInv, LaunchAll
  PROVE  BatchSums'
  <1>1. /\ finished' = finished /\ output' = output /\ exact' = exact /\ Batched(short)
        /\ pc = "launching" /\ DOMAIN queue = Stream
    BY DataInvMeaning DEF LaunchAll, memory, SafeInv, TypeInv, TypeOK
  <1>2. output = {} /\ exact /\ DeviceIdle
    BY <1>1 DEF SafeInv, ReadyInv, SumInv, Sums
  <1>3. \A s \in Stream : finished[s] = {}
    BY <1>2 DEF DeviceIdle, SumInv, WorkInv, Progress, AtHead
  <1>4. queue'[0] # <<>>
    <2>1. queue'[0] = Append(<<>>, LaunchBatch)
      BY <1>1, <1>2, ZeroIsStream DEF LaunchAll, DeviceIdle
    <2>2. Append(<<>>, LaunchBatch) # <<>>
      OBVIOUS
    <2> QED
      BY <2>1, <2>2
  <1>5. \A e : e \notin Added({})
    BY InAdded
  <1> QED
    BY <1>1, <1>2, <1>3, <1>4, <1>5, ZeroIsStream DEF BatchSums

LEMMA BatchSumsStep ==
  ASSUME Partitioned, Supported, BatchInv, BatchSums, [Next]_blcoVars, ~EndCall
  PROVE  BatchSums'
  <1>1. /\ TypeOK /\ short \in BOOLEAN /\ DOMAIN queue = Stream /\ DOMAIN finished = Stream
        /\ Stream = HostBlocks
    BY OneStreamEach DEF BatchInv, ResidentInv, TypeInv, TypeOK
  <1>2. ASSUME queue' = queue, cap' = cap, staged' = staged, short' = short
        PROVE  ThreadBlocks(0)' = ThreadBlocks(0)
    BY <1>2 DEF ThreadBlocks, StagedNnz
  <1>3. ASSUME queue' = queue, cap' = cap, staged' = staged, short' = short,
               finished' = finished, output' = output, exact' = exact
        PROVE  BatchSums'
    BY <1>2, <1>3 DEF BatchSums
  <1>4. CASE Merge
    <2>1. ~UsesPartials(short)
      BY <1>1, BatchedFacts DEF BatchInv
    <2>2. /\ queue' = queue /\ cap' = cap /\ staged' = staged /\ short' = short
          /\ finished' = finished /\ output' = output /\ exact' = exact
      BY <1>4, <2>1 DEF Merge, memory
    <2> QED
      BY <1>3, <2>2
  <1>5. CASE RunThreadBlock(0)
    <2> DEFINE T == ThreadBlocks(0)
               done == finished[0]
    <2>1. /\ queue' = queue /\ cap' = cap /\ staged' = staged /\ short' = short
      BY <1>5 DEF RunThreadBlock, host
    <2>2. queue[0] # <<>>
      BY <1>5, BatchThreadBlock
    <2>3. PICK t \in T \ done :
            /\ t.block \in Stream /\ t.lo .. t.hi \subseteq 1 .. Len(HostBlock[t.block])
            /\ finished' = [finished EXCEPT ![0] = @ \union {t}]
            /\ exact' = (exact /\ AddsOnce(Part(t, t.block), output)
                          /\ \A i, j \in t.lo .. t.hi :
                               HostBlock[t.block][i] = HostBlock[t.block][j] => i = j)
            /\ output' = output \union Part(t, t.block)
      BY <1>5, BatchThreadBlock
    <2>4. done \subseteq T /\ output = Added(done) /\ exact
      BY <2>2 DEF BatchSums
    <2>5. SharesOut(T) /\ \A u \in T : u.block \in Stream
      BY <2>2, BatchSharesOut
    <2>6. T' = T
      BY <1>2, <2>1
    <2> HIDE DEF T
    <2>7. Part(t, t.block) \subseteq Nonzero /\ Part(t, t.block) \cap Added(done) = {}
      BY <1>1, <2>3, <2>4, <2>5, BatchPartIsNew
    <2>8. exact'
      <3>1. \A i, j \in t.lo .. t.hi : HostBlock[t.block][i] = HostBlock[t.block][j] => i = j
        BY <1>1, <2>3 DEF Partitioned
      <3>2. AddsOnce(Part(t, t.block), output)
        BY <2>4, <2>7 DEF AddsOnce
      <3> QED
        BY <2>3, <2>4, <3>1, <3>2
    <2>9. /\ finished'[0] = done \union {t}
          /\ \A s \in Stream : s # 0 => finished'[s] = finished[s]
      BY <1>1, <2>3, ZeroIsStream
    <2>10. output' = Added(done \union {t})
      <3>1. output' = Added(done) \union Part(t, t.block)
        BY <2>3, <2>4
      <3>2. \A e : e \in Added(done \union {t}) <=> e \in Added(done) \/ e \in Part(t, t.block)
        BY InAdded
      <3> QED
        BY <3>1, <3>2
    <2>11. \A s \in Stream : finished'[s] # {} => s = 0
      BY <2>9 DEF BatchSums
    <2> HIDE DEF done
    <2> QED
      <3>1. finished'[0] \subseteq T' /\ output' = Added(finished'[0])
        BY <2>3, <2>4, <2>6, <2>9, <2>10
      <3>2. queue'[0] # <<>>
        BY <2>1, <2>2
      <3> QED
        BY <2>8, <2>11, <3>1, <3>2 DEF BatchSums, T
  <1>6. CASE Retire(0)
    <2>1. /\ output' = output /\ exact' = exact /\ queue[0] # <<>>
          /\ ThreadBlocks(0) = finished[0] /\ finished' = [finished EXCEPT ![0] = {}]
          /\ queue' = [queue EXCEPT ![0] = Tail(@)]
      BY <1>6 DEF Retire, Pop, RunningKernel, AtHead, memory
    <2>2. queue'[0] = <<>>
      BY <1>1, <2>1, ZeroIsStream, BatchHead DEF BatchInv
    <2>3. \A s \in Stream : finished'[s] = {}
      BY <1>1, <2>1, ZeroIsStream DEF BatchSums
    <2>4. output = Added(ThreadBlocks(0))
      BY <2>1 DEF BatchSums
    <2>5. Added(ThreadBlocks(0)) = Nonzero
      <3>1. PICK T : T = ThreadBlocks(0)
        OBVIOUS
      <3>2. SharesOut(T) /\ \A t \in T : t.block \in Stream
        BY <2>1, <3>1, BatchSharesOut
      <3> QED
        BY <1>1, <3>1, <3>2, BatchTotal
    <2> QED
      BY <2>1, <2>2, <2>3, <2>4, <2>5 DEF BatchSums
  <1>7. CASE UNCHANGED blcoVars
    BY <1>3, <1>7 DEF blcoVars, host, memory
  <1> QED
    BY <1>4, <1>5, <1>6, <1>7, BatchSteps

LEMMA BatchSumsEnd ==
  ASSUME Supported, BatchInv, BatchSums, EndCall
  PROVE  SafeInv' /\ SumInv'
  <1>1. SafeInv' /\ DeviceIdle' /\ pc' = "idle"
    BY BatchEnds
  <1>2. /\ finished' = finished /\ output' = output /\ exact' = exact /\ DeviceIdle
    BY DEF EndCall, memory
  <1>3. output = Nonzero /\ exact /\ \A s \in Stream : finished[s] = {}
    BY <1>2, ZeroIsStream DEF BatchSums, DeviceIdle
  <1>4. \A s \in Stream : Progress(s)'
    <2>1. \A s \in Stream : queue'[s] = <<>> /\ finished'[s] = {}
      BY <1>1, <1>2, <1>3 DEF DeviceIdle
    <2>2. Waiting(<<>>) = {} /\ Distinct(<<>>)
      BY EmptySeq DEF Waiting, Distinct, Kernels
    <2> QED
      BY <2>1, <2>2 DEF Progress
  <1>5. Sums'
    BY <1>1, <1>2, <1>3 DEF Sums, HostSum, Cleared, DirectSum, PartialSum, MergedSum, FinalSum,
       Adding, CallIsWhole
  <1> QED
    BY <1>1, <1>4, <1>5 DEF SumInv, WorkInv, SafeInv

\* The account of a call: that of the streams, or that of the batched launch.
Account == (SafeInv /\ SumInv) \/ (BatchInv /\ BatchSums)

LEMMA AccountInit == Init => Account
  BY SumInvInit DEF Account, SafeInv, ReadyInv, SumInv, WorkInv, Init

LEMMA AccountStep ==
  ASSUME Partitioned, Supported, Account, [Next]_blcoVars
  PROVE  Account'
  <1>1. CASE SafeInv /\ SumInv /\ ~LaunchAll
    BY <1>1, SafeInvKept, SumInvStep DEF Account
  <1>2. CASE SafeInv /\ SumInv /\ LaunchAll
    BY <1>2, LaunchAllBegins, BatchSumsBegin DEF Account
  <1>3. CASE BatchInv /\ BatchSums /\ ~EndCall
    BY <1>3, BatchInvStep, BatchSumsStep DEF Account
  <1>4. CASE BatchInv /\ BatchSums /\ EndCall
    BY <1>4, BatchSumsEnd DEF Account
  <1> QED
    BY <1>1, <1>2, <1>3, <1>4 DEF Account

LEMMA AccountMeaning ==
  Account => /\ TypeInv /\ exact /\ CallIsWhole
             /\ pc = "start" => calls = 0
             /\ pc \in {"start", "idle"} => DeviceIdle
  <1>1. CASE SafeInv /\ SumInv
    BY <1>1, DataInvMeaning DEF SafeInv, SumInv, OrderInv, Sums, HostSum
  <1>2. CASE BatchInv /\ BatchSums
    BY <1>2 DEF BatchInv, BatchSums, ResidentInv, CallIsWhole
  <1> QED
    BY <1>1, <1>2 DEF Account

-------------------------------------------------------------------------------
(* What the result matrix holds. *)

\* What it holds before call n + 1 adds to it: nothing where CP-ALS has cleared it,
\* its first content and n sums in the benchmark.
HeldAfter(n) == IF ClearsResult THEN WholeSums(FALSE, 0) ELSE WholeSums(TRUE, n)

HeldInv ==
  /\ pc \in {"start", "idle"} /\ calls = 0 => held = WholeSums(TRUE, 0) /\ output = {}
  /\ pc \in {"start", "idle"} /\ calls > 0 => held = HeldAfter(calls - 1)
  /\ pc \notin {"start", "idle"} => held = HeldAfter(calls)

LEMMA HeldInvInit == Init => HeldInv
  BY DEF Init, HeldInv

\* A whole sum on top of n of them is one more, and no sum changes nothing.
LEMMA OneSumMore ==
  ASSUME NEW initial \in BOOLEAN, NEW n \in Nat, held = WholeSums(initial, n)
  PROVE  /\ output = Nonzero => Content = WholeSums(initial, n + 1)
         /\ output = {} => Content = held
  <1>1. held = [initial |-> initial, times |-> [x \in Nonzero |-> n]]
    BY DEF WholeSums
  <1>2. Content = [initial |-> initial,
                   times |-> [x \in Nonzero |-> n + (IF x \in output THEN 1 ELSE 0)]]
    BY <1>1 DEF Content
  <1>3. ASSUME output = Nonzero
        PROVE  Content = WholeSums(initial, n + 1)
    <2>1. [x \in Nonzero |-> n + (IF x \in output THEN 1 ELSE 0)] = [x \in Nonzero |-> n + 1]
      BY <1>3
    <2> QED
      BY <1>2, <2>1 DEF WholeSums
  <1>4. ASSUME output = {}
        PROVE  Content = held
    <2>1. [x \in Nonzero |-> n + (IF x \in output THEN 1 ELSE 0)] = [x \in Nonzero |-> n]
      BY <1>4
    <2> QED
      BY <1>1, <1>2, <2>1
  <1> QED
    BY <1>3, <1>4

\* The content after the calls that have returned.
LEMMA ContentAfterCalls ==
  ASSUME Account, HeldInv, pc \in {"start", "idle"}
  PROVE  /\ calls = 0 => Content = WholeSums(TRUE, 0)
         /\ calls > 0 => Content = IF ClearsResult THEN WholeSums(FALSE, 1) ELSE WholeSums(TRUE, calls)
  <1>1. calls \in Nat /\ CallIsWhole /\ (pc = "start" => calls = 0)
    BY AccountMeaning, CallAssumption DEF TypeInv, TypeOK
  <1>2. CASE calls = 0
    <2>1. held = WholeSums(TRUE, 0) /\ output = {}
      BY <1>2 DEF HeldInv
    <2>2. Content = WholeSums(TRUE, 0)
      BY <2>1, OneSumMore
    <2> QED
      BY <1>2, <2>2
  <1>3. CASE calls > 0
    <2>1. output = Nonzero /\ held = HeldAfter(calls - 1) /\ calls - 1 \in Nat
      BY <1>1, <1>3 DEF CallIsWhole, HeldInv
    <2>2. CASE ClearsResult
      <3>1. held = WholeSums(FALSE, 0)
        BY <2>1, <2>2 DEF HeldAfter
      <3>2. Content = WholeSums(FALSE, 0 + 1)
        BY <2>1, <3>1, OneSumMore
      <3>3. Content = WholeSums(FALSE, 1)
        BY <3>2
      <3>4. calls # 0
        BY <1>1, <1>3
      <3> QED
        BY <2>2, <3>3, <3>4, Zenon
    <2>3. CASE ~ClearsResult
      <3>1. held = WholeSums(TRUE, calls - 1)
        BY <2>1, <2>3 DEF HeldAfter
      <3>2. Content = WholeSums(TRUE, (calls - 1) + 1)
        BY <2>1, <3>1, OneSumMore
      <3>3. (calls - 1) + 1 = calls
        BY <1>1
      <3> QED
        BY <1>3, <2>3, <3>2, <3>3
    <2> QED
      BY <2>2, <2>3
  <1> QED
    BY <1>1, <1>2, <1>3

\* The device has work only while a call is under way.
LEMMA DeviceWorksForACall ==
  ASSUME Account, Device
  PROVE  /\ pc \notin {"start", "idle"}
         /\ pc' = pc /\ calls' = calls /\ held' = held
  <1>1. ~DeviceIdle
    BY DEF Device, DefaultZero, DefaultReduce, Zero, Copy, RunThreadBlock, Retire,
           Reduce, RunningKernel, AtHead, DeviceIdle
  <1>2. pc' = pc /\ calls' = calls /\ held' = held
    BY DEF Device, DefaultZero, DefaultReduce, Zero, Copy, RunThreadBlock, Retire, Reduce,
           host, memory
  <1> QED
    BY <1>1, <1>2, AccountMeaning

LEMMA HeldInvStep ==
  ASSUME Account, HeldInv, [Next]_blcoVars
  PROVE  HeldInv'
  <1>1. /\ calls \in Nat /\ (pc = "start" => calls = 0)
        /\ pc \in {"start", "idle", "zeroing", "launching", "merging", "syncing"}
    BY AccountMeaning, CallAssumption DEF TypeInv, TypeOK
  <1>2. CASE Prepare
    <2>1. /\ pc = "start" /\ pc' = "idle" /\ calls' = calls /\ held' = held /\ output' = output
      BY <1>2 DEF Prepare
    <2> QED
      BY <1>1, <2>1 DEF HeldInv
  <1>3. ASSUME NEW k \in ModeKinds, BeginCall(k)
        PROVE  HeldInv'
    <2>1. /\ pc = "idle" /\ pc' \in {"zeroing", "launching"} /\ calls' = calls
          /\ held' = IF ClearsResult THEN WholeSums(FALSE, 0) ELSE Content
      BY <1>3 DEF BeginCall
    <2>2. ASSUME ~ClearsResult
          PROVE  Content = WholeSums(TRUE, calls)
      <3>1. CASE calls = 0
        BY <2>1, <3>1, ContentAfterCalls
      <3>2. CASE calls > 0
        <4>1. Content = IF ClearsResult THEN WholeSums(FALSE, 1) ELSE WholeSums(TRUE, calls)
          BY <2>1, <3>2, ContentAfterCalls
        <4> QED
          BY <2>2, <4>1, Zenon
      <3>3. calls = 0 \/ calls > 0
        BY <1>1
      <3> QED
        BY <3>1, <3>2, <3>3
    <2>3. held' = HeldAfter(calls)
      BY <2>1, <2>2 DEF HeldAfter
    <2>4. HeldAfter(calls') = HeldAfter(calls)
      BY <2>1
    <2> QED
      BY <2>1, <2>3, <2>4 DEF HeldInv
  <1>4. CASE EndCall
    <2>1. pc = "syncing" /\ pc' = "idle" /\ calls' = calls + 1 /\ held' = held
      BY <1>4 DEF EndCall, memory
    <2>2. held = HeldAfter(calls) /\ calls' # 0 /\ calls' - 1 = calls
      BY <1>1, <2>1 DEF HeldInv
    <2> QED
      BY <2>1, <2>2 DEF HeldInv
  <1>5. CASE SyncZero \/ LaunchBlock \/ LaunchAll \/ Merge
    <2>1. /\ pc \in {"zeroing", "launching", "merging"}
          /\ pc' \in {"launching", "merging", "syncing"}
          /\ calls' = calls /\ held' = held
      BY <1>5 DEF SyncZero, LaunchBlock, LaunchAll, Merge, memory
    <2> QED
      BY <2>1 DEF HeldInv
  <1>6. CASE Device
    <2>1. pc \notin {"start", "idle"} /\ pc' = pc /\ calls' = calls /\ held' = held
      BY <1>6, DeviceWorksForACall
    <2> QED
      BY <2>1 DEF HeldInv
  <1>7. CASE Stop \/ UNCHANGED blcoVars
    <2>1. pc' = pc /\ calls' = calls /\ held' = held /\ output' = output
      BY <1>7 DEF Stop, blcoVars, host, memory
    <2> QED
      BY <2>1 DEF HeldInv
  <1> QED
    BY <1>2, <1>3, <1>4, <1>5, <1>6, <1>7 DEF Next, Host

\* Every call adds to the result matrix the sum over all nonzeros, each of them once:
\* after one call of CP-ALS, which clears it, the matrix is that sum, and after n calls
\* of the benchmark what was in it at first plus n times the sum.  This is so for every
\* way the tensor is cut into blocks, with any number of streams, in any order the device
\* takes their work and the thread blocks of a launch, for every kernel that is supported.
THEOREM ResultIsWhole ==
  ASSUME Partitioned, Supported
  PROVE  Spec => []ResultIsWholeSum
  <1>1. Account /\ HeldInv /\ [Next]_blcoVars => (Account /\ HeldInv)'
    BY AccountStep, HeldInvStep
  <1>2. Account /\ HeldInv => ResultIsWholeSum
    <2> SUFFICES ASSUME Account, HeldInv, pc = "idle", calls > 0
                 PROVE  /\ exact
                        /\ Content = IF ClearsResult THEN WholeSums(FALSE, 1)
                                                     ELSE WholeSums(TRUE, calls)
      BY DEF ResultIsWholeSum
    <2> QED
      BY AccountMeaning, ContentAfterCalls
  <1> QED
    BY <1>1, <1>2, AccountInit, HeldInvInit, PTL DEF Spec

\* Seen from its caller the whole machinery is the one sum of module Mttkrp, added to what
\* the matrix holds: every step is the start of a call, its end, or nothing.
THEOREM CallsAreSums ==
  ASSUME Partitioned, Supported
  PROVE  Spec => /\ Abstract!Init
                 /\ [][Abstract!Call \/ Abstract!Return]_(Abstract!mttkrpVars)
  <1> DEFINE Step == [Abstract!Call \/ Abstract!Return]_(Abstract!mttkrpVars)
             Result == IF pc \in {"start", "idle"} /\ exact THEN Content ELSE held
             Busy == pc \in {"zeroing", "launching", "merging", "syncing"}
  <1>1. Init => Abstract!Init
    <2> SUFFICES ASSUME Init
                 PROVE  Abstract!Init
      OBVIOUS
    <2>1. pc = "start" /\ exact /\ held = WholeSums(TRUE, 0) /\ output = {}
      BY DEF Init
    <2>2. Content = WholeSums(TRUE, 0)
      BY <2>1, OneSumMore
    <2> QED
      BY <2>1, <2>2 DEF Abstract!Init, WholeSums
  <1>2. Account /\ HeldInv /\ [Next]_blcoVars => Step
    <2> SUFFICES ASSUME Account, HeldInv, [Next]_blcoVars
                 PROVE  Step
      OBVIOUS
    <2>1. Account'
      BY AccountStep
    <2>2. /\ calls \in Nat /\ exact
          /\ pc \in {"start", "idle", "zeroing", "launching", "merging", "syncing"}
      BY AccountMeaning, CallAssumption DEF TypeInv, TypeOK
    <2>3. exact' /\ (pc' = "idle" /\ calls' > 0 => output' = Nonzero)
      <3>1. exact' /\ CallIsWhole'
        BY <2>1, AccountMeaning, PTL
      <3> QED
        BY <3>1 DEF CallIsWhole
    <2>4. ASSUME held' = held, pc' = pc, pc \in {"start", "idle"} => output' = output
          PROVE  Step
      <3>1. pc \in {"start", "idle"} => Content' = Content
        BY <2>4 DEF Content
      <3>2. Result' = Result /\ Busy' = Busy
        BY <2>2, <2>3, <2>4, <3>1
      <3> QED
        BY <3>2 DEF Abstract!mttkrpVars
    <2>5. CASE Prepare
      <3>1. pc = "start" /\ pc' = "idle" /\ held' = held /\ output' = output
        BY <2>5 DEF Prepare
      <3>2. Content' = Content
        BY <3>1 DEF Content
      <3> QED
        BY <2>2, <2>3, <3>1, <3>2 DEF Abstract!mttkrpVars
    <2>6. ASSUME NEW k \in ModeKinds, BeginCall(k)
          PROVE  Step
      <3>1. /\ pc = "idle" /\ pc' \in {"zeroing", "launching"}
            /\ held' = IF ClearsResult THEN WholeSums(FALSE, 0) ELSE Content
        BY <2>6 DEF BeginCall
      <3>2. Result = Content /\ Result' = held' /\ ~Busy /\ Busy'
        BY <2>2, <3>1
      <3> QED
        BY <3>1, <3>2 DEF Abstract!Call, WholeSums
    <2>7. CASE EndCall
      <3>1. pc = "syncing" /\ pc' = "idle" /\ calls' = calls + 1 /\ held' = held
        BY <2>7 DEF EndCall, memory
      <3>2. output' = Nonzero
        BY <2>2, <2>3, <3>1
      <3>3. Content' = [held EXCEPT !.times = [x \in Nonzero |-> held.times[x] + 1]]
        <4>1. Content' = [held EXCEPT !.times =
                            [x \in Nonzero |-> held.times[x] + (IF x \in Nonzero THEN 1 ELSE 0)]]
          BY <3>1, <3>2 DEF Content
        <4>2. [x \in Nonzero |-> held.times[x] + (IF x \in Nonzero THEN 1 ELSE 0)]
                = [x \in Nonzero |-> held.times[x] + 1]
          OBVIOUS
        <4> QED
          BY <4>1, <4>2
      <3>4. Result = held /\ Result' = Content' /\ Busy /\ ~Busy'
        BY <2>3, <3>1
      <3> QED
        BY <3>3, <3>4 DEF Abstract!Return
    <2>8. CASE SyncZero \/ LaunchBlock \/ LaunchAll \/ Merge
      <3>1. /\ pc \in {"zeroing", "launching", "merging"}
            /\ pc' \in {"launching", "merging", "syncing"} /\ held' = held
        BY <2>8 DEF SyncZero, LaunchBlock, LaunchAll, Merge, memory
      <3> QED
        BY <3>1 DEF Abstract!mttkrpVars
    <2>9. CASE Device
      BY <2>4, <2>9, DeviceWorksForACall
    <2>10. CASE Stop \/ UNCHANGED blcoVars
      <3>1. pc' = pc /\ held' = held /\ output' = output
        BY <2>10 DEF Stop, blcoVars, host, memory
      <3> QED
        BY <2>4, <3>1
    <2> QED
      BY <2>5, <2>6, <2>7, <2>8, <2>9, <2>10 DEF Next, Host
  <1> QED
    <2>1. Account /\ HeldInv /\ [Next]_blcoVars => (Account /\ HeldInv)'
      BY AccountStep, HeldInvStep
    <2> QED
      BY <1>1, <1>2, <2>1, AccountInit, HeldInvInit, PTL DEF Spec

===============================================================================
