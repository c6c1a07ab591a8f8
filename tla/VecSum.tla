------------------------------- MODULE VecSum -------------------------------
(***************************************************************************)
(* vecsum of the BLCO CP-ALS: the entries of a vector on the device are    *)
(* summed in place, by launches of reduce2 in each of which thread block b *)
(* sums BLOCK_SIZE entries and writes entry b.  Launches on one stream     *)
(* follow one another; the thread blocks of one launch run in any order.   *)
(***************************************************************************)
EXTENDS Naturals, FiniteSets, Bags

CONSTANTS BLOCK_SIZE,   \* threads of a thread block
          Lengths       \* lengths of the vectors that are summed, rank * rank

VARIABLES
  length,   \* that of the whole vector
  x,        \* x[i]: the bag of the entries summed up in entry i
  n,        \* entries the current launch sums
  temp,     \* shared memory of each thread block, summed up
  loaded,   \* threads of the launch that have read their entry
  written   \* thread blocks that have written their sum

vars == <<length, x, n, temp, loaded, written>>

Blocks == 1 + ((n - 1) \div BLOCK_SIZE)
Threads(b) == {i \in b * BLOCK_SIZE .. (b + 1) * BLOCK_SIZE - 1 : i < n}
Idle == n = 0

Init ==
  /\ length \in Lengths
  /\ x = [i \in 0 .. length - 1 |-> SetToBag({i})]
  /\ n = length
  /\ temp = [b \in 0 .. Blocks - 1 |-> EmptyBag]
  /\ loaded = {} /\ written = {}

\* Thread i reads its entry into shared memory.
Load(i) ==
  /\ i < n /\ i \notin loaded
  /\ LET b == i \div BLOCK_SIZE IN temp' = [temp EXCEPT ![b] = @ (+) x[i]]
  /\ loaded' = loaded \cup {i}
  /\ UNCHANGED <<length, x, n, written>>

\* Behind __syncthreads: thread 0 of block b writes the sum.
Write(b) ==
  /\ b < Blocks /\ b \notin written /\ ~Idle
  /\ Threads(b) \subseteq loaded
  /\ x' = [x EXCEPT ![b] = temp[b]]
  /\ written' = written \cup {b}
  /\ UNCHANGED <<length, n, temp, loaded>>

\* All thread blocks have ended: the next launch sums what they wrote.  The last
\* launch is the one of a single thread block.
NextLaunch ==
  /\ ~Idle /\ written = 0 .. Blocks - 1
  /\ n' = IF n > BLOCK_SIZE THEN Blocks ELSE 0
  /\ temp' = [b \in 0 .. Blocks - 1 |-> EmptyBag]
  /\ loaded' = {} /\ written' = {}
  /\ UNCHANGED <<length, x>>

Next ==
  \/ \E i \in 0 .. length - 1 : Load(i) \/ Write(i)
  \/ NextLaunch

Spec == Init /\ [][Next]_vars

\* "Sums up a vector. The result will be placed in the first entry of the vector":
\* each entry is in the sum once.
SumIsWhole == Idle => x[0] = SetToBag(0 .. length - 1)
=============================================================================
