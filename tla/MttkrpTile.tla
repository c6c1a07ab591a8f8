------------------------------ MODULE MttkrpTile ------------------------------
(***************************************************************************)
(* What one thread block of the BLCO kernels of level 1, 2 and 3 does with *)
(* the elements it is given (mttkrp_lvl1_3d_kernel and its variants for    *)
(* four modes, for batches, with a stash and with partial matrices).  It   *)
(* takes a tile of elements at a time, one per lane, sorts them by output  *)
(* row with warp primitives, and adds the run of each row to the output    *)
(* or to a line of a small direct-mapped cache, the stash, whose line is   *)
(* added to the output when another row claims it.                         *)
(*                                                                         *)
(* BlcoMttkrp takes all this for one step that adds each element once.     *)
(* Sums are sets of elements and a ghost, exact, as there; the lanes do    *)
(* the same for each column of a row, so a row is a single sum.            *)
(***************************************************************************)
EXTENDS Integers, FiniteSets, FiniteSetsExt

CONSTANTS
  TILE_SIZE,   \* the lanes of a warp: 32
  STASH_SIZE,  \* 4
  ThreadCf,    \* THREAD_CF: the tiles of a thread block with a stash
  NumRows,     \* the length of the target mode
  MaxElements, \* bound: the elements given to the thread block
  INVALID_ID,  \* the row of a lane without element, and an unused line
  Undef        \* shared memory before it is written

Lane == 0 .. TILE_SIZE - 1
Line == 0 .. STASH_SIZE - 1
Row == 0 .. NumRows - 1

ASSUME TileAssumption ==
  /\ {TILE_SIZE, STASH_SIZE, ThreadCf, NumRows, MaxElements} \subseteq Nat \ {0}
  /\ INVALID_ID \notin Nat /\ Undef \notin Nat

VARIABLES
  row,      \* the output row of each element: what alt_pext finds in its index
  stashed,  \* a kernel of level 2 or 3
  pc,
  curr,     \* curr_elem
  n,        \* the next sorted element of the tile
  nnz_out,  \* the rows of the tile, sorted
  nnz_val,  \* its elements
  heads,    \* sg_mask: where a run of equal rows begins
  tags,     \* the row of each stash line
  data,     \* the sums of each stash line
  output,   \* the result
  exact

tile == <<nnz_out, nnz_val, heads>>
stash == <<tags, data>>
tileVars == <<row, stashed, pc, curr, n, tile, stash, output, exact>>

Element == DOMAIN row
end_elem == Cardinality(Element)
Share == IF stashed THEN TILE_SIZE * ThreadCf ELSE TILE_SIZE

Init ==
  /\ stashed \in BOOLEAN
  /\ \E k \in 1 .. Min({MaxElements, Share}) : row \in [0 .. k - 1 -> Row]
  /\ pc = "sort" /\ curr = 0 /\ n = 0
  /\ nnz_out = [t \in Lane |-> Undef]
  /\ nnz_val = [t \in Lane |-> Undef]
  /\ heads = {}
  /\ tags = [l \in Line |-> INVALID_ID]
  /\ data = [l \in Line |-> {Undef}]
  /\ output = [r \in Row |-> {}]
  /\ exact = TRUE

-------------------------------------------------------------------------------
(* The sort. *)

\* output_row of lane t.
Key(t) == IF curr + t < end_elem THEN row[curr + t] ELSE INVALID_ID

\* match_any and labeled_partition: the lanes with the row of t.
SubGroup(t) == {u \in Lane : Key(u) = Key(t)}
First(t) == Min(SubGroup(t))

\* (mutant) The count behind the group's own.
StartBehind(t) == Cardinality({u \in Lane : First(u) <= First(t)})

\* count[sg_id] after the scan: the lanes in the groups before that of t.
\* Groups are numbered by their first lanes, so idle lanes are the last group.
Start(t) == Cardinality({u \in Lane : First(u) < First(t)})

\* sg_rank: the place of lane t in the sorted tile.
Place(t) == Start(t) + Cardinality({u \in SubGroup(t) : u < t})

\* One tile: a counting sort by row.  A lane without element stores its row
\* but no value, so an old value stays in its place.
Sort ==
  /\ pc = "sort" /\ curr < end_elem
  /\ LET place == [t \in Lane |-> Place(t)]
         at(r) == {t \in Lane : place[t] = r}
         full(r) == {t \in at(r) : curr + t < end_elem}
     IN /\ nnz_out' = [r \in Lane |-> IF at(r) = {} THEN nnz_out[r] ELSE Key(Max(at(r)))]
        /\ nnz_val' = [r \in Lane |-> IF full(r) = {} THEN nnz_val[r] ELSE curr + Max(full(r))]
        /\ heads' = {place[t] : t \in {u \in Lane : u = First(u)}}
  /\ n' = 0 /\ pc' = "row"
  /\ UNCHANGED <<row, stashed, curr, stash, output, exact>>

-------------------------------------------------------------------------------
(* The rows. *)

InTile == n < TILE_SIZE /\ curr + n < end_elem
line == nnz_out[n] % STASH_SIZE

\* Adding the sums `from' to `into' is exact when it adds elements only, and
\* none that is there already.
AddsOnce(from, into) == from \subseteq Element /\ from \intersect into = {}

\* (mutant) A line that holds another row is used as it is.
ClaimWithoutEviction ==
  /\ pc = "row" /\ InTile /\ stashed
  /\ data' = IF tags[line] = INVALID_ID THEN [data EXCEPT ![line] = {}] ELSE data
  /\ tags' = [tags EXCEPT ![line] = nnz_out[n]]
  /\ pc' = "add"
  /\ UNCHANGED <<row, stashed, curr, n, tile, output, exact>>

\* Before its row is added, a stash line is cleared if unused, and added to the
\* output and cleared if it holds another row.  The tag is set by lane 0 with no
\* barrier to the other lanes' read of it: they read it together with lane 0,
\* right after a shuffle of the whole warp and in a branch all of them take.
Claim ==
  /\ pc = "row" /\ InTile /\ stashed
  /\ LET tag == tags[line]
         evicted == tag \notin {INVALID_ID, nnz_out[n]}
     IN /\ output' = IF evicted THEN [output EXCEPT ![tag] = @ \union data[line]] ELSE output
        /\ exact' = (exact /\ (evicted => AddsOnce(data[line], output[tag])))
        /\ data' = IF tag = nnz_out[n] THEN data ELSE [data EXCEPT ![line] = {}]
  /\ tags' = [tags EXCEPT ![line] = nnz_out[n]]
  /\ pc' = "add"
  /\ UNCHANGED <<row, stashed, curr, n, tile>>

\* (mutant) The mask is looked at before n moves on.
HeadFromHere == Min({m \in heads : m >= n} \union {TILE_SIZE})

\* The run that begins at n ends before the next head or with the tile.
NextHead == Min({m \in heads : m > n} \union {TILE_SIZE})
Run == {nnz_val[m] : m \in n .. NextHead - 1}
RunIsDistinct == Cardinality(Run) = NextHead - n

\* All lanes add the run in a register, each for its columns, then the sum of it.
Add ==
  /\ IF stashed
       THEN /\ pc = "add"
            /\ data' = [data EXCEPT ![line] = @ \union Run]
            /\ exact' = (exact /\ RunIsDistinct /\ AddsOnce(Run, data[line]))
            /\ UNCHANGED output
       ELSE /\ pc = "row" /\ InTile
            /\ output' = [output EXCEPT ![nnz_out[n]] = @ \union Run]
            /\ exact' = (exact /\ RunIsDistinct /\ AddsOnce(Run, output[nnz_out[n]]))
            /\ UNCHANGED data
  /\ n' = NextHead /\ pc' = "row"
  /\ UNCHANGED <<row, stashed, curr, tile, tags>>

NextTile ==
  /\ pc = "row" /\ ~InTile
  /\ curr' = curr + TILE_SIZE /\ pc' = "sort"
  /\ UNCHANGED <<row, stashed, n, tile, stash, output, exact>>

\* After the last tile every line in use is added to the output.
Flush ==
  /\ pc = "sort" /\ curr >= end_elem
  /\ LET inUse(r) == {l \in Line : stashed /\ tags[l] = r}
     IN /\ output' = [r \in Row |-> output[r] \union UNION {data[l] : l \in inUse(r)}]
        /\ exact' = (exact /\ \A r \in Row : \A l \in inUse(r) : AddsOnce(data[l], output[r]))
  /\ pc' = "done"
  /\ UNCHANGED <<row, stashed, curr, n, tile, stash>>

Done == pc = "done" /\ UNCHANGED tileVars

Next == Sort \/ Claim \/ Add \/ NextTile \/ Flush \/ Done

Spec == Init /\ [][Next]_tileVars /\ WF_tileVars(Next)

-------------------------------------------------------------------------------

\* The elements of the tile at hand, and those of them already added.
TileElements == {e \in Element : curr <= e /\ e < curr + TILE_SIZE}
Added == {e \in Element : e < curr} \union
         (IF pc \in {"row", "add"} THEN {nnz_val[m] : m \in 0 .. n - 1} ELSE {})

\* After the sort the elements of the tile come first, each once; equal rows
\* are one run, a head begins each run, and idle lanes are behind the last.
TileIsGrouped ==
  pc \in {"row", "add"} =>
    LET k == Cardinality(TileElements)
    IN /\ {nnz_val[m] : m \in 0 .. k - 1} = TileElements
       /\ \A m \in 0 .. k - 1 : nnz_out[m] = row[nnz_val[m]]
       /\ \A m \in 1 .. k - 1 : m \in heads <=> nnz_out[m] # nnz_out[m - 1]
       /\ \A l, m \in 0 .. k - 1 : l < m /\ nnz_out[l] = nnz_out[m] =>
            \A h \in l .. m : nnz_out[h] = nnz_out[l]
       /\ k < TILE_SIZE => k \in heads

\* Every element added so far is, once, in the output or in the stash line of
\* its row; nothing else is; at the end all are in the output.
NothingIsLost ==
  /\ \A r \in Row :
       LET held == UNION {data[l] : l \in {k \in Line : tags[k] = r}}
       IN IF pc = "done" THEN output[r] = {e \in Element : row[e] = r}
          ELSE /\ output[r] \union held = {e \in Added : row[e] = r}
               /\ output[r] \intersect held = {}
  /\ exact

\* A kernel ends: no run is empty, whatever the masks are.
Ends == <>(pc = "done")
===============================================================================
