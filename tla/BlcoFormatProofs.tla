-------------------------- MODULE BlcoFormatProofs --------------------------
(***************************************************************************)
(* The blocked format loses nothing, for every width of an integer, every  *)
(* tensor whose index fits in two of them, every order of the modes that   *)
(* std::sort may choose, and every size of a block.                        *)
(*                                                                         *)
(* The argument: the masks share the bits of the index out to the modes    *)
(* (Masks), so that a coordinate is what its mask extracts (LinearBits),   *)
(* and that is put together from the low bits, which have places of their  *)
(* own in the shortened index (Positions, LowBits), and the high ones,     *)
(* which the block keeps (PextOfHalves, Decoding). The indices being       *)
(* sorted, the nonzeros of one place of the histogram follow each other    *)
(* (PrefixFacts), and the loops that cut them reach each one (Cut).        *)
(***************************************************************************)
EXTENDS BlcoFormat, FiniteSetTheorems, WellFoundedInduction, TLAPS

-----------------------------------------------------------------------------
(* Numbers, and ranks in a set that is ordered. *)

\* A non-empty collection of finite sets has a member that includes no other.
LEMMA LeastSet ==
  ASSUME NEW S, IsFiniteSet(S), NEW T \in SUBSET SUBSET S, T # {}
  PROVE  \E m \in T : \A s \in T : s \subseteq m => s = m
  <1>1. T \subseteq FiniteSubsetsOf(S)
    BY FS_Subset DEF FiniteSubsetsOf
  <1>2. \E m \in T : \A s \in T : ~ (<<s, m>> \in StrictSubsetOrdering(S))
    BY <1>1, FS_StrictSubsetOrderingWellFounded, WFMin
  <1> QED
    BY <1>2 DEF StrictSubsetOrdering

LEMMA LeastNumber ==
  ASSUME NEW k \in Nat, NEW S \in SUBSET (0 .. k), S # {}
  PROVE  \E m \in S : \A x \in S : m <= x
  <1> DEFINE T == {0 .. x : x \in S}
  <1>1. IsFiniteSet(0 .. k)
    BY FS_Interval
  <1>2. T \in SUBSET SUBSET (0 .. k) /\ T # {}
    <2>1. \A x \in S : 0 .. x \in SUBSET (0 .. k)
      OBVIOUS
    <2> QED
      BY <2>1
  <1>3. \E t \in T : \A s \in T : s \subseteq t => s = t
    <2> HIDE DEF T
    <2>1. PICK U, V : U = 0 .. k /\ V = T
      OBVIOUS
    <2>2. IsFiniteSet(U) /\ V \in SUBSET SUBSET U /\ V # {}
      BY <1>1, <1>2, <2>1
    <2>3. \E t \in V : \A s \in V : s \subseteq t => s = t
      BY <2>2, LeastSet
    <2> QED
      BY <2>1, <2>3
  <1>4. PICK t \in T : \A s \in T : s \subseteq t => s = t
    BY <1>3
  <1>5. PICK m \in S : t = 0 .. m
    OBVIOUS
  <1>6. ASSUME NEW x \in S
        PROVE  m <= x
    <2> SUFFICES ASSUME x < m
                 PROVE  FALSE
      OBVIOUS
    <2>1. 0 .. x \in T /\ 0 .. x \subseteq 0 .. m
      OBVIOUS
    <2>2. 0 .. x = 0 .. m
      BY <1>4, <1>5, <2>1
    <2>3. m \in 0 .. m /\ m \notin 0 .. x
      OBVIOUS
    <2> QED
      BY <2>2, <2>3
  <1> QED
    BY <1>6

\* Induction over an interval, on the set of the numbers that are done.
LEMMA Induct ==
  ASSUME NEW N \in Nat, NEW S, 0 \in S, \A k \in 0 .. N - 1 : k \in S => k + 1 \in S
  PROVE  \A k \in 0 .. N : k \in S
  <1> DEFINE T == (0 .. N) \ S
  <1> SUFFICES T = {}
    OBVIOUS
  <1> SUFFICES ASSUME T # {}
               PROVE  FALSE
    OBVIOUS
  <1>1. T \in SUBSET (0 .. N)
    OBVIOUS
  <1>2. PICK U : U = T
    OBVIOUS
  <1>3. PICK m \in U : \A x \in U : m <= x
    BY <1>1, <1>2, LeastNumber
  <1>4. m # 0 /\ m - 1 \in 0 .. N - 1 /\ m - 1 \notin T
    BY <1>2, <1>3
  <1> QED
    BY <1>2, <1>3, <1>4

\* The number of the elements ahead of it in a strict order numbers a finite set;
\* A[x] are those ahead of x.
LEMMA Ranks ==
  ASSUME NEW S, IsFiniteSet(S), NEW A \in [S -> SUBSET S],
         \A x \in S : x \notin A[x],
         \A x, y \in S : x = y \/ x \in A[y] \/ y \in A[x],
         \A x, y, z \in S : x \in A[y] /\ y \in A[z] => x \in A[z]
  PROVE  /\ \A x \in S : Cardinality(A[x]) \in 0 .. Cardinality(S) - 1
         /\ \A x, y \in S : x \in A[y] <=> Cardinality(A[x]) < Cardinality(A[y])
         /\ \A x, y \in S : Cardinality(A[x]) = Cardinality(A[y]) => x = y
         /\ \A k \in 0 .. Cardinality(S) - 1 : \E x \in S : Cardinality(A[x]) = k
  <1> DEFINE n == Cardinality(S)
             r == [x \in S |-> Cardinality(A[x])]
  <1>1. n \in Nat
    BY FS_CardinalityType
  <1>2. ASSUME NEW x \in S
        PROVE  IsFiniteSet(A[x]) /\ r[x] = Cardinality(A[x]) /\ r[x] \in 0 .. n - 1
    <2>1. A[x] \in SUBSET (S \ {x})
      OBVIOUS
    <2>2. IsFiniteSet(S \ {x}) /\ Cardinality(S \ {x}) = n - 1
      BY FS_RemoveElement
    <2>3. IsFiniteSet(A[x]) /\ Cardinality(A[x]) <= n - 1
      BY <2>1, <2>2, FS_Subset
    <2>4. Cardinality(A[x]) \in Nat
      BY <2>3, FS_CardinalityType
    <2> HIDE DEF n
    <2> QED
      BY <1>1, <2>3, <2>4
  <1>3. ASSUME NEW x \in S, NEW y \in S, x \in A[y]
        PROVE  r[x] < r[y]
    <2>1. A[x] \in SUBSET A[y] /\ A[x] # A[y]
      BY <1>3
    <2>2. Cardinality(A[x]) <= Cardinality(A[y]) /\ Cardinality(A[x]) # Cardinality(A[y])
      BY <1>2, <2>1, FS_Subset
    <2>3. Cardinality(A[x]) \in Nat /\ Cardinality(A[y]) \in Nat
      BY <1>2, FS_CardinalityType
    <2> QED
      BY <1>2, <2>2, <2>3
  <1> HIDE DEF n
  <1>4. \A x \in S : r[x] \in Nat
    BY <1>1, <1>2
  <1> HIDE DEF r
  <1>5. ASSUME NEW x \in S, NEW y \in S, r[x] < r[y]
        PROVE  x \in A[y]
    <2>1. x # y
      BY <1>4, <1>5
    <2>2. ASSUME y \in A[x]
          PROVE  FALSE
      <3>1. r[y] < r[x]
        BY <1>3, <2>2
      <3> QED
        BY <1>4, <1>5, <3>1
    <2> QED
      BY <2>1, <2>2
  <1>6. \A x, y \in S : x \in A[y] <=> r[x] < r[y]
    BY <1>3, <1>5
  <1>7. \A x, y \in S : r[x] = r[y] => x = y
    BY <1>3, <1>4
  <1>8. \A k \in 0 .. n - 1 : \E x \in S : r[x] = k
    <2> DEFINE T == 0 .. n - 1
    <2>1. r \in [S -> T]
      BY <1>2 DEF r
    <2>2. r \in Injection(S, T)
      BY <1>7, <2>1 DEF Injection, IsInjective
    <2>3. IsFiniteSet(T) /\ Cardinality(T) = n
      BY <1>1, FS_Interval
    <2> HIDE DEF T
    <2>4. n = Cardinality(S)
      BY DEF n
    <2>5. r \in Surjection(S, T)
      BY <2>2, <2>3, <2>4, FS_Injection
    <2> QED
      BY <2>5 DEF Surjection, T
  <1>9. \A x \in S : r[x] = Cardinality(A[x])
    BY <1>2
  <1>10. n = Cardinality(S)
    BY DEF n
  <1>11. /\ \A x \in S : Cardinality(A[x]) \in 0 .. n - 1
         /\ \A k \in 0 .. n - 1 : \E x \in S : Cardinality(A[x]) = k
    BY <1>2, <1>8, <1>9
  <1> QED
    BY <1>6, <1>7, <1>9, <1>10, <1>11

\* As many elements as names.
LEMMA CountByNames ==
  ASSUME NEW S, IsFiniteSet(S), NEW f, \A i, j \in S : f[i] = f[j] => i = j
  PROVE  IsFiniteSet({f[i] : i \in S}) /\ Cardinality({f[i] : i \in S}) = Cardinality(S)
  <1> DEFINE T == {f[i] : i \in S}
             g == [i \in S |-> f[i]]
  <1>1. g \in Bijection(S, T)
    BY DEF Bijection, Injection, Surjection, IsInjective
  <1>2. ExistsBijection(S, T)
    BY <1>1 DEF ExistsBijection
  <1> HIDE DEF T, g
  <1>3. IsFiniteSet(T) /\ Cardinality(T) = Cardinality(S)
    BY <1>2, FS_Bijection
  <1> QED
    BY <1>3 DEF T
-------------------------------------------------------------------------------
(* Sums. *)

LEMMA SumsExist ==
  ASSUME NEW N \in Nat, NEW f, \A k \in 1 .. N : f[k] \in Nat
  PROVE  \E g \in [0 .. N -> Nat] : g[0] = 0 /\ \A k \in 1 .. N : g[k] = g[k - 1] + f[k]
  <1> DEFINE Good(m) == \E g \in [0 .. m -> Nat] :
                          g[0] = 0 /\ \A k \in 1 .. m : g[k] = g[k - 1] + f[k]
             S == {m \in 0 .. N : Good(m)}
  <1>1. 0 \in S
    <2>1. PICK g : g = [k \in 0 .. 0 |-> 0]
      OBVIOUS
    <2>2. g \in [0 .. 0 -> Nat] /\ g[0] = 0 /\ 1 .. 0 = {}
      BY <2>1
    <2>3. Good(0)
      BY <2>2
    <2> QED
      BY <2>3
  <1>2. ASSUME NEW m \in 0 .. N - 1, Good(m)
        PROVE  Good(m + 1)
    <2>1. PICK g \in [0 .. m -> Nat] : g[0] = 0 /\ \A k \in 1 .. m : g[k] = g[k - 1] + f[k]
      BY <1>2
    <2> DEFINE h == [k \in 0 .. m + 1 |-> IF k <= m THEN g[k] ELSE g[m] + f[m + 1]]
    <2>2. h \in [0 .. m + 1 -> Nat]
      <3>1. f[m + 1] \in Nat /\ g[m] \in Nat
        OBVIOUS
      <3>2. \A k \in 0 .. m + 1 : h[k] \in Nat
        BY <3>1
      <3> QED
        BY <3>2
    <2>3. \A k \in 0 .. m : h[k] = g[k]
      OBVIOUS
    <2>4. h[m + 1] = h[m] + f[m + 1]
      BY <2>3
    <2>5. \A k \in 1 .. m + 1 : h[k] = h[k - 1] + f[k]
      <3> SUFFICES ASSUME NEW k \in 1 .. m + 1
                   PROVE  h[k] = h[k - 1] + f[k]
        OBVIOUS
      <3>1. CASE k = m + 1
        BY <3>1, <2>4
      <3>2. CASE k # m + 1
        <4>1. k \in 1 .. m /\ k \in 0 .. m /\ k - 1 \in 0 .. m
          BY <3>2
        <4> HIDE DEF h
        <4> QED
          BY <4>1, <2>1, <2>3
      <3> QED
        BY <3>1, <3>2
    <2>6. h[0] = 0
      BY <2>1, <2>3
    <2> HIDE DEF h
    <2> QED
      BY <2>2, <2>5, <2>6
  <1> HIDE DEF Good
  <1>3. \A m \in 0 .. N - 1 : m \in S => m + 1 \in S
    BY <1>2
  <1>4. PICK T : T = S
    OBVIOUS
  <1> HIDE DEF S
  <1>5. N \in T
    BY <1>1, <1>3, <1>4, Induct
  <1>6. Good(N)
    BY <1>4, <1>5 DEF S
  <1> QED
    BY <1>6 DEF Good

LEMMA SumsAre ==
  ASSUME NEW N \in Nat, NEW f, \A k \in 1 .. N : f[k] \in Nat
  PROVE  /\ Sums(f, N) \in [0 .. N -> Nat]
         /\ Sums(f, N)[0] = 0
         /\ \A k \in 1 .. N : Sums(f, N)[k] = Sums(f, N)[k - 1] + f[k]
  <1> DEFINE Rec(g) == g = [k \in 0 .. N |-> IF k = 0 THEN 0 ELSE g[k - 1] + f[k]]
  <1>1. PICK g \in [0 .. N -> Nat] : g[0] = 0 /\ \A k \in 1 .. N : g[k] = g[k - 1] + f[k]
    BY SumsExist
  <1>2. Rec(g)
    <2>1. \A k \in 0 .. N : g[k] = IF k = 0 THEN 0 ELSE g[k - 1] + f[k]
      BY <1>1
    <2>2. g = [k \in 0 .. N |-> g[k]]
      OBVIOUS
    <2> QED
      BY <2>1, <2>2
  <1>3. Sums(f, N) = CHOOSE s : Rec(s)
    BY DEF Sums
  <1>4. Rec(Sums(f, N))
    <2> HIDE DEF Rec
    <2> QED
      BY <1>2, <1>3
  <1>5. PICK s : s = Sums(f, N)
    OBVIOUS
  <1>6. s = [k \in 0 .. N |-> IF k = 0 THEN 0 ELSE s[k - 1] + f[k]]
    BY <1>4, <1>5
  <1>7. /\ s[0] = 0 /\ DOMAIN s = 0 .. N
        /\ \A k \in 1 .. N : s[k] = s[k - 1] + f[k]
    BY <1>6
  <1> DEFINE S == {k \in 0 .. N : s[k] \in Nat}
  <1>8. 0 \in S /\ \A k \in 0 .. N - 1 : k \in S => k + 1 \in S
    <2>1. ASSUME NEW k \in 0 .. N - 1
          PROVE  s[k + 1] = s[k] + f[k + 1] /\ f[k + 1] \in Nat
      <3>1. k + 1 \in 1 .. N /\ (k + 1) - 1 = k
        OBVIOUS
      <3> QED
        BY <1>7, <3>1
    <2>2. ASSUME NEW k \in 0 .. N - 1, k \in S
          PROVE  k + 1 \in S
      <3>1. s[k] \in Nat /\ f[k + 1] \in Nat /\ s[k + 1] = s[k] + f[k + 1]
        BY <2>1, <2>2
      <3>2. s[k + 1] \in Nat
        BY <3>1
      <3> QED
        BY <3>2
    <2> QED
      BY <1>7, <2>2
  <1>9. \A k \in 0 .. N : s[k] \in Nat
    <2>1. PICK T : T = S
      OBVIOUS
    <2> HIDE DEF S
    <2>2. \A k \in 0 .. N : k \in T
      BY <1>8, <2>1, Induct
    <2> QED
      BY <2>1, <2>2 DEF S
  <1>10. s \in [0 .. N -> Nat]
    BY <1>6, <1>9
  <1> QED
    BY <1>5, <1>7, <1>10

LEMMA SumsAgree ==
  ASSUME NEW N \in Nat, NEW M \in Nat, N <= M, NEW f, NEW g,
         \A k \in 1 .. M : g[k] \in Nat, \A k \in 1 .. N : f[k] = g[k]
  PROVE  \A k \in 0 .. N : Sums(f, N)[k] = Sums(g, M)[k]
  <1>1. PICK s, t : s = Sums(f, N) /\ t = Sums(g, M)
    OBVIOUS
  <1>2. s[0] = 0 /\ \A k \in 1 .. N : s[k] = s[k - 1] + f[k]
    <2>1. \A k \in 1 .. N : f[k] \in Nat
      OBVIOUS
    <2> QED
      BY <1>1, <2>1, SumsAre
  <1>3. t[0] = 0 /\ \A k \in 1 .. M : t[k] = t[k - 1] + g[k]
    BY <1>1, SumsAre
  <1> DEFINE S == {k \in 0 .. N : s[k] = t[k]}
  <1>4. 0 \in S /\ \A k \in 0 .. N - 1 : k \in S => k + 1 \in S
    <2>1. \A k \in 0 .. N - 1 : s[k + 1] = s[k] + f[k + 1] /\ t[k + 1] = t[k] + f[k + 1]
      BY <1>2, <1>3
    <2> QED
      BY <1>2, <1>3, <2>1
  <1>5. PICK T : T = S
    OBVIOUS
  <1> HIDE DEF S
  <1>6. \A k \in 0 .. N : k \in T
    BY <1>4, <1>5, Induct
  <1> QED
    BY <1>1, <1>5, <1>6 DEF S

LEMMA SumsGrow ==
  ASSUME NEW N \in Nat, NEW f, \A k \in 1 .. N : f[k] \in Nat
  PROVE  \A j, k \in 0 .. N : j <= k => Sums(f, N)[j] <= Sums(f, N)[k]
  <1> SUFFICES ASSUME NEW j \in 0 .. N
               PROVE  \A k \in 0 .. N : j <= k => Sums(f, N)[j] <= Sums(f, N)[k]
    OBVIOUS
  <1>1. PICK s : s = Sums(f, N)
    OBVIOUS
  <1>2. s \in [0 .. N -> Nat] /\ \A k \in 1 .. N : s[k] = s[k - 1] + f[k]
    BY <1>1, SumsAre
  <1> DEFINE S == {k \in 0 .. N : j <= k => s[j] <= s[k]}
  <1>3. 0 \in S /\ \A k \in 0 .. N - 1 : k \in S => k + 1 \in S
    <2>1. \A k \in 0 .. N - 1 : s[k + 1] = s[k] + f[k + 1] /\ f[k + 1] \in Nat /\ s[k] \in Nat
      BY <1>2
    <2>2. ASSUME NEW k \in 0 .. N - 1, k \in S, j <= k + 1
          PROVE  s[j] <= s[k + 1]
      <3>1. CASE j = k + 1
        <4>1. s[k + 1] \in Nat
          BY <1>2
        <4> QED
          BY <3>1, <4>1
      <3>2. CASE j <= k
        <4>1. s[j] <= s[k] /\ s[j] \in Nat /\ s[k] \in Nat /\ f[k + 1] \in Nat
          BY <1>2, <2>1, <2>2, <3>2
        <4>2. s[k + 1] = s[k] + f[k + 1]
          BY <2>1
        <4> QED
          BY <4>1, <4>2
      <3> QED
        BY <2>2, <3>1, <3>2
    <2>3. 0 \in S
      BY <1>2
    <2> QED
      BY <2>2, <2>3
  <1>4. PICK T : T = S
    OBVIOUS
  <1> HIDE DEF S
  <1>5. \A k \in 0 .. N : k \in T
    BY <1>3, <1>4, Induct
  <1> QED
    BY <1>1, <1>4, <1>5 DEF S

\* The sum of the cardinalities of disjoint sets is that of their union.
LEMMA SumsCount ==
  ASSUME NEW N \in Nat, NEW A, NEW f,
         \A k \in 1 .. N : IsFiniteSet(A[k]) /\ f[k] = Cardinality(A[k]),
         \A j, k \in 1 .. N : j # k => A[j] \cap A[k] = {},
         NEW U, \A k \in 0 .. N : \A x : x \in U[k] <=> \E j \in 1 .. k : x \in A[j]
  PROVE  \A k \in 0 .. N : IsFiniteSet(U[k]) /\ Sums(f, N)[k] = Cardinality(U[k])
  <1> DEFINE S == {k \in 0 .. N : IsFiniteSet(U[k]) /\ Sums(f, N)[k] = Cardinality(U[k])}
  <1>1. \A k \in 1 .. N : f[k] \in Nat
    BY FS_CardinalityType
  <1>2. /\ Sums(f, N)[0] = 0
        /\ \A k \in 1 .. N : Sums(f, N)[k] = Sums(f, N)[k - 1] + f[k]
    BY <1>1, SumsAre
  <1>3. U[0] = {}
    <2>1. 0 \in 0 .. N /\ 1 .. 0 = {}
      OBVIOUS
    <2> QED
      BY <2>1
  <1>4. 0 \in S
    <2>1. IsFiniteSet(U[0]) /\ Cardinality(U[0]) = 0
      BY <1>3, FS_EmptySet
    <2> QED
      BY <1>2, <2>1
  <1>5. ASSUME NEW k \in 0 .. N - 1, k \in S
        PROVE  k + 1 \in S
    <2>0. k \in 0 .. N /\ k + 1 \in 0 .. N
      OBVIOUS
    <2>1. U[k + 1] = U[k] \cup A[k + 1]
      <3>1. 1 .. k + 1 = (1 .. k) \cup {k + 1}
        OBVIOUS
      <3>2. \A x : x \in U[k + 1] <=> x \in U[k] \/ x \in A[k + 1]
        BY <2>0, <3>1
      <3> QED
        BY <3>2
    <2>2. U[k] \cap A[k + 1] = {}
      <3>1. \A j \in 1 .. k : A[j] \cap A[k + 1] = {}
        OBVIOUS
      <3> QED
        BY <2>0, <3>1
    <2>3. /\ IsFiniteSet(U[k]) /\ Sums(f, N)[k] = Cardinality(U[k])
          /\ IsFiniteSet(A[k + 1]) /\ f[k + 1] = Cardinality(A[k + 1])
          /\ Sums(f, N)[k + 1] = Sums(f, N)[k] + f[k + 1]
      BY <1>2, <1>5
    <2>4. PICK X, Y : X = U[k] /\ Y = A[k + 1]
      OBVIOUS
    <2>5. IsFiniteSet(X \cup Y) /\ Cardinality(X \cup Y) = Cardinality(X) + Cardinality(Y) - Cardinality(X \cap Y)
      BY <2>3, <2>4, FS_Union
    <2>6. Cardinality(X \cap Y) = 0
      BY <2>2, <2>4, FS_EmptySet
    <2>7. Cardinality(X) \in Nat /\ Cardinality(Y) \in Nat
      BY <2>3, <2>4, FS_CardinalityType
    <2>8. U[k + 1] = X \cup Y
      BY <2>1, <2>4
    <2>9. IsFiniteSet(U[k + 1]) /\ Cardinality(U[k + 1]) = Cardinality(X) + Cardinality(Y)
      <3>1. Cardinality(X \cup Y) = Cardinality(X) + Cardinality(Y)
        BY <2>5, <2>6, <2>7
      <3> QED
        BY <2>5, <2>8, <3>1
    <2>10. Sums(f, N)[k + 1] = Cardinality(U[k + 1])
      BY <2>3, <2>4, <2>9
    <2> QED
      BY <2>9, <2>10
  <1>6. PICK T : T = S
    OBVIOUS
  <1> HIDE DEF S
  <1>7. \A k \in 0 .. N : k \in T
    BY <1>4, <1>5, <1>6, Induct
  <1> QED
    BY <1>6, <1>7 DEF S
-------------------------------------------------------------------------------
(* Words and the numbers they stand for. *)

LEMMA GreatestNumber ==
  ASSUME NEW k \in Nat, NEW S \in SUBSET (0 .. k), S # {}
  PROVE  \E m \in S : \A x \in S : x <= m
  <1> DEFINE T == {k - x : x \in S}
  <1>1. T \in SUBSET (0 .. k) /\ T # {}
    <2>1. \A x \in S : k - x \in 0 .. k
      OBVIOUS
    <2>2. \A y \in T : y \in 0 .. k
      BY <2>1
    <2> QED
      BY <2>2
  <1>2. PICK U : U = T
    OBVIOUS
  <1>3. PICK t \in U : \A u \in U : t <= u
    BY <1>1, <1>2, LeastNumber
  <1>4. PICK m \in S : t = k - m
    BY <1>2, <1>3
  <1>5. \A x \in S : k - m <= k - x /\ x \in Nat
    BY <1>2, <1>3, <1>4
  <1> QED
    BY <1>5

LEMMA BitFacts == Bit \subseteq Nat /\ 2 * Width - 1 \in Nat /\ IsFiniteSet(Bit) /\ Width \in Nat
  <1>1. Width \in Nat \ {0}
    BY FormatAssumption
  <1>2. 0 \in Int /\ 2 * Width - 1 \in Int
    BY <1>1
  <1> QED
    BY <1>1, <1>2, FS_Interval DEF Bit

LEMMA BelowOrder ==
  ASSUME NEW x \in SUBSET Bit, NEW y \in SUBSET Bit, NEW z \in SUBSET Bit
  PROVE  /\ ~ Below(x, x)
         /\ x = y \/ Below(x, y) \/ Below(y, x)
         /\ Below(x, y) /\ Below(y, z) => Below(x, z)
  <1>1. x \subseteq Nat /\ y \subseteq Nat /\ z \subseteq Nat
    BY BitFacts
  <1>2. ~ Below(x, x)
    BY DEF Below
  <1>3. ASSUME x # y
        PROVE  Below(x, y) \/ Below(y, x)
    <2> DEFINE D == (x \ y) \cup (y \ x)
               k == 2 * Width - 1
    <2>1. D \in SUBSET (0 .. k) /\ D # {}
      BY <1>3 DEF Bit
    <2>2. PICK U : U = D
      OBVIOUS
    <2>3. k \in Nat
      BY BitFacts
    <2> HIDE DEF k
    <2>4. PICK m \in U : \A a \in U : a <= m
      BY <2>1, <2>2, <2>3, GreatestNumber
    <2>5. m \in Nat
      BY <1>1, <2>2, <2>4
    <2>6. CASE m \in y \ x
      <3>1. \A a \in x \ y : a <= m /\ a # m
        BY <2>2, <2>4, <2>6
      <3>2. \A a \in x \ y : a < m
        BY <1>1, <2>5, <3>1
      <3> QED
        BY <2>6, <3>2 DEF Below
    <2>7. CASE m \in x \ y
      <3>1. \A a \in y \ x : a <= m /\ a # m
        BY <2>2, <2>4, <2>7
      <3>2. \A a \in y \ x : a < m
        BY <1>1, <2>5, <3>1
      <3> QED
        BY <2>7, <3>2 DEF Below
    <2> QED
      BY <2>2, <2>4, <2>6, <2>7
  <1>4. ASSUME Below(x, y), Below(y, z)
        PROVE  Below(x, z)
    <2>1. PICK b \in y \ x : \A a \in x \ y : a < b
      BY <1>4 DEF Below
    <2>2. PICK c \in z \ y : \A a \in y \ z : a < c
      BY <1>4 DEF Below
    <2>3. b \in Nat /\ c \in Nat /\ b # c
      BY <1>1, <2>1, <2>2
    <2>4. CASE c < b
      <3>1. b \in z \ x
        BY <2>1, <2>2, <2>3, <2>4
      <3>2. \A a \in x \ z : a < b
        <4> SUFFICES ASSUME NEW a \in x \ z
                     PROVE  a < b
          OBVIOUS
        <4>1. a \in Nat /\ (a < c \/ a < b)
          BY <1>1, <2>1, <2>2
        <4> QED
          BY <2>3, <2>4, <4>1
      <3> QED
        BY <3>1, <3>2 DEF Below
    <2>5. CASE b < c
      <3>1. c \in z \ x
        BY <2>1, <2>2, <2>3, <2>5
      <3>2. \A a \in x \ z : a < c
        <4> SUFFICES ASSUME NEW a \in x \ z
                     PROVE  a < c
          OBVIOUS
        <4>1. a \in Nat /\ (a < c \/ a < b)
          BY <1>1, <2>1, <2>2
        <4> QED
          BY <2>3, <2>5, <4>1
      <3> QED
        BY <3>1, <3>2 DEF Below
    <2> QED
      BY <2>3, <2>4, <2>5
  <1> QED
    BY <1>2, <1>3, <1>4

LEMMA UpTo ==
  ASSUME NEW n \in Nat
  PROVE  IsFiniteSet(0 .. n - 1) /\ Cardinality(0 .. n - 1) = n
  <1>1. 0 \in Int /\ n - 1 \in Int
    OBVIOUS
  <1>2. /\ IsFiniteSet(0 .. n - 1)
        /\ Cardinality(0 .. n - 1) = IF 0 > n - 1 THEN 0 ELSE n - 1 - 0 + 1
    BY <1>1, FS_Interval
  <1>3. (IF 0 > n - 1 THEN 0 ELSE n - 1 - 0 + 1) = n
    OBVIOUS
  <1> QED
    BY <1>2, <1>3

\* The words of k bits stand for the numbers below 2 ^ k.
LEMMA ValueOfWords ==
  ASSUME NEW k \in 0 .. 2 * Width
  PROVE  /\ 2 ^ k \in Nat
         /\ \A x \in SUBSET (0 .. k - 1) : Value[x] \in 0 .. 2 ^ k - 1
         /\ \A v \in 0 .. 2 ^ k - 1 : \E x \in SUBSET (0 .. k - 1) : Value[x] = v
         /\ \A x, y \in SUBSET (0 .. k - 1) : Below(x, y) <=> Value[x] < Value[y]
         /\ \A x, y \in SUBSET (0 .. k - 1) : Value[x] = Value[y] => x = y
  <1> DEFINE S == SUBSET (0 .. k - 1)
             A == [x \in S |-> {y \in S : Below(y, x)}]
  <1>1. k \in Nat /\ 0 \in Int /\ k - 1 \in Int /\ 0 .. k - 1 \subseteq Bit
    BY BitFacts DEF Bit
  <1>2. IsFiniteSet(0 .. k - 1) /\ Cardinality(0 .. k - 1) = k
    BY <1>1, UpTo
  <1>3. IsFiniteSet(S) /\ Cardinality(S) = 2 ^ k
    BY <1>2, FS_SUBSET
  <1>4. S \subseteq SUBSET Bit
    BY <1>1
  <1>5. \A x \in S : A[x] = {y \in S : Below(y, x)}
    OBVIOUS
  <1>6. ASSUME NEW x \in S
        PROVE  Value[x] = Cardinality(A[x])
    <2>1. ASSUME NEW y \in SUBSET Bit, Below(y, x)
          PROVE  y \in S
      <3>1. PICK b \in x \ y : \A a \in y \ x : a < b
        BY <2>1 DEF Below
      <3>2. ASSUME NEW a \in y
            PROVE  a \in 0 .. k - 1
        <4>1. CASE a \in x
          BY <4>1
        <4>2. CASE a \notin x
          <5>1. a < b /\ a \in Nat /\ b \in 0 .. k - 1
            BY <3>1, <4>2, BitFacts
          <5> QED
            BY <1>1, <5>1
        <4> QED
          BY <4>1, <4>2
      <3> QED
        BY <3>2
    <2>2. {y \in SUBSET Bit : Below(y, x)} = {y \in S : Below(y, x)}
      <3> HIDE DEF S
      <3> QED
        BY <1>4, <2>1
    <2>3. Value[x] = Cardinality({y \in SUBSET Bit : Below(y, x)})
      BY <1>4 DEF Value
    <2> QED
      BY <1>5, <2>2, <2>3
  <1>7. PICK U, B : U = S /\ B = A
    OBVIOUS
  <1> HIDE DEF S, A
  <1>8. /\ IsFiniteSet(U) /\ U \subseteq SUBSET Bit
        /\ \A x \in U : B[x] = {y \in U : Below(y, x)}
    BY <1>3, <1>4, <1>5, <1>7
  <1>9. B \in [U -> SUBSET U]
    BY <1>7 DEF S, A
  <1>10. /\ \A x \in U : x \notin B[x]
         /\ \A x, y \in U : x = y \/ x \in B[y] \/ y \in B[x]
         /\ \A x, y, z \in U : x \in B[y] /\ y \in B[z] => x \in B[z]
    <2>1. \A x, y, z \in U : x \in SUBSET Bit /\ y \in SUBSET Bit /\ z \in SUBSET Bit
      BY <1>8
    <2> QED
      BY <1>8, <2>1, BelowOrder
  <1>11. /\ \A x \in U : Cardinality(B[x]) \in 0 .. Cardinality(U) - 1
         /\ \A x, y \in U : x \in B[y] <=> Cardinality(B[x]) < Cardinality(B[y])
         /\ \A x, y \in U : Cardinality(B[x]) = Cardinality(B[y]) => x = y
         /\ \A v \in 0 .. Cardinality(U) - 1 : \E x \in U : Cardinality(B[x]) = v
    BY <1>8, <1>9, <1>10, Ranks
  <1>12. Cardinality(U) = 2 ^ k /\ 2 ^ k \in Nat
    BY <1>3, <1>7, FS_CardinalityType
  <1>13. \A x \in U : Value[x] = Cardinality(B[x])
    BY <1>6, <1>7
  <1>14. \A x \in U : Value[x] \in 0 .. 2 ^ k - 1
    BY <1>11, <1>12, <1>13
  <1>15. \A v \in 0 .. 2 ^ k - 1 : \E x \in U : Value[x] = v
    BY <1>11, <1>12, <1>13
  <1>16. \A x, y \in U : (Below(x, y) <=> Value[x] < Value[y]) /\ (Value[x] = Value[y] => x = y)
    BY <1>8, <1>11, <1>13
  <1> QED
    BY <1>7, <1>12, <1>14, <1>15, <1>16 DEF S

LEMMA ValueIsInjective ==
  \A x, y \in SUBSET Bit : /\ Value[x] \in Nat
                           /\ Below(x, y) <=> Value[x] < Value[y]
                           /\ Value[x] = Value[y] => x = y
  <1> DEFINE k == 2 * Width
  <1>1. k \in 0 .. 2 * Width /\ Bit = 0 .. k - 1
    BY BitFacts DEF Bit
  <1> HIDE DEF k
  <1>2. /\ \A x \in SUBSET Bit : Value[x] \in 0 .. 2 ^ k - 1
        /\ \A x, y \in SUBSET Bit : (Below(x, y) <=> Value[x] < Value[y]) /\ (Value[x] = Value[y] => x = y)
    BY <1>1, ValueOfWords
  <1> QED
    BY <1>2

LEMMA WordOfValue ==
  ASSUME NEW k \in 0 .. 2 * Width, NEW v \in 0 .. 2 ^ k - 1
  PROVE  Word[v] \in SUBSET (0 .. k - 1) /\ Value[Word[v]] = v
  <1>1. PICK x \in SUBSET (0 .. k - 1) : Value[x] = v
    BY ValueOfWords
  <1>2. x \in SUBSET Bit
    BY BitFacts DEF Bit
  <1>3. v \in 0 .. 2 ^ (2 * Width) - 1
    <2> DEFINE m == 2 * Width
    <2>1. m \in 0 .. 2 * Width /\ Bit = 0 .. m - 1
      BY BitFacts DEF Bit
    <2> HIDE DEF m
    <2>2. Value[x] \in 0 .. 2 ^ m - 1
      BY <1>2, <2>1, ValueOfWords
    <2> QED
      BY <1>1, <2>2 DEF m
  <1>4. Word[v] = CHOOSE y \in SUBSET Bit : Value[y] = v
    BY <1>3 DEF Word
  <1>5. Word[v] \in SUBSET Bit /\ Value[Word[v]] = v
    BY <1>1, <1>2, <1>4
  <1>6. Word[v] = x
    BY <1>1, <1>2, <1>5, ValueIsInjective
  <1> QED
    BY <1>5, <1>6

LEMMA WordIsInverse ==
  ASSUME NEW k \in 0 .. 2 * Width, NEW x \in SUBSET (0 .. k - 1)
  PROVE  Value[x] \in 0 .. 2 ^ k - 1 /\ Word[Value[x]] = x
  <1>1. Value[x] \in 0 .. 2 ^ k - 1
    BY ValueOfWords
  <1>2. PICK v : v = Value[x]
    OBVIOUS
  <1>3. Word[v] \in SUBSET (0 .. k - 1) /\ Value[Word[v]] = v
    BY <1>1, <1>2, WordOfValue
  <1>4. Word[v] = x
    BY <1>2, <1>3, ValueOfWords
  <1> QED
    BY <1>1, <1>2, <1>4
-------------------------------------------------------------------------------
(* The masks share the bits of the index out to the modes. *)

Formed == dims \in DimSets /\ order \in ModeOrders(dims)

LEMMA NumBitsAre ==
  ASSUME NEW d \in 2 .. 2 ^ Width
  PROVE  NumBits(d) \in 1 .. Width /\ d <= 2 ^ NumBits(d)
  <1> DEFINE S == {k \in 0 .. Width : d <= 2 ^ k}
  <1>1. \A k \in 0 .. Width : 2 ^ k \in Nat
    <2>1. \A k \in 0 .. Width : k \in 0 .. 2 * Width
      BY BitFacts
    <2> QED
      BY <2>1, ValueOfWords
  <1>2. Width \in Nat /\ Width \in S
    BY <1>1, BitFacts
  <1>3. PICK U : U = S
    OBVIOUS
  <1>4. PICK m \in U : \A x \in U : m <= x
    BY <1>2, <1>3, LeastNumber
  <1>5. 2 ^ 0 = 1
    <2>1. SUBSET {} = {{}}
      OBVIOUS
    <2>2. Cardinality(SUBSET {}) = 2 ^ 0
      BY FS_EmptySet, FS_SUBSET
    <2> QED
      BY <2>1, <2>2, FS_Singleton
  <1>6. m \in 1 .. Width /\ d <= 2 ^ m
    <2>1. m \in 0 .. Width /\ d <= 2 ^ m
      BY <1>3, <1>4
    <2>2. m # 0
      <3> SUFFICES ASSUME m = 0
                   PROVE  FALSE
        OBVIOUS
      <3>1. d <= 2 ^ 0
        BY <2>1
      <3> QED
        BY <1>5, <3>1
    <2> QED
      BY <2>1, <2>2, BitFacts
  <1>7. 2 ^ (m - 1) < d
    <2>1. m - 1 \in 0 .. Width /\ m - 1 \notin U
      BY <1>4, <1>6, <1>2, <1>3
    <2> QED
      BY <1>1, <1>3, <2>1
  <1>8. NumBits(d) \in 1 .. Width /\ 2 ^ (NumBits(d) - 1) < d /\ d <= 2 ^ NumBits(d)
    BY <1>6, <1>7 DEF NumBits
  <1> QED
    BY <1>8

\* The place of mode n in the order of the turns.
PlaceOf(n) == CHOOSE k \in Mode : order[k] = n

LEMMA FormedFacts ==
  ASSUME Formed
  PROVE  /\ Len(dims) \in Nat /\ Mode = 1 .. Len(dims) /\ DOMAIN dims = Mode
         /\ \A n \in Mode : dims[n] \in 2 .. 2 ^ Width
         /\ order \in [Mode -> Mode] /\ IsFiniteSet(Mode)
         /\ \A n \in Mode : PlaceOf(n) \in Mode /\ order[PlaceOf(n)] = n
         /\ \A k \in Mode : PlaceOf(order[k]) = k
         /\ AllBits(dims) <= 2 * Width
  <1>1. dims \in Seq(2 .. 2 ^ Width) /\ AllBits(dims) <= 2 * Width
    BY FormatAssumption DEF Formed
  <1>2. Len(dims) \in Nat /\ Mode = 1 .. Len(dims) /\ DOMAIN dims = Mode
    BY <1>1 DEF Mode
  <1>3. \A n \in Mode : dims[n] \in 2 .. 2 ^ Width
    <2>1. PICK D : D = 2 .. 2 ^ Width
      OBVIOUS
    <2>2. dims \in Seq(D)
      BY <1>1, <2>1
    <2>3. \A n \in Mode : dims[n] \in D
      BY <1>2, <2>2
    <2> QED
      BY <2>1, <2>3
  <1>4. order \in [Mode -> Mode] /\ \A j, k \in Mode : order[j] = order[k] => j = k
    BY <1>2 DEF Formed, ModeOrders, IsInjective
  <1>5. IsFiniteSet(Mode)
    BY <1>2, FS_Interval
  <1>6. \A n \in Mode : \E k \in Mode : order[k] = n
    <2>1. order \in Injection(Mode, Mode)
      BY <1>4 DEF Injection, IsInjective
    <2>2. order \in Surjection(Mode, Mode)
      BY <1>5, <2>1, FS_Injection
    <2> QED
      BY <2>2 DEF Surjection
  <1>7. \A n \in Mode : PlaceOf(n) \in Mode /\ order[PlaceOf(n)] = n
    BY <1>6 DEF PlaceOf
  <1>8. \A k \in Mode : PlaceOf(order[k]) = k
    BY <1>4, <1>7
  <1> QED
    BY <1>1, <1>2, <1>3, <1>4, <1>5, <1>7, <1>8

\* The turns of mode n.
TurnsOf(n) == {t \in Turn : t[2] = PlaceOf(n)}

LEMMA TurnFacts ==
  ASSUME Formed
  PROVE  /\ IsFiniteSet(Turn)
         /\ \A t \in Turn : t[1] \in Nat /\ t[2] \in Mode /\ t[2] \in Nat /\ t = <<t[1], t[2]>>
         /\ \A n \in Mode : IsFiniteSet(TurnsOf(n)) /\ Cardinality(TurnsOf(n)) = NumBits(dims[n])
         /\ \A t \in Turn : t \in TurnsOf(order[t[2]])
  <1>1. \A t \in Turn : /\ t[1] \in Nat /\ t[2] \in Mode /\ t[2] \in Nat /\ t = <<t[1], t[2]>>
                        /\ t[1] < NumBits(dims[order[t[2]]])
    BY FormedFacts DEF Turn
  <1>2. IsFiniteSet(Turn)
    <2>1. 0 \in Int /\ Width - 1 \in Int
      BY BitFacts
    <2>2. IsFiniteSet((0 .. Width - 1) \X Mode)
      BY <2>1, FormedFacts, FS_Interval, FS_Product
    <2>3. Turn \in SUBSET ((0 .. Width - 1) \X Mode)
      BY DEF Turn
    <2> QED
      BY <2>2, <2>3, FS_Subset
  <1>3. ASSUME NEW n \in Mode
        PROVE  IsFiniteSet(TurnsOf(n)) /\ Cardinality(TurnsOf(n)) = NumBits(dims[n])
    <2> DEFINE k == NumBits(dims[n])
               S == 0 .. k - 1
               f == [l \in S |-> <<l, PlaceOf(n)>>]
    <2>1. k \in 1 .. Width
      BY FormedFacts, NumBitsAre
    <2> HIDE DEF k
    <2>2. IsFiniteSet(S) /\ Cardinality(S) = k
      <3>1. 0 \in Int /\ k - 1 \in Int
        BY <2>1
      <3> QED
        BY <2>1, <3>1, FS_Interval
    <2>3. {f[l] : l \in S} = TurnsOf(n)
      <3>1. PlaceOf(n) \in Mode /\ order[PlaceOf(n)] = n
        BY FormedFacts
      <3>2. \A l : l \in S <=> l \in 0 .. Width - 1 /\ l < k
        BY <2>1, BitFacts
      <3>3. \A t : t \in TurnsOf(n) <=> \E l \in S : t = <<l, PlaceOf(n)>>
        BY <3>1, <3>2 DEF TurnsOf, Turn, k
      <3> QED
        BY <3>3
    <2>4. \A i, j \in S : f[i] = f[j] => i = j
      OBVIOUS
    <2>5. PICK U, g : U = S /\ g = f
      OBVIOUS
    <2> HIDE DEF S, f
    <2>6. IsFiniteSet({g[l] : l \in U}) /\ Cardinality({g[l] : l \in U}) = Cardinality(U)
      BY <2>2, <2>4, <2>5, CountByNames
    <2> QED
      BY <2>2, <2>3, <2>5, <2>6 DEF k
  <1>4. \A t \in Turn : t \in TurnsOf(order[t[2]])
    BY <1>1, FormedFacts DEF TurnsOf
  <1> QED
    BY <1>1, <1>2, <1>3, <1>4

LEMMA TurnsCounted ==
  ASSUME Formed
  PROVE  Cardinality(Turn) = AllBits(dims) /\ AllBits(dims) \in 0 .. 2 * Width
  <1> DEFINE T == [n \in Mode |-> TurnsOf(n)]
             f == [n \in DOMAIN dims |-> NumBits(dims[n])]
             N == Len(dims)
  <1>1. N \in Nat /\ Mode = 1 .. N /\ DOMAIN dims = Mode
    BY FormedFacts
  <1>2. \A n \in 1 .. N : IsFiniteSet(T[n]) /\ f[n] = Cardinality(T[n])
    BY <1>1, TurnFacts
  <1>3. \A m, n \in 1 .. N : m # n => T[m] \cap T[n] = {}
    <2> SUFFICES ASSUME NEW m \in Mode, NEW n \in Mode, m # n
                 PROVE  TurnsOf(m) \cap TurnsOf(n) = {}
      BY <1>1
    <2>1. PlaceOf(m) # PlaceOf(n)
      BY FormedFacts
    <2> QED
      BY <2>1 DEF TurnsOf
  <1>4. \A t : t \in Turn <=> \E n \in 1 .. N : t \in T[n]
    <2>1. ASSUME NEW t \in Turn
          PROVE  \E n \in Mode : t \in T[n]
      <3>1. t \in TurnsOf(order[t[2]]) /\ order[t[2]] \in Mode
        BY TurnFacts, FormedFacts
      <3> QED
        BY <3>1
    <2>2. \A n \in Mode : T[n] \subseteq Turn
      BY DEF TurnsOf
    <2> QED
      BY <1>1, <2>1, <2>2
  <1>5. AllBits(dims) = Sums(f, N)[N]
    BY DEF AllBits
  <1> HIDE DEF T, f, N
  <1>6. PICK B, g, M, U : B = T /\ g = f /\ M = N /\ U = [k \in 0 .. N |-> UNION {T[n] : n \in 1 .. k}]
    OBVIOUS
  <1>7. Sums(g, M)[M] = Cardinality(U[M]) /\ U[M] = Turn
    <2>1. /\ M \in Nat /\ M \in 0 .. M
          /\ \A n \in 1 .. M : IsFiniteSet(B[n]) /\ g[n] = Cardinality(B[n])
          /\ \A m, n \in 1 .. M : m # n => B[m] \cap B[n] = {}
      BY <1>1, <1>2, <1>3, <1>6
    <2>2. \A k \in 0 .. M : \A x : x \in U[k] <=> \E j \in 1 .. k : x \in B[j]
      BY <1>6
    <2>3. \A k \in 0 .. M : Sums(g, M)[k] = Cardinality(U[k])
      BY <2>1, <2>2, SumsCount
    <2>4. U[M] = Turn
      BY <1>4, <1>6, <2>1, <2>2
    <2> QED
      BY <2>1, <2>3, <2>4
  <1>8. Cardinality(Turn) = AllBits(dims)
    BY <1>5, <1>6, <1>7
  <1>9. Cardinality(Turn) \in Nat
    BY TurnFacts, FS_CardinalityType
  <1> QED
    BY <1>8, <1>9, FormedFacts, BitFacts

LEMMA Shifts ==
  ASSUME Formed
  PROVE  /\ \A t \in Turn : shift(t) \in 0 .. AllBits(dims) - 1
         /\ \A s, t \in Turn : shift(s) = shift(t) => s = t
  <1> DEFINE Before(s, t) == s[1] < t[1] \/ (s[1] = t[1] /\ s[2] < t[2])
             A == [t \in Turn |-> {s \in Turn : Before(s, t)}]
  <1>1. \A s, t \in Turn : s = t <=> s[1] = t[1] /\ s[2] = t[2]
    BY TurnFacts
  <1>2. \A t \in Turn : t[1] \in Nat /\ t[2] \in Nat
    BY TurnFacts
  <1>3. \A s, t \in Turn : s \in A[t] <=> Before(s, t)
    OBVIOUS
  <1>4. \A t \in Turn : ~ Before(t, t)
    BY <1>2
  <1>5. \A s, t \in Turn : s = t \/ Before(s, t) \/ Before(t, s)
    BY <1>1, <1>2
  <1>6. \A s, t, u \in Turn : Before(s, t) /\ Before(t, u) => Before(s, u)
    BY <1>2
  <1>7. A \in [Turn -> SUBSET Turn]
    OBVIOUS
  <1>8. \A t \in Turn : shift(t) = Cardinality(A[t])
    BY DEF shift
  <1> HIDE DEF A, Before
  <1>9. PICK B : B = A
    OBVIOUS
  <1>10. /\ B \in [Turn -> SUBSET Turn]
         /\ \A t \in Turn : t \notin B[t]
         /\ \A s, t \in Turn : s = t \/ s \in B[t] \/ t \in B[s]
         /\ \A s, t, u \in Turn : s \in B[t] /\ t \in B[u] => s \in B[u]
    BY <1>3, <1>4, <1>5, <1>6, <1>7, <1>9
  <1>11. /\ \A t \in Turn : Cardinality(B[t]) \in 0 .. Cardinality(Turn) - 1
         /\ \A s, t \in Turn : Cardinality(B[s]) = Cardinality(B[t]) => s = t
    BY <1>10, TurnFacts, Ranks
  <1> QED
    BY <1>8, <1>9, <1>11, TurnsCounted

LEMMA Masks ==
  ASSUME Formed
  PROVE  /\ \A n \in Mode : /\ mode_masks[n] \in SUBSET (0 .. AllBits(dims) - 1)
                            /\ IsFiniteSet(mode_masks[n])
                            /\ Cardinality(mode_masks[n]) = NumBits(dims[n])
         /\ \A m, n \in Mode : m # n => mode_masks[m] \cap mode_masks[n] = {}
  <1>1. \A n \in Mode : mode_masks[n] = {shift(t) : t \in TurnsOf(n)}
    BY DEF mode_masks, MaskOf, PlaceOf, TurnsOf
  <1>2. \A n \in Mode : TurnsOf(n) \subseteq Turn
    BY DEF TurnsOf
  <1>3. ASSUME NEW n \in Mode
        PROVE  IsFiniteSet(mode_masks[n]) /\ Cardinality(mode_masks[n]) = NumBits(dims[n])
    <2> DEFINE f == [t \in Turn |-> shift(t)]
    <2>1. PICK U, g : U = TurnsOf(n) /\ g = f
      OBVIOUS
    <2>2. \A s, t \in U : g[s] = g[t] => s = t
      BY <1>2, <2>1, Shifts
    <2>3. {g[t] : t \in U} = mode_masks[n]
      BY <1>1, <1>2, <2>1
    <2>4. IsFiniteSet(U) /\ Cardinality(U) = NumBits(dims[n])
      BY <2>1, TurnFacts
    <2>5. IsFiniteSet({g[t] : t \in U}) /\ Cardinality({g[t] : t \in U}) = Cardinality(U)
      BY <2>2, <2>4, CountByNames
    <2> QED
      BY <2>3, <2>4, <2>5
  <1>4. \A n \in Mode : mode_masks[n] \in SUBSET (0 .. AllBits(dims) - 1)
    BY <1>1, <1>2, Shifts
  <1>5. ASSUME NEW m \in Mode, NEW n \in Mode, m # n
        PROVE  mode_masks[m] \cap mode_masks[n] = {}
    <2> SUFFICES ASSUME NEW s \in TurnsOf(m), NEW t \in TurnsOf(n), shift(s) = shift(t)
                 PROVE  FALSE
      BY <1>1
    <2>1. s = t
      BY <1>2, Shifts
    <2>2. PlaceOf(m) = PlaceOf(n)
      BY <2>1 DEF TurnsOf
    <2> QED
      BY <1>5, <2>2, FormedFacts
  <1> QED
    BY <1>3, <1>4, <1>5
-------------------------------------------------------------------------------
(* What is deposited in a mask can be extracted again. *)

LEMMA BitRanks ==
  ASSUME NEW y \in SUBSET Nat, IsFiniteSet(y)
  PROVE  /\ \A b \in y : Rank(b, y) \in 0 .. Cardinality(y) - 1
         /\ \A a, b \in y : a < b <=> Rank(a, y) < Rank(b, y)
         /\ \A a, b \in y : Rank(a, y) = Rank(b, y) => a = b
         /\ \A k \in 0 .. Cardinality(y) - 1 : \E b \in y : Rank(b, y) = k
  <1> DEFINE A == [b \in y |-> {a \in y : a < b}]
  <1>1. /\ A \in [y -> SUBSET y]
        /\ \A a, b \in y : a \in A[b] <=> a < b
    OBVIOUS
  <1>2. \A b \in y : Rank(b, y) = Cardinality(A[b])
    BY DEF Rank
  <1> HIDE DEF A
  <1>3. \A a, b \in y : a \in Nat /\ b \in Nat
    OBVIOUS
  <1>4. PICK B : B = A
    OBVIOUS
  <1>5. /\ B \in [y -> SUBSET y]
        /\ \A b \in y : b \notin B[b]
        /\ \A a, b \in y : a = b \/ a \in B[b] \/ b \in B[a]
        /\ \A a, b, c \in y : a \in B[b] /\ b \in B[c] => a \in B[c]
    BY <1>1, <1>3, <1>4
  <1>6. /\ \A b \in y : Cardinality(B[b]) \in 0 .. Cardinality(y) - 1
        /\ \A a, b \in y : a \in B[b] <=> Cardinality(B[a]) < Cardinality(B[b])
        /\ \A a, b \in y : Cardinality(B[a]) = Cardinality(B[b]) => a = b
        /\ \A k \in 0 .. Cardinality(y) - 1 : \E b \in y : Cardinality(B[b]) = k
    BY <1>5, Ranks
  <1> QED
    BY <1>1, <1>2, <1>4, <1>6

LEMMA Extracted ==
  ASSUME NEW y \in SUBSET Nat, IsFiniteSet(y), NEW x \in SUBSET (0 .. Cardinality(y) - 1),
         NEW i, i \cap y = pdep(x, y)
  PROVE  pext(i, y) = x
  <1>1. \A b \in y : b \in i <=> Rank(b, y) \in x
    BY DEF pdep
  <1>2. \A k : k \in pext(i, y) <=> \E b \in y : b \in i /\ k = Rank(b, y)
    BY DEF pext
  <1>3. \A k \in x : \E b \in y : Rank(b, y) = k
    BY BitRanks
  <1>4. ASSUME NEW k
        PROVE  k \in pext(i, y) <=> k \in x
    <2>1. k \in pext(i, y) => k \in x
      BY <1>1, <1>2
    <2>2. k \in x => k \in pext(i, y)
      BY <1>1, <1>2, <1>3
    <2> QED
      BY <2>1, <2>2
  <1> QED
    BY <1>4

\* The coordinates of a nonzero.
Coordinate(c) == \A n \in Mode : c[n] \in 0 .. dims[n] - 1

LEMMA CoordinateBits ==
  ASSUME Formed, NEW c, Coordinate(c), NEW n \in Mode
  PROVE  /\ Word[c[n]] \in SUBSET (0 .. NumBits(dims[n]) - 1)
         /\ NumBits(dims[n]) \in 1 .. Width
         /\ Word[c[n]] \in SUBSET (0 .. Width - 1)
         /\ Value[Word[c[n]]] = c[n]
  <1> DEFINE k == NumBits(dims[n])
  <1>1. dims[n] \in 2 .. 2 ^ Width
    BY FormedFacts
  <1>2. k \in 1 .. Width /\ dims[n] <= 2 ^ k
    BY <1>1, NumBitsAre
  <1> HIDE DEF k
  <1>3. k \in 0 .. 2 * Width
    BY <1>2, BitFacts
  <1>4. 2 ^ k \in Nat
    BY <1>3, ValueOfWords
  <1>5. c[n] \in 0 .. 2 ^ k - 1
    <2>1. c[n] \in 0 .. dims[n] - 1 /\ dims[n] \in Int
      BY <1>1 DEF Coordinate
    <2> QED
      BY <1>2, <1>4, <2>1
  <1>6. Word[c[n]] \in SUBSET (0 .. k - 1) /\ Value[Word[c[n]]] = c[n]
    BY <1>3, <1>5, WordOfValue
  <1>7. 0 .. k - 1 \subseteq 0 .. Width - 1
    BY <1>2, BitFacts
  <1> QED
    BY <1>2, <1>6, <1>7 DEF k

LEMMA LinearBits ==
  ASSUME Formed, NEW c, Coordinate(c)
  PROVE  /\ Linear(c) \in SUBSET (0 .. AllBits(dims) - 1)
         /\ \A n \in Mode : Linear(c) \cap mode_masks[n] = pdep(Word[c[n]], mode_masks[n])
         /\ \A n \in Mode : pext(Linear(c), mode_masks[n]) = Word[c[n]]
  <1>1. \A n \in Mode : pdep(Word[c[n]], mode_masks[n]) \subseteq mode_masks[n]
    BY DEF pdep
  <1>2. Linear(c) \in SUBSET (0 .. AllBits(dims) - 1)
    BY <1>1, Masks DEF Linear
  <1>3. ASSUME NEW n \in Mode
        PROVE  Linear(c) \cap mode_masks[n] = pdep(Word[c[n]], mode_masks[n])
    <2>1. ASSUME NEW b \in mode_masks[n], NEW m \in Mode, b \in pdep(Word[c[m]], mode_masks[m])
          PROVE  m = n
      BY <1>1, <2>1, Masks
    <2> QED
      BY <1>1, <2>1 DEF Linear
  <1>4. ASSUME NEW n \in Mode
        PROVE  pext(Linear(c), mode_masks[n]) = Word[c[n]]
    <2>1. PICK y, x, i : y = mode_masks[n] /\ x = Word[c[n]] /\ i = Linear(c)
      OBVIOUS
    <2>2. y \in SUBSET Nat /\ IsFiniteSet(y) /\ Cardinality(y) = NumBits(dims[n])
      BY <2>1, Masks
    <2>3. x \in SUBSET (0 .. Cardinality(y) - 1)
      BY <2>1, <2>2, CoordinateBits
    <2>4. i \cap y = pdep(x, y)
      BY <1>3, <2>1
    <2>5. pext(i, y) = x
      BY <2>2, <2>3, <2>4, Extracted
    <2> QED
      BY <2>1, <2>5
  <1> QED
    BY <1>2, <1>3, <1>4

\* Different coordinates have different indices.
LEMMA LinearIsInjective ==
  ASSUME Formed, NEW c, NEW d, Coordinate(c), Coordinate(d), DOMAIN c = Mode, DOMAIN d = Mode,
         c = [n \in Mode |-> c[n]], d = [n \in Mode |-> d[n]], Linear(c) = Linear(d)
  PROVE  c = d
  <1>1. \A n \in Mode : Word[c[n]] = Word[d[n]]
    BY LinearBits
  <1>2. \A n \in Mode : c[n] = d[n]
    BY <1>1, CoordinateBits
  <1> QED
    BY <1>2
-------------------------------------------------------------------------------
(* What the blocked format keeps of an index is enough to find the coordinates. *)

LEMMA HalvesOf ==
  ASSUME NEW y \in SUBSET Nat, IsFiniteSet(y)
  PROVE  /\ lhalf(y) \in SUBSET Nat /\ IsFiniteSet(lhalf(y)) /\ Cardinality(lhalf(y)) \in Nat
         /\ uhalf(y) \in SUBSET Nat /\ IsFiniteSet(uhalf(y))
         /\ \A b : b \in lhalf(y) <=> b \in y /\ b < Width
         /\ \A b \in Nat : b \in uhalf(y) <=> b + Width \in y
  <1>1. lhalf(y) \in SUBSET y /\ \A b : b \in lhalf(y) <=> b \in y /\ b < Width
    BY DEF lhalf
  <1>2. IsFiniteSet(lhalf(y)) /\ Cardinality(lhalf(y)) \in Nat
    BY <1>1, FS_Subset, FS_CardinalityType
  <1>3. uhalf(y) \in SUBSET Nat /\ \A b \in Nat : b \in uhalf(y) <=> b + Width \in y
    <2>1. \A b : b \in uhalf(y) <=> \E a \in y : ~ (a < Width) /\ b = a - Width
      BY <1>1 DEF uhalf
    <2>2. \A a \in y : a \in Nat
      OBVIOUS
    <2> QED
      BY <2>1, <2>2, BitFacts
  <1>4. IsFiniteSet(uhalf(y))
    <2> DEFINE U == y \ lhalf(y)
               f == [b \in U |-> b - Width]
    <2>1. IsFiniteSet(U) /\ uhalf(y) = {f[b] : b \in U}
      <3>1. U \in SUBSET y
        OBVIOUS
      <3>2. uhalf(y) = {f[b] : b \in U}
        BY DEF uhalf
      <3> QED
        BY <3>1, <3>2, FS_Subset
    <2>2. \A a, b \in U : f[a] = f[b] => a = b
      <3>1. \A a \in U : a \in Nat /\ f[a] = a - Width
        OBVIOUS
      <3> QED
        BY <3>1, BitFacts
    <2>3. PICK V, g : V = U /\ g = f
      OBVIOUS
    <2> HIDE DEF U, f
    <2>4. IsFiniteSet({g[b] : b \in V})
      BY <2>1, <2>2, <2>3, CountByNames
    <2> QED
      BY <2>1, <2>3, <2>4
  <1> QED
    BY <1>1, <1>2, <1>3, <1>4

\* A bit of the upper half comes after those of the lower one.
LEMMA RankOfHalves ==
  ASSUME NEW y \in SUBSET Nat, IsFiniteSet(y), NEW b \in y
  PROVE  /\ b < Width => Rank(b, y) \in 0 .. Cardinality(lhalf(y)) - 1
         /\ ~ (b < Width) => Rank(b, y) = Cardinality(lhalf(y)) + Rank(b - Width, uhalf(y))
  <1>1. ASSUME b < Width
        PROVE  Rank(b, y) \in 0 .. Cardinality(lhalf(y)) - 1
    <2>1. {a \in y : a < b} = {a \in lhalf(y) : a < b}
      <3>1. \A a \in y : a < b => a < Width
        BY <1>1, BitFacts
      <3> QED
        BY <3>1, HalvesOf
    <2>2. Rank(b, y) = Rank(b, lhalf(y))
      BY <2>1 DEF Rank
    <2>3. b \in lhalf(y)
      BY <1>1, HalvesOf
    <2>4. PICK L : L = lhalf(y)
      OBVIOUS
    <2>5. L \in SUBSET Nat /\ IsFiniteSet(L)
      BY <2>4, HalvesOf
    <2>6. Rank(b, L) \in 0 .. Cardinality(L) - 1
      BY <2>3, <2>4, <2>5, BitRanks
    <2> QED
      BY <2>2, <2>4, <2>6
  <1>2. ASSUME ~ (b < Width)
        PROVE  Rank(b, y) = Cardinality(lhalf(y)) + Rank(b - Width, uhalf(y))
    <2> DEFINE S == {a \in y : ~ (a < Width) /\ a < b}
               f == [a \in S |-> a - Width]
    <2>1. S \in SUBSET y /\ \A a : a \in S <=> a \in y /\ ~ (a < Width) /\ a < b
      OBVIOUS
    <2>2. {a \in y : a < b} = lhalf(y) \cup S
      <3>1. \A a \in y : a < Width => a < b
        BY <1>2, BitFacts
      <3> QED
        BY <3>1, HalvesOf
    <2>3. lhalf(y) \cap S = {}
      BY HalvesOf
    <2>4. {f[a] : a \in S} = {a \in uhalf(y) : a < b - Width}
      <3>1. ASSUME NEW a \in S
            PROVE  a - Width \in uhalf(y) /\ a - Width < b - Width
        <4>1. a \in y /\ a \in Nat /\ b \in Nat /\ ~ (a < Width) /\ a < b
          BY <2>1
        <4>2. a - Width \in Nat /\ (a - Width) + Width = a /\ a - Width < b - Width
          BY <4>1, BitFacts
        <4> QED
          BY <4>1, <4>2, HalvesOf
      <3>2. ASSUME NEW a \in uhalf(y), a < b - Width
            PROVE  a + Width \in S /\ (a + Width) - Width = a
        <4>1. a \in Nat /\ a + Width \in y /\ b \in Nat
          BY HalvesOf
        <4>2. ~ (a + Width < Width) /\ a + Width < b /\ (a + Width) - Width = a
          BY <3>2, <4>1, BitFacts
        <4> QED
          BY <2>1, <4>1, <4>2
      <3>3. \A a : a \in {f[x] : x \in S} <=> \E x \in S : a = x - Width
        OBVIOUS
      <3> HIDE DEF S, f
      <3> QED
        BY <3>1, <3>2, <3>3
    <2>5. \A a, c \in S : f[a] = f[c] => a = c
      <3>1. \A a \in S : a \in Nat /\ f[a] = a - Width
        OBVIOUS
      <3> QED
        BY <3>1, BitFacts
    <2>6. IsFiniteSet(S)
      BY <2>1, FS_Subset
    <2>7. PICK V, g : V = S /\ g = f
      OBVIOUS
    <2> HIDE DEF S, f
    <2>8. Cardinality({g[a] : a \in V}) = Cardinality(V)
      BY <2>5, <2>6, <2>7, CountByNames
    <2>9. Rank(b - Width, uhalf(y)) = Cardinality(S)
      BY <2>4, <2>7, <2>8 DEF Rank
    <2>10. Rank(b, y) = Cardinality(lhalf(y) \cup S)
      BY <2>2 DEF Rank
    <2>11. Cardinality(lhalf(y) \cup S) = Cardinality(lhalf(y)) + Cardinality(S)
      <3>1. PICK L, V1 : L = lhalf(y) /\ V1 = S
        OBVIOUS
      <3>2. IsFiniteSet(L) /\ IsFiniteSet(V1) /\ L \cap V1 = {}
        BY <2>3, <2>6, <3>1, HalvesOf
      <3>3. /\ Cardinality(L \cup V1) = Cardinality(L) + Cardinality(V1) - Cardinality(L \cap V1)
            /\ Cardinality(L) \in Nat /\ Cardinality(V1) \in Nat /\ Cardinality({}) = 0
        BY <3>2, FS_Union, FS_CardinalityType, FS_EmptySet
      <3>4. Cardinality(L \cap V1) = 0
        BY <3>2, <3>3
      <3> QED
        BY <3>1, <3>3, <3>4
    <2> QED
      BY <2>9, <2>10, <2>11
  <1> QED
    BY <1>1, <1>2

\* A coordinate is its bits in the lower half of the index, and those in the upper one.
LEMMA PextOfHalves ==
  ASSUME NEW y \in SUBSET Nat, IsFiniteSet(y), Cardinality(y) <= Width,
         NEW i \in SUBSET Nat, IsFiniteSet(i), NEW t, t = Cardinality(lhalf(y))
  PROVE  pext(i, y) = (pext(i, y) \cap 0 .. t - 1) \cup LeftShift(pext(uhalf(i), uhalf(y)), t)
  <1>1. t \in Nat /\ Cardinality(y) \in Nat
    BY HalvesOf, FS_CardinalityType
  <1>2. \A k : k \in pext(i, y) <=> \E b \in y : b \in i /\ k = Rank(b, y)
    BY DEF pext
  <1>3. \A k : k \in pext(uhalf(i), uhalf(y)) <=>
                 \E a \in uhalf(y) : a \in uhalf(i) /\ k = Rank(a, uhalf(y))
    BY DEF pext
  <1>4. \A k : k \in LeftShift(pext(uhalf(i), uhalf(y)), t) <=>
                 k < Width /\ \E r \in pext(uhalf(i), uhalf(y)) : k = r + t
    BY DEF LeftShift, lhalf
  <1>5. \A a \in uhalf(y) : Rank(a, uhalf(y)) \in Nat
    <2>1. PICK H : H = uhalf(y)
      OBVIOUS
    <2>2. H \in SUBSET Nat /\ IsFiniteSet(H)
      BY <2>1, HalvesOf
    <2>3. \A a \in H : Rank(a, H) \in 0 .. Cardinality(H) - 1
      BY <2>2, BitRanks
    <2>4. \A a \in H : Rank(a, H) \in Nat
      BY <2>2, <2>3, FS_CardinalityType
    <2> QED
      BY <2>1, <2>4
  <1>6. ASSUME NEW k \in pext(i, y)
        PROVE  k \in 0 .. t - 1 \/ k \in LeftShift(pext(uhalf(i), uhalf(y)), t)
    <2>1. PICK b \in y : b \in i /\ k = Rank(b, y)
      BY <1>2
    <2>2. k < Width
      <3>1. k \in 0 .. Cardinality(y) - 1
        BY <2>1, BitRanks
      <3> QED
        BY <1>1, <3>1, BitFacts
    <2>3. CASE b < Width
      BY <2>1, <2>3, RankOfHalves
    <2>4. CASE ~ (b < Width)
      <3>1. b \in Nat /\ b - Width \in Nat /\ (b - Width) + Width = b
        BY <2>4, BitFacts
      <3>2. b - Width \in uhalf(y) /\ b - Width \in uhalf(i)
        BY <2>1, <3>1, HalvesOf
      <3>3. k = t + Rank(b - Width, uhalf(y))
        BY <2>1, <2>4, RankOfHalves
      <3>4. k = Rank(b - Width, uhalf(y)) + t
        BY <1>1, <1>5, <3>2, <3>3
      <3>5. Rank(b - Width, uhalf(y)) \in pext(uhalf(i), uhalf(y))
        BY <1>3, <3>2
      <3> QED
        BY <1>4, <2>2, <3>4, <3>5
    <2> QED
      BY <2>3, <2>4
  <1>7. ASSUME NEW k \in LeftShift(pext(uhalf(i), uhalf(y)), t)
        PROVE  k \in pext(i, y)
    <2>1. PICK a \in uhalf(y) : a \in uhalf(i) /\ k = Rank(a, uhalf(y)) + t
      BY <1>3, <1>4
    <2>2. a \in Nat /\ a + Width \in y /\ a + Width \in i
      BY <2>1, HalvesOf
    <2>3. ~ (a + Width < Width) /\ (a + Width) - Width = a
      BY <2>2, BitFacts
    <2>4. Rank(a + Width, y) = t + Rank(a, uhalf(y))
      BY <2>2, <2>3, RankOfHalves
    <2>5. Rank(a + Width, y) = k
      BY <1>1, <1>5, <2>1, <2>4
    <2> QED
      BY <1>2, <2>2, <2>5
  <1> QED
    BY <1>6, <1>7

-------------------------------------------------------------------------------
(* The low bits of the modes have places of their own in the shortened index. *)

LEMMA Positions ==
  ASSUME Formed
  PROVE  /\ \A n \in Mode : /\ truncated_bitcounts[n] \in Nat /\ mode_pos[n] \in Nat
                            /\ mode_pos[n] + truncated_bitcounts[n] <= Width
         /\ \A m, n \in Mode : m < n => mode_pos[m] + truncated_bitcounts[m] <= mode_pos[n]
  <1> DEFINE A == [n \in Mode |-> lhalf(mode_masks[n])]
             f == truncated_bitcounts
             N == Len(dims)
  <1>1. N \in Nat /\ Mode = 1 .. N
    BY FormedFacts
  <1>2. \A n \in Mode : mode_masks[n] \in SUBSET Nat /\ IsFiniteSet(mode_masks[n])
    BY Masks
  <1>3. \A n \in 1 .. N : IsFiniteSet(A[n]) /\ f[n] = Cardinality(A[n]) /\ f[n] \in Nat
                          /\ \A b : b \in A[n] <=> b \in mode_masks[n] /\ b < Width
    BY <1>1, <1>2, HalvesOf DEF truncated_bitcounts
  <1>4. \A m, n \in 1 .. N : m # n => A[m] \cap A[n] = {}
    BY <1>1, <1>3, Masks
  <1>5. \A n \in Mode : mode_pos[n] = Sums(f, N)[n - 1]
    BY DEF mode_pos
  <1> HIDE DEF A, f, N
  <1>6. PICK B, g, M, U : B = A /\ g = f /\ M = N /\ U = [k \in 0 .. N |-> UNION {A[n] : n \in 1 .. k}]
    OBVIOUS
  <1>7. /\ M \in Nat /\ M \in 0 .. M
        /\ \A n \in 1 .. M : IsFiniteSet(B[n]) /\ g[n] = Cardinality(B[n])
        /\ \A m, n \in 1 .. M : m # n => B[m] \cap B[n] = {}
    BY <1>1, <1>3, <1>4, <1>6
  <1>8. \A k \in 0 .. M : \A x : x \in U[k] <=> \E j \in 1 .. k : x \in B[j]
    BY <1>6
  <1>9. \A k \in 0 .. M : IsFiniteSet(U[k]) /\ Sums(g, M)[k] = Cardinality(U[k])
    BY <1>7, <1>8, SumsCount
  <1>10. U[M] \subseteq 0 .. Width - 1
    <2>1. \A n \in 1 .. N : \A b \in A[n] : b \in Nat /\ b < Width
      BY <1>1, <1>2, <1>3
    <2> QED
      BY <1>6, <1>7, <1>8, <2>1, BitFacts
  <1>11. Sums(g, M)[M] <= Width
    <2>1. IsFiniteSet(0 .. Width - 1) /\ Cardinality(0 .. Width - 1) = Width
      <3>1. 0 \in Int /\ Width - 1 \in Int /\ Width \in Nat
        BY BitFacts
      <3> QED
        BY <3>1, FS_Interval
    <2>2. Cardinality(U[M]) <= Cardinality(0 .. Width - 1)
      BY <1>10, <2>1, FS_Subset
    <2> QED
      BY <1>7, <1>9, <2>1, <2>2
  <1>12. \A n \in 1 .. M : g[n] \in Nat
    BY <1>3, <1>6
  <1>13. Sums(g, M) \in [0 .. M -> Nat] /\ \A k \in 1 .. M : Sums(g, M)[k] = Sums(g, M)[k - 1] + g[k]
    BY <1>7, <1>12, SumsAre
  <1>14. \A j, k \in 0 .. M : j <= k => Sums(g, M)[j] <= Sums(g, M)[k]
    BY <1>7, <1>12, SumsGrow
  <1>15. PICK s : s = Sums(g, M)
    OBVIOUS
  <1>16. \A n \in 1 .. M : /\ g[n] \in Nat /\ s[n - 1] \in Nat
                           /\ s[n - 1] + g[n] = s[n] /\ s[n] \in Nat /\ s[n] <= Width
    BY <1>7, <1>11, <1>12, <1>13, <1>14, <1>15, BitFacts
  <1>17. \A m, n \in 1 .. M : m < n => s[m] <= s[n - 1]
    BY <1>7, <1>14, <1>15
  <1>18. \A n \in Mode : n \in 1 .. M /\ f[n] = g[n] /\ mode_pos[n] = s[n - 1]
    BY <1>1, <1>5, <1>6, <1>15
  <1> QED
    BY <1>16, <1>17, <1>18 DEF f

LEMMA LowBits ==
  ASSUME Formed, NEW i, NEW n \in Mode
  PROVE  RightShift(Relinearised(i), mode_pos[n]) \cap X_mode_masks[n]
           = pext(i, mode_masks[n]) \cap X_mode_masks[n]
  <1> DEFINE P(m) == pext(i, mode_masks[m]) \cap X_mode_masks[m]
  <1>1. \A m \in Mode : X_mode_masks[m] = 0 .. truncated_bitcounts[m] - 1
    BY DEF X_mode_masks
  <1>2. \A x : x \in Relinearised(i) <=> \E m \in Mode : \E b \in P(m) : x = b + mode_pos[m] /\ x < Width
    BY DEF Relinearised, LeftShift, lhalf
  <1>3. \A x : x \in RightShift(Relinearised(i), mode_pos[n]) <=>
                 \E a \in Relinearised(i) : a >= mode_pos[n] /\ x = a - mode_pos[n]
    BY DEF RightShift
  <1>4. \A m \in Mode : \A b \in P(m) : b \in Nat /\ b < truncated_bitcounts[m]
    BY <1>1, Positions
  <1>5. ASSUME NEW x \in P(n)
        PROVE  x \in RightShift(Relinearised(i), mode_pos[n])
    <2>1. /\ x + mode_pos[n] < Width /\ x + mode_pos[n] >= mode_pos[n]
          /\ x = (x + mode_pos[n]) - mode_pos[n]
      BY <1>4, Positions, BitFacts
    <2>2. x + mode_pos[n] \in Relinearised(i)
      BY <1>2, <2>1
    <2> QED
      BY <1>3, <2>1, <2>2
  <1>6. ASSUME NEW x \in X_mode_masks[n], x \in RightShift(Relinearised(i), mode_pos[n])
        PROVE  x \in P(n)
    <2>1. PICK m \in Mode : \E b \in P(m) : b + mode_pos[m] >= mode_pos[n] /\ x = (b + mode_pos[m]) - mode_pos[n]
      BY <1>2, <1>3, <1>6
    <2>2. PICK b \in P(m) : b + mode_pos[m] >= mode_pos[n] /\ x = (b + mode_pos[m]) - mode_pos[n]
      BY <2>1
    <2>3. b \in Nat /\ b < truncated_bitcounts[m] /\ x \in Nat /\ x < truncated_bitcounts[n]
      BY <1>1, <1>4, Positions
    <2>4. m \in Int /\ n \in Int
      BY FormedFacts
    <2>5. m = n
      <3>1. ~ (m < n)
        <4>1. m < n => mode_pos[m] + truncated_bitcounts[m] <= mode_pos[n]
          BY Positions
        <4> QED
          BY <2>2, <2>3, <4>1, Positions
      <3>2. ~ (n < m)
        <4>1. n < m => mode_pos[n] + truncated_bitcounts[n] <= mode_pos[m]
          BY Positions
        <4> QED
          BY <2>2, <2>3, <4>1, Positions
      <3> QED
        BY <2>4, <3>1, <3>2
    <2>6. x = b
      BY <2>2, <2>3, <2>5, Positions
    <2> QED
      BY <2>5, <2>6
  <1> QED
    BY <1>5, <1>6

\* The length of the histogram and the place of a nonzero in it.
UpperBits == IF AllBits(dims) > Width THEN AllBits(dims) - Width ELSE 0

LEMMA UpperFacts ==
  ASSUME Formed
  PROVE  /\ UpperBits \in 0 .. Width /\ UpperBits \in 0 .. 2 * Width /\ block_count = 2 ^ UpperBits
         /\ block_count \in Nat
         /\ \A x \in SUBSET (0 .. AllBits(dims) - 1) : uhalf(x) \in SUBSET (0 .. UpperBits - 1)
  <1>1. AllBits(dims) \in 0 .. 2 * Width
    BY TurnsCounted
  <1>2. UpperBits \in 0 .. Width /\ UpperBits \in 0 .. 2 * Width
    BY <1>1, BitFacts DEF UpperBits
  <1>3. block_count = 2 ^ UpperBits
    BY DEF block_count, UpperBits
  <1>4. ASSUME NEW x \in SUBSET (0 .. AllBits(dims) - 1), NEW b \in uhalf(x)
        PROVE  b \in 0 .. UpperBits - 1
    <2>1. PICK a \in x : ~ (a < Width) /\ b = a - Width
      BY DEF uhalf, lhalf
    <2>2. a \in Nat /\ a <= AllBits(dims) - 1
      BY <1>1, <1>4
    <2> QED
      BY <1>1, <2>1, <2>2, BitFacts DEF UpperBits
  <1> QED
    BY <1>2, <1>3, <1>4, ValueOfWords

\* A kernel finds the coordinate of a nonzero.
LEMMA Decoding ==
  ASSUME Formed, NEW c, Coordinate(c), NEW n \in Mode, NEW b, NEW blk,
         b = Value[uhalf(Linear(c))], blk.block_coords = block_coords(b)
  PROVE  Value[alt_pext(Relinearised(Linear(c)), n, blk)] = c[n]
  <1>1. PICK i, y, t : i = Linear(c) /\ y = mode_masks[n] /\ t = truncated_bitcounts[n]
    OBVIOUS
  <1>2. t = Cardinality(lhalf(y)) /\ X_mode_masks[n] = 0 .. t - 1
    BY <1>1 DEF truncated_bitcounts, X_mode_masks
  <1>3. y \in SUBSET Nat /\ IsFiniteSet(y) /\ Cardinality(y) <= Width
    <2>1. NumBits(dims[n]) <= Width
      BY CoordinateBits
    <2> QED
      BY <1>1, <2>1, Masks
  <1>4. i \in SUBSET Nat /\ IsFiniteSet(i) /\ i \in SUBSET (0 .. AllBits(dims) - 1)
    <2>1. i \in SUBSET (0 .. AllBits(dims) - 1)
      BY <1>1, LinearBits
    <2>2. 0 \in Int /\ AllBits(dims) - 1 \in Int
      BY TurnsCounted
    <2>3. IsFiniteSet(0 .. AllBits(dims) - 1)
      BY <2>2, FS_Interval
    <2>4. IsFiniteSet(i)
      BY <2>1, <2>3, FS_Subset
    <2>5. i \in SUBSET Nat
      BY <2>1, <2>2
    <2> QED
      BY <2>1, <2>4, <2>5
  <1>5. Word[b] = uhalf(i)
    <2>1. PICK k, x : k = UpperBits /\ x = uhalf(i)
      OBVIOUS
    <2>2. k \in 0 .. 2 * Width /\ x \in SUBSET (0 .. k - 1)
      BY <1>4, <2>1, UpperFacts
    <2>3. Word[Value[x]] = x
      BY <2>2, WordIsInverse
    <2> QED
      BY <1>1, <2>1, <2>3
  <1>6. blk.block_coords[n] = LeftShift(pext(uhalf(i), uhalf(y)), t)
    BY <1>1, <1>5 DEF block_coords
  <1>7. RightShift(Relinearised(i), mode_pos[n]) \cap X_mode_masks[n] = pext(i, y) \cap 0 .. t - 1
    BY <1>1, <1>2, LowBits
  <1>8. pext(i, y) = (pext(i, y) \cap 0 .. t - 1) \cup LeftShift(pext(uhalf(i), uhalf(y)), t)
    BY <1>2, <1>3, <1>4, PextOfHalves
  <1>9. alt_pext(Relinearised(i), n, blk) = pext(i, y)
    BY <1>6, <1>7, <1>8 DEF alt_pext
  <1>10. pext(i, y) = Word[c[n]] /\ Value[Word[c[n]]] = c[n]
    BY <1>1, LinearBits, CoordinateBits
  <1> QED
    BY <1>1, <1>9, <1>10
-------------------------------------------------------------------------------
(* The indices in their order, and the places of the histogram in it. *)

LEMMA DownClosed ==
  ASSUME NEW n \in Nat, NEW U \in SUBSET (1 .. n), \A i \in U : \A j \in 1 .. n : j <= i => j \in U
  PROVE  Cardinality(U) \in 0 .. n /\ \A i \in 1 .. n : i \in U <=> i <= Cardinality(U)
  <1>1. CASE U = {}
    BY <1>1, FS_EmptySet
  <1>2. CASE U # {}
    <2>1. U \in SUBSET (0 .. n)
      OBVIOUS
    <2>2. PICK m \in U : \A x \in U : x <= m
      BY <1>2, <2>1, GreatestNumber
    <2>3. U = 1 .. m
      <3>1. m \in 1 .. n /\ m \in Nat
        OBVIOUS
      <3>2. \A x \in U : x \in 1 .. m
        BY <2>2, <3>1
      <3>3. \A x \in 1 .. m : x \in 1 .. n /\ x <= m
        BY <3>1
      <3>4. \A x \in 1 .. m : x \in U
        BY <3>3
      <3> QED
        BY <3>2, <3>4
    <2>4. 1 \in Int /\ m \in Int /\ m >= 1 /\ m <= n
      BY <2>2
    <2>5. Cardinality(U) = m
      BY <2>3, <2>4, FS_Interval
    <2> QED
      BY <2>3, <2>4, <2>5
  <1> QED
    BY <1>1, <1>2

LEMMA SortedIs ==
  ASSUME NEW S \in SUBSET SUBSET Bit, IsFiniteSet(S), NEW n, n = Cardinality(S)
  PROVE  /\ n \in Nat /\ Sorted(S) \in [1 .. n -> S]
         /\ \A i, j \in 1 .. n : i < j => Value[Sorted(S)[i]] < Value[Sorted(S)[j]]
         /\ \A i, j \in 1 .. n : Sorted(S)[i] = Sorted(S)[j] => i = j
         /\ \A x \in S : \E i \in 1 .. n : Sorted(S)[i] = x
  <1> DEFINE A == [x \in S |-> {y \in S : Below(y, x)}]
             Ascending(s) == \A i, j \in DOMAIN s : i < j => Value[s[i]] < Value[s[j]]
  <1>1. n \in Nat
    BY FS_CardinalityType
  <1>2. PICK B : B = A
    OBVIOUS
  <1>3. /\ B \in [S -> SUBSET S]
        /\ \A x, y \in S : y \in B[x] <=> Below(y, x)
    BY <1>2
  <1>4. /\ \A x \in S : x \notin B[x]
        /\ \A x, y \in S : x = y \/ x \in B[y] \/ y \in B[x]
        /\ \A x, y, z \in S : x \in B[y] /\ y \in B[z] => x \in B[z]
    BY <1>3, BelowOrder
  <1>5. /\ \A x, y \in S : x \in B[y] <=> Cardinality(B[x]) < Cardinality(B[y])
        /\ \A x, y \in S : Cardinality(B[x]) = Cardinality(B[y]) => x = y
        /\ \A k \in 0 .. Cardinality(S) - 1 : \E x \in S : Cardinality(B[x]) = k
    BY <1>3, <1>4, Ranks
  <1> DEFINE s == [i \in 1 .. n |-> CHOOSE x \in S : Cardinality(B[x]) = i - 1]
  <1>6. \A i \in 1 .. n : s[i] \in S /\ Cardinality(B[s[i]]) = i - 1
    <2>1. \A i \in 1 .. n : i - 1 \in 0 .. Cardinality(S) - 1
      BY <1>1
    <2> QED
      BY <1>5, <2>1
  <1>7. s \in [1 .. n -> S] /\ DOMAIN s = 1 .. n
    BY <1>6
  <1> HIDE DEF s
  <1>8. Ascending(s)
    <2> SUFFICES ASSUME NEW i \in 1 .. n, NEW j \in 1 .. n, i < j
                 PROVE  Value[s[i]] < Value[s[j]]
      BY <1>7
    <2>1. Cardinality(B[s[i]]) < Cardinality(B[s[j]])
      BY <1>1, <1>6
    <2>2. s[i] \in B[s[j]]
      BY <1>5, <1>6, <2>1
    <2>3. Below(s[i], s[j])
      BY <1>3, <1>6, <2>2
    <2>4. s[i] \in SUBSET Bit /\ s[j] \in SUBSET Bit
      BY <1>6
    <2> QED
      BY <2>3, <2>4, ValueIsInjective
  <1>9. Sorted(S) \in [1 .. n -> S] /\ Ascending(Sorted(S))
    BY <1>7, <1>8 DEF Sorted
  <1> HIDE DEF Ascending
  <1>10. PICK t : t = Sorted(S)
    OBVIOUS
  <1>11. t \in [1 .. n -> S] /\ DOMAIN t = 1 .. n
    BY <1>9, <1>10
  <1>12. \A i, j \in 1 .. n : i < j => Value[t[i]] < Value[t[j]]
    BY <1>9, <1>10, <1>11 DEF Ascending
  <1>13. \A i \in 1 .. n : Value[t[i]] \in Nat
    <2>1. \A i \in 1 .. n : t[i] \in SUBSET Bit
      BY <1>11
    <2> QED
      BY <2>1, ValueIsInjective
  <1>14. \A i, j \in 1 .. n : t[i] = t[j] => i = j
    <2> SUFFICES ASSUME NEW i \in 1 .. n, NEW j \in 1 .. n, t[i] = t[j], i < j
                 PROVE  FALSE
      BY <1>1
    <2> QED
      BY <1>12, <1>13
  <1>15. t \in Surjection(1 .. n, S)
    <2>1. t \in Injection(1 .. n, S)
      BY <1>11, <1>14 DEF Injection, IsInjective
    <2>2. Cardinality(1 .. n) = Cardinality(S)
      BY <1>1, FS_Interval
    <2> QED
      BY <2>1, <2>2, FS_Injection
  <1>16. \A x \in S : \E i \in 1 .. n : t[i] = x
    BY <1>15 DEF Surjection
  <1> QED
    BY <1>1, <1>10, <1>11, <1>12, <1>14, <1>16

\* The order of the indices is one of their upper halves.
LEMMA UpperIsMonotone ==
  ASSUME NEW x \in SUBSET Bit, NEW y \in SUBSET Bit, Value[x] <= Value[y]
  PROVE  /\ uhalf(x) \in SUBSET Bit /\ uhalf(y) \in SUBSET Bit
         /\ Value[uhalf(x)] \in Nat /\ Value[uhalf(y)] \in Nat
         /\ Value[uhalf(x)] <= Value[uhalf(y)]
  <1>1. \A b : b \in Bit <=> b \in Nat /\ b <= 2 * Width - 1
    BY BitFacts DEF Bit
  <1>2. ASSUME NEW z \in SUBSET Bit
        PROVE  uhalf(z) \in SUBSET Bit /\ \A b \in Nat : b \in uhalf(z) <=> b + Width \in z
    <2>1. z \in SUBSET Nat /\ IsFiniteSet(z)
      <3>1. \A b \in z : b \in Nat
        BY <1>1
      <3>2. IsFiniteSet(z)
        BY BitFacts, FS_Subset
      <3> QED
        BY <3>1, <3>2
    <2>2. uhalf(z) \in SUBSET Nat /\ \A b \in Nat : b \in uhalf(z) <=> b + Width \in z
      BY <2>1, HalvesOf
    <2>3. \A b \in uhalf(z) : b \in Bit
      <3> SUFFICES ASSUME NEW b \in uhalf(z)
                   PROVE  b \in Bit
        OBVIOUS
      <3>1. b \in Nat /\ b + Width \in Bit
        BY <2>2
      <3> QED
        BY <1>1, <3>1, BitFacts
    <2> QED
      BY <2>2, <2>3
  <1>3. uhalf(x) \in SUBSET Bit /\ uhalf(y) \in SUBSET Bit
    BY <1>2
  <1>4. ~ Below(uhalf(y), uhalf(x))
    <2> SUFFICES ASSUME Below(uhalf(y), uhalf(x))
                 PROVE  FALSE
      OBVIOUS
    <2>1. PICK b \in uhalf(x) : b \notin uhalf(y) /\ \A a \in uhalf(y) \ uhalf(x) : a < b
      BY DEF Below
    <2>2. b \in Nat /\ b + Width \in x /\ b + Width \notin y
      BY <1>1, <1>2, <2>1
    <2>3. ASSUME NEW a \in y \ x
          PROVE  a < b + Width
      <3>1. a \in Nat
        BY <1>1
      <3>2. CASE a < Width
        BY <2>2, <3>1, <3>2, BitFacts
      <3>3. CASE ~ (a < Width)
        <4>1. a - Width \in Nat /\ (a - Width) + Width = a
          BY <3>1, <3>3, BitFacts
        <4>2. a - Width \in uhalf(y) \ uhalf(x)
          BY <1>2, <4>1
        <4>3. a - Width < b
          BY <2>1, <4>2
        <4> QED
          BY <2>2, <3>1, <4>3, BitFacts
      <3> QED
        BY <3>2, <3>3
    <2>4. Below(y, x)
      BY <2>2, <2>3 DEF Below
    <2>5. Value[y] < Value[x] /\ Value[x] \in Nat /\ Value[y] \in Nat
      BY <2>4, ValueIsInjective
    <2> QED
      BY <2>5
  <1>5. PICK u, v : u = uhalf(x) /\ v = uhalf(y)
    OBVIOUS
  <1>6. u \in SUBSET Bit /\ v \in SUBSET Bit /\ ~ Below(v, u)
    BY <1>3, <1>4, <1>5
  <1>7. Value[u] \in Nat /\ Value[v] \in Nat /\ ~ (Value[v] < Value[u])
    BY <1>6, ValueIsInjective
  <1> QED
    BY <1>3, <1>5, <1>7

-------------------------------------------------------------------------------
(* The nonzeros of a tensor and their indices. *)

Tensor == Formed /\ tensor \in Tensors(dims)

Indices == {Linear(c) : c \in tensor}

\* The place of an index in the histogram.
Place(x) == Value[uhalf(x)]

LEMMA TensorFacts ==
  ASSUME Tensor
  PROVE  /\ \A c \in tensor : Coordinate(c) /\ DOMAIN c = Mode /\ c = [n \in Mode |-> c[n]]
         /\ Indices \in SUBSET SUBSET Bit /\ IsFiniteSet(Indices)
         /\ \A x \in Indices : x \in SUBSET (0 .. AllBits(dims) - 1)
         /\ Cardinality(Indices) = Cardinality(tensor) /\ Cardinality(tensor) \in Nat \ {0}
         /\ \A c, d \in tensor : Linear(c) = Linear(d) => c = d
  <1>0. Formed
    BY DEF Tensor
  <1>1. PICK k \in 1 .. MaxNonzeros : /\ \A c \in tensor : /\ c \in [1 .. Len(dims) -> 0 .. 2 ^ Width - 1]
                                                           /\ \A n \in 1 .. Len(dims) : c[n] < dims[n]
                                      /\ Cardinality(tensor) = k
    BY DEF Tensor, Tensors, kSubset
  <1>2. Cardinality(tensor) \in Nat \ {0}
    BY <1>1, FormatAssumption
  <1>3. ASSUME NEW c \in tensor
        PROVE  Coordinate(c) /\ DOMAIN c = Mode /\ c = [n \in Mode |-> c[n]]
    <2>1. c \in [Mode -> 0 .. 2 ^ Width - 1] /\ \A n \in Mode : c[n] < dims[n]
      BY <1>0, <1>1, FormedFacts
    <2>2. 2 ^ Width \in Nat
      <3>1. Width \in 0 .. 2 * Width
        BY BitFacts
      <3> QED
        BY <3>1, ValueOfWords
    <2>3. \A n \in Mode : c[n] \in Nat /\ dims[n] \in Nat
      BY <1>0, <2>1, <2>2, FormedFacts
    <2> QED
      BY <2>1, <2>3 DEF Coordinate
  <1>4. \A c \in tensor : Linear(c) \in SUBSET (0 .. AllBits(dims) - 1)
    BY <1>0, <1>3, LinearBits
  <1>5. 0 .. AllBits(dims) - 1 \subseteq Bit
    BY <1>0, TurnsCounted, BitFacts DEF Bit
  <1>6. \A c, d \in tensor : Linear(c) = Linear(d) => c = d
    BY <1>0, <1>3, LinearIsInjective
  <1>7. Indices \in SUBSET SUBSET Bit /\ IsFiniteSet(Indices)
    <2>1. Indices \in SUBSET SUBSET Bit
      BY <1>4, <1>5 DEF Indices
    <2>2. IsFiniteSet(SUBSET Bit)
      BY BitFacts, FS_SUBSET
    <2> QED
      BY <2>1, <2>2, FS_Subset
  <1>8. Cardinality(Indices) = Cardinality(tensor)
    <2> DEFINE f == [c \in tensor |-> Linear(c)]
    <2>1. PICK g, T, I : g = f /\ T = tensor /\ I = Indices
      OBVIOUS
    <2>2. g \in [T -> I] /\ (\A c, d \in T : g[c] = g[d] => c = d) /\ \A x \in I : \E c \in T : g[c] = x
      BY <1>6, <2>1 DEF Indices
    <2>3. g \in Injection(T, I) /\ g \in Surjection(T, I)
      BY <2>2 DEF Injection, Surjection, IsInjective
    <2>4. Cardinality(T) = Cardinality(I)
      BY <1>7, <2>1, <2>3, FS_Injection
    <2> QED
      BY <2>1, <2>4
  <1> QED
    BY <1>2, <1>3, <1>4, <1>6, <1>7, <1>8 DEF Indices

\* The indices are sorted.
InOrder == Tensor /\ idx = Sorted(Indices)

LEMMA OrderFacts ==
  ASSUME InOrder
  PROVE  /\ idx \in Seq(SUBSET Bit) /\ Len(idx) = Cardinality(tensor) /\ Len(idx) \in Nat \ {0}
         /\ DOMAIN idx = 1 .. Len(idx)
         /\ \A i \in 1 .. Len(idx) : idx[i] \in SUBSET Bit /\ \E c \in tensor : idx[i] = Linear(c)
         /\ \A c \in tensor : \E i \in 1 .. Len(idx) : idx[i] = Linear(c)
         /\ \A i \in 1 .. Len(idx) : Place(idx[i]) \in 0 .. block_count - 1 /\ Place(idx[i]) \in Nat
         /\ \A i, j \in 1 .. Len(idx) : i <= j => Place(idx[i]) <= Place(idx[j])
  <1>0. Tensor /\ Formed /\ idx = Sorted(Indices)
    BY DEF InOrder, Tensor
  <1>1. PICK S, n : S = Indices /\ n = Cardinality(tensor)
    OBVIOUS
  <1>2. S \in SUBSET SUBSET Bit /\ IsFiniteSet(S) /\ n = Cardinality(S) /\ n \in Nat \ {0}
    BY <1>0, <1>1, TensorFacts
  <1>3. /\ Sorted(S) \in [1 .. n -> S]
        /\ \A i, j \in 1 .. n : i < j => Value[Sorted(S)[i]] < Value[Sorted(S)[j]]
        /\ \A x \in S : \E i \in 1 .. n : Sorted(S)[i] = x
    BY <1>2, SortedIs
  <1>4. /\ idx \in [1 .. n -> S]
        /\ \A i, j \in 1 .. n : i < j => Value[idx[i]] < Value[idx[j]]
        /\ \A x \in S : \E i \in 1 .. n : idx[i] = x
    BY <1>0, <1>1, <1>3
  <1>5. idx \in Seq(SUBSET Bit) /\ Len(idx) = n /\ DOMAIN idx = 1 .. n
    <2>1. PICK D : D = SUBSET Bit
      OBVIOUS
    <2>2. idx \in [1 .. n -> D]
      BY <1>2, <1>4, <2>1
    <2>3. idx \in Seq(D) /\ Len(idx) = n /\ DOMAIN idx = 1 .. n
      BY <1>2, <2>2
    <2> QED
      BY <2>1, <2>3
  <1>6. \A i \in 1 .. n : idx[i] \in S /\ idx[i] \in SUBSET Bit
    BY <1>2, <1>4
  <1>7. ASSUME NEW i \in 1 .. n
        PROVE  Place(idx[i]) \in 0 .. block_count - 1 /\ Place(idx[i]) \in Nat
    <2>1. idx[i] \in SUBSET (0 .. AllBits(dims) - 1)
      BY <1>0, <1>1, <1>6, TensorFacts
    <2>2. uhalf(idx[i]) \in SUBSET (0 .. UpperBits - 1)
      BY <1>0, <2>1, UpperFacts
    <2>3. PICK k, x : k = UpperBits /\ x = uhalf(idx[i])
      OBVIOUS
    <2>4. k \in 0 .. 2 * Width /\ x \in SUBSET (0 .. k - 1) /\ block_count = 2 ^ k
      BY <1>0, <2>2, <2>3, UpperFacts
    <2>5. Value[x] \in 0 .. 2 ^ k - 1 /\ 2 ^ k \in Nat
      BY <2>4, ValueOfWords
    <2> QED
      BY <2>3, <2>4, <2>5 DEF Place
  <1>8. ASSUME NEW i \in 1 .. n, NEW j \in 1 .. n, i <= j
        PROVE  Place(idx[i]) <= Place(idx[j])
    <2>1. Value[idx[i]] \in Nat /\ Value[idx[j]] \in Nat
      BY <1>6, ValueIsInjective
    <2>2. Value[idx[i]] <= Value[idx[j]]
      <3>1. CASE i = j
        BY <2>1, <3>1
      <3>2. CASE i < j
        <4>1. Value[idx[i]] < Value[idx[j]]
          BY <1>4, <3>2
        <4> QED
          BY <2>1, <4>1
      <3> QED
        BY <1>2, <1>8, <3>1, <3>2
    <2> QED
      BY <1>6, <2>2, UpperIsMonotone DEF Place
  <1>9. \A i \in 1 .. n : \E c \in tensor : idx[i] = Linear(c)
    BY <1>1, <1>6 DEF Indices
  <1>10. \A c \in tensor : \E i \in 1 .. n : idx[i] = Linear(c)
    BY <1>1, <1>4 DEF Indices
  <1> QED
    BY <1>1, <1>2, <1>5, <1>6, <1>7, <1>8, <1>9, <1>10

\* The histogram of the sorted indices.
Histogram == [b \in 1 .. block_count |-> Cardinality({i \in DOMAIN idx : Value[uhalf(idx[i])] = b - 1})]

\* A nonzero is one of the first prefix[k] when its place in the histogram is before k.
LEMMA PrefixFacts ==
  ASSUME InOrder, NEW sums, sums = Sums(Histogram, block_count)
  PROVE  /\ \A b \in 1 .. block_count : Histogram[b] \in Nat
         /\ block_count \in Nat /\ sums[0] = 0 /\ sums[block_count] = Len(idx)
         /\ \A k \in 0 .. block_count : sums[k] \in 0 .. Len(idx) /\ sums[k] \in Nat
         /\ \A k \in 0 .. block_count - 1 : sums[k + 1] = sums[k] + Histogram[k + 1]
         /\ \A k \in 0 .. block_count : \A i \in 1 .. Len(idx) : i <= sums[k] <=> Place(idx[i]) < k
  <1> DEFINE A == [b \in 1 .. block_count |-> {i \in 1 .. Len(idx) : Place(idx[i]) = b - 1}]
             U == [k \in 0 .. block_count |-> {i \in 1 .. Len(idx) : Place(idx[i]) < k}]
  <1>0. Formed /\ block_count \in Nat
    BY UpperFacts DEF InOrder, Tensor
  <1>1. Len(idx) \in Nat /\ DOMAIN idx = 1 .. Len(idx)
        /\ \A i \in 1 .. Len(idx) : Place(idx[i]) \in 0 .. block_count - 1 /\ Place(idx[i]) \in Nat
    BY OrderFacts
  <1>2. \A b \in 1 .. block_count : IsFiniteSet(A[b]) /\ Histogram[b] = Cardinality(A[b])
    <2>1. IsFiniteSet(1 .. Len(idx))
      BY <1>1, FS_Interval
    <2>2. \A b \in 1 .. block_count : A[b] \in SUBSET (1 .. Len(idx))
      OBVIOUS
    <2>3. \A b \in 1 .. block_count : Histogram[b] = Cardinality(A[b])
      BY <1>1 DEF Histogram, Place
    <2> QED
      BY <2>1, <2>2, <2>3, FS_Subset
  <1>3. \A b, c \in 1 .. block_count : b # c => A[b] \cap A[c] = {}
    OBVIOUS
  <1>4. \A k \in 0 .. block_count : \A i : i \in U[k] <=> i \in 1 .. Len(idx) /\ Place(idx[i]) < k
    OBVIOUS
  <1>5. \A b \in 1 .. block_count : \A i : i \in A[b] <=> i \in 1 .. Len(idx) /\ Place(idx[i]) = b - 1
    OBVIOUS
  <1> HIDE DEF A, U
  <1>6. \A k \in 0 .. block_count : \A i : i \in U[k] <=> \E j \in 1 .. k : i \in A[j]
    <2> SUFFICES ASSUME NEW k \in 0 .. block_count, NEW i
                 PROVE  i \in U[k] <=> \E j \in 1 .. k : i \in A[j]
      OBVIOUS
    <2>1. ASSUME i \in U[k]
          PROVE  \E j \in 1 .. k : i \in A[j]
      <3>1. /\ i \in 1 .. Len(idx) /\ Place(idx[i]) \in Nat /\ Place(idx[i]) < k
            /\ Place(idx[i]) + 1 \in 1 .. k /\ Place(idx[i]) + 1 \in 1 .. block_count
            /\ Place(idx[i]) = (Place(idx[i]) + 1) - 1
        BY <1>0, <1>1, <1>4, <2>1
      <3>2. i \in A[Place(idx[i]) + 1]
        BY <1>5, <3>1
      <3> QED
        BY <3>1, <3>2
    <2>2. ASSUME NEW j \in 1 .. k, i \in A[j]
          PROVE  i \in U[k]
      <3>1. j \in 1 .. block_count /\ j - 1 < k
        BY <1>0
      <3> QED
        BY <1>4, <1>5, <2>2, <3>1
    <2> QED
      BY <2>1, <2>2
  <1>7. PICK B, f, M, V : B = A /\ f = Histogram /\ M = block_count /\ V = U
    OBVIOUS
  <1>8. /\ M \in Nat /\ M \in 0 .. M
        /\ \A b \in 1 .. M : IsFiniteSet(B[b]) /\ f[b] = Cardinality(B[b])
        /\ \A b, c \in 1 .. M : b # c => B[b] \cap B[c] = {}
        /\ \A k \in 0 .. M : \A i : i \in V[k] <=> \E j \in 1 .. k : i \in B[j]
    BY <1>0, <1>2, <1>3, <1>6, <1>7
  <1>9. \A k \in 0 .. M : Sums(f, M)[k] = Cardinality(V[k])
    BY <1>8, SumsCount
  <1>10. \A b \in 1 .. M : f[b] \in Nat
    BY <1>8, FS_CardinalityType
  <1>11. Sums(f, M)[0] = 0 /\ \A k \in 1 .. M : Sums(f, M)[k] = Sums(f, M)[k - 1] + f[k]
    BY <1>8, <1>10, SumsAre
  <1>12. \A k \in 0 .. block_count : sums[k] = Cardinality(U[k])
    BY <1>7, <1>9
  <1>13. ASSUME NEW k \in 0 .. block_count
         PROVE  sums[k] \in 0 .. Len(idx) /\ \A i \in 1 .. Len(idx) : i <= sums[k] <=> Place(idx[i]) < k
    <2>1. PICK n, W : n = Len(idx) /\ W = U[k]
      OBVIOUS
    <2>2. n \in Nat /\ W \in SUBSET (1 .. n)
      BY <1>1, <1>4, <2>1
    <2>3. \A i \in W : \A j \in 1 .. n : j <= i => j \in W
      <3> SUFFICES ASSUME NEW i \in W, NEW j \in 1 .. n, j <= i
                   PROVE  j \in W
        OBVIOUS
      <3>1. i \in 1 .. n /\ Place(idx[i]) < k
        BY <1>4, <2>1
      <3>2. Place(idx[j]) <= Place(idx[i]) /\ Place(idx[i]) \in Nat /\ Place(idx[j]) \in Nat
        BY <2>1, <3>1, OrderFacts
      <3>3. Place(idx[j]) < k
        BY <1>0, <3>1, <3>2
      <3> QED
        BY <1>4, <2>1, <3>3
    <2>4. Cardinality(W) \in 0 .. n /\ \A i \in 1 .. n : i \in W <=> i <= Cardinality(W)
      BY <2>2, <2>3, DownClosed
    <2>5. sums[k] = Cardinality(W)
      BY <1>12, <2>1
    <2> QED
      BY <1>4, <2>1, <2>4, <2>5
  <1>14. sums[block_count] = Len(idx)
    <2>1. block_count \in 0 .. block_count
      BY <1>0
    <2>2. sums[block_count] \in 0 .. Len(idx)
      BY <1>13, <2>1
    <2>3. CASE Len(idx) = 0
      BY <2>2, <2>3
    <2>4. CASE Len(idx) # 0
      <3>1. Len(idx) \in 1 .. Len(idx)
        BY <1>1, <2>4
      <3>2. Place(idx[Len(idx)]) < block_count
        BY <1>0, <1>1, <3>1
      <3>3. Len(idx) <= sums[block_count]
        BY <1>13, <2>1, <3>1, <3>2
      <3> QED
        BY <1>1, <2>2, <3>3
    <2> QED
      BY <2>3, <2>4
  <1>15. \A k \in 0 .. block_count - 1 : sums[k + 1] = sums[k] + Histogram[k + 1]
    <2> SUFFICES ASSUME NEW k \in 0 .. block_count - 1
                 PROVE  sums[k + 1] = sums[k] + Histogram[k + 1]
      OBVIOUS
    <2>1. k + 1 \in 1 .. block_count /\ (k + 1) - 1 = k
      BY <1>0
    <2> QED
      BY <1>7, <1>11, <2>1
  <1> QED
    BY <1>0, <1>1, <1>7, <1>10, <1>11, <1>13, <1>14, <1>15
-------------------------------------------------------------------------------
(* The inductive invariant. *)

Parts == [b \in 1 .. block_count |-> PartsOf(Histogram[b], max)]

PartSums == Sums(Parts, block_count)

\* The nonzeros that are in a block.
Filled == LET sizes == [k \in DOMAIN blocks |-> blocks[k].nnz] IN Sums(sizes, Len(blocks))[Len(blocks)]

\* The blocks made at this place of the histogram.
Made == Len(blocks) - PartSums[block]

\* The nonzeros of a block are all of one place of the histogram, and it has the
\* coordinates of that place.
OfOnePlace(b) ==
  /\ b.nnz <= max /\ b.offset + b.nnz <= Len(idx)
  /\ \E p \in 0 .. block_count - 1 :
       /\ b.block_coords = block_coords(p)
       /\ \A j \in 1 .. b.nnz : Place(idx[b.offset + j]) = p

\* The nonzeros are in blocks as far as the loops have come, with as many blocks as
\* were counted for the places that are behind.
Cut ==
  /\ Made \in Nat /\ stride = Made * max
  /\ block = block_count => Made = 0 /\ Filled = Len(idx)
  /\ block < block_count =>
       /\ Made > 0 => (Made - 1) * max < prefix[block + 1] - prefix[block]
       /\ stride < prefix[block + 1] - prefix[block] => Filled = prefix[block] + stride
       /\ stride >= prefix[block + 1] - prefix[block] => Filled = prefix[block + 1]
  /\ \A i \in 1 .. Filled : \E k \in DOMAIN blocks : \E j \in 1 .. blocks[k].nnz :
       i = blocks[k].offset + j

Counted ==
  max > 0 /\ prefix = Sums(Histogram, block_count) /\ total = PartSums[block_count]

Block == [offset : Nat, nnz : Nat \ {0}, block_coords : [Mode -> SUBSET (0 .. Width - 1)]]

FormatInv ==
  /\ Tensor /\ max \in Nat
  /\ pc \in {"alto", "count", "relinearise", "split", "done"}
  /\ pc = "alto" => idx = <<>>
  /\ pc # "alto" => InOrder
  /\ pc \in {"alto", "count"} => total = 0
  /\ pc \in {"relinearise", "split", "done"} => Counted
  /\ pc \in {"alto", "count", "relinearise"} =>
       coords = <<>> /\ block = 0 /\ stride = 0 /\ blocks = <<>>
  /\ pc \in {"split", "done"} =>
       /\ coords = [i \in DOMAIN idx |-> Relinearised(idx[i])]
       /\ Cut /\ \A k \in DOMAIN blocks : OfOnePlace(blocks[k])
  /\ pc = "done" => block = block_count
  /\ block \in 0 .. block_count /\ stride \in Nat /\ blocks \in Seq(Block)

-------------------------------------------------------------------------------
(* Parts of at most m nonzeros. *)

LEMMA DividedBy ==
  ASSUME NEW n \in Nat, NEW d \in Nat \ {0}
  PROVE  /\ n \div d \in Nat /\ n % d \in 0 .. d - 1
         /\ n = (n \div d) * d + (n % d)
  <1>0. d \in Nat /\ d > 0
    OBVIOUS
  <1>1. n \div d \in Nat /\ n % d \in 0 .. d - 1
    BY <1>0
  <1>2. d * (n \div d) <= n /\ n - d * (n \div d) = n % d
    BY <1>0
  <1> QED
    BY <1>0, <1>1, <1>2

LEMMA LessTimes == ASSUME NEW m \in Nat, NEW n \in Nat, NEW d \in Nat, m < n
                   PROVE  m * d \in Nat /\ n * d \in Nat /\ m * d + d <= n * d
  <1>1. PICK k \in Nat : n = m + 1 + k
    <2>1. n - m - 1 \in Nat /\ n = m + 1 + (n - m - 1)
      OBVIOUS
    <2> QED
      BY <2>1
  <1>2. n * d = m * d + d + k * d /\ k * d \in Nat /\ m * d \in Nat
    BY <1>1
  <1> QED
    BY <1>2

LEMMA PartsAre ==
  ASSUME NEW nnz \in Nat, NEW m \in Nat \ {0}
  PROVE  /\ PartsOf(nnz, m) \in Nat
         /\ \A q \in Nat : (q > 0 => (q - 1) * m < nnz) => q <= PartsOf(nnz, m)
         /\ \A q \in Nat : (q > 0 => (q - 1) * m < nnz) /\ nnz <= q * m => q = PartsOf(nnz, m)
  <1> DEFINE p == (nnz + m - 1) \div m
             r == (nnz + m - 1) % m
  <1>1. nnz + m - 1 \in Nat
    OBVIOUS
  <1>2. p \in Nat /\ r \in 0 .. m - 1 /\ nnz + m - 1 = p * m + r
    BY <1>1, DividedBy
  <1>3. PartsOf(nnz, m) = p
    BY DEF PartsOf
  <1> HIDE DEF p, r
  <1>4. p * m \in Nat
    BY <1>2
  <1>5. nnz <= p * m /\ p * m < nnz + m
    BY <1>2, <1>4
  <1>6. ASSUME NEW q \in Nat, q > 0 => (q - 1) * m < nnz
        PROVE  q <= p
    <2> SUFFICES ASSUME p < q
                 PROVE  FALSE
      BY <1>2
    <2>1. q - 1 \in Nat /\ p <= q - 1 /\ q > 0
      BY <1>2
    <2>2. (q - 1) * m < nnz /\ (q - 1) * m \in Nat
      BY <1>6, <2>1
    <2>3. p * m <= (q - 1) * m
      <3>1. CASE p = q - 1
        BY <1>4, <3>1
      <3>2. CASE p < q - 1
        <4>1. p * m + m <= (q - 1) * m
          BY <1>2, <2>1, <3>2, LessTimes
        <4> QED
          BY <1>4, <2>2, <4>1
      <3> QED
        BY <1>2, <2>1, <3>1, <3>2
    <2> QED
      BY <1>4, <1>5, <2>2, <2>3
  <1>7. ASSUME NEW q \in Nat, nnz <= q * m
        PROVE  p <= q
    <2> SUFFICES ASSUME q < p
                 PROVE  FALSE
      BY <1>2
    <2>1. q * m + m <= p * m /\ q * m \in Nat
      BY <1>2, LessTimes
    <2> QED
      BY <1>4, <1>5, <1>7, <2>1
  <1>8. \A q \in Nat : (q > 0 => (q - 1) * m < nnz) /\ nnz <= q * m => q = p
    BY <1>2, <1>6, <1>7
  <1> QED
    BY <1>2, <1>3, <1>6, <1>8

LEMMA PartSumsAre ==
  ASSUME InOrder, max \in Nat, max > 0
  PROVE  /\ block_count \in Nat /\ PartSums[0] = 0
         /\ \A b \in 0 .. block_count : PartSums[b] \in Nat /\ PartSums[b] <= PartSums[block_count]
         /\ \A b \in 0 .. block_count - 1 :
              PartSums[b + 1] = PartSums[b] + PartsOf(Histogram[b + 1], max)
  <1>1. block_count \in Nat /\ \A b \in 1 .. block_count : Histogram[b] \in Nat
    BY PrefixFacts
  <1>2. \A b \in 1 .. block_count : Parts[b] \in Nat /\ Parts[b] = PartsOf(Histogram[b], max)
    <2>1. max \in Nat \ {0}
      OBVIOUS
    <2> QED
      BY <1>1, <2>1, PartsAre DEF Parts
  <1>3. PICK M, f, s : M = block_count /\ f = Parts /\ s = PartSums
    OBVIOUS
  <1>4. s = Sums(f, M) /\ M \in Nat /\ \A b \in 1 .. M : f[b] \in Nat
    BY <1>1, <1>2, <1>3 DEF PartSums
  <1>5. s \in [0 .. M -> Nat] /\ s[0] = 0 /\ \A b \in 1 .. M : s[b] = s[b - 1] + f[b]
    BY <1>4, SumsAre
  <1>6. \A j, k \in 0 .. M : j <= k => s[j] <= s[k]
    BY <1>4, SumsGrow
  <1>7. \A b \in 0 .. M : s[b] \in Nat /\ s[b] <= s[M]
    BY <1>4, <1>5, <1>6
  <1>8. ASSUME NEW b \in 0 .. M - 1
        PROVE  s[b + 1] = s[b] + f[b + 1] /\ b + 1 \in 1 .. M
    <2>1. b + 1 \in 1 .. M /\ (b + 1) - 1 = b
      BY <1>4
    <2> QED
      BY <1>5, <2>1
  <1> QED
    BY <1>1, <1>2, <1>3, <1>5, <1>7, <1>8

LEMMA SumsStep ==
  ASSUME NEW N \in Nat, NEW f, NEW g, \A k \in 1 .. N + 1 : g[k] \in Nat, \A k \in 1 .. N : f[k] = g[k]
  PROVE  Sums(f, N)[N] \in Nat /\ Sums(g, N + 1)[N + 1] = Sums(f, N)[N] + g[N + 1]
  <1>1. N + 1 \in Nat /\ N <= N + 1 /\ N \in 0 .. N /\ N + 1 \in 1 .. N + 1 /\ (N + 1) - 1 = N
    OBVIOUS
  <1>2. PICK M : M = N + 1
    OBVIOUS
  <1>3. M \in Nat /\ N <= M /\ M \in 1 .. M /\ M - 1 = N /\ N \in 0 .. M
    BY <1>1, <1>2
  <1>4. \A k \in 1 .. M : g[k] \in Nat
    BY <1>2
  <1>5. \A k \in 0 .. N : Sums(f, N)[k] = Sums(g, M)[k]
    BY <1>3, <1>4, SumsAgree
  <1>6. Sums(g, M) \in [0 .. M -> Nat] /\ \A k \in 1 .. M : Sums(g, M)[k] = Sums(g, M)[k - 1] + g[k]
    BY <1>3, <1>4, SumsAre
  <1>7. Sums(g, M)[M] = Sums(g, M)[N] + g[M] /\ Sums(g, M)[N] \in Nat
    BY <1>3, <1>6
  <1> QED
    BY <1>1, <1>2, <1>5, <1>7

\* The words of the format are words of an integer.
LEMMA FormatWords ==
  ASSUME Formed
  PROVE  /\ \A i : Relinearised(i) \in SUBSET (0 .. Width - 1)
         /\ \A b : block_coords(b) \in [Mode -> SUBSET (0 .. Width - 1)]
  <1>1. ASSUME NEW i
        PROVE  Relinearised(i) \in SUBSET (0 .. Width - 1)
    <2>1. \A x \in Relinearised(i) : \E m \in Mode : \E b \in X_mode_masks[m] : x = b + mode_pos[m] /\ x < Width
      BY DEF Relinearised, LeftShift, lhalf
    <2>2. \A m \in Mode : mode_pos[m] \in Nat /\ \A b \in X_mode_masks[m] : b \in Nat
      BY Positions DEF X_mode_masks
    <2> QED
      BY <2>1, <2>2, BitFacts
  <1>2. ASSUME NEW w, NEW n \in Mode
        PROVE  LeftShift(pext(w, uhalf(mode_masks[n])), truncated_bitcounts[n]) \in SUBSET (0 .. Width - 1)
    <2>1. PICK y, t : y = uhalf(mode_masks[n]) /\ t = truncated_bitcounts[n]
      OBVIOUS
    <2>2. y \in SUBSET Nat /\ IsFiniteSet(y) /\ t \in Nat
      <3>1. mode_masks[n] \in SUBSET Nat /\ IsFiniteSet(mode_masks[n])
        BY Masks
      <3>2. uhalf(mode_masks[n]) \in SUBSET Nat /\ IsFiniteSet(uhalf(mode_masks[n]))
        BY <3>1, HalvesOf
      <3> QED
        BY <2>1, <3>2, Positions
    <2>3. \A x \in LeftShift(pext(w, y), t) : x < Width /\ \E r \in pext(w, y) : x = r + t
      BY DEF LeftShift, lhalf
    <2>4. \A r \in pext(w, y) : r \in Nat
      <3>1. \A r \in pext(w, y) : \E b \in y : r = Rank(b, y)
        BY DEF pext
      <3>2. \A b \in y : Rank(b, y) \in 0 .. Cardinality(y) - 1
        BY <2>2, BitRanks
      <3> QED
        BY <2>2, <3>1, <3>2, FS_CardinalityType
    <2>5. \A x \in LeftShift(pext(w, y), t) : x \in 0 .. Width - 1
      BY <2>2, <2>3, <2>4, BitFacts
    <2> QED
      BY <2>1, <2>5
  <1>3. ASSUME NEW b
        PROVE  block_coords(b) \in [Mode -> SUBSET (0 .. Width - 1)]
    <2>1. PICK w : w = Word[b]
      OBVIOUS
    <2> QED
      BY <1>2, <2>1 DEF block_coords
  <1> QED
    BY <1>1, <1>3

LEMMA PlacesAre == Formed => \A n \in Mode : PlaceOf(n) \in Mode /\ order[PlaceOf(n)] = n
  BY FormedFacts

\* The masks and all that is computed from them stay when the modes and their order do.
LEMMA SameFormat ==
  ASSUME Formed, dims' = dims, order' = order
  PROVE  /\ Mode' = Mode /\ block_count' = block_count /\ Block' = Block
         /\ \A i : Relinearised(i)' = Relinearised(i)
         /\ \A b : block_coords(b)' = block_coords(b)
         /\ \A c : Linear(c)' = Linear(c)
  <1>1. Mode' = Mode
    BY DEF Mode
  <1>2. block_count' = block_count
    BY DEF block_count
  <1>3. Formed'
    BY DEF Formed
  <1>4. \A n \in Mode : PlaceOf(n)' = PlaceOf(n)
    <2>1. (\A n \in Mode : PlaceOf(n) \in Mode /\ order[PlaceOf(n)] = n)'
      BY <1>3, PlacesAre, PTL
    <2>2. \A k \in Mode : PlaceOf(order[k]) = k
      BY FormedFacts
    <2> QED
      BY <1>1, <2>1, <2>2
  <1>5. Turn' = Turn
    BY <1>1 DEF Turn
  <1>6. \A t : shift(t)' = shift(t)
    BY <1>5 DEF shift
  <1>7. \A n \in Mode : MaskOf(PlaceOf(n))' = MaskOf(PlaceOf(n))
    BY <1>4, <1>5, <1>6 DEF MaskOf
  <1>8. mode_masks' = mode_masks
    BY <1>1, <1>7 DEF mode_masks, PlaceOf
  <1>9. truncated_bitcounts' = truncated_bitcounts
    BY <1>1, <1>8 DEF truncated_bitcounts
  <1>10. mode_pos' = mode_pos
    BY <1>1, <1>9 DEF mode_pos
  <1>11. X_mode_masks' = X_mode_masks
    BY <1>1, <1>9 DEF X_mode_masks
  <1>12. \A i : Relinearised(i)' = Relinearised(i)
    BY <1>1, <1>8, <1>10, <1>11 DEF Relinearised
  <1>13. \A b : block_coords(b)' = block_coords(b)
    BY <1>1, <1>8, <1>9 DEF block_coords
  <1>14. \A c : Linear(c)' = Linear(c)
    BY <1>1, <1>8 DEF Linear
  <1> QED
    BY <1>1, <1>2, <1>12, <1>13, <1>14 DEF Block

-------------------------------------------------------------------------------
(* The invariant holds at first, and every step keeps it. *)

LEMMA SameOrder ==
  ASSUME InOrder, dims' = dims, order' = order, tensor' = tensor, idx' = idx
  PROVE  InOrder' /\ Tensor' /\ Histogram' = Histogram /\ block_count' = block_count
  <1>1. Formed
    BY DEF InOrder, Tensor
  <1>2. block_count' = block_count /\ \A c : Linear(c)' = Linear(c)
    BY <1>1, SameFormat
  <1>3. Tensor'
    BY DEF InOrder, Tensor, Formed
  <1>4. Indices' = Indices
    BY <1>2 DEF Indices
  <1>5. InOrder'
    BY <1>3, <1>4 DEF InOrder
  <1>6. Histogram' = Histogram
    BY <1>2 DEF Histogram
  <1> QED
    BY <1>2, <1>3, <1>5, <1>6

LEMMA SameParts ==
  ASSUME InOrder, dims' = dims, order' = order, tensor' = tensor, idx' = idx, max' = max
  PROVE  PartSums' = PartSums
  <1>1. Histogram' = Histogram /\ block_count' = block_count
    BY SameOrder
  <1>2. Parts' = Parts
    BY <1>1 DEF Parts
  <1> QED
    BY <1>1, <1>2 DEF PartSums

LEMMA FormatInvInit == Init => FormatInv
  <1> SUFFICES ASSUME Init
               PROVE  FormatInv
    OBVIOUS
  <1>1. Formed /\ Tensor
    BY DEF Init, Formed, Tensor
  <1>2. max \in Nat
    BY FormatAssumption DEF Init
  <1>3. block_count \in Nat
    BY <1>1, UpperFacts
  <1>4. block \in 0 .. block_count /\ stride \in Nat /\ blocks \in Seq(Block)
    BY <1>3 DEF Init
  <1> QED
    BY <1>1, <1>2, <1>4 DEF Init, FormatInv

LEMMA AltoKeeps == FormatInv /\ Alto => FormatInv'
  <1> SUFFICES ASSUME FormatInv, Alto
               PROVE  FormatInv'
    OBVIOUS
  <1>1. Tensor /\ Formed /\ dims' = dims /\ order' = order /\ tensor' = tensor
    BY DEF Alto, FormatInv, Tensor
  <1>2. Block' = Block /\ block_count' = block_count /\ \A c : Linear(c)' = Linear(c)
    BY <1>1, SameFormat
  <1>3. Tensor'
    BY <1>1 DEF Tensor, Formed
  <1>4. Indices' = Indices
    BY <1>1, <1>2 DEF Indices
  <1>5. InOrder'
    BY <1>3, <1>4 DEF Alto, InOrder, Indices
  <1>6. /\ pc' = "count" /\ max' \in Nat /\ total' = 0
        /\ coords' = <<>> /\ block' = 0 /\ stride' = 0 /\ blocks' = <<>>
        /\ block' \in 0 .. block_count' /\ stride' \in Nat /\ blocks' \in Seq(Block')
    BY <1>2 DEF Alto, FormatInv
  <1> QED
    BY <1>3, <1>5, <1>6 DEF FormatInv

LEMMA CountKeeps == FormatInv /\ Count => FormatInv'
  <1> SUFFICES ASSUME FormatInv, Count
               PROVE  FormatInv'
    OBVIOUS
  <1>1. InOrder /\ Formed /\ dims' = dims /\ order' = order /\ tensor' = tensor /\ idx' = idx
    BY DEF Count, FormatInv, InOrder, Tensor
  <1>2. Block' = Block /\ block_count' = block_count
    BY <1>1, SameFormat
  <1>3. InOrder' /\ Tensor' /\ Histogram' = Histogram
    BY <1>1, SameOrder
  <1> DEFINE largest == IF max = 0 THEN Len(idx) ELSE max
             parts == [b \in 1 .. block_count |-> PartsOf(Histogram[b], largest)]
  <1>4. /\ max' = largest /\ prefix' = Sums(Histogram, block_count)
        /\ total' = Sums(parts, block_count)[block_count]
    BY DEF Count, Histogram
  <1>5. max' \in Nat /\ max' > 0
    <2>1. max \in Nat /\ Len(idx) \in Nat \ {0}
      BY <1>1, OrderFacts DEF FormatInv
    <2> QED
      BY <1>4, <2>1
  <1>6. Parts' = parts
    BY <1>2, <1>3, <1>4 DEF Parts
  <1> HIDE DEF largest, parts
  <1>7. Counted'
    BY <1>2, <1>3, <1>4, <1>5, <1>6 DEF Counted, PartSums
  <1>8. /\ pc' = "relinearise"
        /\ coords' = <<>> /\ block' = 0 /\ stride' = 0 /\ blocks' = <<>>
        /\ block' \in 0 .. block_count' /\ stride' \in Nat /\ blocks' \in Seq(Block')
    BY <1>2 DEF Count, FormatInv
  <1> QED
    BY <1>3, <1>5, <1>7, <1>8 DEF FormatInv

LEMMA RelineariseKeeps == FormatInv /\ Relinearise => FormatInv'
  <1> SUFFICES ASSUME FormatInv, Relinearise
               PROVE  FormatInv'
    OBVIOUS
  <1>1. /\ InOrder /\ Formed /\ dims' = dims /\ order' = order /\ tensor' = tensor /\ idx' = idx
        /\ max' = max /\ prefix' = prefix /\ total' = total
    BY DEF Relinearise, FormatInv, InOrder, Tensor
  <1>2. Block' = Block /\ block_count' = block_count /\ \A i : Relinearised(i)' = Relinearised(i)
    BY <1>1, SameFormat
  <1>3. InOrder' /\ Tensor' /\ Histogram' = Histogram /\ PartSums' = PartSums
    BY <1>1, SameOrder, SameParts
  <1>4. Counted /\ max \in Nat /\ max > 0 /\ Counted'
    BY <1>1, <1>2, <1>3 DEF Relinearise, FormatInv, Counted
  <1>5. (coords = [i \in DOMAIN idx |-> Relinearised(idx[i])])'
    BY <1>1, <1>2 DEF Relinearise
  <1>6. /\ pc' = "split" /\ max' \in Nat
        /\ block' = 0 /\ stride' = 0 /\ blocks' = <<>> /\ Len(blocks') = 0
        /\ block' \in 0 .. block_count' /\ stride' \in Nat /\ blocks' \in Seq(Block')
    BY <1>2 DEF Relinearise, FormatInv
  <1>7. Cut'
    <2>1. Filled' = 0
      <3>1. PICK f : f = [k \in DOMAIN blocks' |-> blocks'[k].nnz]
        OBVIOUS
      <3>2. Sums(f, 0)[0] = 0
        <4>1. 0 \in Nat /\ \A k \in 1 .. 0 : f[k] \in Nat
          OBVIOUS
        <4> QED
          BY <4>1, SumsAre
      <3> QED
        BY <1>6, <3>1, <3>2 DEF Filled
    <2>2. Made' = 0
      <3>1. PartSums[0] = 0
        BY <1>1, <1>4, PartSumsAre
      <3> QED
        BY <1>3, <1>6, <3>1 DEF Made
    <2>3. prefix'[0] = 0 /\ prefix'[block_count] = Len(idx) /\ block_count \in Nat
          /\ (block_count > 0 => prefix'[1] \in Nat)
      <3>1. PICK s : s = prefix
        OBVIOUS
      <3>2. s = Sums(Histogram, block_count)
        BY <1>4, <3>1 DEF Counted
      <3>3. /\ block_count \in Nat /\ s[0] = 0 /\ s[block_count] = Len(idx)
            /\ \A k \in 0 .. block_count : s[k] \in Nat
        BY <1>1, <3>2, PrefixFacts
      <3> QED
        BY <1>1, <3>1, <3>3
    <2>4. stride' = Made' * max' /\ Made' \in Nat
      BY <1>1, <1>4, <1>6, <2>2
    <2>5. block' = block_count' => Made' = 0 /\ Filled' = Len(idx')
      BY <1>1, <1>2, <1>6, <2>1, <2>2, <2>3
    <2>6. ASSUME block' < block_count'
          PROVE  /\ stride' < prefix'[block' + 1] - prefix'[block'] => Filled' = prefix'[block'] + stride'
                 /\ stride' >= prefix'[block' + 1] - prefix'[block'] => Filled' = prefix'[block' + 1]
      <3>1. prefix'[1] \in Nat /\ block' + 1 = 1
        BY <1>2, <1>6, <2>3, <2>6
      <3>2. prefix'[1] - prefix'[0] = prefix'[1] /\ prefix'[0] + 0 = 0
        BY <2>3, <3>1
      <3>3. prefix'[1] <= 0 => prefix'[1] = 0
        BY <3>1
      <3> QED
        BY <1>6, <2>1, <2>3, <3>1, <3>2, <3>3
    <2>7. Made' > 0 => (Made' - 1) * max' < prefix'[block' + 1] - prefix'[block']
      BY <2>2
    <2>8. \A i \in 1 .. Filled' : FALSE
      BY <2>1
    <2> QED
      BY <2>4, <2>5, <2>6, <2>7, <2>8 DEF Cut
  <1>8. (\A k \in DOMAIN blocks : OfOnePlace(blocks[k]))'
    BY <1>6
  <1> QED
    BY <1>3, <1>4, <1>5, <1>6, <1>7, <1>8 DEF FormatInv

LEMMA FinishKeeps == FormatInv /\ Finish => FormatInv'
  <1> SUFFICES ASSUME FormatInv, Finish
               PROVE  FormatInv'
    OBVIOUS
  <1>1. /\ InOrder /\ Formed /\ dims' = dims /\ order' = order /\ tensor' = tensor /\ idx' = idx
        /\ max' = max /\ prefix' = prefix /\ total' = total /\ coords' = coords
        /\ block' = block /\ stride' = stride /\ blocks' = blocks
    BY DEF Finish, FormatInv, InOrder, Tensor
  <1>2. Block' = Block /\ block_count' = block_count /\ \A i : Relinearised(i)' = Relinearised(i)
        /\ \A b : block_coords(b)' = block_coords(b)
    BY <1>1, SameFormat
  <1>3. InOrder' /\ Tensor' /\ Histogram' = Histogram /\ PartSums' = PartSums
    BY <1>1, SameOrder, SameParts
  <1>4. max \in Nat /\ Counted'
    BY <1>1, <1>2, <1>3 DEF Finish, FormatInv, Counted
  <1>5. (coords = [i \in DOMAIN idx |-> Relinearised(idx[i])])'
    BY <1>1, <1>2 DEF Finish, FormatInv
  <1>6. Cut'
    <2>1. Cut /\ Filled' = Filled /\ Made' = Made
      BY <1>1, <1>3 DEF Finish, FormatInv, Filled, Made
    <2> QED
      BY <1>1, <1>2, <2>1 DEF Cut
  <1>7. (\A k \in DOMAIN blocks : OfOnePlace(blocks[k]))'
    <2>1. \A k \in DOMAIN blocks : OfOnePlace(blocks[k])
      BY DEF Finish, FormatInv
    <2> QED
      BY <1>1, <1>2, <2>1 DEF OfOnePlace, Place
  <1>8. pc' = "done" /\ block' = block_count' /\ block' \in 0 .. block_count'
        /\ stride' \in Nat /\ blocks' \in Seq(Block')
    BY <1>1, <1>2 DEF Finish, FormatInv
  <1> QED
    BY <1>1, <1>3, <1>4, <1>5, <1>6, <1>7, <1>8 DEF FormatInv
-------------------------------------------------------------------------------
(* The steps of the loops that cut the nonzeros into blocks. *)

LEMMA MinOfTwo ==
  ASSUME NEW a \in Nat, NEW b \in Nat
  PROVE  (a <= b => Min({a, b}) = a) /\ (b <= a => Min({a, b}) = b)
  <1>1. \E m \in {a, b} : \A y \in {a, b} : m <= y
    <2>1. CASE a <= b
      BY <2>1
    <2>2. CASE b <= a
      BY <2>2
    <2> QED
      BY <2>1, <2>2
  <1>2. PICK m : m = Min({a, b})
    OBVIOUS
  <1>3. m \in {a, b} /\ \A y \in {a, b} : m <= y
    BY <1>1, <1>2 DEF Min
  <1>4. (m = a \/ m = b) /\ m <= a /\ m <= b
    BY <1>3
  <1> QED
    BY <1>2, <1>4

LEMMA FilledIs ==
  ASSUME blocks \in Seq(Block)
  PROVE  Filled \in Nat /\ Len(blocks) \in Nat /\ DOMAIN blocks = 1 .. Len(blocks)
         /\ \A k \in 1 .. Len(blocks) : blocks[k] \in Block /\ blocks[k].nnz \in Nat \ {0}
                                        /\ blocks[k].offset \in Nat
  <1>1. PICK B, s : B = Block /\ s = blocks
    OBVIOUS
  <1>2. s \in Seq(B)
    BY <1>1
  <1>3. Len(s) \in Nat /\ DOMAIN s = 1 .. Len(s) /\ \A k \in 1 .. Len(s) : s[k] \in B
    BY <1>2
  <1>4. \A b \in B : b.nnz \in Nat \ {0} /\ b.offset \in Nat
    BY <1>1 DEF Block
  <1>5. PICK N, f : N = Len(s) /\ f = [k \in DOMAIN s |-> s[k].nnz]
    OBVIOUS
  <1>6. N \in Nat /\ N \in 0 .. N /\ \A k \in 1 .. N : f[k] \in Nat
    BY <1>3, <1>4, <1>5
  <1>7. Sums(f, N)[N] \in Nat
    BY <1>6, SumsAre
  <1> QED
    BY <1>1, <1>3, <1>4, <1>5, <1>7 DEF Filled

LEMMA HereFacts ==
  ASSUME FormatInv, pc = "split", block < block_count
  PROVE  /\ InOrder /\ Formed /\ block_count \in Nat
         /\ block \in Nat /\ block \in 0 .. block_count - 1 /\ block + 1 \in 0 .. block_count
         /\ max \in Nat /\ max > 0 /\ stride \in Nat /\ Made \in Nat /\ Filled \in Nat
         /\ Len(blocks) \in Nat /\ Len(blocks) = PartSums[block] + Made /\ PartSums[block] \in Nat
         /\ prefix[block] \in Nat /\ prefix[block + 1] \in Nat /\ Len(idx) \in Nat
         /\ prefix[block + 1] <= Len(idx) /\ Histogram[block + 1] \in Nat
         /\ prefix[block + 1] - prefix[block] = Histogram[block + 1]
         /\ prefix[block + 1] = prefix[block] + Histogram[block + 1]
         /\ \A i \in 1 .. Len(idx) : /\ Place(idx[i]) \in Nat
                                     /\ i <= prefix[block] <=> Place(idx[i]) < block
                                     /\ i <= prefix[block + 1] <=> Place(idx[i]) < block + 1
  <1>1. InOrder /\ Formed /\ Counted /\ Cut /\ blocks \in Seq(Block) /\ max \in Nat /\ stride \in Nat
        /\ block \in 0 .. block_count
    BY DEF FormatInv, InOrder, Tensor
  <1>2. max > 0 /\ block_count \in Nat
    BY <1>1, UpperFacts DEF Counted
  <1>3. block \in Nat /\ block \in 0 .. block_count - 1 /\ block + 1 \in 0 .. block_count
        /\ block + 1 \in 1 .. block_count
    BY <1>1, <1>2
  <1>4. PICK s : s = prefix
    OBVIOUS
  <1>5. s = Sums(Histogram, block_count)
    BY <1>1, <1>4 DEF Counted
  <1>6. /\ \A b \in 1 .. block_count : Histogram[b] \in Nat
        /\ \A k \in 0 .. block_count : s[k] \in 0 .. Len(idx) /\ s[k] \in Nat
        /\ \A k \in 0 .. block_count - 1 : s[k + 1] = s[k] + Histogram[k + 1]
        /\ \A k \in 0 .. block_count : \A i \in 1 .. Len(idx) : i <= s[k] <=> Place(idx[i]) < k
    BY <1>1, <1>5, PrefixFacts
  <1>7. Len(idx) \in Nat /\ \A i \in 1 .. Len(idx) : Place(idx[i]) \in Nat
    BY <1>1, OrderFacts
  <1>8. /\ prefix[block] \in Nat /\ prefix[block + 1] \in Nat /\ prefix[block + 1] <= Len(idx)
        /\ Histogram[block + 1] \in Nat /\ prefix[block + 1] = prefix[block] + Histogram[block + 1]
        /\ \A i \in 1 .. Len(idx) : /\ i <= prefix[block] <=> Place(idx[i]) < block
                                    /\ i <= prefix[block + 1] <=> Place(idx[i]) < block + 1
    BY <1>1, <1>3, <1>4, <1>6, <1>7
  <1>9. prefix[block + 1] - prefix[block] = Histogram[block + 1]
    BY <1>8
  <1>10. Made \in Nat
    BY <1>1 DEF Cut
  <1>11. PartSums[block] \in Nat
    BY <1>1, <1>2, PartSumsAre
  <1>12. Len(blocks) \in Nat /\ Filled \in Nat
    BY <1>1, FilledIs
  <1>13. Len(blocks) = PartSums[block] + Made
    BY <1>11, <1>12 DEF Made
  <1> QED
    BY <1>1, <1>2, <1>3, <1>7, <1>8, <1>9, <1>10, <1>11, <1>12, <1>13

\* What the two kinds of step leave alone.
Aside == UNCHANGED <<dims, order, tensor, max, pc, idx, total, prefix, coords>>

LEMMA AsideKeeps ==
  ASSUME FormatInv, pc = "split", Aside
  PROVE  /\ InOrder' /\ Tensor' /\ Histogram' = Histogram /\ PartSums' = PartSums
         /\ Block' = Block /\ block_count' = block_count
         /\ \A b : block_coords(b)' = block_coords(b)
         /\ max' \in Nat /\ pc' = "split" /\ Counted'
         /\ (coords = [i \in DOMAIN idx |-> Relinearised(idx[i])])'
         /\ dims' = dims /\ idx' = idx /\ max' = max /\ prefix' = prefix
  <1>1. /\ InOrder /\ Formed /\ dims' = dims /\ order' = order /\ tensor' = tensor /\ idx' = idx
        /\ max' = max /\ prefix' = prefix /\ total' = total /\ coords' = coords /\ pc' = pc
    BY DEF Aside, FormatInv, InOrder, Tensor
  <1>2. Block' = Block /\ block_count' = block_count /\ \A i : Relinearised(i)' = Relinearised(i)
        /\ \A b : block_coords(b)' = block_coords(b)
    BY <1>1, SameFormat
  <1>3. InOrder' /\ Tensor' /\ Histogram' = Histogram /\ PartSums' = PartSums
    BY <1>1, SameOrder, SameParts
  <1>4. max \in Nat /\ Counted'
    BY <1>1, <1>2, <1>3 DEF FormatInv, Counted
  <1>5. (coords = [i \in DOMAIN idx |-> Relinearised(idx[i])])'
    BY <1>1, <1>2 DEF FormatInv
  <1> QED
    BY <1>1, <1>2, <1>3, <1>4, <1>5

LEMMA NextBlock ==
  ASSUME FormatInv, pc = "split", block < block_count, Aside,
         stride < prefix[block + 1] - prefix[block],
         blocks' = Append(blocks, [offset |-> prefix[block] + stride,
                                   nnz |-> Min({max, prefix[block + 1] - prefix[block] - stride}),
                                   block_coords |-> block_coords(block)]),
         stride' = stride + max, block' = block
  PROVE  FormatInv'
  <1> DEFINE lo == prefix[block]
             hi == prefix[block + 1]
  <1>1. PICK blk : blk = [offset |-> lo + stride, nnz |-> Min({max, hi - lo - stride}),
                          block_coords |-> block_coords(block)]
    OBVIOUS
  <1>2. blocks' = Append(blocks, blk)
    BY <1>1
  <1>3. /\ blk.offset = lo + stride /\ blk.nnz = Min({max, hi - lo - stride})
        /\ blk.block_coords = block_coords(block)
    BY <1>1
  <1>4. /\ lo \in Nat /\ hi \in Nat /\ hi <= Len(idx) /\ stride < hi - lo
        /\ stride \in Nat /\ max \in Nat /\ max > 0
        /\ Len(idx) \in Nat /\ Filled \in Nat /\ Len(blocks) \in Nat /\ Made \in Nat
    BY HereFacts
  <1> HIDE DEF lo, hi
  <1>5. /\ max <= hi - lo - stride => blk.nnz = max
        /\ hi - lo - stride <= max => blk.nnz = hi - lo - stride
    <2>1. hi - lo - stride \in Nat
      BY <1>4
    <2> QED
      BY <1>3, <1>4, <2>1, MinOfTwo
  <1>6. blk.nnz \in Nat \ {0} /\ blk.nnz <= max /\ blk.offset \in Nat /\ blk.offset + blk.nnz <= hi
    BY <1>3, <1>4, <1>5
  <1>7. blk \in Block
    <2>1. block_coords(block) \in [Mode -> SUBSET (0 .. Width - 1)]
      BY HereFacts, FormatWords
    <2> QED
      BY <1>1, <1>3, <1>6, <2>1 DEF Block
  <1>8. blocks \in Seq(Block) /\ Cut /\ \A k \in DOMAIN blocks : OfOnePlace(blocks[k])
    BY DEF FormatInv
  <1>9. /\ blocks' \in Seq(Block) /\ Len(blocks') = Len(blocks) + 1
        /\ DOMAIN blocks' = 1 .. Len(blocks) + 1 /\ DOMAIN blocks = 1 .. Len(blocks)
        /\ \A k \in 1 .. Len(blocks) : blocks'[k] = blocks[k]
        /\ blocks'[Len(blocks) + 1] = blk
    <2>1. PICK B, s, t : B = Block /\ s = blocks /\ t = blocks'
      OBVIOUS
    <2>2. s \in Seq(B) /\ blk \in B /\ t = Append(s, blk)
      BY <1>2, <1>7, <1>8, <2>1
    <2>3. /\ t \in Seq(B) /\ Len(t) = Len(s) + 1 /\ DOMAIN t = 1 .. Len(s) + 1 /\ DOMAIN s = 1 .. Len(s)
          /\ \A k \in 1 .. Len(s) : t[k] = s[k]
          /\ t[Len(s) + 1] = blk
      BY <2>2
    <2> QED
      BY <2>1, <2>3
  <1>10. \A k \in 1 .. Len(blocks) : blocks[k].nnz \in Nat
    BY <1>8, FilledIs
  <1>11. Filled' = Filled + blk.nnz
    <2>1. PICK N, f, g : N = Len(blocks) /\ f = [k \in DOMAIN blocks |-> blocks[k].nnz]
                         /\ g = [k \in DOMAIN blocks' |-> blocks'[k].nnz]
      OBVIOUS
    <2>2. N \in Nat /\ (\A k \in 1 .. N : f[k] = g[k] /\ g[k] \in Nat) /\ g[N + 1] = blk.nnz
      <3>1. \A k \in 1 .. N : k \in DOMAIN blocks /\ k \in DOMAIN blocks'
        BY <1>4, <1>9, <2>1
      <3>2. N + 1 \in DOMAIN blocks'
        BY <1>4, <1>9, <2>1
      <3> QED
        BY <1>4, <1>9, <1>10, <2>1, <3>1, <3>2
    <2>3. \A k \in 1 .. N + 1 : g[k] \in Nat
      <3>1. \A k \in 1 .. N + 1 : k \in 1 .. N \/ k = N + 1
        BY <2>2
      <3> QED
        BY <1>6, <2>2, <3>1
    <2>4. Sums(g, N + 1)[N + 1] = Sums(f, N)[N] + g[N + 1]
      BY <2>2, <2>3, SumsStep
    <2> QED
      BY <1>9, <2>1, <2>2, <2>4 DEF Filled
  <1>12. Made' = Made + 1
    <2>1. PartSums' = PartSums /\ PartSums[block] \in Nat
      BY HereFacts, AsideKeeps
    <2> QED
      BY <1>4, <1>9, <2>1 DEF Made
  <1>13. Filled = lo + stride
    BY <1>4, <1>8 DEF Cut, lo, hi
  <1>14. Cut'
    <2>1. Made' \in Nat /\ stride' = Made' * max'
      <3>1. stride = Made * max
        BY <1>8 DEF Cut
      <3>2. (Made + 1) * max = Made * max + max
        BY <1>4
      <3> QED
        BY <1>4, <1>12, <3>1, <3>2, AsideKeeps
    <2>2. block' < block_count' /\ block' # block_count' /\ prefix'[block'] = lo /\ prefix'[block' + 1] = hi
      BY HereFacts, AsideKeeps DEF lo, hi
    <2>3. (Made' - 1) * max' < hi - lo
      <3>1. stride = Made * max /\ Made' - 1 = Made /\ max' = max
        BY <1>4, <1>8, <1>12, AsideKeeps DEF Cut
      <3> QED
        BY <1>4, <3>1
    <2>4. stride' < hi - lo => Filled' = lo + stride'
      BY <1>4, <1>5, <1>11, <1>13
    <2>5. stride' >= hi - lo => Filled' = hi
      BY <1>4, <1>5, <1>11, <1>13
    <2>6. ASSUME NEW i \in 1 .. Filled'
          PROVE  \E k \in DOMAIN blocks' : \E j \in 1 .. blocks'[k].nnz : i = blocks'[k].offset + j
      <3>1. CASE i <= Filled
        <4>1. i \in 1 .. Filled
          BY <1>4, <1>6, <1>11, <3>1
        <4>2. PICK k \in DOMAIN blocks : \E j \in 1 .. blocks[k].nnz : i = blocks[k].offset + j
          BY <1>8, <4>1 DEF Cut
        <4>3. k \in DOMAIN blocks' /\ blocks'[k] = blocks[k]
          BY <1>4, <1>9
        <4> QED
          BY <4>2, <4>3
      <3>2. CASE i > Filled
        <4>1. i - Filled \in 1 .. blk.nnz /\ i = blk.offset + (i - Filled)
          BY <1>3, <1>4, <1>6, <1>11, <1>13, <3>2
        <4>2. Len(blocks) + 1 \in DOMAIN blocks'
          BY <1>4, <1>9
        <4> QED
          BY <1>9, <4>1, <4>2
      <3>3. i <= Filled \/ i > Filled
        BY <1>4, <1>6, <1>11
      <3> QED
        BY <3>1, <3>2, <3>3
    <2> QED
      BY <2>1, <2>2, <2>3, <2>4, <2>5, <2>6 DEF Cut
  <1>15. \E p \in 0 .. block_count - 1 : /\ blk.block_coords = block_coords(p)
                                         /\ \A j \in 1 .. blk.nnz : Place(idx[blk.offset + j]) = p
    <2>1. block \in 0 .. block_count - 1 /\ block \in Nat
      BY HereFacts
    <2>2. ASSUME NEW j \in 1 .. blk.nnz
          PROVE  Place(idx[blk.offset + j]) = block
      <3>1. PICK i : i = blk.offset + j
        OBVIOUS
      <3>2. i \in 1 .. Len(idx) /\ ~ (i <= lo) /\ i <= hi
        BY <1>3, <1>4, <1>6, <3>1
      <3>3. Place(idx[i]) \in Nat /\ ~ (Place(idx[i]) < block) /\ Place(idx[i]) < block + 1
        BY <3>2, HereFacts DEF lo, hi
      <3> QED
        BY <2>1, <3>1, <3>3
    <2> QED
      BY <1>3, <2>1, <2>2
  <1>16. (\A k \in DOMAIN blocks : OfOnePlace(blocks[k]))'
    <2>1. \A b : OfOnePlace(b)' <=> OfOnePlace(b)
      BY AsideKeeps DEF OfOnePlace, Place
    <2>2. OfOnePlace(blk)
      <3>1. blk.offset + blk.nnz <= Len(idx)
        BY <1>4, <1>6
      <3> QED
        BY <1>6, <1>15, <3>1 DEF OfOnePlace
    <2>3. \A k \in DOMAIN blocks' : OfOnePlace(blocks'[k])
      <3>1. \A k \in DOMAIN blocks' : k \in 1 .. Len(blocks) \/ k = Len(blocks) + 1
        BY <1>4, <1>9
      <3> QED
        BY <1>8, <1>9, <2>2, <3>1
    <2> QED
      BY <2>1, <2>3
  <1>17. /\ block' \in 0 .. block_count' /\ stride' \in Nat /\ blocks' \in Seq(Block')
    <2>1. block \in 0 .. block_count
      BY DEF FormatInv
    <2> QED
      BY <1>4, <1>9, <2>1, AsideKeeps
  <1> QED
    BY <1>14, <1>16, <1>17, AsideKeeps DEF FormatInv

LEMMA NextPlace ==
  ASSUME FormatInv, pc = "split", block < block_count, Aside,
         ~ (stride < prefix[block + 1] - prefix[block]),
         blocks' = blocks, stride' = 0, block' = block + 1
  PROVE  FormatInv'
  <1> DEFINE lo == prefix[block]
             hi == prefix[block + 1]
  <1>1. /\ lo \in Nat /\ hi \in Nat /\ hi <= Len(idx) /\ ~ (stride < hi - lo)
        /\ stride \in Nat /\ max \in Nat /\ max > 0 /\ block_count \in Nat
        /\ Len(idx) \in Nat /\ Filled \in Nat /\ Len(blocks) \in Nat /\ Made \in Nat
        /\ block \in 0 .. block_count - 1 /\ block \in Nat /\ block + 1 \in 0 .. block_count
        /\ hi - lo = Histogram[block + 1] /\ Histogram[block + 1] \in Nat
    BY HereFacts
  <1>2. /\ stride = Made * max
        /\ Made > 0 => (Made - 1) * max < hi - lo
        /\ Filled = hi
        /\ \A i \in 1 .. Filled : \E k \in DOMAIN blocks : \E j \in 1 .. blocks[k].nnz :
             i = blocks[k].offset + j
    <2>1. Cut
      BY DEF FormatInv
    <2>2. stride >= hi - lo
      BY <1>1
    <2> QED
      BY <2>1, <2>2 DEF Cut
  <1> HIDE DEF lo, hi
  <1>3. Made = PartsOf(Histogram[block + 1], max)
    <2>1. PICK nnz, m : nnz = Histogram[block + 1] /\ m = max
      OBVIOUS
    <2>2. nnz \in Nat /\ m \in Nat \ {0} /\ (Made > 0 => (Made - 1) * m < nnz) /\ nnz <= Made * m
      BY <1>1, <1>2, <2>1
    <2> QED
      BY <1>1, <2>1, <2>2, PartsAre
  <1>4. Made' = 0
    <2>1. /\ PartSums' = PartSums /\ PartSums[block] \in Nat /\ Len(blocks) = PartSums[block] + Made
          /\ PartSums[block + 1] = PartSums[block] + PartsOf(Histogram[block + 1], max)
      BY <1>1, HereFacts, AsideKeeps, PartSumsAre
    <2>2. Made' = Len(blocks) - (PartSums[block] + Made) /\ Made \in Nat
      BY <1>1, <1>3, <2>1 DEF Made
    <2> QED
      BY <2>1, <2>2
  <1>5. Filled' = Filled
    BY DEF Filled
  <1>6. Cut'
    <2>1. Made' \in Nat /\ stride' = Made' * max' /\ ~ (Made' > 0)
      BY <1>1, <1>4, AsideKeeps
    <2>2. prefix'[block'] = hi
      BY AsideKeeps DEF hi
    <2>3. block' = block_count' => Filled' = Len(idx')
      <3>1. PICK s : s = prefix
        OBVIOUS
      <3>2. InOrder /\ s = Sums(Histogram, block_count)
        BY <3>1, HereFacts DEF FormatInv, Counted
      <3>3. s[block_count] = Len(idx)
        BY <3>2, PrefixFacts
      <3>4. prefix'[block_count] = Len(idx) /\ block_count' = block_count /\ idx' = idx
        BY <3>1, <3>3, AsideKeeps
      <3> QED
        BY <1>2, <1>5, <2>2, <3>4
    <2>4. ASSUME block' < block_count'
          PROVE  prefix'[block' + 1] \in Nat /\ prefix'[block' + 1] >= prefix'[block']
      <3>1. PICK s, b : s = prefix /\ b = block'
        OBVIOUS
      <3>2. InOrder /\ s = Sums(Histogram, block_count) /\ block_count' = block_count
        BY <3>1, HereFacts, AsideKeeps DEF FormatInv, Counted
      <3>3. b \in 0 .. block_count - 1 /\ b \in 0 .. block_count /\ b + 1 \in 1 .. block_count
        BY <1>1, <2>4, <3>1, <3>2
      <3>4. s[b] \in Nat /\ Histogram[b + 1] \in Nat /\ s[b + 1] = s[b] + Histogram[b + 1]
        BY <3>2, <3>3, PrefixFacts
      <3> QED
        BY <3>1, <3>4, AsideKeeps
    <2>5. ASSUME block' < block_count'
          PROVE  /\ stride' < prefix'[block' + 1] - prefix'[block'] => Filled' = prefix'[block'] + stride'
                 /\ stride' >= prefix'[block' + 1] - prefix'[block'] => Filled' = prefix'[block' + 1]
      <3>1. PICK x : x = prefix'[block' + 1]
        OBVIOUS
      <3>2. x \in Nat /\ x >= hi /\ Filled' = hi
        BY <1>2, <1>5, <2>2, <2>4, <2>5, <3>1
      <3>3. hi + 0 = hi /\ (0 >= x - hi => x = hi)
        BY <1>1, <3>2
      <3> QED
        BY <2>2, <3>1, <3>2, <3>3
    <2>6. \A i \in 1 .. Filled' : \E k \in DOMAIN blocks' : \E j \in 1 .. blocks'[k].nnz :
             i = blocks'[k].offset + j
      BY <1>2, <1>5
    <2> QED
      BY <1>4, <2>1, <2>3, <2>5, <2>6 DEF Cut
  <1>7. (\A k \in DOMAIN blocks : OfOnePlace(blocks[k]))'
    <2>1. \A b : OfOnePlace(b)' <=> OfOnePlace(b)
      BY AsideKeeps DEF OfOnePlace, Place
    <2>2. \A k \in DOMAIN blocks : OfOnePlace(blocks[k])
      BY DEF FormatInv
    <2> QED
      BY <2>1, <2>2
  <1>8. block' \in 0 .. block_count' /\ stride' \in Nat /\ blocks' \in Seq(Block')
    <2>1. blocks \in Seq(Block)
      BY DEF FormatInv
    <2> QED
      BY <1>1, <2>1, AsideKeeps
  <1> QED
    BY <1>6, <1>7, <1>8, AsideKeeps DEF FormatInv

LEMMA SplitKeeps == FormatInv /\ Split => FormatInv'
  <1> SUFFICES ASSUME FormatInv, Split
               PROVE  FormatInv'
    OBVIOUS
  <1>1. pc = "split" /\ block < block_count /\ Aside
    BY DEF Split, Aside
  <1>2. CASE stride < prefix[block + 1] - prefix[block]
    BY <1>1, <1>2, NextBlock DEF Split
  <1>3. CASE ~ (stride < prefix[block + 1] - prefix[block])
    BY <1>1, <1>3, NextPlace DEF Split
  <1> QED
    BY <1>2, <1>3

LEMMA StutterKeeps == FormatInv /\ UNCHANGED formatVars => FormatInv'
  <1> SUFFICES ASSUME FormatInv, UNCHANGED formatVars
               PROVE  FormatInv'
    OBVIOUS
  <1>1. UNCHANGED <<dims, order, tensor, max, pc, idx, total, prefix, coords, block, stride, blocks>>
    BY DEF formatVars
  <1>2. Tensor' /\ max' \in Nat
    BY <1>1 DEF FormatInv, Tensor, Formed
  <1>3. Formed
    BY DEF FormatInv, Tensor
  <1>4. Block' = Block /\ block_count' = block_count /\ (\A i : Relinearised(i)' = Relinearised(i))
        /\ \A b : block_coords(b)' = block_coords(b)
    BY <1>1, <1>3, SameFormat
  <1>5. pc # "alto" => InOrder' /\ Histogram' = Histogram /\ PartSums' = PartSums
    BY <1>1, SameOrder, SameParts DEF FormatInv
  <1>6. pc \in {"relinearise", "split", "done"} => Counted'
    BY <1>1, <1>4, <1>5 DEF FormatInv, Counted
  <1>7. pc \in {"split", "done"} =>
          /\ (coords = [i \in DOMAIN idx |-> Relinearised(idx[i])])'
          /\ Cut' /\ (\A k \in DOMAIN blocks : OfOnePlace(blocks[k]))'
    <2> SUFFICES ASSUME pc \in {"split", "done"}
                 PROVE  /\ (coords = [i \in DOMAIN idx |-> Relinearised(idx[i])])'
                        /\ Cut' /\ (\A k \in DOMAIN blocks : OfOnePlace(blocks[k]))'
      OBVIOUS
    <2>1. (coords = [i \in DOMAIN idx |-> Relinearised(idx[i])])'
      BY <1>1, <1>4 DEF FormatInv
    <2>2. Cut'
      <3>1. Cut /\ Filled' = Filled /\ Made' = Made
        BY <1>1, <1>5 DEF FormatInv, Filled, Made
      <3> QED
        BY <1>1, <1>4, <3>1 DEF Cut
    <2>3. (\A k \in DOMAIN blocks : OfOnePlace(blocks[k]))'
      <3>1. \A k \in DOMAIN blocks : OfOnePlace(blocks[k])
        BY DEF FormatInv
      <3> QED
        BY <1>1, <1>4, <3>1 DEF OfOnePlace, Place
    <2> QED
      BY <2>1, <2>2, <2>3
  <1> QED
    BY <1>1, <1>2, <1>4, <1>5, <1>6, <1>7 DEF FormatInv

LEMMA FormatInvHolds == Spec => []FormatInv
  <1>1. FormatInv /\ [Next]_formatVars => FormatInv'
    BY AltoKeeps, CountKeeps, RelineariseKeeps, SplitKeeps, FinishKeeps, StutterKeeps DEF Next
  <1> QED
    BY FormatInvInit, <1>1, PTL DEF Spec

-------------------------------------------------------------------------------
(* What the invariant says of the format. *)

\* A kernel makes of a nonzero of a block the coordinates of a nonzero of the tensor.
LEMMA DecodedIs ==
  ASSUME FormatInv, pc = "done", NEW k \in DOMAIN blocks, NEW j \in 1 .. blocks[k].nnz,
         NEW c \in tensor, idx[blocks[k].offset + j] = Linear(c)
  PROVE  Decoded(blocks[k], j) = c
  <1>1. /\ Tensor /\ Formed /\ InOrder /\ OfOnePlace(blocks[k]) /\ blocks \in Seq(Block)
        /\ coords = [i \in DOMAIN idx |-> Relinearised(idx[i])]
    BY DEF FormatInv, Tensor
  <1>2. PICK blk, i : blk = blocks[k] /\ i = blocks[k].offset + j
    OBVIOUS
  <1>3. blk.nnz \in Nat /\ blk.offset \in Nat
    BY <1>1, <1>2, FilledIs
  <1>4. PICK p \in 0 .. block_count - 1 : /\ blk.block_coords = block_coords(p)
                                          /\ \A m \in 1 .. blk.nnz : Place(idx[blk.offset + m]) = p
    BY <1>1, <1>2 DEF OfOnePlace
  <1>5. blk.offset + blk.nnz <= Len(idx)
    BY <1>1, <1>2 DEF OfOnePlace
  <1>6. i \in DOMAIN idx /\ Place(idx[i]) = p
    <2>1. Len(idx) \in Nat /\ DOMAIN idx = 1 .. Len(idx)
      BY <1>1, OrderFacts
    <2>2. i \in 1 .. Len(idx)
      BY <1>2, <1>3, <1>5, <2>1
    <2> QED
      BY <1>2, <1>4, <2>1, <2>2
  <1>7. coords[blk.offset + j] = Relinearised(Linear(c)) /\ p = Value[uhalf(Linear(c))]
    BY <1>1, <1>2, <1>6 DEF Place
  <1>8. Coordinate(c) /\ c = [n \in Mode |-> c[n]]
    BY <1>1, TensorFacts
  <1>9. \A n \in Mode : Value[alt_pext(Relinearised(Linear(c)), n, blk)] = c[n]
    BY <1>1, <1>4, <1>7, <1>8, Decoding
  <1>10. Decoded(blk, j) = [n \in Mode |-> c[n]]
    BY <1>7, <1>9 DEF Decoded
  <1> QED
    BY <1>2, <1>8, <1>10

LEMMA DoneIsLossless == FormatInv => FormatIsLossless
  <1> SUFFICES ASSUME FormatInv, pc = "done"
               PROVE  /\ UNION {{Decoded(b, i) : i \in 1 .. b.nnz} : b \in Range(blocks)} = tensor
                      /\ Filled = Cardinality(tensor)
    BY DEF FormatIsLossless, Filled
  <1>1. /\ Tensor /\ InOrder /\ Cut /\ block = block_count /\ blocks \in Seq(Block)
        /\ \A k \in DOMAIN blocks : OfOnePlace(blocks[k])
    BY DEF FormatInv
  <1>2. Filled = Len(idx) /\ Filled = Cardinality(tensor)
    BY <1>1, OrderFacts DEF Cut
  <1>3. \A b : b \in Range(blocks) <=> \E k \in DOMAIN blocks : b = blocks[k]
    BY DEF Range
  <1>4. ASSUME NEW k \in DOMAIN blocks, NEW j \in 1 .. blocks[k].nnz
        PROVE  Decoded(blocks[k], j) \in tensor
    <2>1. blocks[k].nnz \in Nat /\ blocks[k].offset \in Nat
      BY <1>1, FilledIs
    <2>2. blocks[k].offset + blocks[k].nnz <= Len(idx)
      BY <1>1 DEF OfOnePlace
    <2>3. blocks[k].offset + j \in 1 .. Len(idx)
      <3>1. Len(idx) \in Nat
        BY <1>1, OrderFacts
      <3> QED
        BY <2>1, <2>2, <3>1
    <2>4. PICK c \in tensor : idx[blocks[k].offset + j] = Linear(c)
      BY <1>1, <2>3, OrderFacts
    <2>5. Decoded(blocks[k], j) = c
      BY <2>4, DecodedIs
    <2> QED
      BY <2>4, <2>5
  <1>5. ASSUME NEW c \in tensor
        PROVE  \E k \in DOMAIN blocks : \E j \in 1 .. blocks[k].nnz : c = Decoded(blocks[k], j)
    <2>1. PICK i \in 1 .. Len(idx) : idx[i] = Linear(c)
      BY <1>1, OrderFacts
    <2>2. i \in 1 .. Filled
      BY <1>2
    <2>3. PICK k \in DOMAIN blocks : \E j \in 1 .. blocks[k].nnz : i = blocks[k].offset + j
      BY <1>1, <2>2 DEF Cut
    <2>4. PICK j \in 1 .. blocks[k].nnz : i = blocks[k].offset + j
      BY <2>3
    <2>5. Decoded(blocks[k], j) = c
      BY <2>1, <2>4, DecodedIs
    <2> QED
      BY <2>5
  <1>6. UNION {{Decoded(b, i) : i \in 1 .. b.nnz} : b \in Range(blocks)} = tensor
    BY <1>3, <1>4, <1>5
  <1> QED
    BY <1>2, <1>6

LEMMA BlocksFit == FormatInv => BlocksAreCounted
  <1> SUFFICES ASSUME FormatInv
               PROVE  /\ pc = "split" => Len(blocks) <= total
                      /\ pc = "done" => Len(blocks) = total /\ \A k \in DOMAIN blocks : blocks[k].nnz <= max
    BY DEF BlocksAreCounted
  <1>1. ASSUME pc \in {"split", "done"}
        PROVE  /\ InOrder /\ max \in Nat /\ max > 0 /\ Cut /\ Counted /\ Len(blocks) \in Nat
               /\ block \in 0 .. block_count /\ block_count \in Nat
               /\ total = PartSums[block_count] /\ total \in Nat
               /\ PartSums[block] \in Nat /\ PartSums[block] <= total /\ Made \in Nat
               /\ Len(blocks) = PartSums[block] + Made
    <2>1. InOrder /\ max \in Nat /\ max > 0 /\ Cut /\ Counted /\ block \in 0 .. block_count
          /\ blocks \in Seq(Block)
      BY <1>1 DEF FormatInv, Counted
    <2>2. block_count \in Nat /\ block_count \in 0 .. block_count /\ Len(blocks) \in Nat
      BY <2>1, FilledIs, PrefixFacts
    <2>3. \A b \in 0 .. block_count : PartSums[b] \in Nat /\ PartSums[b] <= PartSums[block_count]
      BY <2>1, PartSumsAre
    <2>4. total = PartSums[block_count] /\ Made \in Nat
      BY <2>1 DEF Counted, Cut
    <2>5. PartSums[block] \in Nat /\ Len(blocks) = PartSums[block] + Made
      BY <2>1, <2>2, <2>3 DEF Made
    <2> QED
      BY <2>1, <2>2, <2>3, <2>4, <2>5
  <1>2. ASSUME pc \in {"split", "done"}, block = block_count
        PROVE  Len(blocks) = total
    BY <1>1, <1>2 DEF Cut
  <1>3. ASSUME pc = "split", block # block_count
        PROVE  Len(blocks) <= total
    <2>1. block < block_count /\ block \in 0 .. block_count - 1 /\ block + 1 \in 0 .. block_count
      BY <1>1, <1>3
    <2>2. Histogram[block + 1] \in Nat /\ prefix[block + 1] - prefix[block] = Histogram[block + 1]
      BY <1>3, <2>1, HereFacts
    <2>3. Made > 0 => (Made - 1) * max < Histogram[block + 1]
      BY <1>1, <1>3, <2>1, <2>2 DEF Cut
    <2>4. PICK nnz, m : nnz = Histogram[block + 1] /\ m = max
      OBVIOUS
    <2>5. Made <= PartsOf(nnz, m) /\ PartsOf(nnz, m) \in Nat
      <3>1. nnz \in Nat /\ m \in Nat \ {0} /\ (Made > 0 => (Made - 1) * m < nnz) /\ Made \in Nat
        BY <1>1, <1>3, <2>2, <2>3, <2>4
      <3> QED
        BY <3>1, PartsAre
    <2>6. /\ PartSums[block + 1] = PartSums[block] + PartsOf(nnz, m)
          /\ PartSums[block + 1] <= total
      BY <1>1, <1>3, <2>1, <2>4, PartSumsAre
    <2> QED
      BY <1>1, <1>3, <2>5, <2>6
  <1>4. pc = "done" => block = block_count /\ \A k \in DOMAIN blocks : blocks[k].nnz <= max
    BY DEF FormatInv, OfOnePlace
  <1> QED
    BY <1>2, <1>3, <1>4

LEMMA FormatIsTyped == FormatInv => TypeOK
  <1> SUFFICES ASSUME FormatInv
               PROVE  TypeOK
    OBVIOUS
  <1>1. /\ Tensor /\ Formed /\ max \in Nat /\ pc \in {"alto", "count", "relinearise", "split", "done"}
        /\ block \in 0 .. block_count /\ stride \in Nat /\ blocks \in Seq(Block)
    BY DEF FormatInv, Tensor
  <1>2. Bit = 0 .. 2 * Width - 1
    BY DEF Bit
  <1>3. idx \in Seq(SUBSET Bit)
    <2>1. CASE pc = "alto"
      BY <2>1 DEF FormatInv
    <2>2. CASE pc # "alto"
      BY <2>2, OrderFacts DEF FormatInv
    <2> QED
      BY <2>1, <2>2
  <1>4. coords \in Seq(SUBSET Bit) /\ \A i \in DOMAIN coords : coords[i] \subseteq 0 .. Width - 1
    <2>1. CASE pc \notin {"split", "done"}
      BY <1>1, <2>1 DEF FormatInv
    <2>2. CASE pc \in {"split", "done"}
      <3>1. coords = [i \in DOMAIN idx |-> Relinearised(idx[i])]
        BY <2>2 DEF FormatInv
      <3>2. Len(idx) \in Nat /\ DOMAIN idx = 1 .. Len(idx)
        BY <2>2, OrderFacts DEF FormatInv
      <3>3. PICK n, W, B, s : n = Len(idx) /\ W = 0 .. Width - 1 /\ B = SUBSET Bit /\ s = coords
        OBVIOUS
      <3>4. W \in B
        BY <3>3, BitFacts DEF Bit
      <3>5. DOMAIN s = 1 .. n /\ s = [i \in 1 .. n |-> s[i]] /\ \A i \in 1 .. n : s[i] \in SUBSET W
        BY <1>1, <3>1, <3>2, <3>3, FormatWords
      <3>6. \A i \in 1 .. n : s[i] \in B
        BY <3>3, <3>4, <3>5
      <3>7. s \in [1 .. n -> B]
        BY <3>5, <3>6
      <3>8. s \in Seq(B)
        BY <3>2, <3>3, <3>7
      <3> QED
        BY <3>3, <3>5, <3>8
    <2> QED
      BY <2>1, <2>2
  <1>5. total \in Nat
    <2>1. CASE pc \in {"alto", "count"}
      BY <2>1 DEF FormatInv
    <2>2. CASE pc \in {"relinearise", "split", "done"}
      <3>1. InOrder /\ max > 0 /\ total = PartSums[block_count]
        BY <2>2 DEF FormatInv, Counted
      <3>2. block_count \in Nat /\ \A b \in 0 .. block_count : PartSums[b] \in Nat
        BY <1>1, <3>1, PartSumsAre
      <3> QED
        BY <3>1, <3>2
    <2> QED
      BY <1>1, <2>1, <2>2
  <1> QED
    BY <1>1, <1>2, <1>3, <1>4, <1>5 DEF TypeOK, Formed, Block

\* The words of the format have the width of an integer, the index has two, and each
\* block has a nonzero (gen_alto, gen_blcotensor_host).
THEOREM Typing == Spec => []TypeOK
  BY FormatInvHolds, FormatIsTyped, PTL

\* The kernels find each nonzero of the tensor in one block, and its coordinates from
\* what the block and the shortened index keep (gen_blcotensor_host, alt_pext).
THEOREM FormatLosesNothing == Spec => []FormatIsLossless
  BY FormatInvHolds, DoneIsLossless, PTL

\* gen_blcotensor_host makes as many blocks as it made room for, none of more nonzeros
\* than max_block_size.
THEOREM BlocksCounted == Spec => []BlocksAreCounted
  BY FormatInvHolds, BlocksFit, PTL
=============================================================================
