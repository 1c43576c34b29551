------------------------- MODULE GrblPlanner_proofs -------------------------
(***************************************************************************)
(* The look-ahead of the Grbl port for every size of the ring, every set   *)
(* of lengths and speeds and any number of blocks: the planned pointer     *)
(* stays on the queue, the plan can be followed and is the fastest there   *)
(* is, the profile under execution agrees with it, no length and no speed  *)
(* goes beyond those of the lines, and a hold stops within what is queued. *)
(***************************************************************************)
EXTENDS GrblPlanner, FiniteSetTheorems, WellFoundedInduction, TLAPS

-----------------------------------------------------------------------------
(***************************************************************************)
(* Least and greatest elements, and the two smallest sets' minima.         *)
(***************************************************************************)
LEMMA LeastNat ==
  ASSUME NEW S \in SUBSET Nat, S # {}
  PROVE  \E x \in S : \A y \in S : x <= y
<1> DEFINE R == {ss \in Nat \X Nat : ss[1] < ss[2]}
<1>1. IsWellFoundedOn(R, Nat)
  BY NatLessThanWellFounded DEF OpToRel
<1>2. PICK x \in S : \A y \in S : ~(<<y, x>> \in R)
  <2> HIDE DEF R
  <2> QED
    BY <1>1, WFMin
<1>3. ASSUME NEW y \in S PROVE ~(y < x)
  <2> SUFFICES ASSUME y < x PROVE <<y, x>> \in R
    BY <1>2
  <2> QED
    OBVIOUS
<1> QED
  BY <1>3

(***************************************************************************)
(* What holds of the last number and passes on to the one before holds of  *)
(* all, and the same upwards.                                              *)
(***************************************************************************)
LEMMA Downward ==
  ASSUME NEW n \in Nat, NEW S,
         \A k \in 1 .. n : (k < n => k + 1 \in S) => k \in S
  PROVE  \A k \in 1 .. n : k \in S
<1> DEFINE Fails == {m \in Nat : m < n /\ n - m \notin S}
<1>1. SUFFICES ASSUME Fails # {} PROVE FALSE
  <2>1. ASSUME NEW k \in 1 .. n, k \notin S PROVE n - k \in Fails
    BY <2>1
  <2> QED
    BY <2>1
<1>2. PICK m \in Fails : \A y \in Fails : m <= y
  <2>1. Fails \in SUBSET Nat
    OBVIOUS
  <2> HIDE DEF Fails
  <2> QED
    BY <1>1, <2>1, LeastNat
<1>3. m # 0 => n - m + 1 \in S
  <2>1. m # 0 => m - 1 \in Nat /\ m - 1 < n /\ ~(m <= m - 1)
    OBVIOUS
  <2>2. m # 0 => n - (m - 1) \in S
    BY <1>2, <2>1
  <2> QED
    BY <2>2
<1>4. n - m \in 1 .. n
  OBVIOUS
<1> QED
  BY <1>3, <1>4

LEMMA Upward ==
  ASSUME NEW j \in Nat, NEW n \in Nat, NEW S,
         \A k \in j .. n : (j < k => k - 1 \in S) => k \in S
  PROVE  \A k \in j .. n : k \in S
<1> DEFINE Fails == {k \in j .. n : k \notin S}
<1>1. SUFFICES ASSUME Fails # {} PROVE FALSE
  OBVIOUS
<1>2. PICK k \in Fails : \A y \in Fails : k <= y
  <2>1. Fails \in SUBSET Nat
    OBVIOUS
  <2> HIDE DEF Fails
  <2> QED
    BY <1>1, <2>1, LeastNat
<1>3. j < k => k - 1 \in S
  <2>1. j < k => k - 1 \in j .. n /\ ~(k <= k - 1)
    OBVIOUS
  <2> QED
    BY <1>2, <2>1
<1> QED
  BY <1>3

(***************************************************************************)
(* The greatest of a bounded set of numbers is what Max() chooses.         *)
(***************************************************************************)
LEMMA MaxBounded ==
  ASSUME NEW n \in Nat, NEW S \in SUBSET (0 .. n), S # {}
  PROVE  Max(S) \in S /\ \A y \in S : Max(S) >= y
<1> DEFINE T == {n - x : x \in S}
<1>1. T # {}
  OBVIOUS
<1>a. \A x \in S : n - x \in Nat
  OBVIOUS
<1>b. T \in SUBSET Nat
  BY <1>a
<1>2. PICK t \in T : \A y \in T : t <= y
  BY <1>1, <1>b, LeastNat
<1>3. PICK x \in S : t = n - x
  BY <1>2
<1>4. \A y \in S : x >= y
  BY <1>2, <1>3
<1> QED
  BY <1>4 DEF Max

LEMMA MinPair ==
  ASSUME NEW a \in Int, NEW b \in Int
  PROVE  Min({a, b}) = IF a <= b THEN a ELSE b
<1>1. \E x \in {a, b} : \A y \in {a, b} : x <= y
  OBVIOUS
<1>2. Min({a, b}) \in {a, b} /\ \A y \in {a, b} : Min({a, b}) <= y
  BY <1>1 DEF Min
<1> QED
  BY <1>2

LEMMA MinTriple ==
  ASSUME NEW a \in Int, NEW b \in Int, NEW c \in Int
  PROVE  /\ Min({a, b, c}) \in {a, b, c}
         /\ Min({a, b, c}) <= a /\ Min({a, b, c}) <= b /\ Min({a, b, c}) <= c
<1>1. \E x \in {a, b, c} : \A y \in {a, b, c} : x <= y
  OBVIOUS
<1>2. Min({a, b, c}) \in {a, b, c} /\ \A y \in {a, b, c} : Min({a, b, c}) <= y
  BY <1>1 DEF Min
<1> QED
  BY <1>2

LEMMA MaxPair ==
  ASSUME NEW a \in Int, NEW b \in Int
  PROVE  Max({a, b}) = IF a >= b THEN a ELSE b
<1>1. \E x \in {a, b} : \A y \in {a, b} : x >= y
  OBVIOUS
<1>2. Max({a, b}) \in {a, b} /\ \A y \in {a, b} : Max({a, b}) >= y
  BY <1>1 DEF Max
<1> QED
  BY <1>2

-----------------------------------------------------------------------------
Entries == 0 .. BLOCK_BUFFER_SIZE - 1

(***************************************************************************)
(* Indexes of the ring: what wraps wraps once.                             *)
(***************************************************************************)
LEMMA ModSmall ==
  ASSUME NEW a \in Nat, a < BLOCK_BUFFER_SIZE
  PROVE  a % BLOCK_BUFFER_SIZE = a
  BY PlannerAssumption

LEMMA ModWrap ==
  ASSUME NEW a \in Nat, BLOCK_BUFFER_SIZE <= a,
         a < BLOCK_BUFFER_SIZE + BLOCK_BUFFER_SIZE
  PROVE  a % BLOCK_BUFFER_SIZE = a - BLOCK_BUFFER_SIZE
  BY PlannerAssumption

LEMMA ModBelow ==
  ASSUME NEW a \in Int, a < 0, -BLOCK_BUFFER_SIZE <= a
  PROVE  a % BLOCK_BUFFER_SIZE = a + BLOCK_BUFFER_SIZE
  BY PlannerAssumption

LEMMA IndexOf ==
  ASSUME NEW i \in Entries, NEW k \in Entries
  PROVE  /\ Index(i, k) \in Entries
         /\ Index(i, k) = IF i + k < BLOCK_BUFFER_SIZE THEN i + k
                          ELSE i + k - BLOCK_BUFFER_SIZE
<1>1. CASE i + k < BLOCK_BUFFER_SIZE
  BY <1>1, ModSmall, PlannerAssumption DEF Index, Entries
<1>2. CASE BLOCK_BUFFER_SIZE <= i + k
  BY <1>2, ModWrap, PlannerAssumption DEF Index, Entries
<1> QED
  BY <1>1, <1>2, PlannerAssumption DEF Entries

LEMMA DistanceOf ==
  ASSUME NEW i \in Entries, NEW j \in Entries
  PROVE  /\ Distance(i, j) \in Entries
         /\ Distance(i, j) = IF i <= j THEN j - i ELSE j - i + BLOCK_BUFFER_SIZE
<1>1. CASE i <= j
  BY <1>1, ModSmall, PlannerAssumption DEF Distance, Entries
<1>2. CASE j < i
  BY <1>2, ModBelow, PlannerAssumption DEF Distance, Entries
<1> QED
  BY <1>1, <1>2, PlannerAssumption DEF Entries

LEMMA NextOf ==
  ASSUME NEW i \in Entries
  PROVE  /\ plan_next_block_index(i) \in Entries
         /\ plan_next_block_index(i) = IF i + 1 < BLOCK_BUFFER_SIZE THEN i + 1
                                       ELSE i + 1 - BLOCK_BUFFER_SIZE
         /\ plan_next_block_index(i) = Index(i, 1)
  BY IndexOf, PlannerAssumption DEF plan_next_block_index, Entries

(***************************************************************************)
(* Counting on from the p-th entry.                                        *)
(***************************************************************************)
LEMMA IndexIndex ==
  ASSUME NEW i \in Entries, NEW p \in Entries, NEW k \in Entries,
         p + k < BLOCK_BUFFER_SIZE
  PROVE  Index(Index(i, p), k) = Index(i, p + k)
<1>1. p + k \in Entries
  BY PlannerAssumption DEF Entries
<1>2. Index(i, p) \in Entries
  BY IndexOf
<1>3. Index(i, p) = IF i + p < BLOCK_BUFFER_SIZE THEN i + p ELSE i + p - BLOCK_BUFFER_SIZE
  BY IndexOf
<1>4. Index(i, p + k) = IF i + (p + k) < BLOCK_BUFFER_SIZE THEN i + (p + k)
                        ELSE i + (p + k) - BLOCK_BUFFER_SIZE
  BY <1>1, IndexOf
<1>5. Index(Index(i, p), k) = IF Index(i, p) + k < BLOCK_BUFFER_SIZE
                              THEN Index(i, p) + k ELSE Index(i, p) + k - BLOCK_BUFFER_SIZE
  BY <1>2, IndexOf
<1> QED
  BY <1>2, <1>3, <1>4, <1>5, PlannerAssumption DEF Entries

LEMMA DistanceIndex ==
  ASSUME NEW i \in Entries, NEW k \in Entries
  PROVE  Distance(i, Index(i, k)) = k
<1> DEFINE j == Index(i, k)
<1>1. j \in Entries /\ j = IF i + k < BLOCK_BUFFER_SIZE THEN i + k
                           ELSE i + k - BLOCK_BUFFER_SIZE
  BY IndexOf
<1> HIDE DEF j
<1>2. Distance(i, j) = IF i <= j THEN j - i ELSE j - i + BLOCK_BUFFER_SIZE
  BY <1>1, DistanceOf
<1>3. Distance(i, j) = k
  BY <1>1, <1>2, PlannerAssumption DEF Entries
<1> QED
  BY <1>3 DEF j

LEMMA IndexDistance ==
  ASSUME NEW i \in Entries, NEW j \in Entries
  PROVE  Index(i, Distance(i, j)) = j
<1> DEFINE k == Distance(i, j)
<1>1. k \in Entries /\ k = IF i <= j THEN j - i ELSE j - i + BLOCK_BUFFER_SIZE
  BY DistanceOf
<1> HIDE DEF k
<1>2. Index(i, k) = IF i + k < BLOCK_BUFFER_SIZE THEN i + k ELSE i + k - BLOCK_BUFFER_SIZE
  BY <1>1, IndexOf
<1>3. Index(i, k) = j
  BY <1>1, <1>2, PlannerAssumption DEF Entries
<1> QED
  BY <1>3 DEF k

-----------------------------------------------------------------------------
(***************************************************************************)
(* The two passes compute what their loops say.  Planning again from       *)
(* scratch, as PlanOptimal does, begins with entry speeds below 0.         *)
(***************************************************************************)
Rings == [Entries -> [mm : Nat, entry : Int, max_entry : Nat, nominal : Nat]]

Least(a, b) == IF a <= b THEN a ELSE b

\* One turn of the reverse loop, of block k, given the speed after it.
Braked(ring, planned, n, k, after) ==
  LET block == ring[Index(planned, k)]
  IN  IF k = n THEN Least(block.max_entry, block.mm)
      ELSE IF block.entry = block.max_entry THEN block.entry
      ELSE Least(block.max_entry, after + block.mm)

(***************************************************************************)
(* The entry of the ring a pass looks at.                                  *)
(***************************************************************************)
LEMMA BlockType ==
  ASSUME NEW ring \in Rings, NEW planned \in Entries, NEW k \in Entries
  PROVE  /\ ring[Index(planned, k)].mm \in Nat
         /\ ring[Index(planned, k)].entry \in Int
         /\ ring[Index(planned, k)].max_entry \in Nat
         /\ ring[Index(planned, k)].nominal \in Nat
<1>1. Index(planned, k) \in Entries
  BY IndexOf
<1> QED
  BY <1>1 DEF Rings

LEMMA BrakedNat ==
  ASSUME NEW ring \in Rings, NEW planned \in Entries, NEW n \in Entries,
         NEW k \in 1 .. n, NEW after \in Nat
  PROVE  Braked(ring, planned, n, k, after) \in Nat
<1>1. k \in Entries
  BY PlannerAssumption DEF Entries
<1> QED
  BY <1>1, BlockType DEF Braked, Least

(***************************************************************************)
(* The loop, begun from the last block, gets through to any block.         *)
(***************************************************************************)
LEMMA ReverseRuns ==
  ASSUME NEW ring \in Rings, NEW planned \in Entries, NEW n \in Entries
  PROVE  \A m \in 0 .. n :
           \E f \in [n - m + 1 .. n -> Nat] :
             \A k \in n - m + 1 .. n :
               f[k] = Braked(ring, planned, n, k, IF k = n THEN 0 ELSE f[k + 1])
<1> DEFINE Runs(m) ==
      \E f \in [n - m + 1 .. n -> Nat] :
        \A k \in n - m + 1 .. n :
          f[k] = Braked(ring, planned, n, k, IF k = n THEN 0 ELSE f[k + 1])
    Fails == {m \in 0 .. n : ~Runs(m)}
<1>1. n \in Nat
  BY PlannerAssumption DEF Entries
<1>2. SUFFICES ASSUME Fails # {} PROVE FALSE
  OBVIOUS
<1>3. PICK m \in Fails : \A y \in Fails : m <= y
  <2>1. Fails \in SUBSET Nat
    BY <1>1
  <2> HIDE DEF Fails
  <2> QED
    BY <1>2, <2>1, LeastNat
<1>4. m # 0
  <2>1. SUFFICES Runs(0)
    OBVIOUS
  <2>2. n - 0 + 1 .. n = {}
    BY <1>1
  <2>3. [k \in n - 0 + 1 .. n |-> 0] \in [n - 0 + 1 .. n -> Nat]
    OBVIOUS
  <2> QED
    BY <2>2, <2>3
<1>5. Runs(m - 1)
  <2>1. m - 1 \in 0 .. n /\ ~(m <= m - 1)
    BY <1>1, <1>4
  <2> QED
    BY <1>3, <2>1
<1> DEFINE j == n - m + 1
<1>6. j \in 1 .. n /\ n - (m - 1) + 1 = j + 1 /\ m \in 0 .. n
  BY <1>1, <1>4
<1>7. PICK f \in [j + 1 .. n -> Nat] :
        \A k \in j + 1 .. n :
          f[k] = Braked(ring, planned, n, k, IF k = n THEN 0 ELSE f[k + 1])
  BY <1>5, <1>6
<1> HIDE DEF j
<1> DEFINE a == IF j = n THEN 0 ELSE f[j + 1]
           g == [k \in j .. n |-> IF k = j THEN Braked(ring, planned, n, j, a) ELSE f[k]]
<1>8. a \in Nat
  BY <1>1, <1>6
<1>9. g \in [j .. n -> Nat]
  <2>1. Braked(ring, planned, n, j, a) \in Nat
    BY <1>6, <1>8, BrakedNat
  <2>2. ASSUME NEW k \in j .. n, k # j PROVE f[k] \in Nat
    BY <1>1, <1>6, <2>2
  <2> QED
    BY <2>1, <2>2
<1>10. ASSUME NEW k \in j .. n
       PROVE  g[k] = Braked(ring, planned, n, k, IF k = n THEN 0 ELSE g[k + 1])
  <2>1. k < n => k + 1 \in j .. n /\ k + 1 # j /\ g[k + 1] = f[k + 1]
    BY <1>1, <1>6
  <2>2. CASE k = j
    BY <1>1, <1>6, <2>1, <2>2
  <2>3. CASE k # j
    <3>1. k \in j + 1 .. n /\ g[k] = f[k]
      BY <1>1, <1>6, <2>3
    <3>2. f[k] = Braked(ring, planned, n, k, IF k = n THEN 0 ELSE f[k + 1])
      BY <1>7, <3>1
    <3> QED
      BY <1>1, <1>6, <2>1, <3>1, <3>2
  <2> QED
    BY <2>2, <2>3
<1>11. Runs(m)
  <2> HIDE DEF g
  <2> QED
    BY <1>9, <1>10 DEF j
<1> QED
  BY <1>3, <1>11

LEMMA ReverseIs ==
  ASSUME NEW ring \in Rings, NEW planned \in Entries, NEW n \in Entries
  PROVE  /\ Reverse(ring, planned, n) \in [1 .. n -> Nat]
         /\ \A k \in 1 .. n :
              Reverse(ring, planned, n)[k] =
                Braked(ring, planned, n, k,
                       IF k = n THEN 0 ELSE Reverse(ring, planned, n)[k + 1])
<1> DEFINE block(k) == ring[Index(planned, k)]
    Pass(entry) ==
      [k \in 1 .. n |->
        IF k = n THEN Min({block(k).max_entry, block(k).mm})
        ELSE IF block(k).entry = block(k).max_entry THEN block(k).entry
        ELSE Min({block(k).max_entry, entry[k + 1] + block(k).mm})]
<1>1. n \in Nat /\ n - n + 1 = 1
  BY PlannerAssumption DEF Entries
<1>2. PICK f \in [1 .. n -> Nat] :
        \A k \in 1 .. n :
          f[k] = Braked(ring, planned, n, k, IF k = n THEN 0 ELSE f[k + 1])
  BY <1>1, ReverseRuns
<1>3. ASSUME NEW g, NEW k \in 1 .. n, k < n => g[k + 1] \in Nat
      PROVE  Pass(g)[k] = Braked(ring, planned, n, k, IF k = n THEN 0 ELSE g[k + 1])
  <2>1. k \in Entries
    BY <1>1, PlannerAssumption DEF Entries
  <2>2. block(k).mm \in Nat /\ block(k).max_entry \in Nat
    BY <2>1, BlockType
  <2>3. k # n => k < n
    BY <1>1
  <2> DEFINE mx == block(k).max_entry
             mm == block(k).mm
  <2>4. Min({mx, mm}) = Least(mx, mm)
    BY <2>2, MinPair DEF Least
  <2>5. k # n => Min({mx, g[k + 1] + mm}) = Least(mx, g[k + 1] + mm)
    <3> HIDE DEF mx, mm
    <3>1. k # n => g[k + 1] + mm \in Int /\ mx \in Int
      BY <1>3, <2>2, <2>3 DEF mx, mm
    <3> QED
      BY <3>1, MinPair DEF Least
  <2> QED
    BY <2>4, <2>5 DEF Braked
<1>4. f = Pass(f)
  <2>1. \A k \in 1 .. n : k < n => f[k + 1] \in Nat
    BY <1>1
  <2>2. \A k \in 1 .. n : f[k] = Pass(f)[k]
    BY <1>2, <1>3, <2>1
  <2> QED
    BY <2>2
<1>5. Reverse(ring, planned, n) = CHOOSE entry : entry = Pass(entry)
  BY DEF Reverse
<1> DEFINE r == Reverse(ring, planned, n)
<1>6. r = Pass(r)
  BY <1>4, <1>5
<1> DEFINE Good == {k \in 1 .. n : r[k] \in Nat}
<1>7. ASSUME NEW k \in 1 .. n, k < n => r[k + 1] \in Nat
      PROVE  r[k] = Braked(ring, planned, n, k, IF k = n THEN 0 ELSE r[k + 1])
  <2>1. Pass(r)[k] = Braked(ring, planned, n, k, IF k = n THEN 0 ELSE r[k + 1])
    BY <1>3, <1>7
  <2> HIDE DEF r, Pass
  <2> QED
    BY <1>6, <2>1
<1>8. DOMAIN r = 1 .. n /\ r = [k \in 1 .. n |-> r[k]]
  <2> HIDE DEF r
  <2> QED
    BY <1>6
<1> HIDE DEF r, Pass, block
<1>9. ASSUME NEW k \in 1 .. n, k < n => k + 1 \in Good
      PROVE  k \in Good
  <2>1. k < n => r[k + 1] \in Nat
    BY <1>9
  <2>2. r[k] = Braked(ring, planned, n, k, IF k = n THEN 0 ELSE r[k + 1])
    BY <1>7, <2>1
  <2>3. (IF k = n THEN 0 ELSE r[k + 1]) \in Nat
    BY <1>1, <2>1
  <2> QED
    BY <2>2, <2>3, BrakedNat
<1>10. \A k \in 1 .. n : r[k] \in Nat
  <2> HIDE DEF Good
  <2>1. \A k \in 1 .. n : k \in Good
    BY <1>1, <1>9, Downward
  <2> QED
    BY <2>1 DEF Good
<1>11. r \in [1 .. n -> Nat]
  BY <1>8, <1>10
<1>12. ASSUME NEW k \in 1 .. n
       PROVE  r[k] = Braked(ring, planned, n, k, IF k = n THEN 0 ELSE r[k + 1])
  <2>1. k < n => r[k + 1] \in Nat
    BY <1>1, <1>10
  <2> QED
    BY <1>7, <2>1
<1> QED
  BY <1>11, <1>12 DEF r

\* One turn of the forward loop, given the speed before the block.
Accelerated(ring, planned, n, k, before) ==
  Least(Reverse(ring, planned, n)[k], before + ring[Index(planned, k - 1)].mm)

LEMMA AcceleratedNat ==
  ASSUME NEW ring \in Rings, NEW planned \in Entries, NEW n \in Entries,
         NEW k \in 1 .. n, NEW before \in Nat
  PROVE  Accelerated(ring, planned, n, k, before) \in Nat
<1>1. k - 1 \in Entries
  BY PlannerAssumption DEF Entries
<1>3. Reverse(ring, planned, n)[k] \in Nat
  <2>1. Reverse(ring, planned, n) \in [1 .. n -> Nat]
    BY ReverseIs
  <2> QED
    BY <2>1
<1>2. ring[Index(planned, k - 1)].mm \in Nat
  BY <1>1, BlockType
<1> QED
  BY <1>2, <1>3 DEF Accelerated, Least

LEMMA ForwardRuns ==
  ASSUME NEW ring \in Rings, NEW planned \in Entries, NEW n \in Entries,
         ring[planned].entry \in Nat
  PROVE  \E f \in [0 .. n -> Nat] :
           /\ f[0] = ring[planned].entry
           /\ \A k \in 1 .. n : f[k] = Accelerated(ring, planned, n, k, f[k - 1])
<1> DEFINE Runs(m) ==
      \E f \in [0 .. m -> Nat] :
        /\ f[0] = ring[planned].entry
        /\ \A k \in 1 .. m : f[k] = Accelerated(ring, planned, n, k, f[k - 1])
    S == {m \in 0 .. n : Runs(m)}
<1>1. n \in Nat /\ 0 \in Nat
  BY PlannerAssumption DEF Entries
<1>2. ASSUME NEW m \in 0 .. n, 0 < m => m - 1 \in S
      PROVE  m \in S
  <2>1. CASE m = 0
    <3> DEFINE f == [k \in 0 .. 0 |-> ring[planned].entry]
    <3>1. f \in [0 .. 0 -> Nat] /\ f[0] = ring[planned].entry
      OBVIOUS
    <3>2. 1 .. 0 = {}
      OBVIOUS
    <3>3. Runs(0)
      BY <3>1, <3>2
    <3> QED
      BY <2>1, <3>3
  <2>2. CASE m # 0
    <3>1. m - 1 \in S /\ m \in 1 .. n
      BY <1>1, <1>2, <2>2
    <3>2. PICK f \in [0 .. m - 1 -> Nat] :
            /\ f[0] = ring[planned].entry
            /\ \A k \in 1 .. m - 1 : f[k] = Accelerated(ring, planned, n, k, f[k - 1])
      BY <3>1
    <3> DEFINE a == Accelerated(ring, planned, n, m, f[m - 1])
               g == [k \in 0 .. m |-> IF k = m THEN a ELSE f[k]]
    <3>3. f[m - 1] \in Nat
      BY <3>1, <3>2
    <3>4. a \in Nat
      BY <3>1, <3>3, AcceleratedNat
    <3> HIDE DEF a
    <3>5. g \in [0 .. m -> Nat]
      <4>1. ASSUME NEW k \in 0 .. m, k # m PROVE f[k] \in Nat
        BY <3>1, <4>1
      <4> QED
        BY <3>4, <4>1
    <3>6. g[0] = ring[planned].entry
      BY <3>1, <3>2
    <3>7. ASSUME NEW k \in 1 .. m
          PROVE  g[k] = Accelerated(ring, planned, n, k, g[k - 1])
      <4>1. k - 1 \in 0 .. m /\ k - 1 # m /\ g[k - 1] = f[k - 1]
        BY <3>1
      <4>2. CASE k = m
        BY <3>1, <4>1, <4>2 DEF a
      <4>3. CASE k # m
        <5>1. k \in 1 .. m - 1 /\ g[k] = f[k]
          BY <3>1, <4>3
        <5> HIDE DEF g
        <5> QED
          BY <3>2, <4>1, <5>1
      <4> QED
        BY <4>2, <4>3
    <3>8. Runs(m)
      <4> HIDE DEF g
      <4> QED
        BY <3>5, <3>6, <3>7
    <3> QED
      BY <3>8
  <2> QED
    BY <2>1, <2>2
<1>3. \A m \in 0 .. n : m \in S
  <2> HIDE DEF S
  <2> QED
    BY <1>1, <1>2, Upward
<1>4. n \in S
  <2> HIDE DEF S
  <2> QED
    BY <1>1, <1>3
<1> QED
  BY <1>4

LEMMA ForwardIs ==
  ASSUME NEW ring \in Rings, NEW planned \in Entries, NEW n \in Entries,
         ring[planned].entry \in Nat
  PROVE  /\ Forward(ring, planned, n) \in [0 .. n -> Nat]
         /\ Forward(ring, planned, n)[0] = ring[planned].entry
         /\ \A k \in 1 .. n :
              Forward(ring, planned, n)[k] =
                Accelerated(ring, planned, n, k, Forward(ring, planned, n)[k - 1])
<1> DEFINE reverse == Reverse(ring, planned, n)
    Pass(entry) ==
      [k \in 0 .. n |->
        IF k = 0 THEN ring[planned].entry
        ELSE IF entry[k - 1] < reverse[k]
        THEN Min({reverse[k], entry[k - 1] + ring[Index(planned, k - 1)].mm})
        ELSE reverse[k]]
<1>1. n \in Nat
  BY PlannerAssumption DEF Entries
<1>2. PICK f \in [0 .. n -> Nat] :
        /\ f[0] = ring[planned].entry
        /\ \A k \in 1 .. n : f[k] = Accelerated(ring, planned, n, k, f[k - 1])
  BY ForwardRuns
<1>3. ASSUME NEW g, NEW k \in 1 .. n, g[k - 1] \in Nat
      PROVE  Pass(g)[k] = Accelerated(ring, planned, n, k, g[k - 1])
  <2>1. k - 1 \in Entries
    BY <1>1, PlannerAssumption DEF Entries
  <2> DEFINE mm == ring[Index(planned, k - 1)].mm
             r  == reverse[k]
             b  == g[k - 1]
  <2>2. mm \in Nat
    BY <2>1, BlockType
  <2>3. r \in Nat
    <3>1. reverse \in [1 .. n -> Nat]
      BY ReverseIs
    <3> QED
      BY <3>1
  <2>4. Pass(g)[k] = IF b < r THEN Min({r, b + mm}) ELSE r
    BY <1>1
  <2>5. b \in Nat
    BY <1>3
  <2>6. Accelerated(ring, planned, n, k, b) = Least(r, b + mm)
    BY DEF Accelerated
  <2> HIDE DEF mm, r, b
  <2>7. Min({r, b + mm}) = Least(r, b + mm)
    BY <2>2, <2>3, <2>5, MinPair DEF Least
  <2>8. (IF b < r THEN Min({r, b + mm}) ELSE r) = Least(r, b + mm)
    BY <2>2, <2>3, <2>5, <2>7 DEF Least
  <2> QED
    BY <2>4, <2>6, <2>8 DEF b
<1>4. f = Pass(f)
  <2>1. \A k \in 1 .. n : f[k - 1] \in Nat
    BY <1>1
  <2>2. \A k \in 1 .. n : f[k] = Pass(f)[k]
    BY <1>2, <1>3, <2>1
  <2>3. f[0] = Pass(f)[0]
    BY <1>1, <1>2
  <2>4. \A k \in 0 .. n : f[k] = Pass(f)[k]
    <3> HIDE DEF Pass
    <3> QED
      BY <1>1, <2>2, <2>3
  <2> QED
    BY <2>4
<1>5. Forward(ring, planned, n) = CHOOSE entry : entry = Pass(entry)
  BY DEF Forward
<1> DEFINE r == Forward(ring, planned, n)
<1>6. r = Pass(r)
  BY <1>4, <1>5
<1>7. DOMAIN r = 0 .. n /\ r = [k \in 0 .. n |-> r[k]]
  <2> HIDE DEF r
  <2> QED
    BY <1>6
<1>8. r[0] = ring[planned].entry
  <2>1. Pass(r)[0] = ring[planned].entry
    BY <1>1
  <2> HIDE DEF r, Pass
  <2> QED
    BY <1>6, <2>1
<1>9. ASSUME NEW k \in 1 .. n, r[k - 1] \in Nat
      PROVE  r[k] = Accelerated(ring, planned, n, k, r[k - 1])
  <2>1. Pass(r)[k] = Accelerated(ring, planned, n, k, r[k - 1])
    BY <1>3, <1>9
  <2> HIDE DEF r, Pass
  <2> QED
    BY <1>6, <2>1
<1> HIDE DEF r, Pass, reverse
<1> DEFINE Good == {k \in 0 .. n : r[k] \in Nat}
<1>10. ASSUME NEW k \in 0 .. n, 0 < k => k - 1 \in Good
       PROVE  k \in Good
  <2>1. CASE k = 0
    BY <1>8, <2>1
  <2>2. CASE k # 0
    <3>1. k \in 1 .. n /\ r[k - 1] \in Nat
      BY <1>1, <1>10, <2>2
    <3>2. Accelerated(ring, planned, n, k, r[k - 1]) \in Nat
      BY <3>1, AcceleratedNat
    <3>3. r[k] = Accelerated(ring, planned, n, k, r[k - 1])
      BY <1>9, <3>1
    <3> QED
      BY <3>2, <3>3
  <2> QED
    BY <2>1, <2>2
<1>11. \A k \in 0 .. n : r[k] \in Nat
  <2> HIDE DEF Good
  <2>1. \A k \in 0 .. n : k \in Good
    BY <1>1, <1>10, Upward
  <2> QED
    BY <2>1 DEF Good
<1>12. ASSUME NEW k \in 1 .. n
       PROVE  r[k] = Accelerated(ring, planned, n, k, r[k - 1])
  BY <1>1, <1>9, <1>11
<1> QED
  BY <1>7, <1>8, <1>11, <1>12 DEF r

-----------------------------------------------------------------------------
(* Plans, as functions that give the k-th block from the i-th entry of a     *)
(* ring its entry speed.                                                     *)

\* The machine can follow the plan g as far as block m.
Followed(ring, i, m, g) ==
  \A k \in 1 .. m :
    /\ g[k] <= ring[Index(i, k)].max_entry
    /\ g[k] <= g[k - 1] + ring[Index(i, k - 1)].mm
    /\ g[k - 1] <= g[k] + ring[Index(i, k - 1)].mm

\* It can stop at the end of block m.
Stopped(ring, i, m, g) == g[m] <= ring[Index(i, m)].mm

\* What a plan owes to its successors: it does not enter a block faster than
\* it can brake.
Brakes(ring, i, n, g) ==
  /\ \A k \in 1 .. n : g[k] <= ring[Index(i, k)].max_entry
  /\ \A k \in 1 .. n : k < n => g[k] <= g[k + 1] + ring[Index(i, k)].mm
  /\ Stopped(ring, i, n, g)

(***************************************************************************)
(* What the forward pass makes of the reverse pass.                        *)
(***************************************************************************)
LEMMA Turns ==
  ASSUME NEW ring \in Rings, NEW planned \in Entries, NEW n \in Entries,
         ring[planned].entry \in Nat, NEW k \in 1 .. n
  PROVE  LET reverse == Reverse(ring, planned, n)
             forward == Forward(ring, planned, n)
             block(j) == ring[Index(planned, j)]
         IN  /\ k - 1 \in Entries /\ k \in Entries
             /\ block(k).max_entry \in Nat /\ block(k).mm \in Nat
             /\ block(k - 1).mm \in Nat
             /\ reverse[k] \in Nat /\ forward[k] \in Nat /\ forward[k - 1] \in Nat
             /\ forward[k] = Least(reverse[k], forward[k - 1] + block(k - 1).mm)
             /\ k = n => reverse[k] = Least(block(k).max_entry, block(k).mm)
             /\ k < n /\ block(k).entry = block(k).max_entry =>
                  reverse[k] = block(k).max_entry
             /\ k < n /\ block(k).entry # block(k).max_entry =>
                  reverse[k] = Least(block(k).max_entry, reverse[k + 1] + block(k).mm)
             /\ k < n => reverse[k + 1] \in Nat
<1> DEFINE reverse == Reverse(ring, planned, n)
           forward == Forward(ring, planned, n)
           block(j) == ring[Index(planned, j)]
<1>1. n \in Nat /\ k - 1 \in Entries /\ k \in Entries
  BY PlannerAssumption DEF Entries
<1>2. /\ block(k).max_entry \in Nat /\ block(k).mm \in Nat
      /\ block(k - 1).mm \in Nat
  BY <1>1, BlockType
<1>3. /\ reverse \in [1 .. n -> Nat]
      /\ reverse[k] = Braked(ring, planned, n, k, IF k = n THEN 0 ELSE reverse[k + 1])
  BY ReverseIs
<1>4. /\ forward \in [0 .. n -> Nat]
      /\ forward[k] = Accelerated(ring, planned, n, k, forward[k - 1])
  BY ForwardIs
<1>5. reverse[k] \in Nat /\ (k < n => reverse[k + 1] \in Nat)
  <2> HIDE DEF reverse
  <2> QED
    BY <1>1, <1>3
<1>6. forward[k] \in Nat /\ forward[k - 1] \in Nat
  <2> HIDE DEF forward
  <2> QED
    BY <1>1, <1>4
<1>7. k < n => k # n
  BY <1>1
<1>8. forward[k] = Least(reverse[k], forward[k - 1] + block(k - 1).mm)
  BY <1>4 DEF Accelerated
<1>9. reverse[k] = IF k = n THEN Least(block(k).max_entry, block(k).mm)
                   ELSE IF block(k).entry = block(k).max_entry THEN block(k).entry
                   ELSE Least(block(k).max_entry, reverse[k + 1] + block(k).mm)
  BY <1>3 DEF Braked
<1> HIDE DEF reverse, forward, block
<1>10. /\ k = n => reverse[k] = Least(block(k).max_entry, block(k).mm)
       /\ k < n /\ block(k).entry = block(k).max_entry =>
            reverse[k] = block(k).max_entry
       /\ k < n /\ block(k).entry # block(k).max_entry =>
            reverse[k] = Least(block(k).max_entry, reverse[k + 1] + block(k).mm)
  BY <1>7, <1>9
<1> QED
  BY <1>1, <1>2, <1>5, <1>6, <1>8, <1>10 DEF reverse, forward, block

(***************************************************************************)
(* Planning again slows down nothing that could be braked for before, and  *)
(* what it computes can be braked for.                                     *)
(***************************************************************************)
LEMMA ReverseBrakes ==
  ASSUME NEW ring \in Rings, NEW planned \in Entries, NEW n \in Entries,
         ring[planned].entry \in Nat,
         NEW old \in [1 .. n -> Nat], Brakes(ring, planned, n, old),
         \A k \in 1 .. n :
           k < n /\ ring[Index(planned, k)].entry = ring[Index(planned, k)].max_entry
             => old[k] = ring[Index(planned, k)].entry
  PROVE  /\ \A k \in 1 .. n : old[k] <= Reverse(ring, planned, n)[k]
         /\ n > 0 => Brakes(ring, planned, n, Reverse(ring, planned, n))
<1> DEFINE reverse == Reverse(ring, planned, n)
           mm(k) == ring[Index(planned, k)].mm
           max(k) == ring[Index(planned, k)].max_entry
           entry(k) == ring[Index(planned, k)].entry
           S == {k \in 1 .. n : old[k] <= reverse[k]}
<1>1. n \in Nat
  BY PlannerAssumption DEF Entries
<1>2. ASSUME NEW k \in 1 .. n
      PROVE  /\ max(k) \in Nat /\ mm(k) \in Nat /\ reverse[k] \in Nat
             /\ k = n => reverse[k] = Least(max(k), mm(k))
             /\ k < n /\ entry(k) = max(k) => reverse[k] = max(k)
             /\ k < n /\ entry(k) # max(k) => reverse[k] = Least(max(k), reverse[k + 1] + mm(k))
             /\ k < n => reverse[k + 1] \in Nat
  BY Turns
<1>3. ASSUME NEW k \in 1 .. n
      PROVE  /\ old[k] \in Nat /\ old[k] <= max(k)
             /\ k < n => old[k + 1] \in Nat /\ old[k] <= old[k + 1] + mm(k)
             /\ k = n => old[k] <= mm(k)
             /\ k < n /\ entry(k) = max(k) => old[k] = entry(k)
  <2>1. k < n => k + 1 \in 1 .. n
    BY <1>1
  <2> QED
    BY <2>1 DEF Brakes, Stopped
<1> HIDE DEF reverse, mm, max, entry
<1>4. ASSUME NEW k \in 1 .. n, k < n => k + 1 \in S
      PROVE  k \in S
  <2>1. k < n => old[k + 1] <= reverse[k + 1]
    BY <1>4
  <2>2. old[k] <= reverse[k]
    <3>1. CASE k = n
      BY <1>2, <1>3, <3>1 DEF Least
    <3>2. CASE k < n /\ entry(k) = max(k)
      BY <1>2, <1>3, <3>2
    <3>3. CASE k < n /\ entry(k) # max(k)
      <4>1. reverse[k] = Least(max(k), reverse[k + 1] + mm(k))
        BY <1>2, <3>3
      <4>2. max(k) \in Nat /\ mm(k) \in Nat /\ reverse[k + 1] \in Nat
        BY <1>2, <3>3
      <4>3. /\ old[k] \in Nat /\ old[k] <= max(k)
            /\ old[k + 1] \in Nat /\ old[k] <= old[k + 1] + mm(k)
        BY <1>3, <3>3
      <4> QED
        BY <2>1, <3>3, <4>1, <4>2, <4>3 DEF Least
    <3> QED
      BY <1>1, <3>1, <3>2, <3>3
  <2> QED
    BY <2>2
<1>5. \A k \in 1 .. n : old[k] <= reverse[k]
  <2> HIDE DEF S
  <2>1. \A k \in 1 .. n : k \in S
    BY <1>1, <1>4, Downward
  <2> QED
    BY <2>1 DEF S
<1>6. ASSUME NEW k \in 1 .. n
      PROVE  /\ reverse[k] <= max(k)
             /\ k < n => reverse[k] <= reverse[k + 1] + mm(k)
             /\ k = n => reverse[k] <= mm(k)
  <2>1. k < n => old[k + 1] <= reverse[k + 1]
    BY <1>1, <1>5
  <2>2. /\ max(k) \in Nat /\ mm(k) \in Nat
        /\ k < n => reverse[k + 1] \in Nat
    BY <1>2
  <2>3. CASE k = n
    <3>1. reverse[k] = Least(max(k), mm(k))
      BY <1>2, <2>3
    <3> QED
      BY <1>1, <2>2, <2>3, <3>1 DEF Least
  <2>4. CASE k < n /\ entry(k) = max(k)
    <3>1. reverse[k] = max(k) /\ old[k] = max(k)
      BY <1>2, <1>3, <2>4
    <3>2. old[k + 1] \in Nat /\ old[k] <= old[k + 1] + mm(k)
      BY <1>3, <2>4
    <3> QED
      BY <2>1, <2>2, <2>4, <3>1, <3>2
  <2>5. CASE k < n /\ entry(k) # max(k)
    <3>1. reverse[k] = Least(max(k), reverse[k + 1] + mm(k))
      BY <1>2, <2>5
    <3> QED
      BY <2>2, <2>5, <3>1 DEF Least
  <2> QED
    BY <1>1, <2>3, <2>4, <2>5
<1>7. n > 0 => n \in 1 .. n
  BY <1>1
<1> QED
  BY <1>5, <1>6, <1>7 DEF Brakes, Stopped, reverse, mm, max, entry

(***************************************************************************)
(* The plan the two passes compute can be followed.                        *)
(***************************************************************************)
LEMMA PassFollowed ==
  ASSUME NEW ring \in Rings, NEW planned \in Entries, NEW n \in Entries, n > 0,
         ring[planned].entry \in Nat,
         NEW old \in [1 .. n -> Nat], Brakes(ring, planned, n, old),
         \A k \in 1 .. n :
           k < n /\ ring[Index(planned, k)].entry = ring[Index(planned, k)].max_entry
             => old[k] = ring[Index(planned, k)].entry,
         ring[planned].entry <= old[1] + ring[planned].mm
  PROVE  /\ Followed(ring, planned, n, Forward(ring, planned, n))
         /\ Stopped(ring, planned, n, Forward(ring, planned, n))
<1> DEFINE reverse == Reverse(ring, planned, n)
           forward == Forward(ring, planned, n)
           mm(k) == ring[Index(planned, k)].mm
           max(k) == ring[Index(planned, k)].max_entry
<1>1. n \in Nat /\ n \in 1 .. n /\ 1 \in 1 .. n /\ 0 \in Entries
  BY PlannerAssumption DEF Entries
<1>2. ASSUME NEW k \in 1 .. n
      PROVE  /\ max(k) \in Nat /\ mm(k) \in Nat /\ mm(k - 1) \in Nat
             /\ reverse[k] \in Nat /\ forward[k] \in Nat /\ forward[k - 1] \in Nat
             /\ forward[k] = Least(reverse[k], forward[k - 1] + mm(k - 1))
  BY Turns
<1>3. /\ \A k \in 1 .. n : old[k] <= reverse[k]
      /\ Brakes(ring, planned, n, reverse)
  BY ReverseBrakes
<1>4. forward[0] = ring[planned].entry
  BY ForwardIs
<1>5. Index(planned, 0) = planned
  BY <1>1, IndexOf, PlannerAssumption DEF Entries
<1>6. forward[0] <= reverse[1] + mm(0)
  <2>1. old[1] \in Nat /\ old[1] <= reverse[1] /\ reverse[1] \in Nat
    BY <1>1, <1>2, <1>3
  <2>2. ring[planned].mm \in Nat
    BY DEF Rings
  <2> HIDE DEF forward, reverse
  <2> QED
    BY <1>4, <1>5, <2>1, <2>2
<1>7. ASSUME NEW k \in 1 .. n
      PROVE  reverse[k] <= max(k) /\ (1 < k => reverse[k - 1] <= reverse[k] + mm(k - 1))
  <2>1. 1 < k => k - 1 \in 1 .. n /\ k - 1 < n /\ (k - 1) + 1 = k
    BY <1>1
  <2> HIDE DEF reverse
  <2> QED
    BY <1>3, <2>1 DEF Brakes
<1>8. reverse[n] <= mm(n)
  BY <1>3 DEF Brakes, Stopped
<1> HIDE DEF reverse, forward, mm, max
<1>9. ASSUME NEW k \in 1 .. n
      PROVE  /\ forward[k] <= max(k)
             /\ forward[k] <= forward[k - 1] + mm(k - 1)
             /\ forward[k - 1] <= forward[k] + mm(k - 1)
  <2>1. forward[k] <= reverse[k] /\ forward[k] <= forward[k - 1] + mm(k - 1)
    <3>1. /\ mm(k - 1) \in Nat /\ reverse[k] \in Nat /\ forward[k - 1] \in Nat
          /\ forward[k] = Least(reverse[k], forward[k - 1] + mm(k - 1))
      BY <1>2
    <3> QED
      BY <3>1 DEF Least
  <2>2. CASE k = 1
    BY <1>2, <1>6, <1>7, <2>1, <2>2 DEF Least
  <2>3. CASE k # 1
    <3>1. 1 < k /\ k - 1 \in 1 .. n
      BY <1>1, <2>3
    <3>2. forward[k - 1] = Least(reverse[k - 1], forward[k - 2] + mm(k - 2))
      <4>1. (k - 1) - 1 = k - 2
        OBVIOUS
      <4> QED
        BY <1>2, <3>1, <4>1
    <3>3. /\ mm(k - 1) \in Nat /\ reverse[k] \in Nat
          /\ forward[k] \in Nat /\ forward[k - 1] \in Nat /\ reverse[k - 1] \in Nat
          /\ forward[k] = Least(reverse[k], forward[k - 1] + mm(k - 1))
      BY <1>2, <3>1
    <3>4. forward[k - 2] \in Nat /\ mm(k - 2) \in Nat
      <4>1. (k - 1) - 1 = k - 2
        OBVIOUS
      <4> QED
        BY <1>2, <3>1, <4>1
    <3>5. reverse[k] <= max(k) /\ reverse[k - 1] <= reverse[k] + mm(k - 1)
      BY <1>7, <3>1
    <3>6. max(k) \in Nat
      BY <1>2
    <3>7. forward[k] <= max(k)
      BY <2>1, <3>3, <3>5, <3>6
    <3>8. forward[k - 1] <= reverse[k - 1] /\ forward[k - 1] <= reverse[k] + mm(k - 1)
      <4>1. forward[k - 1] <= reverse[k - 1]
        BY <3>2, <3>3, <3>4 DEF Least
      <4> QED
        BY <3>3, <3>5, <4>1
    <3>9. forward[k - 1] <= forward[k] + mm(k - 1)
      BY <3>3, <3>8 DEF Least
    <3> QED
      BY <2>1, <3>7, <3>9
  <2> QED
    BY <2>2, <2>3
<1>10. forward[n] <= mm(n)
  <2>1. /\ forward[n] = Least(reverse[n], forward[n - 1] + mm(n - 1))
        /\ reverse[n] \in Nat /\ mm(n) \in Nat /\ mm(n - 1) \in Nat
        /\ forward[n - 1] \in Nat
    BY <1>1, <1>2
  <2> QED
    BY <1>8, <2>1 DEF Least
<1> QED
  BY <1>9, <1>10 DEF Followed, Stopped, reverse, forward, mm, max

(***************************************************************************)
(* No plan that can be followed and stopped is faster than the one the two *)
(* passes compute.                                                         *)
(***************************************************************************)
LEMMA PassFastest ==
  ASSUME NEW ring \in Rings, NEW planned \in Entries, NEW n \in Entries,
         ring[planned].entry \in Nat,
         NEW g \in [0 .. n -> Nat],
         Followed(ring, planned, n, g), Stopped(ring, planned, n, g),
         g[0] <= ring[planned].entry
  PROVE  \A k \in 0 .. n : g[k] <= Forward(ring, planned, n)[k]
<1> DEFINE reverse == Reverse(ring, planned, n)
           forward == Forward(ring, planned, n)
           mm(k) == ring[Index(planned, k)].mm
           max(k) == ring[Index(planned, k)].max_entry
           entry(k) == ring[Index(planned, k)].entry
           Slower == {k \in 1 .. n : g[k] <= reverse[k]}
           S == {k \in 0 .. n : g[k] <= forward[k]}
<1>1. n \in Nat
  BY PlannerAssumption DEF Entries
<1>2. ASSUME NEW k \in 1 .. n
      PROVE  /\ max(k) \in Nat /\ mm(k) \in Nat /\ mm(k - 1) \in Nat
             /\ reverse[k] \in Nat /\ forward[k] \in Nat /\ forward[k - 1] \in Nat
             /\ forward[k] = Least(reverse[k], forward[k - 1] + mm(k - 1))
             /\ k = n => reverse[k] = Least(max(k), mm(k))
             /\ k < n /\ entry(k) = max(k) => reverse[k] = max(k)
             /\ k < n /\ entry(k) # max(k) => reverse[k] = Least(max(k), reverse[k + 1] + mm(k))
             /\ k < n => reverse[k + 1] \in Nat
  BY Turns
<1>3. ASSUME NEW k \in 1 .. n
      PROVE  /\ g[k] \in Nat /\ g[k - 1] \in Nat /\ g[k] <= max(k)
             /\ g[k] <= g[k - 1] + mm(k - 1)
             /\ k < n => g[k + 1] \in Nat /\ g[k] <= g[k + 1] + mm(k)
             /\ k = n => g[k] <= mm(k)
  <2>1. k < n => k + 1 \in 1 .. n /\ k + 1 \in 0 .. n /\ (k + 1) - 1 = k
    BY <1>1
  <2>2. k \in 0 .. n /\ k - 1 \in 0 .. n
    BY <1>1
  <2> QED
    BY <2>1, <2>2 DEF Followed, Stopped
<1>4. forward[0] = ring[planned].entry
  BY ForwardIs
<1> HIDE DEF reverse, forward, mm, max, entry
<1>5. ASSUME NEW k \in 1 .. n, k < n => k + 1 \in Slower
      PROVE  k \in Slower
  <2>1. CASE k = n
    <3>1. reverse[k] = Least(max(k), mm(k)) /\ max(k) \in Nat /\ mm(k) \in Nat
      BY <1>2, <2>1
    <3> QED
      BY <1>3, <2>1, <3>1 DEF Least
  <2>2. CASE k < n /\ entry(k) = max(k)
    BY <1>2, <1>3, <2>2
  <2>3. CASE k < n /\ entry(k) # max(k)
    <3>1. /\ reverse[k] = Least(max(k), reverse[k + 1] + mm(k))
          /\ max(k) \in Nat /\ mm(k) \in Nat /\ reverse[k + 1] \in Nat
      BY <1>2, <2>3
    <3>2. /\ g[k] \in Nat /\ g[k] <= max(k)
          /\ g[k + 1] \in Nat /\ g[k] <= g[k + 1] + mm(k)
      BY <1>3, <2>3
    <3>3. g[k + 1] <= reverse[k + 1]
      BY <1>5, <2>3
    <3>4. g[k] <= reverse[k]
      BY <3>1, <3>2, <3>3 DEF Least
    <3> QED
      BY <3>4
  <2> QED
    BY <1>1, <2>1, <2>2, <2>3
<1>6. \A k \in 1 .. n : g[k] <= reverse[k]
  <2> HIDE DEF Slower
  <2>1. \A k \in 1 .. n : k \in Slower
    BY <1>1, <1>5, Downward
  <2> QED
    BY <2>1 DEF Slower
<1>7. ASSUME NEW k \in 0 .. n, 0 < k => k - 1 \in S
      PROVE  k \in S
  <2>1. CASE k = 0
    BY <1>4, <2>1
  <2>2. CASE k # 0
    <3>1. k \in 1 .. n /\ g[k - 1] <= forward[k - 1]
      BY <1>1, <1>7, <2>2
    <3>2. /\ forward[k] = Least(reverse[k], forward[k - 1] + mm(k - 1))
          /\ reverse[k] \in Nat /\ forward[k - 1] \in Nat /\ mm(k - 1) \in Nat
      BY <1>2, <3>1
    <3>3. /\ g[k] \in Nat /\ g[k - 1] \in Nat
          /\ g[k] <= g[k - 1] + mm(k - 1) /\ g[k] <= reverse[k]
      BY <1>3, <1>6, <3>1
    <3>4. g[k] <= forward[k]
      BY <3>1, <3>2, <3>3 DEF Least
    <3> QED
      BY <3>4
  <2> QED
    BY <2>1, <2>2
<1>8. \A k \in 0 .. n : k \in S
  <2> HIDE DEF S
  <2> QED
    BY <1>1, <1>7, Upward
<1> QED
  BY <1>8 DEF forward

(***************************************************************************)
(* A breakpoint is final: no plan whatever follows it is faster so far.    *)
(***************************************************************************)
LEMMA PassFinal ==
  ASSUME NEW ring \in Rings, NEW planned \in Entries, NEW n \in Entries,
         ring[planned].entry \in Nat,
         NEW m \in Breakpoints(ring, planned, n),
         NEW g \in [0 .. m -> Nat], Followed(ring, planned, m, g),
         g[0] <= ring[planned].entry
  PROVE  \A k \in 0 .. m : g[k] <= Forward(ring, planned, n)[k]
<1> DEFINE reverse == Reverse(ring, planned, n)
           forward == Forward(ring, planned, n)
           mm(k) == ring[Index(planned, k)].mm
           max(k) == ring[Index(planned, k)].max_entry
           entry(k) == ring[Index(planned, k)].entry
           Faster == {k \in 0 .. m : ~(g[k] <= forward[k])}
<1>1. n \in Nat /\ m \in 1 .. n
  BY PlannerAssumption DEF Entries, Breakpoints
<1>2. forward[m] < reverse[m] \/ forward[m] = max(m)
  BY DEF Breakpoints
<1>3. ASSUME NEW k \in 1 .. m
      PROVE  /\ max(k) \in Nat /\ mm(k) \in Nat /\ mm(k - 1) \in Nat
             /\ reverse[k] \in Nat /\ forward[k] \in Nat /\ forward[k - 1] \in Nat
             /\ forward[k] = Least(reverse[k], forward[k - 1] + mm(k - 1))
             /\ k < n /\ entry(k) = max(k) => reverse[k] = max(k)
             /\ k < n /\ entry(k) # max(k) => reverse[k] = Least(max(k), reverse[k + 1] + mm(k))
  <2>1. k \in 1 .. n
    BY <1>1
  <2> QED
    BY <2>1, Turns
<1>4. ASSUME NEW k \in 1 .. m
      PROVE  /\ g[k] \in Nat /\ g[k - 1] \in Nat /\ g[k] <= max(k)
             /\ g[k] <= g[k - 1] + mm(k - 1) /\ g[k - 1] <= g[k] + mm(k - 1)
  <2>1. k \in 0 .. m /\ k - 1 \in 0 .. m
    BY <1>1
  <2> QED
    BY <2>1 DEF Followed
<1>5. forward[0] = ring[planned].entry
  BY ForwardIs
<1> HIDE DEF reverse, forward, mm, max, entry
<1>6. SUFFICES ASSUME Faster # {} PROVE FALSE
  BY DEF forward
<1>7. PICK v \in Faster : \A y \in Faster : v <= y
  <2>1. Faster \in SUBSET Nat
    BY <1>1
  <2> HIDE DEF Faster
  <2> QED
    BY <1>6, <2>1, LeastNat
<1>8. v \in 1 .. m
  BY <1>1, <1>5, <1>7
<1>9. forward[v] = reverse[v] /\ reverse[v] < g[v]
  <2>1. v - 1 \in 0 .. m /\ ~(v <= v - 1)
    BY <1>1, <1>8
  <2>2. g[v - 1] <= forward[v - 1]
    BY <1>7, <2>1
  <2>3. ~(g[v] <= forward[v])
    BY <1>7
  <2>4. /\ forward[v] = Least(reverse[v], forward[v - 1] + mm(v - 1))
        /\ reverse[v] \in Nat /\ forward[v - 1] \in Nat /\ mm(v - 1) \in Nat
    BY <1>3, <1>8
  <2>5. g[v] \in Nat /\ g[v - 1] \in Nat /\ g[v] <= g[v - 1] + mm(v - 1)
    BY <1>4, <1>8
  <2> QED
    BY <2>2, <2>3, <2>4, <2>5 DEF Least
<1> DEFINE W == {k \in v .. m : forward[k] = reverse[k] /\ reverse[k] < g[k]}
<1>10. ASSUME NEW k \in v .. m, v < k => k - 1 \in W
       PROVE  k \in W
  <2>1. CASE k = v
    BY <1>9, <2>1
  <2>2. CASE k # v
    <3>1. v < k /\ k - 1 \in 1 .. m /\ k \in 1 .. m /\ k - 1 < n /\ (k - 1) + 1 = k
      BY <1>1, <1>8, <2>2
    <3>2. forward[k - 1] = reverse[k - 1] /\ reverse[k - 1] < g[k - 1]
      BY <1>10, <3>1
    <3>3. g[k - 1] \in Nat /\ g[k - 1] <= max(k - 1) /\ max(k - 1) \in Nat
      BY <1>3, <1>4, <3>1
    <3>4. g[k] \in Nat /\ g[k - 1] <= g[k] + mm(k - 1)
      BY <1>4, <3>1
    <3>5. /\ forward[k] = Least(reverse[k], forward[k - 1] + mm(k - 1))
          /\ reverse[k] \in Nat /\ reverse[k - 1] \in Nat /\ mm(k - 1) \in Nat
      BY <1>3, <3>1
    <3>6. entry(k - 1) # max(k - 1)
      <4>1. entry(k - 1) = max(k - 1) => reverse[k - 1] = max(k - 1)
        BY <1>3, <3>1
      <4> QED
        BY <3>2, <3>3, <4>1
    <3>7. reverse[k - 1] = Least(max(k - 1), reverse[k] + mm(k - 1))
      BY <1>3, <3>1, <3>6
    <3>8. forward[k] = reverse[k] /\ reverse[k] < g[k]
      BY <3>2, <3>3, <3>4, <3>5, <3>7 DEF Least
    <3> QED
      BY <3>8
  <2> QED
    BY <2>1, <2>2
<1>11. m \in W
  <2>1. v \in Nat /\ m \in Nat /\ m \in v .. m
    BY <1>1, <1>8
  <2> HIDE DEF W
  <2>2. \A k \in v .. m : k \in W
    BY <1>10, <2>1, Upward
  <2> QED
    BY <2>1, <2>2
<1>12. m \in 1 .. m
  BY <1>1
<1>13. g[m] \in Nat /\ g[m] <= max(m) /\ max(m) \in Nat /\ reverse[m] \in Nat
  BY <1>3, <1>4, <1>12
<1> QED
  BY <1>2, <1>11, <1>13

-----------------------------------------------------------------------------
(* The plan of a queue: `last' + 1 blocks from entry t, the planned one p    *)
(* blocks further on, entered at e0.                                         *)

Queues == [Entries -> [mm : Nat, entry : Nat, max_entry : Nat, nominal : Nat]]

SpeedsOf(ring, t, last, e0) ==
  [k \in 0 .. last |-> IF k = 0 THEN e0 ELSE ring[Index(t, k)].entry]

\* Nothing that may come later makes the blocks up to the planned one faster.
Final(ring, t, p, e0, speeds) ==
  \A g \in [0 .. p -> Nat] :
    g[0] = e0 /\ Followed(ring, t, p, g) => \A k \in 0 .. p : g[k] <= speeds[k]

\* No plan for the same blocks is faster.
Fastest(ring, t, last, e0, speeds) ==
  \A g \in [0 .. last -> Nat] :
    g[0] = e0 /\ Followed(ring, t, last, g) /\ Stopped(ring, t, last, g)
      => \A k \in 0 .. last : g[k] <= speeds[k]

GoodPlan(ring, t, last, p, e0) ==
  LET speeds == SpeedsOf(ring, t, last, e0)
  IN  /\ Followed(ring, t, last, speeds) /\ Stopped(ring, t, last, speeds)
      /\ Fastest(ring, t, last, e0, speeds)
      /\ Final(ring, t, p, e0, speeds)

\* The ring planner_recalculate() leaves.
Replanned(ring, planned, n) ==
  [i \in Entries |->
    IF \E k \in 1 .. n : Index(planned, k) = i
    THEN [ring[i] EXCEPT !.entry = Forward(ring, planned, n)[Distance(planned, i)]]
    ELSE ring[i]]

LEMMA QueueType ==
  ASSUME NEW ring \in Queues, NEW i \in Entries, NEW k \in Entries
  PROVE  /\ Index(i, k) \in Entries
         /\ ring[Index(i, k)] \in [mm : Nat, entry : Nat, max_entry : Nat, nominal : Nat]
         /\ ring[Index(i, k)].mm \in Nat /\ ring[Index(i, k)].entry \in Nat
         /\ ring[Index(i, k)].max_entry \in Nat /\ ring[Index(i, k)].nominal \in Nat
<1>1. Index(i, k) \in Entries
  BY IndexOf
<1> QED
  BY <1>1 DEF Queues

LEMMA QueueRing == Queues \subseteq Rings
<1> SUFFICES ASSUME NEW q \in Queues PROVE q \in Rings
  OBVIOUS
<1>1. \A i \in Entries : q[i] \in [mm : Nat, entry : Int, max_entry : Nat, nominal : Nat]
  BY DEF Queues
<1> QED
  BY <1>1 DEF Queues, Rings

(***************************************************************************)
(* Only the entry speeds behind the planned block change.                  *)
(***************************************************************************)
LEMMA ReplannedIs ==
  ASSUME NEW ring \in Queues, NEW t \in Entries, NEW p \in Nat, NEW n \in Nat,
         n > 0, p + n < BLOCK_BUFFER_SIZE
  PROVE  LET planned == Index(t, p)
             new == Replanned(ring, planned, n)
             forward == Forward(ring, planned, n)
         IN  /\ planned \in Entries
             /\ new \in Queues
             /\ forward \in [0 .. n -> Nat]
             /\ \A i \in Entries :
                  /\ new[i].mm = ring[i].mm /\ new[i].nominal = ring[i].nominal
                  /\ new[i].max_entry = ring[i].max_entry
             /\ \A k \in 0 .. p : new[Index(t, k)].entry = ring[Index(t, k)].entry
             /\ \A j \in 0 .. n : Index(planned, j) = Index(t, p + j)
             /\ \A j \in 1 .. n : new[Index(t, p + j)].entry = forward[j]
<1> DEFINE planned == Index(t, p)
           new == Replanned(ring, planned, n)
           forward == Forward(ring, planned, n)
           inside(i) == \E k \in 1 .. n : Index(planned, k) = i
<1>1. /\ p \in Entries /\ n \in Entries
      /\ \A k \in 0 .. p : k \in Entries
      /\ \A j \in 0 .. n : j \in Entries /\ p + j \in Entries /\ p + j < BLOCK_BUFFER_SIZE
  BY PlannerAssumption DEF Entries
<1>2. planned \in Entries
  BY <1>1, IndexOf
<1>3. ring[planned].entry \in Nat
  BY <1>1, QueueType
<1>4. forward \in [0 .. n -> Nat] /\ forward[0] = ring[planned].entry
  BY <1>1, <1>2, <1>3, QueueRing, ForwardIs
<1>5. \A j \in 0 .. n : Index(planned, j) = Index(t, p + j)
  BY <1>1, IndexIndex
<1>6. ASSUME NEW i \in Entries, inside(i)
      PROVE  Distance(planned, i) \in 1 .. n
  <2>1. PICK k \in 1 .. n : Index(planned, k) = i
    BY <1>6
  <2>2. k \in Entries
    BY <1>1
  <2>3. Distance(planned, Index(planned, k)) = k
    BY <1>2, <2>2, DistanceIndex
  <2> QED
    BY <2>1, <2>3
<1> HIDE DEF forward, inside
<1>7. ASSUME NEW i \in Entries
      PROVE  /\ new[i] \in [mm : Nat, entry : Nat, max_entry : Nat, nominal : Nat]
             /\ new[i].mm = ring[i].mm /\ new[i].nominal = ring[i].nominal
             /\ new[i].max_entry = ring[i].max_entry
             /\ ~inside(i) => new[i] = ring[i]
             /\ inside(i) => new[i].entry = forward[Distance(planned, i)]
  <2>1. ring[i] \in [mm : Nat, entry : Nat, max_entry : Nat, nominal : Nat]
    BY DEF Queues
  <2>2. new[i] = IF inside(i)
                 THEN [ring[i] EXCEPT !.entry = forward[Distance(planned, i)]]
                 ELSE ring[i]
    BY DEF Replanned, inside, forward
  <2>3. inside(i) => forward[Distance(planned, i)] \in Nat
    BY <1>4, <1>6
  <2> QED
    BY <2>1, <2>2, <2>3
<1>8. new \in Queues
  <2>1. new = [i \in Entries |-> new[i]]
    BY DEF Replanned
  <2> HIDE DEF new
  <2> QED
    BY <1>7, <2>1 DEF Queues
<1>9. ASSUME NEW k \in 0 .. p PROVE new[Index(t, k)].entry = ring[Index(t, k)].entry
  <2>1. Index(t, k) \in Entries
    BY <1>1, IndexOf
  <2>2. ASSUME NEW j \in 1 .. n, Index(planned, j) = Index(t, k) PROVE FALSE
    <3>1. Index(t, p + j) = Index(t, k) /\ p + j \in Entries /\ k \in Entries
      BY <1>1, <1>5, <2>2
    <3>2. Distance(t, Index(t, p + j)) = p + j /\ Distance(t, Index(t, k)) = k
      BY <3>1, DistanceIndex
    <3> QED
      BY <3>1, <3>2
  <2>3. ~inside(Index(t, k))
    BY <2>2 DEF inside
  <2> HIDE DEF new
  <2> QED
    BY <1>7, <2>1, <2>3
<1>10. ASSUME NEW j \in 1 .. n PROVE new[Index(t, p + j)].entry = forward[j]
  <2>1. Index(planned, j) = Index(t, p + j) /\ j \in Entries
    BY <1>1, <1>5
  <2>2. Index(planned, j) \in Entries /\ inside(Index(planned, j))
    BY <1>2, <2>1, IndexOf DEF inside
  <2>3. Distance(planned, Index(planned, j)) = j
    BY <1>2, <2>1, DistanceIndex
  <2> HIDE DEF new
  <2> QED
    BY <1>7, <2>1, <2>2, <2>3
<1> QED
  BY <1>2, <1>4, <1>5, <1>7, <1>8, <1>9, <1>10 DEF forward

LEMMA ReplannedEntries ==
  ASSUME NEW ring \in Queues, NEW t \in Entries, NEW p \in Nat, NEW n \in Nat,
         n > 0, p + n < BLOCK_BUFFER_SIZE
  PROVE  /\ Replanned(ring, Index(t, p), n) \in Queues
         /\ \A i \in Entries :
              /\ Replanned(ring, Index(t, p), n)[i].mm = ring[i].mm
              /\ Replanned(ring, Index(t, p), n)[i].nominal = ring[i].nominal
              /\ Replanned(ring, Index(t, p), n)[i].max_entry = ring[i].max_entry
         /\ \A k \in 0 .. p : Replanned(ring, Index(t, p), n)[Index(t, k)].entry
                               = ring[Index(t, k)].entry
  BY ReplannedIs

LEMMA Backward ==
  ASSUME NEW p \in Nat, NEW n \in Nat, NEW k \in p + 1 .. p + n
  PROVE  /\ k - p \in 1 .. n /\ k - p - 1 \in 0 .. n
         /\ p + (k - p) = k /\ p + (k - p - 1) = k - 1
  OBVIOUS

(***************************************************************************)
(* planner_recalculate() makes a good plan of a queue whose blocks up to   *)
(* the planned one are final, and moves the planned pointer to the last of *)
(* the breakpoints it meets.  `old' are the speeds the blocks behind it    *)
(* could be braked from before.                                            *)
(***************************************************************************)
LEMMA Replanning ==
  ASSUME NEW ring \in Queues, NEW t \in Entries, NEW p \in Nat, NEW n \in Nat,
         n > 0, p + n < BLOCK_BUFFER_SIZE, NEW e0 \in Nat,
         p = 0 => ring[t].entry = e0,
         Followed(ring, t, p, SpeedsOf(ring, t, p, e0)),
         Final(ring, t, p, e0, SpeedsOf(ring, t, p, e0)),
         NEW old \in [1 .. n -> Nat], Brakes(ring, Index(t, p), n, old),
         \A k \in 1 .. n :
           k < n /\ ring[Index(Index(t, p), k)].entry = ring[Index(Index(t, p), k)].max_entry
             => old[k] = ring[Index(Index(t, p), k)].entry,
         ring[Index(t, p)].entry <= old[1] + ring[Index(t, p)].mm,
         NEW m \in {0} \cup Breakpoints(ring, Index(t, p), n)
  PROVE  GoodPlan(Replanned(ring, Index(t, p), n), t, p + n, p + m, e0)
<1> DEFINE planned == Index(t, p)
           new == Replanned(ring, planned, n)
           forward == Forward(ring, planned, n)
           old_speeds == SpeedsOf(ring, t, p, e0)
           last == p + n
           speeds == SpeedsOf(new, t, last, e0)
           mm(k) == ring[Index(t, k)].mm
           max(k) == ring[Index(t, k)].max_entry
<1>1. /\ planned \in Entries /\ new \in Queues
      /\ forward \in [0 .. n -> Nat] /\ forward[0] = ring[planned].entry
      /\ \A i \in Entries : new[i].mm = ring[i].mm /\ new[i].max_entry = ring[i].max_entry
      /\ \A k \in 0 .. p : new[Index(t, k)].entry = ring[Index(t, k)].entry
      /\ \A j \in 0 .. n : Index(planned, j) = Index(t, p + j)
      /\ \A j \in 1 .. n : new[Index(t, p + j)].entry = forward[j]
  <2>1. /\ planned \in Entries /\ new \in Queues /\ forward \in [0 .. n -> Nat]
    BY ReplannedIs
  <2>2. \A i \in Entries : new[i].mm = ring[i].mm /\ new[i].max_entry = ring[i].max_entry
    BY ReplannedIs
  <2>3. \A k \in 0 .. p : new[Index(t, k)].entry = ring[Index(t, k)].entry
    BY ReplannedIs
  <2>4. \A j \in 0 .. n : Index(planned, j) = Index(t, p + j)
    BY ReplannedIs
  <2>5. \A j \in 1 .. n : new[Index(t, p + j)].entry = forward[j]
    BY ReplannedIs
  <2>6. forward[0] = ring[planned].entry
    <3>1. p \in Entries /\ n \in Entries
      BY PlannerAssumption DEF Entries
    <3>2. ring \in Rings /\ ring[planned].entry \in Nat
      BY <3>1, QueueType, QueueRing
    <3> QED
      BY <2>1, <3>1, <3>2, ForwardIs
  <2> HIDE DEF planned, new, forward
  <2> QED
    BY <2>1, <2>2, <2>3, <2>4, <2>5, <2>6
<1>2. /\ last \in Nat /\ m \in 0 .. n /\ n \in Entries /\ p \in Entries
      /\ \A k \in 0 .. last : k \in Entries
  BY PlannerAssumption DEF Entries, Breakpoints
<1>3. \A k \in 0 .. last : /\ Index(t, k) \in Entries /\ mm(k) \in Nat /\ max(k) \in Nat
                          /\ new[Index(t, k)].mm = mm(k)
                          /\ new[Index(t, k)].max_entry = max(k)
  BY <1>1, <1>2, QueueType
<1>4. Index(t, 0) = t
  BY IndexOf, PlannerAssumption DEF Entries
<1>5. /\ ring \in Rings /\ ring[planned].entry \in Nat
  BY <1>2, QueueType, QueueRing
<1>6. old_speeds[p] = forward[0]
  BY <1>1, <1>2, <1>4 DEF SpeedsOf
<1>7. Followed(ring, planned, n, forward) /\ Stopped(ring, planned, n, forward)
  BY <1>1, <1>2, <1>5, PassFollowed
<1>8. speeds \in [0 .. last -> Nat] /\ speeds[0] = e0
  <2>1. ASSUME NEW k \in 0 .. last PROVE new[Index(t, k)].entry \in Nat
    BY <1>1, <1>2, QueueType
  <2> QED
    BY <1>2, <2>1 DEF SpeedsOf
<1>9. /\ old_speeds \in [0 .. p -> Nat] /\ old_speeds[0] = e0
  <2>1. ASSUME NEW k \in 0 .. p PROVE ring[Index(t, k)].entry \in Nat
    <3>1. k \in Entries
      BY <1>2
    <3> QED
      BY <3>1, QueueType
  <2> QED
    BY <2>1 DEF SpeedsOf
<1>10. \A k \in 0 .. p : speeds[k] = old_speeds[k]
  BY <1>1, <1>2 DEF SpeedsOf
<1>11. ASSUME NEW j \in 0 .. n PROVE speeds[p + j] = forward[j]
  <2>1. CASE j = 0
    BY <1>6, <1>10, <2>1
  <2>2. CASE j # 0
    <3>1. j \in 1 .. n /\ p + j \in 0 .. last /\ p + j # 0
      BY <2>2
    <3>2. speeds[p + j] = new[Index(t, p + j)].entry
      BY <3>1 DEF SpeedsOf
    <3> QED
      BY <1>1, <3>1, <3>2
  <2> QED
    BY <2>1, <2>2
<1>12. ASSUME NEW j \in 0 .. n
       PROVE  ring[Index(planned, j)].mm = mm(p + j) /\ ring[Index(planned, j)].max_entry = max(p + j)
  BY <1>1
<1> HIDE DEF planned, new, forward, old_speeds, speeds, mm, max, last
<1>13. ASSUME NEW k \in p + 1 .. last
       PROVE  /\ k - p \in 1 .. n /\ k - p - 1 \in 0 .. n /\ p + (k - p) = k /\ p + (k - p - 1) = k - 1
  BY Backward DEF last
<1>14. ASSUME NEW k \in 1 .. last
       PROVE  /\ speeds[k] <= max(k)
              /\ speeds[k] <= speeds[k - 1] + mm(k - 1)
              /\ speeds[k - 1] <= speeds[k] + mm(k - 1)
  <2>1. CASE k <= p
    <3>1. k \in 1 .. p /\ k \in 0 .. p /\ k - 1 \in 0 .. p
      BY <2>1
    <3>2. /\ old_speeds[k] <= max(k)
          /\ old_speeds[k] <= old_speeds[k - 1] + mm(k - 1)
          /\ old_speeds[k - 1] <= old_speeds[k] + mm(k - 1)
      BY <3>1 DEF Followed, mm, max, old_speeds
    <3> QED
      BY <1>10, <3>1, <3>2
  <2>2. CASE ~(k <= p)
    <3> DEFINE j == k - p
    <3>1. k \in p + 1 .. last
      BY <1>2, <2>2 DEF last
    <3>2. j \in 1 .. n /\ j \in 0 .. n /\ j - 1 \in 0 .. n /\ p + j = k /\ p + (j - 1) = k - 1
      BY <1>13, <3>1
    <3>3. /\ forward[j] <= ring[Index(planned, j)].max_entry
          /\ forward[j] <= forward[j - 1] + ring[Index(planned, j - 1)].mm
          /\ forward[j - 1] <= forward[j] + ring[Index(planned, j - 1)].mm
      BY <1>7, <3>2 DEF Followed
    <3>4. speeds[k] = forward[j] /\ speeds[k - 1] = forward[j - 1]
      BY <1>11, <3>2
    <3>5. /\ ring[Index(planned, j)].max_entry = max(k)
          /\ ring[Index(planned, j - 1)].mm = mm(k - 1)
      BY <1>12, <3>2
    <3> QED
      BY <3>3, <3>4, <3>5
  <2> QED
    BY <2>1, <2>2
<1>15. Followed(new, t, last, speeds)
  <2>1. \A k \in 1 .. last : k \in 0 .. last /\ k - 1 \in 0 .. last
    BY <1>2
  <2> QED
    BY <1>3, <1>14, <2>1 DEF Followed
<1>16. Stopped(new, t, last, speeds)
  <2>1. forward[n] <= mm(last)
    BY <1>7, <1>12 DEF Stopped, last
  <2>2. speeds[last] = forward[n] /\ last \in 0 .. last
    BY <1>2, <1>11 DEF last
  <2> QED
    BY <1>3, <2>1, <2>2 DEF Stopped
\* A plan for a longer part of the queue, cut at the planned block.
<1>17. ASSUME NEW q \in p .. last, NEW g \in [0 .. q -> Nat], g[0] = e0, Followed(new, t, q, g)
       PROVE  /\ \A k \in 0 .. p : g[k] <= speeds[k]
              /\ [j \in 0 .. q - p |-> g[p + j]] \in [0 .. q - p -> Nat]
              /\ Followed(ring, planned, q - p, [j \in 0 .. q - p |-> g[p + j]])
              /\ g[p] <= forward[0]
  <2> DEFINE a == [k \in 0 .. p |-> g[k]]
             h == [j \in 0 .. q - p |-> g[p + j]]
  <2>1. q \in Nat /\ q <= last /\ q - p \in 0 .. n
    BY <1>2 DEF last
  <2>2. ASSUME NEW k \in 1 .. q
        PROVE  g[k] <= max(k) /\ g[k] <= g[k - 1] + mm(k - 1) /\ g[k - 1] <= g[k] + mm(k - 1)
    <3>1. k \in 0 .. last /\ k - 1 \in 0 .. last
      BY <1>2, <2>1
    <3> QED
      BY <1>3, <1>17, <3>1 DEF Followed
  <2>3. a \in [0 .. p -> Nat] /\ a[0] = e0
    BY <1>17, <2>1
  <2>4. Followed(ring, t, p, a)
    <3>1. ASSUME NEW k \in 1 .. p PROVE k \in 1 .. q /\ a[k] = g[k] /\ a[k - 1] = g[k - 1]
      BY <2>1
    <3> HIDE DEF a
    <3> QED
      BY <2>2, <3>1 DEF Followed, mm, max
  <2>5. \A k \in 0 .. p : a[k] <= old_speeds[k]
    <3> HIDE DEF a
    <3> QED
      BY <2>3, <2>4 DEF Final, old_speeds
  <2>6. \A k \in 0 .. p : g[k] <= speeds[k]
    BY <1>10, <2>5
  <2>7. h \in [0 .. q - p -> Nat]
    <3>1. \A j \in 0 .. q - p : p + j \in 0 .. q
      BY <2>1
    <3> QED
      BY <3>1
  <2>8. Followed(ring, planned, q - p, h)
    <3>1. ASSUME NEW j \in 1 .. q - p
          PROVE  /\ h[j] <= ring[Index(planned, j)].max_entry
                 /\ h[j] <= h[j - 1] + ring[Index(planned, j - 1)].mm
                 /\ h[j - 1] <= h[j] + ring[Index(planned, j - 1)].mm
      <4>1. p + j \in 1 .. q /\ j \in 0 .. n /\ j - 1 \in 0 .. n /\ p + (j - 1) = (p + j) - 1
        BY <2>1
      <4>2. h[j] = g[p + j] /\ h[j - 1] = g[p + j - 1]
        BY <2>1, <4>1
      <4>3. /\ ring[Index(planned, j)].max_entry = max(p + j)
            /\ ring[Index(planned, j - 1)].mm = mm((p + j) - 1)
        BY <1>12, <4>1
      <4>4. /\ g[p + j] <= max(p + j)
            /\ g[p + j] <= g[(p + j) - 1] + mm((p + j) - 1)
            /\ g[(p + j) - 1] <= g[p + j] + mm((p + j) - 1)
        BY <2>2, <4>1
      <4> QED
        BY <4>2, <4>3, <4>4
    <3> HIDE DEF h
    <3> QED
      BY <3>1 DEF Followed
  <2>9. g[p] <= forward[0]
    <3>1. p \in 0 .. p
      OBVIOUS
    <3> QED
      BY <1>6, <1>10, <2>6, <3>1
  <2> QED
    BY <2>6, <2>7, <2>8, <2>9
<1>18. Fastest(new, t, last, e0, speeds)
  <2> SUFFICES ASSUME NEW g \in [0 .. last -> Nat], g[0] = e0,
                      Followed(new, t, last, g), Stopped(new, t, last, g),
                      NEW k \in 0 .. last
               PROVE  g[k] <= speeds[k]
    BY DEF Fastest
  <2> DEFINE h == [j \in 0 .. n |-> g[p + j]]
  <2>1. last \in p .. last /\ last - p = n
    BY <1>2 DEF last
  <2>2. /\ \A i \in 0 .. p : g[i] <= speeds[i]
        /\ h \in [0 .. n -> Nat] /\ Followed(ring, planned, n, h) /\ g[p] <= forward[0]
    BY <1>17, <2>1
  <2>3. Stopped(ring, planned, n, h)
    <3>1. h[n] = g[last] /\ n \in 0 .. n /\ last \in 0 .. last
      BY <1>2 DEF last
    <3>2. ring[Index(planned, n)].mm = mm(last)
      BY <1>12, <3>1 DEF last
    <3> HIDE DEF h
    <3> QED
      BY <1>3, <3>1, <3>2 DEF Stopped
  <2>4. h[0] = g[p] /\ h[0] <= ring[planned].entry
    BY <1>1, <2>2
  <2>5. \A j \in 0 .. n : h[j] <= forward[j]
    <3> HIDE DEF h
    <3> QED
      BY <1>1, <1>2, <1>5, <2>2, <2>3, <2>4, PassFastest DEF forward
  <2>6. CASE k <= p
    BY <2>2, <2>6
  <2>7. CASE ~(k <= p)
    <3>1. k \in p + 1 .. last
      BY <1>2, <2>7
    <3>2. k - p \in 0 .. n /\ p + (k - p) = k
      BY <1>13, <3>1
    <3> QED
      BY <1>11, <2>5, <3>2
  <2> QED
    BY <2>6, <2>7
<1>19. Final(new, t, p + m, e0, speeds)
  <2> SUFFICES ASSUME NEW g \in [0 .. p + m -> Nat], g[0] = e0, Followed(new, t, p + m, g),
                      NEW k \in 0 .. p + m
               PROVE  g[k] <= speeds[k]
    BY DEF Final
  <2> DEFINE h == [j \in 0 .. m |-> g[p + j]]
  <2>1. p + m \in p .. last /\ (p + m) - p = m
    BY <1>2 DEF last
  <2>2. /\ \A i \in 0 .. p : g[i] <= speeds[i]
        /\ h \in [0 .. m -> Nat] /\ Followed(ring, planned, m, h) /\ g[p] <= forward[0]
    BY <1>17, <2>1
  <2>3. h[0] <= ring[planned].entry
    BY <1>1, <1>2, <2>2
  <2>4. CASE k <= p
    BY <2>2, <2>4
  <2>5. CASE ~(k <= p)
    <3>1. m # 0 /\ k \in p + 1 .. last /\ k - p \in 0 .. m
      BY <1>2, <2>5 DEF last
    <3>2. m \in Breakpoints(ring, planned, n)
      BY <3>1 DEF planned
    <3>3. \A j \in 0 .. m : h[j] <= forward[j]
      <4> HIDE DEF h
      <4> QED
        BY <1>1, <1>2, <1>5, <2>2, <2>3, <3>2, PassFinal DEF forward
    <3>4. h[k - p] = g[k] /\ h[k - p] <= forward[k - p]
      BY <1>13, <3>1, <3>3
    <3>5. speeds[k] = forward[k - p]
      BY <1>11, <1>13, <3>1
    <3> QED
      BY <3>4, <3>5
  <2> QED
    BY <2>4, <2>5
<1> QED
  BY <1>15, <1>16, <1>18, <1>19 DEF GoodPlan, new, speeds, last, planned

LEMMA SpeedsType ==
  ASSUME NEW ring \in Queues, NEW t \in Entries, NEW last \in Nat,
         last < BLOCK_BUFFER_SIZE, NEW e0 \in Nat
  PROVE  /\ \A k \in 0 .. last : k \in Entries
         /\ SpeedsOf(ring, t, last, e0) \in [0 .. last -> Nat]
         /\ SpeedsOf(ring, t, last, e0)[0] = e0
         /\ \A k \in 1 .. last : SpeedsOf(ring, t, last, e0)[k] = ring[Index(t, k)].entry
<1>1. \A k \in 0 .. last : k \in Entries
  BY PlannerAssumption DEF Entries
<1>2. \A k \in 0 .. last : ring[Index(t, k)].entry \in Nat
  BY <1>1, QueueType
<1>3. \A k \in 1 .. last : k \in 0 .. last /\ k # 0
  OBVIOUS
<1> QED
  BY <1>1, <1>2, <1>3 DEF SpeedsOf

(***************************************************************************)
(* A good plan stays one while its first block is executed by d, as long   *)
(* as the speed changes by no more than d allows and the rest of the block *)
(* suffices to meet the speed of the next one.                             *)
(***************************************************************************)
LEMMA Executing ==
  ASSUME NEW r \in Queues, NEW q \in Queues, NEW t \in Entries,
         NEW last \in Nat, last < BLOCK_BUFFER_SIZE, NEW p \in 0 .. last,
         NEW d \in Nat, NEW e0 \in Nat, NEW e1 \in Nat,
         d <= r[t].mm, q[t].mm = r[t].mm - d,
         \A k \in 1 .. last :
           /\ q[Index(t, k)].mm = r[Index(t, k)].mm
           /\ q[Index(t, k)].max_entry = r[Index(t, k)].max_entry
           /\ q[Index(t, k)].entry = r[Index(t, k)].entry,
         e0 <= e1 + d, e1 <= e0 + d,
         last = 0 => e1 <= r[t].mm - d,
         last > 0 => /\ e1 <= r[Index(t, 1)].entry + (r[t].mm - d)
                     /\ r[Index(t, 1)].entry <= e1 + (r[t].mm - d),
         GoodPlan(r, t, last, p, e0)
  PROVE  GoodPlan(q, t, last, p, e1)
<1> DEFINE s == SpeedsOf(r, t, last, e0)
           z == SpeedsOf(q, t, last, e1)
           mm(k) == r[Index(t, k)].mm
           max(k) == r[Index(t, k)].max_entry
<1>1. /\ \A k \in 0 .. last : k \in Entries /\ Index(t, k) \in Entries
      /\ \A k \in 0 .. last : mm(k) \in Nat /\ max(k) \in Nat
  BY SpeedsType, QueueType
<1>2. Index(t, 0) = t /\ r[t].mm \in Nat /\ mm(0) = r[t].mm
  <2>1. Index(t, 0) = t
    BY IndexOf, PlannerAssumption DEF Entries
  <2> QED
    BY <2>1 DEF Queues
<1>3. /\ s \in [0 .. last -> Nat] /\ s[0] = e0
      /\ \A k \in 1 .. last : s[k] = r[Index(t, k)].entry
  <2>1. s \in [0 .. last -> Nat]
    BY SpeedsType
  <2>2. s[0] = e0
    BY SpeedsType
  <2>3. \A k \in 1 .. last : s[k] = r[Index(t, k)].entry
    BY SpeedsType
  <2> QED
    BY <2>1, <2>2, <2>3
<1>4. /\ z \in [0 .. last -> Nat] /\ z[0] = e1
      /\ \A k \in 1 .. last : z[k] = q[Index(t, k)].entry
  <2>1. z \in [0 .. last -> Nat]
    BY SpeedsType
  <2>2. z[0] = e1
    BY SpeedsType
  <2>3. \A k \in 1 .. last : z[k] = q[Index(t, k)].entry
    BY SpeedsType
  <2> QED
    BY <2>1, <2>2, <2>3
<1>5. \A k \in 1 .. last : z[k] = s[k]
  BY <1>3, <1>4
<1>6. /\ Followed(r, t, last, s) /\ Stopped(r, t, last, s)
      /\ Fastest(r, t, last, e0, s) /\ Final(r, t, p, e0, s)
  BY DEF GoodPlan
<1>7. /\ q[Index(t, 0)].mm = mm(0) - d
      /\ \A k \in 1 .. last : /\ q[Index(t, k)].mm = mm(k)
                             /\ q[Index(t, k)].max_entry = max(k)
  BY <1>2
<1>8. last > 0 => e1 <= s[1] + (mm(0) - d) /\ s[1] <= e1 + (mm(0) - d)
  <2>1. last > 0 => s[1] = r[Index(t, 1)].entry
    BY <1>3
  <2> QED
    BY <1>2, <2>1
<1>9. last = 0 => e1 <= mm(0) - d
  BY <1>2
<1>10. d <= mm(0) /\ mm(0) \in Nat
  BY <1>2
<1>11. ASSUME NEW k \in 1 .. last
       PROVE  s[k] <= max(k) /\ s[k] <= s[k - 1] + mm(k - 1) /\ s[k - 1] <= s[k] + mm(k - 1)
  BY <1>6 DEF Followed
<1>12. s[last] <= mm(last)
  BY <1>6 DEF Stopped
<1> HIDE DEF s, z, mm, max
<1>13. Followed(q, t, last, z)
  <2> SUFFICES ASSUME NEW k \in 1 .. last
               PROVE  /\ z[k] <= max(k)
                      /\ z[k] <= z[k - 1] + q[Index(t, k - 1)].mm
                      /\ z[k - 1] <= z[k] + q[Index(t, k - 1)].mm
    BY <1>7 DEF Followed
  <2>1. CASE k = 1
    <3>1. k - 1 = 0 /\ 1 \in 1 .. last /\ last > 0
      BY <2>1
    <3> QED
      BY <1>4, <1>5, <1>7, <1>8, <1>11, <2>1, <3>1
  <2>2. CASE k # 1
    <3>1. k - 1 \in 1 .. last
      BY <2>2
    <3> QED
      BY <1>5, <1>7, <1>11, <3>1
  <2> QED
    BY <2>1, <2>2
<1>14. Stopped(q, t, last, z)
  <2>1. CASE last = 0
    BY <1>4, <1>7, <1>9, <2>1 DEF Stopped
  <2>2. CASE last # 0
    <3>1. last \in 1 .. last
      BY <2>2
    <3> QED
      BY <1>5, <1>7, <1>12, <3>1 DEF Stopped
  <2> QED
    BY <2>1, <2>2
\* A plan from here on is one from where the machine was before.
<1>15. ASSUME NEW m \in 0 .. last, NEW g \in [0 .. m -> Nat], g[0] = e1, Followed(q, t, m, g)
       PROVE  LET h == [k \in 0 .. m |-> IF k = 0 THEN e0 ELSE g[k]]
              IN  /\ h \in [0 .. m -> Nat] /\ h[0] = e0 /\ Followed(r, t, m, h)
                  /\ \A k \in 1 .. m : h[k] = g[k]
  <2> DEFINE h == [k \in 0 .. m |-> IF k = 0 THEN e0 ELSE g[k]]
  <2>1. h \in [0 .. m -> Nat] /\ h[0] = e0
    BY <1>15
  <2>2. ASSUME NEW k \in 1 .. m
        PROVE  k \in 1 .. last /\ h[k] = g[k] /\ g[k] \in Nat
    BY <1>15
  <2>3. ASSUME NEW k \in 1 .. m
        PROVE  /\ g[k] <= max(k) /\ g[k] <= g[k - 1] + q[Index(t, k - 1)].mm
               /\ g[k - 1] <= g[k] + q[Index(t, k - 1)].mm
    BY <1>7, <1>15, <2>2 DEF Followed
  <2> HIDE DEF h
  <2>4. Followed(r, t, m, h)
    <3> SUFFICES ASSUME NEW k \in 1 .. m
                 PROVE  h[k] <= max(k) /\ h[k] <= h[k - 1] + mm(k - 1) /\ h[k - 1] <= h[k] + mm(k - 1)
      BY DEF Followed, mm, max
    <3>1. CASE k = 1
      <4>1. k - 1 = 0
        BY <3>1
      <4>2. /\ g[1] <= max(1) /\ g[1] <= e1 + (mm(0) - d) /\ e1 <= g[1] + (mm(0) - d)
            /\ h[1] = g[1] /\ g[1] \in Nat
        BY <1>7, <1>15, <2>2, <2>3, <3>1, <4>1
      <4>3. g[1] <= e0 + mm(0) /\ e0 <= g[1] + mm(0)
        <5> DEFINE x == g[1]
                   y == mm(0)
        <5>1. /\ x \in Nat /\ y \in Nat /\ d <= y
              /\ x <= e1 + (y - d) /\ e1 <= x + (y - d)
          BY <1>10, <4>2
        <5> HIDE DEF x, y
        <5>2. x <= e0 + y /\ e0 <= x + y
          BY <5>1
        <5> QED
          BY <5>2 DEF x, y
      <4> QED
        BY <2>1, <3>1, <4>1, <4>2, <4>3
    <3>2. CASE k # 1
      <4>1. k - 1 \in 1 .. m /\ k - 1 \in 1 .. last
        BY <3>2
      <4>2. h[k] = g[k] /\ h[k - 1] = g[k - 1] /\ q[Index(t, k - 1)].mm = mm(k - 1)
        BY <1>7, <2>2, <4>1
      <4> QED
        BY <2>3, <4>2
    <3> QED
      BY <3>1, <3>2
  <2> QED
    BY <2>1, <2>2, <2>4 DEF h
<1>16. Fastest(q, t, last, e1, z)
  <2> SUFFICES ASSUME NEW g \in [0 .. last -> Nat], g[0] = e1,
                      Followed(q, t, last, g), Stopped(q, t, last, g),
                      NEW k \in 0 .. last
               PROVE  g[k] <= z[k]
    BY DEF Fastest
  <2> DEFINE h == [i \in 0 .. last |-> IF i = 0 THEN e0 ELSE g[i]]
  <2>1. /\ h \in [0 .. last -> Nat] /\ h[0] = e0 /\ Followed(r, t, last, h)
        /\ \A i \in 1 .. last : h[i] = g[i]
    BY <1>15
  <2> HIDE DEF h
  <2>2. Stopped(r, t, last, h)
    <3>1. CASE last = 0
      BY <1>9, <1>10, <2>1, <3>1 DEF Stopped, mm
    <3>2. CASE last # 0
      <4>1. last \in 1 .. last
        BY <3>2
      <4> QED
        BY <1>7, <2>1, <4>1 DEF Stopped, mm
    <3> QED
      BY <3>1, <3>2
  <2>3. \A i \in 0 .. last : h[i] <= s[i]
    BY <1>6, <2>1, <2>2 DEF Fastest
  <2>4. CASE k = 0
    BY <1>4, <2>4
  <2>5. CASE k # 0
    <3>1. k \in 1 .. last
      BY <2>5
    <3> QED
      BY <1>5, <2>1, <2>3, <3>1
  <2> QED
    BY <2>4, <2>5
<1>17. Final(q, t, p, e1, z)
  <2> SUFFICES ASSUME NEW g \in [0 .. p -> Nat], g[0] = e1, Followed(q, t, p, g),
                      NEW k \in 0 .. p
               PROVE  g[k] <= z[k]
    BY DEF Final
  <2> DEFINE h == [i \in 0 .. p |-> IF i = 0 THEN e0 ELSE g[i]]
  <2>1. /\ h \in [0 .. p -> Nat] /\ h[0] = e0 /\ Followed(r, t, p, h)
        /\ \A i \in 1 .. p : h[i] = g[i]
    BY <1>15
  <2> HIDE DEF h
  <2>2. \A i \in 0 .. p : h[i] <= s[i]
    BY <1>6, <2>1 DEF Final
  <2>3. CASE k = 0
    BY <1>4, <2>3
  <2>4. CASE k # 0
    <3>1. k \in 1 .. p /\ k \in 1 .. last
      BY <2>4
    <3> QED
      BY <1>5, <2>1, <2>2, <3>1
  <2> QED
    BY <2>3, <2>4
<1> QED
  BY <1>13, <1>14, <1>16, <1>17 DEF GoodPlan, z

(***************************************************************************)
(* What is left of a good plan when its first block has been executed is   *)
(* one, entered at the speed planned for it.                               *)
(***************************************************************************)
LEMMA Executed ==
  ASSUME NEW r \in Queues, NEW q \in Queues, NEW t \in Entries, NEW u \in Entries,
         NEW last \in Nat, last > 0, last < BLOCK_BUFFER_SIZE, NEW p \in 0 .. last,
         NEW e0 \in Nat,
         \A k \in 1 .. last :
           /\ q[Index(u, k - 1)].mm = r[Index(t, k)].mm
           /\ q[Index(u, k - 1)].max_entry = r[Index(t, k)].max_entry
           /\ q[Index(u, k - 1)].entry = r[Index(t, k)].entry,
         GoodPlan(r, t, last, p, e0)
  PROVE  GoodPlan(q, u, last - 1, IF p = 0 THEN 0 ELSE p - 1, r[Index(t, 1)].entry)
<1> DEFINE e1 == r[Index(t, 1)].entry
           s == SpeedsOf(r, t, last, e0)
           z == SpeedsOf(q, u, last - 1, e1)
           mm(k) == r[Index(t, k)].mm
           max(k) == r[Index(t, k)].max_entry
           new == IF p = 0 THEN 0 ELSE p - 1
<1>1. /\ \A k \in 0 .. last : k \in Entries /\ mm(k) \in Nat /\ max(k) \in Nat
      /\ e1 \in Nat /\ last - 1 \in Nat /\ last - 1 < BLOCK_BUFFER_SIZE
  <2>1. \A k \in 0 .. last : k \in Entries
    BY SpeedsType
  <2>2. 1 \in 0 .. last /\ last - 1 \in Nat /\ last - 1 < BLOCK_BUFFER_SIZE
    BY PlannerAssumption
  <2> QED
    BY <2>1, <2>2, QueueType
<1>2. /\ s \in [0 .. last -> Nat] /\ s[0] = e0
      /\ \A k \in 1 .. last : s[k] = r[Index(t, k)].entry
  <2>1. s \in [0 .. last -> Nat]
    BY SpeedsType
  <2>2. s[0] = e0
    BY SpeedsType
  <2>3. \A k \in 1 .. last : s[k] = r[Index(t, k)].entry
    BY SpeedsType
  <2> QED
    BY <2>1, <2>2, <2>3
<1>3. /\ z \in [0 .. last - 1 -> Nat] /\ z[0] = e1
      /\ \A k \in 1 .. last - 1 : z[k] = q[Index(u, k)].entry
  <2> HIDE DEF e1
  <2>1. z \in [0 .. last - 1 -> Nat]
    BY <1>1, SpeedsType
  <2>2. z[0] = e1
    BY <1>1, SpeedsType
  <2>3. \A k \in 1 .. last - 1 : z[k] = q[Index(u, k)].entry
    BY <1>1, SpeedsType
  <2> QED
    BY <2>1, <2>2, <2>3
<1>4. /\ Followed(r, t, last, s) /\ Stopped(r, t, last, s)
      /\ Fastest(r, t, last, e0, s) /\ Final(r, t, p, e0, s)
  BY DEF GoodPlan
<1>5. ASSUME NEW k \in 0 .. last - 1
      PROVE  /\ k + 1 \in 1 .. last
             /\ q[Index(u, k)].mm = mm(k + 1) /\ q[Index(u, k)].max_entry = max(k + 1)
             /\ q[Index(u, k)].entry = r[Index(t, k + 1)].entry
  <2>1. k + 1 \in 1 .. last /\ (k + 1) - 1 = k
    OBVIOUS
  <2> QED
    BY <2>1
<1>6. \A k \in 0 .. last - 1 : z[k] = s[k + 1]
  <2> SUFFICES ASSUME NEW k \in 0 .. last - 1 PROVE z[k] = s[k + 1]
    OBVIOUS
  <2>1. CASE k = 0
    <3>1. 1 \in 1 .. last /\ k + 1 = 1
      BY <2>1
    <3> QED
      BY <1>2, <1>3, <2>1, <3>1
  <2>2. CASE k # 0
    <3>1. k \in 1 .. last - 1
      BY <2>2
    <3>2. z[k] = q[Index(u, k)].entry
      BY <1>3, <3>1
    <3>3. q[Index(u, k)].entry = r[Index(t, k + 1)].entry /\ k + 1 \in 1 .. last
      BY <1>5
    <3>4. s[k + 1] = r[Index(t, k + 1)].entry
      BY <1>2, <3>3
    <3> QED
      BY <3>2, <3>3, <3>4
  <2> QED
    BY <2>1, <2>2
<1>7. ASSUME NEW k \in 1 .. last
      PROVE  s[k] <= max(k) /\ s[k] <= s[k - 1] + mm(k - 1) /\ s[k - 1] <= s[k] + mm(k - 1)
  BY <1>4 DEF Followed
<1>8. s[last] <= mm(last)
  BY <1>4 DEF Stopped
<1>9. e1 = s[1]
  <2>1. 1 \in 1 .. last
    OBVIOUS
  <2> QED
    BY <1>2, <2>1
<1> HIDE DEF e1, s, z, mm, max
<1>10. Followed(q, u, last - 1, z)
  <2> SUFFICES ASSUME NEW k \in 1 .. last - 1
               PROVE  /\ z[k] <= q[Index(u, k)].max_entry
                      /\ z[k] <= z[k - 1] + q[Index(u, k - 1)].mm
                      /\ z[k - 1] <= z[k] + q[Index(u, k - 1)].mm
    BY DEF Followed
  <2>1. k \in 0 .. last - 1 /\ k - 1 \in 0 .. last - 1 /\ (k - 1) + 1 = k /\ (k + 1) - 1 = k
    OBVIOUS
  <2>2. /\ z[k] = s[k + 1] /\ z[k - 1] = s[k] /\ k + 1 \in 1 .. last
        /\ q[Index(u, k)].max_entry = max(k + 1) /\ q[Index(u, k - 1)].mm = mm(k)
    BY <1>5, <1>6, <2>1
  <2>3. s[k + 1] <= max(k + 1) /\ s[k + 1] <= s[k] + mm(k) /\ s[k] <= s[k + 1] + mm(k)
    BY <1>7, <2>1, <2>2
  <2> QED
    BY <2>2, <2>3
<1>11. Stopped(q, u, last - 1, z)
  <2>1. last - 1 \in 0 .. last - 1 /\ (last - 1) + 1 = last
    BY <1>1
  <2> QED
    BY <1>5, <1>6, <1>8, <2>1 DEF Stopped
\* A plan for the rest is one for the whole.
<1>12. ASSUME NEW m \in 0 .. last - 1, NEW g \in [0 .. m -> Nat], g[0] = e1,
              Followed(q, u, m, g)
       PROVE  LET h == [k \in 0 .. m + 1 |-> IF k = 0 THEN e0 ELSE g[k - 1]]
              IN  /\ h \in [0 .. m + 1 -> Nat] /\ h[0] = e0
                  /\ \A k \in 0 .. m : h[k + 1] = g[k]
                  /\ Followed(r, t, m + 1, h)
  <2> DEFINE h == [k \in 0 .. m + 1 |-> IF k = 0 THEN e0 ELSE g[k - 1]]
  <2>1. \A k \in 0 .. m + 1 : k # 0 => k - 1 \in 0 .. m
    OBVIOUS
  <2>2. h \in [0 .. m + 1 -> Nat] /\ h[0] = e0
    BY <2>1
  <2>3. \A k \in 0 .. m : h[k + 1] = g[k]
    <3>1. \A k \in 0 .. m : k + 1 \in 0 .. m + 1 /\ k + 1 # 0 /\ (k + 1) - 1 = k
      OBVIOUS
    <3> QED
      BY <3>1
  <2> HIDE DEF h
  <2>4. Followed(r, t, m + 1, h)
    <3> SUFFICES ASSUME NEW k \in 1 .. m + 1
                 PROVE  h[k] <= max(k) /\ h[k] <= h[k - 1] + mm(k - 1) /\ h[k - 1] <= h[k] + mm(k - 1)
      BY DEF Followed, mm, max
    <3>1. CASE k = 1
      <4>1. k - 1 = 0 /\ 0 \in 0 .. m /\ 0 + 1 = k /\ k \in 1 .. last
        BY <3>1
      <4>2. h[k] = e1 /\ h[k - 1] = e0
        BY <1>12, <2>2, <2>3, <4>1
      <4>3. s[k] = e1 /\ s[k - 1] = e0
        BY <1>2, <1>9, <3>1, <4>1
      <4> QED
        BY <1>7, <4>1, <4>2, <4>3
    <3>2. CASE k # 1
      <4> DEFINE j == k - 1
      <4>1. /\ j \in 1 .. m /\ j \in 0 .. m /\ j - 1 \in 0 .. m /\ j + 1 = k
            /\ (j - 1) + 1 = j /\ j \in 0 .. last - 1 /\ j - 1 \in 0 .. last - 1
        BY <3>2
      <4>2. h[k] = g[j] /\ h[j] = g[j - 1]
        BY <2>3, <4>1
      <4>3. q[Index(u, j)].max_entry = max(k) /\ q[Index(u, j - 1)].mm = mm(j)
        BY <1>5, <4>1
      <4>4. /\ g[j] <= q[Index(u, j)].max_entry
            /\ g[j] <= g[j - 1] + q[Index(u, j - 1)].mm
            /\ g[j - 1] <= g[j] + q[Index(u, j - 1)].mm
        BY <1>12, <4>1 DEF Followed
      <4> QED
        BY <4>2, <4>3, <4>4
    <3> QED
      BY <3>1, <3>2
  <2> QED
    BY <2>2, <2>3, <2>4 DEF h
<1>13. Fastest(q, u, last - 1, e1, z)
  <2> SUFFICES ASSUME NEW g \in [0 .. last - 1 -> Nat], g[0] = e1,
                      Followed(q, u, last - 1, g), Stopped(q, u, last - 1, g),
                      NEW k \in 0 .. last - 1
               PROVE  g[k] <= z[k]
    BY DEF Fastest
  <2> DEFINE m == last - 1
             h == [i \in 0 .. m + 1 |-> IF i = 0 THEN e0 ELSE g[i - 1]]
  <2>1. m \in 0 .. last - 1 /\ m + 1 = last
    BY <1>1
  <2>2. /\ h \in [0 .. m + 1 -> Nat] /\ h[0] = e0
        /\ \A i \in 0 .. m : h[i + 1] = g[i]
        /\ Followed(r, t, m + 1, h)
    BY <1>12, <2>1
  <2> HIDE DEF h
  <2>3. Stopped(r, t, last, h)
    <3>1. h[last] = g[last - 1]
      BY <2>1, <2>2
    <3>2. q[Index(u, last - 1)].mm = mm(last)
      BY <1>5, <2>1
    <3> QED
      BY <3>1, <3>2 DEF Stopped, mm
  <2>4. \A i \in 0 .. last : h[i] <= s[i]
    BY <1>4, <2>1, <2>2, <2>3 DEF Fastest
  <2>5. k + 1 \in 0 .. last /\ h[k + 1] = g[k]
    BY <2>2
  <2> QED
    BY <1>6, <2>4, <2>5
<1>14. Final(q, u, new, e1, z)
  <2> SUFFICES ASSUME NEW g \in [0 .. new -> Nat], g[0] = e1, Followed(q, u, new, g),
                      NEW k \in 0 .. new
               PROVE  g[k] <= z[k]
    BY DEF Final
  <2>1. CASE p = 0
    <3>1. k = 0
      BY <2>1
    <3> QED
      BY <1>1, <1>3, <3>1
  <2>2. CASE p # 0
    <3> DEFINE m == p - 1
               h == [i \in 0 .. m + 1 |-> IF i = 0 THEN e0 ELSE g[i - 1]]
    <3>1. m \in 0 .. last - 1 /\ m + 1 = p /\ new = m
      BY <2>2
    <3>2. /\ h \in [0 .. m + 1 -> Nat] /\ h[0] = e0
          /\ \A i \in 0 .. m : h[i + 1] = g[i]
          /\ Followed(r, t, m + 1, h)
      BY <1>12, <3>1
    <3> HIDE DEF h
    <3>3. \A i \in 0 .. p : h[i] <= s[i]
      BY <1>4, <3>1, <3>2 DEF Final
    <3>4. k \in 0 .. m /\ k + 1 \in 0 .. p /\ k \in 0 .. last - 1
      BY <3>1
    <3> QED
      BY <1>6, <3>2, <3>3, <3>4
  <2> QED
    BY <2>1, <2>2
<1> QED
  BY <1>10, <1>11, <1>13, <1>14 DEF GoodPlan, z, e1

(***************************************************************************)
(* A single block can be entered at any speed it can be stopped from.      *)
(***************************************************************************)
LEMMA SingleBlock ==
  ASSUME NEW ring \in Queues, NEW t \in Entries, NEW e0 \in Nat, e0 <= ring[t].mm
  PROVE  GoodPlan(ring, t, 0, 0, e0)
<1> DEFINE s == SpeedsOf(ring, t, 0, e0)
<1>1. s[0] = e0
  BY DEF SpeedsOf
<1>2. Index(t, 0) = t
  BY IndexOf, PlannerAssumption DEF Entries
<1>3. 1 .. 0 = {} /\ 0 .. 0 = {0}
  OBVIOUS
<1> HIDE DEF s
<1>4. Followed(ring, t, 0, s) /\ Stopped(ring, t, 0, s)
  BY <1>1, <1>2, <1>3 DEF Followed, Stopped
<1>5. \A g \in [0 .. 0 -> Nat] : g[0] = e0 => \A k \in 0 .. 0 : g[k] <= s[k]
  BY <1>1, <1>3
<1> QED
  BY <1>4, <1>5 DEF GoodPlan, Fastest, Final, s

(***************************************************************************)
(* planner_recalculate() of a queue of `last' + 1 blocks from the p-th on. *)
(***************************************************************************)
LEMMA RecalculateIs ==
  ASSUME NEW ring \in Queues, NEW t \in Entries, NEW p \in Nat, NEW last \in Nat,
         p < last, last + 1 < BLOCK_BUFFER_SIZE, t = block_buffer_tail,
         Recalculate(ring, Index(t, p), Index(t, last + 1))
  PROVE  LET base == IF p = 0 THEN Updated(ring) ELSE ring
             n == last - p
         IN  /\ block_buffer' = Replanned(base, Index(t, p), n)
             /\ \E m \in {0} \cup Breakpoints(base, Index(t, p), n) :
                  m \in 0 .. n /\ block_buffer_planned' = Index(t, p + m)
<1> DEFINE planned == Index(t, p)
           head == Index(t, last + 1)
           n == Distance(planned, head) - 1
           base == IF n > 0 /\ planned = block_buffer_tail THEN Updated(ring) ELSE ring
           B == {0} \cup Breakpoints(base, planned, n)
           after == [k \in 0 .. n |-> Index(planned, k)]
<1>a. /\ p \in Entries /\ last + 1 \in Entries /\ last - p + 1 \in Entries
      /\ p + (last - p + 1) = last + 1
  BY PlannerAssumption DEF Entries
<1>2. planned \in Entries /\ head \in Entries
  BY <1>a, IndexOf
<1>3. n = last - p
  <2>1. Index(planned, last - p + 1) = Index(t, p + (last - p + 1))
    BY <1>a, IndexIndex
  <2>2. head = Index(planned, last - p + 1)
    BY <1>a, <2>1
  <2>3. Distance(planned, Index(planned, last - p + 1)) = last - p + 1
    BY <1>a, <1>2, DistanceIndex
  <2> HIDE DEF planned, head
  <2>4. Distance(planned, head) = last - p + 1
    BY <2>2, <2>3
  <2> QED
    BY <2>4
<1>1. /\ n \in Nat /\ n > 0 /\ n # 0
      /\ n + 1 \in Entries /\ p + (n + 1) = last + 1 /\ p + (n + 1) < BLOCK_BUFFER_SIZE
  <2> HIDE DEF n
  <2> QED
    BY <1>3, PlannerAssumption DEF Entries
<1>4. planned = block_buffer_tail <=> p = 0
  <2>1. Distance(t, planned) = p
    BY <1>a, DistanceIndex
  <2>2. Index(t, 0) = t /\ Distance(t, t) = 0
    BY IndexOf, DistanceOf, PlannerAssumption DEF Entries
  <2> QED
    BY <2>1, <2>2
<1>5. DOMAIN ring = Entries
  BY DEF Queues
<1>6. /\ block_buffer' = [i \in DOMAIN ring |->
                IF \E k \in 1 .. n : after[k] = i
                THEN [base[i] EXCEPT !.entry = Forward(base, planned, n)[Distance(planned, i)]]
                ELSE base[i]]
      /\ block_buffer_planned' = after[Max(B)]
  BY <1>1 DEF Recalculate
<1>7. \A k \in 1 .. n : after[k] = Index(planned, k)
  <2> HIDE DEF n
  <2> QED
    BY <1>1
<1>8. block_buffer' = Replanned(base, planned, n)
  <2> HIDE DEF after, planned, n, base
  <2>1. \A i \in Entries : (\E k \in 1 .. n : after[k] = i) <=> (\E k \in 1 .. n : Index(planned, k) = i)
    BY <1>7
  <2> QED
    BY <1>5, <1>6, <2>1 DEF Replanned
<1>9. Max(B) \in B /\ Max(B) \in 0 .. n
  <2>1. Breakpoints(base, planned, n) \subseteq 1 .. n
    BY DEF Breakpoints
  <2>2. B \in SUBSET (0 .. n) /\ B # {}
    BY <1>1, <2>1
  <2> HIDE DEF B, n
  <2> QED
    BY <1>1, <2>2, MaxBounded
<1>10. ASSUME NEW k \in 0 .. n PROVE after[k] = Index(t, p + k)
  <2> HIDE DEF n
  <2>1. k \in Entries /\ p + k < BLOCK_BUFFER_SIZE
    BY <1>1, PlannerAssumption DEF Entries
  <2> QED
    BY <1>a, <2>1, IndexIndex
<1> HIDE DEF after, B
<1>11. block_buffer_planned' = Index(t, p + Max(B))
  BY <1>6, <1>9, <1>10
<1>12. base = IF p = 0 THEN Updated(ring) ELSE ring
  <2> HIDE DEF n
  <2> QED
    BY <1>1, <1>4
<1> HIDE DEF base, n
<1> QED
  BY <1>3, <1>8, <1>9, <1>11, <1>12 DEF B

-----------------------------------------------------------------------------
(***************************************************************************)
(* The inductive invariant.                                                *)
(***************************************************************************)
Types ==
  /\ sys_state \in {"IDLE", "CYCLE", "HOLD"}
  /\ block_buffer \in Queues
  /\ block_buffer_head \in Entries /\ block_buffer_tail \in Entries
  /\ block_buffer_planned \in Entries
  /\ previous_nominal \in Nat /\ current_speed \in Nat /\ exit_speed \in Nat
  /\ loaded \in BOOLEAN /\ partial \in BOOLEAN

\* The profile is that of a block of the queue that has not been finished.
Profile ==
  /\ loaded \/ partial => ~Empty /\ sys_state # "IDLE"
  /\ loaded => ~partial /\ current_speed > 0
  /\ partial => First.entry = current_speed

\* A block is entered no faster than it and the one before it are executed.
JunctionsOf(ring, t, last) ==
  /\ \A k \in 0 .. last : ring[Index(t, k)].nominal > 0
  /\ \A k \in 0 .. last : ring[Index(t, k)].max_entry <= ring[Index(t, k)].nominal
  /\ \A k \in 1 .. last : ring[Index(t, k)].max_entry <= ring[Index(t, k - 1)].nominal

Junctions ==
  /\ ~Empty => previous_nominal = Block(Last).nominal
  /\ JunctionsOf(block_buffer, block_buffer_tail, Last)

\* Even in a hold, when the machine does not follow it, the plan behind the first
\* block can be braked for.
BrakingOf(ring, t, last) ==
  \A k \in 1 .. last :
    /\ ring[Index(t, k)].entry <= ring[Index(t, k)].max_entry
    /\ k < last => ring[Index(t, k)].entry <= ring[Index(t, k + 1)].entry + ring[Index(t, k)].mm
    /\ k = last => ring[Index(t, k)].entry <= ring[Index(t, k)].mm

Braking == BrakingOf(block_buffer, block_buffer_tail, Last)

\* The machine follows the plan unless a hold makes it brake; once the hold has
\* stopped it, everything has been planned again.
Following == ~Empty /\ (sys_state = "HOLD" => current_speed = 0)

PlannedCount == Distance(block_buffer_tail, block_buffer_planned)

Planned ==
  Following =>
    /\ SpeedNow <= First.nominal
    /\ GoodPlan(block_buffer, block_buffer_tail, Last, PlannedCount, SpeedNow)

IInv == /\ Types /\ PlannedInRange /\ Profile /\ Junctions /\ Braking /\ Planned
        /\ ProfileMatchesPlan

-----------------------------------------------------------------------------
(***************************************************************************)
(* Where the pointers of a queue that is not empty are.                    *)
(***************************************************************************)
LEMMA Geometry ==
  ASSUME NEW t \in Entries, NEW h \in Entries, h # t
  PROVE  LET last == Distance(t, h) - 1
         IN  /\ last \in Nat /\ last + 1 < BLOCK_BUFFER_SIZE
             /\ \A k \in 0 .. last + 1 : k \in Entries /\ Index(t, k) \in Entries
             /\ h = Index(t, last + 1)
             /\ Index(t, 0) = t
             /\ plan_next_block_index(t) = Index(t, 1)
             /\ Index(t, 1) = h <=> last = 0
             /\ \A k \in 1 .. last + 1 : Index(t, k) # t
             /\ \A k \in 0 .. last : Index(t, k) # h
<1> DEFINE last == Distance(t, h) - 1
<1>1. /\ Distance(t, h) \in Entries
      /\ Distance(t, h) = IF t <= h THEN h - t ELSE h - t + BLOCK_BUFFER_SIZE
  BY DistanceOf
<1>2. last \in Nat /\ last + 1 = Distance(t, h) /\ last + 1 < BLOCK_BUFFER_SIZE
  BY <1>1, PlannerAssumption DEF Entries
<1>3. h = Index(t, last + 1)
  BY <1>2, IndexDistance
<1> HIDE DEF last
<1>4. \A k \in 0 .. last + 1 : k \in Entries
  BY <1>2, PlannerAssumption DEF Entries
<1>5. \A k \in 0 .. last + 1 : Index(t, k) \in Entries /\ Distance(t, Index(t, k)) = k
  BY <1>4, IndexOf, DistanceIndex
<1>6. Index(t, 0) = t /\ plan_next_block_index(t) = Index(t, 1)
  BY IndexOf, NextOf, PlannerAssumption DEF Entries
<1>7. ASSUME NEW i \in 0 .. last + 1, NEW j \in 0 .. last + 1, Index(t, i) = Index(t, j)
      PROVE  i = j
  BY <1>5, <1>7
<1>8. 0 \in 0 .. last + 1 /\ 1 \in 0 .. last + 1 /\ last + 1 \in 0 .. last + 1
  BY <1>2
<1>9. Index(t, 1) = h <=> last = 0
  BY <1>2, <1>3, <1>7, <1>8
<1>10. ASSUME NEW k \in 1 .. last + 1 PROVE Index(t, k) # t
  <2>1. k \in 0 .. last + 1 /\ k # 0
    BY <1>2
  <2> QED
    BY <1>6, <1>7, <1>8, <2>1
<1>11. ASSUME NEW k \in 0 .. last PROVE Index(t, k) # h
  <2>1. k \in 0 .. last + 1 /\ k # last + 1
    BY <1>2
  <2> QED
    BY <1>3, <1>7, <1>8, <2>1
<1> QED
  BY <1>2, <1>3, <1>4, <1>5, <1>6, <1>9, <1>10, <1>11 DEF last

(***************************************************************************)
(* A good plan can be braked for.                                          *)
(***************************************************************************)
LEMMA GoodBraking ==
  ASSUME NEW ring \in Queues, NEW t \in Entries, NEW last \in Nat,
         last < BLOCK_BUFFER_SIZE, NEW p, NEW e0 \in Nat,
         GoodPlan(ring, t, last, p, e0)
  PROVE  BrakingOf(ring, t, last)
<1> DEFINE s == SpeedsOf(ring, t, last, e0)
<1>1. \A k \in 1 .. last : s[k] = ring[Index(t, k)].entry
  BY SpeedsType
<1>2. Followed(ring, t, last, s) /\ Stopped(ring, t, last, s)
  BY DEF GoodPlan
<1> HIDE DEF s
<1> SUFFICES ASSUME NEW k \in 1 .. last
             PROVE  /\ s[k] <= ring[Index(t, k)].max_entry
                    /\ k < last => s[k] <= s[k + 1] + ring[Index(t, k)].mm
                    /\ k = last => s[k] <= ring[Index(t, k)].mm
  <2>1. \A k \in 1 .. last : k < last => k + 1 \in 1 .. last
    OBVIOUS
  <2> QED
    BY <1>1, <2>1 DEF BrakingOf
<1>3. k < last => k + 1 \in 1 .. last /\ (k + 1) - 1 = k
  OBVIOUS
<1> QED
  BY <1>2, <1>3 DEF Followed, Stopped

(***************************************************************************)
(* Of an empty queue nothing more is asked.                                *)
(***************************************************************************)
Nothing ==
  /\ Types /\ Empty /\ block_buffer_planned = block_buffer_tail
  /\ ~loaded /\ ~partial

LEMMA EmptyQueue == Nothing => IInv
<1> SUFFICES ASSUME Nothing PROVE IInv
  OBVIOUS
<1>1. Last = -1
  <2>1. Distance(block_buffer_tail, block_buffer_head) = 0
    BY DistanceOf, PlannerAssumption DEF Nothing, Types, Empty, Entries
  <2> QED
    BY <2>1 DEF Last
<1>2. 0 .. Last = {} /\ 1 .. Last = {}
  BY <1>1
<1>3. Junctions /\ Braking
  <2> HIDE DEF Last
  <2> QED
    BY <1>2 DEF Junctions, Braking, JunctionsOf, BrakingOf, Nothing
<1> QED
  BY <1>3 DEF Nothing, IInv, PlannedInRange, Profile, Planned, Following, ProfileMatchesPlan

LEMMA EmptyQueueNext == Nothing' => IInv'
  BY EmptyQueue, PTL

LEMMA DiscardedType ==
  ASSUME NEW q \in Queues
  PROVE  [i \in DOMAIN q |-> Discarded(q[i])] \in Queues
<1>1. DOMAIN q = Entries
  BY DEF Queues
<1>2. ASSUME NEW i \in Entries
      PROVE  Discarded(q[i]) \in [mm : Nat, entry : Nat, max_entry : Nat, nominal : Nat]
  BY DEF Queues, Discarded
<1> QED
  BY <1>1, <1>2 DEF Queues

LEMMA Initially == Init => IInv
<1> SUFFICES ASSUME Init PROVE Nothing
  BY EmptyQueue
<1>1. 0 \in Entries
  BY PlannerAssumption DEF Entries
<1>2. Discarded([entry |-> 0]) \in [mm : Nat, entry : Nat, max_entry : Nat, nominal : Nat]
  BY DEF Discarded
<1>3. block_buffer \in Queues
  BY <1>2 DEF Init, Queues, Entries
<1> QED
  BY <1>1, <1>3 DEF Init, Nothing, Types, Empty

LEMMA ResetInv == IInv /\ Reset => IInv'
<1> SUFFICES ASSUME IInv, Reset PROVE Nothing'
  BY EmptyQueueNext
<1>1. 0 \in Entries
  BY PlannerAssumption DEF Entries
<1>2. block_buffer' \in Queues
  BY DiscardedType DEF Reset, IInv, Types
<1> QED
  BY <1>1, <1>2 DEF Reset, Nothing, Types, Empty

LEMMA CycleStopInv == IInv /\ CycleStop => IInv'
<1> SUFFICES ASSUME IInv, CycleStop PROVE Nothing'
  BY EmptyQueueNext
<1> QED
  BY DEF CycleStop, prepVars, IInv, Nothing, Types, Empty, PlannedInRange, Profile

\* What depends on the queue and the profile only stays with them.
LEMMA SameQueue ==
  ASSUME IInv,
         UNCHANGED <<block_buffer, block_buffer_head, block_buffer_tail,
                     block_buffer_planned, previous_nominal, prepVars>>,
         sys_state' \in {"IDLE", "CYCLE", "HOLD"},
         sys_state' = "IDLE" => sys_state = "IDLE",
         /\ ~Empty
         /\ sys_state' = "HOLD" => current_speed = 0
         => (sys_state = "HOLD" => current_speed = 0),
         sys_state' = "CYCLE" => sys_state = "CYCLE" \/ ~loaded
  PROVE  IInv'
<1>1. /\ Empty' = Empty /\ First' = First /\ Last' = Last /\ PlannedCount' = PlannedCount
      /\ SpeedNow' = SpeedNow /\ PlannedExit' = PlannedExit /\ Block(Last)' = Block(Last)
  BY DEF prepVars, Empty, First, Last, PlannedCount, SpeedNow, PlannedExit, Block
<1>2. Types' /\ PlannedInRange' /\ Profile' /\ Junctions' /\ Braking'
  BY <1>1 DEF IInv, Types, PlannedInRange, Profile, Junctions, Braking, prepVars
<1>3. Planned'
  BY <1>1 DEF IInv, Planned, Following, prepVars
<1>4. ProfileMatchesPlan'
  BY <1>1 DEF IInv, ProfileMatchesPlan, prepVars
<1> QED
  BY <1>2, <1>3, <1>4 DEF IInv

LEMMA CycleStartInv == IInv /\ CycleStart => IInv'
<1> SUFFICES ASSUME IInv, CycleStart PROVE IInv'
  OBVIOUS
<1>1. CASE Empty
  <2>1. Nothing'
    BY <1>1 DEF CycleStart, prepVars, IInv, Nothing, Types, Empty, PlannedInRange, Profile
  <2> QED
    BY <2>1, EmptyQueueNext
<1>2. CASE ~Empty
  <2>1. sys_state' = "CYCLE" /\ (sys_state = "HOLD" => current_speed = 0) /\ ~loaded
    <3>1. sys_state = "IDLE" => ~loaded
      BY DEF IInv, Profile
    <3>2. current_speed = 0 => ~loaded
      BY DEF IInv, Profile, Types
    <3> QED
      BY <1>2, <3>1, <3>2 DEF CycleStart
  <2> QED
    BY <2>1, SameQueue DEF CycleStart
<1> QED
  BY <1>1, <1>2

\* A change of the first block's length and entry speed.
LEMMA FirstChanged ==
  ASSUME NEW r \in Queues, NEW q \in Queues, NEW t \in Entries, NEW last \in Nat,
         last < BLOCK_BUFFER_SIZE,
         \A i \in Entries : i # t => q[i] = r[i],
         q[t].max_entry = r[t].max_entry, q[t].nominal = r[t].nominal,
         \A k \in 1 .. last : Index(t, k) # t
  PROVE  /\ JunctionsOf(r, t, last) => JunctionsOf(q, t, last)
         /\ BrakingOf(r, t, last) => BrakingOf(q, t, last)
         /\ \A k \in 0 .. last : /\ q[Index(t, k)].nominal = r[Index(t, k)].nominal
                                /\ q[Index(t, k)].max_entry = r[Index(t, k)].max_entry
         /\ \A k \in 1 .. last : q[Index(t, k)] = r[Index(t, k)]
<1>1. \A k \in 0 .. last : k \in Entries
  BY SpeedsType
<1>2. \A k \in 0 .. last : Index(t, k) \in Entries
  BY <1>1, IndexOf
<1>3. \A k \in 1 .. last : k \in 0 .. last /\ k - 1 \in 0 .. last /\ (k < last => k + 1 \in 1 .. last)
  OBVIOUS
<1>4. \A k \in 1 .. last : q[Index(t, k)] = r[Index(t, k)]
  BY <1>2, <1>3
<1>5. \A k \in 0 .. last : /\ q[Index(t, k)].nominal = r[Index(t, k)].nominal
                         /\ q[Index(t, k)].max_entry = r[Index(t, k)].max_entry
  BY <1>2
<1>6. JunctionsOf(r, t, last) => JunctionsOf(q, t, last)
  BY <1>3, <1>5 DEF JunctionsOf
<1>7. BrakingOf(r, t, last) => BrakingOf(q, t, last)
  BY <1>3, <1>4 DEF BrakingOf
<1> QED
  BY <1>4, <1>5, <1>6, <1>7

\* What the invariant says of a queue that is not empty.
LEMMA Facts ==
  ASSUME IInv, ~Empty
  PROVE  /\ Last \in Nat /\ Last + 1 < BLOCK_BUFFER_SIZE
         /\ PlannedCount \in 0 .. Last
         /\ block_buffer_planned = Index(block_buffer_tail, PlannedCount)
         /\ block_buffer_head = Index(block_buffer_tail, Last + 1)
         /\ \A k \in 0 .. Last + 1 : k \in Entries /\ Index(block_buffer_tail, k) \in Entries
         /\ Index(block_buffer_tail, 0) = block_buffer_tail
         /\ plan_next_block_index(block_buffer_tail) = Index(block_buffer_tail, 1)
         /\ Index(block_buffer_tail, 1) = block_buffer_head <=> Last = 0
         /\ \A k \in 1 .. Last + 1 : Index(block_buffer_tail, k) # block_buffer_tail
         /\ \A k \in 0 .. Last : Index(block_buffer_tail, k) # block_buffer_head
         /\ \A k \in 0 .. Last : Block(k) = block_buffer[Index(block_buffer_tail, k)]
         /\ First = Block(0)
         /\ \A k \in 0 .. Last : /\ Block(k).mm \in Nat /\ Block(k).entry \in Nat
                                /\ Block(k).max_entry \in Nat /\ Block(k).nominal \in Nat
         /\ PlannedExit = IF Last = 0 THEN 0 ELSE Block(1).entry
         /\ SpeedNow \in Nat /\ StartSpeed \in Nat /\ ExitSpeed \in Nat
<1> DEFINE t == block_buffer_tail
           h == block_buffer_head
<1>1. /\ t \in Entries /\ h \in Entries /\ h # t /\ block_buffer_planned \in Entries
      /\ block_buffer \in Queues
  BY DEF IInv, Types, Empty
<1>2. /\ Last \in Nat /\ Last + 1 < BLOCK_BUFFER_SIZE
      /\ \A k \in 0 .. Last + 1 : k \in Entries /\ Index(t, k) \in Entries
      /\ h = Index(t, Last + 1)
      /\ Index(t, 0) = t
      /\ plan_next_block_index(t) = Index(t, 1)
      /\ Index(t, 1) = h <=> Last = 0
      /\ \A k \in 1 .. Last + 1 : Index(t, k) # t
      /\ \A k \in 0 .. Last : Index(t, k) # h
  <2> HIDE DEF t, h
  <2> USE <1>1, Geometry
  <2> QED
    BY DEF Last, t, h
<1>3. PlannedCount \in 0 .. Last /\ block_buffer_planned = Index(t, PlannedCount)
  <2>1. PlannedCount \in Entries /\ Index(t, PlannedCount) = block_buffer_planned
    BY <1>1, DistanceOf, IndexDistance DEF PlannedCount
  <2>2. Distance(t, h) \in Entries
    BY <1>1, DistanceOf
  <2>3. PlannedCount < Distance(t, h)
    BY DEF IInv, PlannedInRange, PlannedCount
  <2> QED
    BY <2>1, <2>2, <2>3, PlannerAssumption DEF Entries, Last
<1>4. \A k \in 0 .. Last : k \in 0 .. Last + 1
  BY <1>2
<1>5. \A k \in 0 .. Last : /\ Block(k).mm \in Nat /\ Block(k).entry \in Nat
                          /\ Block(k).max_entry \in Nat /\ Block(k).nominal \in Nat
  BY <1>1, <1>2, <1>4, QueueType DEF Block
<1>6. First = Block(0) /\ \A k \in 0 .. Last : Block(k) = block_buffer[Index(t, k)]
  BY <1>2 DEF First, Block
<1>7. PlannedExit = IF Last = 0 THEN 0 ELSE Block(1).entry
  BY <1>2 DEF PlannedExit, Block
<1>8. 0 \in 0 .. Last /\ (Last # 0 => 1 \in 0 .. Last)
  BY <1>2
<1>9. PlannedExit \in Nat /\ First.entry \in Nat /\ First.mm \in Nat
  BY <1>5, <1>6, <1>7, <1>8
<1>10. SpeedNow \in Nat /\ StartSpeed \in Nat
  BY <1>9 DEF SpeedNow, StartSpeed, IInv, Types
<1>11. ExitSpeed \in Nat
  <2>1. Max({0, StartSpeed - First.mm}) \in Nat
    <3> DEFINE a == StartSpeed - First.mm
    <3>1. a \in Int
      BY <1>9, <1>10
    <3> HIDE DEF a
    <3>2. Max({0, a}) = IF 0 >= a THEN 0 ELSE a
      BY <3>1, MaxPair
    <3>3. Max({0, a}) \in Nat
      BY <3>1, <3>2
    <3> QED
      BY <3>3 DEF a
  <2> QED
    BY <1>9, <2>1 DEF ExitSpeed, IInv, Types
<1> QED
  BY <1>2, <1>3, <1>5, <1>6, <1>7, <1>10, <1>11

(***************************************************************************)
(* What a step leaves of the invariant, in terms of where its pointers are.*)
(***************************************************************************)
LEMMA Pointers ==
  ASSUME NEW t \in Entries, NEW last \in Nat, last + 1 < BLOCK_BUFFER_SIZE,
         NEW c \in 0 .. last,
         block_buffer_tail' = t, block_buffer_head' = Index(t, last + 1),
         block_buffer_planned' = Index(t, c)
  PROVE  /\ ~Empty' /\ PlannedInRange'
         /\ First' = block_buffer'[t]
         /\ PlannedExit' = IF last = 0 THEN 0 ELSE block_buffer'[Index(t, 1)].entry
         /\ Junctions' <=> /\ previous_nominal' = block_buffer'[Index(t, last)].nominal
                           /\ JunctionsOf(block_buffer', t, last)
         /\ Braking' <=> BrakingOf(block_buffer', t, last)
         /\ Planned' <=> ((sys_state' = "HOLD" => current_speed' = 0) =>
                            /\ SpeedNow' <= block_buffer'[t].nominal
                            /\ GoodPlan(block_buffer', t, last, c, SpeedNow'))
<1>1. /\ last + 1 \in Entries /\ c \in Entries /\ 1 \in Entries /\ 0 \in Entries
      /\ last + 1 # 0 /\ (last + 1) - 1 = last
  BY PlannerAssumption DEF Entries
<1>2. Distance(t, block_buffer_head') = last + 1 /\ Distance(t, block_buffer_planned') = c
  BY <1>1, DistanceIndex
<1>3. Distance(t, t) = 0
  BY DistanceOf DEF Entries
<1>4. ~Empty'
  BY <1>1, <1>2, <1>3 DEF Empty
<1>5. Last' = last
  BY <1>1, <1>2 DEF Last
<1>6. PlannedCount' = c
  BY <1>2 DEF PlannedCount
<1>7. PlannedInRange'
  <2>1. c < last + 1
    OBVIOUS
  <2> QED
    BY <1>2, <1>4, <2>1 DEF PlannedInRange
<1>8. First' = block_buffer'[t]
  BY DEF First
<1>9. PlannedExit' = IF last = 0 THEN 0 ELSE block_buffer'[Index(t, 1)].entry
  <2>1. plan_next_block_index(t) = Index(t, 1)
    BY NextOf
  <2>2. Distance(t, Index(t, 1)) = 1
    BY <1>1, DistanceIndex
  <2>3. Index(t, 1) = block_buffer_head' <=> last = 0
    BY <1>2, <2>2
  <2> QED
    BY <2>1, <2>3 DEF PlannedExit
<1>10. Block(Last)' = block_buffer'[Index(t, last)]
  BY <1>5 DEF Block
<1>11. Junctions' <=> /\ previous_nominal' = block_buffer'[Index(t, last)].nominal
                      /\ JunctionsOf(block_buffer', t, last)
  BY <1>4, <1>5, <1>10 DEF Junctions
<1>12. Braking' <=> BrakingOf(block_buffer', t, last)
  BY <1>5 DEF Braking
<1>13. Planned' <=> ((sys_state' = "HOLD" => current_speed' = 0) =>
                       /\ SpeedNow' <= block_buffer'[t].nominal
                       /\ GoodPlan(block_buffer', t, last, c, SpeedNow'))
  BY <1>4, <1>5, <1>6, <1>8 DEF Planned, Following
<1> QED
  BY <1>4, <1>7, <1>8, <1>9, <1>11, <1>12, <1>13

\* A step that changes no more than the first block.
LEMMA FirstStep ==
  ASSUME IInv, ~Empty,
         UNCHANGED <<block_buffer_head, block_buffer_tail, block_buffer_planned,
                     previous_nominal>>,
         block_buffer' \in Queues,
         \A i \in Entries : i # block_buffer_tail => block_buffer'[i] = block_buffer[i],
         block_buffer'[block_buffer_tail].max_entry = First.max_entry,
         block_buffer'[block_buffer_tail].nominal = First.nominal
  PROVE  /\ ~Empty' /\ PlannedInRange' /\ Junctions' /\ Braking'
         /\ First' = block_buffer'[block_buffer_tail]
         /\ PlannedExit' = PlannedExit
         /\ \A k \in 1 .. Last : block_buffer'[Index(block_buffer_tail, k)] = Block(k)
         /\ Planned' <=> ((sys_state' = "HOLD" => current_speed' = 0) =>
                            /\ SpeedNow' <= First.nominal
                            /\ GoodPlan(block_buffer', block_buffer_tail, Last,
                                        PlannedCount, SpeedNow'))
<1> DEFINE t == block_buffer_tail
           q == block_buffer'
<1>1. /\ Last \in Nat /\ Last + 1 < BLOCK_BUFFER_SIZE /\ Last < BLOCK_BUFFER_SIZE
      /\ PlannedCount \in 0 .. Last
      /\ block_buffer_planned = Index(t, PlannedCount)
      /\ block_buffer_head = Index(t, Last + 1)
  BY Facts, PlannerAssumption
<1>2. /\ \A k \in 1 .. Last + 1 : Index(t, k) # t
      /\ PlannedExit = IF Last = 0 THEN 0 ELSE Block(1).entry
  BY Facts
<1>3. t \in Entries /\ block_buffer \in Queues
  BY DEF IInv, Types
<1>4. /\ ~Empty' /\ PlannedInRange' /\ First' = q[t]
      /\ PlannedExit' = IF Last = 0 THEN 0 ELSE q[Index(t, 1)].entry
      /\ Junctions' <=> /\ previous_nominal' = q[Index(t, Last)].nominal
                        /\ JunctionsOf(q, t, Last)
      /\ Braking' <=> BrakingOf(q, t, Last)
      /\ Planned' <=> ((sys_state' = "HOLD" => current_speed' = 0) =>
                         /\ SpeedNow' <= q[t].nominal
                         /\ GoodPlan(q, t, Last, PlannedCount, SpeedNow'))
  <2>1. t' = t /\ block_buffer_head' = Index(t, Last + 1) /\ block_buffer_planned' = Index(t, PlannedCount)
    BY <1>1
  <2> QED
    BY <1>1, <1>3, <2>1, Pointers
<1>5. /\ JunctionsOf(block_buffer, t, Last) => JunctionsOf(q, t, Last)
      /\ BrakingOf(block_buffer, t, Last) => BrakingOf(q, t, Last)
      /\ \A k \in 0 .. Last : q[Index(t, k)].nominal = block_buffer[Index(t, k)].nominal
      /\ \A k \in 1 .. Last : q[Index(t, k)] = block_buffer[Index(t, k)]
  <2>1. \A k \in 1 .. Last : Index(t, k) # t
    BY <1>1, <1>2
  <2> QED
    BY <1>1, <1>3, <2>1, FirstChanged DEF First
<1>6. JunctionsOf(block_buffer, t, Last) /\ BrakingOf(block_buffer, t, Last)
      /\ previous_nominal = Block(Last).nominal
  BY DEF IInv, Junctions, Braking
<1>7. Junctions' /\ Braking'
  <2>1. Last \in 0 .. Last
    BY <1>1
  <2> QED
    BY <1>4, <1>5, <1>6, <2>1 DEF Block
<1>8. PlannedExit' = PlannedExit
  <2>1. Last # 0 => 1 \in 1 .. Last
    BY <1>1
  <2> QED
    BY <1>2, <1>4, <1>5, <2>1 DEF Block
<1> QED
  BY <1>4, <1>5, <1>7, <1>8 DEF Block, First

LEMMA FeedHoldInv == IInv /\ FeedHold => IInv'
<1> SUFFICES ASSUME IInv, FeedHold PROVE IInv'
  OBVIOUS
<1>1. CASE ~(sys_state = "CYCLE" /\ loaded)
  <2>1. loaded' = loaded /\ partial' = partial
    BY <1>1 DEF FeedHold, UpdatePlanBlockParameters, IInv, Types, Profile
  <2>2. block_buffer' = block_buffer
    BY <1>1 DEF FeedHold, Updated, IInv, Profile
  <2> QED
    BY <2>1, <2>2, SameQueue DEF FeedHold, prepVars
<1>2. CASE sys_state = "CYCLE" /\ loaded
  <2>1. ~Empty /\ current_speed > 0
    BY <1>2 DEF IInv, Profile
  <2>2. /\ block_buffer' = [block_buffer EXCEPT ![block_buffer_tail].entry = current_speed]
        /\ loaded' = FALSE /\ partial' = TRUE
        /\ sys_state' = "HOLD" /\ current_speed' = current_speed /\ exit_speed' = exit_speed
    BY <1>2 DEF FeedHold, Updated, UpdatePlanBlockParameters
  <2>3. UNCHANGED <<block_buffer_head, block_buffer_tail, block_buffer_planned, previous_nominal>>
    BY DEF FeedHold
  <2>4. /\ block_buffer \in Queues /\ block_buffer_tail \in Entries /\ current_speed \in Nat
    BY DEF IInv, Types
  <2>5. /\ block_buffer' \in Queues
        /\ \A i \in Entries : i # block_buffer_tail => block_buffer'[i] = block_buffer[i]
        /\ block_buffer'[block_buffer_tail].max_entry = First.max_entry
        /\ block_buffer'[block_buffer_tail].nominal = First.nominal
        /\ block_buffer'[block_buffer_tail].entry = current_speed
    BY <2>2, <2>4 DEF Queues, First
  <2>6. /\ ~Empty' /\ PlannedInRange' /\ Junctions' /\ Braking'
        /\ First' = block_buffer'[block_buffer_tail]
        /\ Planned' <=> ((sys_state' = "HOLD" => current_speed' = 0) =>
                            /\ SpeedNow' <= First.nominal
                            /\ GoodPlan(block_buffer', block_buffer_tail, Last,
                                        PlannedCount, SpeedNow'))
    BY <2>1, <2>3, <2>5, FirstStep
  <2>7. Types'
    BY <2>2, <2>3, <2>5 DEF IInv, Types
  <2>8. Profile'
    BY <2>2, <2>5, <2>6 DEF Profile
  <2>9. Planned'
    BY <2>1, <2>2, <2>4, <2>6
  <2>10. ProfileMatchesPlan'
    BY <2>2 DEF ProfileMatchesPlan
  <2> QED
    BY <2>6, <2>7, <2>8, <2>9, <2>10 DEF IInv
<1> QED
  BY <1>1, <1>2

\* The plan the machine follows: how the first block may be left.
LEMMA FirstExit ==
  ASSUME IInv, ~Empty, sys_state = "CYCLE"
  PROVE  /\ StartSpeed = SpeedNow /\ ExitSpeed = PlannedExit
         /\ StartSpeed <= First.nominal /\ PlannedExit <= First.nominal
         /\ First.nominal > 0
         /\ StartSpeed <= PlannedExit + First.mm /\ PlannedExit <= StartSpeed + First.mm
         /\ GoodPlan(block_buffer, block_buffer_tail, Last, PlannedCount, StartSpeed)
<1> DEFINE t == block_buffer_tail
           s == SpeedsOf(block_buffer, t, Last, StartSpeed)
<1>1. /\ Last \in Nat /\ Last < BLOCK_BUFFER_SIZE /\ 0 \in 0 .. Last
      /\ (Last # 0 => 1 \in 1 .. Last /\ 1 \in 0 .. Last)
  <2>1. Last \in Nat /\ Last + 1 < BLOCK_BUFFER_SIZE
    BY Facts
  <2> QED
    BY <2>1, PlannerAssumption
<1>2. /\ First = Block(0) /\ First = block_buffer[t] /\ Index(t, 0) = t
      /\ PlannedExit = IF Last = 0 THEN 0 ELSE Block(1).entry
      /\ \A k \in 0 .. Last : Block(k) = block_buffer[Index(t, k)]
  BY Facts DEF First
<1>3. /\ StartSpeed \in Nat /\ t \in Entries /\ block_buffer \in Queues
  BY Facts DEF IInv, Types
<1>4. \A k \in 0 .. Last : /\ Block(k).mm \in Nat /\ Block(k).entry \in Nat
                          /\ Block(k).max_entry \in Nat /\ Block(k).nominal \in Nat
  BY Facts
<1>5. StartSpeed = SpeedNow
  BY DEF StartSpeed, SpeedNow
<1>6. ExitSpeed = PlannedExit
  BY DEF ExitSpeed, IInv, ProfileMatchesPlan
<1>7. /\ StartSpeed <= First.nominal
      /\ GoodPlan(block_buffer, t, Last, PlannedCount, StartSpeed)
  BY <1>5 DEF IInv, Planned, Following
<1>8. First.nominal > 0
  BY <1>1, <1>2 DEF IInv, Junctions, JunctionsOf
<1>9. PlannedExit <= First.nominal
  <2>1. CASE Last = 0
    BY <1>1, <1>2, <1>4, <1>8, <2>1
  <2>2. CASE Last # 0
    <3>1. Block(1).entry <= Block(1).max_entry
      BY <1>1, <1>2, <2>2 DEF IInv, Braking, BrakingOf
    <3>2. Block(1).max_entry <= First.nominal
      <4>1. block_buffer[Index(t, 1)].max_entry <= block_buffer[Index(t, 1 - 1)].nominal
        BY <1>1, <2>2 DEF IInv, Junctions, JunctionsOf
      <4>2. 1 - 1 = 0
        OBVIOUS
      <4> QED
        BY <1>1, <1>2, <2>2, <4>1, <4>2
    <3> QED
      BY <1>1, <1>2, <1>4, <2>2, <3>1, <3>2
  <2> QED
    BY <2>1, <2>2
<1>10. /\ s[0] = StartSpeed
       /\ \A k \in 1 .. Last : s[k] = block_buffer[Index(t, k)].entry
  BY <1>1, <1>3, SpeedsType
<1>11. Followed(block_buffer, t, Last, s) /\ Stopped(block_buffer, t, Last, s)
  BY <1>7 DEF GoodPlan
<1> HIDE DEF s
<1>12. StartSpeed <= PlannedExit + First.mm /\ PlannedExit <= StartSpeed + First.mm
  <2>1. CASE Last = 0
    <3>1. s[Last] = s[0] /\ Index(t, Last) = t
      BY <1>2, <2>1
    <3>2. StartSpeed <= First.mm
      BY <1>2, <1>10, <1>11, <3>1 DEF Stopped
    <3>3. PlannedExit = 0 /\ First.mm \in Nat
      BY <1>1, <1>2, <1>4, <2>1
    <3> QED
      BY <1>3, <3>2, <3>3
  <2>2. CASE Last # 0
    <3>1. /\ s[1] <= s[1 - 1] + block_buffer[Index(t, 1 - 1)].mm
          /\ s[1 - 1] <= s[1] + block_buffer[Index(t, 1 - 1)].mm
      BY <1>1, <1>11, <2>2 DEF Followed
    <3>2. 1 - 1 = 0 /\ s[1] = PlannedExit
      BY <1>1, <1>2, <1>10, <2>2
    <3> QED
      BY <1>2, <1>10, <3>1, <3>2
  <2> QED
    BY <2>1, <2>2
<1> QED
  BY <1>5, <1>6, <1>7, <1>8, <1>9, <1>12

\* d further on, the rest of the block suffices to meet the exit speed.
LEMMA SpeedAfterIs ==
  ASSUME IInv, ~Empty, sys_state = "CYCLE", NEW d \in 1 .. First.mm - 1
  PROVE  /\ SpeedAfter(d) \in Nat /\ SpeedAfter(d) > 0
         /\ SpeedAfter(d) <= First.nominal
         /\ SpeedAfter(d) <= StartSpeed + d /\ StartSpeed <= SpeedAfter(d) + d
         /\ SpeedAfter(d) <= PlannedExit + (First.mm - d)
         /\ PlannedExit <= SpeedAfter(d) + (First.mm - d)
<1> DEFINE v == StartSpeed
           x == PlannedExit
           mm == First.mm
           nom == First.nominal
           z == SpeedAfter(d)
<1>1. v \in Nat /\ x \in Nat /\ mm \in Nat /\ nom \in Nat
  <2>1. 0 \in 0 .. Last /\ (Last # 0 => 1 \in 0 .. Last)
    BY Facts
  <2>2. /\ First = Block(0) /\ StartSpeed \in Nat
        /\ PlannedExit = IF Last = 0 THEN 0 ELSE Block(1).entry
    BY Facts
  <2>3. \A k \in 0 .. Last : /\ Block(k).mm \in Nat /\ Block(k).entry \in Nat
                            /\ Block(k).nominal \in Nat
    BY Facts
  <2> QED
    BY <2>1, <2>2, <2>3
<1>2. /\ ExitSpeed = x /\ v <= nom /\ x <= nom /\ nom > 0
      /\ v <= x + mm /\ x <= v + mm
  BY FirstExit
<1>3. z = IF v - x >= mm THEN v - d ELSE Min({v + d, nom, x + mm - d})
  BY <1>2 DEF SpeedAfter
<1>4. d \in Nat /\ d > 0 /\ d < mm
  BY <1>1
<1> HIDE DEF v, x, mm, nom, z
<1>5. CASE v - x >= mm
  BY <1>1, <1>2, <1>3, <1>4, <1>5 DEF v, x, mm, nom, z
<1>6. CASE ~(v - x >= mm)
  <2> DEFINE a == v + d
             b == x + mm - d
  <2>1. a \in Int /\ b \in Int /\ nom \in Int /\ a > 0 /\ b > 0
    BY <1>1, <1>4
  <2>2. z = Min({a, nom, b})
    BY <1>3, <1>6
  <2> HIDE DEF a, b
  <2>3. z \in {a, nom, b} /\ z <= a /\ z <= nom /\ z <= b
    BY <2>1, <2>2, MinTriple
  <2> USE DEF a, b
  <2>4. z \in Nat /\ z > 0 /\ z <= nom /\ z <= v + d
    BY <1>1, <1>2, <1>4, <2>1, <2>3
  <2>5. v <= z + d
    BY <1>1, <1>2, <1>4, <1>6, <2>3
  <2>6. z <= x + (mm - d) /\ x <= z + (mm - d)
    BY <1>1, <1>2, <1>4, <2>1, <2>3
  <2> QED
    BY <2>4, <2>5, <2>6 DEF v, x, mm, nom, z
<1> QED
  BY <1>5, <1>6

LEMMA PrepSegmentInv == IInv /\ PrepSegment => IInv'
<1> SUFFICES ASSUME IInv, PrepSegment PROVE IInv'
  OBVIOUS
<1> DEFINE t == block_buffer_tail
           mm == First.mm
<1>1. PICK d \in 1 .. First.mm - 1 :
        /\ Preparing
        /\ sys_state = "HOLD" => d < StartSpeed
        /\ block_buffer' = [Entered EXCEPT ![block_buffer_tail].mm = @ - d]
        /\ loaded' = TRUE /\ partial' = FALSE
        /\ current_speed' = SpeedAfter(d)
        /\ exit_speed' = ExitSpeed
        /\ UNCHANGED <<sys_state, block_buffer_head, block_buffer_tail,
                       block_buffer_planned, previous_nominal>>
  BY DEF PrepSegment
<1>2. ~Empty /\ sys_state \in {"CYCLE", "HOLD"}
  BY <1>1 DEF Preparing, IInv, Types
<1>3. /\ StartSpeed \in Nat /\ ExitSpeed \in Nat
      /\ t \in Entries /\ block_buffer \in Queues
  BY <1>2, Facts DEF IInv, Types
<1>4. First = block_buffer[t] /\ mm \in Nat
  <2>1. First = block_buffer[t]
    BY DEF First
  <2> QED
    BY <1>3, <2>1 DEF Queues
<1>5. d \in Nat /\ d > 0 /\ d < mm
  BY <1>4
<1>6. /\ Entered \in Queues
      /\ \A i \in Entries : i # t => Entered[i] = block_buffer[i]
      /\ Entered[t].mm = mm /\ Entered[t].max_entry = First.max_entry
      /\ Entered[t].nominal = First.nominal
      /\ sys_state = "CYCLE" => Entered = block_buffer
  BY <1>3, <1>4 DEF Entered, Queues
<1>7. /\ block_buffer' \in Queues
      /\ \A i \in Entries : i # t => block_buffer'[i] = block_buffer[i]
      /\ block_buffer'[t].max_entry = First.max_entry
      /\ block_buffer'[t].nominal = First.nominal
      /\ block_buffer'[t].mm = mm - d
  BY <1>1, <1>3, <1>5, <1>6 DEF Queues
<1>8. /\ ~Empty' /\ PlannedInRange' /\ Junctions' /\ Braking'
      /\ PlannedExit' = PlannedExit
      /\ \A k \in 1 .. Last : block_buffer'[Index(t, k)] = Block(k)
      /\ Planned' <=> ((sys_state' = "HOLD" => current_speed' = 0) =>
                          /\ SpeedNow' <= First.nominal
                          /\ GoodPlan(block_buffer', t, Last, PlannedCount, SpeedNow'))
  BY <1>1, <1>2, <1>7, FirstStep
<1>9. current_speed' \in Nat /\ current_speed' > 0
  <2>1. CASE sys_state = "HOLD"
    BY <1>1, <1>3, <1>5, <2>1 DEF SpeedAfter
  <2>2. CASE sys_state = "CYCLE"
    BY <1>1, <1>2, <2>2, SpeedAfterIs
  <2> QED
    BY <1>2, <2>1, <2>2
<1>10. Types'
  BY <1>1, <1>3, <1>7, <1>9 DEF IInv, Types
<1>11. Profile'
  BY <1>1, <1>2, <1>8, <1>9 DEF Profile
<1>12. ProfileMatchesPlan'
  BY <1>1, <1>2, <1>8, FirstExit DEF ProfileMatchesPlan
<1>13. Planned'
  <2>1. CASE sys_state = "HOLD"
    BY <1>1, <1>8, <1>9, <2>1
  <2>2. CASE sys_state = "CYCLE"
    <3> DEFINE z == SpeedAfter(d)
    <3>1. SpeedNow' = z
      BY <1>1 DEF SpeedNow
    <3>2. /\ z \in Nat /\ z <= First.nominal
          /\ z <= StartSpeed + d /\ StartSpeed <= z + d
          /\ z <= PlannedExit + (mm - d) /\ PlannedExit <= z + (mm - d)
      BY <1>2, <2>2, SpeedAfterIs
    <3>3. GoodPlan(block_buffer, t, Last, PlannedCount, StartSpeed)
      BY <1>2, <2>2, FirstExit
    <3>4. /\ Last \in Nat /\ Last < BLOCK_BUFFER_SIZE /\ PlannedCount \in 0 .. Last
      BY <1>2, Facts, PlannerAssumption
    <3>5. /\ PlannedExit = IF Last = 0 THEN 0 ELSE Block(1).entry
          /\ \A k \in 0 .. Last : Block(k) = block_buffer[Index(t, k)]
      BY <1>2, Facts
    <3>6. \A k \in 1 .. Last :
            /\ block_buffer'[Index(t, k)].mm = block_buffer[Index(t, k)].mm
            /\ block_buffer'[Index(t, k)].max_entry = block_buffer[Index(t, k)].max_entry
            /\ block_buffer'[Index(t, k)].entry = block_buffer[Index(t, k)].entry
      BY <1>8, <3>4, <3>5
    <3> HIDE DEF z
    <3>7. Last = 0 => z <= block_buffer[t].mm - d
      BY <1>4, <1>5, <3>2, <3>5
    <3>8. Last > 0 => /\ z <= block_buffer[Index(t, 1)].entry + (block_buffer[t].mm - d)
                      /\ block_buffer[Index(t, 1)].entry <= z + (block_buffer[t].mm - d)
      BY <1>4, <3>2, <3>4, <3>5
    <3>9. /\ d <= block_buffer[t].mm
          /\ block_buffer'[t].mm = block_buffer[t].mm - d
      BY <1>4, <1>5, <1>7
    <3>10. GoodPlan(block_buffer', t, Last, PlannedCount, z)
      <4> DEFINE q == block_buffer'
                 c == PlannedCount
                 v == StartSpeed
                 last == Last
      <4>1. /\ q \in Queues /\ t \in Entries /\ last \in Nat /\ c \in 0 .. last
            /\ v \in Nat /\ z \in Nat /\ d \in Nat
        BY <1>3, <1>5, <1>7, <3>2, <3>4
      <4> HIDE DEF q, c, v, last, t
      <4> QED
        BY <1>3, <3>2, <3>3, <3>4, <3>6, <3>7, <3>8, <3>9, <4>1, Executing DEF q, c, v, last
    <3> QED
      BY <1>8, <3>1, <3>2, <3>10
  <2> QED
    BY <1>2, <2>1, <2>2
<1> QED
  BY <1>8, <1>10, <1>11, <1>12, <1>13 DEF IInv

\* The queue behind a block that is finished.
LEMMA Shifted ==
  ASSUME NEW r \in Queues, NEW q \in Queues, NEW t \in Entries, NEW u \in Entries,
         NEW last \in Nat, last > 0,
         \A k \in 1 .. last : q[Index(u, k - 1)] = r[Index(t, k)]
  PROVE  /\ JunctionsOf(r, t, last) => JunctionsOf(q, u, last - 1)
         /\ BrakingOf(r, t, last) => BrakingOf(q, u, last - 1)
<1> DEFINE a == [k \in 0 .. last |-> r[Index(t, k)]]
           b == [k \in 0 .. last - 1 |-> q[Index(u, k)]]
<1>1. ASSUME NEW k \in 0 .. last - 1
      PROVE  k + 1 \in 1 .. last /\ k + 1 \in 0 .. last /\ q[Index(u, k)] = r[Index(t, k + 1)]
  <2>1. k + 1 \in 1 .. last /\ k + 1 \in 0 .. last /\ (k + 1) - 1 = k
    OBVIOUS
  <2> QED
    BY <2>1
<1>2. ASSUME JunctionsOf(r, t, last) PROVE JunctionsOf(q, u, last - 1)
  <2>1. ASSUME NEW k \in 0 .. last - 1
        PROVE  /\ q[Index(u, k)].nominal > 0
               /\ q[Index(u, k)].max_entry <= q[Index(u, k)].nominal
    BY <1>1, <1>2 DEF JunctionsOf
  <2>2. ASSUME NEW k \in 1 .. last - 1
        PROVE  q[Index(u, k)].max_entry <= q[Index(u, k - 1)].nominal
    <3>1. k \in 0 .. last - 1 /\ k - 1 \in 0 .. last - 1 /\ (k - 1) + 1 = k /\ (k + 1) - 1 = k
      OBVIOUS
    <3>2. q[Index(u, k)] = r[Index(t, k + 1)] /\ k + 1 \in 1 .. last
      BY <1>1, <3>1
    <3>3. q[Index(u, k - 1)] = r[Index(t, (k - 1) + 1)]
      BY <1>1, <3>1
    <3>4. r[Index(t, k + 1)].max_entry <= r[Index(t, (k + 1) - 1)].nominal
      BY <1>2, <3>2 DEF JunctionsOf
    <3> QED
      BY <3>1, <3>2, <3>3, <3>4
  <2> QED
    BY <2>1, <2>2 DEF JunctionsOf
<1>3. ASSUME BrakingOf(r, t, last) PROVE BrakingOf(q, u, last - 1)
  <2> SUFFICES ASSUME NEW k \in 1 .. last - 1
               PROVE  LET e == q[Index(u, k)]
                      IN  /\ e.entry <= e.max_entry
                          /\ k < last - 1 => e.entry <= q[Index(u, k + 1)].entry + e.mm
                          /\ k = last - 1 => e.entry <= e.mm
    BY DEF BrakingOf
  <2>1. k \in 0 .. last - 1 /\ (k < last - 1 => k + 1 \in 0 .. last - 1)
    OBVIOUS
  <2>2. q[Index(u, k)] = r[Index(t, k + 1)] /\ k + 1 \in 1 .. last
    BY <1>1, <2>1
  <2>3. k < last - 1 => q[Index(u, k + 1)] = r[Index(t, (k + 1) + 1)]
    BY <1>1, <2>1
  <2>4. /\ r[Index(t, k + 1)].entry <= r[Index(t, k + 1)].max_entry
        /\ k + 1 < last => r[Index(t, k + 1)].entry
                             <= r[Index(t, (k + 1) + 1)].entry + r[Index(t, k + 1)].mm
        /\ k + 1 = last => r[Index(t, k + 1)].entry <= r[Index(t, k + 1)].mm
    BY <1>3, <2>2 DEF BrakingOf
  <2>5. (k < last - 1 <=> k + 1 < last) /\ (k = last - 1 <=> k + 1 = last)
    OBVIOUS
  <2> QED
    BY <2>2, <2>3, <2>4, <2>5
<1> QED
  BY <1>2, <1>3

LEMMA PrepBlockEndInv == IInv /\ PrepBlockEnd => IInv'
<1> SUFFICES ASSUME IInv, PrepBlockEnd PROVE IInv'
  OBVIOUS
<1> DEFINE t == block_buffer_tail
           u == Index(t, 1)
<1>1. ~Empty /\ sys_state \in {"CYCLE", "HOLD"}
  BY DEF PrepBlockEnd, Preparing, IInv, Types
<1>2. /\ loaded' = FALSE /\ partial' = FALSE
      /\ current_speed' = Max({1, ExitSpeed}) /\ exit_speed' = ExitSpeed
      /\ block_buffer' = [Entered EXCEPT ![t] = Discarded(@)]
      /\ block_buffer_tail' = plan_next_block_index(t)
      /\ block_buffer_planned' = IF t = block_buffer_planned
                                 THEN plan_next_block_index(t) ELSE block_buffer_planned
      /\ UNCHANGED <<sys_state, block_buffer_head, previous_nominal>>
  BY DEF PrepBlockEnd, DiscardCurrentBlock
<1>3. /\ StartSpeed \in Nat /\ ExitSpeed \in Nat /\ SpeedNow \in Nat
      /\ t \in Entries /\ block_buffer \in Queues
  BY <1>1, Facts DEF IInv, Types
<1>4. /\ Last \in Nat /\ Last + 1 < BLOCK_BUFFER_SIZE
      /\ PlannedCount \in 0 .. Last
      /\ block_buffer_planned = Index(t, PlannedCount)
      /\ block_buffer_head = Index(t, Last + 1)
      /\ plan_next_block_index(t) = u
      /\ u = block_buffer_head <=> Last = 0
  BY <1>1, Facts
<1>5. /\ \A k \in 0 .. Last + 1 : k \in Entries /\ Index(t, k) \in Entries
      /\ \A k \in 1 .. Last + 1 : Index(t, k) # t
      /\ Index(t, 0) = t
  BY <1>1, Facts
<1>6. u \in Entries /\ 1 \in Entries /\ 1 \in 0 .. Last + 1
  BY <1>4, <1>5
<1>7. /\ block_buffer' \in Queues
      /\ \A i \in Entries : i # t => block_buffer'[i] = block_buffer[i]
  <2>1. /\ Entered \in Queues
        /\ \A i \in Entries : i # t => Entered[i] = block_buffer[i]
    BY <1>3 DEF Entered, Queues
  <2>2. Discarded(Entered[t]) \in [mm : Nat, entry : Nat, max_entry : Nat, nominal : Nat]
    BY <1>3, <2>1 DEF Queues, Discarded
  <2> HIDE DEF t
  <2> QED
    BY <1>2, <1>3, <2>1, <2>2 DEF Queues
<1>8. current_speed' \in Nat /\ current_speed' > 0
  <2> DEFINE x == ExitSpeed
  <2>1. x \in Nat
    BY <1>3
  <2> HIDE DEF x
  <2>2. Max({1, x}) = IF 1 >= x THEN 1 ELSE x
    BY <2>1, MaxPair
  <2>3. Max({1, x}) \in Nat /\ Max({1, x}) > 0
    BY <2>1, <2>2
  <2> QED
    BY <1>2, <2>3 DEF x
<1>9. Types'
  BY <1>2, <1>3, <1>4, <1>6, <1>7, <1>8 DEF IInv, Types
<1>10. CASE Last = 0
  <2>1. Nothing'
    BY <1>2, <1>4, <1>5, <1>9, <1>10 DEF Nothing, Empty
  <2> QED
    BY <2>1, EmptyQueueNext
<1>11. CASE Last # 0
  <2> DEFINE r == block_buffer
             q == block_buffer'
             last == Last
             p == PlannedCount
             c == IF p = 0 THEN 0 ELSE p - 1
  <2>1. /\ last \in Nat /\ last > 0 /\ last < BLOCK_BUFFER_SIZE /\ p \in 0 .. last
        /\ last - 1 \in Nat /\ (last - 1) + 1 = last /\ c \in 0 .. last - 1
        /\ 1 \in 0 .. last /\ last \in 1 .. last /\ 1 \in 1 .. last
    BY <1>4, <1>11, PlannerAssumption
  <2>2. ASSUME NEW k \in 1 .. last + 1
        PROVE  k - 1 \in Entries /\ Index(u, k - 1) = Index(t, k)
    <3>1. k - 1 \in Entries /\ 1 + (k - 1) = k /\ k < BLOCK_BUFFER_SIZE
      BY <1>4, PlannerAssumption DEF Entries
    <3>2. Index(Index(t, 1), k - 1) = Index(t, 1 + (k - 1))
      BY <1>3, <1>6, <3>1, IndexIndex
    <3> QED
      BY <3>1, <3>2
  <2>3. block_buffer_head' = Index(u, last)
    <3>1. last + 1 \in 1 .. last + 1 /\ (last + 1) - 1 = last
      BY <2>1
    <3> QED
      BY <1>2, <1>4, <2>2, <3>1
  <2>4. block_buffer_planned' = Index(u, c)
    <3>1. CASE p = 0
      <4>1. 1 - 1 = 0 /\ 1 \in 1 .. last + 1
        BY <2>1
      <4>2. Index(u, 0) = u
        BY <2>2, <4>1
      <4> QED
        BY <1>2, <1>4, <1>5, <3>1, <4>2
    <3>2. CASE p # 0
      <4>1. p \in 1 .. last + 1 /\ p \in 1 .. Last + 1
        BY <2>1, <3>2
      <4> QED
        BY <1>2, <1>4, <1>5, <2>2, <3>2, <4>1
    <3> QED
      BY <3>1, <3>2
  <2>5. ASSUME NEW k \in 1 .. last PROVE q[Index(u, k - 1)] = r[Index(t, k)]
    <3>1. k \in 1 .. last + 1 /\ k \in 0 .. Last + 1
      BY <2>1
    <3>2. Index(t, k) \in Entries /\ Index(t, k) # t /\ Index(u, k - 1) = Index(t, k)
      BY <1>5, <2>2, <3>1
    <3> QED
      BY <1>7, <3>2
  <2>6. /\ ~Empty' /\ PlannedInRange' /\ First' = q[u]
        /\ Junctions' <=> /\ previous_nominal' = q[Index(u, last - 1)].nominal
                          /\ JunctionsOf(q, u, last - 1)
        /\ Braking' <=> BrakingOf(q, u, last - 1)
        /\ Planned' <=> ((sys_state' = "HOLD" => current_speed' = 0) =>
                           /\ SpeedNow' <= q[u].nominal
                           /\ GoodPlan(q, u, last - 1, c, SpeedNow'))
    <3>1. block_buffer_tail' = u /\ block_buffer_head' = Index(u, (last - 1) + 1)
      BY <1>2, <1>4, <2>1, <2>3
    <3> HIDE DEF u, last, c
    <3> QED
      BY <1>6, <2>1, <2>4, <3>1, Pointers
  <2>7. /\ JunctionsOf(r, t, last) /\ BrakingOf(r, t, last)
        /\ previous_nominal = r[Index(t, last)].nominal
    BY <1>1 DEF IInv, Junctions, Braking, Block
  <2>8. JunctionsOf(q, u, last - 1) /\ BrakingOf(q, u, last - 1)
    <3> HIDE DEF u, t, q, r, last
    <3> QED
      BY <1>3, <1>6, <1>7, <2>1, <2>5, <2>7, Shifted DEF q, r
  <2>9. Junctions' /\ Braking'
    BY <1>2, <2>1, <2>5, <2>6, <2>7, <2>8
  <2>10. q[u] = r[u]
    BY <1>7, <1>6, <2>1, <1>4, <1>5
  <2>11. SpeedNow' = r[u].entry
    BY <1>2, <2>6, <2>10 DEF SpeedNow
  <2>12. Planned'
    <3>1. CASE sys_state = "HOLD"
      BY <1>2, <1>8, <2>6, <3>1
    <3>2. CASE sys_state = "CYCLE"
      <4>1. r[u].entry <= q[u].nominal
        <5>1. r[u].entry <= r[u].max_entry
          BY <2>1, <2>7 DEF BrakingOf
        <5>2. r[u].max_entry <= r[u].nominal
          BY <2>1, <2>7 DEF JunctionsOf
        <5>3. r[u].entry \in Nat /\ r[u].max_entry \in Nat /\ r[u].nominal \in Nat
          BY <1>3, <1>6 DEF Queues
        <5> QED
          BY <2>10, <5>1, <5>2, <5>3
      <4>2. GoodPlan(r, t, last, p, SpeedNow)
        BY <1>1, <3>2 DEF IInv, Planned, Following
      <4>3. GoodPlan(q, u, last - 1, c, r[Index(t, 1)].entry)
        <5> DEFINE e0 == SpeedNow
        <5>1. \A k \in 1 .. last :
                /\ q[Index(u, k - 1)].mm = r[Index(t, k)].mm
                /\ q[Index(u, k - 1)].max_entry = r[Index(t, k)].max_entry
                /\ q[Index(u, k - 1)].entry = r[Index(t, k)].entry
          BY <2>5
        <5>2. r \in Queues /\ q \in Queues /\ e0 \in Nat /\ u \in Entries /\ t \in Entries
          BY <1>3, <1>6, <1>7
        <5>3. GoodPlan(r, t, last, p, e0)
          BY <4>2
        <5> HIDE DEF q, r, e0, u, t, last, p
        <5> QED
          BY <2>1, <5>1, <5>2, <5>3, Executed
      <4> QED
        BY <2>6, <2>11, <4>1, <4>3
    <3> QED
      BY <1>1, <3>1, <3>2
  <2>13. Profile' /\ ProfileMatchesPlan'
    BY <1>2 DEF Profile, ProfileMatchesPlan
  <2> QED
    BY <1>9, <2>6, <2>9, <2>12, <2>13 DEF IInv
<1> QED
  BY <1>10, <1>11

\* Planning from the first block on, which is entered at e0.
LEMMA ReplanningAll ==
  ASSUME NEW ring \in Queues, NEW t \in Entries, NEW last \in Nat, last > 0,
         last < BLOCK_BUFFER_SIZE, ring[t].entry = 0, BrakingOf(ring, t, last),
         NEW m \in {0} \cup Breakpoints(ring, Index(t, 0), last)
  PROVE  GoodPlan(Replanned(ring, Index(t, 0), last), t, last, m, 0)
<1> DEFINE old == [k \in 1 .. last |-> ring[Index(t, k)].entry]
           s == SpeedsOf(ring, t, 0, 0)
<1>1. Index(t, 0) = t /\ 0 + last = last /\ 0 \in Nat
  BY IndexOf, PlannerAssumption DEF Entries
<1>2. \A k \in 0 .. last : k \in Entries
  BY SpeedsType
<1>3. \A k \in 0 .. last : ring[Index(t, k)].entry \in Nat
  BY <1>2, QueueType
<1>4. old \in [1 .. last -> Nat] /\ \A k \in 1 .. last : old[k] = ring[Index(t, k)].entry
  BY <1>3
<1>5. s[0] = 0 /\ 1 .. 0 = {} /\ 0 .. 0 = {0}
  BY DEF SpeedsOf
<1> HIDE DEF old, s
<1>6. Followed(ring, t, 0, s)
  BY <1>5 DEF Followed
<1>7. Final(ring, t, 0, 0, s)
  BY <1>5 DEF Final
<1>8. Brakes(ring, t, last, old)
  <2>1. \A k \in 1 .. last : k < last => k + 1 \in 1 .. last
    OBVIOUS
  <2>2. last \in 1 .. last
    OBVIOUS
  <2> QED
    BY <1>4, <2>1, <2>2 DEF Brakes, BrakingOf, Stopped
<1>9. ring[t].entry <= old[1] + ring[t].mm
  <2>1. 1 \in 1 .. last /\ ring[t].mm \in Nat
    BY DEF Queues
  <2>2. old[1] \in Nat
    BY <1>4, <2>1
  <2> QED
    BY <2>1, <2>2
<1>10. 0 + m = m
  <2>1. m \in Nat
    BY DEF Breakpoints
  <2> QED
    BY <2>1
<1>11. GoodPlan(Replanned(ring, Index(t, 0), last), t, 0 + last, 0 + m, 0)
  <2> DEFINE n == last
             p == 0
             e0 == 0
  <2>1. /\ n \in Nat /\ n > 0 /\ p + n < BLOCK_BUFFER_SIZE /\ p \in Nat /\ e0 \in Nat
        /\ p = 0 => ring[t].entry = e0
    BY <1>1
  <2>2. Followed(ring, t, p, SpeedsOf(ring, t, p, e0)) /\ Final(ring, t, p, e0, SpeedsOf(ring, t, p, e0))
    BY <1>6, <1>7 DEF s
  <2>3. /\ old \in [1 .. n -> Nat] /\ Brakes(ring, Index(t, p), n, old)
        /\ ring[Index(t, p)].entry <= old[1] + ring[Index(t, p)].mm
    BY <1>1, <1>4, <1>8, <1>9
  <2>4. \A k \in 1 .. n :
           k < n /\ ring[Index(Index(t, p), k)].entry = ring[Index(Index(t, p), k)].max_entry
             => old[k] = ring[Index(Index(t, p), k)].entry
    BY <1>1, <1>4
  <2>5. m \in {0} \cup Breakpoints(ring, Index(t, p), n)
    OBVIOUS
  <2> HIDE DEF n, p, e0
  <2>6. GoodPlan(Replanned(ring, Index(t, p), n), t, p + n, p + m, e0)
    BY <2>1, <2>2, <2>3, <2>4, <2>5, Replanning
  <2> QED
    BY <2>6 DEF n, p, e0
<1> QED
  BY <1>1, <1>10, <1>11

LEMMA PrepHoldEndInv == IInv /\ PrepHoldEnd => IInv'
<1> SUFFICES ASSUME IInv, PrepHoldEnd PROVE IInv'
  OBVIOUS
<1> DEFINE t == block_buffer_tail
           ring == [block_buffer EXCEPT ![block_buffer_tail].entry = 0,
                                        ![block_buffer_tail].mm = @ - StartSpeed]
           last == Last
           q == block_buffer'
<1>1. ~Empty /\ sys_state = "HOLD" /\ StartSpeed < First.mm
  BY DEF PrepHoldEnd, Preparing
<1>2. /\ loaded' = FALSE /\ partial' = TRUE /\ current_speed' = 0 /\ exit_speed' = 0
      /\ Recalculate(ring, t, block_buffer_head)
      /\ UNCHANGED <<sys_state, block_buffer_head, block_buffer_tail, previous_nominal>>
  BY DEF PrepHoldEnd
<1>3. /\ StartSpeed \in Nat /\ t \in Entries /\ block_buffer \in Queues
  BY <1>1, Facts DEF IInv, Types
<1>4. /\ last \in Nat /\ last + 1 < BLOCK_BUFFER_SIZE /\ last < BLOCK_BUFFER_SIZE
      /\ block_buffer_head = Index(t, last + 1)
      /\ 0 \in 0 .. last /\ last \in 0 .. last
  BY <1>1, Facts, PlannerAssumption
<1>5. /\ \A k \in 0 .. last + 1 : k \in Entries /\ Index(t, k) \in Entries
      /\ \A k \in 1 .. last + 1 : Index(t, k) # t
      /\ Index(t, 0) = t
  BY <1>1, Facts
<1>6. First = block_buffer[t] /\ First.mm \in Nat
  BY <1>3 DEF First, Queues
<1>7. /\ ring \in Queues /\ ring[t].entry = 0
      /\ \A i \in Entries : i # t => ring[i] = block_buffer[i]
      /\ ring[t].max_entry = block_buffer[t].max_entry
      /\ ring[t].nominal = block_buffer[t].nominal
  <2> DEFINE e == block_buffer[t]
             b == [e EXCEPT !.entry = 0, !.mm = e.mm - StartSpeed]
  <2>1. /\ b \in [mm : Nat, entry : Nat, max_entry : Nat, nominal : Nat]
        /\ b.entry = 0 /\ b.max_entry = e.max_entry /\ b.nominal = e.nominal
    <3>1. /\ e \in [mm : Nat, entry : Nat, max_entry : Nat, nominal : Nat]
          /\ e.mm - StartSpeed \in Nat
      BY <1>1, <1>3, <1>6 DEF Queues
    <3> HIDE DEF e
    <3> QED
      BY <3>1
  <2>2. ring = [block_buffer EXCEPT ![t] = b]
    BY <1>3 DEF Queues
  <2> HIDE DEF ring, b, t
  <2> QED
    BY <1>3, <2>1, <2>2 DEF Queues
<1> HIDE DEF ring
<1>8. Updated(ring) = ring
  <2>1. CASE loaded
    <3>1. Updated(ring) = [ring EXCEPT ![t].entry = 0]
      BY <1>2, <2>1 DEF Updated
    <3>2. [ring EXCEPT ![t].entry = 0] = ring
      BY <1>3, <1>7 DEF Queues
    <3> QED
      BY <3>1, <3>2
  <2>2. CASE ~loaded
    BY <2>2 DEF Updated
  <2> QED
    BY <2>1, <2>2
<1>9. /\ JunctionsOf(ring, t, last) /\ BrakingOf(ring, t, last)
      /\ previous_nominal = ring[Index(t, last)].nominal
  <2>1. /\ JunctionsOf(block_buffer, t, last) /\ BrakingOf(block_buffer, t, last)
        /\ previous_nominal = block_buffer[Index(t, last)].nominal
    BY <1>1 DEF IInv, Junctions, Braking, Block
  <2>2. \A k \in 1 .. last : Index(t, k) # t
    BY <1>4, <1>5
  <2>3. /\ JunctionsOf(block_buffer, t, last) => JunctionsOf(ring, t, last)
        /\ BrakingOf(block_buffer, t, last) => BrakingOf(ring, t, last)
        /\ \A k \in 0 .. last : ring[Index(t, k)].nominal = block_buffer[Index(t, k)].nominal
    <3> HIDE DEF t, last
    <3> QED
      BY <1>3, <1>4, <1>7, <2>2, FirstChanged
  <2> QED
    BY <1>4, <2>1, <2>3
<1>10. \E m \in 0 .. last :
         /\ block_buffer_planned' = Index(t, m)
         /\ GoodPlan(q, t, last, m, 0)
         /\ q \in Queues /\ q[t].entry = 0
         /\ \A i \in Entries : /\ q[i].max_entry = ring[i].max_entry
                               /\ q[i].nominal = ring[i].nominal
  <2>1. CASE last = 0
    <3>1. Distance(t, block_buffer_head) - 1 = 0
      BY <2>1 DEF Last
    <3>2. q = ring /\ block_buffer_planned' = t
      BY <1>2, <3>1 DEF Recalculate
    <3>3. GoodPlan(ring, t, 0, 0, 0)
      <4>1. ring[t].mm \in Nat
        BY <1>3, <1>7 DEF Queues
      <4>2. 0 \in Nat /\ 0 <= ring[t].mm
        BY <4>1
      <4> HIDE DEF t
      <4> QED
        BY <1>3, <1>7, <4>2, SingleBlock
    <3> QED
      BY <1>4, <1>5, <1>7, <2>1, <3>2, <3>3
  <2>2. CASE last # 0
    <3>1. last > 0 /\ 0 \in Nat /\ last - 0 = last
      BY <1>4, <2>2
    <3>2. /\ block_buffer' = Replanned(ring, Index(t, 0), last)
          /\ \E m \in {0} \cup Breakpoints(ring, Index(t, 0), last) :
               m \in 0 .. last /\ block_buffer_planned' = Index(t, 0 + m)
      <4>1. Recalculate(ring, Index(t, 0), Index(t, last + 1))
        BY <1>2, <1>4, <1>5
      <4>2. t = block_buffer_tail
        OBVIOUS
      <4> DEFINE p == 0
                 base == IF p = 0 THEN Updated(ring) ELSE ring
      <4>3. p \in Nat /\ p < last /\ base = ring /\ last - p = last
        BY <1>8, <3>1
      <4>4. Recalculate(ring, Index(t, p), Index(t, last + 1))
        BY <4>1
      <4> HIDE DEF p, last, t
      <4>5. /\ block_buffer' = Replanned(base, Index(t, p), last - p)
            /\ \E m \in {0} \cup Breakpoints(base, Index(t, p), last - p) :
                 m \in 0 .. last - p /\ block_buffer_planned' = Index(t, p + m)
        BY <1>3, <1>4, <1>7, <4>2, <4>3, <4>4, RecalculateIs
      <4>6. /\ block_buffer' = Replanned(ring, Index(t, p), last)
            /\ \E m \in {0} \cup Breakpoints(ring, Index(t, p), last) :
                 m \in 0 .. last /\ block_buffer_planned' = Index(t, p + m)
        <5> HIDE DEF base
        <5> QED
          BY <4>3, <4>5
      <4> QED
        BY <4>6 DEF p
    <3>3. PICK m \in {0} \cup Breakpoints(ring, Index(t, 0), last) :
            m \in 0 .. last /\ block_buffer_planned' = Index(t, 0 + m)
      BY <3>2
    <3>4. 0 + m = m
      BY <3>3
    <3>5. GoodPlan(q, t, last, m, 0)
      <4> HIDE DEF t, last
      <4>1. GoodPlan(Replanned(ring, Index(t, 0), last), t, last, m, 0)
        BY <1>3, <1>4, <1>7, <1>9, <3>1, ReplanningAll
      <4> QED
        BY <3>2, <4>1
    <3>6. /\ q \in Queues
          /\ \A i \in Entries : q[i].nominal = ring[i].nominal /\ q[i].max_entry = ring[i].max_entry
          /\ q[t].entry = ring[t].entry
      <4> DEFINE p == 0
                 n == last
                 new == Replanned(ring, Index(t, p), n)
      <4>1. p \in Nat /\ n \in Nat /\ n > 0 /\ p + n < BLOCK_BUFFER_SIZE
        BY <1>4, <3>1
      <4>2. new = q /\ 0 \in 0 .. p /\ Index(t, 0) = t
        BY <1>5, <3>2
      <4>3. /\ new \in Queues
            /\ \A i \in Entries : new[i].nominal = ring[i].nominal /\ new[i].max_entry = ring[i].max_entry
            /\ \A k \in 0 .. p : new[Index(t, k)].entry = ring[Index(t, k)].entry
        <5> HIDE DEF p, n, t
        <5>1. new \in Queues
          BY <1>3, <1>7, <4>1, ReplannedEntries
        <5>2. \A i \in Entries : new[i].nominal = ring[i].nominal /\ new[i].max_entry = ring[i].max_entry
          BY <1>3, <1>7, <4>1, ReplannedEntries
        <5>3. \A k \in 0 .. p : new[Index(t, k)].entry = ring[Index(t, k)].entry
          BY <1>3, <1>7, <4>1, ReplannedEntries
        <5> QED
          BY <5>1, <5>2, <5>3
      <4> HIDE DEF new, p
      <4> QED
        BY <4>2, <4>3
    <3> QED
      BY <1>7, <3>3, <3>4, <3>5, <3>6
  <2> QED
    BY <2>1, <2>2
<1>11. PICK m \in 0 .. last :
         /\ block_buffer_planned' = Index(t, m)
         /\ GoodPlan(q, t, last, m, 0)
         /\ q \in Queues /\ q[t].entry = 0
         /\ \A i \in Entries : /\ q[i].max_entry = ring[i].max_entry
                               /\ q[i].nominal = ring[i].nominal
  BY <1>10
<1>12. /\ ~Empty' /\ PlannedInRange' /\ First' = q[t]
       /\ Junctions' <=> /\ previous_nominal' = q[Index(t, last)].nominal
                         /\ JunctionsOf(q, t, last)
       /\ Braking' <=> BrakingOf(q, t, last)
       /\ Planned' <=> ((sys_state' = "HOLD" => current_speed' = 0) =>
                          /\ SpeedNow' <= q[t].nominal
                          /\ GoodPlan(q, t, last, m, SpeedNow'))
  <2>1. /\ block_buffer_tail' = t /\ block_buffer_head' = Index(t, last + 1)
    BY <1>2, <1>4
  <2> HIDE DEF t, last
  <2> QED
    BY <1>3, <1>4, <1>11, <2>1, Pointers
<1>13. Junctions'
  <2>1. \A k \in 0 .. last : Index(t, k) \in Entries
    BY <1>4, <1>5
  <2>2. \A k \in 0 .. last : /\ q[Index(t, k)].max_entry = ring[Index(t, k)].max_entry
                            /\ q[Index(t, k)].nominal = ring[Index(t, k)].nominal
    BY <1>11, <2>1
  <2>3. \A k \in 1 .. last : k \in 0 .. last /\ k - 1 \in 0 .. last
    <3> HIDE DEF last
    <3> QED
      BY <1>4
  <2>4. JunctionsOf(q, t, last)
    <3> HIDE DEF q, t, last
    <3> QED
      BY <1>9, <2>2, <2>3 DEF JunctionsOf
  <2> QED
    BY <1>2, <1>4, <1>9, <1>12, <2>2, <2>4
<1>14. Braking'
  <2>1. BrakingOf(q, t, last)
    <3> DEFINE e0 == 0
    <3>1. GoodPlan(q, t, last, m, e0) /\ e0 \in Nat
      BY <1>11
    <3> HIDE DEF q, t, last, e0
    <3> QED
      BY <1>3, <1>4, <1>11, <3>1, GoodBraking
  <2> QED
    BY <1>12, <2>1
<1>15. SpeedNow' = 0
  BY <1>2 DEF SpeedNow
<1>16. Planned'
  <2>1. q[t].nominal \in Nat
    BY <1>3, <1>11 DEF Queues
  <2>2. 0 <= q[t].nominal
    BY <2>1
  <2> QED
    BY <1>11, <1>12, <1>15, <2>2
<1>17. Types'
  <2>1. block_buffer_planned' \in Entries
    BY <1>4, <1>5, <1>11
  <2> QED
    BY <1>2, <1>11, <2>1 DEF IInv, Types
<1>18. Profile' /\ ProfileMatchesPlan'
  BY <1>1, <1>2, <1>11, <1>12 DEF Profile, ProfileMatchesPlan
<1> QED
  BY <1>12, <1>13, <1>14, <1>16, <1>17, <1>18 DEF IInv

-----------------------------------------------------------------------------
\* A line planned when no other is queued begins and ends at rest.
LEMMA FirstLineInv ==
  ASSUME IInv, Empty,
         NEW mm \in Lengths, NEW nominal \in NominalSpeeds, NEW junction \in JunctionSpeeds,
         PlanBufferLine(mm, nominal, junction)
  PROVE  IInv'
<1> DEFINE t == block_buffer_tail
           max == Min({0, nominal, previous_nominal})
           block == [mm |-> mm, entry |-> 0, max_entry |-> max, nominal |-> nominal]
           ring == [block_buffer EXCEPT ![t] = block]
           q == block_buffer'
<1>1. /\ block_buffer_head = t /\ block_buffer_planned = t /\ ~loaded /\ ~partial
      /\ t \in Entries /\ block_buffer \in Queues /\ previous_nominal \in Nat
      /\ sys_state # "HOLD"
  BY DEF IInv, Types, Empty, PlannedInRange, Profile, PlanBufferLine
<1>2. /\ mm \in Nat /\ nominal \in Nat /\ nominal > 0
  BY PlannerAssumption
<1>3. /\ previous_nominal' = nominal
      /\ block_buffer_head' = plan_next_block_index(t)
      /\ UNCHANGED <<sys_state, block_buffer_tail, current_speed, exit_speed>>
      /\ UNCHANGED <<loaded, partial>>
      /\ Recalculate(ring, t, plan_next_block_index(t))
  BY <1>1 DEF PlanBufferLine, Empty
<1>4. /\ block.max_entry \in Nat /\ block.max_entry <= nominal
      /\ block.nominal = nominal /\ block.entry = 0 /\ block.mm = mm
      /\ block \in [mm : Nat, entry : Nat, max_entry : Nat, nominal : Nat]
  <2>1. max \in Nat /\ max <= nominal
    <3>1. 0 \in Int /\ nominal \in Int /\ previous_nominal \in Int
      BY <1>1, <1>2
    <3>2. max \in {0, nominal, previous_nominal} /\ max <= nominal
      BY <3>1, MinTriple
    <3> HIDE DEF max
    <3> QED
      BY <1>1, <1>2, <3>2
  <2> HIDE DEF max
  <2> QED
    BY <1>2, <2>1
<1> HIDE DEF block
<1>5. /\ ring \in Queues /\ ring[t] = block
  BY <1>1, <1>4 DEF Queues
<1> HIDE DEF ring
<1>6. /\ plan_next_block_index(t) = Index(t, 1) /\ 1 \in Entries /\ Index(t, 0) = t
      /\ 0 + 1 = 1 /\ 0 + 1 < BLOCK_BUFFER_SIZE /\ 0 \in Nat /\ 0 \in 0 .. 0
  <2>1. 1 \in Entries
    BY PlannerAssumption DEF Entries
  <2>2. BLOCK_BUFFER_SIZE > 1
    <3>1. block_buffer_tail # plan_next_block_index(block_buffer_head)
      BY DEF PlanBufferLine, plan_check_full_buffer
    <3> QED
      BY PlannerAssumption
  <2> QED
    BY <1>1, <2>1, <2>2, NextOf, IndexOf, PlannerAssumption DEF Entries
<1>7. Distance(t, plan_next_block_index(t)) - 1 = 0
  BY <1>1, <1>6, DistanceIndex
<1>8. q = ring /\ block_buffer_planned' = t
  BY <1>3, <1>7 DEF Recalculate
<1>9. /\ ~Empty' /\ PlannedInRange' /\ First' = q[t]
      /\ Junctions' <=> /\ previous_nominal' = q[Index(t, 0)].nominal
                        /\ JunctionsOf(q, t, 0)
      /\ Braking' <=> BrakingOf(q, t, 0)
      /\ Planned' <=> ((sys_state' = "HOLD" => current_speed' = 0) =>
                         /\ SpeedNow' <= q[t].nominal
                         /\ GoodPlan(q, t, 0, 0, SpeedNow'))
  <2> DEFINE last == 0
             c == 0
  <2>1. /\ block_buffer_tail' = t /\ block_buffer_head' = Index(t, last + 1)
        /\ block_buffer_planned' = Index(t, c)
        /\ last \in Nat /\ last + 1 < BLOCK_BUFFER_SIZE /\ c \in 0 .. last
    BY <1>3, <1>6, <1>8
  <2>2. /\ ~Empty' /\ PlannedInRange' /\ First' = q[t]
        /\ Junctions' <=> /\ previous_nominal' = q[Index(t, last)].nominal
                          /\ JunctionsOf(q, t, last)
        /\ Braking' <=> BrakingOf(q, t, last)
        /\ Planned' <=> ((sys_state' = "HOLD" => current_speed' = 0) =>
                           /\ SpeedNow' <= q[t].nominal
                           /\ GoodPlan(q, t, last, c, SpeedNow'))
    <3> HIDE DEF t, last, c
    <3> QED
      BY <1>1, <2>1, Pointers
  <2> QED
    BY <2>2
<1>10. Junctions' /\ Braking'
  <2>1. 1 .. 0 = {} /\ 0 .. 0 = {0}
    OBVIOUS
  <2>2. JunctionsOf(q, t, 0) /\ BrakingOf(q, t, 0)
    BY <1>2, <1>4, <1>5, <1>6, <1>8, <2>1 DEF JunctionsOf, BrakingOf
  <2> QED
    BY <1>3, <1>4, <1>5, <1>6, <1>8, <1>9, <2>2
<1>11. SpeedNow' = 0
  BY <1>1, <1>3, <1>4, <1>5, <1>8, <1>9 DEF SpeedNow
<1>12. Planned'
  <2>1. q[t].nominal = nominal /\ q[t].mm = mm
    BY <1>4, <1>5, <1>8
  <2>2. GoodPlan(q, t, 0, 0, 0)
    <3> DEFINE e0 == 0
    <3>1. q \in Queues /\ e0 \in Nat /\ e0 <= q[t].mm
      BY <1>2, <1>5, <1>8, <2>1
    <3>2. GoodPlan(q, t, 0, 0, e0)
      <4> HIDE DEF q, t, e0
      <4> QED
        BY <1>1, <3>1, SingleBlock
    <3> QED
      BY <3>2
  <2> QED
    BY <1>2, <1>9, <1>11, <2>1, <2>2
<1>13. Types'
  BY <1>1, <1>2, <1>3, <1>5, <1>6, <1>8, IndexOf DEF IInv, Types
<1>14. Profile' /\ ProfileMatchesPlan'
  BY <1>1, <1>3 DEF Profile, ProfileMatchesPlan
<1> QED
  BY <1>9, <1>10, <1>12, <1>13, <1>14 DEF IInv

\* What is final of a plan, and can be followed, stays so whatever is appended.
LEMMA SamePlan ==
  ASSUME NEW r \in Queues, NEW q \in Queues, NEW t \in Entries,
         NEW last \in Nat, last < BLOCK_BUFFER_SIZE, NEW p \in 0 .. last, NEW e0 \in Nat,
         \A k \in 0 .. last : /\ q[Index(t, k)].mm = r[Index(t, k)].mm
                              /\ q[Index(t, k)].max_entry = r[Index(t, k)].max_entry,
         \A k \in 1 .. last : q[Index(t, k)].entry = r[Index(t, k)].entry,
         GoodPlan(r, t, last, p, e0)
  PROVE  /\ Followed(q, t, p, SpeedsOf(q, t, p, e0))
         /\ Final(q, t, p, e0, SpeedsOf(q, t, p, e0))
         /\ BrakingOf(q, t, last)
         /\ last = 0 => e0 <= q[t].mm
         /\ last > 0 => e0 <= q[Index(t, 1)].entry + q[t].mm
<1> DEFINE s == SpeedsOf(r, t, last, e0)
           z == SpeedsOf(q, t, p, e0)
<1>1. /\ s[0] = e0 /\ \A k \in 1 .. last : s[k] = r[Index(t, k)].entry
  BY SpeedsType
<1>2. /\ p \in Nat /\ p < BLOCK_BUFFER_SIZE /\ p <= last
      /\ \A k \in 1 .. p : k \in 1 .. last /\ k \in 0 .. last /\ k - 1 \in 0 .. last
      /\ \A k \in 1 .. p : k - 1 = 0 \/ (k - 1 \in 1 .. p)
      /\ \A k \in 0 .. p : k = 0 \/ (k \in 1 .. p)
      /\ Index(t, 0) = t /\ 0 \in 0 .. last
  <2>1. Index(t, 0) = t
    BY IndexOf, PlannerAssumption DEF Entries
  <2>2. p \in Nat /\ p < BLOCK_BUFFER_SIZE /\ p <= last /\ 0 \in 0 .. last
    BY PlannerAssumption
  <2>3. \A k \in 1 .. p : k \in 1 .. last /\ k \in 0 .. last /\ k - 1 \in 0 .. last
    BY <2>2
  <2>4. \A k \in 1 .. p : k - 1 = 0 \/ (k - 1 \in 1 .. p)
    BY <2>2
  <2>5. \A k \in 0 .. p : k = 0 \/ (k \in 1 .. p)
    BY <2>2
  <2> QED
    BY <2>1, <2>2, <2>3, <2>4, <2>5
<1>3. z[0] = e0 /\ \A k \in 1 .. p : z[k] = q[Index(t, k)].entry
  BY <1>2, SpeedsType
<1>4. /\ Followed(r, t, last, s) /\ Stopped(r, t, last, s) /\ Final(r, t, p, e0, s)
  BY DEF GoodPlan
<1> HIDE DEF s, z
<1>5. \A k \in 0 .. p : z[k] = s[k]
  BY <1>1, <1>2, <1>3
<1>6. \A k \in 1 .. p : z[k] = s[k] /\ z[k - 1] = s[k - 1]
  <2>1. \A k \in 1 .. p : k \in 0 .. p /\ k - 1 \in 0 .. p
    BY <1>2
  <2> QED
    BY <1>5, <2>1
<1>7. Followed(q, t, p, z)
  BY <1>2, <1>4, <1>6 DEF Followed
<1>8. Final(q, t, p, e0, z)
  <2> SUFFICES ASSUME NEW g \in [0 .. p -> Nat], g[0] = e0, Followed(q, t, p, g)
               PROVE  \A k \in 0 .. p : g[k] <= z[k]
    BY DEF Final
  <2>1. Followed(r, t, p, g)
    BY <1>2 DEF Followed
  <2>2. \A k \in 0 .. p : g[k] <= s[k]
    BY <1>4, <2>1 DEF Final
  <2> QED
    BY <1>5, <2>2
<1>9. BrakingOf(q, t, last)
  <2>1. BrakingOf(r, t, last)
    BY GoodBraking
  <2>2. \A k \in 1 .. last : k \in 0 .. last /\ (k < last => k + 1 \in 1 .. last)
    OBVIOUS
  <2> QED
    BY <2>1, <2>2 DEF BrakingOf
<1>10. last = 0 => e0 <= q[t].mm
  BY <1>1, <1>2, <1>4 DEF Stopped
<1>11. ASSUME last > 0 PROVE e0 <= q[Index(t, 1)].entry + q[t].mm
  <2>1. 1 \in 1 .. last /\ 1 - 1 = 0
    BY <1>11
  <2>2. s[1 - 1] <= s[1] + r[Index(t, 1 - 1)].mm
    BY <1>4, <2>1 DEF Followed
  <2> QED
    BY <1>1, <1>2, <2>1, <2>2
<1> QED
  BY <1>7, <1>8, <1>9, <1>10, <1>11 DEF z

\* A line appended to a good plan.
LEMMA Appending ==
  ASSUME NEW r \in Queues, NEW q \in Queues, NEW t \in Entries,
         NEW last \in Nat, last + 2 < BLOCK_BUFFER_SIZE, NEW p \in 0 .. last,
         NEW e0 \in Nat,
         \A k \in 0 .. last : /\ q[Index(t, k)].mm = r[Index(t, k)].mm
                              /\ q[Index(t, k)].max_entry = r[Index(t, k)].max_entry,
         \A k \in 1 .. last : q[Index(t, k)].entry = r[Index(t, k)].entry,
         GoodPlan(r, t, last, p, e0),
         p = 0 => q[t].entry = e0,
         NEW m \in {0} \cup Breakpoints(q, Index(t, p), (last + 1) - p)
  PROVE  GoodPlan(Replanned(q, Index(t, p), (last + 1) - p), t, last + 1, p + m, e0)
<1> DEFINE n == (last + 1) - p
           e(k) == q[Index(t, k)].entry
           mm(k) == q[Index(t, k)].mm
           max(k) == q[Index(t, k)].max_entry
           old == [k \in 1 .. n |-> IF k = n THEN 0 ELSE e(p + k)]
<1>1. /\ n \in Nat /\ n > 0 /\ p \in Nat /\ p + n = last + 1 /\ p + n < BLOCK_BUFFER_SIZE
      /\ last < BLOCK_BUFFER_SIZE
      /\ \A k \in 0 .. n : k \in Entries /\ p + k \in Entries /\ p + k < BLOCK_BUFFER_SIZE
      /\ p \in Entries
  BY PlannerAssumption DEF Entries
<1> HIDE DEF n
<1>2. /\ Followed(q, t, p, SpeedsOf(q, t, p, e0))
      /\ Final(q, t, p, e0, SpeedsOf(q, t, p, e0))
      /\ BrakingOf(q, t, last)
      /\ last = 0 => e0 <= q[t].mm
      /\ last > 0 => e0 <= q[Index(t, 1)].entry + q[t].mm
  <2>1. Followed(q, t, p, SpeedsOf(q, t, p, e0)) /\ Final(q, t, p, e0, SpeedsOf(q, t, p, e0))
    BY <1>1, SamePlan
  <2>2. BrakingOf(q, t, last)
    BY <1>1, SamePlan
  <2>3. last = 0 => e0 <= q[t].mm
    BY <1>1, SamePlan
  <2>4. last > 0 => e0 <= q[Index(t, 1)].entry + q[t].mm
    BY <1>1, SamePlan
  <2> QED
    BY <2>1, <2>2, <2>3, <2>4
<1>3. \A k \in 0 .. n : Index(Index(t, p), k) = Index(t, p + k)
  BY <1>1, IndexIndex
<1>4. \A k \in 0 .. n : e(p + k) \in Nat /\ mm(p + k) \in Nat /\ max(p + k) \in Nat
  BY <1>1, QueueType
<1>5. /\ old \in [1 .. n -> Nat]
      /\ \A k \in 1 .. n : old[k] = IF k = n THEN 0 ELSE e(p + k)
  <2>1. \A k \in 1 .. n : k \in 0 .. n
    OBVIOUS
  <2> HIDE DEF e
  <2> QED
    BY <1>4, <2>1
<1> HIDE DEF old
<1>6. ASSUME NEW k \in 1 .. n
      PROVE  /\ k < n => /\ p + k \in 1 .. last /\ k + 1 \in 1 .. n
                         /\ (p + k) + 1 = p + (k + 1)
                         /\ (k + 1 < n <=> p + k < last) /\ (k + 1 = n <=> p + k = last)
             /\ k \in 0 .. n
  BY <1>1
<1>7. Brakes(q, Index(t, p), n, old)
  <2>1. ASSUME NEW k \in 1 .. n PROVE old[k] <= q[Index(Index(t, p), k)].max_entry
    <3>1. CASE k < n
      <4>1. p + k \in 1 .. last /\ k \in 0 .. n /\ k # n
        BY <1>1, <1>6, <3>1
      <4>2. e(p + k) <= max(p + k)
        BY <1>2, <4>1 DEF BrakingOf
      <4>3. old[k] = e(p + k)
        BY <1>5, <4>1
      <4> QED
        BY <1>3, <4>1, <4>2, <4>3
    <3>2. CASE ~(k < n)
      <4>1. k = n
        BY <1>1, <3>2
      <4>2. old[k] = 0 /\ k \in 0 .. n
        BY <1>5, <1>6, <4>1
      <4>3. max(p + k) \in Nat /\ Index(Index(t, p), k) = Index(t, p + k)
        BY <1>3, <1>4, <4>2
      <4> QED
        BY <4>2, <4>3
    <3> QED
      BY <3>1, <3>2
  <2>2. ASSUME NEW k \in 1 .. n, k < n
        PROVE  old[k] <= old[k + 1] + q[Index(Index(t, p), k)].mm
    <3>1. /\ p + k \in 1 .. last /\ k + 1 \in 1 .. n /\ k \in 0 .. n
          /\ (p + k) + 1 = p + (k + 1)
      BY <1>6, <2>2
    <3>2. old[k] = e(p + k) /\ q[Index(Index(t, p), k)].mm = mm(p + k)
      BY <1>3, <1>5, <2>2, <3>1
    <3>3. CASE k + 1 < n
      <4>1. old[k + 1] = e((p + k) + 1) /\ p + k < last
        BY <1>5, <1>6, <2>2, <3>1, <3>3
      <4>2. e(p + k) <= e((p + k) + 1) + mm(p + k)
        BY <1>2, <3>1, <4>1 DEF BrakingOf
      <4> QED
        BY <3>2, <4>1, <4>2
    <3>4. CASE k + 1 = n
      <4>1. old[k + 1] = 0 /\ p + k = last
        BY <1>5, <1>6, <2>2, <3>1, <3>4
      <4>2. e(p + k) <= mm(p + k)
        BY <1>2, <3>1, <4>1 DEF BrakingOf
      <4> QED
        BY <1>4, <3>1, <3>2, <4>1, <4>2
    <3> QED
      BY <1>1, <2>2, <3>3, <3>4
  <2>3. Stopped(q, Index(t, p), n, old)
    <3>1. n \in 1 .. n /\ n \in 0 .. n
      BY <1>1
    <3> QED
      BY <1>3, <1>4, <1>5, <3>1 DEF Stopped
  <2> QED
    BY <2>1, <2>2, <2>3 DEF Brakes
<1>8. \A k \in 1 .. n :
        k < n /\ q[Index(Index(t, p), k)].entry = q[Index(Index(t, p), k)].max_entry
          => old[k] = q[Index(Index(t, p), k)].entry
  BY <1>3, <1>5, <1>6
<1>9. q[Index(t, p)].entry <= old[1] + q[Index(t, p)].mm
  <2>1. Index(t, 0) = t /\ 1 \in 1 .. n /\ 0 \in 0 .. n /\ p + 0 = p
    BY <1>1, IndexOf, PlannerAssumption DEF Entries
  <2>2. old[1] = IF n = 1 THEN 0 ELSE e(p + 1)
    BY <1>5, <2>1
  <2>3. mm(p) \in Nat
    BY <1>4, <2>1
  <2>4. n = 1 <=> p = last
    BY DEF n
  <2>5. CASE p = 0
    <3>1. 0 + 1 = 1 /\ (last # 0 => last > 0)
      OBVIOUS
    <3> QED
      BY <1>2, <2>1, <2>2, <2>3, <2>4, <2>5, <3>1
  <2>6. CASE p # 0
    <3>1. p \in 1 .. last /\ (p # last => p < last)
      BY <1>1, <2>6
    <3>2. p < last => e(p) <= e(p + 1) + mm(p)
      BY <1>2, <3>1 DEF BrakingOf
    <3>3. p = last => e(p) <= mm(p)
      BY <1>2, <3>1 DEF BrakingOf
    <3> QED
      BY <2>2, <2>3, <2>4, <3>1, <3>2, <3>3
  <2> QED
    BY <2>5, <2>6
<1>10. m \in {0} \cup Breakpoints(q, Index(t, p), n)
  BY DEF n
<1>11. GoodPlan(Replanned(q, Index(t, p), n), t, p + n, p + m, e0)
  <2>1. p = 0 => q[t].entry = e0
    OBVIOUS
  <2> HIDE DEF e, mm, max
  <2> QED
    BY <1>1, <1>2, <1>5, <1>7, <1>8, <1>9, <1>10, <2>1, Replanning
<1>12. p + n = last + 1
  BY <1>1
<1> QED
  BY <1>11, <1>12 DEF n

\* A line planned behind others.
LEMMA NextLineInv ==
  ASSUME IInv, ~Empty,
         NEW mm \in Lengths, NEW nominal \in NominalSpeeds, NEW junction \in JunctionSpeeds,
         PlanBufferLine(mm, nominal, junction)
  PROVE  IInv' /\ ~Empty' /\ SpeedNow' = SpeedNow
<1> DEFINE t == block_buffer_tail
           h == block_buffer_head
           r == block_buffer
           q == block_buffer'
           max == Min({junction, nominal, previous_nominal})
           block == [mm |-> mm, entry |-> r[h].entry, max_entry |-> max,
                     nominal |-> nominal]
           ring == [r EXCEPT ![h] = block]
           p == PlannedCount
           last == Last + 1
           base == IF p = 0 THEN Updated(ring) ELSE ring
           e0 == SpeedNow
<1>1. /\ t \in Entries /\ h \in Entries /\ r \in Queues /\ previous_nominal \in Nat
      /\ current_speed \in Nat /\ e0 \in Nat
  BY Facts DEF IInv, Types
<1>2. /\ mm \in Nat /\ nominal \in Nat /\ nominal > 0 /\ junction \in Nat
  BY PlannerAssumption
<1>3. /\ previous_nominal' = nominal
      /\ block_buffer_head' = plan_next_block_index(h)
      /\ UNCHANGED <<sys_state, block_buffer_tail, current_speed, exit_speed>>
      /\ IF block_buffer_planned = t THEN loaded' = FALSE /\ partial' = (partial \/ loaded)
         ELSE UNCHANGED <<loaded, partial>>
      /\ Recalculate(ring, block_buffer_planned, plan_next_block_index(h))
      /\ sys_state # "HOLD" /\ t # plan_next_block_index(h)
  BY DEF PlanBufferLine, UpdatePlanBlockParameters, plan_check_full_buffer
<1>4. /\ max \in Nat /\ max <= nominal /\ max <= previous_nominal
  <2>1. junction \in Int /\ nominal \in Int /\ previous_nominal \in Int
    BY <1>1, <1>2
  <2>2. max \in {junction, nominal, previous_nominal} /\ max <= nominal /\ max <= previous_nominal
    BY <2>1, MinTriple
  <2> HIDE DEF max
  <2> QED
    BY <1>1, <1>2, <2>2
<1> HIDE DEF max
<1>5. /\ block \in [mm : Nat, entry : Nat, max_entry : Nat, nominal : Nat]
      /\ block.max_entry = max /\ block.nominal = nominal
  <2>1. r[h].entry \in Nat
    BY <1>1 DEF Queues
  <2> QED
    BY <1>2, <1>4, <2>1
<1> HIDE DEF block
<1>6. /\ Last \in Nat /\ p \in 0 .. Last
      /\ block_buffer_planned = Index(t, p) /\ h = Index(t, Last + 1)
      /\ \A k \in 0 .. Last + 1 : k \in Entries /\ Index(t, k) \in Entries
      /\ Index(t, 0) = t
      /\ \A k \in 1 .. Last + 1 : Index(t, k) # t
      /\ \A k \in 0 .. Last : Index(t, k) # h
      /\ Last + 1 < BLOCK_BUFFER_SIZE
  BY Facts
<1>7. /\ ring \in Queues /\ ring[h] = block
      /\ \A i \in Entries : i # h => ring[i] = r[i]
  <2> HIDE DEF h
  <2> QED
    BY <1>1, <1>5 DEF Queues
<1> HIDE DEF ring
<1>8. /\ last \in Nat /\ p \in Nat /\ p < last /\ last \in 0 .. last /\ 1 \in 1 .. last
      /\ last + 1 < BLOCK_BUFFER_SIZE /\ last < BLOCK_BUFFER_SIZE
      /\ plan_next_block_index(h) = Index(t, last + 1) /\ h = Index(t, last)
  <2>1. plan_next_block_index(h) = Index(Index(t, last), 1) /\ last \in Entries /\ 1 \in Entries
    BY <1>1, <1>6, NextOf, PlannerAssumption DEF Entries
  <2>2. /\ last \in Nat /\ p \in Nat /\ p < last /\ last \in 0 .. last /\ 1 \in 1 .. last
        /\ last < BLOCK_BUFFER_SIZE
    BY <1>6
  <2>3. last + 1 # BLOCK_BUFFER_SIZE
    <3> SUFFICES ASSUME last + 1 = BLOCK_BUFFER_SIZE PROVE FALSE
      OBVIOUS
    <3>1. /\ h \in Entries
          /\ h = IF t + last < BLOCK_BUFFER_SIZE THEN t + last ELSE t + last - BLOCK_BUFFER_SIZE
      BY <1>1, <1>6, <2>1, IndexOf
    <3>2. plan_next_block_index(h) = IF h + 1 < BLOCK_BUFFER_SIZE THEN h + 1
                                     ELSE h + 1 - BLOCK_BUFFER_SIZE
      BY <1>1, NextOf
    <3> DEFINE i == plan_next_block_index(h)
    <3> HIDE DEF last, h, t, i
    <3>3. i = t
      BY <1>1, <2>2, <3>1, <3>2, PlannerAssumption DEF Entries, i
    <3> QED
      BY <1>3, <3>3 DEF i
  <2>4. last + 1 < BLOCK_BUFFER_SIZE
    <3> HIDE DEF last
    <3> QED
      BY <2>2, <2>3, PlannerAssumption
  <2>5. Index(Index(t, last), 1) = Index(t, last + 1)
    <3> HIDE DEF last, t
    <3> QED
      BY <1>1, <2>1, <2>4, IndexIndex
  <2> QED
    BY <1>6, <2>1, <2>2, <2>4, <2>5
<1>9. /\ base \in Queues
      /\ \A i \in Entries : i # t => base[i] = ring[i]
      /\ \A i \in Entries : /\ base[i].mm = ring[i].mm
                            /\ base[i].max_entry = ring[i].max_entry
                            /\ base[i].nominal = ring[i].nominal
      /\ p = 0 => base[t].entry = e0
      /\ p # 0 => base[t].entry = r[t].entry
  <2>1. t # h /\ ring[t] = r[t] /\ First = r[t]
    BY <1>1, <1>6, <1>7 DEF First
  <2>2. CASE p = 0 /\ loaded
    <3>1. base = [ring EXCEPT ![t].entry = current_speed]
      BY <1>3, <2>2 DEF Updated
    <3>2. e0 = current_speed
      BY <2>2 DEF SpeedNow
    <3> DEFINE e == current_speed
    <3>3. /\ t \in Entries /\ ring \in Queues /\ base = [ring EXCEPT ![t].entry = e]
          /\ e \in Nat
      BY <1>1, <1>7, <3>1
    <3> HIDE DEF t, base, e
    <3>4. base \in Queues
      BY <3>3 DEF Queues
    <3>5. \A i \in Entries : i # t => base[i] = ring[i]
      BY <3>3 DEF Queues
    <3>6. base[t].entry = e
      BY <3>3 DEF Queues
    <3>7. \A i \in Entries : /\ base[i].mm = ring[i].mm
                            /\ base[i].max_entry = ring[i].max_entry
                            /\ base[i].nominal = ring[i].nominal
      BY <3>3 DEF Queues
    <3> QED
      BY <2>2, <3>2, <3>4, <3>5, <3>6, <3>7 DEF e
  <2>3. CASE p = 0 /\ ~loaded
    <3>1. base = ring
      BY <2>3 DEF Updated
    <3>2. e0 = r[t].entry
      BY <2>1, <2>3 DEF SpeedNow, IInv, Profile
    <3> QED
      BY <1>7, <2>1, <2>3, <3>1, <3>2
  <2>4. CASE p # 0
    BY <1>7, <2>1, <2>4
  <2> QED
    BY <2>2, <2>3, <2>4
<1>10. /\ q = Replanned(base, Index(t, p), last - p)
       /\ \E m \in {0} \cup Breakpoints(base, Index(t, p), last - p) :
            m \in 0 .. last - p /\ block_buffer_planned' = Index(t, p + m)
  <2>1. Recalculate(ring, Index(t, p), Index(t, last + 1))
    BY <1>3, <1>6, <1>8
  <2>2. t = block_buffer_tail
    OBVIOUS
  <2> HIDE DEF t, p, last
  <2> QED
    BY <1>1, <1>7, <1>8, <2>1, <2>2, RecalculateIs
<1> HIDE DEF base
<1>11. PICK m \in {0} \cup Breakpoints(base, Index(t, p), last - p) :
         m \in 0 .. last - p /\ block_buffer_planned' = Index(t, p + m)
  BY <1>10
<1>12. /\ p + m \in 0 .. last /\ last - p \in Nat /\ last - p > 0
       /\ p + (last - p) < BLOCK_BUFFER_SIZE
  <2> HIDE DEF last, p
  <2> QED
    BY <1>8, <1>11
<1>13. /\ q \in Queues
       /\ \A i \in Entries : /\ q[i].mm = base[i].mm /\ q[i].nominal = base[i].nominal
                             /\ q[i].max_entry = base[i].max_entry
       /\ \A k \in 0 .. p : q[Index(t, k)].entry = base[Index(t, k)].entry
  <2> DEFINE n == last - p
             new == Replanned(base, Index(t, p), n)
  <2> HIDE DEF t, p, n
  <2>1. /\ n \in Nat /\ n > 0 /\ p + n < BLOCK_BUFFER_SIZE /\ p \in Nat
        /\ t \in Entries /\ base \in Queues
    BY <1>1, <1>8, <1>9, <1>12 DEF n
  <2>2. new \in Queues
    BY <2>1, ReplannedEntries
  <2>3. \A i \in Entries : /\ new[i].mm = base[i].mm /\ new[i].nominal = base[i].nominal
                           /\ new[i].max_entry = base[i].max_entry
    BY <2>1, ReplannedEntries
  <2>4. \A k \in 0 .. p : new[Index(t, k)].entry = base[Index(t, k)].entry
    BY <2>1, ReplannedEntries
  <2>5. q = new
    BY <1>10 DEF n
  <2> HIDE DEF new
  <2> QED
    BY <2>2, <2>3, <2>4, <2>5
<1>14. /\ \A k \in 0 .. Last : /\ base[Index(t, k)].mm = r[Index(t, k)].mm
                              /\ base[Index(t, k)].max_entry = r[Index(t, k)].max_entry
                              /\ base[Index(t, k)].nominal = r[Index(t, k)].nominal
       /\ \A k \in 1 .. Last : base[Index(t, k)].entry = r[Index(t, k)].entry
       /\ base[Index(t, last)].max_entry = max /\ base[Index(t, last)].nominal = nominal
  <2>1. \A k \in 0 .. Last : k \in 0 .. Last + 1 /\ (k = 0 \/ k \in 1 .. Last + 1)
    BY <1>6
  <2>2. \A k \in 0 .. Last : /\ Index(t, k) \in Entries /\ ring[Index(t, k)] = r[Index(t, k)]
    BY <1>6, <1>7, <2>1
  <2>3. \A k \in 1 .. Last : k \in 0 .. Last /\ k \in 1 .. Last + 1
    BY <1>6
  <2>4. \A k \in 1 .. Last : base[Index(t, k)] = ring[Index(t, k)]
    BY <1>6, <1>9, <2>2, <2>3
  <2> HIDE DEF t
  <2> QED
    BY <1>1, <1>5, <1>7, <1>8, <1>9, <2>2, <2>3, <2>4
<1>16. GoodPlan(r, t, Last, p, e0) /\ e0 <= r[t].nominal
  BY <1>3 DEF IInv, Planned, Following, First
<1>17. GoodPlan(q, t, last, p + m, e0)
  <2> DEFINE old == Last
  <2>1. /\ old \in Nat /\ old + 2 < BLOCK_BUFFER_SIZE /\ p \in 0 .. old /\ old + 1 = last
        /\ e0 \in Nat /\ t \in Entries /\ base \in Queues /\ r \in Queues
    BY <1>1, <1>6, <1>8, <1>9
  <2>2. /\ GoodPlan(r, t, old, p, e0)
        /\ \A k \in 0 .. old : /\ base[Index(t, k)].mm = r[Index(t, k)].mm
                               /\ base[Index(t, k)].max_entry = r[Index(t, k)].max_entry
        /\ \A k \in 1 .. old : base[Index(t, k)].entry = r[Index(t, k)].entry
        /\ p = 0 => base[t].entry = e0
    BY <1>9, <1>14, <1>16
  <2>3. /\ m \in {0} \cup Breakpoints(base, Index(t, p), (old + 1) - p)
        /\ q = Replanned(base, Index(t, p), (old + 1) - p)
    BY <1>10, <1>11
  <2>4. GoodPlan(Replanned(base, Index(t, p), (old + 1) - p), t, old + 1, p + m, e0)
    <3> HIDE DEF old, r, t, p, e0
    <3> QED
      BY <2>1, <2>2, <2>3, Appending
  <2> QED
    BY <2>3, <2>4
<1>18. /\ ~Empty' /\ PlannedInRange' /\ First' = q[t]
       /\ PlannedExit' = IF last = 0 THEN 0 ELSE q[Index(t, 1)].entry
       /\ Junctions' <=> /\ previous_nominal' = q[Index(t, last)].nominal
                         /\ JunctionsOf(q, t, last)
       /\ Braking' <=> BrakingOf(q, t, last)
       /\ Planned' <=> ((sys_state' = "HOLD" => current_speed' = 0) =>
                          /\ SpeedNow' <= q[t].nominal
                          /\ GoodPlan(q, t, last, p + m, SpeedNow'))
  <2> DEFINE c == p + m
  <2>1. /\ block_buffer_tail' = t /\ block_buffer_head' = Index(t, last + 1)
        /\ block_buffer_planned' = Index(t, c) /\ c \in 0 .. last
    BY <1>3, <1>8, <1>11, <1>12
  <2>2. /\ ~Empty' /\ PlannedInRange' /\ First' = q[t]
        /\ PlannedExit' = IF last = 0 THEN 0 ELSE q[Index(t, 1)].entry
        /\ Junctions' <=> /\ previous_nominal' = q[Index(t, last)].nominal
                          /\ JunctionsOf(q, t, last)
        /\ Braking' <=> BrakingOf(q, t, last)
        /\ Planned' <=> ((sys_state' = "HOLD" => current_speed' = 0) =>
                          /\ SpeedNow' <= q[t].nominal
                          /\ GoodPlan(q, t, last, c, SpeedNow'))
    <3> HIDE DEF t, last, c
    <3> QED
      BY <1>1, <1>8, <2>1, Pointers
  <2> QED
    BY <2>2
<1>19. /\ q[t].nominal = r[t].nominal
       /\ p = 0 => q[t].entry = e0
       /\ p # 0 => q[t].entry = r[t].entry
  <2>1. 0 \in 0 .. p /\ 0 \in 0 .. Last
    BY <1>6
  <2>2. q[Index(t, 0)].entry = base[Index(t, 0)].entry
    BY <1>13, <2>1
  <2> QED
    BY <1>1, <1>6, <1>9, <1>13, <1>14, <2>1, <2>2
<1>20. block_buffer_planned = t <=> p = 0
  <2>1. p # 0 => p \in 1 .. Last + 1
    BY <1>6
  <2> QED
    BY <1>6, <2>1
<1>21. SpeedNow' = e0
  <2>1. CASE p = 0
    <3>1. loaded' = FALSE /\ partial' = (partial \/ loaded) /\ current_speed' = current_speed
      BY <1>3, <1>20, <2>1
    <3>2. First'.entry = e0
      BY <1>18, <1>19, <2>1
    <3> QED
      BY <3>1, <3>2 DEF SpeedNow
  <2>2. CASE p # 0
    <3>1. loaded' = loaded /\ partial' = partial /\ current_speed' = current_speed
      BY <1>3, <1>20, <2>2
    <3>2. First'.entry = First.entry
      BY <1>18, <1>19, <2>2 DEF First
    <3> QED
      BY <3>1, <3>2 DEF SpeedNow
  <2> QED
    BY <2>1, <2>2
<1>22. Planned'
  BY <1>16, <1>17, <1>18, <1>19, <1>21
<1>23. Braking'
  <2>1. BrakingOf(q, t, last)
    <3> DEFINE c == p + m
    <3>1. GoodPlan(q, t, last, c, e0)
      BY <1>17
    <3> HIDE DEF q, t, last, e0, c
    <3> QED
      BY <1>1, <1>8, <1>13, <3>1, GoodBraking
  <2> QED
    BY <1>18, <2>1
<1>24. Junctions'
  <2>1. JunctionsOf(r, t, Last) /\ previous_nominal = r[Index(t, Last)].nominal
    BY DEF IInv, Junctions, Block
  <2>2. ASSUME NEW k \in 0 .. Last
        PROVE  /\ q[Index(t, k)].nominal = r[Index(t, k)].nominal
               /\ q[Index(t, k)].max_entry = r[Index(t, k)].max_entry
    <3>1. Index(t, k) \in Entries
      BY <1>6
    <3> QED
      BY <1>13, <1>14, <3>1
  <2>3. q[Index(t, last)].nominal = nominal /\ q[Index(t, last)].max_entry = max
    BY <1>1, <1>8, <1>13, <1>14
  <2>4. ASSUME NEW k \in 0 .. last
        PROVE  /\ q[Index(t, k)].nominal > 0
               /\ q[Index(t, k)].max_entry <= q[Index(t, k)].nominal
    <3>1. k \in 0 .. Last \/ k = last
      BY <1>6
    <3> QED
      BY <1>2, <1>4, <2>1, <2>2, <2>3, <3>1 DEF JunctionsOf
  <2>5. ASSUME NEW k \in 1 .. last
        PROVE  q[Index(t, k)].max_entry <= q[Index(t, k - 1)].nominal
    <3>1. \/ (k \in 1 .. Last /\ k \in 0 .. Last /\ k - 1 \in 0 .. Last)
          \/ (k = last /\ k - 1 = Last /\ Last \in 0 .. Last)
      <4>1. Last \in Nat
        BY <1>6
      <4> DEFINE n == Last
      <4>2. n \in Nat /\ k \in 1 .. n + 1
        BY <4>1
      <4> HIDE DEF n
      <4>3. CASE k \in 1 .. n
        <5>1. k \in 1 .. n /\ k \in 0 .. n /\ k - 1 \in 0 .. n
          BY <4>2, <4>3
        <5> QED
          BY <5>1 DEF n
      <4>4. CASE k = n + 1
        <5>1. k - 1 = n /\ n \in 0 .. n
          BY <4>2, <4>4
        <5> QED
          BY <4>4, <5>1 DEF n
      <4> QED
        BY <4>2, <4>3, <4>4
    <3> QED
      BY <1>4, <2>1, <2>2, <2>3, <3>1 DEF JunctionsOf
  <2>6. JunctionsOf(q, t, last)
    <3> HIDE DEF q, t, last
    <3> QED
      BY <2>4, <2>5 DEF JunctionsOf
  <2> QED
    BY <1>3, <1>18, <2>3, <2>6
<1>25. Types'
  <2>1. \A k \in 0 .. last : Index(t, k) \in Entries
    BY <1>6
  <2>2. plan_next_block_index(h) \in Entries
    BY <1>1, NextOf
  <2>3. block_buffer_planned' \in Entries
    <3> HIDE DEF last, t, p
    <3> QED
      BY <1>11, <1>12, <2>1
  <2>4. loaded' \in BOOLEAN /\ partial' \in BOOLEAN
    BY <1>3 DEF IInv, Types
  <2> QED
    BY <1>1, <1>2, <1>3, <1>13, <2>2, <2>3, <2>4 DEF IInv, Types
<1>26. Profile'
  <2>1. loaded' => loaded
    BY <1>3
  <2>2. partial' => loaded \/ partial
    BY <1>3
  <2>3. loaded \/ partial => sys_state # "IDLE"
    BY DEF IInv, Profile
  <2>4. loaded' => ~partial' /\ current_speed' > 0
    BY <1>3 DEF IInv, Profile
  <2>5. partial' => First'.entry = current_speed'
    <3>1. CASE p = 0
      BY <1>3, <1>18, <1>19, <2>2, <3>1 DEF SpeedNow
    <3>2. CASE p # 0
      BY <1>3, <1>18, <1>19, <1>20, <3>2 DEF IInv, Profile, First
    <3> QED
      BY <3>1, <3>2
  <2> QED
    BY <1>3, <1>18, <2>1, <2>2, <2>3, <2>4, <2>5 DEF Profile
<1>27. ProfileMatchesPlan'
  <2> SUFFICES ASSUME sys_state' = "CYCLE", loaded' PROVE exit_speed' = PlannedExit'
    BY DEF ProfileMatchesPlan
  <2>1. p # 0 /\ loaded
    BY <1>3, <1>20
  <2>2. exit_speed' = PlannedExit
    BY <1>3, <2>1 DEF IInv, ProfileMatchesPlan
  <2>3. /\ 1 \in 0 .. p /\ 1 \in 1 .. Last /\ Last # 0 /\ last # 0
    BY <1>6, <2>1
  <2>4. PlannedExit = r[Index(t, 1)].entry
    <3>1. /\ PlannedExit = IF Last = 0 THEN 0 ELSE Block(1).entry
          /\ 1 \in 0 .. Last
      BY <2>3, Facts
    <3> QED
      BY <2>3, <3>1 DEF Block
  <2>5. PlannedExit' = q[Index(t, 1)].entry
    BY <1>18, <2>3
  <2>6. q[Index(t, 1)].entry = base[Index(t, 1)].entry
    BY <1>13, <2>3
  <2>7. base[Index(t, 1)].entry = r[Index(t, 1)].entry
    BY <1>14, <2>3
  <2> QED
    BY <2>2, <2>4, <2>5, <2>6, <2>7
<1> QED
  BY <1>18, <1>21, <1>22, <1>23, <1>24, <1>25, <1>26, <1>27 DEF IInv

-----------------------------------------------------------------------------
(***************************************************************************)
(* Every step keeps the invariant.                                         *)
(***************************************************************************)
LEMMA Stuttering == IInv /\ UNCHANGED vars => IInv'
<1> SUFFICES ASSUME IInv, UNCHANGED vars PROVE IInv'
  OBVIOUS
<1>1. UNCHANGED <<block_buffer, block_buffer_head, block_buffer_tail,
                  block_buffer_planned, previous_nominal, prepVars>>
      /\ sys_state' = sys_state
  BY DEF vars
<1>2. sys_state \in {"IDLE", "CYCLE", "HOLD"}
  BY DEF IInv, Types
<1> QED
  BY <1>1, <1>2, SameQueue

LEMMA StepInv == IInv /\ [Next]_vars => IInv'
<1> SUFFICES ASSUME IInv, [Next]_vars PROVE IInv'
  OBVIOUS
<1>1. ASSUME NEW mm \in Lengths, NEW nominal \in NominalSpeeds, NEW junction \in JunctionSpeeds,
             PlanBufferLine(mm, nominal, junction)
      PROVE  IInv'
  <2>1. CASE Empty
    BY <1>1, <2>1, FirstLineInv
  <2>2. CASE ~Empty
    BY <1>1, <2>2, NextLineInv
  <2> QED
    BY <2>1, <2>2
<1>2. CASE CycleStart
  BY <1>2, CycleStartInv
<1>3. CASE CycleStop
  BY <1>3, CycleStopInv
<1>4. CASE FeedHold
  BY <1>4, FeedHoldInv
<1>5. CASE Reset
  BY <1>5, ResetInv
<1>6. CASE PrepSegment
  BY <1>6, PrepSegmentInv
<1>7. CASE PrepBlockEnd
  BY <1>7, PrepBlockEndInv
<1>8. CASE PrepHoldEnd
  BY <1>8, PrepHoldEndInv
<1>9. CASE UNCHANGED vars
  BY <1>9, Stuttering
<1> QED
  BY <1>1, <1>2, <1>3, <1>4, <1>5, <1>6, <1>7, <1>8, <1>9 DEF Next

\* The ring of blocks, the planned pointer, the plan and the profile of planner.c
\* and stepper.c satisfy the inductive invariant at all times.
THEOREM Invariance == Spec => []IInv
<1>1. Init => IInv
  BY Initially
<1>2. IInv /\ [Next]_vars => IInv'
  BY StepInv
<1> QED
  BY <1>1, <1>2, PTL DEF Spec

(***************************************************************************)
(* plan_discard_current_block(), planner_recalculate() and plan_reset()    *)
(* keep the planned pointer on a block of the queue.                       *)
(***************************************************************************)
THEOREM PointerOnQueue == Spec => []PlannedInRange
<1>1. IInv => PlannedInRange
  BY DEF IInv
<1> QED
  BY <1>1, Invariance, PTL

(***************************************************************************)
(* The profile st_prep_buffer() executes ends with the speed the planner   *)
(* has for the next block, however often it plans in between.              *)
(***************************************************************************)
THEOREM ProfileFollowsPlan == Spec => []ProfileMatchesPlan
<1>1. IInv => ProfileMatchesPlan
  BY DEF IInv
<1> QED
  BY <1>1, Invariance, PTL

\* What GoodPlan means of the blocks.
LEMMA FeasibleNow == IInv => PlanFeasible
<1> SUFFICES ASSUME IInv, sys_state # "HOLD", NEW k \in 0 .. Last
             PROVE  /\ EntrySpeed(k) <= EntrySpeed(k + 1) + Block(k).mm
                    /\ EntrySpeed(k + 1) <= EntrySpeed(k) + Block(k).mm
                    /\ k > 0 => Block(k).entry <= Block(k).max_entry
  BY DEF PlanFeasible
<1> DEFINE t == block_buffer_tail
           s == SpeedsOf(block_buffer, t, Last, SpeedNow)
<1>1. ~Empty
  <2> SUFFICES ASSUME Empty PROVE FALSE
    OBVIOUS
  <2>1. Distance(block_buffer_tail, block_buffer_head) = 0
    BY DistanceOf, PlannerAssumption DEF IInv, Types, Empty, Entries
  <2> QED
    BY <2>1 DEF Last
<1>2. /\ Last \in Nat /\ Last < BLOCK_BUFFER_SIZE /\ SpeedNow \in Nat
      /\ \A j \in 0 .. Last : Block(j).mm \in Nat
      /\ \A j \in 0 .. Last : Block(j) = block_buffer[Index(t, j)]
  <2>1. /\ Last \in Nat /\ Last + 1 < BLOCK_BUFFER_SIZE /\ SpeedNow \in Nat
        /\ \A j \in 0 .. Last : Block(j).mm \in Nat
        /\ \A j \in 0 .. Last : Block(j) = block_buffer[Index(t, j)]
    BY <1>1, Facts
  <2> QED
    BY <2>1, PlannerAssumption
<1>3. t \in Entries /\ block_buffer \in Queues
  BY DEF IInv, Types
<1>4. /\ s \in [0 .. Last -> Nat]
      /\ s[0] = SpeedNow /\ \A j \in 1 .. Last : s[j] = block_buffer[Index(t, j)].entry
  <2>1. s \in [0 .. Last -> Nat]
    BY <1>2, <1>3, SpeedsType
  <2>2. s[0] = SpeedNow
    <3>1. 0 \in 0 .. Last
      BY <1>2
    <3> QED
      BY <3>1 DEF SpeedsOf
  <2>3. \A j \in 1 .. Last : s[j] = block_buffer[Index(t, j)].entry
    BY <1>2, <1>3, SpeedsType
  <2> QED
    BY <2>1, <2>2, <2>3
<1>5. Followed(block_buffer, t, Last, s) /\ Stopped(block_buffer, t, Last, s)
  BY <1>1 DEF IInv, Planned, Following, GoodPlan
<1> HIDE DEF s
<1>6. \A j \in 0 .. Last : EntrySpeed(j) = s[j]
  <2>1. \A j \in 0 .. Last : j = 0 \/ (j # 0 /\ j \in 1 .. Last /\ ~(j > Last))
    BY <1>2
  <2> QED
    BY <1>2, <1>4, <2>1 DEF EntrySpeed
<1>7. /\ EntrySpeed(k) <= EntrySpeed(k + 1) + Block(k).mm
      /\ EntrySpeed(k + 1) <= EntrySpeed(k) + Block(k).mm
  <2>1. CASE k < Last
    <3>1. k + 1 \in 1 .. Last /\ k + 1 \in 0 .. Last /\ (k + 1) - 1 = k
      BY <1>2, <2>1
    <3>2. /\ s[k + 1] <= s[(k + 1) - 1] + block_buffer[Index(t, (k + 1) - 1)].mm
          /\ s[(k + 1) - 1] <= s[k + 1] + block_buffer[Index(t, (k + 1) - 1)].mm
      BY <1>5, <3>1 DEF Followed
    <3> QED
      BY <1>2, <1>6, <3>1, <3>2
  <2>2. CASE ~(k < Last)
    <3>1. k = Last /\ k + 1 # 0 /\ k + 1 > Last
      BY <1>2, <2>2
    <3>2. EntrySpeed(k + 1) = 0
      BY <3>1 DEF EntrySpeed
    <3>3. s[k] <= Block(k).mm
      BY <1>2, <1>5, <3>1 DEF Stopped
    <3>4. s[k] \in Nat /\ Block(k).mm \in Nat
      BY <1>2, <1>4
    <3> QED
      BY <1>6, <3>2, <3>3, <3>4
  <2> QED
    BY <2>1, <2>2
<1>8. k > 0 => Block(k).entry <= Block(k).max_entry
  <2>1. k > 0 => k \in 1 .. Last
    BY <1>2
  <2> QED
    BY <1>2, <2>1 DEF IInv, Braking, BrakingOf
<1> QED
  BY <1>7, <1>8

(***************************************************************************)
(* Unless a hold brakes it, the machine can follow the plan and stop at    *)
(* its end, for every sequence of lines, segments, holds and resets.       *)
(***************************************************************************)
THEOREM Feasible == Spec => []PlanFeasible
  BY FeasibleNow, Invariance, PTL

LEMMA OptimalNow == IInv => PlanOptimal
<1> DEFINE fresh == [i \in DOMAIN block_buffer |->
                       [block_buffer[i] EXCEPT
                          !.entry = IF i = block_buffer_tail THEN SpeedNow ELSE -1]]
           t == block_buffer_tail
           n == Last
           F == Forward(fresh, t, n)
           e0 == SpeedNow
           s == SpeedsOf(block_buffer, t, n, e0)
<1> SUFFICES ASSUME IInv, sys_state # "HOLD", ~Empty, n > 0
             PROVE  \A k \in 1 .. n : Block(k).entry = F[k]
  <2>1. IInv /\ ~Empty => n \in Nat
    BY Facts
  <2>2. IInv /\ ~Empty /\ ~(n > 0) => 1 .. n = {}
    <3> HIDE DEF n
    <3> QED
      BY <2>1
  <2> HIDE DEF F
  <2>3. (IInv /\ sys_state # "HOLD" /\ ~Empty => \A k \in 1 .. n : Block(k).entry = F[k])
        => (IInv => PlanOptimal)
    BY DEF PlanOptimal, F
  <2> QED
    BY <2>2, <2>3
<1>1. /\ n \in Nat /\ n < BLOCK_BUFFER_SIZE /\ n \in Entries /\ 1 \in 1 .. n /\ e0 \in Nat
      /\ \A j \in 0 .. n : j \in Entries /\ Index(t, j) \in Entries
      /\ \A j \in 1 .. n : Index(t, j) # t
      /\ \A j \in 0 .. n : Block(j) = block_buffer[Index(t, j)]
      /\ Index(t, 0) = t
  <2>1. /\ n \in Nat /\ n + 1 < BLOCK_BUFFER_SIZE /\ e0 \in Nat
        /\ \A j \in 0 .. n + 1 : j \in Entries /\ Index(t, j) \in Entries
        /\ \A j \in 1 .. n + 1 : Index(t, j) # t
        /\ \A j \in 0 .. n : Block(j) = block_buffer[Index(t, j)]
        /\ Index(t, 0) = t
    BY Facts
  <2> HIDE DEF n, t, e0
  <2>2. /\ n < BLOCK_BUFFER_SIZE /\ n \in Entries /\ 1 \in 1 .. n
        /\ \A j \in 0 .. n : j \in 0 .. n + 1
        /\ \A j \in 1 .. n : j \in 1 .. n + 1
    BY <2>1, PlannerAssumption DEF Entries
  <2> QED
    BY <2>1, <2>2
<1>2. t \in Entries /\ block_buffer \in Queues /\ DOMAIN block_buffer = Entries
  BY DEF IInv, Types, Queues
<1>3. /\ fresh \in Rings /\ fresh[t].entry = e0
      /\ \A i \in Entries : /\ fresh[i].mm = block_buffer[i].mm
                            /\ fresh[i].max_entry = block_buffer[i].max_entry
                            /\ i # t => fresh[i].entry = -1
  <2> DEFINE v(i) == IF i = t THEN e0 ELSE -1
  <2>1. fresh = [i \in Entries |-> [block_buffer[i] EXCEPT !.entry = v(i)]]
    BY <1>2
  <2>2. \A i \in Entries : v(i) \in Int /\ (i = t => v(i) = e0) /\ (i # t => v(i) = -1)
    BY <1>1
  <2> HIDE DEF v, fresh, t, e0
  <2>3. \A i \in Entries :
          /\ fresh[i] \in [mm : Nat, entry : Int, max_entry : Nat, nominal : Nat]
          /\ fresh[i].entry = v(i)
          /\ fresh[i].mm = block_buffer[i].mm
          /\ fresh[i].max_entry = block_buffer[i].max_entry
    <3> SUFFICES ASSUME NEW i \in Entries
                 PROVE  /\ fresh[i] \in [mm : Nat, entry : Int, max_entry : Nat, nominal : Nat]
                        /\ fresh[i].entry = v(i)
                        /\ fresh[i].mm = block_buffer[i].mm
                        /\ fresh[i].max_entry = block_buffer[i].max_entry
      OBVIOUS
    <3>1. block_buffer[i] \in [mm : Nat, entry : Nat, max_entry : Nat, nominal : Nat]
      BY <1>2 DEF Queues
    <3>2. fresh[i] = [block_buffer[i] EXCEPT !.entry = v(i)]
      BY <2>1
    <3> QED
      BY <2>2, <3>1, <3>2
  <2>4. fresh \in Rings
    <3>1. fresh = [i \in Entries |-> fresh[i]]
      BY <2>1
    <3> QED
      BY <2>3, <3>1 DEF Rings
  <2> QED
    BY <1>2, <2>2, <2>3, <2>4
<1> HIDE DEF fresh
<1>4. /\ s \in [0 .. n -> Nat] /\ s[0] = e0
      /\ \A k \in 1 .. n : s[k] = block_buffer[Index(t, k)].entry
  <2> HIDE DEF n, t, e0
  <2>1. s \in [0 .. n -> Nat]
    BY <1>1, <1>2, SpeedsType
  <2>2. s[0] = e0
    <3>1. 0 \in 0 .. n
      BY <1>1
    <3> QED
      BY <3>1 DEF SpeedsOf
  <2>3. \A k \in 1 .. n : s[k] = block_buffer[Index(t, k)].entry
    BY <1>1, <1>2, SpeedsType
  <2> QED
    BY <2>1, <2>2, <2>3
<1>5. /\ Followed(block_buffer, t, n, s) /\ Stopped(block_buffer, t, n, s)
      /\ Fastest(block_buffer, t, n, e0, s)
  BY DEF IInv, Planned, Following, GoodPlan
<1> HIDE DEF s
<1>6. ASSUME NEW g
      PROVE  /\ Followed(fresh, t, n, g) <=> Followed(block_buffer, t, n, g)
             /\ Stopped(fresh, t, n, g) <=> Stopped(block_buffer, t, n, g)
  <2> HIDE DEF n, t
  <2>1. \A k \in 0 .. n : /\ fresh[Index(t, k)].mm = block_buffer[Index(t, k)].mm
                          /\ fresh[Index(t, k)].max_entry = block_buffer[Index(t, k)].max_entry
    BY <1>1, <1>3
  <2>2. \A k \in 1 .. n : k \in 0 .. n /\ k - 1 \in 0 .. n
    BY <1>1
  <2>3. n \in 0 .. n
    BY <1>1
  <2> QED
    BY <2>1, <2>2, <2>3 DEF Followed, Stopped
<1>7. /\ Followed(fresh, t, n, F) /\ Stopped(fresh, t, n, F)
  <2> DEFINE old == [k \in 1 .. n |-> block_buffer[Index(t, k)].entry]
  <2>1. old \in [1 .. n -> Nat] /\ \A k \in 1 .. n : old[k] = block_buffer[Index(t, k)].entry
    <3> HIDE DEF n, t
    <3>1. \A k \in 1 .. n : k \in 0 .. n
      BY <1>1
    <3> QED
      BY <1>1, <1>2, <3>1 DEF Queues
  <2>2. BrakingOf(block_buffer, t, n)
    BY DEF IInv, Braking
  <2> HIDE DEF old, n, t, e0
  <2>3. \A k \in 1 .. n : /\ fresh[Index(t, k)].mm = block_buffer[Index(t, k)].mm
                          /\ fresh[Index(t, k)].max_entry = block_buffer[Index(t, k)].max_entry
                          /\ fresh[Index(t, k)].entry = -1
                          /\ fresh[Index(t, k)].max_entry \in Nat
    <3>1. \A k \in 1 .. n : Index(t, k) \in Entries /\ Index(t, k) # t
      BY <1>1
    <3> QED
      BY <1>3, <3>1 DEF Rings
  <2>4. Brakes(fresh, t, n, old)
    <3>1. \A k \in 1 .. n : k < n => k + 1 \in 1 .. n
      BY <1>1
    <3>2. n \in 1 .. n
      BY <1>1
    <3> QED
      BY <2>1, <2>2, <2>3, <3>1, <3>2 DEF Brakes, Stopped, BrakingOf
  <2>5. \A k \in 1 .. n :
           k < n /\ fresh[Index(t, k)].entry = fresh[Index(t, k)].max_entry
             => old[k] = fresh[Index(t, k)].entry
    BY <2>3
  <2>6. fresh[t].entry <= old[1] + fresh[t].mm
    <3>1. s[1 - 1] <= s[1] + block_buffer[Index(t, 1 - 1)].mm /\ 1 - 1 = 0
      BY <1>1, <1>5 DEF Followed
    <3> QED
      BY <1>1, <1>2, <1>3, <1>4, <2>1, <3>1
  <2>7. fresh[t].entry \in Nat
    BY <1>1, <1>3
  <2> QED
    BY <1>1, <1>2, <1>3, <2>1, <2>4, <2>5, <2>6, <2>7, PassFollowed
<1>8. F \in [0 .. n -> Nat] /\ F[0] = e0
  <2> HIDE DEF n, t, e0
  <2>1. fresh[t].entry \in Nat
    BY <1>1, <1>3
  <2> QED
    BY <1>1, <1>2, <1>3, <2>1, ForwardIs
<1>9. \A k \in 0 .. n : F[k] <= s[k]
  <2> HIDE DEF F, n, t, e0
  <2> QED
    BY <1>5, <1>6, <1>7, <1>8 DEF Fastest
<1>10. \A k \in 0 .. n : s[k] <= F[k]
  <2> HIDE DEF n, t, e0
  <2>1. fresh[t].entry \in Nat /\ s[0] <= fresh[t].entry
    BY <1>1, <1>3, <1>4
  <2>2. Followed(fresh, t, n, s) /\ Stopped(fresh, t, n, s)
    BY <1>5, <1>6
  <2> QED
    BY <1>1, <1>2, <1>3, <1>4, <2>1, <2>2, PassFastest
<1> HIDE DEF F, n, t, e0
<1>11. ASSUME NEW k \in 1 .. n PROVE Block(k).entry = F[k]
  <2>1. k \in 0 .. n
    BY <1>1
  <2>2. s[k] \in Nat /\ F[k] \in Nat /\ F[k] <= s[k] /\ s[k] <= F[k]
    BY <1>4, <1>8, <1>9, <1>10, <2>1
  <2>3. s[k] = F[k]
    BY <2>2
  <2> QED
    BY <1>1, <1>4, <2>1, <2>3
<1> QED
  BY <1>11

(***************************************************************************)
(* The blocks planner_recalculate() skips for being optimally planned are: *)
(* planning the whole queue again, from the block under execution on,      *)
(* would change the speed of none.                                         *)
(***************************************************************************)
THEOREM Optimal == Spec => []PlanOptimal
  BY OptimalNow, Invariance, PTL

-----------------------------------------------------------------------------
(***************************************************************************)
(* The bounds of lengths and speeds: the longest block there may be and    *)
(* the fastest.                                                            *)
(***************************************************************************)
Longest == Max(Lengths)
TopSpeed == Max(NominalSpeeds)

LEMMA GreatestOf ==
  ASSUME NEW S \in SUBSET Nat, IsFiniteSet(S), S # {}
  PROVE  Max(S) \in S /\ \A x \in S : x <= Max(S)
<1>0. PICK n \in Nat : ExistsSurjection(1 .. n, S)
  BY FS_NatSurjection
<1>1. PICK f \in [1 .. n -> S] : \A x \in S : \E i \in 1 .. n : f[i] = x
  BY <1>0 DEF ExistsSurjection, Surjection
<1> DEFINE T == {m \in 0 .. n : \E b \in Nat : \A i \in 1 .. m : f[i] <= b}
<1>2. 0 \in T
  <2>1. \A i \in 1 .. 0 : f[i] <= 0
    OBVIOUS
  <2> QED
    BY <2>1
<1>3. ASSUME NEW m \in 0 .. n, 0 < m => m - 1 \in T
      PROVE  m \in T
  <2>1. CASE m = 0
    BY <1>2, <2>1
  <2>2. CASE m # 0
    <3>1. PICK b \in Nat : \A i \in 1 .. m - 1 : f[i] <= b
      BY <1>3, <2>2
    <3>2. f[m] \in Nat
      <4>1. m \in 1 .. n
        BY <2>2
      <4> QED
        BY <4>1
    <3>3. \A i \in 1 .. m : i # m => i \in 1 .. m - 1
      OBVIOUS
    <3>4. \A i \in 1 .. m : f[i] \in Nat
      <4>1. \A i \in 1 .. m : i \in 1 .. n
        OBVIOUS
      <4> QED
        BY <4>1
    <3>5. b + f[m] \in Nat /\ \A i \in 1 .. m : f[i] <= b + f[m]
      BY <3>1, <3>2, <3>3, <3>4
    <3> QED
      BY <3>5
  <2> QED
    BY <2>1, <2>2
<1>4. n \in T
  <2> HIDE DEF T
  <2>1. \A k \in 0 .. n : k \in T
    BY <1>3, Upward
  <2> QED
    BY <2>1
<1>5. PICK b \in Nat : \A i \in 1 .. n : f[i] <= b
  BY <1>4
<1>6. S \in SUBSET (0 .. b)
  BY <1>1, <1>5
<1>7. Max(S) \in S /\ \A y \in S : Max(S) >= y
  BY <1>6, MaxBounded
<1> QED
  BY <1>7

LEMMA Limit ==
  /\ Longest \in Nat /\ \A mm \in Lengths : mm <= Longest
  /\ TopSpeed \in Nat /\ TopSpeed >= 1
  /\ \A nominal \in NominalSpeeds : nominal <= TopSpeed
<1>1. Longest \in Lengths /\ \A mm \in Lengths : mm <= Longest
  <2>1. Lengths \in SUBSET Nat
    BY PlannerAssumption
  <2> QED
    BY <2>1, FinitelyMany, GreatestOf DEF Longest
<1>2. TopSpeed \in NominalSpeeds /\ \A nominal \in NominalSpeeds : nominal <= TopSpeed
  <2>1. NominalSpeeds \in SUBSET Nat
    BY PlannerAssumption
  <2> QED
    BY <2>1, FinitelyMany, GreatestOf DEF TopSpeed
<1> QED
  BY <1>1, <1>2, PlannerAssumption

BlockWithin(block) ==
  /\ block.mm <= Longest /\ block.entry <= TopSpeed
  /\ block.max_entry <= TopSpeed /\ block.nominal <= TopSpeed

WithinLimits(ring) == \A i \in Entries : BlockWithin(ring[i])

Limits ==
  /\ WithinLimits(block_buffer)
  /\ previous_nominal <= TopSpeed
  /\ current_speed <= TopSpeed /\ exit_speed <= TopSpeed

\* One block of the ring replaced.
LEMMA BlockReplaced ==
  ASSUME NEW ring \in Queues, WithinLimits(ring), NEW t \in Entries,
         NEW block \in [mm : Nat, entry : Nat, max_entry : Nat, nominal : Nat],
         BlockWithin(block)
  PROVE  /\ [ring EXCEPT ![t] = block] \in Queues
         /\ WithinLimits([ring EXCEPT ![t] = block])
<1> DEFINE q == [ring EXCEPT ![t] = block]
<1>1. q \in Queues
  BY DEF Queues
<1>2. \A i \in Entries : q[i] = IF i = t THEN block ELSE ring[i]
  BY DEF Queues
<1> HIDE DEF q
<1>3. WithinLimits(q)
  BY <1>2 DEF WithinLimits
<1> QED
  BY <1>1, <1>3 DEF q

\* Its first block entered at another speed.
LEMMA EntryReplaced ==
  ASSUME NEW ring \in Queues, WithinLimits(ring), NEW t \in Entries,
         NEW e \in Nat, e <= TopSpeed
  PROVE  /\ [ring EXCEPT ![t].entry = e] \in Queues
         /\ WithinLimits([ring EXCEPT ![t].entry = e])
<1> DEFINE old == ring[t]
           block == [old EXCEPT !.entry = e]
<1>1. /\ old \in [mm : Nat, entry : Nat, max_entry : Nat, nominal : Nat]
      /\ BlockWithin(old)
  BY DEF Queues, WithinLimits
<1>2. [ring EXCEPT ![t].entry = e] = [ring EXCEPT ![t] = block]
  BY DEF Queues
<1> HIDE DEF old
<1>3. /\ block \in [mm : Nat, entry : Nat, max_entry : Nat, nominal : Nat]
      /\ BlockWithin(block)
  BY <1>1 DEF BlockWithin
<1> HIDE DEF block
<1> QED
  BY <1>2, <1>3, BlockReplaced

\* The forward pass sets no speed above what the block's beginning allows.
LEMMA ForwardWithin ==
  ASSUME NEW ring \in Queues, WithinLimits(ring),
         NEW planned \in Entries, NEW n \in Entries, NEW k \in 1 .. n
  PROVE  Forward(ring, planned, n)[k] \in Nat
         /\ Forward(ring, planned, n)[k] <= TopSpeed
<1> DEFINE reverse == Reverse(ring, planned, n)
           forward == Forward(ring, planned, n)
           block(j) == ring[Index(planned, j)]
<1>1. ring \in Rings /\ ring[planned].entry \in Nat
  BY QueueRing DEF Queues
<1>2. /\ k \in Entries /\ k \in 1 .. n /\ n \in Nat
      /\ k - 1 \in Entries
      /\ block(k).max_entry \in Nat /\ block(k).mm \in Nat /\ block(k - 1).mm \in Nat
      /\ reverse[k] \in Nat /\ forward[k] \in Nat /\ forward[k - 1] \in Nat
      /\ forward[k] = Least(reverse[k], forward[k - 1] + block(k - 1).mm)
      /\ k = n => reverse[k] = Least(block(k).max_entry, block(k).mm)
      /\ k < n /\ block(k).entry = block(k).max_entry =>
           reverse[k] = block(k).max_entry
      /\ k < n /\ block(k).entry # block(k).max_entry =>
           reverse[k] = Least(block(k).max_entry, reverse[k + 1] + block(k).mm)
      /\ k < n => reverse[k + 1] \in Nat
  BY <1>1, Turns, PlannerAssumption DEF Entries
<1>3. block(k).max_entry <= TopSpeed
  <2>1. Index(planned, k) \in Entries
    BY <1>2, IndexOf
  <2> QED
    BY <2>1 DEF WithinLimits, BlockWithin
<1> HIDE DEF reverse, forward, block
<1>4. reverse[k] <= block(k).max_entry
  BY <1>2 DEF Least
<1>5. forward[k] <= reverse[k]
  BY <1>2 DEF Least
<1> QED
  BY <1>2, <1>3, <1>4, <1>5, Limit DEF forward

LEMMA UpdatedWithin ==
  ASSUME NEW ring \in Queues, WithinLimits(ring), block_buffer_tail \in Entries,
         current_speed' \in Nat, current_speed' <= TopSpeed
  PROVE  Updated(ring) \in Queues /\ WithinLimits(Updated(ring))
  BY EntryReplaced DEF Updated

LEMMA RecalculateWithin ==
  ASSUME NEW ring \in Queues, WithinLimits(ring), block_buffer_tail \in Entries,
         current_speed' \in Nat, current_speed' <= TopSpeed,
         NEW planned \in Entries, NEW head \in Entries,
         Recalculate(ring, planned, head)
  PROVE  WithinLimits(block_buffer')
<1> DEFINE n == Distance(planned, head) - 1
           base == IF n > 0 /\ planned = block_buffer_tail THEN Updated(ring) ELSE ring
           inside(i) == \E k \in 1 .. n : Index(planned, k) = i
           forward == Forward(base, planned, n)
<1>1. n \in Int /\ (n > 0 => n \in Entries)
  <2>1. Distance(planned, head) \in Entries
    BY DistanceOf
  <2> QED
    BY <2>1, PlannerAssumption DEF Entries
<1>2. base \in Queues /\ WithinLimits(base)
  BY UpdatedWithin
<1>3. CASE n = 0
  BY <1>3 DEF Recalculate
<1>4. CASE n # 0
  <2>1. block_buffer' = [i \in DOMAIN ring |->
            IF \E k \in 1 .. n : [j \in 0 .. n |-> Index(planned, j)][k] = i
            THEN [base[i] EXCEPT !.entry = forward[Distance(planned, i)]]
            ELSE base[i]]
    BY <1>4 DEF Recalculate
  <2>2. DOMAIN ring = Entries
    BY DEF Queues
  <2> HIDE DEF base, forward, n
  <2>3. \A k \in 1 .. n : [j \in 0 .. n |-> Index(planned, j)][k] = Index(planned, k)
    BY <1>1
  <2>4. SUFFICES ASSUME NEW i \in Entries PROVE BlockWithin(block_buffer'[i])
    BY DEF WithinLimits
  <2>5. block_buffer'[i] = IF inside(i)
                           THEN [base[i] EXCEPT !.entry = forward[Distance(planned, i)]]
                           ELSE base[i]
    BY <2>1, <2>2, <2>3
  <2>6. base[i] \in [mm : Nat, entry : Nat, max_entry : Nat, nominal : Nat]
    BY <1>2 DEF Queues
  <2>7. CASE inside(i)
    <3>1. PICK k \in 1 .. n : Index(planned, k) = i
      BY <2>7
    <3>2. n \in Entries /\ k \in Entries
      BY <1>1, PlannerAssumption DEF Entries
    <3>3. Distance(planned, i) = k
      BY <3>1, <3>2, DistanceIndex
    <3>4. forward[k] <= TopSpeed
      BY <1>2, <3>2, ForwardWithin DEF forward
    <3>5. block_buffer'[i] = [base[i] EXCEPT !.entry = forward[k]]
      BY <2>5, <2>7, <3>3
    <3> QED
      BY <1>2, <2>6, <3>4, <3>5 DEF WithinLimits, BlockWithin
  <2>8. CASE ~inside(i)
    BY <1>2, <2>5, <2>8 DEF WithinLimits
  <2> QED
    BY <2>7, <2>8
<1> QED
  BY <1>3, <1>4

LEMMA SpeedsWithin ==
  ASSUME IInv, Limits, ~Empty
  PROVE  StartSpeed <= TopSpeed /\ ExitSpeed <= TopSpeed
<1> DEFINE t == block_buffer_tail
<1>1. /\ StartSpeed \in Nat /\ ExitSpeed \in Nat /\ t \in Entries /\ First.mm \in Nat
      /\ current_speed \in Nat /\ exit_speed \in Nat
  BY Facts DEF IInv, Types, First, Queues
<1>2. First.entry <= TopSpeed
  BY <1>1 DEF First, Limits, WithinLimits, BlockWithin
<1>3. StartSpeed <= TopSpeed
  BY <1>2 DEF StartSpeed, Limits
<1>4. PlannedExit <= TopSpeed
  <2>1. plan_next_block_index(t) \in Entries
    BY <1>1, NextOf
  <2> QED
    BY <2>1, Limit DEF PlannedExit, Limits, WithinLimits, BlockWithin
<1>5. Max({0, StartSpeed - First.mm}) <= TopSpeed
  <2> DEFINE a == StartSpeed - First.mm
  <2>1. a \in Int /\ a <= TopSpeed
    BY <1>1, <1>3, Limit
  <2> HIDE DEF a
  <2>2. Max({0, a}) = IF 0 >= a THEN 0 ELSE a
    BY <2>1, MaxPair
  <2>3. Max({0, a}) <= TopSpeed
    BY <2>1, <2>2, Limit
  <2> QED
    BY <2>3 DEF a
<1>6. ExitSpeed <= TopSpeed
  BY <1>4, <1>5 DEF ExitSpeed, Limits
<1> QED
  BY <1>3, <1>6

LEMMA EnteredWithin ==
  ASSUME IInv, Limits, ~Empty
  PROVE  Entered \in Queues /\ WithinLimits(Entered)
<1>1. /\ StartSpeed \in Nat /\ StartSpeed <= TopSpeed /\ block_buffer \in Queues
      /\ block_buffer_tail \in Entries /\ WithinLimits(block_buffer)
  BY Facts, SpeedsWithin DEF IInv, Types, Limits
<1> QED
  BY <1>1, EntryReplaced DEF Entered

LEMMA DiscardedWithin ==
  ASSUME NEW block \in [mm : Nat, entry : Nat, max_entry : Nat, nominal : Nat],
         BlockWithin(block)
  PROVE  /\ Discarded(block) \in [mm : Nat, entry : Nat, max_entry : Nat, nominal : Nat]
         /\ BlockWithin(Discarded(block))
  BY Limit DEF Discarded, BlockWithin

(***************************************************************************)
(* A new line is no longer and no faster than the longest and the fastest. *)
(***************************************************************************)
LEMMA LineWithin ==
  ASSUME IInv, Limits,
         NEW mm \in Lengths, NEW nominal \in NominalSpeeds, NEW junction \in JunctionSpeeds,
         PlanBufferLine(mm, nominal, junction)
  PROVE  Limits'
<1> DEFINE h == block_buffer_head
           e == IF Empty THEN 0 ELSE block_buffer[h].entry
           j == IF Empty THEN 0 ELSE junction
           max == Min({j, nominal, previous_nominal})
           block == [mm |-> mm, entry |-> e, max_entry |-> max, nominal |-> nominal]
           ring == [block_buffer EXCEPT ![h] = block]
           head == plan_next_block_index(h)
<1>1. /\ h \in Entries /\ block_buffer \in Queues /\ WithinLimits(block_buffer)
      /\ block_buffer_tail \in Entries /\ block_buffer_planned \in Entries
      /\ previous_nominal \in Nat /\ current_speed \in Nat
      /\ current_speed <= TopSpeed /\ exit_speed <= TopSpeed
  BY DEF IInv, Types, Limits
<1>2. /\ mm \in Nat /\ nominal \in Nat /\ junction \in Nat
      /\ mm <= Longest /\ nominal <= TopSpeed
  BY Limit, PlannerAssumption
<1>3. /\ previous_nominal' = nominal
      /\ UNCHANGED <<current_speed, exit_speed>>
      /\ Recalculate(ring, block_buffer_planned, head)
  BY DEF PlanBufferLine
<1>4. max \in Nat /\ max <= nominal
  <2>1. j \in Nat /\ j \in Int /\ nominal \in Int /\ previous_nominal \in Int
    BY <1>1, <1>2
  <2> HIDE DEF j
  <2>2. max \in {j, nominal, previous_nominal} /\ max <= nominal
    BY <2>1, MinTriple
  <2> HIDE DEF max
  <2> QED
    BY <1>1, <1>2, <2>1, <2>2
<1>5. e \in Nat /\ e <= TopSpeed
  BY <1>1, Limit DEF Queues, WithinLimits, BlockWithin
<1> HIDE DEF e, max
<1>6. /\ block \in [mm : Nat, entry : Nat, max_entry : Nat, nominal : Nat]
      /\ BlockWithin(block)
  BY <1>2, <1>4, <1>5, Limit DEF BlockWithin
<1> HIDE DEF block
<1>7. ring \in Queues /\ WithinLimits(ring)
  BY <1>1, <1>6, BlockReplaced
<1>8. head \in Entries
  BY <1>1, NextOf
<1> HIDE DEF ring, head
<1>9. WithinLimits(block_buffer')
  BY <1>1, <1>3, <1>7, <1>8, RecalculateWithin
<1> QED
  BY <1>1, <1>2, <1>3, <1>9 DEF Limits

LEMMA SegmentWithin ==
  ASSUME IInv, Limits, PrepSegment
  PROVE  Limits'
<1> DEFINE t == block_buffer_tail
           old == Entered[t]
<1>1. PICK d \in 1 .. First.mm - 1 :
        /\ Preparing
        /\ sys_state = "HOLD" => d < StartSpeed
        /\ block_buffer' = [Entered EXCEPT ![block_buffer_tail].mm = @ - d]
        /\ current_speed' = SpeedAfter(d)
        /\ exit_speed' = ExitSpeed
        /\ previous_nominal' = previous_nominal
  BY DEF PrepSegment
<1>2. ~Empty /\ sys_state \in {"CYCLE", "HOLD"}
  BY <1>1 DEF Preparing, IInv, Types
<1>3. /\ StartSpeed \in Nat /\ t \in Entries /\ block_buffer \in Queues
      /\ WithinLimits(block_buffer) /\ StartSpeed <= TopSpeed /\ ExitSpeed <= TopSpeed
      /\ previous_nominal <= TopSpeed
  BY <1>2, Facts, SpeedsWithin DEF IInv, Types, Limits
<1>4. First = block_buffer[t] /\ First.mm \in Nat /\ First.nominal \in Nat
      /\ First.nominal <= TopSpeed
  <2>1. First = block_buffer[t]
    BY DEF First
  <2>2. First.mm \in Nat /\ First.nominal \in Nat
    BY <1>3, <2>1 DEF Queues
  <2>3. First.nominal <= TopSpeed
    BY <1>3, <2>1 DEF WithinLimits, BlockWithin
  <2> QED
    BY <2>1, <2>2, <2>3
<1>5. d \in Nat /\ d > 0 /\ d < First.mm
  BY <1>4
<1>6. SpeedAfter(d) <= TopSpeed
  <2>1. CASE sys_state = "HOLD"
    BY <1>3, <1>5, <2>1, Limit DEF SpeedAfter
  <2>2. CASE sys_state = "CYCLE"
    <3> DEFINE z == SpeedAfter(d)
    <3>1. z \in Nat /\ z <= First.nominal
      BY <1>2, <2>2, SpeedAfterIs
    <3> HIDE DEF z
    <3>2. z <= TopSpeed
      BY <1>4, <3>1, Limit
    <3> QED
      BY <3>2 DEF z
  <2> QED
    BY <1>2, <2>1, <2>2
<1>7. /\ Entered \in Queues /\ WithinLimits(Entered)
  BY <1>2, EnteredWithin
<1>8. old.mm = First.mm
  BY <1>3, <1>4 DEF Entered, Queues
<1> DEFINE block == [old EXCEPT !.mm = First.mm - d]
<1>9. block_buffer' = [Entered EXCEPT ![t] = block]
  BY <1>1, <1>3, <1>7, <1>8 DEF Queues
<1>10. /\ old \in [mm : Nat, entry : Nat, max_entry : Nat, nominal : Nat]
       /\ BlockWithin(old)
  BY <1>3, <1>7 DEF Queues, WithinLimits
<1> HIDE DEF old
<1>11. /\ block \in [mm : Nat, entry : Nat, max_entry : Nat, nominal : Nat]
       /\ BlockWithin(block)
  <2> DEFINE left == First.mm - d
  <2>1. left \in Nat /\ left <= old.mm
    BY <1>4, <1>5, <1>8
  <2> HIDE DEF left
  <2>2. block = [old EXCEPT !.mm = left]
    BY DEF left
  <2> HIDE DEF block
  <2>3. /\ block \in [mm : Nat, entry : Nat, max_entry : Nat, nominal : Nat]
        /\ block.mm = left /\ block.entry = old.entry
        /\ block.max_entry = old.max_entry /\ block.nominal = old.nominal
    BY <1>10, <2>1, <2>2
  <2>4. old.mm \in Nat /\ old.mm <= Longest
    BY <1>10 DEF BlockWithin
  <2>5. left <= Longest
    BY <2>1, <2>4, Limit
  <2> QED
    BY <1>10, <2>3, <2>5 DEF BlockWithin
<1> HIDE DEF block
<1>12. WithinLimits(block_buffer')
  BY <1>3, <1>7, <1>9, <1>11, BlockReplaced
<1> QED
  BY <1>1, <1>3, <1>6, <1>12 DEF Limits

LEMMA BlockEndWithin ==
  ASSUME IInv, Limits, PrepBlockEnd
  PROVE  Limits'
<1> DEFINE t == block_buffer_tail
           old == Entered[t]
<1>1. /\ ~Empty
      /\ current_speed' = Max({1, ExitSpeed}) /\ exit_speed' = ExitSpeed
      /\ block_buffer' = [Entered EXCEPT ![t] = Discarded(old)]
      /\ previous_nominal' = previous_nominal
  <2>1. /\ ~Empty
        /\ current_speed' = Max({1, ExitSpeed}) /\ exit_speed' = ExitSpeed
        /\ block_buffer' = [Entered EXCEPT ![block_buffer_tail] = Discarded(@)]
        /\ previous_nominal' = previous_nominal
    BY DEF PrepBlockEnd, Preparing
  <2>2. Entered \in Queues /\ t \in Entries
    BY <2>1, EnteredWithin DEF IInv, Types
  <2> QED
    BY <2>1, <2>2 DEF Queues
<1>2. /\ Entered \in Queues /\ WithinLimits(Entered) /\ t \in Entries
      /\ previous_nominal <= TopSpeed
      /\ ExitSpeed \in Nat /\ ExitSpeed <= TopSpeed
  BY <1>1, EnteredWithin, Facts, SpeedsWithin DEF IInv, Types, Limits
<1>3. /\ old \in [mm : Nat, entry : Nat, max_entry : Nat, nominal : Nat]
      /\ BlockWithin(old)
  BY <1>2 DEF Queues, WithinLimits
<1> HIDE DEF old
<1>4. WithinLimits(block_buffer')
  <2> DEFINE block == Discarded(old)
  <2>1. /\ block \in [mm : Nat, entry : Nat, max_entry : Nat, nominal : Nat]
        /\ BlockWithin(block)
    BY <1>3, DiscardedWithin
  <2> HIDE DEF block
  <2>2. WithinLimits([Entered EXCEPT ![t] = block])
    BY <1>2, <2>1, BlockReplaced
  <2> QED
    BY <1>1, <2>2 DEF block
<1>5. Max({1, ExitSpeed}) <= TopSpeed
  <2> DEFINE x == ExitSpeed
  <2>1. x \in Nat /\ x <= TopSpeed
    BY <1>2
  <2> HIDE DEF x
  <2>2. Max({1, x}) = IF 1 >= x THEN 1 ELSE x
    BY <2>1, MaxPair
  <2>3. Max({1, x}) <= TopSpeed
    BY <2>1, <2>2, Limit
  <2> QED
    BY <2>3 DEF x
<1> QED
  BY <1>1, <1>2, <1>4, <1>5 DEF Limits

LEMMA HoldEndWithin ==
  ASSUME IInv, Limits, PrepHoldEnd
  PROVE  Limits'
<1> DEFINE t == block_buffer_tail
           ring == [block_buffer EXCEPT ![block_buffer_tail].entry = 0,
                                        ![block_buffer_tail].mm = @ - StartSpeed]
           old == block_buffer[t]
           block == [old EXCEPT !.entry = 0, !.mm = old.mm - StartSpeed]
<1>1. ~Empty /\ StartSpeed < First.mm
  BY DEF PrepHoldEnd, Preparing
<1>2. /\ current_speed' = 0 /\ exit_speed' = 0
      /\ Recalculate(ring, t, block_buffer_head)
      /\ previous_nominal' = previous_nominal
  BY DEF PrepHoldEnd
<1>3. /\ StartSpeed \in Nat /\ t \in Entries /\ block_buffer \in Queues
      /\ block_buffer_head \in Entries
      /\ WithinLimits(block_buffer) /\ previous_nominal <= TopSpeed
  BY <1>1, Facts DEF IInv, Types, Limits
<1>4. /\ old \in [mm : Nat, entry : Nat, max_entry : Nat, nominal : Nat]
      /\ BlockWithin(old) /\ StartSpeed < old.mm
  BY <1>1, <1>3 DEF Queues, WithinLimits, First
<1>5. ring = [block_buffer EXCEPT ![t] = block]
  BY <1>3 DEF Queues
<1> HIDE DEF old
<1>6. /\ block \in [mm : Nat, entry : Nat, max_entry : Nat, nominal : Nat]
      /\ BlockWithin(block)
  <2> DEFINE left == old.mm - StartSpeed
  <2>1. left \in Nat /\ left <= old.mm
    BY <1>3, <1>4
  <2> HIDE DEF left
  <2>2. block = [old EXCEPT !.entry = 0, !.mm = left]
    BY DEF left
  <2> HIDE DEF block
  <2>3. /\ block \in [mm : Nat, entry : Nat, max_entry : Nat, nominal : Nat]
        /\ block.mm = left /\ block.entry = 0
        /\ block.max_entry = old.max_entry /\ block.nominal = old.nominal
    BY <1>4, <2>1, <2>2
  <2>4. old.mm \in Nat /\ old.mm <= Longest
    BY <1>4 DEF BlockWithin
  <2>5. left <= Longest
    BY <2>1, <2>4, Limit
  <2> QED
    BY <1>4, <2>3, <2>5, Limit DEF BlockWithin
<1> HIDE DEF block
<1>7. ring \in Queues /\ WithinLimits(ring)
  BY <1>3, <1>5, <1>6, BlockReplaced
<1> HIDE DEF ring
<1>8. current_speed' \in Nat /\ current_speed' <= TopSpeed /\ exit_speed' <= TopSpeed
  BY <1>2, Limit
<1>9. WithinLimits(block_buffer')
  BY <1>2, <1>3, <1>7, <1>8, RecalculateWithin
<1> QED
  BY <1>2, <1>3, <1>8, <1>9 DEF Limits

LEMMA ResetWithin ==
  ASSUME IInv, Limits, Reset
  PROVE  Limits'
<1>1. \A i \in Entries : block_buffer'[i] = Discarded(block_buffer[i])
  BY DEF Reset, IInv, Types, Queues
<1>2. \A i \in Entries :
        /\ block_buffer[i] \in [mm : Nat, entry : Nat, max_entry : Nat, nominal : Nat]
        /\ BlockWithin(block_buffer[i])
  BY DEF IInv, Types, Queues, Limits, WithinLimits
<1>3. WithinLimits(block_buffer')
  BY <1>1, <1>2, DiscardedWithin DEF WithinLimits
<1> QED
  BY <1>3, Limit DEF Reset, Limits

LEMMA HoldWithin ==
  ASSUME IInv, Limits, FeedHold
  PROVE  Limits'
<1>1. /\ UNCHANGED <<current_speed, exit_speed, previous_nominal>>
      /\ block_buffer' = Updated(block_buffer) \/ block_buffer' = block_buffer
  BY DEF FeedHold
<1>2. /\ block_buffer \in Queues /\ WithinLimits(block_buffer)
      /\ block_buffer_tail \in Entries
      /\ current_speed' \in Nat /\ current_speed' <= TopSpeed
  BY <1>1 DEF IInv, Types, Limits
<1>3. WithinLimits(block_buffer')
  BY <1>1, <1>2, UpdatedWithin
<1> QED
  BY <1>1, <1>3 DEF Limits

LEMMA LimitsStep == IInv /\ Limits /\ [Next]_vars => Limits'
<1> SUFFICES ASSUME IInv, Limits, [Next]_vars PROVE Limits'
  OBVIOUS
<1>1. ASSUME NEW mm \in Lengths, NEW nominal \in NominalSpeeds, NEW junction \in JunctionSpeeds,
             PlanBufferLine(mm, nominal, junction)
      PROVE  Limits'
  BY <1>1, LineWithin
<1>2. CASE CycleStart \/ CycleStop \/ UNCHANGED vars
  <2>1. UNCHANGED <<block_buffer, previous_nominal, current_speed, exit_speed>>
    BY <1>2 DEF CycleStart, CycleStop, prepVars, vars
  <2> QED
    BY <2>1 DEF Limits
<1>3. CASE FeedHold
  BY <1>3, HoldWithin
<1>4. CASE Reset
  BY <1>4, ResetWithin
<1>5. CASE PrepSegment
  BY <1>5, SegmentWithin
<1>6. CASE PrepBlockEnd
  BY <1>6, BlockEndWithin
<1>7. CASE PrepHoldEnd
  BY <1>7, HoldEndWithin
<1> QED
  BY <1>1, <1>2, <1>3, <1>4, <1>5, <1>6, <1>7 DEF Next

LEMMA LimitsInitially == Init => Limits
<1> SUFFICES ASSUME Init PROVE Limits
  OBVIOUS
<1>1. \A i \in Entries : block_buffer[i] = Discarded([entry |-> 0])
  BY DEF Init, Entries
<1>2. BlockWithin(Discarded([entry |-> 0]))
  BY Limit DEF BlockWithin, Discarded
<1>3. WithinLimits(block_buffer)
  BY <1>1, <1>2 DEF WithinLimits
<1> QED
  BY <1>3, Limit DEF Init, Limits

LEMMA TypesNow == IInv /\ Limits => TypeOK
<1> SUFFICES ASSUME IInv, Limits PROVE TypeOK
  OBVIOUS
<1>1. /\ sys_state \in {"IDLE", "CYCLE", "HOLD"}
      /\ block_buffer_head \in Entries /\ block_buffer_tail \in Entries
      /\ block_buffer_planned \in Entries
      /\ loaded \in BOOLEAN /\ partial \in BOOLEAN
  BY DEF IInv, Types
<1>2. /\ previous_nominal \in 0 .. TopSpeed
      /\ current_speed \in 0 .. TopSpeed /\ exit_speed \in 0 .. TopSpeed
  BY Limit DEF IInv, Types, Limits
<1>3. block_buffer \in [Entries -> [mm : 0 .. Longest, entry : 0 .. TopSpeed,
                                    max_entry : 0 .. TopSpeed, nominal : 0 .. TopSpeed]]
  <2>1. block_buffer = [i \in Entries |-> block_buffer[i]]
    BY DEF IInv, Types, Queues
  <2>2. ASSUME NEW i \in Entries
        PROVE  block_buffer[i] \in [mm : 0 .. Longest, entry : 0 .. TopSpeed,
                                    max_entry : 0 .. TopSpeed, nominal : 0 .. TopSpeed]
    <3> DEFINE block == block_buffer[i]
    <3>1. /\ block \in [mm : Nat, entry : Nat, max_entry : Nat, nominal : Nat]
          /\ BlockWithin(block)
      BY DEF IInv, Types, Queues, Limits, WithinLimits
    <3> HIDE DEF block
    <3>2. block \in [mm : 0 .. Longest, entry : 0 .. TopSpeed,
                     max_entry : 0 .. TopSpeed, nominal : 0 .. TopSpeed]
      BY <3>1, Limit DEF BlockWithin
    <3> QED
      BY <3>2 DEF block
  <2> QED
    BY <2>1, <2>2
<1> QED
  BY <1>1, <1>2, <1>3 DEF TypeOK, Entries, Longest, TopSpeed

(***************************************************************************)
(* The pointers stay in the ring, and no block and no profile is ever      *)
(* given a length beyond the longest line's or a speed beyond the fastest  *)
(* line's, however plan_buffer_line(), planner_recalculate() and           *)
(* st_prep_buffer() interleave.                                            *)
(***************************************************************************)
THEOREM PlannerTypes == Spec => []TypeOK
<1>1. Init => IInv /\ Limits
  BY Initially, LimitsInitially
<1>2. IInv /\ Limits /\ [Next]_vars => (IInv /\ Limits)'
  BY StepInv, LimitsStep
<1>3. IInv /\ Limits => TypeOK
  BY TypesNow
<1> QED
  BY <1>1, <1>2, <1>3, PTL DEF Spec

-----------------------------------------------------------------------------
(***************************************************************************)
(* A feed hold, which brakes whatever the plan, never gets ahead of it.    *)
(***************************************************************************)
HoldBrakes ==
  sys_state = "HOLD" /\ ~Empty =>
    /\ SpeedNow <= PlannedExit + First.mm
    /\ loaded => exit_speed <= PlannedExit

\* Between two blocks the stepper goes no faster than the next is to be entered.
Between ==
  ~loaded /\ ~partial => exit_speed <= (IF Empty THEN 0 ELSE First.entry)

HoldTypes ==
  First.mm \in Nat /\ First.entry \in Nat /\ PlannedExit \in Nat

LEMMA HoldFacts ==
  ASSUME IInv
  PROVE  /\ First.mm \in Nat /\ First.entry \in Nat /\ PlannedExit \in Nat
         /\ exit_speed \in Nat /\ current_speed \in Nat
         /\ loaded \in BOOLEAN /\ partial \in BOOLEAN
<1>1. /\ block_buffer \in Queues /\ block_buffer_tail \in Entries
      /\ plan_next_block_index(block_buffer_tail) \in Entries
  BY NextOf DEF IInv, Types
<1>2. First.mm \in Nat /\ First.entry \in Nat
  BY <1>1 DEF First, Queues
<1>3. PlannedExit \in Nat
  BY <1>1 DEF PlannedExit, Queues
<1> QED
  BY <1>2, <1>3 DEF IInv, Types

LEMMA HoldTypesNow == IInv => HoldTypes
  BY HoldFacts DEF HoldTypes

LEMMA HoldTypesNext == IInv' => HoldTypes'
  BY HoldTypesNow, PTL

\* The plan itself can be braked for.
LEMMA PlanBrakes ==
  ASSUME IInv, ~Empty, sys_state # "HOLD"
  PROVE  SpeedNow <= PlannedExit + First.mm
<1>1. /\ Last \in Nat /\ First = Block(0)
      /\ PlannedExit = IF Last = 0 THEN 0 ELSE Block(1).entry
  BY Facts
<1>2. 0 \in 0 .. Last /\ 0 + 1 = 1
  BY <1>1
<1>3. EntrySpeed(0) <= EntrySpeed(1) + Block(0).mm
  <2>1. EntrySpeed(0) <= EntrySpeed(0 + 1) + Block(0).mm
    BY <1>2, FeasibleNow DEF PlanFeasible
  <2> QED
    BY <1>2, <2>1
<1>4. EntrySpeed(0) = SpeedNow
  BY <1>1, <1>2 DEF EntrySpeed
<1>5. EntrySpeed(1) = PlannedExit
  <2>1. CASE Last = 0
    <3>1. 1 > Last /\ 1 # 0
      BY <2>1
    <3> QED
      BY <1>1, <2>1, <3>1 DEF EntrySpeed
  <2>2. CASE Last # 0
    <3>1. ~(1 > Last) /\ 1 # 0
      BY <1>1, <2>2
    <3> QED
      BY <1>1, <2>2, <3>1 DEF EntrySpeed
  <2> QED
    BY <2>1, <2>2
<1> QED
  BY <1>1, <1>3, <1>4, <1>5

\* What a hold starts a segment with and aims at.
LEMMA HoldSpeeds ==
  ASSUME IInv, ~Empty, sys_state = "HOLD", HoldBrakes, Between
  PROVE  StartSpeed <= PlannedExit + First.mm /\ ExitSpeed <= PlannedExit
<1>1. /\ First.mm \in Nat /\ First.entry \in Nat /\ PlannedExit \in Nat
      /\ exit_speed \in Nat /\ current_speed \in Nat /\ StartSpeed \in Nat
  BY HoldFacts, Facts
<1>2. StartSpeed <= PlannedExit + First.mm
  <2>1. CASE loaded \/ partial
    BY <1>1, <2>1 DEF StartSpeed, SpeedNow, HoldBrakes
  <2>2. CASE ~(loaded \/ partial)
    <3>1. StartSpeed = exit_speed /\ exit_speed <= First.entry
      BY <2>2 DEF StartSpeed, Between
    <3>2. First.entry <= PlannedExit + First.mm
      BY <2>2 DEF SpeedNow, HoldBrakes
    <3> QED
      BY <1>1, <3>1, <3>2
  <2> QED
    BY <2>1, <2>2
<1>3. Max({0, StartSpeed - First.mm}) <= PlannedExit
  <2> DEFINE a == StartSpeed - First.mm
  <2>1. a \in Int /\ a <= PlannedExit
    BY <1>1, <1>2
  <2> HIDE DEF a
  <2>2. Max({0, a}) = IF 0 >= a THEN 0 ELSE a
    BY <2>1, MaxPair
  <2>3. Max({0, a}) <= PlannedExit
    BY <1>1, <2>1, <2>2
  <2> QED
    BY <2>3 DEF a
<1>4. ExitSpeed <= PlannedExit
  BY <1>3 DEF ExitSpeed, HoldBrakes
<1> QED
  BY <1>2, <1>4

LEMMA LineBetween ==
  ASSUME IInv, Between,
         NEW mm \in Lengths, NEW nominal \in NominalSpeeds, NEW junction \in JunctionSpeeds,
         PlanBufferLine(mm, nominal, junction)
  PROVE  Between'
<1>1. exit_speed' = exit_speed /\ exit_speed \in Nat
  BY HoldFacts DEF PlanBufferLine
<1>2. CASE Empty
  <2>1. IInv'
    BY <1>2, FirstLineInv
  <2>2. exit_speed = 0
    BY <1>1, <1>2 DEF Between, IInv, Profile
  <2> QED
    BY <1>1, <2>1, <2>2, HoldTypesNext DEF Between, HoldTypes
<1>3. CASE ~Empty
  <2>1. ~Empty' /\ SpeedNow' = SpeedNow
    BY <1>3, NextLineInv
  <2>2. ~loaded' /\ ~partial' => ~loaded /\ ~partial
    BY DEF PlanBufferLine, UpdatePlanBlockParameters
  <2>3. ~loaded' /\ ~partial' => First'.entry = First.entry
    BY <2>1, <2>2 DEF SpeedNow
  <2> QED
    BY <1>1, <1>3, <2>1, <2>2, <2>3 DEF Between
<1> QED
  BY <1>2, <1>3

\* A hold begins with the plan and the speed there were.
LEMMA HoldBegins ==
  ASSUME IInv, Between, FeedHold
  PROVE  HoldBrakes' /\ Between'
<1>1. /\ sys_state \in {"IDLE", "CYCLE"}
      /\ UNCHANGED <<current_speed, exit_speed, block_buffer_head, block_buffer_tail,
                     block_buffer_planned, previous_nominal>>
  BY DEF FeedHold
<1>2. Empty' = Empty
  BY <1>1 DEF Empty
<1>3. CASE ~(sys_state = "CYCLE" /\ loaded)
  <2>1. ~loaded /\ ~loaded'
    BY <1>1, <1>3 DEF FeedHold, UpdatePlanBlockParameters, IInv, Types, Profile
  <2>2. block_buffer' = block_buffer /\ partial' = partial
    BY <1>1, <1>3, <2>1 DEF FeedHold, UpdatePlanBlockParameters, Updated, IInv, Types
  <2>3. First' = First /\ PlannedExit' = PlannedExit
    BY <1>1, <2>2 DEF First, PlannedExit
  <2>4. SpeedNow' = SpeedNow
    BY <1>1, <2>1, <2>2, <2>3 DEF SpeedNow
  <2>5. ~Empty => SpeedNow <= PlannedExit + First.mm
    BY <1>1, PlanBrakes
  <2> QED
    BY <1>1, <1>2, <2>1, <2>2, <2>3, <2>4, <2>5 DEF HoldBrakes, Between
<1>4. CASE sys_state = "CYCLE" /\ loaded
  <2>1. ~Empty /\ SpeedNow = current_speed /\ loaded' = FALSE /\ partial' = TRUE
    BY <1>4 DEF FeedHold, UpdatePlanBlockParameters, SpeedNow, IInv, Profile
  <2>2. block_buffer' = [block_buffer EXCEPT ![block_buffer_tail].entry = current_speed]
    BY <1>1, <1>4 DEF FeedHold, Updated
  <2>3. /\ block_buffer \in Queues /\ block_buffer_tail \in Entries
        /\ plan_next_block_index(block_buffer_tail) \in Entries
        /\ plan_next_block_index(block_buffer_tail) # block_buffer_tail
    <3>1. block_buffer_tail \in Entries /\ block_buffer \in Queues
      BY DEF IInv, Types
    <3>2. /\ plan_next_block_index(block_buffer_tail) = Index(block_buffer_tail, 1)
          /\ Last \in Nat
          /\ \A k \in 1 .. Last + 1 : Index(block_buffer_tail, k) # block_buffer_tail
      BY <2>1, Facts
    <3>3. 1 \in 1 .. Last + 1
      BY <3>2
    <3> QED
      BY <3>1, <3>2, <3>3, NextOf
  <2>4. First'.mm = First.mm
    BY <1>1, <2>2, <2>3 DEF First, Queues
  <2>5. PlannedExit' = PlannedExit
    BY <1>1, <2>2, <2>3 DEF PlannedExit, Queues
  <2>6. SpeedNow <= PlannedExit + First.mm
    BY <1>4, <2>1, PlanBrakes
  <2>7. SpeedNow' = SpeedNow
    BY <1>1, <2>1 DEF SpeedNow
  <2> QED
    BY <2>1, <2>4, <2>5, <2>6, <2>7 DEF HoldBrakes, Between
<1> QED
  BY <1>3, <1>4

LEMMA SegmentBrakes ==
  ASSUME IInv, HoldBrakes, Between, PrepSegment
  PROVE  HoldBrakes' /\ Between'
<1> DEFINE t == block_buffer_tail
           u == plan_next_block_index(t)
<1>1. PICK d \in 1 .. First.mm - 1 :
        /\ Preparing
        /\ sys_state = "HOLD" => d < StartSpeed
        /\ block_buffer' = [Entered EXCEPT ![block_buffer_tail].mm = @ - d]
        /\ loaded' = TRUE /\ partial' = FALSE
        /\ current_speed' = SpeedAfter(d)
        /\ exit_speed' = ExitSpeed
        /\ UNCHANGED <<sys_state, block_buffer_head, block_buffer_tail>>
  BY DEF PrepSegment
<1>2. ~Empty /\ loaded'
  BY <1>1 DEF Preparing
<1>3. SUFFICES ASSUME sys_state = "HOLD" PROVE HoldBrakes'
  BY <1>1, <1>2 DEF HoldBrakes, Between
<1>4. StartSpeed <= PlannedExit + First.mm /\ ExitSpeed <= PlannedExit
  BY <1>2, <1>3, HoldSpeeds
<1>5. /\ StartSpeed \in Nat /\ First.mm \in Nat /\ PlannedExit \in Nat
      /\ t \in Entries /\ block_buffer \in Queues /\ d \in Nat
  BY <1>2, Facts, HoldFacts DEF IInv, Types
<1>6. u \in Entries /\ u # t
  <2>1. /\ u = Index(t, 1) /\ Last \in Nat
        /\ \A k \in 1 .. Last + 1 : Index(t, k) # t
    BY <1>2, Facts
  <2>2. 1 \in 1 .. Last + 1
    BY <2>1
  <2> QED
    BY <1>5, <2>1, <2>2, NextOf
<1>7. /\ Entered \in Queues /\ Entered[u] = block_buffer[u]
      /\ Entered[t].mm = First.mm
  BY <1>5, <1>6 DEF Entered, Queues, First
<1>8. block_buffer'[u] = block_buffer[u] /\ block_buffer'[t].mm = First.mm - d
  BY <1>1, <1>5, <1>6, <1>7 DEF Queues
<1>9. PlannedExit' = PlannedExit
  <2>1. block_buffer_tail' = t /\ block_buffer_head' = block_buffer_head
    BY <1>1
  <2> QED
    BY <1>8, <2>1 DEF PlannedExit
<1>10. First'.mm = First.mm - d
  BY <1>1, <1>8 DEF First
<1>11. SpeedNow' = StartSpeed - d
  BY <1>1, <1>3 DEF SpeedNow, SpeedAfter
<1>12. SpeedNow' <= PlannedExit' + First'.mm
  BY <1>4, <1>5, <1>9, <1>10, <1>11
<1> QED
  BY <1>1, <1>4, <1>9, <1>12 DEF HoldBrakes

LEMMA BlockEndBrakes ==
  ASSUME IInv, HoldBrakes, Between, PrepBlockEnd
  PROVE  HoldBrakes' /\ Between'
<1> DEFINE t == block_buffer_tail
           u == Index(t, 1)
           v == plan_next_block_index(u)
<1>1. /\ ~Empty /\ sys_state \in {"CYCLE", "HOLD"}
      /\ loaded' = FALSE /\ partial' = FALSE /\ exit_speed' = ExitSpeed
      /\ block_buffer' = [Entered EXCEPT ![t] = Discarded(@)]
      /\ block_buffer_tail' = plan_next_block_index(t)
      /\ UNCHANGED <<sys_state, block_buffer_head>>
  BY DEF PrepBlockEnd, Preparing, DiscardCurrentBlock, IInv, Types
<1>2. ExitSpeed <= PlannedExit
  <2>1. CASE sys_state = "HOLD"
    BY <1>1, <2>1, HoldSpeeds
  <2>2. CASE sys_state = "CYCLE"
    <3>1. ExitSpeed = PlannedExit /\ PlannedExit \in Nat
      BY <1>1, <2>2, FirstExit, HoldFacts
    <3> QED
      BY <3>1
  <2> QED
    BY <1>1, <2>1, <2>2
<1>3. /\ Last \in Nat /\ Last + 1 < BLOCK_BUFFER_SIZE
      /\ block_buffer_head = Index(t, Last + 1)
      /\ plan_next_block_index(t) = u /\ (u = block_buffer_head <=> Last = 0)
      /\ PlannedExit = IF Last = 0 THEN 0 ELSE Block(1).entry
      /\ t \in Entries /\ block_buffer \in Queues
  BY <1>1, Facts DEF IInv, Types
<1>4. /\ \A k \in 0 .. Last + 1 : k \in Entries /\ Index(t, k) \in Entries
      /\ \A k \in 1 .. Last + 1 : Index(t, k) # t
      /\ \A k \in 0 .. Last : Block(k) = block_buffer[Index(t, k)]
      /\ \A k \in 0 .. Last : Index(t, k) # block_buffer_head
  BY <1>1, Facts
<1>5. Empty' <=> Last = 0
  BY <1>1, <1>3 DEF Empty
<1>6. CASE Last = 0
  BY <1>1, <1>2, <1>3, <1>5, <1>6 DEF HoldBrakes, Between
<1>7. CASE Last # 0
  <2>1. /\ 1 \in 0 .. Last /\ 1 \in 1 .. Last /\ 1 \in 1 .. Last + 1
        /\ (Last # 1 => 2 \in 0 .. Last /\ 2 \in 1 .. Last + 1) /\ 2 \in 1 .. Last + 1
        /\ 1 < Last <=> Last # 1
        /\ 2 \in 0 .. Last + 1 /\ 1 \in 0 .. Last + 1
    BY <1>3, <1>7
  <2>2. \A i \in Entries : i # t => block_buffer'[i] = block_buffer[i]
    <3>1. \A i \in Entries : i # t => Entered[i] = block_buffer[i]
      BY <1>3 DEF Entered, Queues
    <3>2. DOMAIN Entered = Entries
      BY <1>3 DEF Entered, Queues
    <3> QED
      BY <1>1, <3>1, <3>2
  <2>3. v = Index(t, 2)
    <3>1. u \in Entries /\ 1 \in Entries /\ 1 + 1 = 2 /\ 1 + 1 < BLOCK_BUFFER_SIZE
      <4>1. 2 \in Entries
        BY <1>4, <2>1
      <4> QED
        BY <1>4, <2>1, <4>1, PlannerAssumption DEF Entries
    <3>2. v = Index(u, 1)
      BY <3>1, NextOf
    <3>3. Index(u, 1) = Index(t, 1 + 1)
      BY <1>3, <3>1, IndexIndex
    <3> QED
      BY <3>1, <3>2, <3>3
  <2>4. First' = Block(1)
    BY <1>1, <1>3, <1>4, <2>1, <2>2 DEF First
  <2>5. PlannedExit' = IF Last = 1 THEN 0 ELSE Block(2).entry
    <3>1. PlannedExit' = IF v = block_buffer_head THEN 0 ELSE block_buffer'[v].entry
      BY <1>1, <1>3 DEF PlannedExit
    <3>2. CASE Last = 1
      <4>1. v = block_buffer_head
        BY <1>3, <2>3, <3>2
      <4> QED
        BY <3>1, <3>2, <4>1
    <3>3. CASE Last # 1
      <4>1. v # block_buffer_head /\ block_buffer'[v] = Block(2)
        BY <1>4, <2>1, <2>2, <2>3, <3>3
      <4> QED
        BY <3>1, <3>3, <4>1
    <3> QED
      BY <3>2, <3>3
  <2>6. exit_speed' <= First'.entry
    BY <1>1, <1>2, <1>3, <1>7, <2>4
  <2>7. Block(1).entry <= PlannedExit' + Block(1).mm
    <3>1. /\ 1 < Last => Block(1).entry <= Block(2).entry + Block(1).mm
          /\ 1 = Last => Block(1).entry <= Block(1).mm
      <4>1. 1 + 1 = 2
        OBVIOUS
      <4> QED
        BY <1>4, <2>1, <4>1 DEF IInv, Braking, BrakingOf
    <3>2. Block(1).mm \in Nat
      BY <1>1, <2>1, Facts
    <3> QED
      BY <1>3, <2>1, <2>5, <3>1, <3>2
  <2>8. SpeedNow' = Block(1).entry
    BY <1>1, <2>4 DEF SpeedNow
  <2> QED
    BY <1>1, <1>5, <1>7, <2>4, <2>6, <2>7, <2>8 DEF HoldBrakes, Between
<1> QED
  BY <1>6, <1>7

LEMMA HoldStep ==
  IInv /\ HoldBrakes /\ Between /\ [Next]_vars => HoldBrakes' /\ Between'
<1> SUFFICES ASSUME IInv, HoldBrakes, Between, [Next]_vars PROVE HoldBrakes' /\ Between'
  OBVIOUS
<1>1. ASSUME NEW mm \in Lengths, NEW nominal \in NominalSpeeds, NEW junction \in JunctionSpeeds,
             PlanBufferLine(mm, nominal, junction)
      PROVE  HoldBrakes' /\ Between'
  <2>1. sys_state' # "HOLD"
    BY <1>1 DEF PlanBufferLine
  <2> QED
    BY <1>1, <2>1, LineBetween DEF HoldBrakes
<1>2. CASE CycleStart \/ CycleStop \/ UNCHANGED vars
  <2>1. UNCHANGED <<block_buffer, block_buffer_head, block_buffer_tail, loaded, partial,
                    current_speed, exit_speed>>
    BY <1>2 DEF CycleStart, CycleStop, prepVars, vars
  <2>2. sys_state' = "HOLD" => sys_state = "HOLD"
    BY <1>2 DEF CycleStart, CycleStop, vars
  <2>3. First' = First /\ PlannedExit' = PlannedExit /\ Empty' = Empty /\ SpeedNow' = SpeedNow
    BY <2>1 DEF First, PlannedExit, Empty, SpeedNow
  <2> QED
    BY <2>1, <2>2, <2>3 DEF HoldBrakes, Between
<1>3. CASE FeedHold
  BY <1>3, HoldBegins
<1>4. CASE Reset
  BY <1>4 DEF Reset, HoldBrakes, Between, Empty
<1>5. CASE PrepSegment
  BY <1>5, SegmentBrakes
<1>6. CASE PrepBlockEnd
  BY <1>6, BlockEndBrakes
<1>7. CASE PrepHoldEnd
  <2>1. loaded' = FALSE /\ partial' = TRUE /\ current_speed' = 0
    BY <1>7 DEF PrepHoldEnd
  <2>2. First'.mm \in Nat /\ PlannedExit' \in Nat
    BY <1>7, PrepHoldEndInv, HoldTypesNext DEF HoldTypes
  <2>3. SpeedNow' = 0
    BY <2>1 DEF SpeedNow
  <2> QED
    BY <2>1, <2>2, <2>3 DEF HoldBrakes, Between
<1> QED
  BY <1>1, <1>2, <1>3, <1>4, <1>5, <1>6, <1>7 DEF Next

\* While st_prep_buffer() prepares a hold, it can brake to the planned speed of
\* the next junction, or to rest behind the last block, within the block, and
\* leaves the block no faster.
HoldWithinPlan ==
  sys_state = "HOLD" /\ Preparing =>
    StartSpeed <= PlannedExit + First.mm /\ ExitSpeed <= PlannedExit

(***************************************************************************)
(* A feed hold, given at any time and for any plan, stops the machine no   *)
(* later than the end of what is queued: block after block it is left no   *)
(* faster than planner_recalculate() had planned, and the last at rest.    *)
(***************************************************************************)
THEOREM HoldStopsInTime == Spec => []HoldWithinPlan
<1>1. Init => IInv /\ HoldBrakes /\ Between
  <2>1. Init => HoldBrakes /\ Between
    BY DEF Init, HoldBrakes, Between, Empty
  <2> QED
    BY <2>1, Initially
<1>2. IInv /\ HoldBrakes /\ Between /\ [Next]_vars => (IInv /\ HoldBrakes /\ Between)'
  BY StepInv, HoldStep
<1>3. IInv /\ HoldBrakes /\ Between => HoldWithinPlan
  BY HoldSpeeds DEF HoldWithinPlan, Preparing
<1> QED
  BY <1>1, <1>2, <1>3, PTL DEF Spec
=============================================================================
