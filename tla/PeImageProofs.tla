---------------------------- MODULE PeImageProofs ----------------------------
(***************************************************************************)
(* Lemmas about the operators of PeImage, for every page size, alignment   *)
(* and section table.                                                      *)
(***************************************************************************)
EXTENDS PeImage, FiniteSetTheorems, WellFoundedInduction, TLAPS

LEMMA Division ==
    ASSUME NEW a \in Nat, NEW n \in Nat \ {0}
    PROVE  /\ a \div n \in Nat
           /\ (a \div n) * n <= a
           /\ a < (a \div n) * n + n
  BY SMTT(60)

LEMMA Remainder ==
    ASSUME NEW a \in Nat, NEW n \in Nat \ {0}
    PROVE  /\ a % n \in Nat /\ a % n < n
           /\ a = (a \div n) * n + (a % n)
  BY SMTT(60)

LEMMA DivisionUnique ==
    ASSUME NEW q \in Nat, NEW n \in Nat \ {0}, NEW r \in Nat, r < n
    PROVE  (q * n + r) \div n = q
  BY SMTT(60)

LEMMA Cancels ==
    ASSUME NEW a \in Nat, NEW b \in Nat, NEW n \in Nat \ {0}, a * n < b * n
    PROVE  a < b
  BY SMTT(60)

LEMMA MultipleOf ==
    ASSUME NEW n \in Nat \ {0}, NEW a \in Nat, a % n = 0, NEW k \in Nat
    PROVE  (k * a) % n = 0
  <1> DEFINE q == a \div n
  <1>1. q \in Nat /\ q * n <= a /\ a < q * n + n
    BY Division
  <1>2. a = q * n + (a % n)
    BY Remainder
  <1>3. a = q * n
    BY <1>1, <1>2
  <1>4. k * a = (k * q) * n /\ k * q \in Nat
    <2> HIDE DEF q
    <2> QED BY <1>1, <1>3
  <1> HIDE DEF q
  <1>5. ((k * q) * n) \div n = k * q
    <2>1. (k * q) * n + 0 = (k * q) * n
      BY <1>1, <1>4
    <2>2. ((k * q) * n + 0) \div n = k * q
      BY <1>4, DivisionUnique
    <2> QED BY <2>1, <2>2
  <1> DEFINE m == k * q
  <1>6. m \in Nat /\ (m * n) \div n = m /\ k * a = m * n
    BY <1>4, <1>5
  <1> HIDE DEF m
  <1>7. (m * n) % n = 0
    <2>1. m * n \in Nat
      BY <1>6
    <2>2. m * n = ((m * n) \div n) * n + ((m * n) % n)
      BY <2>1, Remainder
    <2>3. (m * n) % n \in Nat
      BY <2>1, Remainder
    <2> QED BY <1>6, <2>1, <2>2, <2>3
  <1> QED BY <1>6, <1>7

LEMMA SumOfMultiples ==
    ASSUME NEW n \in Nat \ {0}, NEW a \in Nat, a % n = 0, NEW b \in Nat, b % n = 0
    PROVE  (a + b) % n = 0
  <1> DEFINE p == a \div n
             q == b \div n
  <1>1. p \in Nat /\ q \in Nat
    BY Division
  <1>2. a = p * n + (a % n)
    BY Remainder
  <1>3. b = q * n + (b % n)
    BY Remainder
  <1> HIDE DEF p, q
  <1> DEFINE m == p + q
  <1>4. m \in Nat /\ a + b = m * n + 0
    BY <1>1, <1>2, <1>3
  <1> HIDE DEF m
  <1> DEFINE c == a + b
  <1>5. c \in Nat /\ c = m * n + 0 /\ m * n \in Nat
    BY <1>4
  <1> HIDE DEF c
  <1>6. (m * n + 0) \div n = m
    BY <1>4, DivisionUnique
  <1>7. c = (c \div n) * n + (c % n) /\ c % n \in Nat
    BY <1>5, Remainder
  <1>8. c \div n = m
    BY <1>5, <1>6
  <1>9. c % n = 0
    <2> DEFINE d == m * n
               r == c % n
    <2>1. c = d + r /\ c = d + 0 /\ d \in Nat /\ r \in Nat
      BY <1>5, <1>7, <1>8
    <2> HIDE DEF d, r
    <2>2. r = 0
      BY <2>1
    <2> QED BY <2>2 DEF r
  <1> QED BY <1>9 DEF c

LEMMA RoundUpBounds ==
    ASSUME NEW v \in Nat, NEW align \in Nat \ {0}
    PROVE  /\ RoundUp(v, align) \in Nat
           /\ v <= RoundUp(v, align)
           /\ RoundUp(v, align) < v + align
  <1> DEFINE q == (v + align - 1) \div align
  <1>1. v + align - 1 \in Nat
    OBVIOUS
  <1>2. q \in Nat /\ q * align <= v + align - 1 /\ v + align - 1 < q * align + align
    BY <1>1, Division
  <1>3. q * align \in Nat
    BY <1>2
  <1>4. RoundUp(v, align) = q * align
    BY DEF RoundUp
  <1> HIDE DEF q
  <1> QED BY <1>2, <1>3, <1>4

-----------------------------------------------------------------------------
(* devirt.rs.                                                              *)

LEMMA RoundUpReaches ==
    ASSUME NEW v \in Nat \ {0}, NEW align \in Nat \ {0}
    PROVE  align <= RoundUp(v, align)
  <1> DEFINE w == v + align - 1
             q == w \div align
  <1>1. w \in Nat /\ align <= w
    OBVIOUS
  <1> HIDE DEF w
  <1>2. q \in Nat /\ w < q * align + align
    BY <1>1, Division
  <1> HIDE DEF q
  <1>3. q # 0
    BY <1>1, <1>2
  <1>4. align <= q * align
    <2>1. PICK p \in Nat : q = p + 1
      <3>1. q - 1 \in Nat /\ q = (q - 1) + 1
        BY <1>2, <1>3
      <3> QED BY <3>1
    <2>2. q * align = p * align + align /\ p * align \in Nat
      BY <2>1
    <2> QED BY <2>2
  <1> QED BY <1>4 DEF RoundUp, q, w

LEMMA AlignedSection ==
    ASSUME NEW soi \in Nat, NEW align \in Nat \ {0}, NEW h, h.soi = soi, h.align = align,
           NEW s \in SectionHeaders
    PROVE  LET t == AlignSection(h, s)
           IN  /\ t \in SectionHeaders
               /\ t.va = s.va /\ t.vsize = s.vsize /\ t.raw = s.va
               /\ s.va <= soi => t.raw + t.rawsize <= soi
               /\ s.va > soi => t.rawsize = 0
               /\ s.va + s.vsize <= soi => t.rawsize >= s.vsize
  <1> DEFINE t == AlignSection(h, s)
             r == RoundUp(s.vsize, align)
             room == Monus(soi, s.va)
  <1>1. s.va \in Nat /\ s.vsize \in Nat
    BY DEF SectionHeaders
  <1>2. r \in Nat /\ s.vsize <= r
    BY <1>1, RoundUpBounds
  <1>3. /\ room \in Nat
        /\ s.va <= soi => room = soi - s.va
        /\ s.va > soi => room = 0
    BY <1>1 DEF Monus
  <1>4. t = [s EXCEPT !.raw = s.va, !.rawsize = Least(r, room)]
    BY DEF AlignSection
  <1> HIDE DEF r, room
  <1>5. /\ Least(r, room) \in Nat /\ Least(r, room) <= room
        /\ Least(r, room) \in {r, room}
    BY <1>2, <1>3 DEF Least
  <1>6. /\ t \in SectionHeaders /\ t.va = s.va /\ t.vsize = s.vsize
        /\ t.raw = s.va /\ t.rawsize = Least(r, room)
    BY <1>1, <1>4, <1>5 DEF SectionHeaders
  <1> QED BY <1>1, <1>2, <1>3, <1>5, <1>6

(***************************************************************************)
(* memory_align makes file offset and RVA of every section equal and lets  *)
(* none claim bytes behind the image; one that lies within the image keeps *)
(* all its bytes (devirt.rs:20-26).                                        *)
(***************************************************************************)
THEOREM AlignedWithinImage ==
    ASSUME NEW h \in Headers, h.align # 0,
           NEW i \in DOMAIN h.secs
    PROVE  LET s == h.secs[i]
               t == MemoryAlign(h).secs[i]
           IN  /\ t.raw = t.va /\ t.va = s.va /\ t.vsize = s.vsize
               /\ s.va <= h.soi => t.raw + t.rawsize <= h.soi
               /\ s.va > h.soi => t.rawsize = 0
               /\ s.va + s.vsize <= h.soi => t.rawsize >= s.vsize
  <1>1. h.secs[i] \in SectionHeaders /\ h.soi \in Nat /\ h.align \in Nat \ {0}
    BY DEF Headers
  <1>2. MemoryAlign(h).secs = [j \in DOMAIN h.secs |-> AlignSection(h, h.secs[j])]
    BY DEF MemoryAlign, Headers
  <1>3. MemoryAlign(h).secs[i] = AlignSection(h, h.secs[i])
    BY <1>2
  <1> QED BY <1>1, <1>3, AlignedSection

-----------------------------------------------------------------------------
(* Numbers and finite sets of them.                                        *)

LEMMA LeastOf ==
    ASSUME NEW T \in SUBSET Nat, T # {}
    PROVE  \E n \in T : \A m \in T : n <= m
  <1>1. \E n \in T : \A m \in T : <<m, n>> \notin OpToRel(<, Nat)
    BY NatLessThanWellFounded, WFMin
  <1>2. ASSUME NEW m \in Nat, NEW n \in Nat, m < n PROVE <<m, n>> \in OpToRel(<, Nat)
    BY <1>2, Zenon DEF OpToRel
  <1>3. PICK n \in T : \A m \in T : <<m, n>> \notin OpToRel(<, Nat)
    BY <1>1, Zenon
  <1>4. \A m \in T : ~(m < n)
    BY <1>2, <1>3, Zenon
  <1> QED BY <1>4

LEMMA GreatestOf ==
    ASSUME NEW T \in SUBSET Nat, T # {}, NEW b \in Nat, \A m \in T : m <= b
    PROVE  \E n \in T : \A m \in T : m <= n
  <1> DEFINE U == {b - m : m \in T}
  <1>1. \A m \in T : m \in Nat /\ b - m \in Nat
    OBVIOUS
  <1>a. U \in SUBSET Nat /\ U # {}
    BY <1>1
  <1>2. PICK u \in U : \A v \in U : u <= v
    BY <1>a, LeastOf
  <1>3. PICK n \in T : u = b - n
    OBVIOUS
  <1>4. \A m \in T : b - n <= b - m
    BY <1>2, <1>3
  <1>5. \A m \in T : m <= n
    BY <1>1, <1>4
  <1> QED BY <1>5

LEMMA BoundedFinite ==
    ASSUME NEW b \in Nat, NEW S, \A a \in S : a \in Nat /\ a <= b
    PROVE  IsFiniteSet(S)
  <1>1. S \subseteq 0 .. b
    OBVIOUS
  <1>2. IsFiniteSet(0 .. b)
    BY FS_Interval
  <1> QED BY <1>1, <1>2, FS_Subset

(***************************************************************************)
(* InOrder lists a set once, in ascending order.                           *)
(***************************************************************************)
LEMMA RankExists ==
    ASSUME NEW S \in SUBSET Nat, IsFiniteSet(S), NEW k \in 1 .. Cardinality(S)
    PROVE  \E a \in S : Cardinality({b \in S : b < a}) = k - 1
  <1> DEFINE Ranked(j) == \E a \in S : Cardinality({b \in S : b < a}) = j - 1
             T == {j \in 1 .. Cardinality(S) : ~Ranked(j)}
  <1>0. Cardinality(S) \in Nat
    BY FS_CardinalityType
  <1>1. SUFFICES ASSUME T # {} PROVE FALSE
    OBVIOUS
  <1>2. T \in SUBSET Nat
    BY <1>0
  <1>3. PICK j \in T : \A i \in T : j <= i
    BY <1>1, <1>2, LeastOf
  <1>4. j \in Nat /\ 1 <= j /\ j <= Cardinality(S) /\ ~Ranked(j)
    BY <1>0, <1>3
  <1>5. CASE j = 1
    <2>1. S # {}
      BY <1>0, <1>4, <1>5, FS_EmptySet
    <2>2. PICK a \in S : \A b \in S : a <= b
      BY <2>1, LeastOf
    <2>a. \A b \in S : b \in Nat /\ a \in Nat
      OBVIOUS
    <2>b. \A b \in S : ~(b < a)
      BY <2>2, <2>a
    <2>3. {b \in S : b < a} = {}
      BY <2>b
    <2>4. Cardinality({b \in S : b < a}) = j - 1
      BY <1>5, <2>3, FS_EmptySet
    <2> QED BY <1>4, <2>4
  <1>6. CASE j > 1
    <2>1. j - 1 \in 1 .. Cardinality(S) /\ j - 1 < j
      BY <1>0, <1>4, <1>6
    <2>2. j - 1 \notin T
      BY <1>3, <1>4, <2>1
    <2>3. PICK a \in S : Cardinality({b \in S : b < a}) = j - 1 - 1
      BY <2>1, <2>2
    <2> DEFINE L == {b \in S : b < a}
               M == {b \in S : b <= a}
               U == {b \in S : b > a}
    <2>a. \A b \in S : b \in Nat
      OBVIOUS
    <2>d. L \subseteq S /\ a \notin L
      BY <2>a
    <2>e. \A b \in S : b <= a <=> (b < a \/ b = a)
      BY <2>a
    <2>4. L \subseteq S /\ a \notin L /\ M = L \cup {a}
      BY <2>d, <2>e
    <2>b. IsFiniteSet(L)
      BY <2>4, FS_Subset
    <2>c. Cardinality(M) = Cardinality(L) + 1 /\ IsFiniteSet(M)
      <3> HIDE DEF L, M
      <3> QED BY <2>4, <2>b, FS_AddElement
    <2>5. Cardinality(M) = j - 1 /\ IsFiniteSet(M)
      <3> HIDE DEF L, M
      <3> QED BY <1>4, <2>3, <2>c DEF L
    <2>6. U # {}
      <3>1. CASE U = {}
        <4>1. \A b \in S : ~(b > a)
          BY <3>1
        <4>2. \A b \in S : b <= a
          BY <2>a, <4>1
        <4>3. M = S
          BY <4>2
        <4> HIDE DEF M
        <4> QED BY <1>0, <1>4, <2>5, <4>3
      <3> QED BY <3>1
    <2>7. PICK c \in U : \A b \in U : c <= b
      <3>1. U \in SUBSET Nat
        OBVIOUS
      <3> QED BY <2>6, <3>1, LeastOf
    <2>8. c \in S /\ {b \in S : b < c} = M
      <3>1. c \in S /\ c > a
        BY <2>7
      <3>2. \A b \in S : b > a => c <= b
        BY <2>7
      <3>3. \A b \in S : b < c <=> b <= a
        BY <2>a, <3>1, <3>2
      <3> QED BY <3>1, <3>3
    <2>9. Cardinality({b \in S : b < c}) = j - 1
      BY <2>5, <2>8
    <2> QED BY <1>4, <2>8, <2>9
  <1> QED BY <1>4, <1>5, <1>6

LEMMA InOrderLists ==
    ASSUME NEW S \in SUBSET Nat, IsFiniteSet(S)
    PROVE  /\ Cardinality(S) \in Nat
           /\ \A k \in 1 .. Cardinality(S) : InOrder(S)[k] \in S
           /\ \A j, k \in 1 .. Cardinality(S) : j < k => InOrder(S)[j] < InOrder(S)[k]
           /\ \A a \in S : \E k \in 1 .. Cardinality(S) : InOrder(S)[k] = a
  <1> DEFINE n == Cardinality(S)
             Below(a) == {b \in S : b < a}
             f == InOrder(S)
  <1>0. n \in Nat
    BY FS_CardinalityType
  <1>1. ASSUME NEW a \in S
        PROVE  IsFiniteSet(Below(a)) /\ Cardinality(Below(a)) \in Nat
    BY FS_Subset, FS_CardinalityType
  <1>2. ASSUME NEW k \in 1 .. n
        PROVE  f[k] \in S /\ Cardinality(Below(f[k])) = k - 1
    <2>1. f[k] = CHOOSE a \in S : Cardinality(Below(a)) = k - 1
      BY DEF InOrder
    <2>2. \E a \in S : Cardinality(Below(a)) = k - 1
      BY RankExists
    <2> HIDE DEF Below, f
    <2> QED BY <2>1, <2>2
  <1>3. ASSUME NEW a \in S, NEW c \in S, a < c
        PROVE  Cardinality(Below(a)) < Cardinality(Below(c))
    <2>a. \A b \in S : b \in Nat
      OBVIOUS
    <2>b. \A b \in S : b < a => b < c
      BY <1>3, <2>a
    <2>c. ~(a < a)
      BY <2>a
    <2>1. Below(a) \cup {a} \subseteq Below(c) /\ a \notin Below(a)
      BY <1>3, <2>b, <2>c
    <2>2. Cardinality(Below(a) \cup {a}) = Cardinality(Below(a)) + 1
      BY <1>1, <2>1, FS_AddElement
    <2>3. Cardinality(Below(a) \cup {a}) <= Cardinality(Below(c))
      BY <1>1, <2>1, FS_Subset
    <2> HIDE DEF Below
    <2> QED BY <1>1, <2>2, <2>3
  <1>4. ASSUME NEW j \in 1 .. n, NEW k \in 1 .. n, j < k PROVE f[j] < f[k]
    <2> HIDE DEF f, Below, n
    <2>1. f[j] \in S /\ f[k] \in S
      BY <1>2
    <2>2. f[j] \in Nat /\ f[k] \in Nat
      BY <2>1
    <2>3. Cardinality(Below(f[j])) < Cardinality(Below(f[k]))
      BY <1>0, <1>2, <1>4
    <2>4. ~(f[k] < f[j])
      <3>1. CASE f[k] < f[j]
        <4>1. Cardinality(Below(f[k])) < Cardinality(Below(f[j]))
          BY <1>3, <2>1, <3>1
        <4>2. Cardinality(Below(f[k])) \in Nat /\ Cardinality(Below(f[j])) \in Nat
          BY <1>1, <2>1
        <4> QED BY <2>3, <4>1, <4>2
      <3> QED BY <3>1
    <2>5. f[k] # f[j]
      <3>1. CASE f[k] = f[j]
        <4>1. Cardinality(Below(f[j])) < Cardinality(Below(f[j]))
          BY <2>3, <3>1
        <4>2. Cardinality(Below(f[j])) \in Nat
          BY <1>1, <2>1
        <4> QED BY <4>1, <4>2
      <3> QED BY <3>1
    <2> QED BY <2>2, <2>4, <2>5
  <1>5. ASSUME NEW a \in S PROVE \E k \in 1 .. n : f[k] = a
    <2> DEFINE k == Cardinality(Below(a)) + 1
    <2>1. Below(a) \subseteq S \ {a}
      OBVIOUS
    <2>2. IsFiniteSet(S \ {a}) /\ Cardinality(S \ {a}) = n - 1
      BY FS_RemoveElement
    <2>3. Cardinality(Below(a)) <= n - 1
      BY <2>1, <2>2, FS_Subset
    <2> HIDE DEF n, Below
    <2>4. k \in 1 .. n
      BY <1>0, <1>1, <2>3
    <2> HIDE DEF f, k
    <2>5. f[k] \in S /\ Cardinality(Below(f[k])) = k - 1
      BY <1>2, <2>4
    <2>6. Cardinality(Below(f[k])) = Cardinality(Below(a))
      BY <1>1, <2>5 DEF k
    <2>7. f[k] = a
      <3>1. f[k] \in Nat /\ a \in Nat
        BY <2>5
      <3>a. Cardinality(Below(a)) \in Nat
        BY <1>1
      <3>2. ~(f[k] < a)
        <4>1. CASE f[k] < a
          <5>1. Cardinality(Below(f[k])) < Cardinality(Below(a))
            BY <1>3, <2>5, <4>1
          <5> QED BY <2>6, <3>a, <5>1
        <4> QED BY <4>1
      <3>3. ~(a < f[k])
        <4>1. CASE a < f[k]
          <5>1. Cardinality(Below(a)) < Cardinality(Below(f[k]))
            BY <1>3, <2>5, <4>1
          <5> QED BY <2>6, <3>a, <5>1
        <4> QED BY <4>1
      <3> QED BY <3>1, <3>2, <3>3
    <2> QED BY <2>4, <2>7
  <1> QED BY <1>0, <1>2, <1>4, <1>5

-----------------------------------------------------------------------------
(* Cells, chunks and pages.                                                *)

LEMMA CellsAre ==
    ASSUME NEW base \in Nat, NEW len \in Nat, NEW a
    PROVE  a \in Cells(base, len) <=> a \in Nat /\ base <= a /\ a < base + len /\ a % Ptr = 0
  BY DEF Cells

LEMMA Multiples ==
    ASSUME NEW a
    PROVE  (a \in Nat /\ a % Ptr = 0) <=> \E q \in Nat : a = q * Ptr
  <1>1. Ptr \in Nat \ {0}
    BY PeImageAssumption
  <1>2. ASSUME a \in Nat, a % Ptr = 0 PROVE \E q \in Nat : a = q * Ptr
    <2>1. a = (a \div Ptr) * Ptr + (a % Ptr) /\ a \div Ptr \in Nat
      BY <1>1, <1>2, Remainder, Division
    <2> DEFINE q == a \div Ptr
    <2>2. q \in Nat /\ a = q * Ptr + 0
      BY <1>2, <2>1
    <2> HIDE DEF q
    <2>3. q * Ptr \in Nat
      BY <1>1, <2>2
    <2> QED BY <2>2, <2>3
  <1>3. ASSUME NEW q \in Nat PROVE q * Ptr \in Nat /\ (q * Ptr) % Ptr = 0
    <2>1. Ptr % Ptr = 0
      <3>1. (1 * Ptr + 0) \div Ptr = 1 /\ 1 * Ptr + 0 = Ptr
        <4>1. (1 * Ptr + 0) \div Ptr = 1
          BY <1>1, DivisionUnique
        <4> QED BY <1>1, <4>1
      <3>2. Ptr \div Ptr = 1
        BY <3>1
      <3>3. Ptr = (Ptr \div Ptr) * Ptr + (Ptr % Ptr) /\ Ptr % Ptr \in Nat
        BY <1>1, Remainder
      <3> QED BY <1>1, <3>2, <3>3
    <2>2. (q * Ptr) % Ptr = 0
      BY <1>1, <2>1, MultipleOf
    <2> QED BY <1>1, <2>2
  <1> QED BY <1>2, <1>3

(* Cells stand Ptr apart.                                                  *)
LEMMA CellGap ==
    ASSUME NEW a \in Nat, NEW b \in Nat, a % Ptr = 0, b % Ptr = 0
    PROVE  /\ (a + b) % Ptr = 0 /\ (a + Ptr) % Ptr = 0
           /\ a < b => /\ a + Ptr <= b
                       /\ b - a \in Nat /\ (b - a) % Ptr = 0
                       /\ b - Ptr \in Nat /\ (b - Ptr) % Ptr = 0
  <1>1. Ptr \in Nat \ {0}
    BY PeImageAssumption
  <1>2. PICK p \in Nat : a = p * Ptr
    BY Multiples
  <1>3. PICK q \in Nat : b = q * Ptr
    BY Multiples
  <1>4. a + b = (p + q) * Ptr /\ p + q \in Nat
    BY <1>1, <1>2, <1>3
  <1>5. a + Ptr = (p + 1) * Ptr /\ p + 1 \in Nat
    BY <1>1, <1>2
  <1>6. ASSUME a < b
        PROVE  /\ a + Ptr <= b
               /\ b - a \in Nat /\ (b - a) % Ptr = 0
               /\ b - Ptr \in Nat /\ (b - Ptr) % Ptr = 0
    <2>1. p < q
      BY <1>1, <1>2, <1>3, <1>6, Cancels
    <2>2. q - p - 1 \in Nat /\ q - p \in Nat /\ q - 1 \in Nat
      BY <2>1
    <2>3. b - a = (q - p) * Ptr /\ b - Ptr = (q - 1) * Ptr
      BY <1>1, <1>2, <1>3, <2>2
    <2>4. b - (a + Ptr) = (q - p - 1) * Ptr /\ (q - p - 1) * Ptr \in Nat
      BY <1>1, <1>2, <1>3, <2>2
    <2>5. a + Ptr <= b
      BY <1>1, <2>4
    <2> QED BY <1>1, <2>2, <2>3, <2>5, Multiples
  <1> QED BY <1>4, <1>5, <1>6, Multiples

LEMMA CellsFinite ==
    ASSUME NEW base \in Nat, NEW len \in Nat
    PROVE  IsFiniteSet(Cells(base, len))
  <1>1. \A a \in Cells(base, len) : a \in Nat /\ a <= base + len
    BY CellsAre
  <1> QED BY <1>1, BoundedFinite

(* The cells from a to z, counted.                                         *)
LEMMA CellsCounted ==
    ASSUME NEW a \in Nat, NEW z \in Nat, a % Ptr = 0, z % Ptr = 0, a <= z
    PROVE  LET n == (z - a) \div Ptr + 1
           IN  /\ n \in Nat \ {0} /\ a + (n - 1) * Ptr = z
               /\ \A i \in 1 .. n : a + (i - 1) * Ptr \in Cells(a, z - a + Ptr)
               /\ \A b \in Cells(a, z - a + Ptr) : \E i \in 1 .. n : b = a + (i - 1) * Ptr
  <1>1. Ptr \in Nat \ {0}
    BY PeImageAssumption
  <1>2. z - a \in Nat /\ (z - a) % Ptr = 0
    <2>1. CASE a < z
      BY <2>1, CellGap
    <2>2. CASE a = z
      <3>1. z - a = 0 * Ptr
        BY <1>1, <2>2
      <3>2. 0 * Ptr \in Nat /\ (0 * Ptr) % Ptr = 0
        BY Multiples
      <3> QED BY <3>1, <3>2
    <2> QED BY <2>1, <2>2
  <1>3. PICK q \in Nat : z - a = q * Ptr
    BY <1>2, Multiples
  <1>4. (z - a) \div Ptr = q
    <2>1. (q * Ptr + 0) \div Ptr = q /\ q * Ptr + 0 = q * Ptr
      <3>1. (q * Ptr + 0) \div Ptr = q
        BY <1>1, DivisionUnique
      <3> QED BY <1>1, <3>1
    <2> QED BY <1>3, <2>1
  <1> DEFINE n == (z - a) \div Ptr + 1
  <1>5. n = q + 1 /\ n \in Nat \ {0} /\ a + (n - 1) * Ptr = z
    BY <1>1, <1>3, <1>4
  <1> HIDE DEF n
  <1>6. ASSUME NEW i \in 1 .. n PROVE a + (i - 1) * Ptr \in Cells(a, z - a + Ptr)
    <2>1. i - 1 \in Nat /\ i - 1 <= q
      BY <1>5
    <2> DEFINE j == i - 1
    <2> HIDE DEF j
    <2>2. j \in Nat /\ j <= q
      BY <2>1 DEF j
    <2>3. j * Ptr \in Nat /\ (j * Ptr) % Ptr = 0
      BY <2>2, Multiples
    <2>4. j * Ptr <= q * Ptr
      <3>1. ~(q * Ptr < j * Ptr)
        BY <1>1, <2>2, Cancels
      <3> QED BY <1>1, <2>3, <3>1
    <2> DEFINE c == j * Ptr
    <2>a. c \in Nat /\ c % Ptr = 0 /\ c <= z - a
      BY <1>3, <2>3, <2>4
    <2>b. a + (i - 1) * Ptr = a + c
      BY DEF j
    <2> HIDE DEF c
    <2>5. a + c \in Nat /\ (a + c) % Ptr = 0
      BY <2>a, CellGap
    <2>6. a + c < a + (z - a + Ptr) /\ z - a + Ptr \in Nat /\ a <= a + c
      BY <1>1, <1>2, <2>a
    <2>7. a + c \in Cells(a, z - a + Ptr)
      BY <2>5, <2>6, CellsAre
    <2> QED BY <2>b, <2>7
  <1>7. ASSUME NEW b \in Cells(a, z - a + Ptr) PROVE \E i \in 1 .. n : b = a + (i - 1) * Ptr
    <2>1. z - a + Ptr \in Nat
      BY <1>1, <1>2
    <2>2. b \in Nat /\ a <= b /\ b < a + (z - a + Ptr) /\ b % Ptr = 0
      BY <2>1, CellsAre
    <2>3. b - a \in Nat /\ (b - a) % Ptr = 0
      <3>1. CASE a < b
        BY <2>2, <3>1, CellGap
      <3>2. CASE a = b
        <4>1. b - a = 0 * Ptr
          BY <1>1, <3>2
        <4>2. 0 * Ptr \in Nat /\ (0 * Ptr) % Ptr = 0
          BY Multiples
        <4> QED BY <4>1, <4>2
      <3> QED BY <2>2, <3>1, <3>2
    <2>4. PICK p \in Nat : b - a = p * Ptr
      BY <2>3, Multiples
    <2>5. p * Ptr < (q + 1) * Ptr
      BY <1>1, <1>3, <2>2, <2>4
    <2>6. p < q + 1
      BY <1>1, <2>5, Cancels
    <2>7. p + 1 \in 1 .. n /\ b = a + (p + 1 - 1) * Ptr
      BY <1>1, <1>5, <2>2, <2>4, <2>6
    <2> QED BY <2>7
  <1> QED BY <1>5, <1>6, <1>7 DEF n

(* The chunks of a read from address 0 are the pages it touches.           *)
LEMMA ChunksAre ==
    ASSUME NEW len \in Nat
    PROVE  /\ IsFiniteSet(Chunks(len)) /\ Cardinality(Chunks(len)) \in Nat
           /\ \A k : k \in Chunks(len) <=> k \in Nat /\ k * PageSize < len
           /\ \A k : k \in Chunks(len) <=> k \in Nat /\ k + 1 <= Cardinality(Chunks(len))
  <1> DEFINE d == (len + PageSize - 1) \div PageSize
  <1>1. PageSize \in Nat \ {0} /\ len + PageSize - 1 \in Nat
    BY PeImageAssumption
  <1>2. /\ d \in Nat /\ d * PageSize <= len + PageSize - 1
        /\ len + PageSize - 1 < d * PageSize + PageSize
    BY <1>1, Division
  <1>3. Chunks(len) = 0 .. (d - 1)
    BY DEF Chunks
  <1> HIDE DEF d
  <1>4. IsFiniteSet(Chunks(len)) /\ Cardinality(Chunks(len)) = d
    <2>1. CASE d = 0
      <3>1. 0 .. (d - 1) = {}
        BY <2>1
      <3> QED BY <1>3, <2>1, <3>1, FS_EmptySet
    <2>2. CASE d # 0
      <3>1. d - 1 \in Int /\ 0 <= d - 1
        BY <1>2, <2>2
      <3>2. IsFiniteSet(0 .. (d - 1)) /\ Cardinality(0 .. (d - 1)) = IF 0 > d - 1 THEN 0 ELSE (d - 1) - 0 + 1
        BY <3>1, FS_Interval
      <3> QED BY <1>2, <1>3, <3>1, <3>2
    <2> QED BY <2>1, <2>2
  <1>5. ASSUME NEW k \in Nat PROVE k < d <=> k * PageSize < len
    <2>1. k * PageSize \in Nat /\ d * PageSize \in Nat
      BY <1>1, <1>2
    <2>2. CASE k < d
      <3>1. ~(d * PageSize < (k + 1) * PageSize)
        BY <1>1, <1>2, <2>2, Cancels
      <3>2. (k + 1) * PageSize = k * PageSize + PageSize
        BY <1>1
      <3>3. k * PageSize + PageSize <= d * PageSize
        BY <1>1, <2>1, <3>1, <3>2
      <3> QED BY <1>1, <1>2, <2>1, <2>2, <3>3
    <2>3. CASE k * PageSize < len
      <3>1. k * PageSize < d * PageSize
        BY <1>1, <1>2, <2>1, <2>3
      <3>2. k < d
        BY <1>1, <1>2, <3>1, Cancels
      <3> QED BY <2>3, <3>2
    <2> QED BY <2>2, <2>3
  <1> QED BY <1>2, <1>3, <1>4, <1>5

LEMMA PageOf ==
    ASSUME NEW a \in Nat
    PROVE  /\ Page(a) \in Nat /\ Page(a) * PageSize <= a
           /\ a < Page(a) * PageSize + PageSize
           /\ \A k \in Nat : (k * PageSize <= a /\ a < k * PageSize + PageSize) => Page(a) = k
  <1>1. PageSize \in Nat \ {0}
    BY PeImageAssumption
  <1>2. ASSUME NEW k \in Nat, k * PageSize <= a, a < k * PageSize + PageSize
        PROVE  Page(a) = k
    <2> DEFINE r == a - k * PageSize
    <2>1. k * PageSize \in Nat
      BY <1>1
    <2>2. r \in Nat /\ r < PageSize /\ a = k * PageSize + r
      BY <1>1, <1>2, <2>1
    <2> HIDE DEF r
    <2>3. (k * PageSize + r) \div PageSize = k
      BY <1>1, <2>2, DivisionUnique
    <2> QED BY <2>2, <2>3 DEF Page
  <1> QED BY <1>1, <1>2, Division DEF Page

LEMMA PageIsChunk ==
    ASSUME NEW len \in Nat, NEW a \in Cells(0, len)
    PROVE  Page(a) \in Chunks(len)
  <1>1. a \in Nat /\ a < len
    BY CellsAre
  <1>2. PageSize \in Nat
    BY PeImageAssumption
  <1>3. Page(a) \in Nat /\ Page(a) * PageSize <= a
    BY <1>1, PageOf
  <1>4. Page(a) * PageSize \in Nat
    BY <1>2, <1>3
  <1>5. Page(a) * PageSize < len
    BY <1>1, <1>3, <1>4
  <1> QED BY <1>3, <1>5, ChunksAre

LEMMA ChunkIsPage ==
    ASSUME NEW len \in Nat, NEW k \in Chunks(len)
    PROVE  k \in Nat /\ k * PageSize \in Cells(0, len) /\ Page(k * PageSize) = k
  <1>1. PageSize \in Nat \ {0} /\ Ptr \in Nat \ {0} /\ PageSize % Ptr = 0
    BY PeImageAssumption
  <1>2. k \in Nat /\ k * PageSize < len
    BY ChunksAre
  <1>3. k * PageSize \in Nat
    BY <1>1, <1>2
  <1>4. (k * PageSize) % Ptr = 0
    BY <1>1, <1>2, MultipleOf
  <1>5. k * PageSize \in Cells(0, len)
    BY <1>2, <1>3, <1>4, CellsAre
  <1>6. Page(k * PageSize) = k
    BY <1>1, <1>2, <1>3, PageOf
  <1> QED BY <1>2, <1>5, <1>6

(* Chunk k is read exactly if page k can be, and holds the cells of page k. *)
LEMMA ChunkRead ==
    ASSUME NEW bad, NEW len \in Nat, NEW k \in Chunks(len)
    PROVE  /\ ReadsChunk(bad, 0, len, k) <=> k \notin bad
           /\ \A a : a \in Cells(k * PageSize, ChunkLength(len, k))
                       <=> a \in Cells(0, len) /\ Page(a) = k
  <1> DEFINE b == k * PageSize
             c == ChunkLength(len, k)
  <1>1. PageSize \in Nat \ {0}
    BY PeImageAssumption
  <1>2. k \in Nat /\ b < len /\ Page(b) = k
    BY ChunksAre, ChunkIsPage
  <1>3. b \in Nat
    BY <1>1, <1>2
  <1>4. c = Least(PageSize, len - b)
    BY DEF ChunkLength
  <1> HIDE DEF b, c
  <1>5. c \in Nat /\ 1 <= c /\ c <= PageSize /\ b + c <= len /\ c \in {PageSize, len - b}
    BY <1>1, <1>2, <1>3, <1>4 DEF Least
  <1>6. Page(b + c - 1) = k
    <2>1. b + c - 1 \in Nat /\ b <= b + c - 1 /\ b + c - 1 < b + PageSize
      BY <1>1, <1>3, <1>5
    <2>2. \A j \in Nat : (j * PageSize <= b + c - 1 /\ b + c - 1 < j * PageSize + PageSize)
                           => Page(b + c - 1) = j
      BY <2>1, PageOf
    <2> QED BY <1>2, <2>1, <2>2 DEF b
  <1>7. ReadsChunk(bad, 0, len, k) <=> k \notin bad
    <2>1. 0 + b = b
      BY <1>3
    <2>2. ReadsChunk(bad, 0, len, k) <=> \A p \in Page(b) .. Page(b + c - 1) : p \notin bad
      BY <2>1 DEF ReadsChunk, Reads, b, c
    <2>3. Page(b) .. Page(b + c - 1) = {k}
      BY <1>2, <1>6
    <2> QED BY <2>2, <2>3
  <1>8. ASSUME NEW a PROVE a \in Cells(b, c) <=> a \in Cells(0, len) /\ Page(a) = k
    <2>1. CASE a \in Cells(b, c)
      <3>1. a \in Nat /\ b <= a /\ a < b + c /\ a % Ptr = 0
        BY <1>3, <1>5, <2>1, CellsAre
      <3>2. a < len /\ a < b + PageSize
        BY <1>1, <1>3, <1>5, <3>1
      <3>3. a \in Cells(0, len)
        BY <3>1, <3>2, CellsAre
      <3>4. Page(a) = k
        BY <1>2, <3>1, <3>2, PageOf DEF b
      <3> QED BY <2>1, <3>3, <3>4
    <2>2. CASE a \in Cells(0, len) /\ Page(a) = k
      <3>1. a \in Nat /\ a < len /\ a % Ptr = 0
        BY <2>2, CellsAre
      <3>2. b <= a /\ a < b + PageSize
        BY <2>2, <3>1, PageOf DEF b
      <3>3. a < b + c
        BY <1>1, <1>3, <1>5, <3>1, <3>2
      <3> QED BY <1>3, <1>5, <2>2, <3>1, <3>2, <3>3, CellsAre
    <2> QED BY <2>1, <2>2
  <1> QED BY <1>7, <1>8 DEF b, c

(* A read in one call has met no unreadable page.                          *)
LEMMA WholeRead ==
    ASSUME NEW bad, NEW len \in Nat \ {0}, Reads(bad, 0, len), NEW k \in Chunks(len)
    PROVE  k \notin bad
  <1>1. k \in Nat /\ k * PageSize < len /\ PageSize \in Nat \ {0}
    BY ChunksAre, PeImageAssumption
  <1>2. k * PageSize \in Nat
    BY <1>1
  <1> DEFINE e == len - 1
             q == Page(e)
  <1>3. e \in Nat /\ 0 + len - 1 = e
    OBVIOUS
  <1>4. q \in Nat /\ e < q * PageSize + PageSize
    BY <1>3, PageOf
  <1>5. Page(0) = 0
    <2>1. 0 * PageSize = 0
      BY <1>1
    <2> QED BY <1>1, <2>1, PageOf
  <1> HIDE DEF q
  <1>6. k * PageSize < (q + 1) * PageSize
    <2>1. q * PageSize \in Nat /\ (q + 1) * PageSize = q * PageSize + PageSize
      BY <1>1, <1>4
    <2> QED BY <1>1, <1>2, <1>3, <1>4, <2>1
  <1>7. k < q + 1
    BY <1>1, <1>4, <1>6, Cancels
  <1>8. k \in 0 .. q
    BY <1>1, <1>4, <1>7
  <1>9. \A p \in Page(0) .. Page(0 + len - 1) : p \notin bad
    BY DEF Reads
  <1> QED BY <1>3, <1>5, <1>8, <1>9 DEF q

-----------------------------------------------------------------------------
(* access/reader.rs.                                                       *)

(***************************************************************************)
(* From a page-aligned base, a best-effort read yields every cell of a     *)
(* readable page and zeros for those of the others: one bad page costs     *)
(* only itself, whichever of the two paths read it (reader.rs:33-36).      *)
(***************************************************************************)
THEOREM BadPageCostsItself ==
    ASSUME NEW mem, NEW bad, NEW q \in Nat, NEW len \in Nat \ {0},
           NEW a \in Cells(q * PageSize, len)
    PROVE  ReadBestEffort(mem, bad, q * PageSize, len)[a]
             = IF Page(a) \in bad THEN 0 ELSE mem[a]
  <1> DEFINE base == q * PageSize
             k == (a - base) \div PageSize
             gaps == Gaps(bad, base, len)
  <1>1. PageSize \in Nat \ {0} /\ base \in Nat
    BY PeImageAssumption
  <1>2. a \in Nat /\ base <= a /\ a <= base + len - 1
    BY <1>1 DEF Cells
  <1>3. k \in Nat /\ k * PageSize <= a - base /\ a - base < k * PageSize + PageSize
    BY <1>1, <1>2, Division
  <1>4. Page(a) = q + k
    <2> DEFINE r == a - base - k * PageSize
    <2>1. k * PageSize \in Nat /\ r \in Nat /\ r < PageSize
      BY <1>1, <1>2, <1>3
    <2>2. a = (q + k) * PageSize + r
      BY <1>1, <1>2, <1>3
    <2>3. q + k \in Nat
      BY <1>3
    <2> HIDE DEF r, k
    <2>4. ((q + k) * PageSize + r) \div PageSize = q + k
      BY <1>1, <2>1, <2>3, DivisionUnique
    <2> QED BY <2>2, <2>4 DEF Page
  <1>5. ReadBestEffort(mem, bad, base, len)[a] = IF k \in gaps THEN 0 ELSE mem[a]
    BY DEF ReadBestEffort
  <1>6. k \in gaps <=> Page(a) \in bad
    <2>1. CASE Reads(bad, base, len)
      <3>1. Page(base) = q
        BY <1>1, DivisionUnique DEF Page
      <3>2. Page(base + len - 1) \in Nat /\ q + k <= Page(base + len - 1)
        <4> DEFINE e == base + len - 1
        <4>1. e \in Nat /\ a <= e
          BY <1>1, <1>2
        <4>2. e \div PageSize \in Nat /\ e < (e \div PageSize) * PageSize + PageSize
          BY <1>1, <4>1, Division
        <4>3. (a \div PageSize) * PageSize <= a /\ a \div PageSize = q + k
          BY <1>1, <1>2, <1>4, Division DEF Page
        <4> HIDE DEF e, k
        <4>4. (q + k) * PageSize < (e \div PageSize) * PageSize + PageSize
          BY <1>1, <1>2, <4>1, <4>2, <4>3
        <4>5. (q + k) * PageSize < ((e \div PageSize) + 1) * PageSize
          BY <1>1, <1>3, <4>2, <4>4
        <4>6. q + k < (e \div PageSize) + 1
          BY <1>1, <1>3, <4>2, <4>5, Cancels
        <4> QED BY <1>3, <4>2, <4>6 DEF Page, e
      <3>3. Page(a) \notin bad
        BY <1>3, <1>4, <2>1, <3>1, <3>2 DEF Reads
      <3> QED BY <2>1, <3>3 DEF Gaps
    <2>2. CASE ~Reads(bad, base, len)
      <3> DEFINE b == base + k * PageSize
                 c == ChunkLength(len, k)
                 d == (len + PageSize - 1) \div PageSize
      <3>1. k * PageSize \in Nat /\ b = (q + k) * PageSize /\ q + k \in Nat
        BY <1>1, <1>3
      <3>2. c \in 1 .. PageSize
        BY <1>1, <1>2, <1>3, <3>1 DEF ChunkLength, Least
      <3>3. Page(b) = q + k
        BY <1>1, <3>1, DivisionUnique DEF Page
      <3>4. Page(b + c - 1) = q + k
        <4>1. c - 1 \in Nat /\ c - 1 < PageSize
          BY <1>1, <3>2
        <4> HIDE DEF c, k
        <4>2. ((q + k) * PageSize + (c - 1)) \div PageSize = q + k
          BY <1>1, <3>1, <4>1, DivisionUnique
        <4>3. b + c - 1 = (q + k) * PageSize + (c - 1)
          BY <1>1, <3>1, <4>1
        <4> QED BY <4>2, <4>3 DEF Page
      <3>5. ReadsChunk(bad, base, len, k) <=> q + k \notin bad
        BY <3>1, <3>3, <3>4 DEF ReadsChunk, Reads
      <3>6. k \in Chunks(len)
        <4>1. len + PageSize - 1 \in Nat /\ d \in Nat /\ len + PageSize - 1 < d * PageSize + PageSize
          BY <1>1, Division
        <4> HIDE DEF d, k
        <4>2. (k + 1) * PageSize < (d + 1) * PageSize
          BY <1>1, <1>2, <1>3, <3>1, <4>1
        <4>3. k + 1 < d + 1
          BY <1>1, <1>3, <4>1, <4>2, Cancels
        <4> QED BY <1>3, <4>1, <4>3 DEF Chunks, d
      <3> QED BY <1>4, <2>2, <3>5, <3>6 DEF Gaps
    <2> QED BY <2>1, <2>2
  <1> QED BY <1>5, <1>6
=============================================================================
