--------------------------- MODULE RebuildProofs ---------------------------
(***************************************************************************)
(* Theorems about Rebuild, for every scenario: any headers, any memory and *)
(* any number of changes of the target between the reads.                  *)
(***************************************************************************)
EXTENDS Rebuild, PeImageProofs

-----------------------------------------------------------------------------
(* Imports: the catalog.                                                   *)

Modules == [name : DOMAIN Length, base : Nat, readable : BOOLEAN,
            dir : Nat, dirSize : Nat, ordinalBase : Nat, funcs : Seq(Nat),
            names : Seq([name : DOMAIN Length \cup {NoName}, index : Nat])]
Refs == [module : DOMAIN Length, name : DOMAIN Length \cup {NoName}, ordinal : Nat]

LEMMA PriorityRange == ASSUME NEW name PROVE Priority(name) \in Nat /\ Priority(name) <= 4
  BY DEF Priority

(* Of several names of a function, NameOf finds the last.                  *)
LEMMA NameOfIs ==
    ASSUME NEW m \in Modules, NEW i
    PROVE  \/ /\ NameOf(m, i) = NoName
              /\ ~\E k \in DOMAIN m.names : m.names[k].index = i /\ m.names[k].name # NoName
           \/ /\ NameOf(m, i) # NoName /\ NameOf(m, i) \in DOMAIN Length
              /\ \E k \in DOMAIN m.names : m.names[k].index = i /\ m.names[k].name = NameOf(m, i)
  <1> DEFINE ks == {k \in DOMAIN m.names : m.names[k].index = i /\ m.names[k].name # NoName}
  <1>1. /\ DOMAIN m.names = 1 .. Len(m.names) /\ Len(m.names) \in Nat
        /\ \A k \in DOMAIN m.names : m.names[k].name \in DOMAIN Length \cup {NoName}
    <2> DEFINE ns == m.names
               R == [name : DOMAIN Length \cup {NoName}, index : Nat]
    <2>1. ns \in Seq(R)
      BY DEF Modules
    <2> HIDE DEF ns, R
    <2>2. DOMAIN ns = 1 .. Len(ns) /\ Len(ns) \in Nat /\ \A k \in DOMAIN ns : ns[k] \in R
      BY <2>1
    <2>3. \A x \in R : x.name \in DOMAIN Length \cup {NoName}
      BY DEF R
    <2>4. \A k \in DOMAIN ns : ns[k].name \in DOMAIN Length \cup {NoName}
      BY <2>2, <2>3
    <2> QED BY <2>2, <2>4 DEF ns
  <1>2. CASE ks = {}
    <2>1. NameOf(m, i) = NoName
      BY <1>2 DEF NameOf
    <2> QED BY <1>2, <2>1
  <1>3. CASE ks # {}
    <2>1. ks \in SUBSET Nat /\ \A k \in ks : k <= Len(m.names)
      BY <1>1
    <2>2. \E k \in ks : \A j \in ks : j <= k
      BY <1>1, <1>3, <2>1, GreatestOf
    <2> DEFINE l == CHOOSE k \in ks : \A j \in ks : j <= k
    <2>3. l \in ks
      BY <2>2
    <2>4. NameOf(m, i) = m.names[l].name
      BY <1>3 DEF NameOf
    <2> HIDE DEF l
    <2> QED BY <1>1, <2>3, <2>4
  <1> QED BY <1>2, <1>3

LEMMA EntryTyped ==
    ASSUME NEW e \in Entries
    PROVE  /\ e[1] \in DOMAIN ModuleList /\ e[1] \in Nat /\ e[2] \in Nat \ {0}
           /\ e = <<e[1], e[2]>>
           /\ ModuleList[e[1]] \in Modules
           /\ Ref(e) \in Refs
  <1>1. /\ e \in (DOMAIN ModuleList) \X (1 .. MaxFunctions)
        /\ e[2] \in DOMAIN ModuleList[e[1]].funcs
    BY DEF Entries
  <1>2. ModuleList \in Seq(Modules) /\ MaxFunctions \in Nat
    BY ImportsAssumption DEF Modules
  <1>3. e[1] \in DOMAIN ModuleList /\ e[1] \in Nat /\ e[2] \in Nat \ {0} /\ e = <<e[1], e[2]>>
    BY <1>1, <1>2
  <1> DEFINE m == ModuleList[e[1]]
  <1>4. m \in Modules
    BY <1>2, <1>3
  <1> HIDE DEF m
  <1>5. m.name \in DOMAIN Length /\ m.ordinalBase \in Nat
    BY <1>4 DEF Modules
  <1>6. NameOf(m, e[2]) \in DOMAIN Length \cup {NoName}
    BY <1>4, NameOfIs
  <1>7. m.ordinalBase + e[2] - 1 \in Nat
    BY <1>3, <1>5
  <1>8. (m.ordinalBase + e[2] - 1) % 65536 \in Nat
    BY <1>7, Remainder
  <1>9. Ref(e) = ExportRef(m, e[2])
    BY DEF Ref, m
  <1>10. ExportRef(m, e[2]) \in Refs
    BY <1>5, <1>6, <1>8 DEF ExportRef, Refs
  <1> QED BY <1>3, <1>4, <1>9, <1>10 DEF m

(* The catalog holds, for each address, an entry of the highest rank there. *)
LEMMA CatalogPicks ==
    ASSUME NEW va \in DOMAIN Catalog
    PROVE  \E e \in Entries :
              /\ Va(e) = va /\ Catalog[va] = Ref(e)
              /\ \A d \in Entries : Va(d) = va =>
                    Priority(Ref(d).module) <= Priority(Ref(e).module)
  <1> DEFINE here == {e \in Entries : Va(e) = va}
             Rank(e) == Priority(Ref(e).module)
             Wins(e) == \A d \in here \ {e} :
                          IF Earlier(d, e) THEN Replaces(Ref(e), Ref(d))
                          ELSE ~Replaces(Ref(d), Ref(e))
  <1>1. DOMAIN Catalog = {Va(e) : e \in Entries}
    BY DEF Catalog
  <1>2. here # {}
    BY <1>1
  <1>3. Catalog[va] = Ref(CHOOSE e \in here : Wins(e))
    BY <1>1 DEF Catalog
  <1>4. \A e \in here : e \in Entries /\ Rank(e) \in Nat /\ Rank(e) <= 4
    BY PriorityRange
  <1>5. \A d, e : Replaces(Ref(d), Ref(e)) <=> Rank(d) > Rank(e)
    BY DEF Replaces
  <1> HIDE DEF Rank
  <1>6. \E e \in here : Wins(e)
    <2> DEFINE ranks == {Rank(e) : e \in here}
    <2>1. ranks \in SUBSET Nat /\ ranks # {} /\ \A r \in ranks : r <= 4
      BY <1>2, <1>4
    <2>2. PICK r \in ranks : \A q \in ranks : q <= r
      BY <2>1, GreatestOf
    <2> DEFINE best == {e \in here : Rank(e) = r}
               places == {e[1] : e \in best}
    <2>3. best # {} /\ r \in Nat
      BY <2>1, <2>2
    <2>4. places \in SUBSET Nat /\ places # {}
      BY <1>4, <2>3, EntryTyped
    <2>5. PICK n \in places : \A p \in places : n <= p
      BY <2>4, LeastOf
    <2> DEFINE indices == {e[2] : e \in {d \in best : d[1] = n}}
    <2>6. indices \in SUBSET Nat /\ indices # {}
      BY <1>4, <2>5, EntryTyped
    <2>7. PICK i \in indices : \A j \in indices : i <= j
      BY <2>6, LeastOf
    <2>8. PICK w \in best : w[1] = n /\ w[2] = i
      BY <2>7
    <2>9. w \in here /\ Rank(w) = r
      OBVIOUS
    <2>10. Wins(w)
      <3>1. TAKE d \in here \ {w}
      <3>2. Rank(d) \in Nat /\ Rank(d) <= r
        BY <1>4, <2>2
      <3>3. CASE Earlier(d, w)
        <4>1. d \notin best
          <5>1. SUFFICES ASSUME d \in best PROVE FALSE
            OBVIOUS
          <5>2. d[1] \in places /\ n <= d[1]
            BY <2>5, <5>1
          <5>3. d[1] \in Nat /\ d[2] \in Nat /\ n \in Nat /\ i \in Nat
            BY <1>4, <2>4, <2>6, EntryTyped
          <5>4. d[1] = n /\ d[2] < i
            BY <2>8, <3>3, <5>2, <5>3 DEF Earlier
          <5>5. d[2] \in indices
            BY <5>1, <5>4
          <5>6. i <= d[2]
            BY <2>7, <5>5
          <5> QED BY <5>3, <5>4, <5>6
        <4>2. Rank(d) # r
          BY <4>1
        <4>3. Rank(w) > Rank(d)
          BY <2>3, <2>9, <3>2, <4>2
        <4> QED BY <1>5, <3>3, <4>3
      <3>4. CASE ~Earlier(d, w)
        <4>1. ~(Rank(d) > Rank(w))
          BY <2>3, <2>9, <3>2
        <4> QED BY <1>5, <3>4, <4>1
      <3> QED BY <3>3, <3>4
    <2> HIDE DEF Wins
    <2> QED BY <2>9, <2>10
  <1> DEFINE e == CHOOSE x \in here : Wins(x)
  <1>7. e \in here /\ Wins(e)
    <2> HIDE DEF here, Wins
    <2> QED BY <1>6
  <1> HIDE DEF e
  <1>8. Catalog[va] = Ref(e)
    BY <1>3 DEF e
  <1>9. \A d \in Entries : Va(d) = va => Rank(d) <= Rank(e)
    <2>1. TAKE d \in Entries
    <2>2. HAVE Va(d) = va
    <2>3. d \in here /\ Rank(d) \in Nat /\ Rank(e) \in Nat
      BY <1>4, <1>7, <2>2
    <2>4. CASE d = e
      BY <2>3, <2>4
    <2>5. CASE d # e
      <3>1. IF Earlier(d, e) THEN Rank(e) > Rank(d) ELSE ~(Rank(d) > Rank(e))
        BY <1>5, <1>7, <2>3, <2>5
      <3> QED BY <2>3, <3>1
    <2> QED BY <2>4, <2>5
  <1> QED BY <1>7, <1>8, <1>9 DEF Rank

LEMMA CatalogTyped == ASSUME NEW va, Resolves(va) PROVE Catalog[va] \in Refs
  BY CatalogPicks, EntryTyped DEF Resolves

-----------------------------------------------------------------------------
(* Imports: the blocks of the table, and the layout of the section.        *)

LEMMA BlockEnds ==
    ASSUME NEW len \in Nat, NEW cells, DOMAIN cells = Cells(0, len), NEW a \in Firsts(cells)
    PROVE  LET z == LastFrom(cells, a)
           IN  /\ z \in DOMAIN cells /\ a <= z
               /\ \A b \in Cells(a, z - a + Ptr) :
                     InRun(cells, b) /\ (b = a \/ SameBlock(cells, b))
               /\ z + Ptr \in DOMAIN cells => ~(InRun(cells, z + Ptr) /\ SameBlock(cells, z + Ptr))
  <1> DEFINE Joins(b) == b \in DOMAIN cells /\ InRun(cells, b) /\ SameBlock(cells, b)
             T == {y \in Nat : a < y /\ y % Ptr = 0 /\ ~Joins(y)}
             Ends(z) == /\ z >= a
                        /\ \A b \in Cells(a, z - a + Ptr) :
                              InRun(cells, b) /\ (b = a \/ SameBlock(cells, b))
                        /\ z + Ptr \in DOMAIN cells =>
                              ~(InRun(cells, z + Ptr) /\ SameBlock(cells, z + Ptr))
  <1>1. a \in DOMAIN cells /\ InRun(cells, a)
    BY DEF Firsts
  <1>2. Ptr \in Nat \ {0}
    BY PeImageAssumption
  <1>3. a \in Nat /\ a % Ptr = 0 /\ a < len
    BY <1>1, CellsAre
  <1>4. T # {}
    <2> DEFINE y == (len + a + 1) * Ptr
    <2>1. y \in Nat /\ y % Ptr = 0
      BY <1>3, Multiples
    <2>2. len + a + 1 <= y
      BY <1>2, <1>3
    <2> HIDE DEF y
    <2>3. y \notin DOMAIN cells /\ a < y
      BY <1>3, <2>1, <2>2, CellsAre
    <2> QED BY <2>1, <2>3
  <1>5. T \in SUBSET Nat
    OBVIOUS
  <1>6. PICK y \in T : \A x \in T : y <= x
    BY <1>4, <1>5, LeastOf
  <1>7. y \in Nat /\ a < y /\ y % Ptr = 0 /\ ~Joins(y)
    BY <1>6
  <1> DEFINE z == y - Ptr
  <1>8. z \in Nat /\ z % Ptr = 0 /\ a <= z /\ z + Ptr = y
    BY <1>2, <1>3, <1>7, CellGap
  <1> HIDE DEF z
  <1>9. \A b \in Nat : a < b /\ b < y /\ b % Ptr = 0 => Joins(b)
    BY <1>6, <1>7
  <1> HIDE DEF Joins
  <1>10. z \in DOMAIN cells
    <2>1. CASE z = a
      BY <1>1, <2>1
    <2>2. CASE z # a
      <3>1. a < z /\ z < y
        BY <1>2, <1>3, <1>7, <1>8, <2>2
      <3> QED BY <1>8, <1>9, <3>1 DEF Joins
    <2> QED BY <2>1, <2>2
  <1>11. ASSUME NEW b \in Cells(a, z - a + Ptr)
         PROVE  InRun(cells, b) /\ (b = a \/ SameBlock(cells, b))
    <2>1. z - a + Ptr \in Nat /\ a + (z - a + Ptr) = y
      BY <1>2, <1>3, <1>8
    <2>2. b \in Nat /\ a <= b /\ b < y /\ b % Ptr = 0
      BY <1>3, <2>1, CellsAre
    <2>3. CASE b = a
      BY <1>1, <2>3
    <2>4. CASE b # a
      <3>1. a < b
        BY <1>3, <2>2, <2>4
      <3> QED BY <1>9, <2>2, <3>1 DEF Joins
    <2> QED BY <2>3, <2>4
  <1>12. z + Ptr \in DOMAIN cells => ~(InRun(cells, z + Ptr) /\ SameBlock(cells, z + Ptr))
    BY <1>7, <1>8 DEF Joins
  <1>13. Ends(z)
    BY <1>3, <1>8, <1>11, <1>12
  <1>14. LastFrom(cells, a) = CHOOSE x \in DOMAIN cells : Ends(x)
    BY DEF LastFrom
  <1> DEFINE w == CHOOSE x \in DOMAIN cells : Ends(x)
  <1>15. w \in DOMAIN cells /\ Ends(w)
    <2> HIDE DEF Ends
    <2> QED BY <1>10, <1>13
  <1> HIDE DEF w
  <1>16. w \in Nat
    BY <1>15, CellsAre
  <1>17. a <= w
    BY <1>3, <1>15, <1>16
  <1> QED BY <1>14, <1>15, <1>17 DEF w

Descs == [module : DOMAIN Length, firstThunk : Nat, imports : Seq(Refs)]

(* A descriptor covers the cells of its block, one import for each.        *)
LEMMA DescriptorIs ==
    ASSUME NEW len \in Nat, NEW cells, DOMAIN cells = Cells(0, len), NEW a \in Firsts(cells)
    PROVE  LET d == Descriptor(cells, a)
               z == LastFrom(cells, a)
           IN  /\ d \in Descs /\ d.firstThunk = a /\ d.module = ModuleAt(cells, a)
               /\ Len(d.imports) = (z - a) \div Ptr + 1 /\ DOMAIN d.imports = 1 .. Len(d.imports)
               /\ \A i \in 1 .. Len(d.imports) :
                     /\ a + (i - 1) * Ptr \in Cells(a, z - a + Ptr)
                     /\ d.imports[i] = Catalog[cells[a + (i - 1) * Ptr]]
                     /\ Resolves(cells[a + (i - 1) * Ptr])
  <1> DEFINE d == Descriptor(cells, a)
             z == LastFrom(cells, a)
             n == (z - a) \div Ptr + 1
             At(i) == a + (i - 1) * Ptr
  <1>1. /\ z \in DOMAIN cells /\ a <= z
        /\ \A b \in Cells(a, z - a + Ptr) : InRun(cells, b)
    BY BlockEnds
  <1>2. a \in DOMAIN cells /\ Resolves(cells[a])
    BY DEF Firsts, InRun
  <1>3. a \in Nat /\ a % Ptr = 0 /\ z \in Nat /\ z % Ptr = 0
    BY <1>1, <1>2, CellsAre
  <1>4. n \in Nat \ {0} /\ \A i \in 1 .. n : At(i) \in Cells(a, z - a + Ptr)
    BY <1>1, <1>3, CellsCounted
  <1>5. \A i \in 1 .. n : Resolves(cells[At(i)])
    BY <1>1, <1>4 DEF InRun
  <1>6. \A i \in 1 .. n : Catalog[cells[At(i)]] \in Refs
    BY <1>5, CatalogTyped
  <1>7. d = [module |-> ModuleAt(cells, a), firstThunk |-> a,
             imports |-> [i \in 1 .. n |-> Catalog[cells[At(i)]]]]
    BY DEF Descriptor
  <1>8. ModuleAt(cells, a) \in DOMAIN Length
    BY <1>2, CatalogTyped DEF ModuleAt, Refs
  <1> DEFINE s == [i \in 1 .. n |-> Catalog[cells[At(i)]]]
  <1> HIDE DEF n, d, z, At
  <1>9. s \in Seq(Refs) /\ Len(s) = n /\ DOMAIN s = 1 .. n
    BY <1>4, <1>6
  <1>10. \A i \in 1 .. n : s[i] = Catalog[cells[At(i)]]
    OBVIOUS
  <1> HIDE DEF s
  <1>11. d.imports = s /\ d.firstThunk = a /\ d.module = ModuleAt(cells, a)
    BY <1>7 DEF s
  <1>12. d \in Descs
    BY <1>3, <1>7, <1>8, <1>9 DEF Descs, s
  <1>13. /\ d \in Descs /\ d.firstThunk = a /\ d.module = ModuleAt(cells, a)
         /\ Len(d.imports) = n /\ DOMAIN d.imports = 1 .. Len(d.imports)
         /\ \A i \in 1 .. Len(d.imports) :
               /\ At(i) \in Cells(a, z - a + Ptr)
               /\ d.imports[i] = Catalog[cells[At(i)]]
               /\ Resolves(cells[At(i)])
    BY <1>4, <1>5, <1>9, <1>10, <1>11, <1>12
  <1> QED BY <1>13 DEF n, d, z, At

LEMMA FirstsFinite ==
    ASSUME NEW len \in Nat, NEW cells, DOMAIN cells = Cells(0, len)
    PROVE  Firsts(cells) \in SUBSET Nat /\ IsFiniteSet(Firsts(cells))
  <1>1. Firsts(cells) \subseteq Cells(0, len)
    BY DEF Firsts
  <1>2. Cells(0, len) \subseteq Nat /\ IsFiniteSet(Cells(0, len))
    BY CellsAre, CellsFinite
  <1> QED BY <1>1, <1>2, FS_Subset

LEMMA DescriptorsAre ==
    ASSUME NEW len \in Nat, NEW cells, DOMAIN cells = Cells(0, len)
    PROVE  LET ds == Descriptors(cells)
               order == InOrder(Firsts(cells))
           IN  /\ ds \in Seq(Descs) /\ Len(ds) = Cardinality(Firsts(cells))
               /\ Len(ds) \in Nat /\ DOMAIN ds = 1 .. Len(ds)
               /\ \A k \in 1 .. Len(ds) :
                     order[k] \in Firsts(cells) /\ ds[k] = Descriptor(cells, order[k])
  <1> DEFINE ds == Descriptors(cells)
             n == Cardinality(Firsts(cells))
             order == InOrder(Firsts(cells))
  <1>1. n \in Nat /\ \A k \in 1 .. n : order[k] \in Firsts(cells)
    BY FirstsFinite, InOrderLists
  <1>2. ds = [k \in 1 .. n |-> Descriptor(cells, order[k])]
    BY DEF Descriptors
  <1>3. \A k \in 1 .. n : Descriptor(cells, order[k]) \in Descs
    BY <1>1, DescriptorIs
  <1> HIDE DEF ds, n, order
  <1>4. ds \in Seq(Descs) /\ Len(ds) = n /\ DOMAIN ds = 1 .. n
    BY <1>1, <1>2, <1>3
  <1> QED BY <1>1, <1>2, <1>4 DEF ds, n, order

(* A recursive function of the natural numbers up to n, of which F gives    *)
(* the steps, exists: it is built up to each number in turn.                *)
LEMMA RecursionExists ==
    ASSUME NEW n \in Nat, NEW start \in Nat, NEW F \in [(1 .. n) \X Nat -> Nat]
    PROVE  \E f \in [0 .. n -> Nat] :
              f[0] = start /\ \A k \in 1 .. n : f[k] = F[<<k, f[k - 1]>>]
  <1> DEFINE Up(g, m) == /\ g \in [0 .. m -> Nat] /\ g[0] = start
                         /\ \A k \in 1 .. m : g[k] = F[<<k, g[k - 1]>>]
             T == {m \in 0 .. n : ~\E g : Up(g, m)}
  <1>1. T = {}
    <2>1. SUFFICES ASSUME T # {} PROVE FALSE
      OBVIOUS
    <2>2. T \in SUBSET Nat
      OBVIOUS
    <2>3. PICK m \in T : \A j \in T : m <= j
      BY <2>1, <2>2, LeastOf
    <2>4. CASE m = 0
      <3> DEFINE g == [k \in 0 .. 0 |-> start]
      <3>1. Up(g, 0)
        OBVIOUS
      <3> HIDE DEF Up, g
      <3> QED BY <2>3, <2>4, <3>1
    <2>5. CASE m # 0
      <3>1. m \in 1 .. n
        BY <2>3, <2>5
      <3>2. m - 1 \in 0 .. n /\ ~(m <= m - 1)
        BY <3>1
      <3>3. m - 1 \notin T
        <4> HIDE DEF T
        <4> QED BY <2>3, <3>2
      <3>4. PICK g : Up(g, m - 1)
        <4> HIDE DEF Up
        <4> QED BY <3>2, <3>3
      <3> DEFINE h == [k \in 0 .. m |-> IF k = m THEN F[<<m, g[m - 1]>>] ELSE g[k]]
      <3>5. \A k \in 0 .. (m - 1) : g[k] \in Nat
        BY <3>4
      <3>6. F[<<m, g[m - 1]>>] \in Nat
        <4>1. g[m - 1] \in Nat
          BY <3>1, <3>5
        <4> QED BY <3>1, <4>1
      <3>7. h \in [0 .. m -> Nat]
        <4>1. ASSUME NEW k \in 0 .. m PROVE h[k] \in Nat
          <5>1. CASE k = m
            BY <3>6, <5>1
          <5>2. CASE k # m
            <6>1. k \in 0 .. (m - 1) /\ h[k] = g[k]
              BY <3>1, <5>2
            <6> QED BY <3>5, <6>1
          <5> QED BY <5>1, <5>2
        <4> QED BY <4>1
      <3>8. h[0] = start
        BY <3>1, <3>4
      <3>9. ASSUME NEW k \in 1 .. m PROVE h[k] = F[<<k, h[k - 1]>>]
        <4>1. h[k - 1] = g[k - 1]
          BY <3>1
        <4>2. CASE k = m
          <5>1. h[k] = F[<<m, g[m - 1]>>]
            BY <3>1, <4>2
          <5> QED BY <4>1, <4>2, <5>1
        <4>3. CASE k # m
          <5>1. k \in 1 .. (m - 1) /\ h[k] = g[k]
            BY <3>1, <4>3
          <5> QED BY <3>4, <4>1, <5>1
        <4> QED BY <4>2, <4>3
      <3>10. Up(h, m)
        BY <3>7, <3>8, <3>9
      <3> HIDE DEF Up, h
      <3> QED BY <2>3, <3>10
    <2> QED BY <2>4, <2>5
  <1>2. PICK f : Up(f, n)
    <2>1. n \in 0 .. n
      OBVIOUS
    <2> HIDE DEF Up
    <2> QED BY <1>1, <2>1
  <1> QED BY <1>2

(* Where the INTs begin.                                                   *)
LEMMA IntsBeforeAre ==
    ASSUME NEW ds, Len(ds) \in Nat,
           \A k \in 1 .. Len(ds) : IntBytes(ds[k]) \in Nat
    PROVE  LET f == IntsBefore(ds)
           IN  /\ f[1] = 0
               /\ \A k \in 1 .. Len(ds) : f[k + 1] = f[k] + IntBytes(ds[k])
               /\ \A k \in 1 .. (Len(ds) + 1) : f[k] \in Nat
  <1> DEFINE n == Len(ds)
             Up(g) == g = [k \in 1 .. (n + 1) |->
                             IF k = 1 THEN 0 ELSE g[k - 1] + IntBytes(ds[k - 1])]
             F == [p \in (1 .. n) \X Nat |-> p[2] + IntBytes(ds[p[1]])]
             f == IntsBefore(ds)
  <1>1. F \in [(1 .. n) \X Nat -> Nat]
    OBVIOUS
  <1>2. PICK e \in [0 .. n -> Nat] :
           e[0] = 0 /\ \A k \in 1 .. n : e[k] = F[<<k, e[k - 1]>>]
    <2> HIDE DEF F, n
    <2>1. n \in Nat /\ 0 \in Nat
      BY DEF n
    <2> QED BY <1>1, <2>1, RecursionExists
  <1>3. \E g : Up(g)
    <2> DEFINE g == [k \in 1 .. (n + 1) |-> e[k - 1]]
    <2>1. ASSUME NEW k \in 1 .. (n + 1)
          PROVE  g[k] = IF k = 1 THEN 0 ELSE g[k - 1] + IntBytes(ds[k - 1])
      <3>1. CASE k = 1
        BY <1>2, <3>1
      <3>2. CASE k # 1
        <4>1. k - 1 \in 1 .. n /\ g[k] = e[k - 1] /\ g[k - 1] = e[k - 2]
          BY <3>2
        <4>2. k - 1 - 1 = k - 2 /\ k - 2 \in 0 .. n
          BY <4>1
        <4>3. e[k - 1] = F[<<k - 1, e[k - 2]>>] /\ e[k - 2] \in Nat
          BY <1>2, <4>1, <4>2
        <4> QED BY <3>2, <4>1, <4>3
      <3> QED BY <3>1, <3>2
    <2>2. Up(g)
      BY <2>1
    <2> HIDE DEF Up, g
    <2> QED BY <2>2
  <1>4. f = CHOOSE g : Up(g)
    BY DEF IntsBefore
  <1>5. Up(f)
    <2> HIDE DEF Up, f
    <2> QED BY <1>3, <1>4
  <1> HIDE DEF f
  <1>6. f[1] = 0
    BY <1>5
  <1>7. ASSUME NEW k \in 1 .. n PROVE f[k + 1] = f[k] + IntBytes(ds[k])
    <2>1. k + 1 \in 1 .. (n + 1) /\ k + 1 # 1 /\ k + 1 - 1 = k
      OBVIOUS
    <2> QED BY <1>5, <2>1
  <1>8. \A k \in 1 .. (n + 1) : f[k] \in Nat
    <2> DEFINE U == {k \in 1 .. (n + 1) : f[k] \notin Nat}
    <2>1. SUFFICES ASSUME U # {} PROVE FALSE
      OBVIOUS
    <2>2. U \in SUBSET Nat
      OBVIOUS
    <2>3. PICK k \in U : \A j \in U : k <= j
      BY <2>1, <2>2, LeastOf
    <2>4. k # 1
      BY <1>6, <2>3
    <2>5. k - 1 \in 1 .. n /\ k - 1 \in 1 .. (n + 1) /\ k - 1 + 1 = k /\ k - 1 < k
      BY <2>3, <2>4
    <2>6. f[k - 1] \in Nat
      BY <2>3, <2>5
    <2>7. f[k] = f[k - 1] + IntBytes(ds[k - 1]) /\ IntBytes(ds[k - 1]) \in Nat
      BY <1>7, <2>5
    <2> QED BY <2>3, <2>6, <2>7
  <1> QED BY <1>6, <1>7, <1>8 DEF f

(* Where the strings of a descriptor are, one behind the other.            *)
LEMMA StringsUpToAre ==
    ASSUME NEW d \in Descs, NEW at \in Nat
    PROVE  LET f == StringsUpTo(d, at)
               n == Len(d.imports)
           IN  /\ n \in Nat /\ DOMAIN d.imports = 1 .. n
               /\ f[0] = at + Length[d.module] + 1
               /\ \A i \in 1 .. n :
                     f[i] = IF d.imports[i].name = NoName THEN f[i - 1]
                            ELSE RoundUp(f[i - 1] + 2 + Length[d.imports[i].name] + 1, 2)
               /\ \A i \in 0 .. n : f[i] \in Nat
  <1> DEFINE n == Len(d.imports)
             After(i, b) == IF d.imports[i].name = NoName THEN b
                            ELSE RoundUp(b + 2 + Length[d.imports[i].name] + 1, 2)
             start == at + Length[d.module] + 1
             Up(g) == g = [i \in 0 .. n |-> IF i = 0 THEN start ELSE After(i, g[i - 1])]
             F == [p \in (1 .. n) \X Nat |-> After(p[1], p[2])]
             f == StringsUpTo(d, at)
  <1>1. d.imports \in Seq(Refs) /\ d.module \in DOMAIN Length
    BY DEF Descs
  <1>2. n \in Nat /\ DOMAIN d.imports = 1 .. n /\ \A i \in 1 .. n : d.imports[i] \in Refs
    BY <1>1
  <1>3. start \in Nat
    BY <1>1, ImportsAssumption
  <1>4. ASSUME NEW i \in 1 .. n, NEW b \in Nat PROVE After(i, b) \in Nat
    <2>1. CASE d.imports[i].name = NoName
      BY <2>1
    <2>2. CASE d.imports[i].name # NoName
      <3>1. d.imports[i].name \in DOMAIN Length
        BY <1>2, <2>2 DEF Refs
      <3>2. b + 2 + Length[d.imports[i].name] + 1 \in Nat
        BY <3>1, ImportsAssumption
      <3>3. RoundUp(b + 2 + Length[d.imports[i].name] + 1, 2) \in Nat
        BY <3>2, RoundUpBounds
      <3> QED BY <2>2, <3>3
    <2> QED BY <2>1, <2>2
  <1>5. f = CHOOSE g : Up(g)
    BY DEF StringsUpTo
  <1> HIDE DEF n, After, start, f
  <1>6. F \in [(1 .. n) \X Nat -> Nat]
    BY <1>4
  <1>7. PICK e \in [0 .. n -> Nat] :
           e[0] = start /\ \A k \in 1 .. n : e[k] = F[<<k, e[k - 1]>>]
    <2> HIDE DEF F
    <2> QED BY <1>2, <1>3, <1>6, RecursionExists
  <1>8. \E g : Up(g)
    <2>1. ASSUME NEW i \in 0 .. n PROVE e[i] = IF i = 0 THEN start ELSE After(i, e[i - 1])
      <3>1. CASE i = 0
        BY <1>7, <3>1
      <3>2. CASE i # 0
        <4>1. i \in 1 .. n /\ i - 1 \in 0 .. n
          BY <1>2, <3>2
        <4>2. e[i] = F[<<i, e[i - 1]>>] /\ e[i - 1] \in Nat
          BY <1>7, <4>1
        <4> QED BY <3>2, <4>1, <4>2
      <3> QED BY <3>1, <3>2
    <2>2. Up(e)
      BY <1>7, <2>1
    <2> HIDE DEF Up
    <2> QED BY <2>2
  <1>9. Up(f)
    <2> HIDE DEF Up
    <2> QED BY <1>5, <1>8
  <1>10. f[0] = start
    BY <1>2, <1>9
  <1>11. ASSUME NEW i \in 1 .. n PROVE f[i] = After(i, f[i - 1])
    <2>1. i \in 0 .. n /\ i # 0
      BY <1>2
    <2> QED BY <1>9, <2>1
  <1>12. \A i \in 0 .. n : f[i] \in Nat
    <2> DEFINE U == {i \in 0 .. n : f[i] \notin Nat}
    <2>1. SUFFICES ASSUME U # {} PROVE FALSE
      OBVIOUS
    <2>2. U \in SUBSET Nat
      BY <1>2
    <2>3. PICK i \in U : \A j \in U : i <= j
      BY <2>1, <2>2, LeastOf
    <2>4. i # 0
      BY <1>3, <1>10, <2>3
    <2>5. i \in 1 .. n /\ i - 1 \in 0 .. n /\ ~(i <= i - 1)
      BY <1>2, <2>3, <2>4
    <2>6. f[i - 1] \in Nat
      BY <2>3, <2>5
    <2>7. f[i] = After(i, f[i - 1]) /\ After(i, f[i - 1]) \in Nat
      BY <1>4, <1>11, <2>5, <2>6
    <2> QED BY <2>3, <2>7
  <1> QED BY <1>2, <1>10, <1>11, <1>12 DEF n, After, start, f

(* Where the strings of each descriptor begin.                             *)
LEMMA StringsBeforeAre ==
    ASSUME NEW ds \in Seq(Descs)
    PROVE  LET f == StringsBefore(ds)
           IN  /\ f[1] = 0
               /\ \A k \in 1 .. Len(ds) :
                     f[k + 1] = StringsUpTo(ds[k], f[k])[Len(ds[k].imports)]
               /\ \A k \in 1 .. (Len(ds) + 1) : f[k] \in Nat
  <1> DEFINE n == Len(ds)
             End(k, b) == StringsUpTo(ds[k], b)[Len(ds[k].imports)]
             Up(g) == g = [k \in 1 .. (n + 1) |-> IF k = 1 THEN 0 ELSE End(k - 1, g[k - 1])]
             F == [p \in (1 .. n) \X Nat |-> End(p[1], p[2])]
             f == StringsBefore(ds)
  <1>0. n \in Nat /\ \A k \in 1 .. n : ds[k] \in Descs
    OBVIOUS
  <1>1. ASSUME NEW k \in 1 .. n, NEW b \in Nat PROVE End(k, b) \in Nat
    <2>1. /\ Len(ds[k].imports) \in Nat
          /\ \A i \in 0 .. Len(ds[k].imports) : StringsUpTo(ds[k], b)[i] \in Nat
      BY <1>0, StringsUpToAre
    <2> QED BY <2>1
  <1>2. f = CHOOSE g : Up(g)
    BY DEF StringsBefore
  <1> HIDE DEF End, n, f
  <1>3. F \in [(1 .. n) \X Nat -> Nat]
    BY <1>1
  <1>4. PICK e \in [0 .. n -> Nat] :
           e[0] = 0 /\ \A k \in 1 .. n : e[k] = F[<<k, e[k - 1]>>]
    <2> HIDE DEF F
    <2>1. 0 \in Nat
      OBVIOUS
    <2> QED BY <1>0, <1>3, <2>1, RecursionExists
  <1>5. \E g : Up(g)
    <2> DEFINE g == [k \in 1 .. (n + 1) |-> e[k - 1]]
    <2>1. ASSUME NEW k \in 1 .. (n + 1)
          PROVE  g[k] = IF k = 1 THEN 0 ELSE End(k - 1, g[k - 1])
      <3>1. CASE k = 1
        BY <1>0, <1>4, <3>1
      <3>2. CASE k # 1
        <4>1. k - 1 \in 1 .. n /\ g[k] = e[k - 1] /\ g[k - 1] = e[k - 2]
          BY <1>0, <3>2
        <4>2. k - 1 - 1 = k - 2 /\ k - 2 \in 0 .. n
          BY <1>0, <4>1
        <4>3. e[k - 1] = F[<<k - 1, e[k - 2]>>] /\ e[k - 2] \in Nat
          BY <1>4, <4>1, <4>2
        <4>4. F[<<k - 1, e[k - 2]>>] = End(k - 1, e[k - 2])
          BY <4>1, <4>3
        <4> QED BY <3>2, <4>1, <4>3, <4>4
      <3> QED BY <3>1, <3>2
    <2>2. Up(g)
      BY <2>1
    <2> HIDE DEF Up, g
    <2> QED BY <2>2
  <1>6. Up(f)
    <2> HIDE DEF Up
    <2> QED BY <1>2, <1>5
  <1>7. f[1] = 0
    BY <1>0, <1>6
  <1>8. ASSUME NEW k \in 1 .. n PROVE f[k + 1] = End(k, f[k])
    <2>1. k + 1 \in 1 .. (n + 1) /\ k + 1 # 1 /\ k + 1 - 1 = k
      BY <1>0
    <2>2. \A j \in 1 .. (n + 1) : f[j] = IF j = 1 THEN 0 ELSE End(j - 1, f[j - 1])
      BY <1>6, Zenon
    <2> QED BY <2>1, <2>2
  <1>9. \A k \in 1 .. (n + 1) : f[k] \in Nat
    <2> DEFINE U == {k \in 1 .. (n + 1) : f[k] \notin Nat}
    <2>1. SUFFICES ASSUME U # {} PROVE FALSE
      OBVIOUS
    <2>2. U \in SUBSET Nat
      BY <1>0
    <2>3. PICK k \in U : \A j \in U : k <= j
      BY <2>1, <2>2, LeastOf
    <2>4. k # 1
      BY <1>7, <2>3
    <2>5. k - 1 \in 1 .. n /\ k - 1 \in 1 .. (n + 1) /\ k - 1 + 1 = k /\ ~(k <= k - 1)
      BY <1>0, <2>3, <2>4
    <2>6. f[k - 1] \in Nat
      BY <2>3, <2>5
    <2>7. f[k] = End(k - 1, f[k - 1]) /\ End(k - 1, f[k - 1]) \in Nat
      BY <1>1, <1>8, <2>5, <2>6
    <2> QED BY <2>3, <2>7
  <1> QED BY <1>7, <1>8, <1>9 DEF f, n, End

(* The section has a size, and begins with the directory.                  *)
LEMMA IdataSized ==
    ASSUME NEW h \in Headers, h.align # 0, NEW ds \in Seq(Descs)
    PROVE  LET idata == Idata(h, ds)
           IN  /\ idata.rva = RoundUp(h.soi, h.align) /\ idata.rva \in Nat /\ h.soi <= idata.rva
               /\ idata.dirSize \in Nat \ {0} /\ idata.size \in Nat
               /\ idata.dirSize <= idata.size
  <1> DEFINE rva == RoundUp(h.soi, h.align)
             n == Len(ds)
             ints == IntsBefore(ds)[n + 1]
             texts == StringsBefore(ds)[n + 1]
  <1>1. n \in Nat /\ \A k \in 1 .. n : ds[k] \in Descs
    OBVIOUS
  <1>2. ASSUME NEW k \in 1 .. n PROVE IntBytes(ds[k]) \in Nat
    <2>1. ds[k] \in Descs
      BY <1>1
    <2>2. Len(ds[k].imports) \in Nat
      BY <2>1, StringsUpToAre
    <2>3. Ptr \in Nat
      BY PeImageAssumption
    <2> QED BY <2>2, <2>3 DEF IntBytes
  <1>3. ints \in Nat
    <2>1. n + 1 \in 1 .. (n + 1)
      BY <1>1
    <2> QED BY <1>1, <1>2, <2>1, IntsBeforeAre
  <1>4. texts \in Nat
    <2>1. n + 1 \in 1 .. (n + 1)
      BY <1>1
    <2> QED BY <2>1, StringsBeforeAre
  <1>5. rva \in Nat /\ h.soi <= rva /\ h.soi \in Nat
    <2>1. h.soi \in Nat /\ h.align \in Nat \ {0}
      BY DEF Headers
    <2> QED BY <2>1, RoundUpBounds
  <1>6. DirectorySize(ds) \in Nat \ {0}
    BY <1>1 DEF DirectorySize, DescriptorSize
  <1>7. /\ Idata(h, ds).rva = rva /\ Idata(h, ds).dirSize = DirectorySize(ds)
        /\ Idata(h, ds).size = ModuleTextAt(ds, rva, n + 1) - rva
    BY DEF Idata
  <1>8. ModuleTextAt(ds, rva, n + 1) = rva + DirectorySize(ds) + ints + texts
    BY DEF ModuleTextAt, StringsAt, IntAt
  <1> HIDE DEF rva, n, ints, texts
  <1>9. rva + DirectorySize(ds) + ints + texts - rva = DirectorySize(ds) + ints + texts
    BY <1>3, <1>4, <1>5, <1>6
  <1> QED BY <1>3, <1>4, <1>5, <1>6, <1>7, <1>8, <1>9 DEF rva

-----------------------------------------------------------------------------
(* What holds at every step.                                               *)

Reachable == {"diff", "sections", "head", "image", "loose", "imports", "entry"} \cup Over
Made == {"imports", "entry", "done"}       \* the stages with an artifact

\* The headers that the target has had.
Seen == headers \ {NoHeader}

\* The target and its history.
History ==
    /\ scenario \in Scenarios
    /\ DOMAIN mem = DOMAIN scenario.mem /\ DOMAIN had = DOMAIN mem
    /\ \A a \in DOMAIN mem : mem[a] \in had[a]
    /\ header \in headers /\ headers \subseteq {scenario.header} \cup scenario.headers
    /\ bad \subseteq wasBad /\ Pages \ bad \subseteq wasGood
    /\ stage \in Reachable

\* What is to be read, and how far the read has come.
Extent ==
    /\ soi = scenario.size \/ \E h \in Seen : soi = h.soi
    /\ chunk \in Nat
    /\ stage \in {"diff", "sections", "head"} => chunk = 0 /\ buf = NothingRead
    /\ stage = "image" => \E h \in Seen : soi = h.soi
    /\ stage = "loose" => soi = scenario.size

\* What has been read was there; what is missing could not be read.
BufferTrue ==
    /\ DOMAIN buf.cells = {a \in Cells(0, soi) : Page(a) + 1 < chunk}
    /\ \A a \in DOMAIN buf.cells :
         buf.cells[a] \in had[a] \/ (buf.cells[a] = 0 /\ Page(a) \in wasBad)
    /\ \A k \in buf.gaps : k \in Chunks(soi) /\ k \in wasBad
    /\ \A k \in Chunks(soi) : k + 1 < chunk => k \in buf.gaps \/ k \in wasGood
    /\ buf.head \in headers \cup {NoHeader}

\* The artifact is what was read, under one of the headers it was read with.
Plain(h) == Artifact(MemoryAlign(h), 0, soi, buf.cells)
Pointers == [a \in {b \in DOMAIN buf.cells : b + Ptr <= soi} |-> buf.cells[a]]
Imaged(h) == {Plain(h), RebuildImports(Plain(h))}
Entered(h) == Imaged(h) \cup {[f EXCEPT !.head.entry = scenario.oep] : f \in Imaged(h)}
Heads == {h \in Seen : Alignable(h, soi) /\ \E g \in Seen : soi = g.soi}
LooseCells ==
    [o \in Cells(0, SynthesizedHeader(soi).soi) |->
        IF o >= PageSize /\ o - PageSize \in DOMAIN buf.cells THEN buf.cells[o - PageSize] ELSE 0]
Loose == Artifact(SynthesizedHeader(soi), PageSize, SynthesizedHeader(soi).soi, LooseCells)

FileTrue ==
    /\ stage \notin Made => file = NoFile
    /\ stage \in Made => AllRead
    /\ stage = "imports" => \E h \in Heads : file = Plain(h)
    /\ stage = "entry" => \E h \in Heads : file \in Imaged(h)
    /\ stage = "done" => file = Loose \/ \E h \in Heads : file \in Entered(h)

RebuildInv == History /\ Extent /\ BufferTrue /\ FileTrue

-----------------------------------------------------------------------------
LEMMA ExtentFits ==
    ASSUME History, soi = scenario.size \/ \E h \in Seen : soi = h.soi
    PROVE  /\ soi \in Nat /\ Cells(0, soi) \subseteq DOMAIN mem
           /\ \A h \in Seen : h \in Headers /\ h.soi \in Nat
           /\ scenario.size \in Nat \ {0}
           /\ \A a \in DOMAIN mem : a \in Nat /\ a % Ptr = 0
           /\ IsFiniteSet(DOMAIN mem)
  <1>1. scenario \in Scenarios
    BY DEF History
  <1>2. \A h \in Seen : h \in ({scenario.header} \cup scenario.headers) \ {NoHeader}
    BY DEF History, Seen
  <1>3. \A h \in Seen : h \in Headers
    BY <1>1, <1>2, RebuildAssumption
  <1>4. \A h \in Seen : h.soi \in Nat
    BY <1>3 DEF Headers
  <1>5. scenario.size \in Nat \ {0}
    BY <1>1, RebuildAssumption
  <1>6. soi \in {scenario.size} \cup
                  {h.soi : h \in ({scenario.header} \cup scenario.headers) \ {NoHeader}}
    BY <1>2
  <1>7. Cells(0, soi) \subseteq DOMAIN scenario.mem
    BY <1>1, <1>6, RebuildAssumption
  <1>8. DOMAIN mem = DOMAIN scenario.mem
    BY DEF History
  <1>9. /\ \A a \in DOMAIN scenario.mem : a \in Nat /\ a % Ptr = 0
        /\ IsFiniteSet(DOMAIN scenario.mem)
    BY <1>1, RebuildAssumption
  <1> QED BY <1>3, <1>4, <1>5, <1>7, <1>8, <1>9

LEMMA StartHolds == RebuildInit => RebuildInv
  <1> SUFFICES ASSUME RebuildInit PROVE RebuildInv
    OBVIOUS
  <1>1. /\ scenario \in Scenarios /\ mem = scenario.mem /\ header = scenario.header
        /\ bad = scenario.bad /\ headers = {header}
        /\ had = [a \in DOMAIN mem |-> {mem[a]}] /\ wasBad = bad /\ wasGood = Pages \ bad
        /\ soi = scenario.size /\ chunk = 0 /\ buf = NothingRead /\ file = NoFile
    BY DEF RebuildInit
  <1>2. stage \in {"diff", "head", "loose"}
    BY DEF RebuildInit
  <1>3. History
    BY <1>1, <1>2 DEF History, Reachable
  <1>4. Extent
    BY <1>1, <1>2 DEF Extent
  <1>5. soi \in Nat
    BY <1>1, RebuildAssumption
  <1>6. BufferTrue
    <2>1. /\ buf.cells = <<>> /\ buf.gaps = {} /\ buf.head = NoHeader /\ DOMAIN buf.cells = {}
      BY <1>1 DEF NothingRead
    <2>2. \A a \in Cells(0, soi) : ~(Page(a) + 1 < chunk)
      <3>1. ASSUME NEW a \in Cells(0, soi) PROVE Page(a) \in Nat
        BY <1>5, PageOf, CellsAre
      <3> QED BY <1>1, <3>1
    <2>3. \A k \in Chunks(soi) : ~(k + 1 < chunk)
      <3>1. \A k \in Chunks(soi) : k \in Nat
        BY <1>5, ChunksAre
      <3> QED BY <1>1, <3>1
    <2> QED BY <2>1, <2>2, <2>3 DEF BufferTrue
  <1>7. FileTrue
    BY <1>1, <1>2 DEF FileTrue, Made
  <1> QED BY <1>3, <1>4, <1>6, <1>7 DEF RebuildInv

(* A change of the target adds to its history, and touches nothing else.   *)
LEMMA TargetKeeps ==
    RebuildInv /\ stage \notin Over /\ (Write \/ ChangeHeader \/ Protect) => RebuildInv'
  <1> SUFFICES ASSUME RebuildInv, stage \notin Over, Write \/ ChangeHeader \/ Protect
               PROVE  RebuildInv'
    OBVIOUS
  <1> USE DEF RebuildInv
  <1>1. UNCHANGED <<scenario, stage, section, diff, soi, chunk, buf, file>>
    BY DEF Write, ChangeHeader, Protect, TargetChanges, readVars
  <1>2. /\ DOMAIN mem' = DOMAIN mem /\ DOMAIN had' = DOMAIN had
        /\ \A a \in DOMAIN mem : mem'[a] \in had'[a] /\ had[a] \subseteq had'[a]
        /\ header' \in headers' /\ headers \subseteq headers'
        /\ headers' \subseteq {scenario.header} \cup scenario.headers
        /\ bad' \subseteq wasBad' /\ wasBad \subseteq wasBad'
        /\ Pages' = Pages /\ Pages \ bad' \subseteq wasGood' /\ wasGood \subseteq wasGood'
    <2>1. CASE Write
      <3>1. PICK p \in scenario.patches :
               /\ mem' = [mem EXCEPT ![p[1]] = p[2]]
               /\ had' = [had EXCEPT ![p[1]] = @ \cup {p[2]}]
               /\ UNCHANGED <<header, bad, headers, wasBad, wasGood>>
        BY <2>1 DEF Write
      <3>2. DOMAIN mem' = DOMAIN mem /\ DOMAIN had' = DOMAIN had
        BY <3>1
      <3>3. \A a \in DOMAIN mem : mem'[a] \in had'[a] /\ had[a] \subseteq had'[a]
        BY <3>1 DEF History
      <3>4. Pages' = Pages
        BY <3>2 DEF Pages
      <3> QED BY <3>1, <3>2, <3>3, <3>4 DEF History
    <2>2. CASE ChangeHeader
      <3>1. PICK h \in scenario.headers :
               /\ header' = h /\ headers' = headers \cup {h}
               /\ UNCHANGED <<mem, bad, had, wasBad, wasGood>>
        BY <2>2 DEF ChangeHeader
      <3> QED BY <3>1 DEF History, Pages
    <2>3. CASE Protect
      <3>1. /\ wasBad' = wasBad \cup bad' /\ wasGood' = wasGood \cup (Pages \ bad')
            /\ UNCHANGED <<header, mem, had, headers>>
        BY <2>3 DEF Protect
      <3> QED BY <3>1 DEF History, Pages
    <2> QED BY <2>1, <2>2, <2>3
  <1> HIDE DEF Pages
  <1>3. Seen \subseteq Seen'
    BY <1>2 DEF Seen
  <1>4. History'
    BY <1>1, <1>2 DEF History
  <1>5. Extent'
    BY <1>1, <1>3 DEF Extent, NothingRead
  <1>6. BufferTrue'
    <2>0. soi \in Nat /\ Cells(0, soi) \subseteq DOMAIN mem
      BY ExtentFits DEF Extent
    <2>1. DOMAIN buf'.cells = {a \in Cells(0, soi') : Page(a) + 1 < chunk'}
      BY <1>1 DEF BufferTrue
    <2>2. DOMAIN buf.cells \subseteq DOMAIN mem
      BY <2>0 DEF BufferTrue
    <2>3. \A a \in DOMAIN buf'.cells :
             buf'.cells[a] \in had'[a] \/ (buf'.cells[a] = 0 /\ Page(a) \in wasBad')
      BY <1>1, <1>2, <2>2 DEF BufferTrue
    <2>4. \A k \in buf'.gaps : k \in Chunks(soi') /\ k \in wasBad'
      BY <1>1, <1>2 DEF BufferTrue
    <2>5. \A k \in Chunks(soi') : k + 1 < chunk' => k \in buf'.gaps \/ k \in wasGood'
      BY <1>1, <1>2 DEF BufferTrue
    <2>6. buf'.head \in headers' \cup {NoHeader}
      BY <1>1, <1>2 DEF BufferTrue
    <2> QED BY <2>1, <2>3, <2>4, <2>5, <2>6 DEF BufferTrue
  <1>7. FileTrue'
    <2>1. Heads \subseteq Heads'
      BY <1>1, <1>3 DEF Heads
    <2>2. \A h : Plain(h)' = Plain(h)
      BY <1>1 DEF Plain, Artifact
    <2>3. \A h : Imaged(h)' = Imaged(h)
      BY <2>2 DEF Imaged
    <2>4. AllRead' = AllRead
      BY <1>1 DEF AllRead
    <2>5. stage # "done"
      BY DEF Over
    <2> QED BY <1>1, <2>1, <2>2, <2>3, <2>4, <2>5 DEF FileTrue
  <1> QED BY <1>4, <1>5, <1>6, <1>7

(* The program's steps.                                                    *)
LEMMA BeforeReading ==
    RebuildInv /\ (DiffHead \/ DiffSection \/ ReadHead) => RebuildInv'
  <1> SUFFICES ASSUME RebuildInv, DiffHead \/ DiffSection \/ ReadHead PROVE RebuildInv'
    OBVIOUS
  <1> USE DEF RebuildInv
  <1>1. /\ stage \in {"diff", "sections", "head"}
        /\ UNCHANGED <<scenario, targetVars, file>>
    BY DEF DiffHead, DiffSection, ReadHead
  <1>2. chunk = 0 /\ buf = NothingRead /\ file = NoFile
    BY <1>1 DEF Extent, FileTrue, Made
  <1>3. /\ chunk' = 0 /\ buf' = NothingRead
        /\ \/ stage' \in {"sections", "head", "failed"} /\ soi' = soi
           \/ stage' = "loose" /\ soi' = scenario.size
           \/ stage' = "image" /\ \E h \in Seen : soi' = h.soi
    <2>1. CASE DiffHead \/ DiffSection
      BY <1>1, <1>2, <2>1 DEF DiffHead, DiffSection, readVars
    <2>2. CASE ReadHead
      <3>1. CASE HeaderRead = NoHeader
        BY <1>2, <2>2, <3>1 DEF ReadHead, NoImage
      <3>2. CASE HeaderRead # NoHeader
        <4>1. HeaderRead \in Seen
          BY <3>2 DEF HeaderRead, History, Seen
        <4>2. stage' = "image" /\ soi' = HeaderRead.soi /\ UNCHANGED <<chunk, buf>>
          BY <2>2, <3>2 DEF ReadHead
        <4> QED BY <1>2, <4>1, <4>2
      <3> QED BY <3>1, <3>2
    <2> QED BY <2>1, <2>2
  <1>4. History'
    BY <1>1, <1>3 DEF History, targetVars, Reachable, Over, Pages
  <1>5. Seen' = Seen
    BY <1>1 DEF Seen, targetVars
  <1>6. Extent'
    BY <1>1, <1>3, <1>5 DEF Extent, NothingRead, targetVars
  <1>7. BufferTrue'
    <2>1. soi' \in Nat
      BY <1>3, ExtentFits DEF Extent
    <2>2. /\ DOMAIN buf'.cells = {} /\ buf'.gaps = {} /\ buf'.head = NoHeader
      BY <1>3 DEF NothingRead
    <2>3. \A a \in Cells(0, soi') : ~(Page(a) + 1 < chunk')
      <3>1. ASSUME NEW a \in Cells(0, soi') PROVE Page(a) \in Nat
        BY <2>1, PageOf, CellsAre
      <3> QED BY <1>3, <3>1
    <2>4. \A k \in Chunks(soi') : ~(k + 1 < chunk')
      <3>1. \A k \in Chunks(soi') : k \in Nat
        BY <2>1, ChunksAre
      <3> QED BY <1>3, <3>1
    <2> QED BY <2>2, <2>3, <2>4 DEF BufferTrue
  <1>8. FileTrue'
    BY <1>1, <1>2, <1>3 DEF FileTrue, Made
  <1> QED BY <1>4, <1>6, <1>7, <1>8

LEMMA WholeReadKeeps == RebuildInv /\ ReadWhole => RebuildInv'
  <1> SUFFICES ASSUME RebuildInv, ReadWhole PROVE RebuildInv'
    OBVIOUS
  <1> USE DEF RebuildInv
  <1>1. /\ stage \in {"image", "loose"} /\ chunk = 0 /\ soi # 0
        /\ UNCHANGED <<scenario, targetVars, stage, soi, file>>
    BY DEF ReadWhole, Reading
  <1>2. /\ soi \in Nat \ {0} /\ Cells(0, soi) \subseteq DOMAIN mem
        /\ IsFiniteSet(Chunks(soi)) /\ Cardinality(Chunks(soi)) \in Nat
    BY <1>1, ExtentFits, ChunksAre DEF Extent
  <1>3. \A a \in Cells(0, soi) : Page(a) \in Chunks(soi) /\ Page(a) \in Nat
    BY <1>2, PageIsChunk, PageOf, CellsAre
  <1>4. \A k \in Chunks(soi) : k \in Nat /\ k + 1 <= Cardinality(Chunks(soi))
    BY <1>2, ChunksAre
  <1>5. History' /\ Seen' = Seen
    BY <1>1 DEF History, targetVars, Pages, Seen
  <1>6. chunk' \in Nat
    BY <1>2 DEF ReadWhole
  <1>7. Extent'
    BY <1>1, <1>5, <1>6 DEF Extent
  <1>8. FileTrue'
    BY <1>1 DEF FileTrue, Made
  <1>9. UNCHANGED <<mem, had, bad, wasBad, wasGood, headers, header>>
    BY <1>1 DEF targetVars
  <1>10. BufferTrue'
    <2>1. CASE Reads(bad, 0, soi)
      <3>1. /\ buf' = [head |-> header, cells |-> [a \in Cells(0, soi) |-> mem[a]], gaps |-> {}]
            /\ chunk' = Cardinality(Chunks(soi)) + 1
        BY <2>1 DEF ReadWhole
      <3>2. /\ buf'.head = header /\ buf'.gaps = {}
            /\ buf'.cells = [a \in Cells(0, soi) |-> mem[a]]
        BY <3>1
      <3>3. \A a \in Cells(0, soi) : Page(a) + 1 < chunk'
        BY <1>2, <1>3, <1>4, <3>1
      <3>4. DOMAIN buf'.cells = {a \in Cells(0, soi) : Page(a) + 1 < chunk'}
        BY <3>2, <3>3
      <3>5. \A a \in Cells(0, soi) : buf'.cells[a] \in had[a]
        BY <1>2, <3>2 DEF History
      <3>6. \A k \in Chunks(soi) : k \in wasGood
        <4>1. TAKE k \in Chunks(soi)
        <4>2. k \notin bad
          BY <1>2, <2>1, WholeRead
        <4>3. k \in Pages
          <5>1. k * PageSize \in Cells(0, soi) /\ Page(k * PageSize) = k
            BY <1>2, ChunkIsPage
          <5> QED BY <1>2, <5>1 DEF Pages
        <4> QED BY <4>2, <4>3 DEF History
      <3>7. header \in headers
        BY DEF History
      <3>8. \A a \in DOMAIN buf'.cells :
               buf'.cells[a] \in had'[a] \/ (buf'.cells[a] = 0 /\ Page(a) \in wasBad')
        <4>1. DOMAIN buf'.cells = Cells(0, soi) /\ had' = had
          BY <1>9, <3>2
        <4> QED BY <3>5, <4>1, Zenon
      <3>9. DOMAIN buf'.cells = {a \in Cells(0, soi') : Page(a) + 1 < chunk'}
        BY <1>1, <3>4
      <3>10. \A k \in Chunks(soi') : k + 1 < chunk' => k \in buf'.gaps \/ k \in wasGood'
        BY <1>1, <1>9, <3>6
      <3> QED BY <1>9, <3>2, <3>7, <3>8, <3>9, <3>10 DEF BufferTrue
    <2>2. CASE ~Reads(bad, 0, soi)
      <3>1. chunk' = 1 /\ buf' = buf
        BY <2>2 DEF ReadWhole
      <3>2. \A a \in Cells(0, soi) : ~(Page(a) + 1 < 1) /\ ~(Page(a) + 1 < 0)
        BY <1>3
      <3>3. \A k \in Chunks(soi) : ~(k + 1 < 1)
        BY <1>4
      <3> QED BY <1>1, <1>9, <3>1, <3>2, <3>3 DEF BufferTrue
    <2> QED BY <2>1, <2>2
  <1> QED BY <1>5, <1>7, <1>8, <1>10

LEMMA NextReadKeeps == RebuildInv /\ ReadNext => RebuildInv'
  <1> SUFFICES ASSUME RebuildInv, ReadNext PROVE RebuildInv'
    OBVIOUS
  <1> USE DEF RebuildInv
  <1> DEFINE k == chunk - 1
             ok == ReadsChunk(bad, 0, soi, k)
             cells == Cells(k * PageSize, ChunkLength(soi, k))
  <1>1. /\ stage \in {"image", "loose"} /\ chunk # 0 /\ ~AllRead /\ chunk' = chunk + 1
        /\ UNCHANGED <<scenario, targetVars, stage, soi, file>>
    BY DEF ReadNext, Reading
  <1>2. buf' = [head |-> IF k = 0 /\ ok THEN header ELSE buf.head,
                cells |-> [a \in DOMAIN buf.cells \cup cells |->
                             IF a \notin cells THEN buf.cells[a]
                             ELSE IF ok THEN mem[a] ELSE 0],
                gaps |-> IF ok THEN buf.gaps ELSE buf.gaps \cup {k}]
    BY DEF ReadNext
  <1>3. /\ soi \in Nat /\ Cells(0, soi) \subseteq DOMAIN mem
        /\ IsFiniteSet(Chunks(soi)) /\ Cardinality(Chunks(soi)) \in Nat
    BY <1>1, ExtentFits, ChunksAre DEF Extent
  <1>4. chunk \in Nat /\ k \in Nat /\ k + 1 = chunk
    BY <1>1 DEF Extent
  <1>5. k \in Chunks(soi)
    BY <1>1, <1>3, <1>4, ChunksAre DEF AllRead
  <1>6. /\ ok <=> k \notin bad
        /\ \A a : a \in cells <=> a \in Cells(0, soi) /\ Page(a) = k
    BY <1>3, <1>5, ChunkRead
  <1>7. UNCHANGED <<mem, had, bad, wasBad, wasGood, headers, header>>
    BY <1>1 DEF targetVars
  <1>8. \A a \in Cells(0, soi) : Page(a) \in Nat
    BY <1>3, PageOf, CellsAre
  <1>9. k \in Pages
    <2>1. k * PageSize \in Cells(0, soi) /\ Page(k * PageSize) = k
      BY <1>3, <1>5, ChunkIsPage
    <2> QED BY <1>3, <2>1 DEF Pages
  <1> HIDE DEF k, ok, cells
  <1>10. /\ buf'.head = (IF k = 0 /\ ok THEN header ELSE buf.head)
         /\ buf'.cells = [a \in DOMAIN buf.cells \cup cells |->
                             IF a \notin cells THEN buf.cells[a]
                             ELSE IF ok THEN mem[a] ELSE 0]
         /\ buf'.gaps = (IF ok THEN buf.gaps ELSE buf.gaps \cup {k})
    BY <1>2
  <1>11. BufferTrue'
    <2>1. DOMAIN buf'.cells = {a \in Cells(0, soi) : Page(a) + 1 < chunk + 1}
      <3>1. DOMAIN buf'.cells = DOMAIN buf.cells \cup cells
        BY <1>10
      <3>2. \A a : a \in DOMAIN buf.cells <=> a \in Cells(0, soi) /\ Page(a) + 1 < chunk
        BY DEF BufferTrue
      <3>3. \A a \in Cells(0, soi) :
               Page(a) + 1 < chunk + 1 <=> Page(a) + 1 < chunk \/ Page(a) = k
        BY <1>4, <1>8
      <3> QED BY <1>6, <3>1, <3>2, <3>3
    <2>2. \A a \in DOMAIN buf'.cells :
             buf'.cells[a] \in had[a] \/ (buf'.cells[a] = 0 /\ Page(a) \in wasBad)
      <3>1. TAKE a \in DOMAIN buf'.cells
      <3>2. CASE a \in cells
        <4>1. a \in Cells(0, soi) /\ Page(a) = k /\ mem[a] \in had[a]
          BY <1>3, <1>6, <3>2 DEF History
        <4>2. buf'.cells[a] = IF ok THEN mem[a] ELSE 0
          BY <1>10, <3>2
        <4>3. ~ok => Page(a) \in wasBad
          BY <1>6, <4>1 DEF History
        <4>4. CASE ok
          <5>1. buf'.cells[a] = mem[a]
            BY <4>2, <4>4, Zenon
          <5>2. mem[a] \in had[a]
            BY <4>1, Zenon
          <5> QED BY <5>1, <5>2, Zenon
        <4>5. CASE ~ok
          BY <4>2, <4>3, <4>5
        <4> QED BY <4>4, <4>5
      <3>3. CASE a \notin cells
        <4>1. a \in DOMAIN buf.cells /\ buf'.cells[a] = buf.cells[a]
          BY <1>10, <3>3
        <4> QED BY <4>1 DEF BufferTrue
      <3> QED BY <3>2, <3>3
    <2>3. \A j \in buf'.gaps : j \in Chunks(soi) /\ j \in wasBad
      BY <1>5, <1>6, <1>10 DEF BufferTrue, History
    <2>4. \A j \in Chunks(soi) : j + 1 < chunk + 1 => j \in buf'.gaps \/ j \in wasGood
      <3>1. TAKE j \in Chunks(soi)
      <3>2. HAVE j + 1 < chunk + 1
      <3>3. j \in Nat
        BY <1>3, ChunksAre
      <3>4. CASE j = k
        <4>1. ok => j \in wasGood
          BY <1>6, <1>9, <3>4 DEF History
        <4> QED BY <1>10, <3>4, <4>1
      <3>5. CASE j # k
        <4>1. j + 1 < chunk
          BY <1>4, <3>2, <3>3, <3>5
        <4>2. j \in buf.gaps \/ j \in wasGood
          BY <4>1 DEF BufferTrue
        <4> QED BY <1>10, <4>2
      <3> QED BY <3>4, <3>5
    <2>5. buf'.head \in headers \cup {NoHeader}
      BY <1>10 DEF BufferTrue, History
    <2> QED BY <1>1, <1>7, <2>1, <2>2, <2>3, <2>4, <2>5 DEF BufferTrue
  <1>12. History' /\ Seen' = Seen
    BY <1>1, <1>7 DEF History, Pages, Seen
  <1>13. Extent'
    BY <1>1, <1>4, <1>12 DEF Extent
  <1>14. FileTrue'
    BY <1>1 DEF FileTrue, Made
  <1> QED BY <1>11, <1>12, <1>13, <1>14

LEMMA AfterReading ==
    RebuildInv /\ (Align \/ Synthesize \/ ResolveImports \/ SetEntry) => RebuildInv'
  <1> SUFFICES ASSUME RebuildInv, Align \/ Synthesize \/ ResolveImports \/ SetEntry
               PROVE  RebuildInv'
    OBVIOUS
  <1> USE DEF RebuildInv
  <1>1. UNCHANGED <<scenario, targetVars>>
    BY DEF Align, Synthesize, ResolveImports, SetEntry
  <1>2. UNCHANGED <<mem, had, bad, wasBad, wasGood, headers, header>> /\ Seen' = Seen
    BY <1>1 DEF targetVars, Seen
  <1>3. CASE NoImage /\ UNCHANGED file /\ stage = "image"
    <2>1. /\ stage' \in {"loose", "failed"} /\ file' = NoFile
          /\ chunk' = 0 /\ buf' = NothingRead /\ (soi' = soi \/ soi' = scenario.size)
          /\ stage' = "loose" => soi' = scenario.size
      BY <1>3 DEF NoImage, FileTrue, Made
    <2>2. History'
      BY <1>1, <1>2, <2>1 DEF History, Pages, Reachable, Over
    <2>3. Extent'
      <3>1. soi' = scenario.size \/ \E h \in Seen : soi' = h.soi
        BY <2>1 DEF Extent
      <3> QED BY <1>1, <1>2, <2>1, <3>1 DEF Extent
    <2>4. BufferTrue'
      <3>1. soi' \in Nat
        <4>1. soi \in Nat /\ scenario.size \in Nat
          BY ExtentFits DEF Extent
        <4> QED BY <2>1, <4>1
      <3>2. /\ DOMAIN buf'.cells = {} /\ buf'.gaps = {} /\ buf'.head = NoHeader
        BY <2>1 DEF NothingRead
      <3>3. \A a \in Cells(0, soi') : ~(Page(a) + 1 < chunk')
        <4>1. ASSUME NEW a \in Cells(0, soi') PROVE Page(a) \in Nat
          BY <3>1, PageOf, CellsAre
        <4> QED BY <2>1, <4>1
      <3>4. \A k \in Chunks(soi') : ~(k + 1 < chunk')
        <4>1. \A k \in Chunks(soi') : k \in Nat
          BY <3>1, ChunksAre
        <4> QED BY <2>1, <4>1
      <3> QED BY <3>2, <3>3, <3>4 DEF BufferTrue
    <2>5. FileTrue'
      BY <2>1 DEF FileTrue, Made
    <2> QED BY <2>2, <2>3, <2>4, <2>5
  <1>4. CASE UNCHANGED readVars /\ stage' \in Reachable
                                /\ stage' \notin {"diff", "sections", "head", "image", "loose"}
                                /\ FileTrue'
    <2>1. UNCHANGED <<soi, chunk, buf>>
      BY <1>4 DEF readVars
    <2>2. History'
      BY <1>1, <1>2, <1>4 DEF History, Pages
    <2>3. Extent'
      BY <1>1, <1>2, <1>4, <2>1 DEF Extent
    <2>4. BufferTrue'
      BY <1>2, <2>1 DEF BufferTrue
    <2> QED BY <1>4, <2>2, <2>3, <2>4
  <1>5. ASSUME UNCHANGED readVars
        PROVE  /\ Heads' = Heads /\ AllRead' = AllRead
               /\ \A h : Plain(h)' = Plain(h) /\ Imaged(h)' = Imaged(h)
               /\ \A h : Entered(h)' = Entered(h)
               /\ Loose' = Loose
    <2>1. UNCHANGED <<soi, chunk, buf>>
      BY <1>5 DEF readVars
    <2>2. \A h : Plain(h)' = Plain(h)
      BY <2>1 DEF Plain, Artifact
    <2>3. \A h : Imaged(h)' = Imaged(h)
      BY <2>2 DEF Imaged
    <2>4. \A h : Entered(h)' = Entered(h)
      BY <1>1, <2>3 DEF Entered
    <2>5. Loose' = Loose
      BY <2>1 DEF Loose, LooseCells, Artifact
    <2>6. Heads' = Heads
      BY <1>2, <2>1 DEF Heads
    <2>7. AllRead' = AllRead
      BY <2>1 DEF AllRead
    <2> QED BY <2>2, <2>3, <2>4, <2>5, <2>6, <2>7
  <1>6. CASE Align
    <2>1. stage = "image" /\ AllRead
      BY <1>6 DEF Align
    <2>2. CASE buf.head # NoHeader /\ Alignable(buf.head, soi)
      <3>1. /\ file' = Plain(buf.head) /\ stage' \in {"imports", "done"} /\ UNCHANGED readVars
        BY <1>6, <2>2 DEF Align, Plain
      <3>2. buf.head \in Heads
        BY <2>1, <2>2 DEF Heads, Seen, BufferTrue, Extent
      <3>a. PICK h \in Heads : h = buf.head
        BY <3>2
      <3>b. file' = Plain(h) /\ file' \in Imaged(h) /\ file' \in Entered(h)
        BY <3>1, <3>a DEF Imaged, Entered
      <3>3. file' = Plain(h)' /\ file' \in Imaged(h)' /\ file' \in Entered(h)' /\ h \in Heads'
        BY <1>5, <3>1, <3>b
      <3>4. FileTrue'
        BY <1>5, <2>1, <3>1, <3>3 DEF FileTrue, Made
      <3> QED BY <1>4, <3>1, <3>4 DEF Reachable, Over
    <2>3. CASE ~(buf.head # NoHeader /\ Alignable(buf.head, soi))
      BY <1>3, <1>6, <2>1, <2>3 DEF Align
    <2> QED BY <2>2, <2>3
  <1>7. CASE Synthesize
    <2>1. /\ stage = "loose" /\ AllRead /\ UNCHANGED readVars
          /\ \/ stage' = "skipped" /\ UNCHANGED file
             \/ stage' = "done" /\ file' = Loose
      BY <1>7 DEF Synthesize, Loose, LooseCells
    <2>2. FileTrue'
      BY <1>5, <2>1 DEF FileTrue, Made
    <2> QED BY <1>4, <2>1, <2>2 DEF Reachable, Over
  <1>8. CASE ResolveImports
    <2>1. /\ stage = "imports" /\ stage' = "entry" /\ UNCHANGED readVars
          /\ file' \in {file, RebuildImports(file)}
      BY <1>8 DEF ResolveImports
    <2>2. PICK h \in Heads : file = Plain(h)
      BY <2>1 DEF FileTrue
    <2>3. file' \in Imaged(h) /\ AllRead
      BY <2>1, <2>2 DEF Imaged, FileTrue, Made
    <2>4. FileTrue'
      BY <1>5, <2>1, <2>3 DEF FileTrue, Made
    <2> QED BY <1>4, <2>1, <2>4 DEF Reachable, Over
  <1>9. CASE SetEntry
    <2>1. /\ stage = "entry" /\ stage' = "done" /\ UNCHANGED readVars
          /\ file' \in {file, [file EXCEPT !.head.entry = scenario.oep]}
      BY <1>9 DEF SetEntry
    <2>2. PICK h \in Heads : file \in Imaged(h)
      BY <2>1 DEF FileTrue
    <2>3. file' \in Entered(h) /\ AllRead
      BY <2>1, <2>2 DEF Entered, FileTrue, Made
    <2>4. FileTrue'
      BY <1>5, <2>1, <2>3 DEF FileTrue, Made
    <2> QED BY <1>4, <2>1, <2>4 DEF Reachable, Over
  <1> QED BY <1>6, <1>7, <1>8, <1>9

LEMMA StutterKeeps == RebuildInv /\ UNCHANGED rebuildVars => RebuildInv'
  <1> SUFFICES ASSUME RebuildInv, UNCHANGED rebuildVars PROVE RebuildInv'
    OBVIOUS
  <1>1. /\ UNCHANGED <<scenario, stage, section, diff, file, soi, chunk, buf>>
        /\ UNCHANGED <<header, mem, bad, changes, had, headers, wasBad, wasGood>>
    BY DEF rebuildVars, targetVars, readVars
  <1>2. Seen' = Seen /\ Pages' = Pages /\ AllRead' = AllRead /\ Heads' = Heads
    BY <1>1 DEF Seen, Pages, AllRead, Heads
  <1>3. \A h : Plain(h)' = Plain(h)
    BY <1>1 DEF Plain, Artifact
  <1>4. \A h : Imaged(h)' = Imaged(h)
    BY <1>3 DEF Imaged
  <1>5. \A h : Entered(h)' = Entered(h)
    BY <1>1, <1>4 DEF Entered
  <1>6. Loose' = Loose
    BY <1>1 DEF Loose, LooseCells, Artifact
  <1>7. History' /\ Extent' /\ BufferTrue'
    BY <1>1, <1>2 DEF RebuildInv, History, Extent, BufferTrue, NothingRead
  <1>8. FileTrue'
    BY <1>1, <1>2, <1>3, <1>4, <1>5, <1>6 DEF RebuildInv, FileTrue
  <1> QED BY <1>7, <1>8 DEF RebuildInv

LEMMA RebuildInvariant == RebuildSpec => []RebuildInv
  <1>1. RebuildInv /\ [RebuildNext]_rebuildVars => RebuildInv'
    BY TargetKeeps, BeforeReading, WholeReadKeeps, NextReadKeeps, AfterReading, StutterKeeps
       DEF RebuildNext
  <1> QED BY <1>1, StartHolds, PTL DEF RebuildSpec

-----------------------------------------------------------------------------
(* What an artifact looks like.                                            *)

\* As it was read, or with a section of size bytes behind it, dir of them the directory.
AsRead(f, h) ==
    /\ f.len = soi /\ f.cells = buf.cells /\ f.objects = {}
    /\ f.head.soi = h.soi /\ f.head.hsize = h.align /\ f.head.imports = h.imports
    /\ f.head.secs = MemoryAlign(h).secs
Extended(f, h, size, dir) ==
    LET rva == RoundUp(h.soi, h.align)
        raw == RoundUp(size, h.align)
    IN  /\ f.len = rva + raw /\ f.head.soi = rva + raw /\ f.head.hsize = h.align
        /\ f.cells = [o \in Cells(0, rva + raw) |->
                        IF o \in DOMAIN buf.cells THEN buf.cells[o] ELSE 0]
        /\ f.head.imports = rva /\ f.head.importSize = dir
        /\ f.head.secs = Append(MemoryAlign(h).secs,
                                [va |-> rva, vsize |-> size, raw |-> rva, rawsize |-> raw])
        /\ HasSlack(MemoryAlign(h))

Shaped(f, h) ==
    /\ f.shift = 0 /\ f.gaps = Cardinality(buf.gaps)
    /\ \/ AsRead(f, h)
       \/ \E size, dir \in Nat : dir # 0 /\ dir <= size /\ Extended(f, h, size, dir)

LEMMA HeadFits ==
    ASSUME RebuildInv, AllRead, NEW h \in Heads
    PROVE  /\ h \in Headers /\ h \in Seen /\ h.soi \in Nat /\ h.align \in Nat \ {0}
           /\ soi \in Nat /\ DOMAIN buf.cells = Cells(0, soi)
           /\ MemoryAlign(h) = [h EXCEPT !.falign = h.align, !.hsize = h.align,
                                         !.secs = [i \in DOMAIN h.secs |->
                                                     AlignSection(h, h.secs[i])]]
  <1>1. h \in Headers /\ h \in Seen /\ soi \in Nat
    BY ExtentFits DEF RebuildInv, Extent, Heads
  <1>2. h.align # 0
    BY DEF Heads, Alignable
  <1>3. h.soi \in Nat /\ h.align \in Nat \ {0}
    BY <1>1, <1>2 DEF Headers
  <1>4. DOMAIN buf.cells = {a \in Cells(0, soi) : Page(a) + 1 < chunk}
    BY DEF RebuildInv, BufferTrue
  <1>5. ASSUME NEW a \in Cells(0, soi) PROVE Page(a) + 1 < chunk
    <2>1. Page(a) \in Chunks(soi) /\ Cardinality(Chunks(soi)) \in Nat
      BY <1>1, ChunksAre, PageIsChunk
    <2>2. Page(a) \in Nat /\ Page(a) + 1 <= Cardinality(Chunks(soi))
      BY <1>1, <2>1, ChunksAre
    <2>3. soi # 0
      BY <1>1, <1>5, CellsAre
    <2>4. chunk > Cardinality(Chunks(soi)) /\ chunk \in Nat
      BY <2>3 DEF AllRead, RebuildInv, Extent
    <2> QED BY <2>1, <2>2, <2>4
  <1>6. DOMAIN buf.cells = Cells(0, soi)
    BY <1>4, <1>5
  <1> QED BY <1>1, <1>3, <1>6 DEF MemoryAlign

\* An artifact is a record of these fields.
IsArtifact(f) ==
    /\ f = [head |-> f.head, shift |-> f.shift, len |-> f.len, cells |-> f.cells,
            objects |-> f.objects, gaps |-> f.gaps]
    /\ f.head \in Headers

LEMMA AnnounceIs ==
    ASSUME NEW head \in Headers, NEW idata,
           idata.rva \in Nat, idata.size \in Nat, idata.dirSize \in Nat
    PROVE  LET h == Announce(head, idata)
           IN  /\ h \in Headers
               /\ h.soi = EndOf(head, idata) /\ h.hsize = head.hsize
               /\ h.imports = idata.rva /\ h.importSize = idata.dirSize
               /\ h.secs = Append(head.secs, [va |-> idata.rva, vsize |-> idata.size,
                                              raw |-> idata.rva,
                                              rawsize |-> EndOf(head, idata) - idata.rva])
  <1> DEFINE sec == [va |-> idata.rva, vsize |-> idata.size, raw |-> idata.rva,
                     rawsize |-> EndOf(head, idata) - idata.rva]
  <1>1. RoundUp(idata.size, head.align) \in Nat
    <2>1. head.align \in Nat
      BY DEF Headers
    <2>2. CASE head.align = 0
      BY <2>2 DEF RoundUp
    <2>3. CASE head.align # 0
      BY <2>1, <2>3, RoundUpBounds
    <2> QED BY <2>2, <2>3
  <1>2. EndOf(head, idata) \in Nat /\ EndOf(head, idata) - idata.rva \in Nat
    BY <1>1 DEF EndOf
  <1>3. sec \in SectionHeaders
    BY <1>2 DEF SectionHeaders
  <1> HIDE DEF sec
  <1>4. Append(head.secs, sec) \in Seq(SectionHeaders)
    BY <1>3 DEF Headers
  <1>5. Announce(head, idata) =
          [head EXCEPT !.soi = EndOf(head, idata), !.imports = idata.rva,
                       !.importSize = idata.dirSize, !.bound = 0,
                       !.secs = Append(head.secs, sec)]
    BY DEF Announce, sec
  <1>6. 0 \in Nat
    OBVIOUS
  <1> QED BY <1>2, <1>4, <1>5, <1>6 DEF Headers, sec

LEMMA AppendIs ==
    ASSUME NEW f, NEW idata, IsArtifact(f),
           idata.rva \in Nat, idata.size \in Nat, idata.dirSize \in Nat
    PROVE  LET g == AppendSection(f, idata)
           IN  /\ IsArtifact(g)
               /\ g.shift = f.shift /\ g.gaps = f.gaps /\ g.len = EndOf(f.head, idata)
               /\ g.cells = Padded(f.cells, EndOf(f.head, idata))
               /\ g.head = Announce(f.head, idata) /\ g.objects = Placed(f, idata)
  <1> DEFINE g == AppendSection(f, idata)
  <1>1. g = [head |-> Announce(f.head, idata), shift |-> f.shift, len |-> EndOf(f.head, idata),
             cells |-> Padded(f.cells, EndOf(f.head, idata)), objects |-> Placed(f, idata),
             gaps |-> f.gaps]
    <2> DEFINE e == EndOf(f.head, idata)
               c == Padded(f.cells, EndOf(f.head, idata))
               o == Placed(f, idata)
               h == Announce(f.head, idata)
    <2>1. g = [f EXCEPT !.len = e, !.cells = c, !.objects = o, !.head = h]
      BY DEF AppendSection
    <2> HIDE DEF g, e, c, o, h
    <2>2. g = [head |-> h, shift |-> f.shift, len |-> e, cells |-> c, objects |-> o,
               gaps |-> f.gaps]
      BY <2>1 DEF IsArtifact
    <2> QED BY <2>2 DEF e, c, o, h
  <1>2. Announce(f.head, idata) \in Headers
    BY AnnounceIs DEF IsArtifact
  <1> HIDE DEF g
  <1>3. /\ g.head = Announce(f.head, idata) /\ g.shift = f.shift /\ g.len = EndOf(f.head, idata)
        /\ g.cells = Padded(f.cells, EndOf(f.head, idata)) /\ g.objects = Placed(f, idata)
        /\ g.gaps = f.gaps
    BY <1>1
  <1>4. IsArtifact(g)
    BY <1>1, <1>2, <1>3 DEF IsArtifact
  <1> QED BY <1>3, <1>4 DEF g

LEMMA EntryIs ==
    ASSUME NEW f, NEW entry, IsArtifact(f)
    PROVE  LET g == [f EXCEPT !.head.entry = entry]
           IN  /\ g.shift = f.shift /\ g.gaps = f.gaps /\ g.len = f.len
               /\ g.cells = f.cells /\ g.objects = f.objects
               /\ g.head.soi = f.head.soi /\ g.head.hsize = f.head.hsize
               /\ g.head.imports = f.head.imports /\ g.head.importSize = f.head.importSize
               /\ g.head.secs = f.head.secs
  <1> DEFINE g == [f EXCEPT !.head.entry = entry]
             h == [f.head EXCEPT !.entry = entry]
  <1>1. g = [head |-> h, shift |-> f.shift, len |-> f.len, cells |-> f.cells,
             objects |-> f.objects, gaps |-> f.gaps]
    <2>1. g = [f EXCEPT !.head = h]
      OBVIOUS
    <2> HIDE DEF g, h
    <2> QED BY <2>1 DEF IsArtifact
  <1>2. /\ h.soi = f.head.soi /\ h.hsize = f.head.hsize
        /\ h.imports = f.head.imports /\ h.importSize = f.head.importSize
        /\ h.secs = f.head.secs
    BY DEF IsArtifact, Headers
  <1> HIDE DEF g, h
  <1>3. g.shift = f.shift /\ g.gaps = f.gaps /\ g.len = f.len
        /\ g.cells = f.cells /\ g.objects = f.objects /\ g.head = h
    BY <1>1
  <1> QED BY <1>2, <1>3 DEF g

\* What the artifact of a header is before its imports are rebuilt.
LEMMA PlainIs ==
    ASSUME RebuildInv, AllRead, NEW h \in Heads
    PROVE  LET p == Plain(h)
               M == MemoryAlign(h)
           IN  /\ p = [head |-> M, shift |-> 0, len |-> soi, cells |-> buf.cells, objects |-> {},
                        gaps |-> Cardinality(buf.gaps)]
               /\ M \in Headers /\ M.soi = h.soi /\ M.hsize = h.align /\ M.imports = h.imports
               /\ M.align = h.align /\ Len(M.secs) = Len(h.secs)
               /\ IsArtifact(p) /\ AsRead(p, h) /\ p.head = M
  <1> DEFINE p == Plain(h)
             M == MemoryAlign(h)
  <1>1. p = [head |-> M, shift |-> 0, len |-> soi, cells |-> buf.cells, objects |-> {},
             gaps |-> Cardinality(buf.gaps)]
    BY DEF Plain, Artifact
  <1>2. /\ M \in Headers /\ M.soi = h.soi /\ M.hsize = h.align /\ M.imports = h.imports
        /\ M.align = h.align /\ Len(M.secs) = Len(h.secs)
    <2>1. h \in Headers /\ h.align \in Nat \ {0} /\ h.soi \in Nat
      BY HeadFits
    <2>2. M = [h EXCEPT !.falign = h.align, !.hsize = h.align,
                        !.secs = [i \in DOMAIN h.secs |-> AlignSection(h, h.secs[i])]]
      BY DEF MemoryAlign
    <2> DEFINE secs == [i \in DOMAIN h.secs |-> AlignSection(h, h.secs[i])]
    <2>3. secs \in Seq(SectionHeaders) /\ Len(secs) = Len(h.secs)
      <3>1. h.secs \in Seq(SectionHeaders)
        BY <2>1 DEF Headers
      <3>2. \A i \in DOMAIN h.secs : AlignSection(h, h.secs[i]) \in SectionHeaders
        BY <2>1, <3>1, AlignedSection
      <3>3. DOMAIN h.secs = 1 .. Len(h.secs) /\ Len(h.secs) \in Nat
        BY <3>1
      <3>4. secs \in Seq(SectionHeaders)
        BY <3>2, <3>3
      <3> QED BY <3>3, <3>4
    <2> HIDE DEF secs, M
    <2> QED BY <2>1, <2>2, <2>3 DEF Headers, secs
  <1>3. IsArtifact(p) /\ p.head = M
    <2> HIDE DEF p, M
    <2> QED BY <1>1, <1>2 DEF IsArtifact
  <1>4. AsRead(p, h)
    <2> HIDE DEF p, M
    <2> QED BY <1>1, <1>2 DEF AsRead, M
  <1> QED BY <1>1, <1>2, <1>3, <1>4

\* The whole cells of an image, in which its pointers are looked for.
LEMMA WholeCellsAre ==
    ASSUME NEW len \in Nat
    PROVE  \E w \in Nat : {a \in Cells(0, len) : a + Ptr <= len} = Cells(0, w)
  <1> DEFINE q == len \div Ptr
             w == q * Ptr
  <1>1. Ptr \in Nat \ {0}
    BY PeImageAssumption
  <1>2. q \in Nat /\ w <= len /\ len < w + Ptr
    BY <1>1, Division
  <1> HIDE DEF q
  <1>3. w \in Nat /\ w % Ptr = 0
    <2>1. \E p \in Nat : w = p * Ptr
      BY <1>2
    <2> QED BY <2>1, Multiples
  <1> HIDE DEF w
  <1>4. ASSUME NEW a \in Nat, a % Ptr = 0 PROVE (a < len /\ a + Ptr <= len) <=> a < w
    <2>1. a < w => a + Ptr <= w
      BY <1>3, <1>4, CellGap
    <2> QED BY <1>1, <1>2, <1>3, <2>1
  <1>5. ASSUME NEW a PROVE (a \in Cells(0, len) /\ a + Ptr <= len) <=> a \in Cells(0, w)
    <2>1. a \in Cells(0, len) <=> a \in Nat /\ 0 <= a /\ a < 0 + len /\ a % Ptr = 0
      BY CellsAre
    <2>2. a \in Cells(0, w) <=> a \in Nat /\ 0 <= a /\ a < 0 + w /\ a % Ptr = 0
      BY <1>3, CellsAre
    <2> QED BY <1>2, <1>3, <1>4, <2>1, <2>2
  <1>6. {a \in Cells(0, len) : a + Ptr <= len} = Cells(0, w)
    BY <1>5
  <1> QED BY <1>3, <1>6

LEMMA PointersAre ==
    ASSUME RebuildInv, AllRead, NEW h \in Heads
    PROVE  /\ WholeCells(Plain(h)) = Pointers
           /\ \E w \in Nat : /\ DOMAIN Pointers = Cells(0, w)
                            /\ Cells(0, w) = {a \in Cells(0, soi) : a + Ptr <= soi}
           /\ \A a \in DOMAIN Pointers : a \in Cells(0, soi) /\ Pointers[a] = buf.cells[a]
  <1>1. soi \in Nat /\ DOMAIN buf.cells = Cells(0, soi)
    BY HeadFits
  <1>2. Plain(h).cells = buf.cells /\ Plain(h).len = soi
    BY PlainIs DEF AsRead
  <1>3. DOMAIN Pointers = {a \in Cells(0, soi) : a + Ptr <= soi}
    BY <1>1 DEF Pointers
  <1>4. \A a \in DOMAIN Pointers : a \in Cells(0, soi) /\ Pointers[a] = buf.cells[a]
    BY <1>3 DEF Pointers
  <1>5. WholeCells(Plain(h)) = Pointers
    BY <1>2 DEF WholeCells, Pointers
  <1> QED BY <1>1, <1>3, <1>4, <1>5, WholeCellsAre

\* And with the section of the descriptors behind it.
LEMMA RebuiltIs ==
    ASSUME RebuildInv, AllRead, NEW h \in Heads,
           Descriptors(Pointers) # <<>>, HasSlack(MemoryAlign(h))
    PROVE  LET r == RebuildImports(Plain(h))
               idata == Idata(MemoryAlign(h), Descriptors(Pointers))
           IN  /\ IsArtifact(r) /\ r.shift = 0 /\ r.gaps = Cardinality(buf.gaps)
               /\ idata.rva = RoundUp(h.soi, h.align)
               /\ idata.size \in Nat /\ idata.dirSize \in Nat \ {0} /\ idata.dirSize <= idata.size
               /\ Extended(r, h, idata.size, idata.dirSize)
               /\ r.objects = Placed(Plain(h), idata)
  <1> DEFINE p == Plain(h)
             r == RebuildImports(p)
             M == MemoryAlign(h)
             ds == Descriptors(Pointers)
             idata == Idata(M, ds)
  <1>1. /\ p.cells = buf.cells /\ p.head = M /\ p.shift = 0 /\ p.gaps = Cardinality(buf.gaps)
        /\ IsArtifact(p)
    BY PlainIs
  <1>2. /\ M \in Headers /\ M.soi = h.soi /\ M.hsize = h.align /\ M.align = h.align
    BY PlainIs
  <1>3. r = AppendSection(p, idata)
    <2>1. WholeCells(p) = Pointers
      BY PointersAre
    <2> HIDE DEF p
    <2> QED BY <1>1, <2>1 DEF RebuildImports
  <1>4. ds \in Seq(Descs)
    BY PointersAre, DescriptorsAre
  <1>5. M.align # 0
    BY <1>2, HeadFits
  <1> HIDE DEF ds
  <1>6. /\ idata.rva = RoundUp(h.soi, h.align) /\ idata.size \in Nat
        /\ idata.dirSize \in Nat \ {0} /\ idata.dirSize <= idata.size
    <2> HIDE DEF M
    <2> QED BY <1>2, <1>4, <1>5, IdataSized
  <1>7. RoundUp(h.soi, h.align) \in Nat /\ RoundUp(idata.size, h.align) \in Nat
    BY <1>6, HeadFits, RoundUpBounds
  <1>8. idata.rva \in Nat /\ idata.dirSize \in Nat
    BY <1>6, <1>7
  <1> HIDE DEF idata, M
  <1> DEFINE end == EndOf(M, idata)
  <1>9. end = idata.rva + RoundUp(idata.size, h.align)
        /\ end - idata.rva = RoundUp(idata.size, h.align)
    BY <1>2, <1>6, <1>7 DEF EndOf
  <1>10. /\ IsArtifact(r)
         /\ r.shift = 0 /\ r.gaps = Cardinality(buf.gaps) /\ r.len = end
         /\ r.cells = Padded(buf.cells, end) /\ r.head = Announce(M, idata)
         /\ r.objects = Placed(p, idata)
    <2> HIDE DEF r, p, end
    <2> QED BY <1>1, <1>3, <1>6, <1>8, AppendIs DEF end
  <1>11. /\ r.head.soi = end /\ r.head.hsize = M.hsize
         /\ r.head.imports = idata.rva /\ r.head.importSize = idata.dirSize
         /\ r.head.secs = Append(M.secs, [va |-> idata.rva, vsize |-> idata.size,
                                          raw |-> idata.rva, rawsize |-> end - idata.rva])
    <2> HIDE DEF r
    <2> QED BY <1>2, <1>6, <1>8, <1>10, AnnounceIs
  <1> HIDE DEF r, end
  <1>12. Extended(r, h, idata.size, idata.dirSize)
    BY <1>2, <1>6, <1>9, <1>10, <1>11 DEF Extended, M, Padded
  <1> QED BY <1>6, <1>10, <1>12 DEF r, p, M, idata, ds

LEMMA ArtifactShaped ==
    ASSUME RebuildInv, AllRead, NEW h \in Heads, NEW f \in Entered(h)
    PROVE  Shaped(f, h)
  <1> DEFINE p == Plain(h)
             r == RebuildImports(p)
             M == MemoryAlign(h)
             ds == Descriptors(Pointers)
  <1>1. /\ IsArtifact(p) /\ AsRead(p, h) /\ p.head = M /\ p.cells = buf.cells
        /\ p.shift = 0 /\ p.gaps = Cardinality(buf.gaps)
    BY PlainIs
  <1>2. Shaped(p, h)
    BY <1>1 DEF Shaped
  <1>3. IsArtifact(r) /\ Shaped(r, h)
    <2>1. CASE ~(ds # <<>> /\ HasSlack(M))
      <3>1. WholeCells(p) = Pointers
        BY PointersAre
      <3>2. r = p
        BY <1>1, <2>1, <3>1 DEF RebuildImports
      <3> QED BY <1>1, <1>2, <3>2
    <2>2. CASE ds # <<>> /\ HasSlack(M)
      <3> DEFINE idata == Idata(M, ds)
      <3>1. /\ IsArtifact(r) /\ r.shift = 0 /\ r.gaps = Cardinality(buf.gaps)
            /\ idata.size \in Nat /\ idata.dirSize \in Nat \ {0} /\ idata.dirSize <= idata.size
            /\ Extended(r, h, idata.size, idata.dirSize)
        BY <2>2, RebuiltIs
      <3> HIDE DEF idata, r
      <3> QED BY <3>1 DEF Shaped
    <2> QED BY <2>1, <2>2
  <1> HIDE DEF p, r
  <1>4. ASSUME NEW g \in {p, r}, f = [g EXCEPT !.head.entry = scenario.oep] PROVE Shaped(f, h)
    <2>1. Shaped(g, h) /\ IsArtifact(g)
      BY <1>1, <1>2, <1>3
    <2>2. /\ f.shift = g.shift /\ f.gaps = g.gaps /\ f.len = g.len /\ f.cells = g.cells
          /\ f.objects = g.objects
          /\ f.head.soi = g.head.soi /\ f.head.hsize = g.head.hsize
          /\ f.head.imports = g.head.imports /\ f.head.importSize = g.head.importSize
          /\ f.head.secs = g.head.secs
      BY <1>4, <2>1, EntryIs
    <2> QED BY <2>1, <2>2 DEF Shaped, AsRead, Extended
  <1>5. Imaged(h) = {p, r}
    BY DEF Imaged, p, r
  <1>6. f \in {p, r} \/ \E g \in {p, r} : f = [g EXCEPT !.head.entry = scenario.oep]
    BY <1>5 DEF Entered
  <1> QED BY <1>2, <1>3, <1>4, <1>6

-----------------------------------------------------------------------------
LEMMA ArtifactIs ==
    ASSUME RebuildInv, stage \in Made \/ file # NoFile
    PROVE  AllRead /\ (file = Loose \/ \E h \in Heads : Shaped(file, h))
  <1>1. stage \in Made /\ AllRead
    BY DEF RebuildInv, FileTrue
  <1>2. \A h : Plain(h) \in Entered(h) /\ Imaged(h) \subseteq Entered(h)
    BY DEF Imaged, Entered
  <1>3. file = Loose \/ \E h \in Heads : file \in Entered(h)
    BY <1>1, <1>2 DEF RebuildInv, FileTrue, Made
  <1> QED BY <1>1, <1>3, ArtifactShaped

LEMMA LooseIs ==
    ASSUME soi \in Nat
    PROVE  /\ RoundUp(soi, PageSize) \in Nat /\ soi <= RoundUp(soi, PageSize)
           /\ Loose.shift = PageSize /\ Loose.gaps = Cardinality(buf.gaps)
           /\ Loose.len = PageSize + RoundUp(soi, PageSize) /\ Loose.objects = {}
           /\ Loose.head.soi = Loose.len /\ Loose.head.hsize = PageSize
           /\ Loose.head.imports = 0
           /\ Loose.head.secs = <<[va |-> PageSize, vsize |-> soi, raw |-> PageSize,
                                   rawsize |-> RoundUp(soi, PageSize)]>>
           /\ Loose.cells = [o \in Cells(0, Loose.len) |->
                               IF o >= PageSize /\ o - PageSize \in DOMAIN buf.cells
                               THEN buf.cells[o - PageSize] ELSE 0]
  <1>1. RoundUp(soi, PageSize) \in Nat /\ soi <= RoundUp(soi, PageSize)
    BY PeImageAssumption, RoundUpBounds
  <1> DEFINE s == SynthesizedHeader(soi)
  <1>2. /\ s.soi = PageSize + RoundUp(soi, PageSize) /\ s.hsize = PageSize /\ s.imports = 0
        /\ s.secs = <<[va |-> PageSize, vsize |-> soi, raw |-> PageSize,
                       rawsize |-> RoundUp(soi, PageSize)]>>
    BY DEF SynthesizedHeader, Header
  <1>3. Loose = [head |-> s, shift |-> PageSize, len |-> s.soi, cells |-> LooseCells,
                 objects |-> {}, gaps |-> Cardinality(buf.gaps)]
    BY DEF Loose, Artifact
  <1> HIDE DEF s
  <1>4. /\ Loose.head = s /\ Loose.shift = PageSize /\ Loose.len = s.soi
        /\ Loose.cells = LooseCells /\ Loose.objects = {} /\ Loose.gaps = Cardinality(buf.gaps)
    BY <1>3
  <1> QED BY <1>1, <1>2, <1>4 DEF LooseCells, s

(* What has been read of memory, and that the artifact holds it.           *)
LEMMA CellRead ==
    ASSUME RebuildInv, AllRead, NEW a \in Cells(0, soi)
    PROVE  /\ a \in DOMAIN buf.cells
           /\ buf.cells[a] \in had[a] \/ (buf.cells[a] = 0 /\ Page(a) \in wasBad)
  <1>1. soi \in Nat
    BY ExtentFits DEF RebuildInv, Extent
  <1>2. DOMAIN buf.cells = {b \in Cells(0, soi) : Page(b) + 1 < chunk}
    BY DEF RebuildInv, BufferTrue
  <1>3. Page(a) \in Chunks(soi) /\ Cardinality(Chunks(soi)) \in Nat
    BY <1>1, ChunksAre, PageIsChunk
  <1>4. Page(a) \in Nat /\ Page(a) + 1 <= Cardinality(Chunks(soi))
    BY <1>1, <1>3, ChunksAre
  <1>5. soi # 0
    BY <1>1, CellsAre
  <1>6. chunk > Cardinality(Chunks(soi)) /\ chunk \in Nat
    BY <1>5 DEF AllRead, RebuildInv, Extent
  <1>7. a \in DOMAIN buf.cells
    BY <1>2, <1>3, <1>4, <1>6
  <1> QED BY <1>7 DEF RebuildInv, BufferTrue

LEMMA GapsCounted ==
    ASSUME RebuildInv, AllRead
    PROVE  LET lost == {p \in Pages : p * PageSize < soi /\ p \in wasBad}
               never == {p \in lost : p \notin wasGood}
           IN  Cardinality(never) <= Cardinality(buf.gaps) /\ Cardinality(buf.gaps) <= Cardinality(lost)
  <1> DEFINE lost == {p \in Pages : p * PageSize < soi /\ p \in wasBad}
             never == {p \in lost : p \notin wasGood}
  <1>1. /\ soi \in Nat /\ Cells(0, soi) \subseteq DOMAIN mem /\ IsFiniteSet(DOMAIN mem)
        /\ \A a \in DOMAIN mem : a \in Nat
    BY ExtentFits DEF RebuildInv, Extent
  <1>2. \A p \in lost : p \in Chunks(soi)
    <2>1. ASSUME NEW p \in lost PROVE p \in Chunks(soi)
      <3>1. p \in Nat /\ p * PageSize < soi
        BY <1>1, PageOf DEF Pages
      <3> QED BY <1>1, <3>1, ChunksAre
    <2> QED BY <2>1
  <1>3. IsFiniteSet(lost)
    <2>1. lost \subseteq Chunks(soi)
      BY <1>2
    <2>2. IsFiniteSet(Chunks(soi))
      BY <1>1, ChunksAre
    <2> HIDE DEF lost
    <2> QED BY <2>1, <2>2, FS_Subset
  <1>4. buf.gaps \subseteq lost
    <2>1. ASSUME NEW k \in buf.gaps PROVE k \in lost
      <3>1. k \in Chunks(soi) /\ k \in wasBad
        BY DEF RebuildInv, BufferTrue
      <3>2. k \in Nat /\ k * PageSize < soi
        BY <1>1, <3>1, ChunksAre
      <3>3. k * PageSize \in DOMAIN mem /\ Page(k * PageSize) = k
        BY <1>1, <3>1, ChunkIsPage
      <3>4. k \in Pages
        BY <3>3 DEF Pages
      <3> QED BY <3>1, <3>2, <3>4
    <2> QED BY <2>1
  <1>5. never \subseteq buf.gaps
    <2>1. ASSUME NEW p \in never PROVE p \in buf.gaps
      <3>1. p \in Pages /\ p * PageSize < soi /\ p \notin wasGood
        OBVIOUS
      <3>2. p \in Nat
        BY <1>1, <3>1, PageOf DEF Pages
      <3>3. p \in Chunks(soi) /\ p + 1 <= Cardinality(Chunks(soi)) /\ Cardinality(Chunks(soi)) \in Nat
        BY <1>1, <3>1, <3>2, ChunksAre
      <3>4. soi # 0
        BY <1>1, <3>1, <3>2, PeImageAssumption
      <3>5. chunk > Cardinality(Chunks(soi)) /\ chunk \in Nat
        BY <3>4 DEF AllRead, RebuildInv, Extent
      <3>6. p + 1 < chunk
        BY <3>2, <3>3, <3>5
      <3> QED BY <3>1, <3>3, <3>6 DEF RebuildInv, BufferTrue
    <2> QED BY <2>1
  <1> HIDE DEF lost, never
  <1>6. IsFiniteSet(buf.gaps)
    BY <1>3, <1>4, FS_Subset
  <1> QED BY <1>3, <1>4, <1>5, <1>6, FS_Subset DEF lost, never

(* The section table of an image: what memory_align leaves of the target's *)
(* sections, and the appended one behind the image.                        *)
LEMMA ImageSections ==
    ASSUME RebuildInv, AllRead, NEW h \in Heads, NEW f, Shaped(f, h)
    PROVE  /\ h.secs \in Seq(SectionHeaders)
           /\ \A i \in DOMAIN h.secs : h.secs[i] \in SectionHeaders
           /\ \A i \in DOMAIN h.secs :
                 i \in DOMAIN f.head.secs /\ f.head.secs[i] = AlignSection(h, h.secs[i])
           /\ AsRead(f, h) => DOMAIN f.head.secs = DOMAIN h.secs /\ Len(f.head.secs) = Len(h.secs)
           /\ \A size, dir \in Nat : Extended(f, h, size, dir) =>
                 /\ DOMAIN f.head.secs = 1 .. (Len(h.secs) + 1)
                 /\ Len(f.head.secs) = Len(h.secs) + 1
                 /\ f.head.secs[Len(h.secs) + 1] =
                      [va |-> RoundUp(h.soi, h.align), vsize |-> size,
                       raw |-> RoundUp(h.soi, h.align), rawsize |-> RoundUp(size, h.align)]
  <1> DEFINE secs == [i \in DOMAIN h.secs |-> AlignSection(h, h.secs[i])]
  <1>1. h \in Headers /\ h.align \in Nat \ {0} /\ h.soi \in Nat
    BY HeadFits
  <1>2. h.secs \in Seq(SectionHeaders)
    BY <1>1 DEF Headers
  <1>3. DOMAIN h.secs = 1 .. Len(h.secs) /\ Len(h.secs) \in Nat
        /\ \A i \in DOMAIN h.secs : h.secs[i] \in SectionHeaders
    BY <1>2
  <1>4. MemoryAlign(h).secs = secs
    BY <1>1 DEF MemoryAlign, Headers
  <1>5. secs \in Seq(SectionHeaders) /\ Len(secs) = Len(h.secs) /\ DOMAIN secs = DOMAIN h.secs
    <2>1. \A i \in DOMAIN h.secs : AlignSection(h, h.secs[i]) \in SectionHeaders
      BY <1>1, <1>3, AlignedSection
    <2> QED BY <1>3, <2>1
  <1>6. \A i \in DOMAIN h.secs : secs[i] = AlignSection(h, h.secs[i])
    OBVIOUS
  <1> HIDE DEF secs
  <1>7. CASE AsRead(f, h)
    <2>1. f.head.secs = secs
      BY <1>4, <1>7 DEF AsRead
    <2>2. \A size, dir \in Nat : ~Extended(f, h, size, dir)
      <3>1. ASSUME NEW size \in Nat, NEW dir \in Nat, Extended(f, h, size, dir) PROVE FALSE
        <4> DEFINE s == [va |-> RoundUp(h.soi, h.align), vsize |-> size,
                         raw |-> RoundUp(h.soi, h.align), rawsize |-> RoundUp(size, h.align)]
        <4>1. f.head.secs = Append(secs, s)
          BY <1>4, <3>1 DEF Extended
        <4> HIDE DEF s
        <4>2. Len(Append(secs, s)) = Len(secs) + 1
          BY <1>5
        <4>3. Len(secs) = Len(secs) + 1 /\ Len(secs) \in Nat
          BY <1>3, <1>5, <2>1, <4>1, <4>2
        <4> QED BY <4>3
      <3> QED BY <3>1
    <2> QED BY <1>2, <1>3, <1>5, <1>6, <2>1, <2>2
  <1>8. ASSUME NEW size \in Nat, NEW dir \in Nat, Extended(f, h, size, dir)
        PROVE  LET s == [va |-> RoundUp(h.soi, h.align), vsize |-> size,
                         raw |-> RoundUp(h.soi, h.align), rawsize |-> RoundUp(size, h.align)]
               IN  /\ f.head.secs = Append(secs, s)
                   /\ DOMAIN f.head.secs = 1 .. (Len(h.secs) + 1)
                   /\ Len(f.head.secs) = Len(h.secs) + 1
                   /\ f.head.secs[Len(h.secs) + 1] = s
                   /\ \A i \in DOMAIN h.secs :
                        i \in DOMAIN f.head.secs /\ f.head.secs[i] = secs[i]
    <2> DEFINE s == [va |-> RoundUp(h.soi, h.align), vsize |-> size,
                     raw |-> RoundUp(h.soi, h.align), rawsize |-> RoundUp(size, h.align)]
    <2>1. f.head.secs = Append(secs, s)
      BY <1>4, <1>8 DEF Extended
    <2> HIDE DEF s
    <2>2. /\ DOMAIN Append(secs, s) = 1 .. (Len(secs) + 1) /\ Len(Append(secs, s)) = Len(secs) + 1
          /\ Append(secs, s)[Len(secs) + 1] = s
          /\ \A i \in 1 .. Len(secs) : Append(secs, s)[i] = secs[i]
      BY <1>5
    <2> QED BY <1>3, <1>5, <2>1, <2>2 DEF s
  <1>9. CASE \E size, dir \in Nat : Extended(f, h, size, dir)
    <2>1. ~AsRead(f, h)
      <3>1. SUFFICES ASSUME AsRead(f, h) PROVE FALSE
        OBVIOUS
      <3>2. Len(f.head.secs) = Len(h.secs)
        BY <1>4, <1>5, <3>1 DEF AsRead
      <3>3. Len(f.head.secs) = Len(h.secs) + 1
        BY <1>8, <1>9
      <3> QED BY <1>3, <3>2, <3>3
    <2>2. \A i \in DOMAIN h.secs :
             i \in DOMAIN f.head.secs /\ f.head.secs[i] = AlignSection(h, h.secs[i])
      BY <1>6, <1>8, <1>9
    <2>3. ASSUME NEW size \in Nat, NEW dir \in Nat, Extended(f, h, size, dir)
          PROVE  /\ DOMAIN f.head.secs = 1 .. (Len(h.secs) + 1)
                 /\ Len(f.head.secs) = Len(h.secs) + 1
                 /\ f.head.secs[Len(h.secs) + 1] =
                      [va |-> RoundUp(h.soi, h.align), vsize |-> size,
                       raw |-> RoundUp(h.soi, h.align), rawsize |-> RoundUp(size, h.align)]
      BY <1>8, <2>3
    <2> QED BY <1>2, <1>3, <2>1, <2>2, <2>3
  <1> QED BY <1>7, <1>9 DEF Shaped

(* Every cell of an image, at its address, is the one that was read there. *)
LEMMA ImageHolds ==
    ASSUME RebuildInv, AllRead, SizeStable, NEW h \in Heads, NEW f, Shaped(f, h),
           NEW a \in Cells(0, soi), Mapped(f, a)
    PROVE  Loaded(f, a) = buf.cells[a]
  <1>1. /\ h \in Headers /\ h.soi \in Nat /\ h.align \in Nat \ {0} /\ soi \in Nat
        /\ DOMAIN buf.cells = Cells(0, soi)
    BY HeadFits
  <1>2. h.soi = soi
    BY DEF Heads, SizeStable, Seen
  <1>3. a \in Nat /\ a < soi
    BY <1>1, CellsAre
  <1>4. a \in DOMAIN f.cells /\ f.cells[a] = buf.cells[a]
    <2>1. CASE AsRead(f, h)
      BY <1>1, <2>1 DEF AsRead
    <2>2. ASSUME NEW size \in Nat, NEW dir \in Nat, Extended(f, h, size, dir)
          PROVE  a \in DOMAIN f.cells /\ f.cells[a] = buf.cells[a]
      <3> DEFINE end == RoundUp(h.soi, h.align) + RoundUp(size, h.align)
      <3>1. /\ RoundUp(h.soi, h.align) \in Nat /\ h.soi <= RoundUp(h.soi, h.align)
            /\ RoundUp(size, h.align) \in Nat
        BY <1>1, RoundUpBounds
      <3>2. end \in Nat /\ a < end
        BY <1>1, <1>2, <1>3, <3>1
      <3>3. f.cells = [o \in Cells(0, end) |->
                         IF o \in DOMAIN buf.cells THEN buf.cells[o] ELSE 0]
        BY <2>2 DEF Extended
      <3> HIDE DEF end
      <3>4. a \in Cells(0, end)
        <4>1. a % Ptr = 0
          BY <1>1, CellsAre
        <4> QED BY <1>3, <3>2, <4>1, CellsAre
      <3> QED BY <1>1, <3>3, <3>4
    <2> QED BY <2>1, <2>2 DEF Shaped
  <1> DEFINE i == SectionAt(f, a)
  <1>5. i \in DOMAIN f.head.secs /\ Holds(f.head.secs[i], a)
    BY DEF SectionAt, Mapped
  <1> HIDE DEF i
  <1>6. i \in DOMAIN h.secs /\ h.secs[i] \in SectionHeaders
        /\ f.head.secs[i] = AlignSection(h, h.secs[i])
    <2>1. \A j \in DOMAIN h.secs :
             h.secs[j] \in SectionHeaders /\ f.head.secs[j] = AlignSection(h, h.secs[j])
      BY ImageSections
    <2>2. i \in DOMAIN h.secs
      <3>1. CASE AsRead(f, h)
        <4>1. DOMAIN f.head.secs = DOMAIN h.secs
          BY <3>1, ImageSections
        <4> QED BY <1>5, <4>1
      <3>2. ASSUME NEW size \in Nat, NEW dir \in Nat, Extended(f, h, size, dir)
            PROVE  i \in DOMAIN h.secs
        <4>1. DOMAIN h.secs = 1 .. Len(h.secs) /\ Len(h.secs) \in Nat
          BY ImageSections
        <4>2. /\ DOMAIN f.head.secs = 1 .. (Len(h.secs) + 1)
              /\ f.head.secs[Len(h.secs) + 1] =
                   [va |-> RoundUp(h.soi, h.align), vsize |-> size,
                    raw |-> RoundUp(h.soi, h.align), rawsize |-> RoundUp(size, h.align)]
          <5> HIDE DEF Extended
          <5> QED BY <3>2, ImageSections
        <4>3. RoundUp(h.soi, h.align) \in Nat /\ h.soi <= RoundUp(h.soi, h.align)
          BY <1>1, RoundUpBounds
        <4>4. i # Len(h.secs) + 1
          <5>1. SUFFICES ASSUME i = Len(h.secs) + 1 PROVE FALSE
            OBVIOUS
          <5>2. f.head.secs[i].va = RoundUp(h.soi, h.align)
            BY <4>2, <5>1
          <5>3. f.head.secs[i].va <= a
            BY <1>5 DEF Holds
          <5> QED BY <1>1, <1>2, <1>3, <4>3, <5>2, <5>3
        <4> QED BY <1>5, <4>1, <4>2, <4>4
      <3> QED BY <3>1, <3>2 DEF Shaped
    <2> QED BY <2>1, <2>2
  <1> DEFINE s == h.secs[i]
             t == AlignSection(h, s)
  <1>7. /\ t.va = s.va /\ t.raw = s.va /\ t.vsize = s.vsize
        /\ t.rawsize = Least(RoundUp(s.vsize, h.align), Monus(h.soi, s.va))
        /\ s.va \in Nat /\ s.vsize \in Nat
    <2>1. s \in SectionHeaders
      BY <1>6
    <2> HIDE DEF s
    <2> QED BY <2>1 DEF AlignSection, SectionHeaders
  <1>8. s.va <= a /\ a < s.va + s.vsize
    BY <1>5, <1>6, <1>7 DEF Holds
  <1>9. RoundUp(s.vsize, h.align) \in Nat /\ s.vsize <= RoundUp(s.vsize, h.align)
    BY <1>1, <1>7, RoundUpBounds
  <1>10. a < t.va + t.rawsize /\ t.raw + a - t.va = a
    <2> HIDE DEF s, t
    <2> QED BY <1>1, <1>2, <1>3, <1>7, <1>8, <1>9 DEF Least, Monus
  <1>11. f.head.secs[i] = t
    BY <1>6
  <1> HIDE DEF s, t
  <1>12. Offset(f, a) = a /\ Backed(f, a)
    BY <1>10, <1>11 DEF Offset, Backed, i
  <1> QED BY <1>4, <1>12 DEF Loaded

LEMMA LooseHolds ==
    ASSUME RebuildInv, AllRead, NEW a \in Cells(0, soi), Mapped(Loose, a + PageSize)
    PROVE  Loaded(Loose, a + PageSize) = buf.cells[a]
  <1>1. soi \in Nat /\ PageSize \in Nat \ {0} /\ Ptr \in Nat \ {0} /\ PageSize % Ptr = 0
    BY PeImageAssumption, ExtentFits DEF RebuildInv, Extent
  <1>2. a \in Nat /\ a < soi /\ a % Ptr = 0 /\ a \in DOMAIN buf.cells
    BY <1>1, CellsAre, CellRead
  <1> DEFINE rva == a + PageSize
             s == [va |-> PageSize, vsize |-> soi, raw |-> PageSize,
                   rawsize |-> RoundUp(soi, PageSize)]
  <1>3. /\ Loose.head.secs = <<s>> /\ Loose.len = PageSize + RoundUp(soi, PageSize)
        /\ RoundUp(soi, PageSize) \in Nat /\ soi <= RoundUp(soi, PageSize)
    BY <1>1, LooseIs
  <1>4. rva \in Nat /\ rva >= PageSize /\ rva - PageSize = a /\ rva < Loose.len
    BY <1>1, <1>2, <1>3
  <1>5. rva % Ptr = 0
    BY <1>1, <1>2, SumOfMultiples
  <1>6. rva \in Cells(0, Loose.len)
    BY <1>1, <1>3, <1>4, <1>5, CellsAre
  <1>7. rva \in DOMAIN Loose.cells /\ Loose.cells[rva] = buf.cells[a]
    <2> DEFINE len == Loose.len
    <2>1. Loose.cells = [o \in Cells(0, len) |->
                           IF o >= PageSize /\ o - PageSize \in DOMAIN buf.cells
                           THEN buf.cells[o - PageSize] ELSE 0]
      BY <1>1, LooseIs
    <2> HIDE DEF rva, len
    <2> QED BY <1>2, <1>4, <1>6, <2>1 DEF len
  <1>8. SectionAt(Loose, rva) = 1
    <2>1. SectionAt(Loose, rva) \in DOMAIN Loose.head.secs
      BY DEF SectionAt, Mapped
    <2> QED BY <1>3, <2>1
  <1>9. Loose.head.secs[1] = s
    BY <1>3
  <1>10. Backed(Loose, rva) /\ Offset(Loose, rva) = rva
    <2>1. s.va = PageSize /\ s.raw = PageSize /\ s.rawsize = RoundUp(soi, PageSize)
      OBVIOUS
    <2> HIDE DEF s
    <2> QED BY <1>1, <1>2, <1>3, <1>4, <1>8, <1>9, <2>1 DEF Backed, Offset
  <1> HIDE DEF rva
  <1> QED BY <1>7, <1>10 DEF Loaded, rva

LEMMA ExactNow == RebuildInv => CaptureExact
  <1> SUFFICES ASSUME RebuildInv, file # NoFile, SizeStable PROVE CaptureExact
    BY DEF CaptureExact
  <1>1. AllRead /\ soi \in Nat
    BY ArtifactIs, ExtentFits DEF RebuildInv, Extent
  <1>2. file.gaps = Cardinality(buf.gaps)
    BY <1>1, ArtifactIs, LooseIs DEF Shaped
  <1>3. ASSUME NEW a \in Cells(0, soi), Mapped(file, a + file.shift)
        PROVE  Loaded(file, a + file.shift) = buf.cells[a]
    <2>1. CASE file = Loose
      BY <1>1, <1>3, <2>1, LooseHolds, LooseIs
    <2>2. ASSUME NEW h \in Heads, Shaped(file, h)
          PROVE  Loaded(file, a + file.shift) = buf.cells[a]
      <3>1. a + file.shift = a
        BY <1>1, <2>2, CellsAre DEF Shaped
      <3> QED BY <1>1, <1>3, <2>2, <3>1, ImageHolds
    <2> QED BY <2>1, <2>2, ArtifactIs
  <1>4. \A a \in Cells(0, soi) : Mapped(file, a + file.shift) =>
          \/ Loaded(file, a + file.shift) \in had[a]
          \/ Loaded(file, a + file.shift) = 0 /\ Page(a) \in wasBad
    BY <1>1, <1>3, CellRead
  <1> QED BY <1>1, <1>2, <1>4, GapsCounted DEF CaptureExact

LEMMA TypedNow == RebuildInv => RebuildTypeOK
  <1> SUFFICES ASSUME RebuildInv PROVE RebuildTypeOK
    OBVIOUS
  <1>1. soi \in Nat /\ chunk \in Nat
    BY ExtentFits DEF RebuildInv, Extent
  <1>2. ASSUME stage \in Made PROVE DOMAIN file.cells = Cells(0, file.len)
    <2>1. AllRead
      BY <1>2, ArtifactIs
    <2>2. CASE file = Loose
      <3> DEFINE len == Loose.len
      <3>1. Loose.cells = [o \in Cells(0, len) |->
                             IF o >= PageSize /\ o - PageSize \in DOMAIN buf.cells
                             THEN buf.cells[o - PageSize] ELSE 0]
        BY <1>1, LooseIs
      <3> HIDE DEF len
      <3> QED BY <2>2, <3>1 DEF len
    <2>3. ASSUME NEW h \in Heads, Shaped(file, h) PROVE DOMAIN file.cells = Cells(0, file.len)
      <3>1. CASE AsRead(file, h)
        BY <2>1, <3>1, HeadFits DEF AsRead
      <3>2. ASSUME NEW size \in Nat, NEW dir \in Nat, Extended(file, h, size, dir)
            PROVE  DOMAIN file.cells = Cells(0, file.len)
        BY <3>2 DEF Extended
      <3> QED BY <2>3, <3>1, <3>2 DEF Shaped
    <2> QED BY <1>2, <2>2, <2>3, ArtifactIs
  <1>3. stage \notin Made => file = NoFile
    BY DEF RebuildInv, FileTrue
  <1> QED BY <1>1, <1>2, <1>3 DEF RebuildTypeOK, RebuildInv, History, Made, Reachable

-----------------------------------------------------------------------------
\* What the Windows loader takes: the sections are behind the header, apart and in the pages
\* of the image.
Loadable(h) ==
    /\ h.soi # 0 /\ SectionHeaderEnd(Len(h.secs)) <= h.align
    /\ \A i \in DOMAIN h.secs :
         /\ h.align <= h.secs[i].va /\ h.secs[i].va <= h.soi
         /\ h.secs[i].va + h.secs[i].vsize <= RoundUp(h.soi, h.align)
         /\ \A j \in DOMAIN h.secs : i < j =>
              h.secs[i].va + RoundUp(h.secs[i].vsize, h.align) <= h.secs[j].va
AllLoadable == \A h \in Seen : Loadable(h)

LEMMA LoadableAligned ==
    ASSUME NEW h \in Headers, h.align # 0, Loadable(h)
    PROVE  \A i \in DOMAIN h.secs :
             LET t == AlignSection(h, h.secs[i])
             IN  /\ t \in SectionHeaders /\ t.va = h.secs[i].va /\ t.vsize = h.secs[i].vsize
                 /\ t.va + t.vsize <= RoundUp(h.soi, h.align)
                 /\ h.align <= t.raw /\ t.raw + t.rawsize <= h.soi
                 /\ \A j \in DOMAIN h.secs : i < j =>
                      t.raw + t.rawsize <= AlignSection(h, h.secs[j]).raw
  <1>1. h.soi \in Nat /\ h.align \in Nat \ {0} /\ h.secs \in Seq(SectionHeaders)
    BY DEF Headers
  <1>2. \A i \in DOMAIN h.secs : h.secs[i] \in SectionHeaders
    BY <1>1
  <1>3. ASSUME NEW s \in SectionHeaders
        PROVE  LET t == AlignSection(h, s)
               IN  /\ t \in SectionHeaders /\ t.va = s.va /\ t.raw = s.va /\ t.vsize = s.vsize
                   /\ s.va <= h.soi => t.raw + t.rawsize <= h.soi
                   /\ t.raw + t.rawsize <= s.va + RoundUp(s.vsize, h.align)
    <2> DEFINE t == AlignSection(h, s)
    <2>1. /\ t \in SectionHeaders /\ t.va = s.va /\ t.raw = s.va /\ t.vsize = s.vsize
          /\ s.va <= h.soi => t.raw + t.rawsize <= h.soi
      BY <1>1, AlignedSection
    <2>2. t.rawsize = Least(RoundUp(s.vsize, h.align), Monus(h.soi, s.va))
      BY DEF AlignSection, SectionHeaders
    <2>3. s.va \in Nat /\ s.vsize \in Nat
      BY DEF SectionHeaders
    <2>4. RoundUp(s.vsize, h.align) \in Nat
      BY <1>1, <2>3, RoundUpBounds
    <2>5. t.rawsize <= RoundUp(s.vsize, h.align) /\ t.rawsize \in Nat
      <3> HIDE DEF t
      <3> QED BY <1>1, <2>2, <2>3, <2>4 DEF Least, Monus
    <2> HIDE DEF t
    <2>6. t.raw + t.rawsize <= s.va + RoundUp(s.vsize, h.align)
      BY <2>1, <2>3, <2>4, <2>5
    <2> QED BY <2>1, <2>6 DEF t
  <1>4. TAKE i \in DOMAIN h.secs
  <1> DEFINE s == h.secs[i]
             t == AlignSection(h, s)
  <1>5. s \in SectionHeaders /\ s.va \in Nat /\ s.vsize \in Nat
    BY <1>2 DEF SectionHeaders
  <1>6. /\ h.align <= s.va /\ s.va <= h.soi /\ s.va + s.vsize <= RoundUp(h.soi, h.align)
        /\ \A j \in DOMAIN h.secs : i < j => s.va + RoundUp(s.vsize, h.align) <= h.secs[j].va
    BY DEF Loadable
  <1>7. /\ t \in SectionHeaders /\ t.va = s.va /\ t.raw = s.va /\ t.vsize = s.vsize
        /\ s.va <= h.soi => t.raw + t.rawsize <= h.soi
        /\ t.raw + t.rawsize <= s.va + RoundUp(s.vsize, h.align)
    BY <1>3, <1>5
  <1>8. t.raw \in Nat /\ t.rawsize \in Nat
    <2> HIDE DEF t
    <2> QED BY <1>7 DEF SectionHeaders
  <1>9. RoundUp(s.vsize, h.align) \in Nat
    BY <1>1, <1>5, RoundUpBounds
  <1> HIDE DEF s, t
  <1>10. ASSUME NEW j \in DOMAIN h.secs, i < j
         PROVE  t.raw + t.rawsize <= AlignSection(h, h.secs[j]).raw
    <2>1. AlignSection(h, h.secs[j]).raw = h.secs[j].va /\ h.secs[j].va \in Nat
      BY <1>2, <1>3 DEF SectionHeaders
    <2>2. s.va + RoundUp(s.vsize, h.align) <= h.secs[j].va
      BY <1>6, <1>10
    <2> QED BY <1>5, <1>7, <1>8, <1>9, <2>1, <2>2
  <1>11. t.va + t.vsize <= RoundUp(h.soi, h.align) /\ h.align <= t.raw /\ t.raw + t.rawsize <= h.soi
    BY <1>1, <1>5, <1>6, <1>7, <1>8
  <1> QED BY <1>7, <1>10, <1>11 DEF s, t

\* The three parts of Coherent.
Bounded(f) ==
    /\ f.head.soi = f.len
    /\ SectionHeaderEnd(Len(f.head.secs)) <= f.head.hsize
Apart(f) ==
    \A i \in DOMAIN f.head.secs :
      /\ f.head.secs[i].raw + f.head.secs[i].rawsize <= f.len
      /\ f.head.secs[i].raw >= f.head.hsize
      /\ \A j \in DOMAIN f.head.secs : i < j =>
           f.head.secs[i].raw + f.head.secs[i].rawsize <= f.head.secs[j].raw
Directed(f) ==
    (f.head.imports # 0 /\ f.objects # {}) =>
      \A rva \in {f.head.imports, f.head.imports + f.head.importSize - 1} :
         Backed(f, rva) /\ f.head.secs[SectionAt(f, rva)].va = f.head.imports

LEMMA LooseCoherent ==
    ASSUME soi \in Nat
    PROVE  Bounded(Loose) /\ Apart(Loose) /\ Directed(Loose)
  <1> DEFINE s == [va |-> PageSize, vsize |-> soi, raw |-> PageSize,
                   rawsize |-> RoundUp(soi, PageSize)]
             secs == <<s>>
  <1>1. /\ Loose.head.secs = secs /\ Loose.len = PageSize + RoundUp(soi, PageSize)
        /\ RoundUp(soi, PageSize) \in Nat /\ Loose.head.soi = Loose.len
        /\ Loose.head.hsize = PageSize /\ Loose.head.imports = 0
    BY LooseIs
  <1>2. PageSize \in Nat
    BY PeImageAssumption
  <1>3. s.raw = PageSize /\ s.rawsize = RoundUp(soi, PageSize)
    OBVIOUS
  <1> HIDE DEF s
  <1>4. Len(secs) = 1 /\ DOMAIN secs = {1} /\ secs[1] = s
    OBVIOUS
  <1> HIDE DEF secs
  <1>5. Bounded(Loose)
    BY <1>1, <1>4, RebuildAssumption DEF Bounded
  <1>6. Apart(Loose)
    <2>1. ASSUME NEW i \in DOMAIN secs
          PROVE  /\ secs[i].raw + secs[i].rawsize <= Loose.len
                 /\ secs[i].raw >= PageSize
                 /\ \A j \in DOMAIN secs : ~(i < j)
      BY <1>1, <1>2, <1>3, <1>4
    <2> QED BY <1>1, <2>1 DEF Apart
  <1> QED BY <1>1, <1>5, <1>6 DEF Directed

LEMMA ReadCoherent ==
    ASSUME RebuildInv, AllRead, SizeStable, NEW h \in Heads, Loadable(h),
           NEW f, Shaped(f, h), AsRead(f, h)
    PROVE  Bounded(f) /\ Apart(f) /\ Directed(f)
  <1>1. h \in Headers /\ h.align # 0 /\ h.soi = soi
    BY HeadFits DEF Heads, SizeStable, Seen
  <1>2. /\ DOMAIN f.head.secs = DOMAIN h.secs /\ Len(f.head.secs) = Len(h.secs)
        /\ \A i \in DOMAIN h.secs : f.head.secs[i] = AlignSection(h, h.secs[i])
    BY ImageSections
  <1>3. Bounded(f)
    BY <1>1, <1>2 DEF AsRead, Bounded, Loadable
  <1>4. Apart(f)
    <2>1. ASSUME NEW i \in DOMAIN h.secs
          PROVE  /\ f.head.secs[i].raw + f.head.secs[i].rawsize <= soi
                 /\ h.align <= f.head.secs[i].raw
                 /\ \A j \in DOMAIN h.secs : i < j =>
                      f.head.secs[i].raw + f.head.secs[i].rawsize <= f.head.secs[j].raw
      BY <1>1, <1>2, LoadableAligned
    <2>2. f.len = soi /\ f.head.hsize = h.align
      BY DEF AsRead
    <2>3. ASSUME NEW i \in DOMAIN h.secs
          PROVE  f.head.secs[i].raw >= h.align
      <3>1. h.align <= f.head.secs[i].raw
        BY <2>1
      <3>2. h.align \in Nat /\ f.head.secs[i].raw \in Nat
        <4>1. f.head.secs[i] \in SectionHeaders
          BY <1>1, <1>2, LoadableAligned
        <4> QED BY <1>1, <4>1 DEF Headers, SectionHeaders
      <3> QED BY <3>1, <3>2
    <2> QED BY <1>2, <2>1, <2>2, <2>3 DEF Apart
  <1>5. Directed(f)
    BY DEF Directed, AsRead
  <1> QED BY <1>3, <1>4, <1>5

(* The section behind the image maps its bytes, and only it.               *)
LEMMA LastBacked ==
    ASSUME RebuildInv, AllRead, NEW h \in Heads, Loadable(h),
           NEW f, Shaped(f, h), NEW size \in Nat, NEW dir \in Nat, Extended(f, h, size, dir),
           NEW a \in Nat, RoundUp(h.soi, h.align) <= a, a < RoundUp(h.soi, h.align) + size
    PROVE  /\ Backed(f, a) /\ Offset(f, a) = a
           /\ f.head.secs[SectionAt(f, a)].va = RoundUp(h.soi, h.align)
  <1> DEFINE n == Len(h.secs)
             secs == f.head.secs
             rva == RoundUp(h.soi, h.align)
             raw == RoundUp(size, h.align)
             last == [va |-> rva, vsize |-> size, raw |-> rva, rawsize |-> raw]
  <1>1. h \in Headers /\ h.align \in Nat \ {0} /\ h.soi \in Nat
    BY HeadFits
  <1>2. rva \in Nat /\ raw \in Nat /\ size <= raw
    BY <1>1, RoundUpBounds
  <1>3. n \in Nat /\ DOMAIN h.secs = 1 .. n
    BY ImageSections
  <1>4. DOMAIN secs = 1 .. (n + 1) /\ secs[n + 1] = last
    <2> HIDE DEF Extended
    <2> QED BY ImageSections
  <1>5. \A i \in 1 .. n : secs[i] \in SectionHeaders /\ secs[i].va + secs[i].vsize <= rva
    <2>1. \A i \in DOMAIN h.secs : secs[i] = AlignSection(h, h.secs[i])
      <3> HIDE DEF Extended
      <3> QED BY ImageSections
    <2> HIDE DEF secs, n, rva
    <2> QED BY <1>1, <1>3, <2>1, LoadableAligned DEF rva
  <1>6. last.va = rva /\ last.vsize = size /\ last.raw = rva /\ last.rawsize = raw
    OBVIOUS
  <1>7. rva <= a /\ a < rva + size
    OBVIOUS
  <1> HIDE DEF n, rva, raw, last, secs
  <1>8. n + 1 \in DOMAIN secs /\ Holds(secs[n + 1], a)
    <2>1. Holds(last, a)
      BY <1>6, <1>7 DEF Holds
    <2> QED BY <1>3, <1>4, <2>1
  <1>9. \A i \in DOMAIN secs : Holds(secs[i], a) => i = n + 1
    <2>1. ASSUME NEW i \in 1 .. n, Holds(secs[i], a) PROVE FALSE
      <3>1. secs[i].va \in Nat /\ secs[i].vsize \in Nat /\ secs[i].va + secs[i].vsize <= rva
        BY <1>5 DEF SectionHeaders
      <3>2. a < secs[i].va + secs[i].vsize
        BY <2>1 DEF Holds
      <3> QED BY <1>2, <1>7, <3>1, <3>2
    <2>2. \A i \in DOMAIN secs : i \in 1 .. n \/ i = n + 1
      BY <1>3, <1>4
    <2> QED BY <2>1, <2>2
  <1>10. SectionAt(f, a) = n + 1 /\ Mapped(f, a)
    BY <1>8, <1>9 DEF SectionAt, Mapped, secs
  <1>11. a < last.va + last.rawsize
    BY <1>2, <1>6, <1>7
  <1>12. last.raw + a - last.va = a
    BY <1>2, <1>6
  <1>13. f.head.secs[SectionAt(f, a)] = last
    BY <1>4, <1>10 DEF secs
  <1> QED BY <1>6, <1>10, <1>11, <1>12, <1>13 DEF Backed, Offset, rva

LEMMA ExtendedCoherent ==
    ASSUME RebuildInv, AllRead, SizeStable, NEW h \in Heads, Loadable(h),
           NEW f, Shaped(f, h), NEW size \in Nat, NEW dir \in Nat, dir # 0, dir <= size,
           Extended(f, h, size, dir)
    PROVE  Bounded(f) /\ Apart(f) /\ Directed(f)
  <1>1. /\ h \in Headers /\ h.align \in Nat \ {0} /\ h.soi = soi /\ h.soi \in Nat \ {0}
    BY HeadFits DEF Heads, SizeStable, Seen, Loadable
  <1> DEFINE n == Len(h.secs)
             secs == f.head.secs
             rva == RoundUp(h.soi, h.align)
             raw == RoundUp(size, h.align)
             last == [va |-> rva, vsize |-> size, raw |-> rva, rawsize |-> raw]
  <1>2. /\ rva \in Nat /\ h.soi <= rva /\ h.align <= rva
        /\ raw \in Nat /\ size <= raw
    BY <1>1, RoundUpBounds, RoundUpReaches
  <1>3. /\ n \in Nat /\ DOMAIN h.secs = 1 .. n
        /\ DOMAIN secs = 1 .. (n + 1) /\ Len(secs) = n + 1 /\ secs[n + 1] = last
        /\ \A i \in 1 .. n : secs[i] = AlignSection(h, h.secs[i])
    <2>1. n \in Nat /\ DOMAIN h.secs = 1 .. n
      BY ImageSections
    <2> HIDE DEF Extended
    <2>2. DOMAIN secs = 1 .. (n + 1) /\ Len(secs) = n + 1 /\ secs[n + 1] = last
      BY ImageSections
    <2>3. \A i \in DOMAIN h.secs : secs[i] = AlignSection(h, h.secs[i])
      BY ImageSections
    <2> QED BY <2>1, <2>2, <2>3
  <1>4. \A i \in 1 .. n :
          /\ secs[i] \in SectionHeaders
          /\ h.align <= secs[i].raw /\ secs[i].raw + secs[i].rawsize <= h.soi
          /\ \A j \in 1 .. n : i < j => secs[i].raw + secs[i].rawsize <= secs[j].raw
    <2> HIDE DEF secs, n
    <2> QED BY <1>1, <1>3, LoadableAligned
  <1>5. /\ f.len = rva + raw /\ f.head.soi = rva + raw /\ f.head.hsize = h.align
        /\ f.head.imports = rva /\ f.head.importSize = dir /\ HasSlack(MemoryAlign(h))
    BY DEF Extended
  <1>6. last.va = rva /\ last.vsize = size /\ last.raw = rva /\ last.rawsize = raw
    OBVIOUS
  <1> HIDE DEF n, rva, raw, last, secs
  <1>7. Bounded(f)
    <2>1. Len(MemoryAlign(h).secs) = n /\ MemoryAlign(h).hsize = h.align
      <3> DEFINE aligned == [i \in DOMAIN h.secs |-> AlignSection(h, h.secs[i])]
      <3>1. MemoryAlign(h).secs = aligned /\ MemoryAlign(h).hsize = h.align
        BY <1>1 DEF MemoryAlign, Headers
      <3>2. Len(aligned) = n
        BY <1>3
      <3> HIDE DEF aligned
      <3> QED BY <3>1, <3>2
    <2>2. SectionHeaderEnd(n + 1) <= h.align
      BY <1>5, <2>1 DEF HasSlack
    <2> QED BY <1>3, <1>5, <2>2 DEF Bounded, secs
  <1>8. Apart(f)
    <2>1. ASSUME NEW i \in 1 .. (n + 1)
          PROVE  /\ secs[i].raw + secs[i].rawsize <= f.len
                 /\ secs[i].raw >= f.head.hsize
                 /\ \A j \in 1 .. (n + 1) : i < j =>
                      secs[i].raw + secs[i].rawsize <= secs[j].raw
      <3>1. CASE i = n + 1
        <4>1. \A j \in 1 .. (n + 1) : ~(i < j)
          BY <1>3, <3>1
        <4> QED BY <1>1, <1>2, <1>3, <1>5, <1>6, <3>1, <4>1
      <3>2. CASE i # n + 1
        <4>1. i \in 1 .. n
          BY <1>3, <3>2
        <4>2. /\ secs[i].raw \in Nat /\ secs[i].rawsize \in Nat
              /\ h.align <= secs[i].raw /\ secs[i].raw + secs[i].rawsize <= h.soi
          BY <1>4, <4>1 DEF SectionHeaders
        <4>3. secs[i].raw + secs[i].rawsize <= f.len /\ secs[i].raw >= f.head.hsize
          BY <1>1, <1>2, <1>5, <4>2
        <4>4. ASSUME NEW j \in 1 .. (n + 1), i < j
              PROVE  secs[i].raw + secs[i].rawsize <= secs[j].raw
          <5>1. CASE j = n + 1
            BY <1>1, <1>2, <1>3, <1>6, <4>2, <5>1
          <5>2. CASE j # n + 1
            <6>1. j \in 1 .. n
              BY <1>3, <5>2
            <6> QED BY <1>4, <4>1, <4>4, <6>1
          <5> QED BY <5>1, <5>2
        <4> QED BY <4>3, <4>4
      <3> QED BY <3>1, <3>2
    <2> QED BY <1>3, <2>1 DEF Apart, secs
  <1>9. Directed(f)
    <2>1. ASSUME NEW a \in {rva, rva + dir - 1}
          PROVE  Backed(f, a) /\ secs[SectionAt(f, a)].va = rva
      <3>1. a \in Nat /\ rva <= a /\ a < rva + size
        BY <1>2, <2>1
      <3> QED BY <3>1, LastBacked DEF rva, secs
    <2> QED BY <1>5, <2>1 DEF Directed, secs
  <1> QED BY <1>7, <1>8, <1>9

-----------------------------------------------------------------------------
(* The state has its type at every step; an artifact exists exactly from   *)
(* the alignment of an image or the synthesis of a header on, and its      *)
(* bytes are as many as its length says.                                   *)
THEOREM RebuildTyped == RebuildSpec => []RebuildTypeOK
  BY RebuildInvariant, TypedNow, PTL

(* Whatever the target writes to its memory, its header or its page        *)
(* protection while it is dumped, a tool that loads the artifact sees at   *)
(* every address a value that the target had there during the dump, or a   *)
(* zero where the page itself was once unreadable, and the manifest counts *)
(* between the pages that were never readable and those that once were not *)
(* (reader.rs read_best_effort, devirt.rs, header.rs).                     *)
THEOREM CaptureIsExact == RebuildSpec => []CaptureExact
  BY RebuildInvariant, ExactNow, PTL

(* As long as the headers that the target has had are ones Windows loads,  *)
(* no field of an artifact's header leads out of it: sections are inside   *)
(* the file, apart and behind their table, and a rebuilt import directory  *)
(* is in the section added for it (devirt.rs memory_align, imports.rs      *)
(* write_section, header.rs synthesize_pe).                                *)
THEOREM ArtifactCoherent == RebuildSpec => [](AllLoadable => Coherent)
  <1>1. RebuildInv => (AllLoadable => Coherent)
    <2> SUFFICES ASSUME RebuildInv, AllLoadable, file # NoFile, SizeStable PROVE Coherent
      BY DEF Coherent
    <2>1. AllRead /\ soi \in Nat
      BY ArtifactIs, ExtentFits DEF RebuildInv, Extent
    <2>2. ASSUME NEW h \in Heads PROVE Loadable(h)
      BY DEF AllLoadable, Heads
    <2>3. Bounded(file) /\ Apart(file) /\ Directed(file)
      <3>1. CASE file = Loose
        BY <2>1, <3>1, LooseCoherent
      <3>2. ASSUME NEW h \in Heads, Shaped(file, h)
            PROVE  Bounded(file) /\ Apart(file) /\ Directed(file)
        <4>1. CASE AsRead(file, h)
          BY <2>1, <2>2, <3>2, <4>1, ReadCoherent
        <4>2. ASSUME NEW size \in Nat, NEW dir \in Nat, dir # 0, dir <= size,
                     Extended(file, h, size, dir)
              PROVE  Bounded(file) /\ Apart(file) /\ Directed(file)
          BY <2>1, <2>2, <3>2, <4>2, ExtendedCoherent
        <4> QED BY <3>2, <4>1, <4>2 DEF Shaped
      <3> QED BY <3>1, <3>2, ArtifactIs
    <2> QED BY <2>3 DEF Coherent, Bounded, Apart, Directed
  <1> QED BY <1>1, RebuildInvariant, PTL

-----------------------------------------------------------------------------
(* The comparison with the file: collect_patches finds the cells that      *)
(* differ, each in one run, and counts at least their bytes.               *)
Span(p) == Cells(p[1], p[2] - p[1] + Ptr)
Aligned(p) == p[1] \in Nat /\ p[2] \in Nat /\ p[1] % Ptr = 0 /\ p[2] % Ptr = 0 /\ p[1] <= p[2]

LEMMA SpanIs ==
    ASSUME NEW p, Aligned(p)
    PROVE  /\ \A b : b \in Span(p) <=> b \in Nat /\ p[1] <= b /\ b <= p[2] /\ b % Ptr = 0
           /\ IsFiniteSet(Span(p)) /\ Cardinality(Span(p)) \in Nat
           /\ Ptr * Cardinality(Span(p)) <= p[2] - p[1] + Ptr
  <1> DEFINE a == p[1]
             z == p[2]
             n == (z - a) \div Ptr + 1
  <1>1. /\ Ptr \in Nat \ {0} /\ a \in Nat /\ z \in Nat /\ a % Ptr = 0 /\ z % Ptr = 0 /\ a <= z
        /\ Span(p) = Cells(a, z - a + Ptr)
    BY PeImageAssumption DEF Aligned, Span
  <1> HIDE DEF a, z
  <1>2. z - a + Ptr \in Nat /\ a + (z - a + Ptr) = z + Ptr
    BY <1>1
  <1>3. \A b : b \in Span(p) <=> b \in Nat /\ a <= b /\ b < z + Ptr /\ b % Ptr = 0
    BY <1>1, <1>2, CellsAre
  <1>4. \A b \in Nat : b % Ptr = 0 => (b < z + Ptr <=> b <= z)
    <2>1. ASSUME NEW b \in Nat, b % Ptr = 0 PROVE b < z + Ptr <=> b <= z
      <3>1. z < b => z + Ptr <= b
        BY <1>1, <2>1, CellGap
      <3> QED BY <1>1, <3>1
    <2> QED BY <2>1
  <1>5. IsFiniteSet(Span(p)) /\ Cardinality(Span(p)) \in Nat
    BY <1>1, <1>2, CellsFinite, FS_CardinalityType
  <1>6. /\ n \in Nat \ {0} /\ a + (n - 1) * Ptr = z
        /\ \A i \in 1 .. n : a + (i - 1) * Ptr \in Span(p)
        /\ \A b \in Span(p) : \E i \in 1 .. n : b = a + (i - 1) * Ptr
    <2>1. LET m == (z - a) \div Ptr + 1
          IN  /\ m \in Nat \ {0} /\ a + (m - 1) * Ptr = z
              /\ \A i \in 1 .. m : a + (i - 1) * Ptr \in Cells(a, z - a + Ptr)
              /\ \A b \in Cells(a, z - a + Ptr) : \E i \in 1 .. m : b = a + (i - 1) * Ptr
      <3> HIDE DEF n
      <3> QED BY <1>1, CellsCounted
    <2>2. LET m == n
          IN  /\ m \in Nat \ {0} /\ a + (m - 1) * Ptr = z
              /\ \A i \in 1 .. m : a + (i - 1) * Ptr \in Cells(a, z - a + Ptr)
              /\ \A b \in Cells(a, z - a + Ptr) : \E i \in 1 .. m : b = a + (i - 1) * Ptr
      BY <2>1
    <2> HIDE DEF n
    <2> QED BY <1>1, <2>2
  <1> HIDE DEF n
  <1>7. Cardinality(Span(p)) <= n
    <2> DEFINE f == [i \in 1 .. n |-> a + (i - 1) * Ptr]
    <2>1. f \in Surjection(1 .. n, Span(p))
      BY <1>6 DEF Surjection
    <2>2. ExistsSurjection(1 .. n, Span(p))
      BY <2>1 DEF ExistsSurjection
    <2> QED BY <1>6, <2>2, FS_SurjCardinalityBound
  <1> DEFINE c == Cardinality(Span(p))
  <1>8. c \in Nat /\ c <= n
    BY <1>5, <1>7
  <1> HIDE DEF c
  <1>9. Ptr * c <= Ptr * n
    <2>1. PICK d \in Nat : n = c + d
      <3>1. n - c \in Nat /\ n = c + (n - c)
        BY <1>6, <1>8
      <3> QED BY <3>1
    <2>2. Ptr * n = Ptr * c + Ptr * d /\ Ptr * d \in Nat /\ Ptr * c \in Nat
      BY <1>1, <1>8, <2>1
    <2> QED BY <2>2
  <1>10. Ptr * n = z - a + Ptr
    <2>1. PICK m \in Nat : n = m + 1
      <3>1. n - 1 \in Nat /\ n = (n - 1) + 1
        BY <1>6
      <3> QED BY <3>1
    <2>2. a + m * Ptr = z
      BY <1>6, <2>1
    <2>3. Ptr * n = m * Ptr + Ptr /\ m * Ptr \in Nat
      BY <1>1, <2>1
    <2> QED BY <1>1, <2>2, <2>3
  <1>11. Ptr * c <= z - a + Ptr
    BY <1>9, <1>10
  <1> QED BY <1>3, <1>4, <1>5, <1>11 DEF a, z, c

LEMMA PatchesAre ==
    ASSUME NEW base \in Nat, NEW len \in Nat, NEW disk, NEW cells,
           DOMAIN cells = Cells(base, len)
    PROVE  LET differs == {a \in DOMAIN cells : disk[a] # cells[a]}
               ps == Patches(disk, cells)
           IN  /\ ps \in Seq(Nat \X Nat)
               /\ \A k \in 1 .. Len(ps) : Aligned(ps[k]) /\ Span(ps[k]) \subseteq differs
               /\ \A c \in differs : \E k \in 1 .. Len(ps) : c \in Span(ps[k])
  <1> DEFINE differs == {a \in DOMAIN cells : disk[a] # cells[a]}
             firsts == {a \in differs : a - Ptr \notin differs}
             LastOf(a) == CHOOSE z \in differs :
                /\ z >= a /\ Cells(a, z - a + Ptr) \subseteq differs
                /\ z + Ptr \notin differs
             n == Cardinality(firsts)
             ps == Patches(disk, cells)
  <1>1. Ptr \in Nat \ {0}
    BY PeImageAssumption
  <1>2. \A a \in differs : a \in Nat /\ a <= base + len /\ a % Ptr = 0
    BY CellsAre
  <1>3. ps = [k \in 1 .. n |-> <<InOrder(firsts)[k], LastOf(InOrder(firsts)[k])>>]
    BY DEF Patches
  <1>4. firsts \in SUBSET Nat /\ IsFiniteSet(firsts)
    <2>1. \A a \in firsts : a \in Nat /\ a <= base + len
      BY <1>2
    <2>2. base + len \in Nat
      OBVIOUS
    <2> HIDE DEF firsts
    <2> QED BY <2>1, <2>2, BoundedFinite
  <1>5. \A a : a \in firsts => a \in differs /\ a - Ptr \notin differs
    OBVIOUS
  <1>6. \A a : a \in differs /\ a - Ptr \notin differs => a \in firsts
    OBVIOUS
  <1> HIDE DEF firsts
  <1>7. /\ n \in Nat
        /\ \A k \in 1 .. n : InOrder(firsts)[k] \in firsts
        /\ \A a \in firsts : \E k \in 1 .. n : InOrder(firsts)[k] = a
    BY <1>4, InOrderLists
  <1>8. ASSUME NEW a \in differs
        PROVE  LET z == LastOf(a)
               IN  /\ z \in differs /\ a <= z /\ Cells(a, z - a + Ptr) \subseteq differs
                   /\ z + Ptr \notin differs
    <2> DEFINE T == {z \in differs : a <= z /\ Span(<<a, z>>) \subseteq differs}
    <2>1. a \in Nat /\ a % Ptr = 0
      BY <1>2
    <2>2. ASSUME NEW z \in differs, a <= z
          PROVE  /\ Span(<<a, z>>) = Cells(a, z - a + Ptr)
                 /\ \A b : b \in Span(<<a, z>>) <=> b \in Nat /\ a <= b /\ b <= z /\ b % Ptr = 0
      <3>1. Aligned(<<a, z>>)
        BY <1>2, <2>1, <2>2 DEF Aligned
      <3>2. <<a, z>>[1] = a /\ <<a, z>>[2] = z
        OBVIOUS
      <3>3. Span(<<a, z>>) = Cells(a, z - a + Ptr)
        BY <3>2 DEF Span
      <3> QED BY <3>1, <3>2, <3>3, SpanIs
    <2>3. a \in T
      <3>1. a <= a
        BY <2>1
      <3>2. \A b : b \in Span(<<a, a>>) => b = a
        <4>1. \A b : b \in Span(<<a, a>>) => b \in Nat /\ a <= b /\ b <= a
          BY <2>2, <3>1
        <4> QED BY <2>1, <4>1
      <3> QED BY <3>1, <3>2
    <2>4. T \in SUBSET Nat /\ T # {} /\ \A z \in T : z <= base + len
      BY <1>2, <2>3
    <2>5. base + len \in Nat
      OBVIOUS
    <2>6. PICK z \in T : \A x \in T : x <= z
      <3> HIDE DEF T
      <3> QED BY <2>4, <2>5, GreatestOf
    <2>7. z \in differs /\ a <= z /\ Span(<<a, z>>) \subseteq differs /\ z \in Nat /\ z % Ptr = 0
      BY <1>2, <2>6
    <2>8. z + Ptr \notin differs
      <3>1. SUFFICES ASSUME z + Ptr \in differs PROVE FALSE
        OBVIOUS
      <3> DEFINE y == z + Ptr
      <3>2. y \in differs /\ a <= y /\ y \in Nat /\ z < y
        BY <1>1, <2>1, <2>7, <3>1
      <3>3. ASSUME NEW b \in Span(<<a, y>>) PROVE b \in differs
        <4>1. b \in Nat /\ a <= b /\ b <= y /\ b % Ptr = 0
          <5> HIDE DEF y
          <5> QED BY <2>2, <3>2
        <4>2. CASE b <= z
          BY <2>2, <2>7, <4>1, <4>2
        <4>3. CASE ~(b <= z)
          <5>1. z + Ptr <= b
            BY <2>7, <4>1, <4>3, CellGap
          <5>2. b <= z + Ptr /\ b \in Nat
            BY <4>1
          <5>3. b = y
            BY <1>1, <2>7, <5>1, <5>2
          <5> QED BY <3>2, <5>3
        <4> QED BY <4>2, <4>3
      <3>4. y \in T
        BY <3>2, <3>3
      <3>5. y <= z
        BY <2>6, <3>4
      <3> QED BY <2>7, <3>2, <3>5
    <2> HIDE DEF T
    <2>9. Cells(a, z - a + Ptr) \subseteq differs /\ z >= a
      BY <2>1, <2>2, <2>7
    <2> DEFINE Ends(x) == x >= a /\ Cells(a, x - a + Ptr) \subseteq differs /\ x + Ptr \notin differs
    <2>10. z \in differs /\ Ends(z)
      BY <2>7, <2>8, <2>9
    <2>11. LastOf(a) = CHOOSE x \in differs : Ends(x)
      OBVIOUS
    <2> DEFINE w == LastOf(a)
    <2>12. w \in differs /\ Ends(w)
      <3> HIDE DEF Ends
      <3> QED BY <2>10, <2>11
    <2> HIDE DEF w
    <2>13. w \in Nat
      BY <1>2, <2>12
    <2> QED BY <2>1, <2>12, <2>13 DEF w
  <1> HIDE DEF LastOf
  <1> DEFINE p(a) == <<a, LastOf(a)>>
  <1>9. ASSUME NEW a \in differs
        PROVE  /\ Aligned(p(a)) /\ Span(p(a)) \subseteq differs
               /\ p(a) \in Nat \X Nat
    <2>1. /\ LastOf(a) \in differs /\ a <= LastOf(a) /\ Cells(a, LastOf(a) - a + Ptr) \subseteq differs
      BY <1>8
    <2>2. a \in Nat /\ a % Ptr = 0 /\ LastOf(a) \in Nat /\ LastOf(a) % Ptr = 0
      BY <1>2, <2>1
    <2> HIDE DEF differs
    <2> QED BY <2>1, <2>2 DEF Aligned, Span
  <1>10. Len(ps) = n /\ ps \in Seq(Nat \X Nat)
    <2>1. ASSUME NEW k \in 1 .. n PROVE p(InOrder(firsts)[k]) \in Nat \X Nat
      BY <1>5, <1>7, <1>9
    <2> DEFINE P(k) == p(InOrder(firsts)[k])
    <2>2. ps = [k \in 1 .. n |-> P(k)]
      BY <1>3
    <2>3. \A k \in 1 .. n : P(k) \in Nat \X Nat
      BY <2>1
    <2> HIDE DEF P, ps, n
    <2> QED BY <1>7, <2>2, <2>3
  <1>11. ASSUME NEW k \in 1 .. n PROVE Aligned(ps[k]) /\ Span(ps[k]) \subseteq differs
    <2>1. ps[k] = p(InOrder(firsts)[k])
      BY <1>3
    <2>2. InOrder(firsts)[k] \in differs
      BY <1>5, <1>7
    <2> HIDE DEF ps, differs, p
    <2> QED BY <1>9, <2>1, <2>2
  <1>12. ASSUME NEW c \in differs PROVE \E k \in 1 .. n : c \in Span(ps[k])
    <2> DEFINE T == {a \in differs : a <= c /\ Span(<<a, c>>) \subseteq differs}
    <2>1. c \in Nat /\ c % Ptr = 0
      BY <1>2
    <2>2. ASSUME NEW a \in differs, a <= c
          PROVE  \A b : b \in Span(<<a, c>>) <=> b \in Nat /\ a <= b /\ b <= c /\ b % Ptr = 0
      <3>1. Aligned(<<a, c>>)
        BY <1>2, <2>1, <2>2 DEF Aligned
      <3>2. <<a, c>>[1] = a /\ <<a, c>>[2] = c
        OBVIOUS
      <3> QED BY <3>1, <3>2, SpanIs
    <2>3. c \in T
      <3>1. c <= c
        BY <2>1
      <3>2. \A b : b \in Span(<<c, c>>) => b = c
        <4>1. \A b : b \in Span(<<c, c>>) => b \in Nat /\ c <= b /\ b <= c
          BY <2>2, <3>1
        <4> QED BY <2>1, <4>1
      <3> QED BY <3>1, <3>2
    <2>4. T \in SUBSET Nat /\ T # {}
      BY <1>2, <2>3
    <2>5. PICK a \in T : \A x \in T : a <= x
      <3> HIDE DEF T
      <3> QED BY <2>4, LeastOf
    <2>6. a \in differs /\ a <= c /\ Span(<<a, c>>) \subseteq differs /\ a \in Nat /\ a % Ptr = 0
      BY <1>2, <2>5
    <2>7. a - Ptr \notin differs
      <3>1. SUFFICES ASSUME a - Ptr \in differs PROVE FALSE
        OBVIOUS
      <3> DEFINE y == a - Ptr
      <3>2. y \in differs /\ y \in Nat /\ y % Ptr = 0 /\ y < a /\ y <= c /\ y + Ptr = a
        BY <1>1, <1>2, <2>1, <2>6, <3>1
      <3> HIDE DEF y
      <3>3. ASSUME NEW b \in Span(<<y, c>>) PROVE b \in differs
        <4>1. b \in Nat /\ y <= b /\ b <= c /\ b % Ptr = 0
          BY <2>2, <3>2
        <4>2. CASE a <= b
          BY <2>2, <2>6, <4>1, <4>2
        <4>3. CASE ~(a <= b)
          <5>1. y < b => y + Ptr <= b
            BY <3>2, <4>1, CellGap
          <5>2. b = y
            BY <2>6, <3>2, <4>1, <4>3, <5>1
          <5> QED BY <3>2, <5>2
        <4> QED BY <4>2, <4>3
      <3>4. y \in T
        BY <3>2, <3>3
      <3>5. a <= y
        BY <2>5, <3>4
      <3> QED BY <2>6, <3>2, <3>5
    <2> HIDE DEF T
    <2>8. PICK k \in 1 .. n : InOrder(firsts)[k] = a
      BY <1>6, <1>7, <2>6, <2>7
    <2> DEFINE z == LastOf(a)
    <2>9. /\ z \in differs /\ a <= z /\ z + Ptr \notin differs /\ z \in Nat /\ z % Ptr = 0
      BY <1>2, <1>8, <2>6
    <2>10. c <= z
      <3>1. SUFFICES ASSUME ~(c <= z) PROVE FALSE
        OBVIOUS
      <3> HIDE DEF z
      <3>2. z + Ptr <= c /\ a <= z + Ptr /\ z + Ptr \in Nat /\ (z + Ptr) % Ptr = 0
        BY <1>1, <2>1, <2>6, <2>9, <3>1, CellGap
      <3>3. z + Ptr \in Span(<<a, c>>)
        BY <2>2, <2>6, <3>2
      <3> QED BY <2>6, <2>9, <3>3
    <2>11. ps[k] = <<a, z>>
      BY <1>3, <2>8
    <2>12. Aligned(<<a, z>>)
      BY <2>6, <2>9 DEF Aligned
    <2>13. <<a, z>>[1] = a /\ <<a, z>>[2] = z
      OBVIOUS
    <2> HIDE DEF z, ps
    <2>14. c \in Span(<<a, z>>)
      BY <2>1, <2>6, <2>10, <2>12, <2>13, SpanIs
    <2> QED BY <2>11, <2>14
  <1> QED BY <1>10, <1>11, <1>12

(* Sizes of unions, and sums of multiples.                                 *)
LEMMA UnionBound ==
    ASSUME NEW A, NEW B, IsFiniteSet(A), IsFiniteSet(B)
    PROVE  /\ IsFiniteSet(A \cup B) /\ Cardinality(A \cup B) \in Nat
           /\ Cardinality(A \cup B) <= Cardinality(A) + Cardinality(B)
  <1>1. IsFiniteSet(A \cup B)
        /\ Cardinality(A \cup B) = Cardinality(A) + Cardinality(B) - Cardinality(A \cap B)
    BY FS_Union
  <1>2. IsFiniteSet(A \cap B)
    BY FS_Intersection
  <1>3. Cardinality(A) \in Nat /\ Cardinality(B) \in Nat /\ Cardinality(A \cap B) \in Nat
        /\ Cardinality(A \cup B) \in Nat
    BY <1>1, <1>2, FS_CardinalityType
  <1> QED BY <1>1, <1>3

LEMMA Scales ==
    ASSUME NEW n \in Nat, NEW a \in Nat, NEW b \in Nat, NEW c \in Nat, c <= a + b
    PROVE  n * c <= n * a + n * b
  <1>1. PICK d \in Nat : a + b = c + d
    <2>1. a + b - c \in Nat /\ a + b = c + (a + b - c)
      OBVIOUS
    <2> QED BY <2>1
  <1>2. n * (a + b) = n * a + n * b /\ n * (c + d) = n * c + n * d
    OBVIOUS
  <1>3. n * a \in Nat /\ n * b \in Nat /\ n * c \in Nat /\ n * d \in Nat
    OBVIOUS
  <1> QED BY <1>1, <1>2, <1>3

(* The count of bytes has every cell of a patch in it.                     *)
LEMMA BytesCount ==
    ASSUME NEW ps \in Seq(Nat \X Nat), \A k \in 1 .. Len(ps) : Aligned(ps[k])
    PROVE  LET all == UNION {Span(ps[k]) : k \in 1 .. Len(ps)}
           IN  /\ Bytes(ps) \in Nat
               /\ IsFiniteSet(all) /\ Ptr * Cardinality(all) <= Bytes(ps)
  <1> DEFINE n == Len(ps)
             W(k) == ps[k][2] - ps[k][1] + Ptr
             F == [p \in (1 .. n) \X Nat |-> p[2] + W(p[1])]
             Up(g) == g = [k \in 0 .. n |->
                             IF k = 0 THEN 0 ELSE g[k - 1] + ps[k][2] - ps[k][1] + Ptr]
             f == CHOOSE g : Up(g)
             Union(m) == UNION {Span(ps[k]) : k \in 1 .. m}
  <1>1. n \in Nat /\ Ptr \in Nat \ {0}
    BY PeImageAssumption
  <1>2. \A k \in 1 .. n : ps[k][1] \in Nat /\ ps[k][2] \in Nat /\ W(k) \in Nat
    BY <1>1 DEF Aligned
  <1>3. PICK e \in [0 .. n -> Nat] :
           e[0] = 0 /\ \A k \in 1 .. n : e[k] = F[<<k, e[k - 1]>>]
    <2>1. F \in [(1 .. n) \X Nat -> Nat]
      <3> HIDE DEF W, n
      <3> QED BY <1>2
    <2>2. 0 \in Nat
      OBVIOUS
    <2> HIDE DEF F, n
    <2> QED BY <1>1, <2>1, <2>2, RecursionExists
  <1>4. \A k \in 1 .. n : e[k] = e[k - 1] + ps[k][2] - ps[k][1] + Ptr
    <2>1. ASSUME NEW k \in 1 .. n PROVE e[k] = e[k - 1] + ps[k][2] - ps[k][1] + Ptr
      <3>1. k - 1 \in 0 .. n
        OBVIOUS
      <3>2. e[k - 1] \in Nat /\ e[k] = F[<<k, e[k - 1]>>]
        BY <1>3, <3>1
      <3>3. e[k] = e[k - 1] + W(k)
        <4> HIDE DEF W
        <4> QED BY <3>2
      <3> QED BY <1>1, <1>2, <3>2, <3>3
    <2> QED BY <2>1
  <1>5. Up(f)
    <2>1. Up(e)
      <3>1. \A k \in 0 .. n : e[k] = IF k = 0 THEN 0 ELSE e[k - 1] + ps[k][2] - ps[k][1] + Ptr
        BY <1>3, <1>4
      <3> HIDE DEF n
      <3> QED BY <1>3, <3>1
    <2> HIDE DEF Up
    <2> QED BY <2>1
  <1>6. Bytes(ps) = f[n]
    BY DEF Bytes
  <1> HIDE DEF f
  <1>7. f[0] = 0 /\ \A k \in 1 .. n : f[k] = f[k - 1] + ps[k][2] - ps[k][1] + Ptr
    <2> HIDE DEF n
    <2>1. \A k \in 0 .. n : f[k] = IF k = 0 THEN 0 ELSE f[k - 1] + ps[k][2] - ps[k][1] + Ptr
      BY <1>5
    <2>2. 0 \in 0 .. n /\ \A k \in 1 .. n : k \in 0 .. n /\ k # 0
      BY <1>1
    <2> QED BY <2>1, <2>2
  <1> DEFINE Counts(m) == /\ f[m] \in Nat /\ IsFiniteSet(Union(m))
                          /\ Ptr * Cardinality(Union(m)) <= f[m]
             T == {m \in 0 .. n : ~Counts(m)}
  <1>8. T = {}
    <2>1. SUFFICES ASSUME T # {} PROVE FALSE
      OBVIOUS
    <2>2. T \in SUBSET Nat
      OBVIOUS
    <2>3. PICK m \in T : \A j \in T : m <= j
      BY <2>1, <2>2, LeastOf
    <2>4. m \in 0 .. n /\ ~Counts(m)
      BY <2>3
    <2>5. CASE m = 0
      <3>1. Union(0) = {}
        OBVIOUS
      <3>2. Counts(0)
        <4>1. IsFiniteSet({}) /\ Cardinality({}) = 0
          BY FS_EmptySet
        <4>2. Ptr * 0 = 0
          BY <1>1
        <4>3. f[0] \in Nat /\ Ptr * Cardinality({}) <= f[0]
          BY <1>7, <4>1, <4>2
        <4> HIDE DEF Union
        <4> QED BY <3>1, <4>1, <4>3, Zenon
      <3> QED BY <2>4, <2>5, <3>2
    <2>6. CASE m # 0
      <3>1. m \in 1 .. n /\ m - 1 \in 0 .. n /\ ~(m <= m - 1)
        BY <2>4, <2>6
      <3>2. Counts(m - 1)
        <4> HIDE DEF Counts
        <4> QED BY <2>3, <3>1
      <3> DEFINE A == Union(m - 1)
                 B == Span(ps[m])
      <3>3. Union(m) = A \cup B
        <4>1. 1 .. m = (1 .. (m - 1)) \cup {m}
          BY <3>1
        <4>2. \A c : c \in Union(m) <=> \E k \in 1 .. m : c \in Span(ps[k])
          OBVIOUS
        <4>3. \A c : c \in A <=> \E k \in 1 .. (m - 1) : c \in Span(ps[k])
          OBVIOUS
        <4> HIDE DEF Union, A
        <4> QED BY <4>1, <4>2, <4>3
      <3>4. /\ IsFiniteSet(B) /\ Cardinality(B) \in Nat
            /\ Ptr * Cardinality(B) <= ps[m][2] - ps[m][1] + Ptr
        BY <3>1, SpanIs
      <3>5. IsFiniteSet(A) /\ Ptr * Cardinality(A) <= f[m - 1] /\ f[m - 1] \in Nat
        BY <3>2
      <3> HIDE DEF A, B, Union
      <3>6. Cardinality(A) \in Nat
        BY <3>5, FS_CardinalityType
      <3>7. /\ IsFiniteSet(A \cup B) /\ Cardinality(A \cup B) \in Nat
            /\ Cardinality(A \cup B) <= Cardinality(A) + Cardinality(B)
        BY <3>4, <3>5, <3>6, UnionBound
      <3>8. Ptr * Cardinality(A \cup B) <= Ptr * Cardinality(A) + Ptr * Cardinality(B)
        BY <1>1, <3>4, <3>6, <3>7, Scales
      <3>9. f[m] = f[m - 1] + ps[m][2] - ps[m][1] + Ptr
        BY <1>7, <3>1
      <3>10. f[m] \in Nat /\ Ptr * Cardinality(A \cup B) <= f[m]
        <4> DEFINE x == Ptr * Cardinality(A)
                   y == Ptr * Cardinality(B)
                   z == Ptr * Cardinality(A \cup B)
                   w == W(m)
        <4>1. x \in Nat /\ y \in Nat /\ z \in Nat /\ z <= x + y /\ x <= f[m - 1]
          <5>1. \A c \in Nat : Ptr * c \in Nat
            BY <1>1
          <5> QED BY <3>4, <3>5, <3>6, <3>7, <3>8, <5>1
        <4>2. y <= w /\ w \in Nat
          BY <1>2, <3>1, <3>4
        <4>3. f[m] = f[m - 1] + w
          BY <1>1, <1>2, <3>1, <3>5, <3>9
        <4>4. z <= f[m] /\ f[m] \in Nat
          <5> HIDE DEF x, y, z, w
          <5> QED BY <3>5, <4>1, <4>2, <4>3
        <4> QED BY <4>4
      <3> QED BY <2>4, <3>3, <3>7, <3>10
    <2> QED BY <2>5, <2>6
  <1>9. Counts(n)
    <2>1. n \in 0 .. n
      BY <1>1
    <2> HIDE DEF Counts
    <2> QED BY <1>8, <2>1
  <1> QED BY <1>6, <1>9

-----------------------------------------------------------------------------
(* What is compared with what: the file as the loader lays it out.         *)

\* What the Windows loader takes of a file, with code on page boundaries: sections are in
\* the file, and apart both there and in memory.
LaidOut(f) ==
    \A i \in DOMAIN f.secs :
        /\ Comparable(f, i) =>
             /\ f.secs[i].va % PageSize = 0 /\ f.secs[i].raw % Ptr = 0
             /\ f.secs[i].raw + f.secs[i].rawsize <= f.len
        /\ \A j \in DOMAIN f.secs : i < j =>
             /\ f.secs[i].va + f.secs[i].vsize <= f.secs[j].va
             /\ f.secs[i].va + f.secs[i].rawsize <= f.secs[j].va

Place(f, i) == Cells(f.secs[i].va, Compared(f.secs[i]))
OffIat(f, a) == ~(f.iat.rva <= a /\ a < f.iat.rva + f.iat.size)

LEMMA PageCells ==
    ASSUME NEW a \in Nat, a % PageSize = 0
    PROVE  \E q \in Nat : a = q * PageSize
  <1>1. PageSize \in Nat \ {0}
    BY PeImageAssumption
  <1> DEFINE q == a \div PageSize
  <1>2. q \in Nat /\ a = q * PageSize + (a % PageSize)
    BY <1>1, Division, Remainder
  <1> HIDE DEF q
  <1>3. q * PageSize \in Nat
    BY <1>1, <1>2
  <1> QED BY <1>2, <1>3

LEMMA ZeroMultiple == 0 % Ptr = 0
  <1>1. 0 = 0 * Ptr
    BY PeImageAssumption
  <1> QED BY <1>1, Multiples

LEMMA PageMultiple ==
    ASSUME NEW a \in Nat, a % PageSize = 0
    PROVE  a % Ptr = 0
  <1>1. PICK q \in Nat : a = q * PageSize
    BY PageCells
  <1>2. PageSize \in Nat /\ PageSize % Ptr = 0 /\ Ptr \in Nat \ {0}
    BY PeImageAssumption
  <1>3. PICK p \in Nat : PageSize = p * Ptr
    BY <1>2, Multiples
  <1>4. a = (q * p) * Ptr /\ q * p \in Nat
    BY <1>1, <1>2, <1>3
  <1> QED BY <1>4, Multiples

LEMMA PlaceIs ==
    ASSUME NEW f, IsFile(f), NEW i \in DOMAIN f.secs, Comparable(f, i)
    PROVE  LET s == f.secs[i]
           IN  /\ s.va \in Nat /\ s.vsize \in Nat /\ s.raw \in Nat /\ s.rawsize \in Nat
               /\ f.soi \in Nat /\ Compared(s) \in Nat \ {0}
               /\ \A a : a \in Place(f, i) <=>
                     /\ a \in Cells(0, f.soi) /\ s.va <= a
                     /\ a < s.va + s.vsize /\ a < s.va + s.rawsize
               /\ \A a \in Place(f, i) : a \in Nat /\ a % Ptr = 0 /\ a < f.soi
  <1> DEFINE s == f.secs[i]
  <1>1. s \in FileSections
    BY DEF IsFile
  <1>2. s.va \in Nat /\ s.vsize \in Nat /\ s.raw \in Nat /\ s.rawsize \in Nat /\ f.soi \in Nat
    BY <1>1 DEF FileSections, IsFile
  <1>3. Compared(s) # 0 /\ s.va + Compared(s) <= f.soi
    BY DEF Comparable
  <1>4. /\ Compared(s) \in Nat \ {0} /\ Compared(s) <= s.vsize /\ Compared(s) <= s.rawsize
        /\ Compared(s) \in {s.vsize, s.rawsize}
    BY <1>2, <1>3 DEF Compared, Least
  <1> HIDE DEF s
  <1>5. \A a : a \in Place(f, i) <=> a \in Nat /\ s.va <= a /\ a < s.va + Compared(s) /\ a % Ptr = 0
    BY <1>2, <1>4, CellsAre DEF Place, s
  <1>6. \A a : a \in Cells(0, f.soi) <=> a \in Nat /\ a < f.soi /\ a % Ptr = 0
    <2>1. \A a : a \in Cells(0, f.soi) <=> a \in Nat /\ 0 <= a /\ a < 0 + f.soi /\ a % Ptr = 0
      BY <1>2, CellsAre
    <2> QED BY <1>2, <2>1
  <1>7. ASSUME NEW a
        PROVE  /\ a \in Place(f, i) <=>
                     /\ a \in Cells(0, f.soi) /\ s.va <= a
                     /\ a < s.va + s.vsize /\ a < s.va + s.rawsize
               /\ a \in Place(f, i) => a \in Nat /\ a % Ptr = 0 /\ a < f.soi
    BY <1>2, <1>3, <1>4, <1>5, <1>6
  <1> QED BY <1>2, <1>4, <1>7 DEF s

LEMMA CodeIs ==
    ASSUME NEW f, IsFile(f), NEW a
    PROVE  a \in Code(f) <=>
             OffIat(f, a) /\ \E i \in DOMAIN f.secs : Comparable(f, i) /\ a \in Place(f, i)
  <1>1. f.iat.rva \in Nat /\ f.iat.size \in Nat /\ f.soi \in Nat
    BY DEF IsFile
  <1>2. ASSUME NEW i \in DOMAIN f.secs, Comparable(f, i), a \in Cells(0, f.soi)
        PROVE  a \in Place(f, i) <=> /\ Holds(f.secs[i], a)
                                     /\ a - f.secs[i].va < f.secs[i].rawsize
    <2>1. a \in Nat
      BY <1>1, <1>2, CellsAre
    <2>2. /\ f.secs[i].va \in Nat /\ f.secs[i].vsize \in Nat /\ f.secs[i].rawsize \in Nat
          /\ a \in Place(f, i) <=>
                     /\ a \in Cells(0, f.soi) /\ f.secs[i].va <= a
                     /\ a < f.secs[i].va + f.secs[i].vsize
                     /\ a < f.secs[i].va + f.secs[i].rawsize
      BY <1>2, PlaceIs
    <2> QED BY <1>2, <2>1, <2>2 DEF Holds
  <1>3. ASSUME NEW i \in DOMAIN f.secs, Comparable(f, i), a \in Place(f, i)
        PROVE  a \in Cells(0, f.soi)
    BY <1>3, PlaceIs
  <1>4. ASSUME a \in Cells(0, f.soi)
        PROVE  OffIat(f, a) <=> a \notin f.iat.rva .. (f.iat.rva + f.iat.size - 1)
    <2>1. a \in Nat
      BY <1>1, <1>4, CellsAre
    <2> QED BY <1>1, <2>1 DEF OffIat
  <1> QED BY <1>2, <1>3, <1>4 DEF Code

LEMMA Modulo ==
    ASSUME NEW x \in Int, NEW w \in Nat \ {0}
    PROVE  (x + w) % w = x % w
  <1> DEFINE q == x \div w
             r == x % w
  <1>1. q \in Int /\ r \in 0 .. (w - 1) /\ x = q * w + r
    BY SMTT(60)
  <1> HIDE DEF q, r
  <1>2. \A p \in Int : (p * w + r) % w = r
    BY <1>1, SMTT(60)
  <1>3. q + 1 \in Int /\ x + w = (q + 1) * w + r
    BY <1>1
  <1>4. (x + w) % w = r
    BY <1>2, <1>3
  <1> QED BY <1>4 DEF r

(* What is laid out and relocated from the file is what the loader does.   *)
LEMMA DiskIs ==
    ASSUME NEW f, IsFile(f), LaidOut(f), NEW i \in DOMAIN f.secs, Comparable(f, i),
           NEW a \in Place(f, i)
    PROVE  /\ a \in DOMAIN Relocated(f, DiskImage(f))
           /\ Relocated(f, DiskImage(f))[a] = LoaderValue(f, a)
  <1> DEFINE s == f.secs[i]
             Held(j) == f.secs[j].va <= a /\ a < f.secs[j].va + Copied(f, f.secs[j])
             holding == {j \in DOMAIN f.secs : Held(j)}
             o == s.raw + a - s.va
  <1>1. /\ s.va \in Nat /\ s.vsize \in Nat /\ s.raw \in Nat /\ s.rawsize \in Nat /\ f.soi \in Nat
        /\ a \in Cells(0, f.soi) /\ a \in Nat /\ a % Ptr = 0 /\ a < f.soi
        /\ s.va <= a /\ a < s.va + s.vsize /\ a < s.va + s.rawsize
    BY PlaceIs
  <1>2. s.va % PageSize = 0 /\ s.raw % Ptr = 0 /\ s.raw + s.rawsize <= f.len /\ f.len \in Nat
    BY DEF LaidOut, IsFile
  <1>3. ASSUME NEW j \in DOMAIN f.secs
        PROVE  /\ f.secs[j].va \in Nat /\ f.secs[j].vsize \in Nat /\ f.secs[j].rawsize \in Nat
               /\ f.secs[j].raw \in Nat
    <2>1. f.secs[j] \in FileSections
      BY DEF IsFile
    <2> QED BY <2>1 DEF FileSections
  <1>4. DOMAIN f.secs \subseteq Nat
    BY DEF IsFile
  <1>5. ASSUME NEW j \in DOMAIN f.secs
        PROVE  Copied(f, f.secs[j]) \in Nat /\ Copied(f, f.secs[j]) <= f.secs[j].rawsize
    BY <1>1, <1>2, <1>3 DEF Copied, Least, Monus
  <1>6. ASSUME NEW j \in DOMAIN f.secs, j # i
        PROVE  ~Held(j) /\ ~Holds(f.secs[j], a)
    <2>1. CASE i < j
      <3>1. s.va + s.vsize <= f.secs[j].va
        BY <1>6, <2>1 DEF LaidOut
      <3>2. a < f.secs[j].va
        BY <1>1, <1>3, <1>6, <3>1
      <3> QED BY <1>1, <1>3, <1>6, <3>2 DEF Holds
    <2>2. CASE j < i
      <3>1. /\ f.secs[j].va + f.secs[j].vsize <= s.va
            /\ f.secs[j].va + f.secs[j].rawsize <= s.va
        BY <1>6, <2>2 DEF LaidOut
      <3> QED BY <1>1, <1>3, <1>5, <1>6, <3>1 DEF Holds
    <2> QED BY <1>4, <1>6, <2>1, <2>2
  <1>7. Held(i) /\ Holds(s, a)
    <2>1. a < s.va + Copied(f, s)
      BY <1>1, <1>2 DEF Copied, Least, Monus
    <2> QED BY <1>1, <2>1 DEF Holds
  <1>8. holding = {i}
    <2> HIDE DEF Held
    <2> QED BY <1>6, <1>7
  <1>9. (CHOOSE k \in holding : \A j \in holding : j <= k) = i
    <2>1. i <= i
      BY <1>4
    <2> HIDE DEF holding
    <2> QED BY <1>8, <2>1
  <1>10. (CHOOSE k \in DOMAIN f.secs : Holds(f.secs[k], a)) = i
    BY <1>6, <1>7
  <1>11. DiskImage(f)[a] = f.cells[o] /\ DOMAIN DiskImage(f) = Cells(0, f.soi)
    <2>1. holding # {}
      BY <1>8
    <2> DEFINE top == CHOOSE k \in holding : \A j \in holding : j <= k
    <2>2. DiskImage(f)[a] = f.cells[f.secs[top].raw + a - f.secs[top].va]
      BY <1>1, <2>1 DEF DiskImage
    <2>3. DOMAIN DiskImage(f) = Cells(0, f.soi)
      BY DEF DiskImage
    <2> HIDE DEF holding, top
    <2>4. top = i
      BY <1>9 DEF top
    <2> QED BY <2>2, <2>3, <2>4
  <1>12. f.cells[o] \in Nat
    <2>1. PICK d \in Nat : a = s.va + d /\ o = s.raw + d /\ d < s.rawsize
      <3>1. a - s.va \in Nat /\ a = s.va + (a - s.va) /\ s.raw + (a - s.va) = s.raw + a - s.va
            /\ a - s.va < s.rawsize
        BY <1>1
      <3> QED BY <3>1
    <2>2. s.va % Ptr = 0
      BY <1>1, <1>2, PageMultiple
    <2>3. d % Ptr = 0
      <3>1. CASE s.va < a
        <4>1. (a - s.va) % Ptr = 0 /\ a - s.va = d
          BY <1>1, <2>1, <2>2, <3>1, CellGap
        <4> QED BY <4>1
      <3>2. CASE s.va = a
        <4>1. d = 0
          BY <1>1, <2>1, <3>2
        <4> QED BY <4>1, ZeroMultiple
      <3> QED BY <1>1, <3>1, <3>2
    <2>4. o \in Nat /\ o % Ptr = 0 /\ o < f.len
      <3>1. (s.raw + d) % Ptr = 0
        BY <1>1, <1>2, <2>1, <2>3, CellGap
      <3> HIDE DEF s, o
      <3> QED BY <1>1, <1>2, <2>1, <3>1
    <2>5. o \in Cells(0, f.len)
      <3> HIDE DEF o
      <3>1. 0 <= o /\ o < 0 + f.len
        BY <1>2, <2>4
      <3> QED BY <1>2, <2>4, <3>1, CellsAre
    <2> QED BY <2>5 DEF IsFile
  <1> DEFINE v == f.cells[o]
  <1>13. LoaderValue(f, a) = IF a \in f.relocs THEN (v + (Base - f.base)) % Width ELSE v
    <2>1. a - s.va < s.rawsize
      BY <1>1
    <2> DEFINE top == CHOOSE k \in DOMAIN f.secs : Holds(f.secs[k], a)
               u(k) == IF a - f.secs[k].va < f.secs[k].rawsize
                       THEN f.cells[f.secs[k].raw + a - f.secs[k].va] ELSE 0
    <2>2. LoaderValue(f, a) = IF a \in f.relocs THEN (u(top) + (Base - f.base)) % Width
                              ELSE u(top)
      BY DEF LoaderValue
    <2>3. top = i
      BY <1>10
    <2> HIDE DEF top
    <2>4. u(top) = v
      BY <2>1, <2>3
    <2> HIDE DEF u, v
    <2> QED BY <2>2, <2>4
  <1>14. /\ a \in DOMAIN Relocated(f, DiskImage(f))
         /\ Relocated(f, DiskImage(f))[a]
              = IF a \in f.relocs THEN (v + Base + Width - f.base) % Width ELSE v
    BY <1>1, <1>11 DEF Relocated
  <1>15. (v + Base + Width - f.base) % Width = (v + (Base - f.base)) % Width
    <2>1. v \in Nat /\ Base \in Nat /\ Width \in Nat \ {0} /\ f.base \in Nat
      BY <1>12, ModuleDiffAssumption DEF IsFile
    <2> DEFINE x == v + (Base - f.base)
    <2> HIDE DEF v
    <2>2. x \in Int /\ v + Base + Width - f.base = x + Width
      BY <2>1
    <2> HIDE DEF x
    <2>3. (x + Width) % Width = x % Width
      BY <2>1, <2>2, Modulo
    <2> QED BY <2>2, <2>3 DEF x
  <1> QED BY <1>13, <1>14, <1>15

(* The patches of one section are the cells off the import address table   *)
(* that were seen with another value than the loader's.                    *)
SeenAs(m, lost, a) == IF Page(a) \in lost THEN 0 ELSE m[a]

LEMMA SectionFinds ==
    ASSUME NEW f, IsFile(f), LaidOut(f), NEW i \in DOMAIN f.secs, Comparable(f, i),
           NEW m, NEW lost
    PROVE  LET ps == SectionPatches(f, i, m, lost)
           IN  /\ ps \in Seq(Nat \X Nat)
               /\ \A k \in 1 .. Len(ps) : Aligned(ps[k])
               /\ \A k \in 1 .. Len(ps) : \A a \in Span(ps[k]) :
                     a \in Place(f, i) /\ OffIat(f, a) /\ SeenAs(m, lost, a) # LoaderValue(f, a)
               /\ \A a \in Place(f, i) :
                     OffIat(f, a) /\ SeenAs(m, lost, a) # LoaderValue(f, a)
                        => \E k \in 1 .. Len(ps) : a \in Span(ps[k])
  <1> DEFINE s == f.secs[i]
             disk == Relocated(f, DiskImage(f))
             read == ReadBestEffort(m, lost, s.va, Compared(s))
             D == Blanked(f, disk)
             M == Blanked(f, read)
             differs == {a \in DOMAIN M : D[a] # M[a]}
             ps == SectionPatches(f, i, m, lost)
  <1>1. s.va \in Nat /\ Compared(s) \in Nat \ {0} /\ s.va % PageSize = 0
    BY PlaceIs DEF LaidOut
  <1>2. PICK q \in Nat : s.va = q * PageSize
    BY <1>1, PageCells
  <1>3. DOMAIN read = Place(f, i)
    BY DEF ReadBestEffort, Place
  <1>4. DOMAIN M = Place(f, i)
    BY <1>3 DEF Blanked
  <1>5. ps = Patches(D, M)
    BY DEF SectionPatches
  <1>6. ASSUME NEW a \in Place(f, i)
        PROVE  D[a] # M[a] <=> OffIat(f, a) /\ SeenAs(m, lost, a) # LoaderValue(f, a)
    <2>1. read[a] = SeenAs(m, lost, a)
      <3>1. a \in Cells(q * PageSize, Compared(s))
        BY <1>2 DEF Place
      <3> HIDE DEF s
      <3> QED BY <1>1, <1>2, <3>1, BadPageCostsItself DEF SeenAs
    <2>2. a \in DOMAIN disk /\ disk[a] = LoaderValue(f, a)
      BY DiskIs
    <2> HIDE DEF disk, read
    <2>3. D[a] = IF OffIat(f, a) THEN disk[a] ELSE 0
      BY <2>2 DEF Blanked, OffIat
    <2>4. M[a] = IF OffIat(f, a) THEN read[a] ELSE 0
      BY <1>3 DEF Blanked, OffIat
    <2> HIDE DEF D, M
    <2> QED BY <2>1, <2>2, <2>3, <2>4
  <1>7. /\ Patches(D, M) \in Seq(Nat \X Nat)
        /\ \A k \in 1 .. Len(Patches(D, M)) :
              Aligned(Patches(D, M)[k]) /\ Span(Patches(D, M)[k]) \subseteq differs
        /\ \A c \in differs : \E k \in 1 .. Len(Patches(D, M)) : c \in Span(Patches(D, M)[k])
    <2>1. DOMAIN M = Cells(s.va, Compared(s))
      BY <1>4 DEF Place
    <2> HIDE DEF D, M, s
    <2> QED BY <1>1, <2>1, PatchesAre
  <1> HIDE DEF D, M, ps
  <1> QED BY <1>4, <1>5, <1>6, <1>7 DEF ps

\* The patches that a comparison of the sections before n cannot have missed.
Found(f, n, H, W) ==
    {a \in Code(f) : /\ Page(a) \notin W /\ LoaderValue(f, a) \notin H[a]
                     /\ \E i \in DOMAIN f.secs : i < n /\ Comparable(f, i) /\ a \in Place(f, i)}

\* A report about these sections, of cells that had the values H and pages of which W were
\* unreadable once.
DiffTrue(f, d, n, H, W) ==
    /\ DOMAIN d = DOMAIN NoDiff
    /\ d.hooks \in Seq(Nat \X Nat) /\ d.modified \in Nat
    /\ \A k \in 1 .. Len(d.hooks) : \A a \in Span(d.hooks[k]) :
         a \in Code(f) /\ (Page(a) \in W \/ \E v \in H[a] : v # LoaderValue(f, a))
    /\ Len(d.hooks) < MaxHooks =>
         \A a \in Found(f, n, H, W) : \E k \in 1 .. Len(d.hooks) : a \in Span(d.hooks[k])
    /\ Ptr * Cardinality(Found(f, n, H, W)) <= d.modified

LEMMA FoundFinite ==
    ASSUME NEW f, IsFile(f), NEW n, NEW H, NEW W
    PROVE  /\ IsFiniteSet(Found(f, n, H, W)) /\ Cardinality(Found(f, n, H, W)) \in Nat
           /\ \A a \in Found(f, n, H, W) : a \in Cells(0, f.soi)
  <1>1. f.soi \in Nat
    BY DEF IsFile
  <1>2. Found(f, n, H, W) \in SUBSET Cells(0, f.soi)
    BY DEF Found, Code
  <1>3. IsFiniteSet(Found(f, n, H, W))
    BY <1>1, <1>2, CellsFinite, FS_Subset
  <1> QED BY <1>2, <1>3, FS_CardinalityType

(* Fewer patches found leave a count that was large enough.                *)
LEMMA CountShrinks ==
    ASSUME NEW S, IsFiniteSet(S), NEW T \in SUBSET S, NEW c \in Nat, Ptr * Cardinality(S) <= c
    PROVE  Ptr * Cardinality(T) <= c
  <1>1. /\ IsFiniteSet(T) /\ Cardinality(T) <= Cardinality(S)
        /\ Cardinality(T) \in Nat /\ Cardinality(S) \in Nat
    BY FS_Subset, FS_CardinalityType
  <1>2. Ptr \in Nat /\ Cardinality(T) <= Cardinality(S) + 0
    BY <1>1, PeImageAssumption
  <1>3. Ptr * Cardinality(T) <= Ptr * Cardinality(S) + Ptr * 0
    BY <1>1, <1>2, Scales
  <1>4. Ptr * 0 = 0 /\ Ptr * Cardinality(T) \in Nat /\ Ptr * Cardinality(S) \in Nat
    BY <1>1, <1>2
  <1> QED BY <1>3, <1>4

LEMMA Outlives ==
    ASSUME NEW f, IsFile(f), NEW d, NEW n, NEW H, NEW W, DiffTrue(f, d, n, H, W),
           NEW H2, NEW W2, W \subseteq W2, \A a \in Cells(0, f.soi) : H[a] \subseteq H2[a]
    PROVE  DiffTrue(f, d, n, H2, W2)
  <1>1. \A a \in Code(f) : H[a] \subseteq H2[a]
    BY DEF Code
  <1>2. Found(f, n, H2, W2) \subseteq Found(f, n, H, W)
    BY <1>1 DEF Found
  <1>3. Ptr * Cardinality(Found(f, n, H2, W2)) <= d.modified
    BY <1>2, FoundFinite, CountShrinks DEF DiffTrue
  <1>4. \A k \in 1 .. Len(d.hooks) : \A a \in Span(d.hooks[k]) :
           a \in Code(f) /\ (Page(a) \in W2 \/ \E v \in H2[a] : v # LoaderValue(f, a))
    BY <1>1 DEF DiffTrue
  <1> QED BY <1>2, <1>3, <1>4 DEF DiffTrue

LEMMA Joined ==
    ASSUME NEW S, NEW s \in Seq(S), NEW u \in Seq(S)
    PROVE  s \o u \in Seq(S) /\ Len(s \o u) = Len(s) + Len(u)
  OBVIOUS

(* Some patches are appended, all if that leaves the list below its cap.   *)
LEMMA HooksAdded ==
    ASSUME NEW hs \in Seq(Nat \X Nat), NEW ps \in Seq(Nat \X Nat)
    PROVE  LET t == Least(Len(ps), Monus(MaxHooks, Len(hs)))
               r == hs \o SubSeq(ps, 1, t)
           IN  /\ r \in Seq(Nat \X Nat) /\ t \in 0 .. Len(ps) /\ Len(r) = Len(hs) + t
               /\ \A k \in 1 .. Len(hs) : r[k] = hs[k]
               /\ \A k \in 1 .. t : r[Len(hs) + k] = ps[k]
               /\ Len(r) < MaxHooks => t = Len(ps) /\ Len(hs) < MaxHooks
  <1> DEFINE t == Least(Len(ps), Monus(MaxHooks, Len(hs)))
             r == hs \o SubSeq(ps, 1, t)
             u == SubSeq(ps, 1, t)
  <1>1. MaxHooks \in Nat /\ Len(hs) \in Nat /\ Len(ps) \in Nat
    BY ModuleDiffAssumption
  <1>2. t \in 0 .. Len(ps) /\ (Len(hs) + t < MaxHooks => t = Len(ps) /\ Len(hs) < MaxHooks)
    BY <1>1 DEF Least, Monus
  <1> HIDE DEF t
  <1>3. u \in Seq(Nat \X Nat) /\ Len(u) = t /\ \A k \in 1 .. t : u[k] = ps[k]
    BY <1>1, <1>2
  <1> HIDE DEF u
  <1>4. r = hs \o u
    BY DEF u
  <1>5. /\ r \in Seq(Nat \X Nat) /\ Len(r) = Len(hs) + t
        /\ \A k \in 1 .. Len(hs) : r[k] = hs[k]
        /\ \A k \in 1 .. t : r[Len(hs) + k] = ps[k]
    <2> HIDE DEF r
    <2>1. r \in Seq(Nat \X Nat) /\ Len(r) = Len(hs) + t
      <3>1. u \in Seq(Nat \X Nat) /\ Len(u) = t
        BY <1>3
      <3>2. hs \o u \in Seq(Nat \X Nat) /\ Len(hs \o u) = Len(hs) + Len(u)
        BY <3>1, Joined
      <3> QED BY <1>4, <3>1, <3>2
    <2>2. ASSUME NEW k \in 1 .. Len(hs) PROVE r[k] = hs[k]
      <3>1. k \in Nat /\ 1 <= k /\ k <= Len(hs) + Len(u) /\ k <= Len(hs)
        BY <1>1, <1>2, <1>3, <2>2
      <3> QED BY <1>1, <1>3, <1>4, <3>1
    <2>3. ASSUME NEW k \in 1 .. t PROVE r[Len(hs) + k] = ps[k]
      <3> DEFINE j == Len(hs) + k
      <3>1. j \in Nat /\ 1 <= j /\ j <= Len(hs) + Len(u) /\ Len(hs) < j /\ j - Len(hs) = k
        BY <1>1, <1>2, <1>3, <2>3
      <3> HIDE DEF j
      <3>2. r[j] = u[j - Len(hs)]
        BY <1>1, <1>3, <1>4, <3>1
      <3> QED BY <1>3, <2>3, <3>1, <3>2 DEF j
    <2> QED BY <2>1, <2>2, <2>3
  <1> HIDE DEF r
  <1> QED BY <1>1, <1>2, <1>5 DEF r, t

\* The report of one more section, read from memory m without the pages lost.
AmongThem(f, m, lost, H, W) == lost \subseteq W /\ \A a \in Cells(0, f.soi) : m[a] \in H[a]
Compares(f, d, e, n, H, W) ==
    DiffTrue(f, e, n, H, W) /\ e.hollowed = d.hollowed

LEMMA SectionAdds ==
    ASSUME NEW f, IsFile(f), LaidOut(f), NEW i \in DOMAIN f.secs, Comparable(f, i),
           NEW m, NEW lost, NEW H, NEW W, AmongThem(f, m, lost, H, W),
           NEW d, DiffTrue(f, d, i, H, W)
    PROVE  Compares(f, d, Add(d, SectionPatches(f, i, m, lost)), i + 1, H, W)
  <1> DEFINE ps == SectionPatches(f, i, m, lost)
             e == Add(d, ps)
             hs == d.hooks
             t == Least(Len(ps), Monus(MaxHooks, Len(hs)))
             hooks == hs \o SubSeq(ps, 1, t)
             all == UNION {Span(ps[k]) : k \in 1 .. Len(ps)}
  <1>1. i \in Nat /\ f.soi \in Nat
    BY DEF IsFile
  <1>2. /\ ps \in Seq(Nat \X Nat) /\ Len(ps) \in Nat
        /\ \A k \in 1 .. Len(ps) : Aligned(ps[k])
        /\ \A k \in 1 .. Len(ps) : \A a \in Span(ps[k]) :
              a \in Place(f, i) /\ OffIat(f, a) /\ SeenAs(m, lost, a) # LoaderValue(f, a)
        /\ \A a \in Place(f, i) :
              OffIat(f, a) /\ SeenAs(m, lost, a) # LoaderValue(f, a)
                => \E k \in 1 .. Len(ps) : a \in Span(ps[k])
    BY SectionFinds
  <1> HIDE DEF ps
  <1>3. DOMAIN d = DOMAIN NoDiff /\ hs \in Seq(Nat \X Nat) /\ d.modified \in Nat /\ Len(hs) \in Nat
    BY DEF DiffTrue
  <1>4. /\ DOMAIN e = DOMAIN NoDiff
        /\ e.hooks = hooks /\ e.modified = d.modified + Bytes(ps)
        /\ e.hollowed = d.hollowed
    <2>1. {"hooks", "modified", "hollowed"} \subseteq DOMAIN d
      BY <1>3 DEF NoDiff
    <2> DEFINE g == [d EXCEPT !.hooks = hooks]
    <2>2. /\ DOMAIN g = DOMAIN d /\ g.hooks = hooks /\ g.modified = d.modified
          /\ g.hollowed = d.hollowed
      <3> HIDE DEF hooks
      <3> QED BY <2>1
    <2>3. e = [g EXCEPT !.modified = @ + Bytes(ps)]
      BY <2>1, <2>2 DEF Add
    <2> HIDE DEF g, e
    <2> QED BY <1>3, <2>1, <2>2, <2>3
  <1> HIDE DEF e
  <1>5. /\ hooks \in Seq(Nat \X Nat) /\ t \in 0 .. Len(ps) /\ Len(hooks) = Len(hs) + t
        /\ \A k \in 1 .. Len(hs) : hooks[k] = hs[k]
        /\ \A k \in 1 .. t : hooks[Len(hs) + k] = ps[k]
        /\ Len(hooks) < MaxHooks => t = Len(ps) /\ Len(hs) < MaxHooks
    BY <1>2, <1>3, HooksAdded
  <1>6. Bytes(ps) \in Nat /\ IsFiniteSet(all) /\ Ptr * Cardinality(all) <= Bytes(ps)
    BY <1>2, BytesCount
  <1> HIDE DEF hooks, t
  <1>7. ASSUME NEW k \in 1 .. Len(ps), NEW a \in Span(ps[k])
        PROVE  a \in Code(f) /\ (Page(a) \in W \/ \E v \in H[a] : v # LoaderValue(f, a))
    <2>1. a \in Place(f, i) /\ OffIat(f, a) /\ SeenAs(m, lost, a) # LoaderValue(f, a)
      BY <1>2, <1>7
    <2>2. a \in Code(f)
      BY <2>1, CodeIs
    <2>3. m[a] \in H[a] /\ lost \subseteq W
      BY <2>1, PlaceIs DEF AmongThem
    <2> QED BY <2>1, <2>2, <2>3 DEF SeenAs
  <1>8. ASSUME NEW k \in 1 .. Len(hooks), NEW a \in Span(hooks[k])
        PROVE  a \in Code(f) /\ (Page(a) \in W \/ \E v \in H[a] : v # LoaderValue(f, a))
    <2>1. CASE k \in 1 .. Len(hs)
      <3>1. a \in Span(hs[k])
        BY <1>5, <1>8, <2>1
      <3> QED BY <2>1, <3>1 DEF DiffTrue
    <2>2. CASE k \notin 1 .. Len(hs)
      <3> DEFINE j == k - Len(hs)
      <3>1. j \in 1 .. t /\ j \in 1 .. Len(ps) /\ Len(hs) + j = k
        <4>1. k \in Nat /\ 1 <= k /\ k <= Len(hs) + t /\ Len(hs) < k /\ t \in Nat /\ t <= Len(ps)
          BY <1>2, <1>3, <1>5, <1>8, <2>2
        <4>2. Len(hs) \in Nat /\ Len(ps) \in Nat
          BY <1>2, <1>3
        <4> HIDE DEF hs
        <4>3. j \in Nat /\ 1 <= j /\ j <= t /\ Len(hs) + j = k
          BY <4>1, <4>2
        <4> HIDE DEF j
        <4> QED BY <4>1, <4>2, <4>3
      <3> HIDE DEF j
      <3>2. a \in Span(ps[j])
        BY <1>5, <1>8, <3>1
      <3> QED BY <1>7, <3>1, <3>2
    <2> QED BY <2>1, <2>2
  <1>9. ASSUME NEW a \in Found(f, i + 1, H, W)
        PROVE  a \in Found(f, i, H, W) \/ \E k \in 1 .. Len(ps) : a \in Span(ps[k])
    <2>1. /\ a \in Code(f) /\ Page(a) \notin W /\ LoaderValue(f, a) \notin H[a]
          /\ \E j \in DOMAIN f.secs : j < i + 1 /\ Comparable(f, j) /\ a \in Place(f, j)
      BY DEF Found
    <2>2. PICK j \in DOMAIN f.secs : j < i + 1 /\ Comparable(f, j) /\ a \in Place(f, j)
      BY <2>1
    <2>3. j \in Nat
      BY DEF IsFile
    <2>4. CASE j < i
      BY <2>1, <2>2, <2>4 DEF Found
    <2>5. CASE j = i
      <3>1. a \in Place(f, i) /\ OffIat(f, a)
        BY <2>1, <2>2, <2>5, CodeIs
      <3>2. m[a] \in H[a] /\ lost \subseteq W
        BY <3>1, PlaceIs DEF AmongThem
      <3>3. SeenAs(m, lost, a) # LoaderValue(f, a)
        BY <2>1, <3>2 DEF SeenAs
      <3> QED BY <1>2, <3>1, <3>3
    <2> QED BY <1>1, <2>2, <2>3, <2>4, <2>5
  <1>10. ASSUME Len(hooks) < MaxHooks, NEW a \in Found(f, i + 1, H, W)
         PROVE  \E k \in 1 .. Len(hooks) : a \in Span(hooks[k])
    <2>1. t = Len(ps) /\ Len(hs) < MaxHooks
      BY <1>5, <1>10
    <2>2. CASE a \in Found(f, i, H, W)
      <3>1. PICK k \in 1 .. Len(hs) : a \in Span(hs[k])
        BY <2>1, <2>2 DEF DiffTrue
      <3>2. k \in 1 .. Len(hooks) /\ hooks[k] = hs[k]
        BY <1>2, <1>3, <1>5, <3>1
      <3> QED BY <3>1, <3>2
    <2>3. ASSUME NEW k \in 1 .. Len(ps), a \in Span(ps[k])
          PROVE  \E j \in 1 .. Len(hooks) : a \in Span(hooks[j])
      <3> DEFINE j == Len(hs) + k
      <3>1. j \in 1 .. Len(hooks) /\ hooks[j] = ps[k]
        <4>1. /\ k \in Nat /\ 1 <= k /\ k <= t /\ Len(hs) \in Nat /\ t \in Nat
              /\ Len(hooks) = Len(hs) + t /\ hooks[Len(hs) + k] = ps[k]
          BY <1>2, <1>3, <1>5, <2>1, <2>3
        <4> HIDE DEF hs
        <4>2. j \in Nat /\ 1 <= j /\ j <= Len(hooks)
          BY <4>1
        <4> QED BY <4>1, <4>2
      <3> HIDE DEF j
      <3> QED BY <2>3, <3>1
    <2> QED BY <1>9, <2>2, <2>3
  <1>11. Ptr * Cardinality(Found(f, i + 1, H, W)) <= d.modified + Bytes(ps)
    <2> DEFINE old == Found(f, i, H, W)
               both == old \cup all
    <2>1. Found(f, i + 1, H, W) \subseteq both
      BY <1>9
    <2>2. IsFiniteSet(old) /\ Cardinality(old) \in Nat /\ Ptr * Cardinality(old) <= d.modified
      BY FoundFinite DEF DiffTrue
    <2> HIDE DEF old, all
    <2>3. /\ IsFiniteSet(both) /\ Cardinality(both) \in Nat /\ Cardinality(all) \in Nat
          /\ Cardinality(both) <= Cardinality(old) + Cardinality(all)
      BY <1>6, <2>2, UnionBound, FS_CardinalityType
    <2> HIDE DEF both
    <2>4. Ptr \in Nat
      BY PeImageAssumption
    <2>5. Ptr * Cardinality(both) <= Ptr * Cardinality(old) + Ptr * Cardinality(all)
      BY <2>2, <2>3, <2>4, Scales
    <2>6. \A c \in Nat : Ptr * c \in Nat
      BY <2>4
    <2>7. Ptr * Cardinality(both) <= d.modified + Bytes(ps)
      <3> DEFINE x == Ptr * Cardinality(old)
                 y == Ptr * Cardinality(all)
                 z == Ptr * Cardinality(both)
      <3>1. /\ x \in Nat /\ y \in Nat /\ z \in Nat /\ z <= x + y
            /\ x <= d.modified /\ y <= Bytes(ps)
        BY <1>6, <2>2, <2>3, <2>5, <2>6 DEF all
      <3> HIDE DEF x, y, z
      <3>2. z <= d.modified + Bytes(ps)
        BY <1>3, <1>6, <3>1
      <3> QED BY <3>2 DEF z
    <2>8. d.modified + Bytes(ps) \in Nat
      BY <1>3, <1>6
    <2> QED BY <2>1, <2>3, <2>7, <2>8, CountShrinks
  <1>12. d.modified + Bytes(ps) \in Nat
    BY <1>3, <1>6
  <1>13. DiffTrue(f, e, i + 1, H, W)
    BY <1>4, <1>5, <1>8, <1>10, <1>11, <1>12 DEF DiffTrue
  <1> QED BY <1>4, <1>13 DEF e, ps, Compares

LEMMA SectionSkipped ==
    ASSUME NEW f, IsFile(f), NEW i \in DOMAIN f.secs, ~Comparable(f, i),
           NEW H, NEW W, NEW d, DiffTrue(f, d, i, H, W)
    PROVE  DiffTrue(f, d, i + 1, H, W)
  <1>1. DOMAIN f.secs \subseteq Nat
    BY DEF IsFile
  <1>2. Found(f, i + 1, H, W) = Found(f, i, H, W)
    <2>1. \A j \in DOMAIN f.secs : j < i + 1 <=> j < i \/ j = i
      BY <1>1
    <2> QED BY <2>1 DEF Found
  <1> QED BY <1>2 DEF DiffTrue

\* Before the first section, and for a file without an image.
LEMMA NothingFound ==
    ASSUME NEW f, IsFile(f), NEW n, n = 1 \/ ~HasImage(f), NEW H, NEW W, NEW d,
           DOMAIN d = DOMAIN NoDiff, d.hooks = <<>>, d.modified = 0
    PROVE  DiffTrue(f, d, n, H, W)
  <1>1. Found(f, n, H, W) = {}
    <2>1. CASE n = 1
      <3>1. \A i \in DOMAIN f.secs : ~(i < 1)
        BY DEF IsFile
      <3> QED BY <2>1, <3>1 DEF Found
    <2>2. CASE ~HasImage(f)
      <3>1. \A i \in DOMAIN f.secs : ~Comparable(f, i)
        BY <2>2 DEF Comparable
      <3> QED BY <3>1 DEF Found
    <2> QED BY <2>1, <2>2
  <1>2. Ptr * Cardinality({}) = 0
    <2>1. Cardinality({}) = 0
      BY FS_EmptySet
    <2> QED BY <2>1, PeImageAssumption
  <1>3. d.hooks \in Seq(Nat \X Nat) /\ Len(d.hooks) = 0
    OBVIOUS
  <1> QED BY <1>1, <1>2, <1>3 DEF DiffTrue

-----------------------------------------------------------------------------
(* The comparison, step by step.                                           *)

FilesLaidOut ==
    \A s \in Scenarios : s.kind \in {"main", "dep"} /\ s.disk.found => LaidOut(s.disk)

Differs(h) ==
    /\ scenario.disk.found
    /\ h # NoHeader /\ (Modified(scenario.disk, h) \/ Rebased(h))
HollowTrue ==
    /\ diff.hollowed => ~scenario.disk.sameName \/ \E h \in headers : Differs(h)
    /\ (~scenario.disk.sameName \/ (0 \notin wasBad /\ \A h \in headers : Differs(h)))
          => diff.hollowed

\* The section that has been reached; all of them, once the comparison is over.
Reached == IF stage = "sections" THEN section ELSE Len(scenario.disk.secs) + 1

CompareInv ==
    scenario.kind \in {"main", "dep"} =>
        /\ stage = "diff" => diff = NoDiff /\ section = 1
        /\ stage = "sections" => scenario.disk.found
        /\ stage # "diff" => HollowTrue
        /\ stage # "diff" /\ scenario.disk.found =>
             /\ Reached \in 1 .. (Len(scenario.disk.secs) + 1)
             /\ DiffTrue(scenario.disk, diff, Reached, had, wasBad)

LEMMA DiskFits ==
    ASSUME History, FilesLaidOut, scenario.kind \in {"main", "dep"}, scenario.disk.found
    PROVE  /\ IsFile(scenario.disk) /\ LaidOut(scenario.disk)
           /\ Cells(0, scenario.disk.soi) \subseteq DOMAIN mem
           /\ \A a \in Cells(0, scenario.disk.soi) : mem[a] \in had[a]
           /\ Len(scenario.disk.secs) \in Nat
           /\ DOMAIN scenario.disk.secs = 1 .. Len(scenario.disk.secs)
  <1>1. scenario \in Scenarios /\ DOMAIN mem = DOMAIN scenario.mem
        /\ \A a \in DOMAIN mem : mem[a] \in had[a]
    BY DEF History
  <1>2. IsFile(scenario.disk) /\ Cells(0, scenario.disk.soi) \subseteq DOMAIN scenario.mem
    BY <1>1, RebuildAssumption
  <1>3. LaidOut(scenario.disk)
    BY <1>1 DEF FilesLaidOut
  <1>4. scenario.disk.secs \in Seq(FileSections)
    BY <1>2 DEF IsFile
  <1> QED BY <1>1, <1>2, <1>3, <1>4

(* What is said of a comparison stays true while the target goes on.       *)
LEMMA CompareLasts ==
    ASSUME RebuildInv, FilesLaidOut, CompareInv,
           UNCHANGED <<scenario, diff>>,
           stage' # "diff", stage # "diff", Reached' = Reached,
           stage' = "sections" => stage = "sections",
           headers \subseteq headers', wasBad \subseteq wasBad',
           \A a \in DOMAIN mem : had[a] \subseteq had'[a]
    PROVE  CompareInv'
  <1>1. SUFFICES ASSUME scenario.kind \in {"main", "dep"}
                 PROVE  /\ HollowTrue'
                        /\ scenario.disk.found =>
                             /\ Reached \in 1 .. (Len(scenario.disk.secs) + 1)
                             /\ DiffTrue(scenario.disk, diff, Reached, had', wasBad')
    BY DEF CompareInv
  <1>2. /\ HollowTrue
        /\ scenario.disk.found =>
             /\ Reached \in 1 .. (Len(scenario.disk.secs) + 1)
             /\ DiffTrue(scenario.disk, diff, Reached, had, wasBad)
    BY <1>1 DEF CompareInv
  <1>3. \A h : Differs(h)' <=> Differs(h)
    BY DEF Differs
  <1>4. HollowTrue'
    BY <1>2, <1>3 DEF HollowTrue
  <1>5. ASSUME scenario.disk.found
        PROVE  DiffTrue(scenario.disk, diff, Reached, had', wasBad')
    <2>1. IsFile(scenario.disk) /\ Cells(0, scenario.disk.soi) \subseteq DOMAIN mem
      BY <1>1, <1>5, DiskFits DEF RebuildInv
    <2> QED BY <1>2, <1>5, <2>1, Outlives
  <1> QED BY <1>2, <1>4, <1>5

LEMMA HeadCompared ==
    ASSUME RebuildInv, FilesLaidOut, CompareInv, DiffHead
    PROVE  CompareInv'
  <1> DEFINE f == scenario.disk
             hollowed == \/ ~f.sameName
                         \/ /\ f.found /\ HeaderRead # NoHeader
                            /\ Modified(f, HeaderRead) \/ Rebased(HeaderRead)
  <1>1. /\ stage = "diff" /\ stage' = IF f.found /\ HasImage(f) THEN "sections" ELSE "head"
        /\ diff' = [diff EXCEPT !.hollowed = hollowed]
        /\ UNCHANGED <<scenario, section, mem, had, bad, header, headers, wasBad>>
    BY DEF DiffHead, targetVars
  <1>2. SUFFICES ASSUME scenario.kind \in {"main", "dep"}
                 PROVE  /\ stage' = "sections" => f.found
                        /\ HollowTrue'
                        /\ f.found =>
                             /\ Reached' \in 1 .. (Len(f.secs) + 1)
                             /\ DiffTrue(f, diff', Reached', had, wasBad)
    BY <1>1 DEF CompareInv
  <1>3. diff = NoDiff /\ section = 1
    BY <1>1, <1>2 DEF CompareInv
  <1>4. /\ DOMAIN diff' = DOMAIN NoDiff /\ diff'.hollowed = hollowed
        /\ diff'.hooks = <<>> /\ diff'.modified = 0
    <2> HIDE DEF hollowed, f
    <2> QED BY <1>1, <1>3 DEF NoDiff
  <1>5. ASSUME f.found
        PROVE  /\ Reached' \in 1 .. (Len(f.secs) + 1)
               /\ DiffTrue(f, diff', Reached', had, wasBad)
    <2>1. IsFile(f) /\ Len(f.secs) \in Nat
      BY <1>2, <1>5, DiskFits DEF RebuildInv
    <2>2. Reached' = (IF HasImage(f) THEN 1 ELSE Len(f.secs) + 1)
      BY <1>1, <1>3, <1>5 DEF Reached
    <2>3. Reached' \in 1 .. (Len(f.secs) + 1)
      BY <2>1, <2>2
    <2>4. DiffTrue(f, diff', Reached', had, wasBad)
      <3>1. Reached' = 1 \/ ~HasImage(f)
        BY <2>2
      <3> HIDE DEF f
      <3> QED BY <1>4, <2>1, <3>1, NothingFound
    <2> QED BY <2>3, <2>4
  <1>6. HollowTrue'
    <2>5. \A h : Differs(h)' <=> Differs(h)
      BY <1>1 DEF Differs
    <2>6. header \in headers /\ bad \subseteq wasBad
      BY DEF RebuildInv, History
    <2>7. diff'.hollowed => ~f.sameName \/ (Differs(HeaderRead) /\ HeaderRead = header)
      BY <1>4 DEF Differs, HeaderRead
    <2>8. 0 \notin wasBad => HeaderRead = header
      <3>1. PageSize \in Nat \ {0}
        BY PeImageAssumption
      <3>2. Page(0) = 0 /\ Page(0 + PageSize - 1) = 0
        <4>1. 0 * PageSize = 0 /\ 0 + PageSize - 1 \in Nat /\ 0 + PageSize - 1 < 0 + PageSize
              /\ 0 <= 0 + PageSize - 1
          BY <3>1
        <4> QED BY <3>1, <4>1, PageOf
      <3>3. 0 \notin bad => Reads(bad, 0, PageSize)
        BY <3>2 DEF Reads
      <3> QED BY <2>6, <3>3 DEF HeaderRead
    <2>9. ~f.sameName \/ (Differs(header) /\ HeaderRead = header) => hollowed
      BY DEF Differs
    <2> HIDE DEF hollowed
    <2>10. diff'.hollowed => ~f.sameName \/ \E h \in headers' : Differs(h)'
      BY <1>1, <2>5, <2>6, <2>7
    <2>11. (~f.sameName \/ (0 \notin wasBad' /\ \A h \in headers' : Differs(h)')) => diff'.hollowed
      BY <1>1, <1>4, <2>5, <2>6, <2>8, <2>9
    <2> QED BY <1>1, <2>10, <2>11 DEF HollowTrue
  <1> QED BY <1>1, <1>5, <1>6

LEMMA SectionCompared ==
    ASSUME RebuildInv, FilesLaidOut, CompareInv, DiffSection
    PROVE  CompareInv'
  <1> DEFINE f == scenario.disk
  <1>1. /\ stage = "sections"
        /\ UNCHANGED <<scenario, mem, had, bad, header, headers, wasBad>>
    BY DEF DiffSection, targetVars
  <1>2. CASE section \notin DOMAIN f.secs
    <2>1. stage' = "head" /\ UNCHANGED <<diff, section>>
      BY <1>2 DEF DiffSection
    <2>2. SUFFICES ASSUME scenario.kind \in {"main", "dep"} PROVE CompareInv'
      BY <1>1 DEF CompareInv
    <2>3. f.found /\ section \in 1 .. (Len(f.secs) + 1) /\ Reached = section
      BY <1>1, <2>2 DEF CompareInv, Reached
    <2>4. Len(f.secs) \in Nat /\ DOMAIN f.secs = 1 .. Len(f.secs)
      BY <2>2, <2>3, DiskFits DEF RebuildInv
    <2>5. section = Len(f.secs) + 1
      BY <1>2, <2>3, <2>4
    <2>6. Reached' = Reached
      BY <1>1, <2>1, <2>3, <2>5 DEF Reached
    <2> QED BY <1>1, <2>1, <2>6, CompareLasts
  <1>3. CASE section \in DOMAIN f.secs
    <2>1. /\ stage' = stage /\ section' = section + 1
          /\ diff' = IF Comparable(f, section)
                       THEN Add(diff, SectionPatches(f, section, mem, bad)) ELSE diff
      BY <1>3 DEF DiffSection
    <2>2. SUFFICES ASSUME scenario.kind \in {"main", "dep"}
                   PROVE  /\ f.found
                          /\ HollowTrue'
                          /\ Reached' \in 1 .. (Len(f.secs) + 1)
                          /\ DiffTrue(f, diff', Reached', had, wasBad)
      BY <1>1, <2>1 DEF CompareInv
    <2>3. /\ f.found /\ HollowTrue
          /\ DiffTrue(f, diff, section, had, wasBad)
      BY <1>1, <2>2 DEF CompareInv, Reached
    <2>4. /\ IsFile(f) /\ LaidOut(f) /\ \A a \in Cells(0, f.soi) : mem[a] \in had[a]
          /\ Len(f.secs) \in Nat /\ DOMAIN f.secs = 1 .. Len(f.secs)
      BY <2>2, <2>3, DiskFits DEF RebuildInv
    <2>5. bad \subseteq wasBad
      BY DEF RebuildInv, History
    <2>6. Reached' = section + 1 /\ Reached' \in 1 .. (Len(f.secs) + 1)
      <3>1. Reached' = section + 1
        BY <1>1, <2>1 DEF Reached
      <3> QED BY <1>3, <2>4, <3>1
    <2>7. /\ DiffTrue(f, diff', section + 1, had, wasBad)
          /\ diff'.hollowed = diff.hollowed
      <3> HIDE DEF f
      <3>1. CASE Comparable(f, section)
        <4>1. Compares(f, diff, Add(diff, SectionPatches(f, section, mem, bad)), section + 1,
                       had, wasBad)
          <5>1. AmongThem(f, mem, bad, had, wasBad)
            BY <2>4, <2>5 DEF AmongThem
          <5> QED BY <1>3, <2>3, <2>4, <3>1, <5>1, SectionAdds
        <4>2. diff' = Add(diff, SectionPatches(f, section, mem, bad))
          BY <2>1, <3>1
        <4> QED BY <4>1, <4>2 DEF Compares
      <3>2. CASE ~Comparable(f, section)
        BY <1>3, <2>1, <2>3, <2>4, <3>2, SectionSkipped
      <3> QED BY <3>1, <3>2
    <2>8. HollowTrue'
      <3>1. \A h : Differs(h)' <=> Differs(h)
        BY <1>1 DEF Differs
      <3> QED BY <1>1, <2>3, <2>7, <3>1 DEF HollowTrue
    <2> QED BY <2>3, <2>6, <2>7, <2>8
  <1> QED BY <1>2, <1>3

LEMMA NextCompares ==
    ASSUME RebuildInv, FilesLaidOut, CompareInv, [RebuildNext]_rebuildVars
    PROVE  CompareInv'
  <1>1. CASE DiffHead
    BY <1>1, HeadCompared
  <1>2. CASE DiffSection
    BY <1>2, SectionCompared
  <1>3. CASE \/ ReadHead \/ ReadWhole \/ ReadNext \/ Align \/ Synthesize \/ ResolveImports
             \/ SetEntry
    <2>1. /\ stage \notin {"diff", "sections"} /\ stage' \notin {"diff", "sections"}
          /\ UNCHANGED <<scenario, targetVars, diff>>
      BY <1>3 DEF ReadHead, NoImage, ReadWhole, ReadNext, Reading, Align, Synthesize,
                  ResolveImports, SetEntry
    <2>2. UNCHANGED <<mem, had, headers, wasBad>>
      BY <2>1 DEF targetVars
    <2>3. Reached' = Reached
      BY <2>1 DEF Reached
    <2> QED BY <2>1, <2>2, <2>3, CompareLasts
  <1>4. CASE \/ Write \/ ChangeHeader \/ Protect \/ UNCHANGED rebuildVars
    <2>1. UNCHANGED <<scenario, stage, section, diff>>
      BY <1>4 DEF Write, ChangeHeader, Protect, TargetChanges, rebuildVars
    <2>2. /\ headers \subseteq headers' /\ wasBad \subseteq wasBad'
          /\ \A a \in DOMAIN mem : had[a] \subseteq had'[a]
      <3>1. CASE Write
        <4>1. PICK p : had' = [had EXCEPT ![p[1]] = @ \cup {p[2]}]
          BY <3>1 DEF Write
        <4>2. DOMAIN had = DOMAIN mem
          BY DEF RebuildInv, History
        <4>3. UNCHANGED <<headers, wasBad>>
          BY <3>1 DEF Write
        <4> QED BY <4>1, <4>2, <4>3
      <3>2. CASE ChangeHeader
        BY <3>2 DEF ChangeHeader
      <3>3. CASE Protect
        BY <3>3 DEF Protect
      <3>4. CASE UNCHANGED rebuildVars
        BY <3>4 DEF rebuildVars, targetVars
      <3> QED BY <1>4, <3>1, <3>2, <3>3, <3>4
    <2>3. Reached' = Reached
      BY <2>1 DEF Reached
    <2>4. CASE stage = "diff"
      BY <2>1, <2>4 DEF CompareInv
    <2> QED BY <2>1, <2>2, <2>3, <2>4, CompareLasts
  <1> QED BY <1>1, <1>2, <1>3, <1>4 DEF RebuildNext

LEMMA StartCompares == RebuildInit => CompareInv
  BY DEF RebuildInit, CompareInv

(* At the end of the comparison its report is exact.                       *)
LEMMA FoundExactly ==
    ASSUME RebuildInv, FilesLaidOut, CompareInv, scenario.disk.found,
           scenario.kind \in {"main", "dep"}, stage \notin {"diff", "sections"}
    PROVE  DiffExact
  <1> DEFINE f == scenario.disk
             hooks == diff.hooks
             n == Len(f.secs) + 1
             listed == UNION {Cells(hooks[k][1], hooks[k][2] - hooks[k][1] + Ptr) :
                                k \in DOMAIN hooks}
             patched == {a \in Code(f) : Page(a) \notin wasBad /\ LoaderValue(f, a) \notin had[a]}
  <1>1. f.found /\ HollowTrue /\ DiffTrue(f, diff, n, had, wasBad)
    BY DEF CompareInv, Reached
  <1>2. IsFile(f) /\ Len(f.secs) \in Nat /\ DOMAIN f.secs = 1 .. Len(f.secs)
    BY <1>1, DiskFits DEF RebuildInv
  <1>3. DOMAIN hooks = 1 .. Len(hooks)
    BY <1>1 DEF DiffTrue
  <1>4. \A a : a \in listed <=> \E k \in 1 .. Len(hooks) : a \in Span(hooks[k])
    BY <1>3 DEF Span
  <1> HIDE DEF hooks, listed
  <1>5. patched = Found(f, n, had, wasBad)
    <2>1. ASSUME NEW a \in Code(f)
          PROVE  \E i \in DOMAIN f.secs : i < n /\ Comparable(f, i) /\ a \in Place(f, i)
      <3>1. PICK i \in DOMAIN f.secs : Comparable(f, i) /\ a \in Place(f, i)
        BY <1>2, CodeIs
      <3>2. i < n
        BY <1>2
      <3> QED BY <3>1, <3>2
    <2> HIDE DEF n, f
    <2> QED BY <2>1 DEF Found
  <1> HIDE DEF patched, n
  <1>6. /\ listed \subseteq Code(f)
        /\ \A a \in listed : Page(a) \in wasBad \/ \E v \in had[a] : v # LoaderValue(f, a)
    BY <1>1, <1>4 DEF DiffTrue, hooks
  <1>7. Len(diff.hooks) < MaxHooks => patched \subseteq listed
    BY <1>1, <1>4, <1>5 DEF DiffTrue, hooks
  <1>8. diff.modified >= Ptr * Cardinality(patched)
    <2>1. diff.modified \in Nat /\ Ptr * Cardinality(patched) <= diff.modified
      BY <1>1, <1>5 DEF DiffTrue
    <2>2. Cardinality(patched) \in Nat /\ Ptr \in Nat
      BY <1>2, <1>5, FoundFinite, PeImageAssumption
    <2>3. Ptr * Cardinality(patched) \in Nat
      BY <2>2
    <2> QED BY <2>1, <2>3
  <1> QED BY <1>1, <1>6, <1>7, <1>8
          DEF DiffExact, HollowTrue, Differs, hooks, listed, patched

LEMMA ComparedExactly ==
    ASSUME RebuildInv, FilesLaidOut, CompareInv
    PROVE  DiffExact
  <1> SUFFICES ASSUME scenario.kind \in {"main", "dep"}, stage \notin {"diff", "sections"}
               PROVE  DiffExact
    BY DEF DiffExact
  <1>0. CASE ~scenario.disk.found
    <2>1. HollowTrue
      BY DEF CompareInv
    <2> QED BY <1>0, <2>1 DEF DiffExact, HollowTrue, Differs
  <1>a. CASE scenario.disk.found
    BY <1>a, FoundExactly
  <1> QED BY <1>0, <1>a

(* The report of a comparison is exact: no cell is listed that the loader  *)
(* has only relocated or bound, every readable patch is listed up to the   *)
(* cap and counted beyond it; and a module is hollowed if the loader names *)
(* another file than is mapped, or its header differs from the file's      *)
(* while it is read, and for no other reason (diff.rs:36-44, 74-79,        *)
(* 105-107, 113-121), for files that Windows would load.                   *)
THEOREM ComparisonIsExact ==
    ASSUME FilesLaidOut
    PROVE  RebuildSpec => []DiffExact
  <1>1. RebuildInv /\ CompareInv /\ [RebuildNext]_rebuildVars => CompareInv'
    BY NextCompares
  <1>2. RebuildInv /\ CompareInv => DiffExact
    BY ComparedExactly
  <1> QED BY <1>1, <1>2, StartCompares, RebuildInvariant, PTL DEF RebuildSpec

-----------------------------------------------------------------------------
(* What the imports mean.                                                  *)

\* Each export's ordinal fits the 16 bits of an import by ordinal.
OrdinalsFit ==
    \A n \in DOMAIN ModuleList : \A i \in DOMAIN ModuleList[n].funcs :
        ModuleList[n].ordinalBase + i - 1 < 65536

(* The catalog resolves exactly the addresses of exported code.            *)
LEMMA ExportedResolves == ASSUME NEW va PROVE Exported(va) <=> Resolves(va)
  <1>1. DOMAIN Catalog = {Va(e) : e \in Entries}
    BY DEF Catalog
  <1>2. ASSUME Exported(va) PROVE Resolves(va)
    <2>1. PICK n \in DOMAIN ModuleList :
             \E i \in DOMAIN ModuleList[n].funcs : Exports(ModuleList[n], i, va)
      BY <1>2 DEF Exported
    <2> DEFINE m == ModuleList[n]
    <2>2. PICK i \in DOMAIN m.funcs : Exports(m, i, va)
      BY <2>1
    <2>3. m.funcs \in Seq(Nat)
      <3>1. ModuleList \in Seq(Modules)
        BY ImportsAssumption DEF Modules
      <3>2. m \in Modules
        BY <3>1
      <3> HIDE DEF m
      <3> QED BY <3>2 DEF Modules
    <2> HIDE DEF m
    <2>4. DOMAIN m.funcs = 1 .. Len(m.funcs) /\ Len(m.funcs) <= MaxFunctions
      BY <2>2, <2>3 DEF Exports, Usable
    <2>5. i \in 1 .. MaxFunctions
      <3>1. i \in 1 .. Len(m.funcs) /\ Len(m.funcs) \in Nat
        BY <2>2, <2>3, <2>4
      <3>2. MaxFunctions \in Nat
        BY ImportsAssumption
      <3> QED BY <2>4, <3>1, <3>2
    <2> DEFINE e == <<n, i>>
    <2>6. e \in Entries
      BY <2>2, <2>5 DEF Entries, Exports, m
    <2>7. Va(e) = va
      BY <2>2 DEF Va, Exports, m
    <2> QED BY <1>1, <2>6, <2>7 DEF Resolves
  <1>3. ASSUME Resolves(va) PROVE Exported(va)
    <2>1. PICK e \in Entries : Va(e) = va
      BY <1>1, <1>3 DEF Resolves
    <2>2. e[1] \in DOMAIN ModuleList
      BY EntryTyped
    <2>3. e[2] \in DOMAIN ModuleList[e[1]].funcs /\ Exports(ModuleList[e[1]], e[2], va)
      BY <2>1 DEF Entries, Exports, Va
    <2> QED BY <2>2, <2>3 DEF Exported
  <1> QED BY <1>2, <1>3

\* An import that says what the catalog has for va.
Tells(x, va) ==
    /\ x.module = Catalog[va].module /\ x.name = Catalog[va].name
    /\ x.name = NoName => x.ordinal = Catalog[va].ordinal

LEMMA TellsMeans ==
    ASSUME OrdinalsFit, NEW va, Resolves(va), NEW x, Tells(x, va)
    PROVE  Means(x, va)
  <1>1. PICK e \in Entries :
           /\ Va(e) = va /\ Catalog[va] = Ref(e)
           /\ \A d \in Entries : Va(d) = va =>
                 Priority(Ref(d).module) <= Priority(Ref(e).module)
    BY CatalogPicks DEF Resolves
  <1> DEFINE n == e[1]
             i == e[2]
             m == ModuleList[n]
  <1>2. /\ n \in DOMAIN ModuleList /\ m \in Modules /\ n \in Nat /\ i \in Nat \ {0}
        /\ i \in DOMAIN m.funcs
    BY EntryTyped DEF Entries
  <1>3. Exports(m, i, va)
    BY <1>1 DEF Entries, Exports, Va
  <1>4. Catalog[va] = ExportRef(m, i)
    BY <1>1 DEF Ref
  <1>5. /\ x.module = m.name /\ x.name = NameOf(m, i)
        /\ x.name = NoName => x.ordinal = (m.ordinalBase + i - 1) % 65536
    BY <1>4 DEF Tells, ExportRef
  <1>6. (m.ordinalBase + i - 1) % 65536 = m.ordinalBase + i - 1
    <2>1. m.ordinalBase \in Nat
      <3> HIDE DEF m
      <3> QED BY <1>2 DEF Modules
    <2>2. m.ordinalBase + i - 1 \in Nat /\ m.ordinalBase + i - 1 < 65536
      BY <1>2, <2>1 DEF OrdinalsFit
    <2> QED BY <2>2
  <1>7. IF Named(m, i) # {} THEN x.name \in Named(m, i)
        ELSE x.name = NoName /\ x.ordinal = m.ordinalBase + i - 1
    <2> HIDE DEF m, i
    <2>1. Named(m, i) = {m.names[k].name : k \in {j \in DOMAIN m.names : m.names[j].index = i}}
                        \ {NoName}
      BY DEF Named
    <2>2. CASE NameOf(m, i) = NoName
                /\ ~\E k \in DOMAIN m.names : m.names[k].index = i /\ m.names[k].name # NoName
      <3>1. Named(m, i) = {}
        BY <2>1, <2>2
      <3> QED BY <1>5, <1>6, <2>2, <3>1
    <2>3. CASE /\ NameOf(m, i) # NoName
               /\ \E k \in DOMAIN m.names : m.names[k].index = i /\ m.names[k].name = NameOf(m, i)
      <3>1. NameOf(m, i) \in Named(m, i)
        BY <2>1, <2>3
      <3> QED BY <1>5, <3>1
    <2> QED BY <1>2, <2>2, <2>3, NameOfIs
  <1>8. ASSUME NEW l \in DOMAIN ModuleList, NEW j \in DOMAIN ModuleList[l].funcs,
               Exports(ModuleList[l], j, va)
        PROVE  Priority(ModuleList[l].name) <= Priority(x.module)
    <2> DEFINE d == <<l, j>>
               p == ModuleList[l]
    <2>1. p \in Modules
      <3>1. ModuleList \in Seq(Modules)
        BY ImportsAssumption DEF Modules
      <3> QED BY <3>1
    <2>2. p.funcs \in Seq(Nat)
      <3> HIDE DEF p
      <3> QED BY <2>1 DEF Modules
    <2>3. j \in 1 .. MaxFunctions
      <3>1. DOMAIN p.funcs = 1 .. Len(p.funcs) /\ Len(p.funcs) <= MaxFunctions
        BY <1>8, <2>2 DEF Exports, Usable
      <3> HIDE DEF p
      <3>2. Len(p.funcs) \in Nat
        BY <2>2
      <3>3. j \in 1 .. Len(p.funcs)
        BY <3>1 DEF p
      <3>4. MaxFunctions \in Nat
        BY ImportsAssumption
      <3> QED BY <3>1, <3>2, <3>3, <3>4
    <2>4. d \in Entries /\ Va(d) = va
      BY <1>8, <2>3 DEF Entries, Exports, Va
    <2>5. Ref(d).module = p.name /\ Ref(e).module = m.name
      BY DEF Ref, ExportRef
    <2> HIDE DEF d, m, p
    <2>6. Priority(p.name) <= Priority(m.name)
      BY <1>1, <2>4, <2>5
    <2> QED BY <1>5, <2>6 DEF p
  <1> HIDE DEF m, n, i
  <1> QED BY <1>2, <1>3, <1>5, <1>7, <1>8 DEF Means, m

-----------------------------------------------------------------------------
(* The descriptors list every slot once.                                   *)

\* The cells of the import address table.
Slots(cells) == {a \in DOMAIN cells : InRun(cells, a)}
Neighbours(a, len) == {a - Ptr, a + Ptr} \cap Cells(0, len)

LEMMA RunIs ==
    ASSUME NEW len \in Nat, NEW cells, DOMAIN cells = Cells(0, len), NEW a \in Cells(0, len)
    PROVE  InRun(cells, a) <=>
             Resolves(cells[a]) /\ \E b \in Neighbours(a, len) : Resolves(cells[b])
  <1>1. Ptr \in Nat \ {0} /\ a \in Nat /\ a % Ptr = 0 /\ a < len
    BY PeImageAssumption, CellsAre
  <1>0. ASSUME NEW b \in Nat, b % Ptr = 0 PROVE (b + Ptr) % Ptr = 0 /\ b + Ptr \in Nat
    <2>1. (b + Ptr) % Ptr = 0
      BY <1>0, CellGap
    <2>2. b + Ptr \in Nat
      BY <1>1
    <2> QED BY <2>1, <2>2
  <1>2. ASSUME NEW b \in Nat, b % Ptr = 0
        PROVE  \A c : c \in Cells(b, Ptr - 0 + Ptr) <=> c \in {b, b + Ptr}
    <2>1. ASSUME NEW c \in Nat, c % Ptr = 0
          PROVE  (b <= c /\ c < b + (Ptr + Ptr)) <=> c \in {b, b + Ptr}
      <3>1. b < c => b + Ptr <= c
        BY <1>2, <2>1, CellGap
      <3>2. (b + Ptr) % Ptr = 0 /\ b + Ptr \in Nat
        BY <1>0, <1>2
      <3>3. b + Ptr < c => b + Ptr + Ptr <= c
        BY <1>1, <2>1, <3>2, CellGap
      <3> QED BY <1>1, <3>1, <3>3
    <2>2. (b + Ptr) % Ptr = 0 /\ b + Ptr \in Nat
      BY <1>0, <1>2
    <2>3. Ptr - 0 + Ptr = Ptr + Ptr /\ Ptr + Ptr \in Nat
      BY <1>1
    <2>4. \A c : c \in Cells(b, Ptr + Ptr) <=> c \in Nat /\ b <= c /\ c < b + (Ptr + Ptr) /\ c % Ptr = 0
      BY <1>2, <2>3, CellsAre
    <2>5. ASSUME NEW c PROVE c \in Cells(b, Ptr + Ptr) <=> c \in {b, b + Ptr}
      BY <1>2, <2>1, <2>2, <2>4
    <2> QED BY <2>3, <2>5
  <1>3. ASSUME NEW b \in Nat, b % Ptr = 0
        PROVE  AllResolve(cells, b, b + (MinRun - 1) * Ptr) <=>
                 /\ b \in DOMAIN cells /\ Resolves(cells[b])
                 /\ b + Ptr \in DOMAIN cells /\ Resolves(cells[b + Ptr])
    <2> DEFINE hi == b + (MinRun - 1) * Ptr
               run == Cells(b, hi - b + Ptr)
    <2>1. hi - b + Ptr = Ptr - 0 + Ptr
      BY <1>1, <1>3 DEF MinRun
    <2> HIDE DEF hi
    <2>2. run = Cells(b, Ptr - 0 + Ptr)
      BY <2>1
    <2>3. \A c : c \in run <=> c \in {b, b + Ptr}
      <3> HIDE DEF run
      <3> QED BY <1>2, <1>3, <2>2
    <2>4. AllResolve(cells, b, hi) <=> \A c \in run : c \in DOMAIN cells /\ Resolves(cells[c])
      BY DEF AllResolve
    <2> HIDE DEF run
    <2> QED BY <2>3, <2>4 DEF hi
  <1>4. \A b \in DOMAIN cells : b \in Nat /\ b % Ptr = 0
    BY CellsAre
  <1>5. ASSUME InRun(cells, a)
        PROVE  Resolves(cells[a]) /\ \E b \in Neighbours(a, len) : Resolves(cells[b])
    <2>1. PICK b \in DOMAIN cells : b <= a /\ a < b + MinRun * Ptr
                                    /\ AllResolve(cells, b, b + (MinRun - 1) * Ptr)
      BY <1>5 DEF InRun
    <2>2. b \in Nat /\ b % Ptr = 0 /\ a < b + (Ptr + Ptr)
      BY <1>1, <1>4, <2>1 DEF MinRun
    <2>3. a = b \/ a = b + Ptr
      <3>1. b < a => b + Ptr <= a
        BY <1>1, <2>2, CellGap
      <3>2. (b + Ptr) % Ptr = 0 /\ b + Ptr \in Nat
        BY <1>1, <2>2, CellGap
      <3>3. b + Ptr < a => b + Ptr + Ptr <= a
        BY <1>1, <3>2, CellGap
      <3> QED BY <1>1, <2>1, <2>2, <3>1, <3>3
    <2>4. /\ b \in DOMAIN cells /\ Resolves(cells[b])
          /\ b + Ptr \in DOMAIN cells /\ Resolves(cells[b + Ptr])
      BY <1>3, <2>1, <2>2
    <2>5. CASE a = b
      BY <2>4, <2>5 DEF Neighbours
    <2>6. CASE a = b + Ptr
      <3>1. a - Ptr = b
        BY <1>1, <2>2, <2>6
      <3> QED BY <2>4, <2>6, <3>1 DEF Neighbours
    <2> QED BY <2>3, <2>5, <2>6
  <1>6. ASSUME Resolves(cells[a]), NEW b \in Neighbours(a, len), Resolves(cells[b])
        PROVE  InRun(cells, a)
    <2>1. CASE b = a + Ptr
      <3>1. AllResolve(cells, a, a + (MinRun - 1) * Ptr)
        BY <1>1, <1>3, <1>6, <2>1 DEF Neighbours
      <3>2. a <= a /\ a < a + MinRun * Ptr
        BY <1>1 DEF MinRun
      <3> QED BY <1>6, <3>1, <3>2 DEF InRun
    <2>2. CASE b = a - Ptr
      <3>1. b \in DOMAIN cells /\ b \in Nat /\ b % Ptr = 0 /\ b + Ptr = a
        BY <1>1, <1>4, <2>2 DEF Neighbours
      <3>2. AllResolve(cells, b, b + (MinRun - 1) * Ptr)
        BY <1>3, <1>6, <3>1
      <3>3. b <= a /\ a < b + MinRun * Ptr
        BY <1>1, <3>1 DEF MinRun
      <3> QED BY <1>6, <3>1, <3>2, <3>3 DEF InRun
    <2> QED BY <1>6, <2>1, <2>2 DEF Neighbours
  <1> QED BY <1>5, <1>6

(* Every cell of a block is of the module of its first.                    *)
LEMMA BlockModule ==
    ASSUME NEW len \in Nat, NEW cells, DOMAIN cells = Cells(0, len), NEW a \in Firsts(cells),
           NEW c \in Cells(a, LastFrom(cells, a) - a + Ptr)
    PROVE  c \in Slots(cells) /\ ModuleAt(cells, c) = ModuleAt(cells, a)
  <1> DEFINE z == LastFrom(cells, a)
             T == {b \in Cells(a, z - a + Ptr) :
                     ~(b \in Slots(cells) /\ ModuleAt(cells, b) = ModuleAt(cells, a))}
  <1>1. /\ z \in DOMAIN cells /\ a <= z
        /\ \A b \in Cells(a, z - a + Ptr) : InRun(cells, b) /\ (b = a \/ SameBlock(cells, b))
    BY BlockEnds
  <1>2. a \in DOMAIN cells /\ InRun(cells, a)
    BY DEF Firsts
  <1>3. /\ Ptr \in Nat \ {0} /\ a \in Nat /\ a % Ptr = 0 /\ z \in Nat /\ z % Ptr = 0 /\ z < len
    BY <1>1, <1>2, PeImageAssumption, CellsAre
  <1>4. z - a + Ptr \in Nat /\ a + (z - a + Ptr) = z + Ptr
    BY <1>1, <1>3
  <1> HIDE DEF z
  <1>5. \A b : b \in Cells(a, z - a + Ptr) <=>
                 b \in Nat /\ a <= b /\ b < z + Ptr /\ b % Ptr = 0
    BY <1>3, <1>4, CellsAre
  <1>6. T = {}
    <2>1. SUFFICES ASSUME T # {} PROVE FALSE
      OBVIOUS
    <2>2. T \in SUBSET Nat
      BY <1>5
    <2>3. PICK b \in T : \A x \in T : b <= x
      <3> HIDE DEF T
      <3> QED BY <2>1, <2>2, LeastOf
    <2>4. b \in Cells(a, z - a + Ptr)
      OBVIOUS
    <2>5. b \in Nat /\ a <= b /\ b < z + Ptr /\ b % Ptr = 0
      BY <1>5, <2>4
    <2>6. b \in Slots(cells)
      <3>1. b <= z
        <4>1. z < b => z + Ptr <= b
          BY <1>3, <2>5, CellGap
        <4> QED BY <1>3, <2>5, <4>1
      <3>2. b \in DOMAIN cells
        BY <1>3, <2>5, <3>1, CellsAre
      <3> QED BY <1>1, <2>4, <3>2 DEF Slots
    <2>7. b # a
      BY <2>3, <2>6
    <2>8. SameBlock(cells, b)
      BY <1>1, <2>4, <2>7
    <2> DEFINE y == b - Ptr
    <2>9. /\ ModuleAt(cells, y) = ModuleAt(cells, b)
      BY <2>8 DEF SameBlock
    <2>10. a < b
      BY <1>3, <2>5, <2>7
    <2>11. y \in Nat /\ y % Ptr = 0 /\ a <= y /\ y < b /\ y < z + Ptr
      <3>1. a + Ptr <= b /\ b - Ptr \in Nat /\ (b - Ptr) % Ptr = 0
        BY <1>3, <2>5, <2>10, CellGap
      <3> QED BY <1>3, <2>5, <3>1
    <2>12. y \in Cells(a, z - a + Ptr)
      <3> HIDE DEF y
      <3> QED BY <1>5, <2>11
    <2>13. y \notin T
      <3> HIDE DEF y, T
      <3> QED BY <2>3, <2>5, <2>11
    <2>14. ModuleAt(cells, y) = ModuleAt(cells, a)
      <3> HIDE DEF y
      <3> QED BY <2>12, <2>13
    <2> HIDE DEF y
    <2> QED BY <2>3, <2>6, <2>9, <2>14
  <1> QED BY <1>6 DEF z

(* Every slot is in the block of a first cell.                             *)
LEMMA BlockCovers ==
    ASSUME NEW len \in Nat, NEW cells, DOMAIN cells = Cells(0, len), NEW c \in Slots(cells)
    PROVE  \E a \in Firsts(cells) : c \in Cells(a, LastFrom(cells, a) - a + Ptr)
  <1> DEFINE Joins(b) == b \in DOMAIN cells /\ InRun(cells, b) /\ SameBlock(cells, b)
             T == {a \in DOMAIN cells : /\ a <= c /\ InRun(cells, a)
                                        /\ \A b \in Nat : a < b /\ b <= c /\ b % Ptr = 0 => Joins(b)}
  <1>1. c \in DOMAIN cells /\ InRun(cells, c)
    BY DEF Slots
  <1>2. \A b \in DOMAIN cells : b \in Nat /\ b % Ptr = 0 /\ b < len
    BY CellsAre
  <1>3. Ptr \in Nat \ {0} /\ c \in Nat /\ c % Ptr = 0
    BY <1>1, <1>2, PeImageAssumption
  <1>4. c \in T
    <2>1. c <= c /\ \A b \in Nat : ~(c < b /\ b <= c)
      BY <1>3
    <2> QED BY <1>1, <2>1
  <1>5. T \in SUBSET Nat
    BY <1>2
  <1>6. PICK a \in T : \A x \in T : a <= x
    <2> HIDE DEF T
    <2> QED BY <1>4, <1>5, LeastOf
  <1>7. /\ a \in DOMAIN cells /\ a <= c /\ InRun(cells, a)
        /\ \A b \in Nat : a < b /\ b <= c /\ b % Ptr = 0 => Joins(b)
    BY <1>6
  <1>8. a \in Nat /\ a % Ptr = 0
    BY <1>2, <1>7
  <1>9. a \in Firsts(cells)
    <2>1. SUFFICES ASSUME SameBlock(cells, a) PROVE FALSE
      BY <1>7 DEF Firsts
    <2> DEFINE y == a - Ptr
    <2>2. y \in DOMAIN cells /\ InRun(cells, y)
      BY <2>1 DEF SameBlock
    <2>3. y \in Nat /\ y < a /\ y % Ptr = 0 /\ y <= c /\ y + Ptr = a
      BY <1>2, <1>3, <1>7, <1>8, <2>2
    <2> HIDE DEF y, Joins
    <2>4. ASSUME NEW b \in Nat, y < b, b <= c, b % Ptr = 0 PROVE Joins(b)
      <3>1. a <= b
        BY <2>3, <2>4, CellGap
      <3>2. CASE b = a
        BY <1>7, <2>1, <3>2 DEF Joins
      <3>3. CASE b # a
        <4>1. a < b
          BY <1>8, <3>1, <3>3
        <4> QED BY <1>7, <2>4, <4>1
      <3> QED BY <3>2, <3>3
    <2>5. y \in T
      BY <2>2, <2>3, <2>4
    <2>6. a <= y
      BY <1>6, <2>5
    <2> QED BY <1>8, <2>3, <2>6
  <1> DEFINE z == LastFrom(cells, a)
  <1>10. /\ z \in DOMAIN cells /\ a <= z
         /\ z + Ptr \in DOMAIN cells => ~(InRun(cells, z + Ptr) /\ SameBlock(cells, z + Ptr))
    BY <1>9, BlockEnds
  <1> HIDE DEF z
  <1>11. z \in Nat /\ z % Ptr = 0
    BY <1>2, <1>10
  <1>12. ~Joins(z + Ptr)
    BY <1>10
  <1> HIDE DEF Joins
  <1>13. c <= z
    <2>1. SUFFICES ASSUME ~(c <= z) PROVE FALSE
      OBVIOUS
    <2>2. z + Ptr <= c /\ a < z + Ptr /\ z + Ptr \in Nat /\ (z + Ptr) % Ptr = 0
      BY <1>3, <1>8, <1>10, <1>11, <2>1, CellGap
    <2>3. Joins(z + Ptr)
      BY <1>7, <2>2
    <2> QED BY <1>12, <2>3
  <1>14. z - a + Ptr \in Nat /\ a + (z - a + Ptr) = z + Ptr
    BY <1>3, <1>8, <1>10, <1>11
  <1>15. c \in Cells(a, z - a + Ptr)
    <2>1. c < z + Ptr
      BY <1>3, <1>11, <1>13
    <2> QED BY <1>3, <1>7, <1>8, <1>14, <2>1, CellsAre
  <1> QED BY <1>9, <1>15 DEF z

\* The slot of the import i of a descriptor.
SlotOf(d, i) == d.firstThunk + (i - 1) * Ptr

\* What the descriptors say of the table.
ListsAll(ds, cells) ==
    /\ ds # <<>> <=> Slots(cells) # {}
    /\ \A k \in 1 .. Len(ds) : \A i \in 1 .. Len(ds[k].imports) :
         LET a == SlotOf(ds[k], i)
         IN  /\ a \in Slots(cells) /\ ds[k].imports[i] = Catalog[cells[a]]
             /\ ds[k].module = Catalog[cells[a]].module
    /\ \A a \in Slots(cells) : \E k \in 1 .. Len(ds) : \E i \in 1 .. Len(ds[k].imports) :
         a = SlotOf(ds[k], i)

LEMMA DescriptorsList ==
    ASSUME NEW len \in Nat, NEW cells, DOMAIN cells = Cells(0, len)
    PROVE  ListsAll(Descriptors(cells), cells)
  <1> DEFINE ds == Descriptors(cells)
             order == InOrder(Firsts(cells))
             n == Cardinality(Firsts(cells))
  <1>1. /\ Len(ds) = n /\ DOMAIN ds = 1 .. n /\ ds \in Seq(Descs)
        /\ \A k \in 1 .. n : order[k] \in Firsts(cells) /\ ds[k] = Descriptor(cells, order[k])
    BY DescriptorsAre
  <1>2. n \in Nat /\ \A a \in Firsts(cells) : \E k \in 1 .. n : order[k] = a
    BY FirstsFinite, InOrderLists
  <1> HIDE DEF ds, order, n
  <1>3. ASSUME NEW k \in 1 .. Len(ds), NEW i \in 1 .. Len(ds[k].imports)
        PROVE  LET a == SlotOf(ds[k], i)
               IN  /\ a \in Slots(cells) /\ ds[k].imports[i] = Catalog[cells[a]]
                   /\ ds[k].module = Catalog[cells[a]].module
    <2> DEFINE first == order[k]
               d == Descriptor(cells, first)
               z == LastFrom(cells, first)
    <2>1. first \in Firsts(cells) /\ ds[k] = d
      BY <1>1
    <2> HIDE DEF first
    <2>2. /\ d.firstThunk = first /\ d.module = ModuleAt(cells, first)
          /\ \A j \in 1 .. Len(d.imports) :
               /\ first + (j - 1) * Ptr \in Cells(first, z - first + Ptr)
               /\ d.imports[j] = Catalog[cells[first + (j - 1) * Ptr]]
      BY <2>1, DescriptorIs
    <2> HIDE DEF d
    <2>3. SlotOf(ds[k], i) = first + (i - 1) * Ptr
      BY <2>1, <2>2 DEF SlotOf
    <2> DEFINE a == first + (i - 1) * Ptr
    <2>4. a \in Cells(first, z - first + Ptr) /\ d.imports[i] = Catalog[cells[a]]
      BY <1>3, <2>1, <2>2
    <2> HIDE DEF a
    <2>5. a \in Slots(cells) /\ ModuleAt(cells, a) = ModuleAt(cells, first)
      BY <2>1, <2>4, BlockModule
    <2>6. d.module = Catalog[cells[a]].module
      BY <2>2, <2>5 DEF ModuleAt
    <2> QED BY <2>1, <2>3, <2>4, <2>5, <2>6 DEF a
  <1>4. ASSUME NEW a \in Slots(cells)
        PROVE  \E k \in 1 .. Len(ds) : \E i \in 1 .. Len(ds[k].imports) : a = SlotOf(ds[k], i)
    <2>1. PICK first \in Firsts(cells) : a \in Cells(first, LastFrom(cells, first) - first + Ptr)
      BY BlockCovers
    <2>2. PICK k \in 1 .. n : order[k] = first
      BY <1>2
    <2> DEFINE d == Descriptor(cells, first)
               z == LastFrom(cells, first)
    <2>3. ds[k] = d /\ k \in 1 .. Len(ds)
      BY <1>1, <2>2
    <2>4. d.firstThunk = first /\ Len(d.imports) = (z - first) \div Ptr + 1
      BY DescriptorIs
    <2>5. z \in DOMAIN cells /\ first <= z
      BY BlockEnds
    <2>6. first \in DOMAIN cells
      BY DEF Firsts
    <2>7. first \in Nat /\ first % Ptr = 0 /\ z \in Nat /\ z % Ptr = 0
      BY <2>5, <2>6, CellsAre
    <2> HIDE DEF d, z
    <2>8. \E i \in 1 .. ((z - first) \div Ptr + 1) : a = first + (i - 1) * Ptr
      BY <2>1, <2>5, <2>7, CellsCounted DEF z
    <2>9. PICK i \in 1 .. Len(d.imports) : a = first + (i - 1) * Ptr
      BY <2>4, <2>8
    <2>10. a = SlotOf(ds[k], i) /\ i \in 1 .. Len(ds[k].imports)
      BY <2>3, <2>4, <2>9 DEF SlotOf
    <2> QED BY <2>3, <2>10
  <1>5. ds # <<>> <=> Slots(cells) # {}
    <2>1. ASSUME ds # <<>> PROVE Slots(cells) # {}
      <3>1. 1 \in 1 .. n
        <4>1. n # 0
          BY <1>1, <1>2, <2>1
        <4> QED BY <1>2, <4>1
      <3>2. order[1] \in Firsts(cells)
        BY <1>1, <3>1
      <3> QED BY <3>2 DEF Firsts, Slots
    <2>2. ASSUME ds = <<>> PROVE Slots(cells) = {}
      <3>1. Len(ds) = 0
        BY <2>2
      <3>2. \A k \in 1 .. Len(ds) : FALSE
        BY <3>1
      <3> QED BY <1>4, <3>2
    <2> QED BY <2>1, <2>2
  <1>6. ListsAll(ds, cells)
    BY <1>3, <1>4, <1>5 DEF ListsAll
  <1> QED BY <1>6 DEF ds

-----------------------------------------------------------------------------
(* The layout of the section: every object has a place of its own.         *)

LEMMA Climbs ==
    ASSUME NEW lo \in Nat, NEW hi \in Nat, NEW f,
           \A k \in lo .. hi : f[k] \in Nat,
           \A k \in lo .. hi : k < hi => f[k] <= f[k + 1]
    PROVE  \A j, k \in lo .. hi : j <= k => f[j] <= f[k]
  <1>1. TAKE j \in lo .. hi
  <1> DEFINE T == {k \in lo .. hi : j <= k /\ ~(f[j] <= f[k])}
  <1>2. T = {}
    <2>1. SUFFICES ASSUME T # {} PROVE FALSE
      OBVIOUS
    <2>2. T \in SUBSET Nat
      OBVIOUS
    <2>3. PICK k \in T : \A x \in T : k <= x
      <3> HIDE DEF T
      <3> QED BY <2>1, <2>2, LeastOf
    <2>4. k \in lo .. hi /\ j <= k /\ ~(f[j] <= f[k])
      OBVIOUS
    <2>5. k # j
      BY <2>4
    <2> DEFINE i == k - 1
    <2>6. i \in lo .. hi /\ j <= i /\ i < hi /\ i + 1 = k /\ ~(k <= i)
      BY <2>4, <2>5
    <2> HIDE DEF i
    <2>7. f[j] <= f[i]
      BY <2>3, <2>6
    <2>8. f[i] <= f[k]
      BY <2>6
    <2> QED BY <2>4, <2>6, <2>7, <2>8
  <1> QED BY <1>2

LEMMA Spaced ==
    ASSUME NEW a \in Nat, NEW b \in Nat
    PROVE  /\ a * Ptr \in Nat /\ b * Ptr \in Nat
           /\ a < b => a * Ptr + Ptr <= b * Ptr /\ a * Ptr < b * Ptr
           /\ a <= b => a * Ptr <= b * Ptr
  <1>1. Ptr \in Nat \ {0}
    BY PeImageAssumption
  <1>2. a * Ptr \in Nat /\ b * Ptr \in Nat
    BY <1>1
  <1>3. ASSUME a < b PROVE a * Ptr + Ptr <= b * Ptr
    <2>1. PICK d \in Nat : b = a + 1 + d
      <3>1. b - a - 1 \in Nat /\ b = a + 1 + (b - a - 1)
        BY <1>3
      <3> QED BY <3>1
    <2>2. b * Ptr = a * Ptr + Ptr + d * Ptr /\ d * Ptr \in Nat
      BY <1>1, <2>1
    <2> QED BY <1>1, <1>2, <2>2
  <1>4. a * Ptr + Ptr <= b * Ptr => a * Ptr < b * Ptr
    BY <1>1, <1>2
  <1>5. a = b \/ a < b \/ ~(a <= b)
    OBVIOUS
  <1> QED BY <1>2, <1>3, <1>4, <1>5

\* The places of the objects: descriptor k, entry i of the INT k, the text of import i or,
\* for 0, of the module.
DirPlace(rva, k) == rva + (k - 1) * DescriptorSize
IntPlace(ds, rva, k, i) == IntAt(ds, rva, k) + (i - 1) * Ptr
TextPlace(ds, rva, k, i) ==
    IF i = 0 THEN ModuleTextAt(ds, rva, k) ELSE NameTextAt(ds, rva, k, i)
HasText(ds, k, i) == i = 0 \/ ds[k].imports[i].name # NoName
Before(j, i, k, l) == j < k \/ (j = k /\ i < l)

LEMMA IntsLaidOut ==
    ASSUME NEW ds \in Seq(Descs), NEW rva \in Nat
    PROVE  /\ \A k \in 1 .. (Len(ds) + 1) :
                /\ IntAt(ds, rva, k) \in Nat /\ rva + DirectorySize(ds) <= IntAt(ds, rva, k)
                /\ IntAt(ds, rva, k) <= StringsAt(ds, rva)
           /\ \A k \in 1 .. Len(ds) :
                IntAt(ds, rva, k + 1) = IntAt(ds, rva, k) + (Len(ds[k].imports) + 1) * Ptr
           /\ \A j, k \in 1 .. (Len(ds) + 1) : j <= k => IntAt(ds, rva, j) <= IntAt(ds, rva, k)
  <1> DEFINE n == Len(ds)
             f == IntsBefore(ds)
             at == rva + DirectorySize(ds)
  <1>1. n \in Nat /\ \A k \in 1 .. n : ds[k] \in Descs
    OBVIOUS
  <1>2. ASSUME NEW k \in 1 .. n
        PROVE  /\ IntBytes(ds[k]) \in Nat /\ IntBytes(ds[k]) = (Len(ds[k].imports) + 1) * Ptr
    <2>1. ds[k] \in Descs
      BY <1>1
    <2>2. Len(ds[k].imports) \in Nat
      BY <2>1, StringsUpToAre
    <2>3. Ptr \in Nat
      BY PeImageAssumption
    <2> QED BY <2>2, <2>3 DEF IntBytes
  <1>3. /\ f[1] = 0 /\ \A k \in 1 .. n : f[k + 1] = f[k] + IntBytes(ds[k])
        /\ \A k \in 1 .. (n + 1) : f[k] \in Nat
    BY <1>1, <1>2, IntsBeforeAre
  <1>4. at \in Nat
    BY <1>1 DEF DirectorySize, DescriptorSize
  <1>5. \A k : IntAt(ds, rva, k) = at + f[k]
    BY DEF IntAt
  <1>6. StringsAt(ds, rva) = at + f[n + 1]
    BY <1>5 DEF StringsAt
  <1> HIDE DEF n, f, at
  <1>7. \A j, k \in 1 .. (n + 1) : j <= k => f[j] <= f[k]
    <2>1. n + 1 \in Nat
      BY <1>1
    <2>2. ASSUME NEW k \in 1 .. (n + 1), k < n + 1 PROVE f[k] <= f[k + 1]
      <3>1. k \in 1 .. n
        BY <1>1, <2>2
      <3> QED BY <1>2, <1>3, <3>1
    <2> QED BY <1>3, <2>1, <2>2, Climbs
  <1>8. ASSUME NEW k \in 1 .. (n + 1)
        PROVE  /\ IntAt(ds, rva, k) \in Nat /\ at <= IntAt(ds, rva, k)
               /\ IntAt(ds, rva, k) <= StringsAt(ds, rva)
    <2>1. n + 1 \in 1 .. (n + 1) /\ k <= n + 1
      BY <1>1
    <2>2. f[k] <= f[n + 1] /\ f[k] \in Nat /\ f[n + 1] \in Nat
      BY <1>3, <1>7, <2>1
    <2> QED BY <1>4, <1>5, <1>6, <2>2
  <1>9. ASSUME NEW k \in 1 .. n
        PROVE  IntAt(ds, rva, k + 1) = IntAt(ds, rva, k) + (Len(ds[k].imports) + 1) * Ptr
    <2>1. f[k] \in Nat /\ f[k + 1] = f[k] + IntBytes(ds[k]) /\ IntBytes(ds[k]) \in Nat
      BY <1>1, <1>2, <1>3
    <2>2. IntAt(ds, rva, k + 1) = IntAt(ds, rva, k) + IntBytes(ds[k])
      BY <1>4, <1>5, <2>1
    <2> QED BY <1>2, <2>2
  <1>10. ASSUME NEW j \in 1 .. (n + 1), NEW k \in 1 .. (n + 1), j <= k
         PROVE  IntAt(ds, rva, j) <= IntAt(ds, rva, k)
    <2>1. f[j] <= f[k] /\ f[j] \in Nat /\ f[k] \in Nat
      BY <1>3, <1>7, <1>10
    <2> QED BY <1>4, <1>5, <2>1
  <1> QED BY <1>8, <1>9, <1>10 DEF n, at

LEMMA IntPlaces ==
    ASSUME NEW ds \in Seq(Descs), NEW rva \in Nat,
           NEW j \in 1 .. Len(ds), NEW i \in 1 .. (Len(ds[j].imports) + 1)
    PROVE  /\ IntPlace(ds, rva, j, i) \in Nat
           /\ rva + DirectorySize(ds) <= IntPlace(ds, rva, j, i)
           /\ IntPlace(ds, rva, j, i) < StringsAt(ds, rva)
           /\ \A k \in 1 .. Len(ds) : \A l \in 1 .. (Len(ds[k].imports) + 1) :
                Before(j, i, k, l) => IntPlace(ds, rva, j, i) < IntPlace(ds, rva, k, l)
  <1> DEFINE n == Len(ds)
             At(k) == IntAt(ds, rva, k)
             N(k) == Len(ds[k].imports)
  <1>1. n \in Nat /\ Ptr \in Nat \ {0} /\ \A k \in 1 .. n : N(k) \in Nat
    <2>1. ASSUME NEW k \in 1 .. n PROVE N(k) \in Nat
      <3>1. ds[k] \in Descs
        OBVIOUS
      <3> QED BY <3>1, StringsUpToAre
    <2> QED BY <2>1, PeImageAssumption
  <1>2. /\ \A k \in 1 .. (n + 1) : At(k) \in Nat /\ rva + DirectorySize(ds) <= At(k)
                                   /\ At(k) <= StringsAt(ds, rva)
        /\ \A k \in 1 .. n : At(k + 1) = At(k) + (N(k) + 1) * Ptr
        /\ \A a, b \in 1 .. (n + 1) : a <= b => At(a) <= At(b)
    BY IntsLaidOut
  <1>3. StringsAt(ds, rva) \in Nat /\ rva + DirectorySize(ds) \in Nat
    <2>1. n + 1 \in 1 .. (n + 1) /\ StringsAt(ds, rva) = At(n + 1)
      BY <1>1 DEF StringsAt
    <2> QED BY <1>1, <1>2, <2>1 DEF DirectorySize, DescriptorSize
  <1> HIDE DEF At, N, n
  <1>4. ASSUME NEW k \in 1 .. n, NEW l \in 1 .. (N(k) + 1)
        PROVE  /\ At(k) <= At(k) + (l - 1) * Ptr /\ At(k) + (l - 1) * Ptr < At(k + 1)
               /\ At(k) + (l - 1) * Ptr \in Nat
    <2>1. l - 1 \in Nat /\ N(k) + 1 \in Nat /\ l - 1 < N(k) + 1
      BY <1>1, <1>4
    <2>2. (l - 1) * Ptr \in Nat /\ (l - 1) * Ptr < (N(k) + 1) * Ptr /\ (N(k) + 1) * Ptr \in Nat
      BY <2>1, Spaced
    <2>3. k \in 1 .. (n + 1)
      BY <1>1
    <2> QED BY <1>2, <2>2, <2>3
  <1>5. IntPlace(ds, rva, j, i) = At(j) + (i - 1) * Ptr
    BY DEF IntPlace, At
  <1>6. j \in 1 .. n /\ i \in 1 .. (N(j) + 1) /\ j \in 1 .. (n + 1) /\ j + 1 \in 1 .. (n + 1)
    BY <1>1 DEF n, N
  <1> DEFINE p == At(j) + (i - 1) * Ptr
  <1>7. At(j) <= p /\ p < At(j + 1) /\ p \in Nat /\ At(j) \in Nat /\ At(j + 1) \in Nat
    BY <1>2, <1>4, <1>6
  <1> HIDE DEF p
  <1>8. rva + DirectorySize(ds) <= p /\ p < StringsAt(ds, rva)
    <2>1. rva + DirectorySize(ds) <= At(j) /\ At(j + 1) <= StringsAt(ds, rva)
      BY <1>2, <1>6
    <2> QED BY <1>3, <1>7, <2>1
  <1>9. ASSUME NEW k \in 1 .. n, NEW l \in 1 .. (N(k) + 1), Before(j, i, k, l)
        PROVE  p < IntPlace(ds, rva, k, l)
    <2>1. IntPlace(ds, rva, k, l) = At(k) + (l - 1) * Ptr
      BY DEF IntPlace, At
    <2>2. CASE j < k
      <3>1. k \in 1 .. (n + 1) /\ j + 1 <= k
        BY <1>1, <1>6, <2>2
      <3>2. At(j + 1) <= At(k) /\ At(k) \in Nat
        BY <1>2, <1>6, <3>1
      <3>3. At(k) <= At(k) + (l - 1) * Ptr /\ At(k) + (l - 1) * Ptr \in Nat
        BY <1>4
      <3> QED BY <1>7, <2>1, <3>2, <3>3
    <2>3. CASE j = k /\ i < l
      <3>1. i - 1 \in Nat /\ l - 1 \in Nat /\ i - 1 < l - 1
        BY <1>1, <1>6, <2>3
      <3>2. (i - 1) * Ptr < (l - 1) * Ptr /\ (i - 1) * Ptr \in Nat /\ (l - 1) * Ptr \in Nat
        BY <3>1, Spaced
      <3> QED BY <1>7, <2>1, <2>3, <3>2 DEF p
    <2> QED BY <1>9, <2>2, <2>3 DEF Before
  <1> QED BY <1>5, <1>7, <1>8, <1>9 DEF p, n, N

LEMMA StringsClimb ==
    ASSUME NEW d \in Descs, NEW at \in Nat
    PROVE  LET f == StringsUpTo(d, at)
               n == Len(d.imports)
           IN  /\ n \in Nat /\ \A i \in 0 .. n : f[i] \in Nat /\ at < f[i]
               /\ \A i, j \in 0 .. n : i <= j => f[i] <= f[j]
               /\ \A i \in 1 .. n : d.imports[i].name # NoName => f[i - 1] < f[i]
  <1> DEFINE f == StringsUpTo(d, at)
             n == Len(d.imports)
             After(i, b) == RoundUp(b + 2 + Length[d.imports[i].name] + 1, 2)
  <1>1. /\ n \in Nat /\ DOMAIN d.imports = 1 .. n
        /\ f[0] = at + Length[d.module] + 1
        /\ \A i \in 1 .. n :
              f[i] = IF d.imports[i].name = NoName THEN f[i - 1] ELSE After(i, f[i - 1])
        /\ \A i \in 0 .. n : f[i] \in Nat
    BY StringsUpToAre
  <1>2. /\ d.module \in DOMAIN Length
        /\ \A i \in 1 .. n : d.imports[i].name \in DOMAIN Length \cup {NoName}
    <2>1. d.imports \in Seq(Refs) /\ d.module \in DOMAIN Length
      BY DEF Descs
    <2>2. \A i \in 1 .. n : d.imports[i] \in Refs
      BY <2>1
    <2>3. \A r \in Refs : r.name \in DOMAIN Length \cup {NoName}
      BY DEF Refs
    <2> QED BY <2>1, <2>2, <2>3
  <1>3. \A t \in DOMAIN Length : Length[t] \in Nat
    BY ImportsAssumption
  <1> HIDE DEF f, n
  <1>4. ASSUME NEW i \in 1 .. n, d.imports[i].name # NoName PROVE f[i - 1] < f[i]
    <2>1. i - 1 \in 0 .. n /\ f[i - 1] \in Nat
      BY <1>1
    <2>2. Length[d.imports[i].name] \in Nat
      BY <1>2, <1>3, <1>4
    <2> DEFINE v == f[i - 1] + 2 + Length[d.imports[i].name] + 1
    <2>3. v \in Nat /\ f[i - 1] < v
      BY <2>1, <2>2
    <2>4. f[i] = RoundUp(v, 2)
      BY <1>1, <1>4
    <2> HIDE DEF v
    <2>5. v <= RoundUp(v, 2) /\ RoundUp(v, 2) \in Nat
      BY <2>3, RoundUpBounds
    <2> QED BY <2>1, <2>3, <2>4, <2>5
  <1>5. ASSUME NEW i \in 0 .. n, i < n PROVE f[i] <= f[i + 1]
    <2>1. i + 1 \in 1 .. n /\ i + 1 - 1 = i /\ f[i] \in Nat
      BY <1>1, <1>5
    <2>2. CASE d.imports[i + 1].name = NoName
      <3>1. f[i + 1] = f[i]
        BY <1>1, <2>1, <2>2
      <3> QED BY <2>1, <3>1
    <2>3. CASE d.imports[i + 1].name # NoName
      <3>1. f[i + 1 - 1] < f[i + 1]
        BY <1>4, <2>1, <2>3
      <3>2. f[i + 1] \in Nat
        BY <1>1, <2>1
      <3> QED BY <2>1, <3>1, <3>2
    <2> QED BY <2>2, <2>3
  <1>6. \A i, j \in 0 .. n : i <= j => f[i] <= f[j]
    <2>1. 0 \in Nat
      OBVIOUS
    <2> QED BY <1>1, <1>5, <2>1, Climbs
  <1>7. ASSUME NEW i \in 0 .. n PROVE at < f[i]
    <2>1. at < f[0] /\ f[0] \in Nat
      BY <1>1, <1>2, <1>3
    <2>2. f[0] <= f[i] /\ f[i] \in Nat
      BY <1>1, <1>6
    <2> QED BY <2>1, <2>2
  <1> QED BY <1>1, <1>4, <1>6, <1>7 DEF f, n

LEMMA TextPlaces ==
    ASSUME NEW ds \in Seq(Descs), NEW rva \in Nat,
           NEW j \in 1 .. Len(ds), NEW i \in 0 .. Len(ds[j].imports), HasText(ds, j, i)
    PROVE  /\ TextPlace(ds, rva, j, i) \in Nat
           /\ StringsAt(ds, rva) <= TextPlace(ds, rva, j, i)
           /\ TextPlace(ds, rva, j, i) < ModuleTextAt(ds, rva, Len(ds) + 1)
           /\ \A k \in 1 .. Len(ds) : \A l \in 0 .. Len(ds[k].imports) :
                Before(j, i, k, l) => TextPlace(ds, rva, j, i) < TextPlace(ds, rva, k, l)
  <1> DEFINE n == Len(ds)
             at == StringsAt(ds, rva)
             S == StringsBefore(ds)
             N(k) == Len(ds[k].imports)
             U(k, l) == StringsUpTo(ds[k], S[k])[l]
             Off(k, l) == IF l = 0 THEN S[k] ELSE U(k, l - 1)
  <1>1. n \in Nat /\ \A k \in 1 .. n : ds[k] \in Descs
    OBVIOUS
  <1>2. /\ S[1] = 0 /\ \A k \in 1 .. n : S[k + 1] = U(k, N(k))
        /\ \A k \in 1 .. (n + 1) : S[k] \in Nat
    BY StringsBeforeAre
  <1>3. at \in Nat
    <2>1. n + 1 \in 1 .. (n + 1) /\ at = IntAt(ds, rva, n + 1)
      BY <1>1 DEF StringsAt
    <2> QED BY <2>1, IntsLaidOut
  <1>4. \A k, l : TextPlace(ds, rva, k, l) = at + Off(k, l)
    BY DEF TextPlace, ModuleTextAt, NameTextAt
  <1>5. ModuleTextAt(ds, rva, n + 1) = at + S[n + 1]
    BY DEF ModuleTextAt
  <1>6. ASSUME NEW k \in 1 .. n
        PROVE  /\ N(k) \in Nat /\ S[k] \in Nat
               /\ \A l \in 0 .. N(k) : U(k, l) \in Nat /\ S[k] < U(k, l)
               /\ \A l, m \in 0 .. N(k) : l <= m => U(k, l) <= U(k, m)
               /\ \A l \in 1 .. N(k) : ds[k].imports[l].name # NoName => U(k, l - 1) < U(k, l)
    <2>1. ds[k] \in Descs /\ S[k] \in Nat
      BY <1>1, <1>2
    <2> HIDE DEF S
    <2> QED BY <2>1, StringsClimb
  <1> HIDE DEF n, at, S, N, U
  <1>7. ASSUME NEW k \in 1 .. n, NEW l \in 0 .. N(k)
        PROVE  Off(k, l) \in Nat /\ S[k] <= Off(k, l)
    <2>1. CASE l = 0
      BY <1>6, <2>1
    <2>2. CASE l # 0
      <3>1. l - 1 \in 0 .. N(k)
        BY <1>6, <2>2
      <3>2. U(k, l - 1) \in Nat /\ S[k] < U(k, l - 1) /\ S[k] \in Nat
        BY <1>6, <3>1
      <3> QED BY <2>2, <3>2
    <2> QED BY <2>1, <2>2
  <1>8. \A a, b \in 1 .. (n + 1) : a <= b => S[a] <= S[b]
    <2>1. ASSUME NEW k \in 1 .. (n + 1), k < n + 1 PROVE S[k] <= S[k + 1]
      <3>1. k \in 1 .. n
        BY <1>1, <2>1
      <3>2. N(k) \in 0 .. N(k)
        BY <1>6, <3>1
      <3>3. S[k] < U(k, N(k)) /\ U(k, N(k)) \in Nat /\ S[k] \in Nat
        BY <1>6, <3>1, <3>2
      <3> QED BY <1>2, <3>1, <3>3
    <2>2. 1 \in Nat /\ n + 1 \in Nat
      BY <1>1
    <2> QED BY <1>2, <2>1, <2>2, Climbs
  <1>9. j \in 1 .. n /\ i \in 0 .. N(j) /\ j \in 1 .. (n + 1) /\ j + 1 \in 1 .. (n + 1)
        /\ n + 1 \in 1 .. (n + 1)
    BY <1>1 DEF n, N
  <1>10. Off(j, i) < S[j + 1]
    <2>1. N(j) \in Nat /\ S[j] \in Nat /\ N(j) \in 0 .. N(j)
      BY <1>6, <1>9
    <2>2. S[j + 1] = U(j, N(j))
      BY <1>2, <1>9
    <2>3. CASE i = 0
      BY <1>6, <1>9, <2>1, <2>2, <2>3
    <2>4. CASE i # 0
      <3>1. i \in 1 .. N(j) /\ i - 1 \in 0 .. N(j) /\ i <= N(j)
        BY <1>9, <2>1, <2>4
      <3>2. ds[j].imports[i].name # NoName
        BY <2>4 DEF HasText
      <3>3. U(j, i - 1) < U(j, i)
        BY <1>6, <1>9, <3>1, <3>2
      <3>4. U(j, i) <= U(j, N(j))
        BY <1>6, <1>9, <2>1, <3>1
      <3>5. U(j, i - 1) \in Nat /\ U(j, i) \in Nat /\ U(j, N(j)) \in Nat
        BY <1>6, <1>9, <2>1, <3>1
      <3> QED BY <2>2, <2>4, <3>3, <3>4, <3>5
    <2> QED BY <2>3, <2>4
  <1>11. ASSUME NEW k \in 1 .. n, NEW l \in 0 .. N(k), Before(j, i, k, l)
         PROVE  Off(j, i) < Off(k, l)
    <2>1. CASE j < k
      <3>1. k \in 1 .. (n + 1) /\ j + 1 <= k
        BY <1>1, <1>9, <2>1
      <3>2. S[j + 1] <= S[k] /\ S[j + 1] \in Nat /\ S[k] \in Nat
        BY <1>2, <1>8, <1>9, <3>1
      <3>3. Off(j, i) \in Nat /\ Off(k, l) \in Nat /\ S[k] <= Off(k, l)
        BY <1>7, <1>9
      <3> HIDE DEF Off
      <3> QED BY <1>10, <3>2, <3>3
    <2>2. CASE j = k /\ i < l
      <3>1. l # 0 /\ l - 1 \in 0 .. N(j) /\ N(j) \in Nat
        BY <1>6, <1>9, <1>11, <2>2
      <3>2. Off(k, l) = U(j, l - 1)
        BY <2>2, <3>1
      <3>3. CASE i = 0
        <4>1. Off(j, i) = S[j]
          BY <3>3
        <4> QED BY <1>6, <1>9, <3>1, <3>2, <4>1
      <3>4. CASE i # 0
        <4>1. i \in 1 .. N(j) /\ i \in 0 .. N(j) /\ i - 1 \in 0 .. N(j) /\ i <= l - 1
          BY <1>9, <1>11, <2>2, <3>1, <3>4
        <4>2. ds[j].imports[i].name # NoName
          BY <3>4 DEF HasText
        <4>3. U(j, i - 1) < U(j, i)
          BY <1>6, <1>9, <4>1, <4>2
        <4>4. U(j, i) <= U(j, l - 1)
          BY <1>6, <1>9, <3>1, <4>1
        <4>5. U(j, i - 1) \in Nat /\ U(j, i) \in Nat /\ U(j, l - 1) \in Nat
          BY <1>6, <1>9, <3>1, <4>1
        <4> QED BY <3>2, <3>4, <4>3, <4>4, <4>5
      <3> QED BY <3>3, <3>4
    <2> QED BY <1>11, <2>1, <2>2 DEF Before
  <1>12. Off(j, i) \in Nat /\ Off(j, i) < S[n + 1] /\ S[n + 1] \in Nat
    <2>1. Off(j, i) \in Nat
      BY <1>7, <1>9
    <2>2. j + 1 <= n + 1
      BY <1>1, <1>9
    <2>3. S[j + 1] <= S[n + 1] /\ S[j + 1] \in Nat /\ S[n + 1] \in Nat
      BY <1>2, <1>8, <1>9, <2>2
    <2> HIDE DEF Off
    <2> QED BY <1>10, <2>1, <2>3
  <1>13. ASSUME NEW k \in 1 .. n, NEW l \in 0 .. N(k), Before(j, i, k, l)
         PROVE  TextPlace(ds, rva, j, i) < TextPlace(ds, rva, k, l)
    <2>1. Off(j, i) < Off(k, l) /\ Off(k, l) \in Nat
      BY <1>7, <1>11, <1>13
    <2> HIDE DEF Off
    <2> QED BY <1>3, <1>4, <1>12, <2>1
  <1> HIDE DEF Off
  <1>14. /\ TextPlace(ds, rva, j, i) \in Nat /\ at <= TextPlace(ds, rva, j, i)
         /\ TextPlace(ds, rva, j, i) < ModuleTextAt(ds, rva, n + 1)
    BY <1>3, <1>4, <1>5, <1>12
  <1> QED BY <1>13, <1>14 DEF n, N, at

\* The objects, each with its place.
DescriptorAt(ds, rva, k) ==
    [kind |-> "descriptor", int |-> IntAt(ds, rva, k), name |-> ModuleTextAt(ds, rva, k),
     firstThunk |-> ds[k].firstThunk]
DirObject(ds, rva, k) ==
    <<DirPlace(rva, k), IF k = Len(ds) + 1 THEN Null ELSE DescriptorAt(ds, rva, k)>>
IntObject(ds, rva, k, i) ==
    <<IntPlace(ds, rva, k, i),
      IF i = Len(ds[k].imports) + 1 THEN Null ELSE Thunk(ds, rva, k, i)>>
TextObject(ds, rva, k, i) ==
    <<TextPlace(ds, rva, k, i),
      IF i = 0 THEN Text(FALSE, ds[k].module) ELSE Text(TRUE, ds[k].imports[i].name)>>

InDir(ds, rva, x) == \E k \in 1 .. (Len(ds) + 1) : x = DirObject(ds, rva, k)
InInts(ds, rva, x) ==
    \E k \in 1 .. Len(ds) : \E i \in 1 .. (Len(ds[k].imports) + 1) : x = IntObject(ds, rva, k, i)
InTexts(ds, rva, x) ==
    \E k \in 1 .. Len(ds) : \E i \in 0 .. Len(ds[k].imports) :
        HasText(ds, k, i) /\ x = TextObject(ds, rva, k, i)

LEMMA ObjectsAre ==
    ASSUME NEW ds \in Seq(Descs), NEW rva, NEW h, rva = RoundUp(h.soi, h.align), NEW x
    PROVE  x \in Idata(h, ds).objects <=>
             InDir(ds, rva, x) \/ InInts(ds, rva, x) \/ InTexts(ds, rva, x)
  <1>1. /\ DOMAIN ds = 1 .. Len(ds) /\ Len(ds) \in Nat
        /\ \A k \in 1 .. Len(ds) : /\ DOMAIN ds[k].imports = 1 .. Len(ds[k].imports)
                                   /\ Len(ds[k].imports) \in Nat
    <2>1. DOMAIN ds = 1 .. Len(ds) /\ Len(ds) \in Nat /\ \A k \in 1 .. Len(ds) : ds[k] \in Descs
      OBVIOUS
    <2>2. ASSUME NEW k \in 1 .. Len(ds)
          PROVE  DOMAIN ds[k].imports = 1 .. Len(ds[k].imports) /\ Len(ds[k].imports) \in Nat
      <3>1. ds[k] \in Descs
        BY <2>1
      <3> QED BY <3>1, StringsUpToAre
    <2> QED BY <2>1, <2>2
  <1>2. Idata(h, ds).objects =
          Directory(ds, rva) \cup UNION {Ints(ds, rva, k) \cup Texts(ds, rva, k) : k \in DOMAIN ds}
    BY DEF Idata
  <1>3. x \in Directory(ds, rva) <=> InDir(ds, rva, x)
    <2> DEFINE n == Len(ds)
               D(k) == <<rva + (k - 1) * DescriptorSize, DescriptorAt(ds, rva, k)>>
               Z == <<rva + n * DescriptorSize, Null>>
    <2>1. x \in Directory(ds, rva) <=> (\E k \in 1 .. n : x = D(k)) \/ x = Z
      BY <1>1 DEF Directory, DescriptorAt
    <2>2. \A k \in 1 .. n : DirObject(ds, rva, k) = D(k)
      BY <1>1 DEF DirObject, DirPlace
    <2>3. DirObject(ds, rva, n + 1) = Z
      <3>1. n + 1 - 1 = n
        BY <1>1
      <3> QED BY <3>1 DEF DirObject, DirPlace
    <2> HIDE DEF D, Z
    <2>4. \A k \in 1 .. (n + 1) : k \in 1 .. n \/ k = n + 1
      BY <1>1
    <2>5. \A k \in 1 .. n : k \in 1 .. (n + 1)
      BY <1>1
    <2>6. n + 1 \in 1 .. (n + 1)
      BY <1>1
    <2> QED BY <2>1, <2>2, <2>3, <2>4, <2>5, <2>6 DEF InDir
  <1>4. ASSUME NEW k \in 1 .. Len(ds)
        PROVE  x \in Ints(ds, rva, k) <=>
                 \E i \in 1 .. (Len(ds[k].imports) + 1) : x = IntObject(ds, rva, k, i)
    <2> DEFINE n == Len(ds[k].imports)
               D(i) == <<IntAt(ds, rva, k) + (i - 1) * Ptr, Thunk(ds, rva, k, i)>>
               Z == <<IntAt(ds, rva, k) + n * Ptr, Null>>
    <2>0. n \in Nat
      BY <1>1
    <2>1. x \in Ints(ds, rva, k) <=> (\E i \in 1 .. n : x = D(i)) \/ x = Z
      BY <1>1 DEF Ints
    <2>2. \A i \in 1 .. n : IntObject(ds, rva, k, i) = D(i)
      BY <2>0 DEF IntObject, IntPlace
    <2>3. IntObject(ds, rva, k, n + 1) = Z
      <3>1. n + 1 - 1 = n
        BY <2>0
      <3> QED BY <3>1 DEF IntObject, IntPlace
    <2> HIDE DEF D, Z, n
    <2>4. \A i \in 1 .. (n + 1) : i \in 1 .. n \/ i = n + 1
      BY <2>0
    <2>5. \A i \in 1 .. n : i \in 1 .. (n + 1)
      BY <2>0
    <2>6. n + 1 \in 1 .. (n + 1)
      BY <2>0
    <2>7. x \in Ints(ds, rva, k) <=> \E i \in 1 .. (n + 1) : x = IntObject(ds, rva, k, i)
      BY <2>1, <2>2, <2>3, <2>4, <2>5, <2>6
    <2> QED BY <2>7 DEF n
  <1>5. ASSUME NEW k \in 1 .. Len(ds)
        PROVE  x \in Texts(ds, rva, k) <=>
                 \E i \in 0 .. Len(ds[k].imports) :
                    HasText(ds, k, i) /\ x = TextObject(ds, rva, k, i)
    <2> DEFINE n == Len(ds[k].imports)
               Named0(i) == ds[k].imports[i].name # NoName
               D(i) == <<NameTextAt(ds, rva, k, i), Text(TRUE, ds[k].imports[i].name)>>
               Z == <<ModuleTextAt(ds, rva, k), Text(FALSE, ds[k].module)>>
    <2>0. n \in Nat
      BY <1>1
    <2>1. x \in Texts(ds, rva, k) <=> (\E i \in 1 .. n : Named0(i) /\ x = D(i)) \/ x = Z
      BY <1>1 DEF Texts
    <2>2. ASSUME NEW i \in 1 .. n
          PROVE  TextObject(ds, rva, k, i) = D(i) /\ (HasText(ds, k, i) <=> Named0(i))
      <3>1. i # 0
        BY <2>0
      <3>2. TextObject(ds, rva, k, i) = D(i)
        BY <3>1 DEF TextObject, TextPlace
      <3>3. HasText(ds, k, i) <=> Named0(i)
        BY <3>1 DEF HasText
      <3> QED BY <3>2, <3>3
    <2>3. TextObject(ds, rva, k, 0) = Z /\ HasText(ds, k, 0)
      BY DEF TextObject, TextPlace, HasText
    <2> HIDE DEF D, Z, n, Named0
    <2>4. \A i \in 0 .. n : i \in 1 .. n \/ i = 0
      BY <2>0
    <2>5. \A i \in 1 .. n : i \in 0 .. n
      BY <2>0
    <2>6. 0 \in 0 .. n
      BY <2>0
    <2>7. x \in Texts(ds, rva, k) <=>
            \E i \in 0 .. n : HasText(ds, k, i) /\ x = TextObject(ds, rva, k, i)
      BY <2>1, <2>2, <2>3, <2>4, <2>5, <2>6
    <2> QED BY <2>7 DEF n
  <1>6. x \in UNION {Ints(ds, rva, k) \cup Texts(ds, rva, k) : k \in DOMAIN ds} <=>
          \E k \in 1 .. Len(ds) : x \in Ints(ds, rva, k) \/ x \in Texts(ds, rva, k)
    BY <1>1
  <1> QED BY <1>2, <1>3, <1>4, <1>5, <1>6 DEF InInts, InTexts

\* One object at a place, and none outside of the section.
Parted(objects) == \A x, y \in objects : x[1] = y[1] => x = y
Inside(objects, lo, hi) ==
    \A x \in objects : x = <<x[1], x[2]>> /\ x[1] \in Nat /\ lo <= x[1] /\ x[1] < hi

LEMMA DirPlaces ==
    ASSUME NEW ds \in Seq(Descs), NEW rva \in Nat, NEW k \in 1 .. (Len(ds) + 1)
    PROVE  /\ DirPlace(rva, k) \in Nat /\ rva <= DirPlace(rva, k)
           /\ DirPlace(rva, k) < rva + DirectorySize(ds)
           /\ \A j \in 1 .. (Len(ds) + 1) : j < k => DirPlace(rva, j) < DirPlace(rva, k)
  BY DEF DirPlace, DirectorySize, DescriptorSize

LEMMA IdataParted ==
    ASSUME NEW ds \in Seq(Descs), NEW h, NEW rva \in Nat, rva = RoundUp(h.soi, h.align)
    PROVE  LET idata == Idata(h, ds)
           IN  Parted(idata.objects) /\ Inside(idata.objects, rva, rva + idata.size)
  <1> DEFINE objects == Idata(h, ds).objects
             n == Len(ds)
             dirEnd == rva + DirectorySize(ds)
             at == StringsAt(ds, rva)
             end == ModuleTextAt(ds, rva, n + 1)
             N(k) == Len(ds[k].imports)
  <1>1. /\ n \in Nat /\ dirEnd \in Nat /\ rva <= dirEnd /\ at \in Nat /\ dirEnd <= at
        /\ \A k \in 1 .. n : N(k) \in Nat
    <2>1. n \in Nat
      OBVIOUS
    <2>2. dirEnd \in Nat /\ rva <= dirEnd
      BY <2>1 DEF DirectorySize, DescriptorSize
    <2>3. n + 1 \in 1 .. (n + 1) /\ at = IntAt(ds, rva, n + 1)
      BY <2>1 DEF StringsAt
    <2>4. at \in Nat /\ dirEnd <= at
      BY <2>3, IntsLaidOut
    <2>5. ASSUME NEW k \in 1 .. n PROVE N(k) \in Nat
      <3>1. ds[k] \in Descs
        OBVIOUS
      <3> QED BY <3>1, StringsUpToAre
    <2> QED BY <2>1, <2>2, <2>4, <2>5
  <1>2. end \in Nat /\ at <= end
    <2>1. n + 1 \in 1 .. (n + 1)
      BY <1>1
    <2>2. StringsBefore(ds)[n + 1] \in Nat
      BY <2>1, StringsBeforeAre
    <2> QED BY <1>1, <2>2 DEF ModuleTextAt
  <1>3. rva + Idata(h, ds).size = end
    <2>1. Idata(h, ds).size = end - rva
      BY DEF Idata
    <2> HIDE DEF end
    <2> QED BY <1>2, <2>1
  <1>4. \A x : x \in objects <=> InDir(ds, rva, x) \/ InInts(ds, rva, x) \/ InTexts(ds, rva, x)
    BY ObjectsAre
  <1> HIDE DEF objects, at, end, dirEnd
  <1>5. ASSUME NEW x, InDir(ds, rva, x)
        PROVE  /\ x = <<x[1], x[2]>> /\ x[1] \in Nat /\ rva <= x[1] /\ x[1] < dirEnd
               /\ \A y : InDir(ds, rva, y) /\ x[1] = y[1] => x = y
    <2>1. PICK k \in 1 .. (n + 1) : x = DirObject(ds, rva, k)
      BY <1>5 DEF InDir
    <2>2. x[1] = DirPlace(rva, k) /\ x = <<x[1], x[2]>>
      BY <2>1 DEF DirObject
    <2>3. DirPlace(rva, k) \in Nat /\ rva <= DirPlace(rva, k) /\ DirPlace(rva, k) < dirEnd
      BY DirPlaces DEF dirEnd
    <2>4. ASSUME NEW y, InDir(ds, rva, y), x[1] = y[1] PROVE x = y
      <3>1. PICK j \in 1 .. (n + 1) : y = DirObject(ds, rva, j)
        BY <2>4 DEF InDir
      <3>2. y[1] = DirPlace(rva, j) /\ DirPlace(rva, j) \in Nat
        BY <3>1, DirPlaces DEF DirObject
      <3>3. ~(j < k) /\ ~(k < j)
        <4>1. j < k => DirPlace(rva, j) < DirPlace(rva, k)
          BY DirPlaces
        <4>2. k < j => DirPlace(rva, k) < DirPlace(rva, j)
          BY DirPlaces
        <4> QED BY <2>2, <2>3, <2>4, <3>2, <4>1, <4>2
      <3>4. j = k
        BY <1>1, <3>3
      <3> QED BY <2>1, <3>1, <3>4
    <2> QED BY <2>2, <2>3, <2>4
  <1>6. ASSUME NEW x, InInts(ds, rva, x)
        PROVE  /\ x = <<x[1], x[2]>> /\ x[1] \in Nat /\ dirEnd <= x[1] /\ x[1] < at
               /\ \A y : InInts(ds, rva, y) /\ x[1] = y[1] => x = y
    <2>1. PICK k \in 1 .. n : \E i \in 1 .. (N(k) + 1) : x = IntObject(ds, rva, k, i)
      BY <1>6 DEF InInts
    <2>2. PICK i \in 1 .. (N(k) + 1) : x = IntObject(ds, rva, k, i)
      BY <2>1
    <2>3. x[1] = IntPlace(ds, rva, k, i) /\ x = <<x[1], x[2]>>
      BY <2>2 DEF IntObject
    <2>4. /\ IntPlace(ds, rva, k, i) \in Nat /\ dirEnd <= IntPlace(ds, rva, k, i)
          /\ IntPlace(ds, rva, k, i) < at
      BY IntPlaces DEF dirEnd, at
    <2>5. ASSUME NEW y, InInts(ds, rva, y), x[1] = y[1] PROVE x = y
      <3>1. PICK j \in 1 .. n : \E l \in 1 .. (N(j) + 1) : y = IntObject(ds, rva, j, l)
        BY <2>5 DEF InInts
      <3>2. PICK l \in 1 .. (N(j) + 1) : y = IntObject(ds, rva, j, l)
        BY <3>1
      <3>3. y[1] = IntPlace(ds, rva, j, l) /\ IntPlace(ds, rva, j, l) \in Nat
        BY <3>2, IntPlaces DEF IntObject
      <3>4. ~Before(j, l, k, i)
        <4>1. SUFFICES ASSUME Before(j, l, k, i) PROVE FALSE
          OBVIOUS
        <4>2. IntPlace(ds, rva, j, l) < IntPlace(ds, rva, k, i)
          BY <4>1, IntPlaces
        <4> QED BY <2>3, <2>4, <2>5, <3>3, <4>2
      <3>5. ~Before(k, i, j, l)
        <4>1. SUFFICES ASSUME Before(k, i, j, l) PROVE FALSE
          OBVIOUS
        <4>2. IntPlace(ds, rva, k, i) < IntPlace(ds, rva, j, l)
          BY <4>1, IntPlaces
        <4> QED BY <2>3, <2>4, <2>5, <3>3, <4>2
      <3>6. j = k /\ l = i
        BY <1>1, <3>4, <3>5 DEF Before
      <3> QED BY <2>2, <3>2, <3>6
    <2> QED BY <2>3, <2>4, <2>5
  <1>7. ASSUME NEW x, InTexts(ds, rva, x)
        PROVE  /\ x = <<x[1], x[2]>> /\ x[1] \in Nat /\ at <= x[1] /\ x[1] < end
               /\ \A y : InTexts(ds, rva, y) /\ x[1] = y[1] => x = y
    <2>1. PICK k \in 1 .. n :
             \E i \in 0 .. N(k) : HasText(ds, k, i) /\ x = TextObject(ds, rva, k, i)
      BY <1>7 DEF InTexts
    <2>2. PICK i \in 0 .. N(k) : HasText(ds, k, i) /\ x = TextObject(ds, rva, k, i)
      BY <2>1
    <2>3. x[1] = TextPlace(ds, rva, k, i) /\ x = <<x[1], x[2]>>
      BY <2>2 DEF TextObject
    <2>4. /\ TextPlace(ds, rva, k, i) \in Nat /\ at <= TextPlace(ds, rva, k, i)
          /\ TextPlace(ds, rva, k, i) < end
      BY <2>2, TextPlaces DEF at, end
    <2>5. ASSUME NEW y, InTexts(ds, rva, y), x[1] = y[1] PROVE x = y
      <3>1. PICK j \in 1 .. n :
               \E l \in 0 .. N(j) : HasText(ds, j, l) /\ y = TextObject(ds, rva, j, l)
        BY <2>5 DEF InTexts
      <3>2. PICK l \in 0 .. N(j) : HasText(ds, j, l) /\ y = TextObject(ds, rva, j, l)
        BY <3>1
      <3>3. y[1] = TextPlace(ds, rva, j, l) /\ TextPlace(ds, rva, j, l) \in Nat
        BY <3>2, TextPlaces DEF TextObject
      <3>4. ~Before(j, l, k, i)
        <4>1. SUFFICES ASSUME Before(j, l, k, i) PROVE FALSE
          OBVIOUS
        <4>2. TextPlace(ds, rva, j, l) < TextPlace(ds, rva, k, i)
          BY <3>2, <4>1, TextPlaces
        <4> QED BY <2>3, <2>4, <2>5, <3>3, <4>2
      <3>5. ~Before(k, i, j, l)
        <4>1. SUFFICES ASSUME Before(k, i, j, l) PROVE FALSE
          OBVIOUS
        <4>2. TextPlace(ds, rva, k, i) < TextPlace(ds, rva, j, l)
          BY <2>2, <4>1, TextPlaces
        <4> QED BY <2>3, <2>4, <2>5, <3>3, <4>2
      <3>6. j = k /\ l = i
        BY <1>1, <3>4, <3>5 DEF Before
      <3> QED BY <2>2, <3>2, <3>6
    <2> QED BY <2>3, <2>4, <2>5
  <1>8. Inside(objects, rva, end)
    <2>1. ASSUME NEW x \in objects
          PROVE  x = <<x[1], x[2]>> /\ x[1] \in Nat /\ rva <= x[1] /\ x[1] < end
      <3>1. CASE InDir(ds, rva, x)
        BY <1>1, <1>2, <1>5, <3>1
      <3>2. CASE InInts(ds, rva, x)
        BY <1>1, <1>2, <1>6, <3>2
      <3>3. CASE InTexts(ds, rva, x)
        BY <1>1, <1>2, <1>7, <3>3
      <3> QED BY <1>4, <3>1, <3>2, <3>3
    <2> QED BY <2>1 DEF Inside
  <1>9. Parted(objects)
    <2>1. ASSUME NEW x \in objects, NEW y \in objects, x[1] = y[1] PROVE x = y
      <3>1. CASE InDir(ds, rva, x)
        <4>1. x[1] < dirEnd /\ x[1] \in Nat
          BY <1>5, <3>1
        <4>2. InDir(ds, rva, y)
          BY <1>1, <1>4, <1>6, <1>7, <2>1, <4>1
        <4> QED BY <1>5, <2>1, <3>1, <4>2
      <3>2. CASE InInts(ds, rva, x)
        <4>1. dirEnd <= x[1] /\ x[1] < at /\ x[1] \in Nat
          BY <1>6, <3>2
        <4>2. InInts(ds, rva, y)
          BY <1>1, <1>4, <1>5, <1>7, <2>1, <4>1
        <4> QED BY <1>6, <2>1, <3>2, <4>2
      <3>3. CASE InTexts(ds, rva, x)
        <4>1. at <= x[1] /\ x[1] \in Nat
          BY <1>7, <3>3
        <4>2. InTexts(ds, rva, y)
          BY <1>1, <1>4, <1>5, <1>6, <2>1, <4>1
        <4> QED BY <1>7, <2>1, <3>3, <4>2
      <3> QED BY <1>4, <3>1, <3>2, <3>3
    <2> QED BY <2>1 DEF Parted
  <1> QED BY <1>3, <1>8, <1>9 DEF objects

LEMMA SameMultiple ==
    ASSUME NEW a \in Nat, NEW b \in Nat, NEW n \in Nat \ {0}, a * n = b * n
    PROVE  a = b
  <1>1. ~(a < b)
    <2>1. SUFFICES ASSUME a < b PROVE FALSE
      OBVIOUS
    <2>2. PICK d \in Nat : b = a + 1 + d
      <3>1. b - a - 1 \in Nat /\ b = a + 1 + (b - a - 1)
        BY <2>1
      <3> QED BY <3>1
    <2>3. b * n = a * n + n + d * n /\ d * n \in Nat /\ a * n \in Nat
      BY <2>2
    <2> QED BY <2>3
  <1>2. ~(b < a)
    <2>1. SUFFICES ASSUME b < a PROVE FALSE
      OBVIOUS
    <2>2. PICK d \in Nat : a = b + 1 + d
      <3>1. a - b - 1 \in Nat /\ a = b + 1 + (a - b - 1)
        BY <2>1
      <3> QED BY <3>1
    <2>3. a * n = b * n + n + d * n /\ d * n \in Nat /\ b * n \in Nat
      BY <2>2
    <2> QED BY <2>3
  <1> QED BY <1>1, <1>2

(* Behind the image nothing is moved and nothing is cut.                   *)
LEMMA PlacedAre ==
    ASSUME NEW f, f.len \in Nat, f.head.align \in Nat \ {0},
           NEW idata, idata.rva \in Nat, idata.size \in Nat, f.len <= idata.rva,
           Inside(idata.objects, idata.rva, idata.rva + idata.size)
    PROVE  Placed(f, idata) = idata.objects
  <1> DEFINE rva == idata.rva
             at == IF f.len < rva THEN rva ELSE f.len
             end == EndOf(f.head, idata)
             objects == idata.objects
  <1>1. at = rva
    OBVIOUS
  <1>2. rva + idata.size <= end /\ end \in Nat
    <2>1. idata.size <= RoundUp(idata.size, f.head.align) /\ RoundUp(idata.size, f.head.align) \in Nat
      BY RoundUpBounds
    <2> QED BY <2>1 DEF EndOf
  <1>3. ASSUME NEW x \in objects
        PROVE  <<x[1] - rva + at, x[2]>> = x /\ x[1] < end
    <2>1. x = <<x[1], x[2]>> /\ x[1] \in Nat /\ x[1] < rva + idata.size
      BY DEF Inside
    <2>2. x[1] - rva + at = x[1]
      BY <1>1, <2>1
    <2> QED BY <1>2, <2>1, <2>2
  <1>4. Placed(f, idata) = {y \in {<<x[1] - rva + at, x[2]>> : x \in objects} : y[1] < end}
    BY DEF Placed
  <1> HIDE DEF rva, at, end, objects
  <1>5. {<<x[1] - rva + at, x[2]>> : x \in objects} = objects
    BY <1>3
  <1>6. Placed(f, idata) = objects
    BY <1>3, <1>4, <1>5
  <1> QED BY <1>6 DEF objects

LEMMA PartedFinite ==
    ASSUME NEW objects, NEW lo \in Nat, NEW hi \in Nat, Parted(objects), Inside(objects, lo, hi)
    PROVE  IsFiniteSet(objects)
  <1> DEFINE g == [x \in objects |-> x[1]]
  <1>1. IsFiniteSet(lo .. hi)
    BY FS_Interval
  <1>2. g \in Injection(objects, lo .. hi)
    <2>1. ASSUME NEW x \in objects PROVE g[x] = x[1] /\ x[1] \in lo .. hi
      BY DEF Inside
    <2>2. \A x, y \in objects : g[x] = g[y] => x = y
      BY <2>1 DEF Parted
    <2>3. g \in [objects -> lo .. hi]
      BY <2>1
    <2> HIDE DEF g
    <2> QED BY <2>2, <2>3 DEF Injection, IsInjective
  <1> HIDE DEF g
  <1> QED BY <1>1, <1>2, FS_Injection

-----------------------------------------------------------------------------
(* What the loader reads.                                                  *)

\* Every object of the file is alone at its place, and a tool that maps the sections finds
\* it there.
Addressed(f) ==
    /\ IsFiniteSet(f.objects) /\ Parted(f.objects)
    /\ \A x \in f.objects : Backed(f, x[1]) /\ Offset(f, x[1]) = x[1]

LEMMA ObjectFound ==
    ASSUME NEW f, Addressed(f), NEW p, NEW o, <<p, o>> \in f.objects
    PROVE  ObjectAt(f, p) = o
  <1> DEFINE here == {x \in f.objects : Backed(f, p) /\ x[1] = Offset(f, p)}
  <1>1. Backed(f, <<p, o>>[1]) /\ Offset(f, <<p, o>>[1]) = <<p, o>>[1] /\ <<p, o>>[1] = p
    BY DEF Addressed
  <1>2. <<p, o>> \in here
    BY <1>1
  <1>3. \A x \in here : x = <<p, o>>
    <2>1. \A x \in here : x \in f.objects /\ x[1] = <<p, o>>[1]
      BY <1>1
    <2> HIDE DEF here
    <2> QED BY <2>1 DEF Addressed, Parted
  <1>4. ObjectAt(f, p) = (CHOOSE x \in here : TRUE)[2]
    BY <1>2 DEF ObjectAt
  <1> HIDE DEF here
  <1>5. (CHOOSE x \in here : TRUE) = <<p, o>>
    BY <1>2, <1>3
  <1>6. <<p, o>>[2] = o
    OBVIOUS
  <1> QED BY <1>4, <1>5, <1>6

\* The n entries of s are a table at rva, with a null entry behind them.
Tabled(f, rva, step, n, s) ==
    /\ \A k \in 1 .. n : /\ <<rva + (k - 1) * step, s[k]>> \in f.objects
                         /\ s[k].kind \notin {"null", "none"}
    /\ <<rva + n * step, Null>> \in f.objects

(* A table of entries that ends with a null entry is read up to there.     *)
LEMMA WalkIs ==
    ASSUME NEW f, Addressed(f), NEW rva \in Nat, NEW step \in Nat \ {0}, NEW n \in Nat, NEW s,
           Tabled(f, rva, step, n, s)
    PROVE  Walk(f, rva, step) = [k \in 1 .. n |-> s[k]]
  <1> DEFINE Ends(m) == ObjectAt(f, rva + m * step).kind \in {"null", "none"}
             bound == Cardinality(f.objects)
             Last(m) == Ends(m) /\ \A j \in 0 .. (m - 1) : ~Ends(j)
             l == CHOOSE m \in 0 .. bound : Last(m)
  <1>0. /\ \A k \in 1 .. n : /\ <<rva + (k - 1) * step, s[k]>> \in f.objects
                             /\ s[k].kind \notin {"null", "none"}
        /\ <<rva + n * step, Null>> \in f.objects
    BY DEF Tabled
  <1>1. \A k \in 1 .. n : ObjectAt(f, rva + (k - 1) * step) = s[k]
    BY <1>0, ObjectFound
  <1>2. Ends(n)
    <2>1. ObjectAt(f, rva + n * step) = Null
      BY <1>0, ObjectFound
    <2> QED BY <2>1 DEF Null
  <1>3. ASSUME NEW j \in 0 .. (n - 1) PROVE ~Ends(j)
    <2>1. PICK k \in 1 .. n : k - 1 = j
      <3>1. j + 1 \in 1 .. n /\ j + 1 - 1 = j
        OBVIOUS
      <3> QED BY <3>1
    <2>2. ObjectAt(f, rva + (k - 1) * step) = s[k]
      BY <1>1
    <2>3. s[k].kind \notin {"null", "none"}
      BY <1>0
    <2>4. ObjectAt(f, rva + j * step) = s[k]
      BY <2>1, <2>2
    <2> QED BY <2>3, <2>4
  <1>4. bound \in Nat /\ n <= bound
    <2> DEFINE g == [k \in 1 .. n |-> <<rva + (k - 1) * step, s[k]>>]
    <2>1. IsFiniteSet(f.objects) /\ bound \in Nat
      BY FS_CardinalityType DEF Addressed
    <2>2. g \in Injection(1 .. n, f.objects)
      <3>1. g \in [1 .. n -> f.objects]
        BY <1>0
      <3>2. ASSUME NEW j \in 1 .. n, NEW k \in 1 .. n, g[j] = g[k] PROVE j = k
        <4>1. rva + (j - 1) * step = rva + (k - 1) * step
          BY <3>2
        <4>2. (j - 1) * step = (k - 1) * step
          <5> DEFINE a == (j - 1) * step
                     b == (k - 1) * step
          <5>1. a \in Nat /\ b \in Nat /\ rva + a = rva + b
            BY <4>1
          <5> HIDE DEF a, b
          <5>2. a = b
            BY <5>1
          <5> QED BY <5>2 DEF a, b
        <4>3. j - 1 \in Nat /\ k - 1 \in Nat
          OBVIOUS
        <4>4. j - 1 = k - 1
          BY <4>2, <4>3, SameMultiple
        <4> QED BY <4>4
      <3> HIDE DEF g
      <3> QED BY <3>1, <3>2 DEF Injection, IsInjective
    <2> HIDE DEF g
    <2>3. Cardinality(1 .. n) <= bound /\ Cardinality(1 .. n) = n
      <3>1. Cardinality(1 .. n) = n
        <4>1. 1 \in Int /\ n \in Int
          OBVIOUS
        <4>2. Cardinality(1 .. n) = IF 1 > n THEN 0 ELSE n - 1 + 1
          BY <4>1, FS_Interval
        <4> QED BY <4>2
      <3> QED BY <2>1, <2>2, <3>1, FS_Injection
    <2> QED BY <2>1, <2>3
  <1>5. Last(n) /\ n \in 0 .. bound
    BY <1>2, <1>3, <1>4
  <1>6. ASSUME NEW m \in 0 .. bound, Last(m) PROVE m = n
    <2> HIDE DEF Ends
    <2>1. ~(n < m)
      <3>1. n < m => n \in 0 .. (m - 1)
        BY <1>4
      <3> QED BY <1>2, <1>6, <3>1
    <2>2. ~(m < n)
      <3>1. m < n => m \in 0 .. (n - 1)
        BY <1>4
      <3> QED BY <1>3, <1>6, <3>1
    <2> QED BY <1>4, <2>1, <2>2
  <1>7. l = n
    <2> HIDE DEF Last
    <2> QED BY <1>5, <1>6
  <1>8. Walk(f, rva, step) = [k \in 1 .. l |-> ObjectAt(f, rva + (k - 1) * step)]
    BY DEF Walk
  <1> HIDE DEF l
  <1> QED BY <1>1, <1>7, <1>8

-----------------------------------------------------------------------------
(* The artifact of the program itself has been through resolve_imports.    *)

\* Its file before the entry point is set, and then.
Resolved(h) == IF h.imports # 0 THEN Plain(h) ELSE RebuildImports(Plain(h))
Entering(h) == {Resolved(h), [Resolved(h) EXCEPT !.head.entry = scenario.oep]}

MainTrue ==
    scenario.kind = "main" =>
        /\ stage # "loose"
        /\ stage = "entry" => \E h \in Heads : file = Resolved(h)
        /\ stage = "done" => \E h \in Heads : file \in Entering(h)

LEMMA MainKeeps == RebuildInv /\ MainTrue /\ [RebuildNext]_rebuildVars => MainTrue'
  <1> SUFFICES ASSUME RebuildInv, MainTrue, [RebuildNext]_rebuildVars PROVE MainTrue'
    OBVIOUS
  <1>0. scenario' = scenario
    <2>1. CASE Write \/ ChangeHeader \/ Protect \/ UNCHANGED rebuildVars
      BY <2>1 DEF Write, ChangeHeader, Protect, TargetChanges, rebuildVars
    <2>2. CASE DiffHead \/ DiffSection \/ ReadHead
      BY <2>2 DEF DiffHead, DiffSection, ReadHead
    <2>3. CASE ReadWhole \/ ReadNext
      BY <2>3 DEF ReadWhole, ReadNext
    <2>4. CASE Align \/ Synthesize \/ ResolveImports \/ SetEntry
      BY <2>4 DEF Align, Synthesize, ResolveImports, SetEntry
    <2> QED BY <2>1, <2>2, <2>3, <2>4 DEF RebuildNext
  <1> SUFFICES ASSUME scenario.kind = "main", stage # "loose" PROVE MainTrue'
    BY <1>0 DEF MainTrue
  <1>1. ASSUME UNCHANGED <<scenario, soi, buf>>, headers \subseteq headers'
        PROVE  /\ Heads \subseteq Heads'
               /\ \A h : Plain(h)' = Plain(h) /\ Resolved(h)' = Resolved(h)
               /\ \A h : Entering(h)' = Entering(h)
    <2>1. Heads \subseteq Heads'
      BY <1>1 DEF Heads, Seen
    <2>2. \A h : Plain(h)' = Plain(h)
      BY <1>1 DEF Plain, Artifact
    <2>3. \A h : Resolved(h)' = Resolved(h)
      BY <2>2 DEF Resolved
    <2>4. \A h : Entering(h)' = Entering(h)
      BY <1>1, <2>3 DEF Entering
    <2> QED BY <2>1, <2>2, <2>3, <2>4
  <1>2. CASE /\ UNCHANGED <<scenario, stage, soi, file>> /\ headers \subseteq headers'
             /\ buf' = buf \/ stage \notin {"entry", "done"}
    <2>1. CASE stage \in {"entry", "done"}
      <3>1. UNCHANGED <<scenario, stage, soi, buf, file>> /\ headers \subseteq headers'
        BY <1>2, <2>1
      <3>2. /\ Heads \subseteq Heads' /\ \A h : Resolved(h)' = Resolved(h)
            /\ \A h : Entering(h)' = Entering(h)
        BY <1>1, <3>1
      <3> QED BY <3>1, <3>2 DEF MainTrue
    <2>2. CASE stage \notin {"entry", "done"}
      BY <1>2, <2>2 DEF MainTrue
    <2> QED BY <2>1, <2>2
  <1>3. CASE Write \/ ChangeHeader \/ Protect
    BY <1>2, <1>3 DEF Write, ChangeHeader, Protect, TargetChanges, readVars
  <1>4. CASE DiffHead \/ DiffSection \/ ReadHead
    <2>1. scenario' = scenario /\ stage' \notin {"loose", "entry", "done"}
      BY <1>4 DEF DiffHead, DiffSection, ReadHead, NoImage
    <2> QED BY <2>1 DEF MainTrue
  <1>5. CASE ReadWhole \/ ReadNext
    <2>1. UNCHANGED <<scenario, stage, soi, file, headers>> /\ stage \notin {"entry", "done"}
      BY <1>5 DEF ReadWhole, ReadNext, Reading, targetVars
    <2> QED BY <1>2, <2>1
  <1>6. CASE Align
    <2>1. scenario' = scenario /\ stage' \in {"imports", "failed"}
      BY <1>6 DEF Align, NoImage
    <2> QED BY <2>1 DEF MainTrue
  <1>7. CASE Synthesize
    BY <1>7 DEF Synthesize
  <1>8. CASE ResolveImports
    <2>1. /\ stage = "imports" /\ stage' = "entry" /\ UNCHANGED <<scenario, soi, buf, headers>>
          /\ file' = IF file.head.imports # 0 THEN file ELSE RebuildImports(file)
      BY <1>8 DEF ResolveImports, targetVars, readVars
    <2>2. PICK h \in Heads : file = Plain(h)
      BY <2>1 DEF RebuildInv, FileTrue
    <2>3. file.head.imports = h.imports
      <3>1. AllRead
        BY <2>1 DEF RebuildInv, FileTrue, Made
      <3>2. h \in Headers /\ file.head = MemoryAlign(h)
        BY <2>2, <3>1, HeadFits DEF Plain, Artifact
      <3> QED BY <3>2 DEF MemoryAlign, Headers
    <2>4. file' = Resolved(h)
      BY <2>1, <2>2, <2>3 DEF Resolved
    <2>5. h \in Heads' /\ file' = Resolved(h)'
      BY <1>1, <2>1, <2>2, <2>4
    <2> QED BY <2>1, <2>5 DEF MainTrue
  <1>9. CASE SetEntry
    <2>1. /\ stage = "entry" /\ stage' = "done" /\ UNCHANGED <<scenario, soi, buf, headers>>
          /\ file' \in {file, [file EXCEPT !.head.entry = scenario.oep]}
      BY <1>9 DEF SetEntry, targetVars, readVars
    <2>2. PICK h \in Heads : file = Resolved(h)
      BY <2>1 DEF MainTrue
    <2>3. h \in Heads' /\ file' \in Entering(h)'
      BY <1>1, <2>1, <2>2 DEF Entering
    <2> QED BY <2>1, <2>3 DEF MainTrue
  <1>10. CASE UNCHANGED rebuildVars
    BY <1>2, <1>10 DEF rebuildVars, targetVars, readVars
  <1> QED BY <1>3, <1>4, <1>5, <1>6, <1>7, <1>8, <1>9, <1>10 DEF RebuildNext

-----------------------------------------------------------------------------
(* What the loader finds.                                                  *)

\* Import i of a descriptor, as the loader reads it.
Import(d, i) ==
    [slot |-> SlotOf(d, i), module |-> d.module, name |-> d.imports[i].name,
     ordinal |-> IF d.imports[i].name = NoName THEN d.imports[i].ordinal ELSE 0]

Listed(ds) == UNION {{Import(ds[k], i) : i \in 1 .. Len(ds[k].imports)} : k \in 1 .. Len(ds)}

\* The section of the descriptors ds is in the file, and its directory is announced.
Carries(f, h, ds) ==
    /\ Addressed(f) /\ f.objects = Idata(h, ds).objects
    /\ f.head.imports = RoundUp(h.soi, h.align)

LEMMA DirectoryRead ==
    ASSUME NEW ds \in Seq(Descs), NEW h, NEW rva \in Nat, rva = RoundUp(h.soi, h.align),
           NEW f, Carries(f, h, ds)
    PROVE  Walk(f, rva, DescriptorSize) = [k \in 1 .. Len(ds) |-> DescriptorAt(ds, rva, k)]
  <1> DEFINE n == Len(ds)
             s == [k \in 1 .. n |-> DescriptorAt(ds, rva, k)]
  <1>1. n \in Nat
    OBVIOUS
  <1>2. \A k \in 1 .. (n + 1) : DirObject(ds, rva, k) \in f.objects
    BY ObjectsAre DEF InDir, Carries
  <1>3. ASSUME NEW k \in 1 .. n
        PROVE  <<rva + (k - 1) * DescriptorSize, s[k]>> \in f.objects
               /\ s[k].kind \notin {"null", "none"}
    <2>1. k \in 1 .. (n + 1) /\ k # n + 1
      BY <1>1
    <2>2. s[k] = DescriptorAt(ds, rva, k)
      OBVIOUS
    <2>3. DirObject(ds, rva, k) = <<rva + (k - 1) * DescriptorSize, s[k]>>
      BY <2>1, <2>2 DEF DirObject, DirPlace
    <2> QED BY <1>2, <2>1, <2>2, <2>3 DEF DescriptorAt
  <1>4. <<rva + n * DescriptorSize, Null>> \in f.objects
    <2>1. n + 1 - 1 = n /\ n + 1 \in 1 .. (n + 1)
      BY <1>1
    <2>2. DirObject(ds, rva, n + 1) = <<rva + n * DescriptorSize, Null>>
      BY <2>1 DEF DirObject, DirPlace
    <2> QED BY <1>2, <2>1, <2>2
  <1>5. DescriptorSize \in Nat \ {0}
    BY DEF DescriptorSize
  <1>6. Addressed(f)
    BY DEF Carries
  <1> HIDE DEF s, n
  <1>7. Walk(f, rva, DescriptorSize) = [k \in 1 .. n |-> s[k]]
    <2>1. Tabled(f, rva, DescriptorSize, n, s)
      BY <1>3, <1>4 DEF Tabled
    <2> QED BY <1>1, <1>5, <1>6, <2>1, WalkIs
  <1> QED BY <1>7 DEF s, n

LEMMA IntRead ==
    ASSUME NEW ds \in Seq(Descs), NEW h, NEW rva \in Nat, rva = RoundUp(h.soi, h.align),
           NEW f, Carries(f, h, ds), NEW k \in 1 .. Len(ds)
    PROVE  LET w == Walk(f, IntAt(ds, rva, k), Ptr)
           IN  /\ DOMAIN w = 1 .. Len(ds[k].imports)
               /\ \A i \in 1 .. Len(ds[k].imports) : w[i] = Thunk(ds, rva, k, i)
  <1> DEFINE n == Len(ds[k].imports)
             s == [i \in 1 .. n |-> Thunk(ds, rva, k, i)]
             at == IntAt(ds, rva, k)
  <1>1. n \in Nat
    <2>1. ds[k] \in Descs
      OBVIOUS
    <2> QED BY <2>1, StringsUpToAre
  <1>2. at \in Nat
    <2>1. k \in 1 .. (Len(ds) + 1)
      OBVIOUS
    <2> QED BY <2>1, IntsLaidOut
  <1>3. \A i \in 1 .. (n + 1) : IntObject(ds, rva, k, i) \in f.objects
    BY ObjectsAre DEF InInts, Carries
  <1>4. ASSUME NEW i \in 1 .. n
        PROVE  <<at + (i - 1) * Ptr, s[i]>> \in f.objects /\ s[i].kind \notin {"null", "none"}
    <2>1. i \in 1 .. (n + 1) /\ i # n + 1
      BY <1>1
    <2>2. s[i] = Thunk(ds, rva, k, i)
      OBVIOUS
    <2>3. IntObject(ds, rva, k, i) = <<at + (i - 1) * Ptr, s[i]>>
      BY <2>1, <2>2 DEF IntObject, IntPlace
    <2> QED BY <1>3, <2>1, <2>2, <2>3 DEF Thunk
  <1>5. <<at + n * Ptr, Null>> \in f.objects
    <2>1. n + 1 - 1 = n /\ n + 1 \in 1 .. (n + 1)
      BY <1>1
    <2>2. IntObject(ds, rva, k, n + 1) = <<at + n * Ptr, Null>>
      BY <2>1 DEF IntObject, IntPlace
    <2> QED BY <1>3, <2>1, <2>2
  <1>6. Ptr \in Nat \ {0} /\ Addressed(f)
    BY PeImageAssumption DEF Carries
  <1> HIDE DEF s, n, at
  <1>7. Walk(f, at, Ptr) = [i \in 1 .. n |-> s[i]]
    <2>1. Tabled(f, at, Ptr, n, s)
      BY <1>4, <1>5 DEF Tabled
    <2> QED BY <1>1, <1>2, <1>6, <2>1, WalkIs
  <1> QED BY <1>7 DEF s, n, at

LEMMA TextRead ==
    ASSUME NEW ds \in Seq(Descs), NEW h, NEW rva, rva = RoundUp(h.soi, h.align),
           NEW f, Carries(f, h, ds), NEW k \in 1 .. Len(ds)
    PROVE  /\ TextAt(f, ModuleTextAt(ds, rva, k)) = ds[k].module
           /\ \A i \in 1 .. Len(ds[k].imports) : ds[k].imports[i].name # NoName =>
                TextAt(f, NameTextAt(ds, rva, k, i)) = ds[k].imports[i].name
  <1>1. Len(ds[k].imports) \in Nat /\ Addressed(f)
    <2>1. ds[k] \in Descs
      OBVIOUS
    <2> QED BY <2>1, StringsUpToAre DEF Carries
  <1>2. ASSUME NEW i \in 0 .. Len(ds[k].imports), HasText(ds, k, i)
        PROVE  TextObject(ds, rva, k, i) \in f.objects
    BY <1>2, ObjectsAre DEF InTexts, Carries
  <1>3. TextAt(f, ModuleTextAt(ds, rva, k)) = ds[k].module
    <2>1. 0 \in 0 .. Len(ds[k].imports) /\ HasText(ds, k, 0)
      BY <1>1 DEF HasText
    <2>2. TextObject(ds, rva, k, 0) = <<ModuleTextAt(ds, rva, k), Text(FALSE, ds[k].module)>>
      BY DEF TextObject, TextPlace
    <2>3. ObjectAt(f, ModuleTextAt(ds, rva, k)) = Text(FALSE, ds[k].module)
      BY <1>1, <1>2, <2>1, <2>2, ObjectFound
    <2> QED BY <2>3 DEF TextAt, Text
  <1>4. ASSUME NEW i \in 1 .. Len(ds[k].imports), ds[k].imports[i].name # NoName
        PROVE  TextAt(f, NameTextAt(ds, rva, k, i)) = ds[k].imports[i].name
    <2>1. i \in 0 .. Len(ds[k].imports) /\ HasText(ds, k, i) /\ i # 0
      BY <1>1, <1>4 DEF HasText
    <2>2. TextObject(ds, rva, k, i) =
            <<NameTextAt(ds, rva, k, i), Text(TRUE, ds[k].imports[i].name)>>
      BY <2>1 DEF TextObject, TextPlace
    <2>3. ObjectAt(f, NameTextAt(ds, rva, k, i)) = Text(TRUE, ds[k].imports[i].name)
      BY <1>1, <1>2, <2>1, <2>2, ObjectFound
    <2> QED BY <2>3 DEF TextAt, Text
  <1> QED BY <1>3, <1>4

(* The loader recovers the imports of the descriptors, and nothing else.   *)
LEMMA RecoveredIs ==
    ASSUME NEW ds \in Seq(Descs), NEW h, RoundUp(h.soi, h.align) \in Nat,
           NEW f, Carries(f, h, ds)
    PROVE  Recovered(f) = Listed(ds)
  <1> DEFINE rva == RoundUp(h.soi, h.align)
             D == Walk(f, f.head.imports, DescriptorSize)
             T(k) == Walk(f, D[k].int, Ptr)
             X(k, i) == [slot |-> D[k].firstThunk + (i - 1) * Ptr,
                         module |-> TextAt(f, D[k].name),
                         name |-> IF T(k)[i].kind = "name" THEN TextAt(f, T(k)[i].rva)
                                  ELSE NoName,
                         ordinal |-> IF T(k)[i].kind = "ordinal" THEN T(k)[i].ordinal ELSE 0]
  <1>1. Recovered(f) = UNION {{X(k, i) : i \in DOMAIN T(k)} : k \in DOMAIN D}
    BY DEF Recovered
  <1>2. D = [k \in 1 .. Len(ds) |-> DescriptorAt(ds, rva, k)]
    BY DirectoryRead DEF Carries
  <1>3. rva \in Nat /\ rva = RoundUp(h.soi, h.align)
    OBVIOUS
  <1> HIDE DEF rva, D
  <1>4. ASSUME NEW k \in 1 .. Len(ds)
        PROVE  /\ D[k] = DescriptorAt(ds, rva, k) /\ DOMAIN T(k) = 1 .. Len(ds[k].imports)
               /\ \A i \in 1 .. Len(ds[k].imports) : T(k)[i] = Thunk(ds, rva, k, i)
    <2>1. D[k] = DescriptorAt(ds, rva, k)
      BY <1>2
    <2>2. D[k].int = IntAt(ds, rva, k)
      BY <2>1 DEF DescriptorAt
    <2> DEFINE w == Walk(f, IntAt(ds, rva, k), Ptr)
    <2>3. T(k) = w
      BY <2>2
    <2>4. /\ DOMAIN w = 1 .. Len(ds[k].imports)
          /\ \A i \in 1 .. Len(ds[k].imports) : w[i] = Thunk(ds, rva, k, i)
      BY <1>3, IntRead
    <2> HIDE DEF T, w
    <2> QED BY <2>1, <2>3, <2>4
  <1> HIDE DEF T
  <1>5. ASSUME NEW k \in 1 .. Len(ds), NEW i \in 1 .. Len(ds[k].imports)
        PROVE  X(k, i) = Import(ds[k], i)
    <2> DEFINE t == Thunk(ds, rva, k, i)
               name == ds[k].imports[i].name
    <2>1. /\ D[k].firstThunk = ds[k].firstThunk /\ D[k].name = ModuleTextAt(ds, rva, k)
          /\ T(k)[i] = t
      <3>1. D[k] = DescriptorAt(ds, rva, k)
        BY <1>4
      <3>3. T(k)[i] = t
        BY <1>4
      <3>4. D[k].firstThunk = ds[k].firstThunk /\ D[k].name = ModuleTextAt(ds, rva, k)
        BY <3>1 DEF DescriptorAt
      <3> QED BY <3>3, <3>4
    <2>2. TextAt(f, D[k].name) = ds[k].module
      BY <1>3, <2>1, TextRead
    <2>3. CASE name = NoName
      <3>1. t = [kind |-> "ordinal", ordinal |-> ds[k].imports[i].ordinal]
        BY <2>3 DEF Thunk
      <3>2. t.kind = "ordinal" /\ t.kind # "name" /\ t.ordinal = ds[k].imports[i].ordinal
        <4> HIDE DEF t
        <4> QED BY <3>1
      <3> HIDE DEF t
      <3> QED BY <2>1, <2>2, <2>3, <3>2 DEF Import, SlotOf
    <2>4. CASE name # NoName
      <3>1. t = [kind |-> "name", rva |-> NameTextAt(ds, rva, k, i)]
        BY <2>4 DEF Thunk
      <3>2. t.kind = "name" /\ t.kind # "ordinal" /\ t.rva = NameTextAt(ds, rva, k, i)
        <4> HIDE DEF t
        <4> QED BY <3>1
      <3>3. TextAt(f, NameTextAt(ds, rva, k, i)) = name
        BY <1>3, <2>4, TextRead
      <3> HIDE DEF t
      <3> QED BY <2>1, <2>2, <2>4, <3>2, <3>3 DEF Import, SlotOf
    <2> QED BY <2>3, <2>4
  <1> HIDE DEF X
  <1>6. DOMAIN D = 1 .. Len(ds) /\ \A k \in 1 .. Len(ds) : DOMAIN T(k) = 1 .. Len(ds[k].imports)
    BY <1>2, <1>4
  <1>7. \A k \in 1 .. Len(ds) :
          {X(k, i) : i \in DOMAIN T(k)} = {Import(ds[k], i) : i \in 1 .. Len(ds[k].imports)}
    BY <1>5, <1>6
  <1> DEFINE F(k) == {X(k, i) : i \in DOMAIN T(k)}
             G(k) == {Import(ds[k], i) : i \in 1 .. Len(ds[k].imports)}
  <1>8. \A k \in 1 .. Len(ds) : F(k) = G(k)
    BY <1>7
  <1>9. Recovered(f) = UNION {F(k) : k \in 1 .. Len(ds)}
    BY <1>1, <1>6
  <1> HIDE DEF F, G
  <1>10. Recovered(f) = UNION {G(k) : k \in 1 .. Len(ds)}
    BY <1>8, <1>9
  <1> QED BY <1>10 DEF G, Listed

(* Every slot is recovered once, and means what it points to.              *)
LEMMA ImportsListed ==
    ASSUME OrdinalsFit, NEW len \in Nat, NEW cells, DOMAIN cells = Cells(0, len),
           NEW ds, ListsAll(ds, cells), NEW found,
           found = Listed(ds)
    PROVE  /\ {x.slot : x \in found} = Slots(cells)
           /\ Cardinality(found) = Cardinality(Slots(cells))
           /\ \A x \in found : Means(x, cells[x.slot])
  <1> DEFINE Got(a) == [slot |-> a, module |-> Catalog[cells[a]].module,
                        name |-> Catalog[cells[a]].name,
                        ordinal |-> IF Catalog[cells[a]].name = NoName
                                    THEN Catalog[cells[a]].ordinal ELSE 0]
  <1>1. ASSUME NEW k \in 1 .. Len(ds), NEW i \in 1 .. Len(ds[k].imports)
        PROVE  SlotOf(ds[k], i) \in Slots(cells) /\ Import(ds[k], i) = Got(SlotOf(ds[k], i))
    <2> DEFINE a == SlotOf(ds[k], i)
    <2>1. /\ a \in Slots(cells) /\ ds[k].imports[i] = Catalog[cells[a]]
          /\ ds[k].module = Catalog[cells[a]].module
      BY DEF ListsAll
    <2> HIDE DEF a
    <2>2. SlotOf(ds[k], i) = a
      BY DEF a
    <2> QED BY <2>1, <2>2 DEF Import
  <1>2. ASSUME NEW a \in Slots(cells)
        PROVE  \E k \in 1 .. Len(ds) : \E i \in 1 .. Len(ds[k].imports) : a = SlotOf(ds[k], i)
    BY DEF ListsAll
  <1>3. \A a : Got(a).slot = a
    OBVIOUS
  <1>4. \A a \in Slots(cells) : Resolves(cells[a])
    BY DEF Slots, InRun
  <1>5. \A a \in Slots(cells) : Tells(Got(a), cells[a])
    BY DEF Tells
  <1> HIDE DEF Got
  <1>6. ASSUME NEW x PROVE x \in found <=> \E a \in Slots(cells) : x = Got(a)
    <2>1. x \in found <=> \E k \in 1 .. Len(ds) : \E i \in 1 .. Len(ds[k].imports) :
                            x = Import(ds[k], i)
      BY DEF Listed
    <2> QED BY <1>1, <1>2, <2>1
  <1>7. {x.slot : x \in found} = Slots(cells)
    <2>1. ASSUME NEW x \in found PROVE x.slot \in Slots(cells)
      BY <1>3, <1>6
    <2>2. ASSUME NEW a \in Slots(cells) PROVE \E x \in found : x.slot = a
      <3>1. Got(a) \in found /\ Got(a).slot = a
        BY <1>3, <1>6
      <3> QED BY <3>1
    <2> QED BY <2>1, <2>2
  <1>8. Cardinality(found) = Cardinality(Slots(cells))
    <2> DEFINE g == [a \in Slots(cells) |-> Got(a)]
    <2>1. IsFiniteSet(Slots(cells))
      <3>1. Slots(cells) \subseteq Cells(0, len)
        BY DEF Slots
      <3>2. IsFiniteSet(Cells(0, len))
        BY CellsFinite
      <3> QED BY <3>1, <3>2, FS_Subset
    <2>2. g \in Bijection(Slots(cells), found)
      <3>1. \A a \in Slots(cells) : g[a] = Got(a)
        OBVIOUS
      <3>2. g \in [Slots(cells) -> found]
        BY <1>6
      <3> HIDE DEF g
      <3>3. \A a, b \in Slots(cells) : g[a] = g[b] => a = b
        BY <1>3, <3>1
      <3>4. \A x \in found : \E a \in Slots(cells) : g[a] = x
        BY <1>6, <3>1
      <3> QED BY <3>2, <3>3, <3>4 DEF Bijection, Injection, Surjection, IsInjective
    <2> HIDE DEF g
    <2>3. ExistsBijection(Slots(cells), found)
      BY <2>2 DEF ExistsBijection
    <2> QED BY <2>1, <2>3, FS_Bijection
  <1>9. ASSUME NEW x \in found PROVE Means(x, cells[x.slot])
    <2>1. PICK a \in Slots(cells) : x = Got(a)
      BY <1>6
    <2>2. x.slot = a
      BY <1>3, <2>1
    <2>3. Resolves(cells[a]) /\ Tells(x, cells[a])
      BY <1>4, <1>5, <2>1
    <2>4. Means(x, cells[a])
      BY <2>3, TellsMeans
    <2> QED BY <2>2, <2>4
  <1> QED BY <1>7, <1>8, <1>9

(* The slots are the resolvable cells beside another one.                  *)
LEMMA SlotsAre ==
    ASSUME NEW len \in Nat, NEW cells, DOMAIN cells = Cells(0, len),
           NEW other, \A a \in Cells(0, len) : other[a] = cells[a]
    PROVE  {a \in Cells(0, len) :
              /\ Exported(other[a])
              /\ \E b \in {a - Ptr, a + Ptr} \cap Cells(0, len) : Exported(other[b])} = Slots(cells)
  <1>1. ASSUME NEW a \in Cells(0, len)
        PROVE  a \in Slots(cells) <=>
                 /\ Exported(other[a])
                 /\ \E b \in {a - Ptr, a + Ptr} \cap Cells(0, len) : Exported(other[b])
    <2>1. Exported(other[a]) <=> Resolves(cells[a])
      BY ExportedResolves
    <2>2. ASSUME NEW b \in Neighbours(a, len) PROVE Exported(other[b]) <=> Resolves(cells[b])
      <3>1. b \in Cells(0, len)
        BY DEF Neighbours
      <3>2. other[b] = cells[b]
        BY <3>1
      <3> QED BY <3>2, ExportedResolves
    <2>3. a \in Slots(cells) <=>
            Resolves(cells[a]) /\ \E b \in Neighbours(a, len) : Resolves(cells[b])
      BY RunIs DEF Slots
    <2>4. (\E b \in Neighbours(a, len) : Resolves(cells[b])) <=>
            (\E b \in Neighbours(a, len) : Exported(other[b]))
      BY <2>2
    <2> QED BY <2>1, <2>3, <2>4 DEF Neighbours
  <1>2. Slots(cells) \subseteq Cells(0, len)
    BY DEF Slots
  <1> QED BY <1>1, <1>2

(* The artifact carries the section, before and after its entry is set.    *)
LEMMA RebuiltCarries ==
    ASSUME RebuildInv, AllRead, SizeStable, NEW h \in Heads, Loadable(h), h.imports = 0,
           Descriptors(Pointers) # <<>>, HasSlack(MemoryAlign(h)), NEW f \in Entering(h)
    PROVE  /\ Carries(f, MemoryAlign(h), Descriptors(Pointers))
           /\ \A a \in Cells(0, soi) : f.cells[a] = buf.cells[a]
  <1> DEFINE M == MemoryAlign(h)
             ds == Descriptors(Pointers)
             p == Plain(h)
             r == RebuildImports(p)
             idata == Idata(M, ds)
             rva == RoundUp(h.soi, h.align)
             size == idata.size
             dir == idata.dirSize
  <1>1. /\ IsArtifact(r) /\ size \in Nat /\ dir \in Nat /\ idata.rva = rva
        /\ Extended(r, h, size, dir) /\ r.objects = Placed(p, idata)
    BY RebuiltIs
  <1>2. /\ M.soi = h.soi /\ M.align = h.align /\ p.len = soi /\ p.head = M
    BY PlainIs DEF AsRead
  <1>3. /\ h \in Seen /\ h.soi = soi /\ soi \in Nat /\ h.align \in Nat \ {0}
        /\ DOMAIN buf.cells = Cells(0, soi)
    BY HeadFits DEF Heads, SizeStable, Seen
  <1>4. rva \in Nat /\ soi <= rva
    BY <1>3, RoundUpBounds
  <1>5. ds \in Seq(Descs)
    BY PointersAre, DescriptorsAre
  <1>6. f \in Entered(h) /\ (f = r \/ f = [r EXCEPT !.head.entry = scenario.oep])
    BY DEF Entering, Resolved, Entered, Imaged
  <1>7. Shaped(f, h)
    BY <1>6, ArtifactShaped
  <1>8. f.objects = r.objects /\ Extended(f, h, size, dir)
    <2> HIDE DEF r, size, dir
    <2>1. CASE f = r
      BY <1>1, <2>1
    <2>2. CASE f = [r EXCEPT !.head.entry = scenario.oep]
      <3>1. /\ f.len = r.len /\ f.cells = r.cells /\ f.objects = r.objects
            /\ f.head.soi = r.head.soi /\ f.head.hsize = r.head.hsize
            /\ f.head.imports = r.head.imports /\ f.head.importSize = r.head.importSize
            /\ f.head.secs = r.head.secs
        BY <1>1, <2>2, EntryIs
      <3> QED BY <1>1, <3>1 DEF Extended
    <2> QED BY <1>6, <2>1, <2>2
  <1> HIDE DEF r
  <1>9. Parted(idata.objects) /\ Inside(idata.objects, rva, rva + size)
    <2>1. rva = RoundUp(M.soi, M.align)
      BY <1>2
    <2> HIDE DEF rva, ds, M
    <2> QED BY <1>4, <1>5, <2>1, IdataParted
  <1> HIDE DEF M, ds, size, dir, rva, p
  <1>10. f.objects = idata.objects
    <2> HIDE DEF idata
    <2>1. Placed(p, idata) = idata.objects
      BY <1>1, <1>2, <1>3, <1>4, <1>9, PlacedAre DEF size
    <2> QED BY <1>1, <1>8, <2>1
  <1> HIDE DEF idata
  <1>11. ASSUME NEW x \in f.objects PROVE Backed(f, x[1]) /\ Offset(f, x[1]) = x[1]
    <2>1. x[1] \in Nat /\ rva <= x[1] /\ x[1] < rva + size
      BY <1>9, <1>10 DEF Inside
    <2> QED BY <1>1, <1>7, <1>8, <2>1, LastBacked DEF rva
  <1>12. Addressed(f)
    <2>1. IsFiniteSet(f.objects)
      <3>1. rva + size \in Nat
        BY <1>1, <1>4
      <3> QED BY <1>4, <1>9, <1>10, <3>1, PartedFinite
    <2> QED BY <1>9, <1>10, <1>11, <2>1 DEF Addressed
  <1>13. f.head.imports = RoundUp(M.soi, M.align)
    BY <1>2, <1>8 DEF Extended
  <1>14. ASSUME NEW a \in Cells(0, soi) PROVE f.cells[a] = buf.cells[a]
    <2> DEFINE end == RoundUp(h.soi, h.align) + RoundUp(size, h.align)
    <2>1. RoundUp(size, h.align) \in Nat
      BY <1>1, <1>3, RoundUpBounds
    <2>2. soi <= end /\ end \in Nat
      BY <1>3, <1>4, <2>1 DEF rva
    <2>3. f.cells = [o \in Cells(0, end) |-> IF o \in DOMAIN buf.cells THEN buf.cells[o] ELSE 0]
      BY <1>8 DEF Extended
    <2> HIDE DEF end
    <2>4. a \in Cells(0, end)
      BY <1>3, <2>2, CellsAre
    <2> QED BY <1>3, <2>3, <2>4
  <1> QED BY <1>10, <1>12, <1>13, <1>14 DEF Carries, idata, M, ds

LEMMA RecoveredNow ==
    ASSUME RebuildInv, MainTrue, AllLoadable, OrdinalsFit
    PROVE  ImportsRecovered
  <1> SUFFICES ASSUME Rebuildable PROVE ImportsRecovered
    BY DEF ImportsRecovered
  <1> DEFINE cells == Pointers
             ds == Descriptors(cells)
             whole == {a \in Cells(0, soi) : a + Ptr <= soi}
             slots == {a \in whole :
                         /\ Exported(file.cells[a])
                         /\ \E b \in {a - Ptr, a + Ptr} \cap whole : Exported(file.cells[b])}
             found == Recovered(file)
  <1>1. /\ stage \in {"entry", "done"} /\ SizeStable
        /\ \A h \in Seen : h.imports = 0 /\ SectionHeaderEnd(Len(h.secs) + 1) <= h.align
    BY DEF Rebuildable, Seen
  <1>2. AllRead
    BY <1>1 DEF RebuildInv, FileTrue, Made
  <1>3. PICK h \in Heads : file \in Entering(h)
    BY <1>1 DEF MainTrue, Rebuildable, Entering
  <1>4. h \in Seen /\ Loadable(h) /\ h.imports = 0 /\ HasSlack(MemoryAlign(h))
    <2>1. h \in Seen
      BY DEF Heads
    <2>2. SectionHeaderEnd(Len(h.secs) + 1) <= h.align
      BY <1>1, <2>1
    <2>3. MemoryAlign(h).hsize = h.align /\ Len(MemoryAlign(h).secs) = Len(h.secs)
      BY <1>2, PlainIs
    <2> QED BY <1>1, <2>1, <2>2, <2>3 DEF AllLoadable, HasSlack
  <1>5. PICK w \in Nat : DOMAIN cells = Cells(0, w) /\ whole = Cells(0, w)
    BY <1>2, PointersAre
  <1>a. \A a \in Cells(0, w) : a \in Cells(0, soi) /\ cells[a] = buf.cells[a]
    BY <1>2, <1>5, PointersAre
  <1> HIDE DEF whole
  <1>6. ListsAll(ds, cells) /\ ds \in Seq(Descs)
    BY <1>5, DescriptorsList, DescriptorsAre
  <1>7. CASE ds = <<>>
    <2>1. Slots(cells) = {}
      BY <1>6, <1>7 DEF ListsAll
    <2>2. Resolved(h) = Plain(h)
      <3>1. WholeCells(Plain(h)) = cells
        BY <1>2, PointersAre
      <3> QED BY <1>4, <1>7, <3>1 DEF Resolved, RebuildImports
    <2>3. /\ file.objects = {} /\ file.head.imports = 0
          /\ file.cells = buf.cells
      <3> DEFINE p == Plain(h)
      <3>1. IsArtifact(p) /\ p.objects = {} /\ p.cells = buf.cells /\ p.head.imports = 0
        BY <1>2, <1>4, PlainIs DEF AsRead
      <3> HIDE DEF p
      <3>2. file = p \/ file = [p EXCEPT !.head.entry = scenario.oep]
        BY <1>3, <2>2 DEF Entering, p
      <3> HIDE DEF cells
      <3>3. file.objects = p.objects /\ file.cells = p.cells /\ file.head.imports = p.head.imports
        <4>1. CASE file = p
          BY <4>1
        <4>2. CASE file = [p EXCEPT !.head.entry = scenario.oep]
          BY <3>1, <4>2, EntryIs
        <4> QED BY <3>2, <4>1, <4>2
      <3> QED BY <3>1, <3>3
    <2>4. slots = {}
      BY <1>5, <1>a, <2>1, <2>3, SlotsAre
    <2> HIDE DEF slots
    <2> QED BY <2>3, <2>4 DEF ImportsRecovered, slots, whole
  <1>8. CASE ds # <<>>
    <2> DEFINE M == MemoryAlign(h)
    <2>1. Carries(file, M, ds) /\ \A a \in Cells(0, w) : file.cells[a] = cells[a]
      BY <1>1, <1>2, <1>3, <1>4, <1>8, <1>a, RebuiltCarries
    <2>2. RoundUp(M.soi, M.align) \in Nat
      <3>1. M.soi = h.soi /\ M.align = h.align
        BY <1>2, PlainIs
      <3>2. h.soi \in Nat /\ h.align \in Nat \ {0}
        BY <1>2, HeadFits
      <3> HIDE DEF M
      <3> QED BY <3>1, <3>2, RoundUpBounds
    <2> HIDE DEF M, ds, cells
    <2>3. found = Listed(ds)
      BY <1>6, <2>1, <2>2, RecoveredIs
    <2>4. slots = Slots(cells)
      BY <1>5, <2>1, SlotsAre
    <2> HIDE DEF found, slots
    <2>5. /\ {x.slot : x \in found} = Slots(cells)
          /\ Cardinality(found) = Cardinality(Slots(cells))
          /\ \A x \in found : Means(x, cells[x.slot])
      BY <1>5, <1>6, <2>3, ImportsListed
    <2>6. ASSUME NEW x \in found PROVE Means(x, file.cells[x.slot])
      <3>1. x.slot \in Slots(cells)
        BY <2>5
      <3>2. x.slot \in Cells(0, w)
        BY <1>5, <3>1 DEF Slots
      <3> QED BY <2>1, <2>5, <3>2
    <2>7. slots # {}
      BY <1>6, <1>8, <2>4 DEF ListsAll
    <2> QED BY <2>4, <2>5, <2>6, <2>7 DEF ImportsRecovered, slots, found, whole
  <1> QED BY <1>7, <1>8

-----------------------------------------------------------------------------
(* In the dump of the program itself, made from headers that Windows loads *)
(* and that name no imports and leave room for a section, the directory    *)
(* that the dump builds leads a loader to exactly the pointers that stand  *)
(* beside another one, each once and under a name or ordinal of the module *)
(* that the code prefers for its address; and without such a pointer       *)
(* nothing is added (imports.rs scan_iat, group, build_idata,              *)
(* write_section, exports.rs ExportCatalog).                               *)
THEOREM ImportsAreRecovered ==
    ASSUME OrdinalsFit PROVE RebuildSpec => [](AllLoadable => ImportsRecovered)
  <1>1. RebuildInit => MainTrue
    BY DEF RebuildInit, MainTrue
  <1>2. RebuildInv /\ MainTrue => (AllLoadable => ImportsRecovered)
    BY RecoveredNow
  <1> QED BY <1>1, <1>2, MainKeeps, RebuildInvariant, PTL DEF RebuildSpec
=============================================================================
