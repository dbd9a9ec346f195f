--------------------------- MODULE DiscoveryProofs ---------------------------
(***************************************************************************)
(* Theorems about Discovery, for every layout of the address space, every  *)
(* loader list and any number of changes of the target.                    *)
(***************************************************************************)
EXTENDS Discovery, TLAPS, FiniteSetTheorems, SequenceTheorems, WellFoundedInduction

-----------------------------------------------------------------------------
(* Pages and areas.                                                        *)

LEMMA AreaPages ==
    ASSUME NEW a \in Areas
    PROVE  /\ First[a] \in Nat \ {0} /\ Size[a] \in Nat \ {0}
           /\ First[a] \in PagesOf(a) /\ PagesOf(a) \subseteq Pages
  BY DiscoveryAssumption DEF PagesOf, Pages

(* No page is in two areas.                                                *)
LEMMA OneArea ==
    ASSUME NEW m \in SUBSET Areas, NEW a \in m, NEW p \in PagesOf(a)
    PROVE  (CHOOSE b \in m : p \in PagesOf(b)) = a
  <1> DEFINE c == CHOOSE b \in m : p \in PagesOf(b)
  <1>1. c \in m /\ p \in PagesOf(c)
    OBVIOUS
  <1>2. c \in Areas /\ a \in Areas
    BY <1>1
  <1>3. \A b \in Areas : b # a => PagesOf(b) \cap PagesOf(a) = {}
    BY DiscoveryAssumption
  <1> QED BY <1>1, <1>2, <1>3

LEMMA AreaAtIs ==
    ASSUME mapped \in SUBSET Areas, NEW p
    PROVE  /\ \A a \in mapped : p \in PagesOf(a) => AreaAt(p) = a
           /\ AreaAt(p) # Free => AreaAt(p) \in mapped /\ p \in PagesOf(AreaAt(p))
  BY OneArea DEF AreaAt

(* The least element of a set of numbers.                                  *)
LEMMA Smallest ==
    ASSUME NEW T \in SUBSET Nat, T # {}
    PROVE  \E n \in T : \A m \in T : n <= m
  <1>1. \E n \in T : \A m \in T : <<m, n>> \notin OpToRel(<, Nat)
    BY NatLessThanWellFounded, WFMin
  <1>2. ASSUME NEW m \in Nat, NEW n \in Nat, m < n PROVE <<m, n>> \in OpToRel(<, Nat)
    BY <1>2, Zenon DEF OpToRel
  <1>3. PICK n \in T : \A m \in T : <<m, n>> \notin OpToRel(<, Nat)
    BY <1>1, Zenon
  <1>4. \A m \in T : ~(m < n)
    BY <1>2, <1>3, Zenon
  <1> QED BY <1>4

(* The length of a region is that of the longest run of like pages.        *)
LEMMA RunIs ==
    ASSUME NEW p \in Pages
    PROVE  LET n == RunLength(p)
           IN  /\ n \in 1 .. LastPage
               /\ p + n - 1 <= LastPage
               /\ \A k \in 0 .. (n - 1) : Alike(p, p + k)
  <1> DEFINE Ends(n) == p + n > LastPage \/ ~Alike(p, p + n)
             T == {n \in Nat : n # 0 /\ Ends(n)}
  <1>1. p \in Nat /\ LastPage \in Nat /\ 1 <= p /\ p <= LastPage
    BY DiscoveryAssumption DEF Pages
  <1>2. LastPage \in T
    BY <1>1
  <1>3. PICK n \in T : \A m \in T : n <= m
    BY <1>2, Smallest
  <1>4. n \in 1 .. LastPage
    BY <1>1, <1>2, <1>3
  <1>5. \A k \in 0 .. (n - 1) : k = 0 \/ (p + k <= LastPage /\ Alike(p, p + k))
    BY <1>1, <1>3, <1>4
  <1>6. Alike(p, p + 0)
    BY <1>1 DEF Alike
  <1>7. /\ n \in 1 .. LastPage
        /\ p + n - 1 <= LastPage
        /\ \A k \in 0 .. (n - 1) : Alike(p, p + k)
        /\ p + n <= LastPage => ~Alike(p, p + n)
    <2>1. p + (n - 1) <= LastPage
      BY <1>1, <1>4, <1>5
    <2> QED BY <1>1, <1>3, <1>4, <1>5, <1>6, <2>1
  <1> HIDE DEF Ends, T
  <1> QED BY <1>7 DEF RunLength

-----------------------------------------------------------------------------
(* The state has its type.                                                 *)

LEMMA LinksType ==
    LinksOf(Loaded) \in [Areas \cup {Anchor} -> Areas \cup {Anchor, Null}]
  <1> DEFINE at(e) == {i \in DOMAIN Loaded : Loaded[i] = e}
             place(e) == IF e = Anchor THEN 0 ELSE CHOOSE k \in at(e) : TRUE
  <1>1. Len(Loaded) \in Nat /\ DOMAIN Loaded = 1 .. Len(Loaded)
    BY DiscoveryAssumption, LenProperties
  <1>2. \A i \in 1 .. Len(Loaded) : Loaded[i] \in Areas
    BY DiscoveryAssumption, ElementOfSeq
  <1> SUFFICES ASSUME NEW e \in Areas \cup {Anchor}
               PROVE  (IF e # Anchor /\ at(e) = {} THEN Null
                       ELSE IF place(e) = Len(Loaded) THEN Anchor ELSE Loaded[place(e) + 1])
                        \in Areas \cup {Anchor, Null}
    BY DEF LinksOf
  <1>3. CASE e # Anchor /\ at(e) = {}
    BY <1>3
  <1>4. CASE e = Anchor \/ at(e) # {}
    <2>1. place(e) \in 0 .. Len(Loaded)
      BY <1>1, <1>4
    <2>2. place(e) # Len(Loaded) => Loaded[place(e) + 1] \in Areas
      BY <1>1, <1>2, <2>1
    <2> QED BY <1>4, <2>2
  <1> QED BY <1>3, <1>4

LEMMA InitTyped == Init => DiscoveryTypeOK
  <1> SUFFICES ASSUME Init PROVE DiscoveryTypeOK
    OBVIOUS
  <1>1. mapped \in SUBSET Areas /\ Listed \subseteq Images /\ Listed \subseteq mapped
    <2>1. Listed \subseteq Images
      BY DiscoveryAssumption, LenProperties, ElementOfSeq DEF Listed
    <2> QED BY <2>1 DEF Init
  <1>2. exec \in SUBSET Pages
    BY <1>1, AreaPages DEF Init
  <1>3. regions \in Seq(RegionRecords) /\ loader \in Seq(Images) /\ hidden \in Seq(Areas)
    BY EmptySeq DEF Init
  <1>4. flink \in [Areas \cup {Anchor} -> Areas \cup {Anchor, Null}]
    BY LinksType DEF Init
  <1>5. cursor \in 1 .. (LastPage + 1) /\ steps \in 0 .. MaxModules /\ changes \in 0 .. MaxChanges
    BY DiscoveryAssumption DEF Init
  <1>6. /\ header \in SUBSET mapped /\ linked \in SUBSET (Images \cap mapped)
        /\ live \in SUBSET Images /\ wiped \in SUBSET Images
        /\ chunks \in SUBSET RegionRecords
        /\ gone \in BOOLEAN /\ stage = "walk"
    BY <1>1 DEF Init
  <1> QED BY <1>1, <1>2, <1>3, <1>4, <1>5, <1>6 DEF DiscoveryTypeOK

(* The part of the type that the target can disturb.                       *)
TargetOK ==
    /\ mapped \in SUBSET Areas /\ exec \in SUBSET Pages /\ header \in SUBSET mapped
    /\ linked \in SUBSET (Images \cap mapped)
    /\ flink \in [Areas \cup {Anchor} -> Areas \cup {Anchor, Null}]
    /\ live \in SUBSET Images /\ wiped \in SUBSET Images
    /\ gone \in BOOLEAN

LEMMA TargetTyped ==
    ASSUME DiscoveryTypeOK, Target
    PROVE  DiscoveryTypeOK'
  <1>1. TargetOK
    BY DEF DiscoveryTypeOK, TargetOK
  <1>2. Changes
    BY DEF Target, Exit, Map, Unmap, Protect, RewriteHeader, Link, Unlink, FreeEntry,
           WipeBase, Tamper
  <1>3. changes' \in 0 .. MaxChanges
    BY <1>2, DiscoveryAssumption DEF DiscoveryTypeOK, Changes
  <1>4. UNCHANGED <<stage, cursor, regions, steps, loader, hidden, chunks>>
    BY <1>2 DEF Changes, scan
  <1>5. TargetOK'
    <2> USE <1>1, DiscoveryAssumption DEF TargetOK
    <2>1. CASE Exit
      BY <2>1 DEF Exit
    <2>a. SUFFICES ASSUME NEW a \in Areas,
                          \/ Map(a) \/ Unmap(a) \/ Protect(a) \/ RewriteHeader(a)
                          \/ Link(a) \/ Unlink(a) \/ FreeEntry(a) \/ WipeBase(a) \/ Tamper(a)
                   PROVE  TargetOK'
      BY <2>1 DEF Target
    <2>2. CASE Map(a)
      BY <2>2, AreaPages DEF Map
    <2>3. CASE Unmap(a)
      BY <2>3 DEF Unmap
    <2>4. CASE Protect(a)
      BY <2>4, AreaPages DEF Protect
    <2>5. CASE RewriteHeader(a)
      BY <2>5 DEF RewriteHeader
    <2>6. CASE Link(a)
      BY <2>6 DEF Link
    <2>7. CASE Unlink(a)
      <3>1. PICK e \in linked \cup {Anchor} : flink' = [flink EXCEPT ![e] = flink[a]]
        BY <2>7 DEF Unlink
      <3>2. flink[a] \in Areas \cup {Anchor, Null}
        OBVIOUS
      <3>3. flink' \in [Areas \cup {Anchor} -> Areas \cup {Anchor, Null}]
        BY <3>1, <3>2
      <3> QED BY <2>7, <3>3 DEF Unlink
    <2>8. CASE FreeEntry(a)
      BY <2>8 DEF FreeEntry
    <2>9. CASE WipeBase(a)
      BY <2>9 DEF WipeBase
    <2>10. CASE Tamper(a)
      BY <2>10 DEF Tamper
    <2> QED BY <2>a, <2>2, <2>3, <2>4, <2>5, <2>6, <2>7, <2>8, <2>9, <2>10
  <1>6. UNCHANGED Len(regions)
    BY <1>4
  <1> QED BY <1>3, <1>4, <1>5, <1>6 DEF DiscoveryTypeOK, TargetOK

(* A committed region is of its kind, and lies in its allocation.          *)
LEMMA RegionType ==
    ASSUME DiscoveryTypeOK, NEW p \in Pages, AreaAt(p) # Free
    PROVE  /\ Region(p) \in RegionRecords
           /\ Region(p).base = p /\ Region(p).size = RunLength(p)
           /\ Region(p).alloc = AreaAt(p) /\ (Region(p).exec <=> p \in exec)
           /\ Region(p).alloc \in mapped
  <1>1. AreaAt(p) \in mapped /\ mapped \subseteq Areas
    BY AreaAtIs DEF DiscoveryTypeOK
  <1>2. RunLength(p) \in Pages
    BY RunIs DEF Pages
  <1>3. (p \in exec) \in BOOLEAN
    OBVIOUS
  <1>4. Region(p) \in RegionRecords
    BY <1>1, <1>2, <1>3, Zenon DEF Region, RegionRecords
  <1> QED BY <1>1, <1>4 DEF Region

(* The next address of the walk.                                           *)
LEMMA NextAddress ==
    ASSUME DiscoveryTypeOK, Walk
    PROVE  cursor \in Pages /\ cursor' \in 1 .. (LastPage + 1)
  <1>1. cursor \in Pages
    BY DiscoveryAssumption DEF Walk, Pages, DiscoveryTypeOK
  <1>2. RunLength(cursor) \in 1 .. LastPage /\ cursor + RunLength(cursor) - 1 <= LastPage
    BY <1>1, RunIs
  <1>3. cursor' = cursor + RunLength(cursor)
    BY DEF Walk
  <1>4. LastPage \in Nat
    BY DiscoveryAssumption
  <1> QED BY <1>1, <1>2, <1>3, <1>4 DEF Pages

LEMMA ScanTyped ==
    ASSUME DiscoveryTypeOK, Scan
    PROVE  DiscoveryTypeOK'
  <1> USE DiscoveryAssumption DEF DiscoveryTypeOK, target
  <1>1. CASE Walk
    <2>3. cursor \in Pages /\ cursor' \in 1 .. (LastPage + 1)
      BY <1>1, NextAddress
    <2>4. regions' \in Seq(RegionRecords)
      BY <1>1, <2>3, RegionType DEF Walk
    <2> QED BY <1>1, <2>3, <2>4 DEF Walk
  <1>2. CASE WalkEnds
    BY <1>2 DEF WalkEnds
  <1>3. CASE ReadPeb
    <2>1. Len(regions) \in Nat
      BY LenProperties
    <2> QED BY <1>3, <2>1 DEF ReadPeb
  <1>8. CASE ReadLdr
    BY <1>8 DEF ReadLdr
  <1>4. CASE ReadEntry
    BY <1>4 DEF ReadEntry, MoreEntries, EntryReadable
  <1>5. CASE ListEnds
    <2>1. Len(regions) \in Nat
      BY LenProperties
    <2> QED BY <1>5, <2>1 DEF ListEnds
  <1>6. CASE Probe
    <2>1. Len(regions) \in Nat /\ cursor \in 1 .. Len(regions)
      BY <1>6, LenProperties DEF Probe
    <2>2. regions[cursor].alloc \in Areas
      <3>1. regions[cursor] \in RegionRecords
        BY <2>1, ElementOfSeq
      <3> QED BY <3>1 DEF RegionRecords
    <2>3. hidden' \in Seq(Areas)
      BY <1>6, <2>2 DEF Probe
    <2> QED BY <1>6, <2>1, <2>3 DEF Probe
  <1>7. CASE FindLooseCode
    <2>1. DOMAIN regions = 1 .. Len(regions)
      BY LenProperties
    <2>2. \A i \in DOMAIN regions : regions[i] \in RegionRecords
      BY <2>1, ElementOfSeq
    <2> QED BY <1>7, <2>2 DEF FindLooseCode
  <1> QED BY <1>1, <1>2, <1>3, <1>4, <1>5, <1>6, <1>7, <1>8 DEF Scan

LEMMA StutterTyped ==
    ASSUME DiscoveryTypeOK, UNCHANGED vars
    PROVE  DiscoveryTypeOK'
  BY DEF DiscoveryTypeOK, vars, target, scan, history

(***************************************************************************)
(* The regions, modules and chunks of a report are of the kinds promised.  *)
(***************************************************************************)
THEOREM ReportTyped == DiscoverySpec => []DiscoveryTypeOK
  <1>1. DiscoveryTypeOK /\ [Next]_vars => DiscoveryTypeOK'
    BY ScanTyped, TargetTyped, StutterTyped DEF Next, Finished
  <1> QED BY InitTyped, <1>1, PTL DEF DiscoverySpec

-----------------------------------------------------------------------------
(* What the walk tells of a page, of the pages it has come to.             *)

Told(p) ==
    IF AreaAt(p) = Free THEN RegionsOf(p) = {}
    ELSE \E i \in DOMAIN regions :
            /\ RegionsOf(p) = {i}
            /\ regions[i].alloc = AreaAt(p)
            /\ regions[i].exec <=> p \in exec

Walked == IF stage = "walk" THEN 1 .. (cursor - 1) ELSE Pages

Truthful == ~gone => \A p \in Walked \ dirty : Told(p)

(* A region lies behind the walk, and in its allocation.                   *)
Behind ==
    \A i \in DOMAIN regions :
        /\ RegionPages(regions[i]) \subseteq Walked
        /\ RegionPages(regions[i]) \subseteq PagesOf(regions[i].alloc)

WalkInv == DiscoveryTypeOK /\ Truthful /\ Behind

LEMMA RegionElement ==
    ASSUME DiscoveryTypeOK
    PROVE  /\ Len(regions) \in Nat /\ DOMAIN regions = 1 .. Len(regions)
           /\ \A i \in DOMAIN regions :
                /\ regions[i] \in RegionRecords
                /\ regions[i].base \in Pages /\ regions[i].size \in Pages
                /\ regions[i].alloc \in Areas /\ regions[i].exec \in BOOLEAN
  <1>1. Len(regions) \in Nat /\ DOMAIN regions = 1 .. Len(regions)
    BY LenProperties DEF DiscoveryTypeOK
  <1>2. \A i \in DOMAIN regions : regions[i] \in RegionRecords
    BY <1>1, ElementOfSeq DEF DiscoveryTypeOK
  <1> QED BY <1>1, <1>2 DEF RegionRecords

(* The area of a page depends on the areas that hold it alone.             *)
LEMMA SameArea ==
    ASSUME DiscoveryTypeOK, DiscoveryTypeOK', NEW p,
           \A a \in Areas : p \in PagesOf(a) => (a \in mapped' <=> a \in mapped)
    PROVE  AreaAt(p)' = AreaAt(p)
  <1>1. mapped \in SUBSET Areas /\ mapped' \in SUBSET Areas
    BY DEF DiscoveryTypeOK
  <1>2. CASE \E a \in mapped : p \in PagesOf(a)
    <2>1. PICK a \in mapped : p \in PagesOf(a)
      BY <1>2
    <2>2. a \in mapped'
      BY <1>1, <2>1
    <2>3. AreaAt(p) = a
      BY <1>1, <2>1, OneArea DEF AreaAt
    <2>4. AreaAt(p)' = a
      BY <1>1, <2>1, <2>2, OneArea DEF AreaAt
    <2> QED BY <2>3, <2>4
  <1>3. CASE ~ \E a \in mapped : p \in PagesOf(a)
    <2>1. ~ \E a \in mapped' : p \in PagesOf(a)
      BY <1>1, <1>3
    <2> QED BY <1>3, <2>1 DEF AreaAt
  <1> QED BY <1>2, <1>3

(* The target changes what is true of a page only when the page is dirty.  *)
LEMMA TargetSpares ==
    ASSUME DiscoveryTypeOK, Target, NEW p \in Pages \ dirty'
    PROVE  /\ p \notin dirty
           /\ AreaAt(p)' = AreaAt(p)
           /\ p \in exec' <=> p \in exec
  <1>1. DiscoveryTypeOK'
    BY TargetTyped
  <1>2. /\ p \notin dirty /\ (p \in exec' <=> p \in exec)
        /\ \A b \in Areas : p \in PagesOf(b) => (b \in mapped' <=> b \in mapped)
    <2>1. CASE Exit
      BY <2>1 DEF Exit, history
    <2> SUFFICES ASSUME NEW a \in Areas,
                        \/ Map(a) \/ Unmap(a) \/ Protect(a) \/ RewriteHeader(a)
                        \/ Link(a) \/ Unlink(a) \/ FreeEntry(a) \/ WipeBase(a) \/ Tamper(a)
                 PROVE  /\ p \notin dirty /\ (p \in exec' <=> p \in exec)
                        /\ \A b \in Areas : p \in PagesOf(b) => (b \in mapped' <=> b \in mapped)
      BY <2>1 DEF Target
    <2>2. CASE Map(a)
      BY <2>2 DEF Map
    <2>3. CASE Unmap(a)
      BY <2>3 DEF Unmap
    <2>4. CASE Protect(a)
      BY <2>4 DEF Protect
    <2>5. CASE RewriteHeader(a)
      BY <2>5 DEF RewriteHeader
    <2>6. CASE Link(a) \/ Unlink(a) \/ FreeEntry(a) \/ WipeBase(a) \/ Tamper(a)
      BY <2>6 DEF Link, Unlink, FreeEntry, WipeBase, Tamper
    <2> QED BY <2>2, <2>3, <2>4, <2>5, <2>6
  <1>3. AreaAt(p)' = AreaAt(p)
    BY <1>1, <1>2, SameArea
  <1> QED BY <1>2, <1>3

LEMMA TargetLeavesScan ==
    ASSUME Target
    PROVE  /\ UNCHANGED scan
           /\ gone => gone'
           /\ stage \notin {"done", "failed"}
  BY DEF Target, Changes, Exit, Map, Unmap, Protect, RewriteHeader, Link, Unlink, FreeEntry,
         WipeBase, Tamper

LEMMA TargetKeepsWalk ==
    ASSUME WalkInv, Target
    PROVE  WalkInv'
  <1>1. DiscoveryTypeOK /\ DiscoveryTypeOK'
    BY TargetTyped DEF WalkInv
  <1>2. UNCHANGED <<stage, cursor, regions>> /\ (gone => gone')
    BY TargetLeavesScan DEF scan
  <1>3. Behind'
    BY <1>2 DEF WalkInv, Behind, Walked, RegionPages
  <1>4. ASSUME ~gone', NEW p \in Walked' \ dirty' PROVE Told(p)'
    <2>1. p \in Walked /\ p \in Pages
      <3>1. p \in Walked
        BY <1>2, <1>4 DEF Walked
      <3>2. stage = "walk" => cursor \in 1 .. (LastPage + 1)
        BY <1>1 DEF DiscoveryTypeOK
      <3>3. LastPage \in Nat
        BY DiscoveryAssumption
      <3> QED BY <3>1, <3>2, <3>3 DEF Walked, Pages
    <2>2. /\ p \notin dirty /\ AreaAt(p)' = AreaAt(p)
          /\ p \in exec' <=> p \in exec
      BY <1>1, <1>4, <2>1, TargetSpares
    <2>3. Told(p)
      BY <1>2, <1>4, <2>1, <2>2 DEF WalkInv, Truthful
    <2>4. RegionsOf(p)' = RegionsOf(p)
      BY <1>2 DEF RegionsOf, RegionPages
    <2> QED BY <1>2, <2>2, <2>3, <2>4 DEF Told
  <1> QED BY <1>1, <1>3, <1>4 DEF WalkInv, Truthful

(* The pages of a region are alike, and all in its allocation.             *)
LEMMA RunAlike ==
    ASSUME DiscoveryTypeOK, NEW p \in Pages, NEW q \in p .. (p + RunLength(p) - 1)
    PROVE  q \in Pages /\ AreaAt(q) = AreaAt(p) /\ (q \in exec <=> p \in exec)
  <1>1. p \in Nat /\ 1 <= p /\ LastPage \in Nat
    BY DiscoveryAssumption DEF Pages
  <1>2. /\ RunLength(p) \in 1 .. LastPage
        /\ p + RunLength(p) - 1 <= LastPage
        /\ \A k \in 0 .. (RunLength(p) - 1) : Alike(p, p + k)
    BY RunIs
  <1>3. q - p \in 0 .. (RunLength(p) - 1) /\ p + (q - p) = q
    BY <1>1, <1>2
  <1>4. Alike(p, q)
    BY <1>2, <1>3
  <1>5. q \in Pages
    BY <1>1, <1>2 DEF Pages
  <1> QED BY <1>4, <1>5 DEF Alike

LEMMA WalkKeeps ==
    ASSUME WalkInv, Walk
    PROVE  WalkInv'
  <1> DEFINE n == RunLength(cursor)
             new == Region(cursor)
             span == cursor .. (cursor + n - 1)
             last == Len(regions) + 1
  <1>1. DiscoveryTypeOK /\ DiscoveryTypeOK' /\ Truthful /\ Behind
    BY ScanTyped DEF WalkInv, Scan
  <1>2. cursor \in Pages /\ cursor' = cursor + n /\ n \in 1 .. LastPage
    BY <1>1, NextAddress, RunIs DEF Walk
  <1>3. /\ stage = "walk" /\ stage' = "walk" /\ ~gone /\ ~gone'
        /\ mapped' = mapped /\ exec' = exec /\ dirty' = dirty
        /\ regions' = IF AreaAt(cursor) = Free THEN regions ELSE Append(regions, new)
    BY DEF Walk, target, history
  <1>4. /\ Walked = 1 .. (cursor - 1) /\ Walked' = Walked \cup span
        /\ Walked \cap span = {} /\ Walked \subseteq Pages /\ span \subseteq Pages
    <2>1. Walked = 1 .. (cursor - 1) /\ Walked' = 1 .. (cursor + n - 1)
      BY <1>2, <1>3, DiscoveryAssumption DEF Walked, Pages
    <2>2. cursor + n - 1 <= LastPage
      BY <1>2, RunIs
    <2> QED BY <1>2, <2>1, <2>2, DiscoveryAssumption DEF Pages
  <1>5. /\ Len(regions) \in Nat /\ DOMAIN regions = 1 .. Len(regions)
        /\ regions \in Seq(RegionRecords)
    BY <1>1, RegionElement DEF DiscoveryTypeOK
  <1>6. \A p : AreaAt(p)' = AreaAt(p)
    BY <1>3 DEF AreaAt
  <1>7. \A p \in span : AreaAt(p) = AreaAt(cursor) /\ (p \in exec <=> cursor \in exec)
    BY <1>1, <1>2, RunAlike
  <1>8. \A p \in span : RegionsOf(p) = {}
    BY <1>1, <1>4 DEF Behind, RegionsOf
  <1>9. CASE AreaAt(cursor) = Free
    <2>1. regions' = regions
      BY <1>3, <1>9
    <2>2. \A p : RegionsOf(p)' = RegionsOf(p)
      BY <2>1 DEF RegionsOf, RegionPages
    <2>3. \A p \in Walked : Told(p)' <=> Told(p)
      BY <1>3, <1>6, <2>1, <2>2 DEF Told
    <2>4. \A p \in span : Told(p)'
      BY <1>6, <1>7, <1>8, <1>9, <2>2 DEF Told
    <2>5. Truthful'
      BY <1>1, <1>3, <1>4, <2>3, <2>4 DEF Truthful
    <2>6. Behind'
      BY <1>1, <1>4, <2>1 DEF Behind, RegionPages
    <2> QED BY <1>1, <2>5, <2>6 DEF WalkInv
  <1>10. CASE AreaAt(cursor) # Free
    <2>1. /\ new \in RegionRecords /\ new.base = cursor /\ new.size = n
          /\ new.alloc = AreaAt(cursor) /\ (new.exec <=> cursor \in exec)
          /\ new.alloc \in mapped
      BY <1>1, <1>2, <1>10, RegionType
    <2>2. /\ Len(regions') = last /\ DOMAIN regions' = 1 .. last
          /\ \A i \in 1 .. Len(regions) : regions'[i] = regions[i]
          /\ regions'[last] = new
      BY <1>3, <1>5, <1>10, <2>1
    <2>3. RegionPages(new) = span
      BY <2>1 DEF RegionPages
    <2>. HIDE DEF span, new, n
    <2>11. \A p : RegionsOf(p)' = RegionsOf(p) \cup (IF p \in span THEN {last} ELSE {})
      <3>1. \A p : RegionsOf(p)' = {i \in 1 .. last : p \in RegionPages(regions'[i])}
        BY <2>2 DEF RegionsOf, RegionPages
      <3>2. \A p : RegionsOf(p) = {i \in 1 .. Len(regions) : p \in RegionPages(regions'[i])}
        BY <1>5, <2>2 DEF RegionsOf
      <3>3. 1 .. last = (1 .. Len(regions)) \cup {last}
        BY <1>5
      <3> QED BY <2>2, <2>3, <3>1, <3>2, <3>3
    <2>4. \A p \in Walked : RegionsOf(p)' = RegionsOf(p)
      BY <1>4, <2>11
    <2>5. \A p \in span : RegionsOf(p)' = {last}
      BY <1>8, <2>11
    <2>6. \A p \in Walked : Told(p) => Told(p)'
      <3>1. SUFFICES ASSUME NEW p \in Walked, Told(p) PROVE Told(p)'
        OBVIOUS
      <3>2. CASE AreaAt(p) = Free
        BY <1>6, <2>4, <3>1, <3>2 DEF Told
      <3>3. CASE AreaAt(p) # Free
        <4>1. PICK i \in DOMAIN regions :
                /\ RegionsOf(p) = {i} /\ regions[i].alloc = AreaAt(p)
                /\ regions[i].exec <=> p \in exec
          BY <3>1, <3>3 DEF Told
        <4>2. i \in DOMAIN regions' /\ regions'[i] = regions[i]
          BY <1>5, <2>2, <4>1
        <4> QED BY <1>3, <1>6, <2>4, <3>3, <4>1, <4>2 DEF Told
      <3> QED BY <3>2, <3>3
    <2>7. \A p \in span : Told(p)'
      <3>1. last \in DOMAIN regions'
        BY <1>5, <2>2
      <3> QED BY <1>3, <1>6, <1>7, <1>10, <2>1, <2>2, <2>5, <3>1 DEF Told
    <2>8. Truthful'
      BY <1>1, <1>3, <1>4, <2>6, <2>7 DEF Truthful
    <2>9. span \subseteq PagesOf(new.alloc)
      BY <1>1, <1>7, <1>10, <2>1, AreaAtIs DEF DiscoveryTypeOK
    <2>10. Behind'
      <3>1. \A i \in 1 .. last :
              /\ RegionPages(regions'[i]) \subseteq Walked'
              /\ RegionPages(regions'[i]) \subseteq PagesOf(regions'[i].alloc)
        <4>1. \A i \in 1 .. Len(regions) :
                /\ RegionPages(regions'[i]) \subseteq Walked'
                /\ RegionPages(regions'[i]) \subseteq PagesOf(regions'[i].alloc)
          BY <1>1, <1>4, <1>5, <2>2 DEF Behind
        <4>2. \A i \in 1 .. last : i \in 1 .. Len(regions) \/ i = last
          BY <1>5
        <4> QED BY <1>4, <2>2, <2>3, <2>9, <4>1, <4>2
      <3> QED BY <2>2, <3>1 DEF Behind, RegionPages
    <2> QED BY <1>1, <2>8, <2>10 DEF WalkInv
  <1> QED BY <1>9, <1>10

(* The rest of the scan leaves what the walk has told.                     *)
LEMMA ScanKeepsWalk ==
    ASSUME WalkInv,
           WalkEnds \/ ReadPeb \/ ReadLdr \/ ReadEntry \/ ListEnds \/ Probe \/ FindLooseCode
    PROVE  WalkInv'
  <1>1. DiscoveryTypeOK /\ DiscoveryTypeOK' /\ Truthful /\ Behind
    BY ScanTyped DEF WalkInv, Scan
  <1>2. /\ UNCHANGED <<regions, mapped, exec, gone, dirty>>
        /\ stage' # "walk"
        /\ stage = "walk" => gone \/ cursor > LastPage
    BY DEF WalkEnds, ReadPeb, ReadLdr, ReadEntry, ListEnds, Probe, FindLooseCode, target, history
  <1>3. /\ Walked \subseteq Pages /\ Walked' = Pages
        /\ gone \/ Walked = Pages
    <2>1. stage = "walk" => cursor \in 1 .. (LastPage + 1)
      BY <1>1 DEF DiscoveryTypeOK
    <2> QED BY <1>2, <2>1, DiscoveryAssumption DEF Walked, Pages
  <1>4. \A p : Told(p)' <=> Told(p)
    BY <1>2 DEF Told, AreaAt, RegionsOf, RegionPages
  <1>5. Truthful'
    BY <1>1, <1>2, <1>3, <1>4 DEF Truthful
  <1>6. Behind'
    BY <1>1, <1>2, <1>3 DEF Behind, RegionPages
  <1> QED BY <1>1, <1>5, <1>6 DEF WalkInv

LEMMA InitWalk == Init => WalkInv
  <1> SUFFICES ASSUME Init PROVE WalkInv
    OBVIOUS
  <1>1. DiscoveryTypeOK
    BY InitTyped
  <1>2. Walked = {} /\ DOMAIN regions = {}
    BY DEF Init, Walked
  <1> QED BY <1>1, <1>2 DEF WalkInv, Truthful, Behind

LEMMA NextWalk ==
    ASSUME WalkInv, [Next]_vars
    PROVE  WalkInv'
  <1>1. CASE Scan
    BY <1>1, WalkKeeps, ScanKeepsWalk DEF Scan
  <1>2. CASE Target
    BY <1>2, TargetKeepsWalk
  <1>3. CASE UNCHANGED vars
    <2>1. UNCHANGED <<stage, cursor, regions, mapped, exec, gone, dirty>>
      BY <1>3 DEF vars, target, scan, history
    <2>2. DiscoveryTypeOK'
      BY <1>3, StutterTyped DEF WalkInv
    <2>3. Walked' = Walked
      BY <2>1 DEF Walked
    <2>4. \A p : AreaAt(p)' = AreaAt(p) /\ RegionsOf(p)' = RegionsOf(p)
      BY <2>1 DEF AreaAt, RegionsOf, RegionPages
    <2>5. \A p : Told(p)' <=> Told(p)
      BY <2>1, <2>4 DEF Told
    <2>6. Truthful'
      BY <2>1, <2>3, <2>5 DEF WalkInv, Truthful
    <2>7. Behind'
      BY <2>1, <2>3 DEF WalkInv, Behind, RegionPages
    <2> QED BY <2>2, <2>6, <2>7 DEF WalkInv
  <1> QED BY <1>1, <1>2, <1>3 DEF Next, Finished

LEMMA SpecWalk == DiscoverySpec => []WalkInv
  BY InitWalk, NextWalk, PTL DEF DiscoverySpec

(***************************************************************************)
(* The region walk is not atomic, yet of every page that kept its mapping  *)
(* and protection it tells the truth (walk.rs), however often and whatever *)
(* else the target changes in between.                                     *)
(***************************************************************************)
THEOREM WalkTellsTheTruth == DiscoverySpec => []RegionsFaithful
  <1>1. WalkInv => RegionsFaithful
    BY DEF WalkInv, Truthful, Walked, Told, RegionsFaithful
  <1> QED BY <1>1, SpecWalk, PTL

-----------------------------------------------------------------------------
(* What has been probed, and what the probes have found.                   *)

Probed ==
    IF stage = "probe" THEN 1 .. (cursor - 1)
    ELSE IF stage = "done" THEN DOMAIN regions ELSE {}
ProbedAreas == {regions[k].alloc : k \in Probed}

(* Hidden modules are areas that were probed and are no module of the      *)
(* list, each once; none that has kept its header is missing.              *)
HiddenOnce == \A i, j \in DOMAIN hidden : hidden[i] = hidden[j] => i = j
HiddenProbed == HiddenModules \subseteq ProbedAreas \ Modules
HiddenFound ==
    ~gone => \A a \in header : (PagesOf(a) \cap dirty = {} /\ a \in ProbedAreas \ Modules)
                => a \in HiddenModules

LooseCode ==
    {r \in {regions[i] : i \in DOMAIN regions} :
        r.exec /\ r.alloc \notin Images /\ ~Covered(r.base)}

ProbeInv == HiddenOnce /\ HiddenProbed /\ HiddenFound /\ (stage = "done" => chunks = LooseCode)

LEMMA InitProbe == Init => ProbeInv
  <1> SUFFICES ASSUME Init PROVE ProbeInv
    OBVIOUS
  <1>1. DOMAIN hidden = {} /\ stage = "walk"
    BY DEF Init
  <1>2. HiddenModules = {} /\ ProbedAreas = {}
    BY <1>1 DEF HiddenModules, ProbedAreas, Probed
  <1> QED BY <1>1, <1>2 DEF ProbeInv, HiddenOnce, HiddenProbed, HiddenFound

LEMMA TargetKeepsProbe ==
    ASSUME DiscoveryTypeOK, ProbeInv, Target
    PROVE  ProbeInv'
  <1>1. UNCHANGED <<stage, cursor, regions, loader, hidden, chunks>> /\ (gone => gone')
        /\ stage # "done"
    BY TargetLeavesScan DEF scan
  <1>2. UNCHANGED <<ProbedAreas, HiddenModules, Modules>>
    BY <1>1 DEF ProbedAreas, Probed, HiddenModules, Modules
  <1>3. ASSUME NEW b \in header', PagesOf(b) \cap dirty' = {}
        PROVE  b \in header /\ PagesOf(b) \cap dirty = {}
    <2>1. header' \subseteq Areas
      BY TargetTyped DEF DiscoveryTypeOK
    <2>2. First[b] \in PagesOf(b)
      BY <2>1, AreaPages
    <2>3. CASE Exit
      BY <1>3, <2>3 DEF Exit, history
    <2> SUFFICES ASSUME NEW a \in Areas,
                        \/ Map(a) \/ Unmap(a) \/ Protect(a) \/ RewriteHeader(a)
                        \/ Link(a) \/ Unlink(a) \/ FreeEntry(a) \/ WipeBase(a) \/ Tamper(a)
                 PROVE  b \in header /\ PagesOf(b) \cap dirty = {}
      BY <2>3 DEF Target
    <2>4. CASE Map(a)
      BY <1>3, <2>2, <2>4 DEF Map
    <2>5. CASE Unmap(a)
      BY <1>3, <2>5 DEF Unmap
    <2>6. CASE Protect(a)
      BY <1>3, <2>6 DEF Protect
    <2>7. CASE RewriteHeader(a)
      BY <1>3, <2>2, <2>7 DEF RewriteHeader
    <2>8. CASE Link(a) \/ Unlink(a) \/ FreeEntry(a) \/ WipeBase(a) \/ Tamper(a)
      BY <1>3, <2>8 DEF Link, Unlink, FreeEntry, WipeBase, Tamper
    <2> QED BY <2>4, <2>5, <2>6, <2>7, <2>8
  <1>4. HiddenFound'
    BY <1>1, <1>2, <1>3 DEF ProbeInv, HiddenFound
  <1> QED BY <1>1, <1>2, <1>4 DEF ProbeInv, HiddenOnce, HiddenProbed

LEMMA ProbeKeeps ==
    ASSUME DiscoveryTypeOK, ProbeInv, Probe
    PROVE  ProbeInv'
  <1> DEFINE a == regions[cursor].alloc
             takes == ~SeenBefore(cursor) /\ a \notin Modules /\ ~gone /\ a \in header
             last == Len(hidden) + 1
  <1>1. /\ stage = "probe" /\ stage' = "probe" /\ cursor' = cursor + 1
        /\ UNCHANGED <<regions, loader, header, gone, dirty>>
        /\ hidden' = IF takes THEN Append(hidden, a) ELSE hidden
        /\ cursor \in DOMAIN regions /\ cursor \in Nat \ {0}
    BY LenProperties DEF Probe, target, history, DiscoveryTypeOK
  <1>2. Probed = 1 .. (cursor - 1) /\ Probed' = Probed \cup {cursor}
    BY <1>1 DEF Probed
  <1>3. ProbedAreas' = ProbedAreas \cup {a}
    BY <1>1, <1>2 DEF ProbedAreas
  <1>4. SeenBefore(cursor) <=> a \in ProbedAreas
    BY <1>2 DEF SeenBefore, ProbedAreas
  <1>5. Modules' = Modules
    BY <1>1 DEF Modules
  <1>6. Len(hidden) \in Nat /\ DOMAIN hidden = 1 .. Len(hidden) /\ hidden \in Seq(Areas)
    BY LenProperties DEF DiscoveryTypeOK
  <1>7. CASE takes
    <2>1. a \in Areas
      BY <1>1, RegionElement
    <2>2. /\ DOMAIN hidden' = 1 .. last /\ hidden'[last] = a
          /\ \A i \in 1 .. Len(hidden) : hidden'[i] = hidden[i]
      BY <1>1, <1>6, <1>7, <2>1
    <2>3. \A i \in 1 .. last : i \in 1 .. Len(hidden) \/ i = last
      BY <1>6
    <2>4. HiddenModules' = HiddenModules \cup {a}
      BY <1>6, <2>2, <2>3 DEF HiddenModules
    <2>5. \A i \in 1 .. Len(hidden) : hidden[i] # a
      BY <1>4, <1>6, <1>7 DEF ProbeInv, HiddenProbed, HiddenModules
    <2>6. HiddenOnce'
      BY <1>6, <2>2, <2>3, <2>5 DEF ProbeInv, HiddenOnce
    <2>7. HiddenProbed'
      BY <1>3, <1>5, <1>7, <2>4 DEF ProbeInv, HiddenProbed
    <2>8. HiddenFound'
      BY <1>1, <1>3, <1>5, <2>4 DEF ProbeInv, HiddenFound
    <2> QED BY <1>1, <2>6, <2>7, <2>8 DEF ProbeInv
  <1>8. CASE ~takes
    <2>1. hidden' = hidden /\ HiddenModules' = HiddenModules
      BY <1>1, <1>8 DEF HiddenModules
    <2>2. HiddenFound'
      BY <1>1, <1>3, <1>4, <1>5, <1>8, <2>1 DEF ProbeInv, HiddenFound
    <2> QED BY <1>1, <1>3, <1>5, <2>1, <2>2 DEF ProbeInv, HiddenOnce, HiddenProbed
  <1> QED BY <1>7, <1>8

LEMMA ScanKeepsProbe ==
    ASSUME DiscoveryTypeOK, ProbeInv, Scan
    PROVE  ProbeInv'
  <1>1. CASE Walk \/ WalkEnds \/ ReadPeb \/ ReadLdr \/ ReadEntry \/ ListEnds
    <2>1. /\ stage \notin {"probe", "done"} /\ stage' # "done" /\ hidden' = hidden
          /\ stage' = "probe" => cursor' = 1
      BY <1>1 DEF Walk, WalkEnds, ReadPeb, ReadLdr, ReadEntry, ListEnds
    <2>2. ProbedAreas = {} /\ ProbedAreas' = {}
      BY <2>1 DEF ProbedAreas, Probed
    <2>3. HiddenModules = {} /\ HiddenModules' = {}
      BY <2>1, <2>2 DEF ProbeInv, HiddenProbed, HiddenModules
    <2> QED BY <2>1, <2>2, <2>3 DEF ProbeInv, HiddenOnce, HiddenProbed, HiddenFound
  <1>2. CASE Probe
    BY <1>2, ProbeKeeps
  <1>3. CASE FindLooseCode
    <2>1. /\ stage = "probe" /\ stage' = "done" /\ chunks' = LooseCode
          /\ cursor > Len(regions) /\ cursor \in 1 .. (Len(regions) + 1)
          /\ UNCHANGED <<regions, loader, hidden, header, gone, dirty>>
      BY <1>3 DEF FindLooseCode, LooseCode, target, history, DiscoveryTypeOK
    <2>2. Probed = DOMAIN regions /\ Probed' = DOMAIN regions
      BY <2>1, RegionElement DEF Probed
    <2>3. /\ UNCHANGED <<ProbedAreas, HiddenModules, Modules>>
          /\ LooseCode' = LooseCode
      BY <2>1, <2>2 DEF ProbedAreas, HiddenModules, Modules, LooseCode, Covered
    <2> QED BY <2>1, <2>3 DEF ProbeInv, HiddenOnce, HiddenProbed, HiddenFound
  <1> QED BY <1>1, <1>2, <1>3 DEF Scan

LEMMA SpecProbe == DiscoverySpec => [](WalkInv /\ ProbeInv)
  <1>1. WalkInv /\ ProbeInv /\ [Next]_vars => ProbeInv'
    <2> SUFFICES ASSUME WalkInv, ProbeInv, [Next]_vars PROVE ProbeInv'
      OBVIOUS
    <2>1. DiscoveryTypeOK
      BY DEF WalkInv
    <2>2. CASE UNCHANGED vars
      BY <2>2 DEF vars, target, scan, history, ProbeInv, HiddenOnce, HiddenProbed, HiddenFound,
                  HiddenModules, Modules, ProbedAreas, Probed, LooseCode, Covered
    <2> QED BY <2>1, <2>2, ScanKeepsProbe, TargetKeepsProbe DEF Next, Finished
  <1> QED BY InitWalk, InitProbe, NextWalk, <1>1, PTL DEF DiscoverySpec

-----------------------------------------------------------------------------
(* A page that is committed and clean is in one region, of its allocation. *)
LEMMA CleanPage ==
    ASSUME WalkInv, stage = "done", ~gone,
           NEW a \in mapped, NEW p \in PagesOf(a) \ dirty
    PROVE  \E i \in DOMAIN regions :
             /\ RegionsOf(p) = {i}
             /\ regions[i].alloc = a
             /\ regions[i].exec <=> p \in exec
  <1>1. mapped \in SUBSET Areas
    BY DEF WalkInv, DiscoveryTypeOK
  <1>2. p \in Pages /\ AreaAt(p) = a /\ a # Free
    BY <1>1, AreaPages, AreaAtIs, DiscoveryAssumption
  <1>3. Told(p)
    BY <1>2 DEF WalkInv, Truthful, Walked
  <1> QED BY <1>2, <1>3 DEF Told

(* An image with a header that the list does not name is hidden once.      *)
LEMMA HiddenImageOnce ==
    ASSUME WalkInv, ProbeInv, stage = "done", ~gone,
           NEW a \in header \ Modules, PagesOf(a) \cap dirty = {}
    PROVE  Cardinality({i \in DOMAIN hidden : hidden[i] = a}) = 1
  <1>1. a \in mapped /\ a \in Areas
    BY DEF WalkInv, DiscoveryTypeOK
  <1>2. First[a] \in PagesOf(a) \ dirty
    BY <1>1, AreaPages
  <1>3. PICK k \in DOMAIN regions : regions[k].alloc = a
    BY <1>1, <1>2, CleanPage
  <1>4. a \in ProbedAreas
    BY <1>3 DEF ProbedAreas, Probed
  <1>5. a \in HiddenModules
    BY <1>4 DEF ProbeInv, HiddenFound
  <1>6. PICK j \in DOMAIN hidden : hidden[j] = a
    BY <1>5 DEF HiddenModules
  <1>7. {i \in DOMAIN hidden : hidden[i] = a} = {j}
    BY <1>6 DEF ProbeInv, HiddenOnce
  <1> QED BY <1>7, FS_Singleton

(* Executable private code is in one module or chunk.                      *)
LEMMA CodeOnce ==
    ASSUME WalkInv, ProbeInv, stage = "done", ~gone,
           \A b \in Areas : ImageSize[b] <= Size[b],
           NEW a \in mapped \ Images, NEW p \in (PagesOf(a) \cap exec) \ dirty
    PROVE  /\ ImageSize[a] >= Size[a] => Dumps(p) = 1
           /\ Dumps(p) <= 1
  <1> DEFINE holders == {b \in Modules \cup HiddenModules : InModule(p, b)}
             loose == {r \in chunks : p \in RegionPages(r)}
  <1>1. /\ a \in Areas /\ Modules \subseteq Images /\ HiddenModules \subseteq Areas
        /\ Images \subseteq Areas
    <2>1. loader \in Seq(Images) /\ hidden \in Seq(Areas) /\ mapped \subseteq Areas
      BY DEF WalkInv, DiscoveryTypeOK
    <2>2. Modules \subseteq Images
      BY <2>1, LenProperties, ElementOfSeq DEF Modules
    <2>3. HiddenModules \subseteq Areas
      BY <2>1, LenProperties, ElementOfSeq DEF HiddenModules
    <2> QED BY <2>1, <2>2, <2>3, DiscoveryAssumption
  <1>2. PICK i \in DOMAIN regions :
          RegionsOf(p) = {i} /\ regions[i].alloc = a /\ (regions[i].exec <=> p \in exec)
    BY CleanPage
  <1> DEFINE r == regions[i]
  <1>3. /\ r.base \in Nat /\ r.base <= p /\ p \in Nat
        /\ r.base \in PagesOf(a) /\ p \in RegionPages(r)
    <2>1. r.base \in Pages /\ r.size \in Pages
      BY RegionElement DEF WalkInv
    <2>2. p \in RegionPages(r)
      BY <1>2 DEF RegionsOf
    <2>3. RegionPages(r) \subseteq PagesOf(a)
      BY <1>2 DEF WalkInv, Behind
    <2>4. r.base \in RegionPages(r)
      BY <2>1 DEF RegionPages, Pages
    <2> QED BY <2>1, <2>2, <2>3, <2>4 DEF RegionPages, Pages
  <1>4. \A q \in PagesOf(a) : \A b \in Modules \cup HiddenModules :
          InModule(q, b) => b = a
    <2>1. SUFFICES ASSUME NEW q \in PagesOf(a), NEW b \in Modules \cup HiddenModules,
                          InModule(q, b)
                   PROVE  b = a
      OBVIOUS
    <2>2. b \in Areas /\ ImageSize[b] <= Size[b]
      BY <1>1
    <2>3. /\ First[b] \in Nat /\ Size[b] \in Nat /\ ImageSize[b] \in Nat
          /\ First[a] \in Nat /\ Size[a] \in Nat
      BY <1>1, <2>2, AreaPages, DiscoveryAssumption
    <2>4. q \in PagesOf(b)
      BY <2>1, <2>2, <2>3 DEF InModule, PagesOf
    <2> QED BY <1>1, <2>1, <2>2, <2>4, DiscoveryAssumption
  <1>5. a \notin Modules
    BY <1>1
  <1>6. loose = IF Covered(r.base) THEN {} ELSE {r}
    <2>1. \A s \in chunks : p \in RegionPages(s) => s = r
      BY <1>2 DEF ProbeInv, LooseCode, RegionsOf
    <2>2. r \in chunks <=> ~Covered(r.base)
      BY <1>2 DEF ProbeInv, LooseCode
    <2> QED BY <1>3, <2>1, <2>2
  <1>7. Covered(r.base) <=> a \in HiddenModules /\ InModule(r.base, a)
    BY <1>3, <1>4, <1>5 DEF Covered
  <1>8. holders = IF a \in HiddenModules /\ InModule(p, a) THEN {a} ELSE {}
    BY <1>4, <1>5
  <1>9. InModule(p, a) => InModule(r.base, a)
    <2>1. First[a] \in Nat /\ Size[a] \in Nat /\ ImageSize[a] \in Nat
      BY <1>1, AreaPages, DiscoveryAssumption
    <2> QED BY <1>3, <2>1 DEF InModule, PagesOf
  <1>10. ImageSize[a] >= Size[a] => InModule(p, a) /\ InModule(r.base, a)
    <2>1. First[a] \in Nat /\ Size[a] \in Nat /\ ImageSize[a] \in Nat
      BY <1>1, AreaPages, DiscoveryAssumption
    <2> QED BY <1>3, <2>1 DEF InModule, PagesOf
  <1>11. Dumps(p) = Cardinality(holders) + Cardinality(loose)
    BY DEF Dumps
  <1>12. Cardinality({}) = 0 /\ Cardinality({a}) = 1 /\ Cardinality({r}) = 1
    BY FS_EmptySet, FS_Singleton
  <1> HIDE DEF holders, loose, r
  <1> QED BY <1>6, <1>7, <1>8, <1>9, <1>10, <1>11, <1>12

(***************************************************************************)
(* Nothing that stays in place is lost or dumped twice (scan.rs), if no    *)
(* header claims more pages than its allocation has.                       *)
(***************************************************************************)
THEOREM CodeIsFoundOnce ==
    ASSUME \A b \in Areas : ImageSize[b] <= Size[b]
    PROVE  DiscoverySpec => []CodeFoundOnce
  <1>1. WalkInv /\ ProbeInv => CodeFoundOnce
    BY HiddenImageOnce, CodeOnce DEF CodeFoundOnce
  <1> QED BY <1>1, SpecProbe, PTL

-----------------------------------------------------------------------------
(* The loader's list. The walk of it stands on an entry while others are   *)
(* linked and unlinked, so that what counts are the entries it knows:      *)
(* those in the list, and those that were taken out and still can be read. *)

(* The links L of the entries, ordered by rank r, all up to n: whoever is  *)
(* in the list points to the next one in it. One that was taken out points *)
(* on too, and skips none of the steady entries.                           *)
Skips(e, f, b, r) == r[e] < r[b] /\ (f = Anchor \/ r[b] < r[f])

Ranked(known, r, n) ==
    /\ r \in [Areas \cup {Anchor} -> Nat] /\ n \in Nat /\ r[Anchor] = 0
    /\ \A e \in known : e \in Areas /\ 0 < r[e] /\ r[e] <= n
    /\ \A e, f \in known : r[e] = r[f] => e = f

PointsOn(known, L, r) ==
    \A e \in known \cup {Anchor} :
        L[e] \in known \cup {Anchor} /\ (L[e] # Anchor => r[e] < r[L[e]])

Ordered(known, list, steady, L, r, n) ==
    /\ list \subseteq known /\ steady \subseteq list
    /\ Ranked(known, r, n)
    /\ PointsOn(known, L, r)
    /\ \A e \in list \cup {Anchor} :
         L[e] \in list \cup {Anchor} /\ \A b \in list : ~Skips(e, L[e], b, r)
    /\ \A e \in known \ list : \A b \in steady : ~Skips(e, L[e], b, r)

(* The entries that were taken out can be forgotten.                       *)
LEMMA OrderedList ==
    ASSUME NEW known, NEW list, NEW steady, NEW L, NEW r, NEW n,
           Ordered(known, list, steady, L, r, n)
    PROVE  Ordered(list, list, steady, L, r, n)
  <1>1. Ranked(list, r, n)
    BY DEF Ordered, Ranked
  <1>2. PointsOn(list, L, r)
    BY DEF Ordered, PointsOn
  <1> QED BY <1>1, <1>2 DEF Ordered

(* Fewer entries are steady.                                               *)
LEMMA OrderedLess ==
    ASSUME NEW known, NEW list, NEW steady, NEW L, NEW r, NEW n,
           Ordered(known, list, steady, L, r, n),
           NEW fewer \in SUBSET steady
    PROVE  Ordered(known, list, fewer, L, r, n)
  BY DEF Ordered

LEMMA RankedBy ==
    ASSUME NEW known, NEW r, NEW n, Ranked(known, r, n), Anchor \notin known
    PROVE  /\ \A e \in known \cup {Anchor} : r[e] \in Nat /\ r[e] <= n
           /\ \A e \in known : r[Anchor] < r[e]
           /\ \A e, f \in known \cup {Anchor} : r[e] = r[f] => e = f
           /\ n \in Nat
  BY DEF Ranked

(* A link at the end.                                                      *)
LEMMA OrderedLink ==
    ASSUME NEW known, NEW list, NEW steady, NEW L, NEW r, NEW n,
           Ordered(known, list, steady, L, r, n), Anchor \notin known,
           L \in [Areas \cup {Anchor} -> Areas \cup {Anchor, Null}],
           NEW a \in Areas, a \notin known,
           NEW tail \in list \cup {Anchor}, L[tail] = Anchor
    PROVE  LET M == [L EXCEPT ![tail] = a, ![a] = Anchor]
               q == [r EXCEPT ![a] = n + 1]
           IN  Ordered(known \cup {a}, list \cup {a}, steady, M, q, n + 1)
  <1> DEFINE M == [L EXCEPT ![tail] = a, ![a] = Anchor]
             q == [r EXCEPT ![a] = n + 1]
  <1>0. /\ list \subseteq known /\ steady \subseteq list /\ known \subseteq Areas
        /\ r \in [Areas \cup {Anchor} -> Nat] /\ n \in Nat /\ a # Anchor /\ tail # a
        /\ tail \in Areas \cup {Anchor}
    BY DiscoveryAssumption DEF Ordered, Ranked
  <1>1. /\ \A e \in known \cup {Anchor} : r[e] \in Nat /\ r[e] <= n
        /\ \A e \in known : r[Anchor] < r[e]
        /\ \A e, f \in known \cup {Anchor} : r[e] = r[f] => e = f
    BY RankedBy DEF Ordered
  <1>2. \A e \in known \cup {Anchor} : q[e] = r[e] /\ e # a
    BY <1>0
  <1>3. q[a] = n + 1 /\ M[a] = Anchor /\ M[tail] = a
    BY <1>0
  <1>4. \A e \in known \cup {Anchor} : e # tail => M[e] = L[e]
    BY <1>0
  <1>5. Ranked(known \cup {a}, q, n + 1)
    <2>1. q \in [Areas \cup {Anchor} -> Nat] /\ n + 1 \in Nat /\ q[Anchor] = 0
      BY <1>0, <1>2 DEF Ordered, Ranked
    <2>2. \A e \in known : 0 < q[e] /\ q[e] <= n /\ q[e] # n + 1
      BY <1>0, <1>1, <1>2 DEF Ordered, Ranked
    <2>3. \A e, f \in known : q[e] = q[f] => e = f
      BY <1>1, <1>2
    <2>4. \A e \in known \cup {a} : e \in Areas /\ 0 < q[e] /\ q[e] <= n + 1
      BY <1>0, <1>2, <1>3, <2>2
    <2>5. \A e, f \in known \cup {a} : q[e] = q[f] => e = f
      BY <1>3, <2>2, <2>3
    <2> HIDE DEF q
    <2> QED BY <2>1, <2>4, <2>5 DEF Ranked
  <1>6. PointsOn(known \cup {a}, M, q)
    <2>1. \A e \in known \cup {Anchor} : e # tail =>
             M[e] \in known \cup {Anchor} /\ (M[e] # Anchor => q[e] < q[M[e]])
      <3> SUFFICES ASSUME NEW e \in known \cup {Anchor}, e # tail
                   PROVE  M[e] \in known \cup {Anchor} /\ (M[e] # Anchor => q[e] < q[M[e]])
        OBVIOUS
      <3>1. L[e] \in known \cup {Anchor} /\ (L[e] # Anchor => r[e] < r[L[e]])
        BY DEF Ordered, PointsOn
      <3>2. M[e] = L[e] /\ q[e] = r[e] /\ q[L[e]] = r[L[e]]
        BY <1>2, <1>4, <3>1
      <3> HIDE DEF M, q
      <3> QED BY <3>1, <3>2
    <2>2. q[tail] < q[a]
      BY <1>0, <1>1, <1>2, <1>3
    <2> HIDE DEF M, q
    <2> QED BY <1>3, <2>1, <2>2 DEF PointsOn
  <1>7. \A b \in list : r[b] <= r[tail]
    BY <1>0, <1>1 DEF Ordered, Skips
  <1>8. \A e \in list \cup {Anchor} : e # tail => L[e] # Anchor
    <2>1. SUFFICES ASSUME NEW e \in list \cup {Anchor}, L[e] = Anchor PROVE e = tail
      OBVIOUS
    <2>2. \A b \in list : r[b] <= r[e]
      BY <1>0, <1>1, <2>1 DEF Ordered, Skips
    <2>3. r[e] <= r[tail] /\ r[tail] <= r[e]
      BY <1>0, <1>1, <1>7, <2>2, RankedBy DEF Ordered
    <2> QED BY <1>0, <1>1, <2>1, <2>3
  <1>9. \A e \in (list \cup {a}) \cup {Anchor} :
          /\ M[e] \in (list \cup {a}) \cup {Anchor}
          /\ \A b \in list \cup {a} : ~Skips(e, M[e], b, q)
    <2>1. ASSUME NEW e \in list \cup {Anchor}, e # tail, NEW b \in list \cup {a}
          PROVE  M[e] \in list \cup {Anchor} /\ ~Skips(e, M[e], b, q)
      <3>1. M[e] = L[e] /\ L[e] \in list /\ q[e] = r[e] /\ q[L[e]] = r[L[e]] /\ r[L[e]] <= n
        BY <1>0, <1>1, <1>2, <1>4, <1>8, <2>1 DEF Ordered
      <3>2. CASE b = a
        BY <1>0, <1>1, <1>3, <3>1, <3>2 DEF Skips
      <3>3. CASE b \in list
        BY <1>0, <1>2, <2>1, <3>1, <3>3 DEF Ordered, Skips
      <3> QED BY <2>1, <3>1, <3>2, <3>3
    <2>2. ASSUME NEW b \in list \cup {a} PROVE ~Skips(tail, M[tail], b, q) /\ ~Skips(a, M[a], b, q)
      BY <1>0, <1>1, <1>2, <1>3, <1>7, <2>2 DEF Skips
    <2> HIDE DEF M, q
    <2> QED BY <1>3, <2>1, <2>2
  <1>10. \A e \in (known \cup {a}) \ (list \cup {a}) : \A b \in steady : ~Skips(e, M[e], b, q)
    <2>1. SUFFICES ASSUME NEW e \in known \ list, NEW b \in steady PROVE ~Skips(e, M[e], b, q)
      OBVIOUS
    <2>2. M[e] = L[e] /\ L[e] \in known \cup {Anchor} /\ b \in known
      BY <1>0, <1>4, <2>1 DEF Ordered, PointsOn
    <2> QED BY <1>2, <2>1, <2>2 DEF Ordered, Skips
  <1> HIDE DEF M, q
  <1>11. list \cup {a} \subseteq known \cup {a} /\ steady \subseteq list \cup {a}
    BY <1>0
  <1>12. Ordered(known \cup {a}, list \cup {a}, steady, M, q, n + 1)
    BY <1>5, <1>6, <1>9, <1>10, <1>11 DEF Ordered
  <1> QED BY <1>12 DEF M, q

(* An entry taken out; its own links stay.                                 *)
LEMMA OrderedUnlink ==
    ASSUME NEW known, NEW list, NEW steady, NEW L, NEW r, NEW n,
           Ordered(known, list, steady, L, r, n), Anchor \notin known,
           L \in [Areas \cup {Anchor} -> Areas \cup {Anchor, Null}],
           NEW a \in list, NEW p \in list \cup {Anchor}, L[p] = a
    PROVE  Ordered(known, list \ {a}, steady \ {a}, [L EXCEPT ![p] = L[a]], r, n)
  <1> DEFINE M == [L EXCEPT ![p] = L[a]]
  <1>0. /\ list \subseteq known /\ steady \subseteq list /\ known \subseteq Areas
        /\ p \in Areas \cup {Anchor} /\ a # Anchor /\ a \in known
    BY DEF Ordered, Ranked
  <1>1. /\ \A e \in known \cup {Anchor} : r[e] \in Nat
        /\ \A e \in known : r[Anchor] < r[e]
        /\ \A e, f \in known \cup {Anchor} : r[e] = r[f] => e = f
    BY RankedBy DEF Ordered
  <1>2. /\ r[p] < r[a] /\ p # a
        /\ L[a] \in list \cup {Anchor} /\ (L[a] # Anchor => r[a] < r[L[a]]) /\ L[a] # a
    BY <1>0, <1>1 DEF Ordered, PointsOn
  <1>3. M[p] = L[a] /\ \A e \in known \cup {Anchor} : e # p => M[e] = L[e]
    BY <1>0
  <1>4. \A e \in list \cup {Anchor} : e # p => L[e] # a
    <2>1. SUFFICES ASSUME NEW e \in list \cup {Anchor}, L[e] = a PROVE e = p
      OBVIOUS
    <2>2. r[e] < r[a]
      BY <1>0, <2>1 DEF Ordered, PointsOn
    <2>3. e = Anchor \/ r[e] <= r[p]
      BY <1>0, <1>1, <1>2, <2>1, <2>2 DEF Ordered, Skips
    <2>4. p = Anchor \/ r[p] <= r[e]
      BY <1>0, <1>1, <1>2, <2>1, <2>2 DEF Ordered, Skips
    <2>5. r[e] = r[p]
      BY <1>0, <1>1, <2>1, <2>3, <2>4
    <2> QED BY <1>0, <1>1, <2>1, <2>5
  <1>5. PointsOn(known, M, r)
    <2>1. \A e \in known \cup {Anchor} : e # p =>
             M[e] \in known \cup {Anchor} /\ (M[e] # Anchor => r[e] < r[M[e]])
      BY <1>3 DEF Ordered, PointsOn
    <2>2. M[p] \in known \cup {Anchor} /\ (M[p] # Anchor => r[p] < r[M[p]])
      BY <1>0, <1>1, <1>2, <1>3
    <2> HIDE DEF M
    <2> QED BY <2>1, <2>2 DEF PointsOn
  <1>6. \A e \in (list \ {a}) \cup {Anchor} :
          /\ M[e] \in (list \ {a}) \cup {Anchor}
          /\ \A b \in list \ {a} : ~Skips(e, M[e], b, r)
    <2>1. ASSUME NEW e \in (list \ {a}) \cup {Anchor}, e # p
          PROVE  /\ M[e] \in (list \ {a}) \cup {Anchor}
                 /\ \A b \in list \ {a} : ~Skips(e, M[e], b, r)
      <3>1. M[e] = L[e]
        BY <1>0, <1>3, <2>1
      <3> QED BY <1>4, <2>1, <3>1 DEF Ordered
    <2>2. ASSUME NEW b \in list \ {a} PROVE ~Skips(p, M[p], b, r)
      <3>1. ~Skips(p, a, b, r) /\ ~Skips(a, L[a], b, r)
        BY <1>0, <2>2 DEF Ordered
      <3>2. r[b] # r[a] /\ r[b] \in Nat /\ r[a] \in Nat /\ r[p] \in Nat
        BY <1>0, <1>1, <2>2
      <3> QED BY <1>0, <1>2, <1>3, <3>1, <3>2 DEF Skips
    <2>3. M[p] \in (list \ {a}) \cup {Anchor}
      BY <1>2, <1>3
    <2> HIDE DEF M
    <2> QED BY <2>1, <2>2, <2>3
  <1>7. \A e \in known \ (list \ {a}) : \A b \in steady \ {a} : ~Skips(e, M[e], b, r)
    <2>1. SUFFICES ASSUME NEW e \in known \ (list \ {a}), NEW b \in steady \ {a}
                   PROVE  ~Skips(e, M[e], b, r)
      OBVIOUS
    <2>2. M[e] = L[e]
      BY <1>0, <1>2, <1>3, <2>1
    <2>3. CASE e = a
      BY <1>0, <2>1, <2>2, <2>3 DEF Ordered
    <2>4. CASE e # a
      BY <2>1, <2>2, <2>4 DEF Ordered
    <2> QED BY <2>3, <2>4
  <1> HIDE DEF M
  <1>8. Ordered(known, list \ {a}, steady \ {a}, M, r, n)
    <2>1. list \ {a} \subseteq known /\ steady \ {a} \subseteq list \ {a}
      BY <1>0
    <2>2. Ranked(known, r, n)
      BY DEF Ordered
    <2> QED BY <1>5, <1>6, <1>7, <2>1, <2>2 DEF Ordered
  <1> QED BY <1>8 DEF M

(* At the start the entries are in the order of the list.                  *)
LEMMA InitOrdered ==
    ASSUME Init
    PROVE  \E r \in [Areas \cup {Anchor} -> Nat], n \in Nat :
              Ordered(linked, linked, linked, flink, r, n)
  <1> DEFINE at(e) == {i \in DOMAIN Loaded : Loaded[i] = e}
             place(e) == CHOOSE k \in at(e) : TRUE
             N == Len(Loaded)
             r == [e \in Areas \cup {Anchor} |->
                     IF e = Anchor \/ at(e) = {} THEN 0 ELSE place(e)]
  <1>1. N \in Nat /\ DOMAIN Loaded = 1 .. N /\ Anchor \notin Areas
    BY DiscoveryAssumption, LenProperties
  <1>2. \A i \in 1 .. N : Loaded[i] \in Areas /\ Loaded[i] # Anchor
    BY <1>1, DiscoveryAssumption, ElementOfSeq
  <1>3. linked = Listed /\ flink = LinksOf(Loaded) /\ Listed = {Loaded[i] : i \in 1 .. N}
    BY <1>1 DEF Init, Listed
  <1>4. \A i \in 1 .. N : at(Loaded[i]) = {i}
    BY <1>1, DiscoveryAssumption
  <1>5. \A i \in 1 .. N : place(Loaded[i]) = i
    BY <1>4
  <1>6. r \in [Areas \cup {Anchor} -> Nat] /\ r[Anchor] = 0
    BY <1>1
  <1>7. \A i \in 1 .. N : r[Loaded[i]] = i
    BY <1>2, <1>4, <1>5
  <1>8. flink[Anchor] = IF N = 0 THEN Anchor ELSE Loaded[1]
    BY <1>1, <1>3 DEF LinksOf
  <1>9. \A i \in 1 .. N : flink[Loaded[i]] = IF i = N THEN Anchor ELSE Loaded[i + 1]
    <2>1. SUFFICES ASSUME NEW i \in 1 .. N
                   PROVE  flink[Loaded[i]] = IF i = N THEN Anchor ELSE Loaded[i + 1]
      OBVIOUS
    <2>2. flink[Loaded[i]] = IF place(Loaded[i]) = N THEN Anchor
                             ELSE Loaded[place(Loaded[i]) + 1]
      BY <1>2, <1>3, <1>4 DEF LinksOf
    <2> QED BY <1>5, <2>2
  <1> HIDE DEF at, place, N, r
  <1>10. \A e \in linked : \E i \in 1 .. N : e = Loaded[i]
    BY <1>3
  <1>11. Ranked(linked, r, N)
    BY <1>1, <1>2, <1>6, <1>7, <1>10 DEF Ranked
  <1>12. \A e \in linked \cup {Anchor} :
           /\ flink[e] \in linked \cup {Anchor}
           /\ flink[e] = Anchor => r[e] = N
           /\ flink[e] # Anchor => r[flink[e]] = r[e] + 1
    <2>1. \A i \in 1 .. N : i # N => i + 1 \in 1 .. N
      BY <1>1
    <2>2. ASSUME NEW i \in 1 .. N
          PROVE  /\ flink[Loaded[i]] \in linked \cup {Anchor}
                 /\ flink[Loaded[i]] = Anchor => r[Loaded[i]] = N
                 /\ flink[Loaded[i]] # Anchor => r[flink[Loaded[i]]] = r[Loaded[i]] + 1
      BY <1>2, <1>3, <1>7, <1>9, <2>1
    <2>3. N # 0 => 1 \in 1 .. N
      BY <1>1
    <2>4. /\ flink[Anchor] \in linked \cup {Anchor}
          /\ flink[Anchor] = Anchor => r[Anchor] = N
          /\ flink[Anchor] # Anchor => r[flink[Anchor]] = r[Anchor] + 1
      BY <1>2, <1>3, <1>6, <1>7, <1>8, <2>3
    <2> QED BY <1>10, <2>2, <2>4
  <1>13. \A e \in linked \cup {Anchor} : r[e] \in 0 .. N
    BY <1>1, <1>6, <1>7, <1>10
  <1>14. PointsOn(linked, flink, r)
    BY <1>12, <1>13 DEF PointsOn
  <1>15. \A e \in linked \cup {Anchor} : \A b \in linked : ~Skips(e, flink[e], b, r)
    BY <1>1, <1>12, <1>13 DEF Skips
  <1>16. Ordered(linked, linked, linked, flink, r, N)
    BY <1>11, <1>12, <1>14, <1>15 DEF Ordered
  <1> QED BY <1>1, <1>6, <1>16

Steady == linked \ relinked

(* The entries before entry c.                                             *)
Before(known, r, c) == {e \in known : r[e] < r[c]}

(* The walk is on an entry it knows, and has read the steady ones before.  *)
OnWay(known, r) ==
    /\ cursor \in known \cup {Anchor}
    /\ \A a \in Steady : a \in Modules \/ (cursor # Anchor /\ r[cursor] <= r[a])
    /\ cursor # Anchor => steps <= Cardinality(Before(known, r, cursor))

ListInv ==
    ~gone /\ ~cut =>
        /\ linked \subseteq live /\ Steady \cap wiped = {}
        /\ stage \in {"walk", "peb", "ldr"} =>
             /\ steps = 0
             /\ \E r \in [Areas \cup {Anchor} -> Nat], n \in Nat :
                   Ordered(linked, linked, Steady, flink, r, n)
        /\ stage = "list" =>
             \E known \in SUBSET (live \cap (linked \cup relinked)),
                r \in [Areas \cup {Anchor} -> Nat], n \in Nat :
                   Ordered(known, linked, Steady, flink, r, n) /\ OnWay(known, r)
        /\ stage \in {"probe", "done"} => Steady \subseteq Modules

LEMMA InitList == Init => ListInv
  <1> SUFFICES ASSUME Init PROVE ListInv
    OBVIOUS
  <1>1. Steady = linked /\ linked = live /\ wiped = {} /\ stage = "walk" /\ steps = 0
    BY DEF Init, Steady
  <1> QED BY <1>1, InitOrdered DEF ListInv

(* A known entry and those read before it.                                 *)
LEMMA ReadBefore ==
    ASSUME IsFiniteSet(Images), NEW known \in SUBSET Images, NEW r, NEW n,
           Ranked(known, r, n), NEW c \in known
    PROVE  /\ Cardinality(Before(known, r, c)) \in Nat
           /\ Cardinality(Before(known, r, c)) < Cardinality(Images)
           /\ \A d \in known : r[c] < r[d] =>
                 Cardinality(Before(known, r, c)) + 1 <= Cardinality(Before(known, r, d))
  <1> DEFINE B == Before(known, r, c)
  <1>0. \A e \in known : r[e] \in Nat
    BY DEF Ranked
  <1>1. IsFiniteSet(B) /\ c \notin B /\ B \subseteq Images
    <2>1. B \subseteq Images /\ c \notin B
      BY <1>0 DEF Before
    <2> QED BY <2>1, FS_Subset
  <1>2. IsFiniteSet(B \cup {c}) /\ Cardinality(B \cup {c}) = Cardinality(B) + 1
    BY <1>1, FS_AddElement
  <1>3. Cardinality(B) \in Nat /\ Cardinality(Images) \in Nat
    BY <1>1, FS_CardinalityType
  <1>4. Cardinality(B \cup {c}) <= Cardinality(Images)
    <2>1. B \cup {c} \subseteq Images
      BY <1>1
    <2> QED BY <2>1, FS_Subset
  <1>5. ASSUME NEW d \in known, r[c] < r[d]
        PROVE  Cardinality(B) + 1 <= Cardinality(Before(known, r, d))
    <2> DEFINE D == Before(known, r, d)
    <2>1. B \cup {c} \subseteq D /\ D \subseteq Images
      BY <1>0, <1>5 DEF Before
    <2>2. IsFiniteSet(D)
      BY <2>1, FS_Subset
    <2>3. Cardinality(B \cup {c}) <= Cardinality(D)
      BY <2>1, <2>2, FS_Subset
    <2> HIDE DEF B, D
    <2>4. Cardinality(B) + 1 <= Cardinality(D)
      BY <1>2, <2>3
    <2> QED BY <2>4 DEF B, D
  <1> HIDE DEF B
  <1>6. Cardinality(B) < Cardinality(Images)
    BY <1>2, <1>3, <1>4
  <1> QED BY <1>3, <1>5, <1>6 DEF B

LEMMA ReadEntryKeepsList ==
    ASSUME IsFiniteSet(Images), DiscoveryTypeOK, ListInv, ReadEntry
    PROVE  ListInv'
  <1> SUFFICES ASSUME ~gone', ~cut' PROVE ListInv'
    BY DEF ListInv
  <1>1. /\ stage = "list" /\ stage' = "list" /\ cursor # Anchor /\ cursor \in live
        /\ steps' = steps + 1 /\ cursor' = flink[cursor]
        /\ loader' = IF cursor \in wiped THEN loader ELSE Append(loader, cursor)
        /\ UNCHANGED <<linked, flink, live, wiped, gone, relinked, cut>>
        /\ loader \in Seq(Images) /\ live \subseteq Images /\ steps \in Nat
    BY DEF ReadEntry, MoreEntries, EntryReadable, target, history, DiscoveryTypeOK
  <1>2. linked \subseteq live /\ Steady \cap wiped = {} /\ Steady' = Steady
    BY <1>1 DEF ListInv, Steady
  <1>3. PICK known \in SUBSET (live \cap (linked \cup relinked)),
             r \in [Areas \cup {Anchor} -> Nat], n \in Nat :
                Ordered(known, linked, Steady, flink, r, n) /\ OnWay(known, r)
    BY <1>1 DEF ListInv
  <1>4. /\ cursor \in known /\ known \subseteq Images /\ Ranked(known, r, n)
        /\ Steady \subseteq known
        /\ flink[cursor] \in known \cup {Anchor}
        /\ flink[cursor] # Anchor => r[cursor] < r[flink[cursor]]
        /\ steps <= Cardinality(Before(known, r, cursor))
    BY <1>1, <1>3 DEF OnWay, Ordered, PointsOn
  <1>5. \A b \in Steady : ~Skips(cursor, flink[cursor], b, r)
    BY <1>3, <1>4 DEF Ordered, Steady
  <1>6. Modules \subseteq Modules' /\ (cursor \notin wiped => cursor \in Modules')
    <2>1. CASE cursor \in wiped
      BY <1>1, <2>1 DEF Modules
    <2>2. CASE cursor \notin wiped
      <3>1. /\ Len(loader) \in Nat /\ DOMAIN loader = 1 .. Len(loader)
            /\ DOMAIN loader' = 1 .. (Len(loader) + 1)
            /\ \A i \in 1 .. Len(loader) : loader'[i] = loader[i]
            /\ loader'[Len(loader) + 1] = cursor
        BY <1>1, <1>4, <2>2, LenProperties
      <3>2. \A i \in 1 .. Len(loader) : i \in 1 .. (Len(loader) + 1)
        BY <3>1
      <3>3. Len(loader) + 1 \in 1 .. (Len(loader) + 1)
        BY <3>1
      <3> QED BY <3>1, <3>2, <3>3 DEF Modules
    <2> QED BY <2>1, <2>2
  <1>7. \A a \in Steady : a \in Modules' \/ (cursor' # Anchor /\ r[cursor'] <= r[a])
    <2>1. SUFFICES ASSUME NEW a \in Steady, a \notin Modules'
                   PROVE  cursor' # Anchor /\ r[cursor'] <= r[a]
      OBVIOUS
    <2>2. a # cursor /\ r[cursor] <= r[a]
      BY <1>2, <1>3, <1>6, <2>1 DEF OnWay
    <2>3. r[cursor] \in Nat /\ r[a] \in Nat /\ r[cursor] # r[a]
      BY <1>4, <2>1, <2>2 DEF Ranked
    <2>4. flink[cursor] # Anchor => r[flink[cursor]] \in Nat
      BY <1>4 DEF Ranked
    <2> QED BY <1>1, <1>5, <2>1, <2>2, <2>3, <2>4 DEF Skips
  <1>8. cursor' # Anchor => steps' <= Cardinality(Before(known, r, cursor'))
    <2>1. SUFFICES ASSUME cursor' # Anchor
                   PROVE  steps + 1 <= Cardinality(Before(known, r, cursor'))
      BY <1>1
    <2>2. cursor' \in known /\ r[cursor] < r[cursor']
      BY <1>1, <1>4, <2>1
    <2>3. /\ Cardinality(Before(known, r, cursor)) + 1
               <= Cardinality(Before(known, r, cursor'))
          /\ Cardinality(Before(known, r, cursor)) \in Nat
          /\ Cardinality(Before(known, r, cursor')) \in Nat
      BY <1>4, <2>2, ReadBefore
    <2> QED BY <1>1, <1>4, <2>3
  <1>9. OnWay(known, r)' /\ Ordered(known, linked, Steady, flink, r, n)'
    BY <1>1, <1>2, <1>3, <1>4, <1>7, <1>8 DEF OnWay, Steady, Before
  <1> QED BY <1>1, <1>2, <1>3, <1>9 DEF ListInv

LEMMA ScanKeepsList ==
    ASSUME IsFiniteSet(Images), Cardinality(Images) <= MaxModules,
           DiscoveryTypeOK, ListInv, Scan
    PROVE  ListInv'
  <1> SUFFICES ASSUME ~gone', ~cut' PROVE ListInv'
    BY DEF ListInv
  <1>1. /\ UNCHANGED <<linked, flink, live, wiped, gone, relinked, cut>> /\ Steady' = Steady
        /\ ~gone /\ ~cut /\ linked \subseteq live /\ Steady \cap wiped = {}
    BY DEF Scan, Walk, WalkEnds, ReadPeb, ReadLdr, ReadEntry, ListEnds, Probe, FindLooseCode,
           target, history, ListInv, Steady
  <1>2. CASE Walk \/ WalkEnds
    <2>1. stage = "walk" /\ stage' \in {"walk", "peb"} /\ steps' = steps
      BY <1>2 DEF Walk, WalkEnds
    <2> QED BY <1>1, <2>1 DEF ListInv
  <1>7. CASE ReadPeb
    <2>1. /\ stage = "peb" /\ steps' = steps
          /\ stage' = "ldr" \/ (stage' = "probe" /\ linked = {})
      BY <1>1, <1>7 DEF ReadPeb
    <2>2. linked = {} => Steady = {}
      BY DEF Steady
    <2> QED BY <1>1, <2>1, <2>2 DEF ListInv
  <1>3. CASE ReadLdr
    <2>1. stage = "ldr" /\ stage' = "list" /\ cursor' = flink[Anchor] /\ steps' = 0
      BY <1>1, <1>3 DEF ReadLdr, ListInv
    <2>2. PICK r \in [Areas \cup {Anchor} -> Nat], n \in Nat :
                 Ordered(linked, linked, Steady, flink, r, n)
      BY <1>1, <2>1 DEF ListInv
    <2>3. /\ cursor' \in linked \cup {Anchor} /\ Ranked(linked, r, n)
          /\ \A b \in Steady : b \in linked /\ ~Skips(Anchor, cursor', b, r)
      BY <2>1, <2>2 DEF Ordered
    <2>4. \A a \in Steady : cursor' # Anchor /\ r[cursor'] <= r[a]
      <3>1. \A b \in linked : r[b] \in Nat /\ r[Anchor] < r[b]
        BY <2>3, DiscoveryAssumption DEF Ranked
      <3> QED BY <2>3, <3>1 DEF Skips
    <2>5. cursor' # Anchor => 0 <= Cardinality(Before(linked, r, cursor'))
      <3>1. linked \subseteq Images
        BY DEF DiscoveryTypeOK
      <3> QED BY <2>3, <3>1, ReadBefore
    <2>6. OnWay(linked, r)' /\ Ordered(linked, linked, Steady, flink, r, n)'
      BY <1>1, <2>1, <2>2, <2>3, <2>4, <2>5 DEF OnWay, Before
    <2>7. linked' \in SUBSET (live' \cap (linked' \cup relinked'))
      BY <1>1
    <2> QED BY <1>1, <2>1, <2>6, <2>7 DEF ListInv
  <1>4. CASE ReadEntry
    BY <1>4, ReadEntryKeepsList
  <1>5. CASE ListEnds
    <2>1. /\ stage = "list" /\ stage' = "probe" /\ loader' = loader
          /\ ~MoreEntries \/ ~EntryReadable
      BY <1>5 DEF ListEnds
    <2>2. PICK known \in SUBSET (live \cap (linked \cup relinked)),
               r \in [Areas \cup {Anchor} -> Nat], n \in Nat :
                  Ordered(known, linked, Steady, flink, r, n) /\ OnWay(known, r)
      BY <1>1, <2>1 DEF ListInv
    <2>3. cursor = Anchor
      <3> SUFFICES ASSUME cursor # Anchor PROVE FALSE
        OBVIOUS
      <3>1. /\ cursor \in known /\ cursor \in live /\ cursor # Null /\ known \subseteq Images
            /\ Ranked(known, r, n)
        BY <2>2, DiscoveryAssumption DEF OnWay, DiscoveryTypeOK, Ordered
      <3>2. steps \in Nat /\ ~(steps < MaxModules)
        BY <1>1, <2>1, <3>1 DEF MoreEntries, EntryReadable, DiscoveryTypeOK
      <3>3. steps <= Cardinality(Before(known, r, cursor))
        BY <2>2 DEF OnWay
      <3>4. /\ Cardinality(Before(known, r, cursor)) \in Nat
            /\ Cardinality(Before(known, r, cursor)) < Cardinality(Images)
        BY <3>1, ReadBefore
      <3>5. Cardinality(Images) \in Nat /\ MaxModules \in Nat
        BY FS_CardinalityType, DiscoveryAssumption
      <3> QED BY <3>2, <3>3, <3>4, <3>5
    <2>4. Steady \subseteq Modules /\ Modules' = Modules
      BY <2>1, <2>2, <2>3 DEF OnWay, Modules
    <2> QED BY <1>1, <2>1, <2>4 DEF ListInv
  <1>6. CASE Probe \/ FindLooseCode
    <2>1. stage = "probe" /\ stage' \in {"probe", "done"} /\ loader' = loader
      BY <1>6 DEF Probe, FindLooseCode
    <2> QED BY <1>1, <2>1 DEF ListInv, Modules
  <1> QED BY <1>2, <1>3, <1>4, <1>5, <1>6, <1>7 DEF Scan

LEMMA LinkKeepsList ==
    ASSUME DiscoveryTypeOK, ListInv, NEW a \in Areas, Link(a)
    PROVE  ListInv'
  <1> SUFFICES ASSUME ~gone', ~cut' PROVE ListInv'
    BY DEF ListInv
  <1>1. /\ UNCHANGED <<stage, cursor, steps, loader>> /\ ~gone /\ ~cut /\ a \notin linked
        /\ linked' = linked \cup {a} /\ live' = live \cup {a} /\ wiped' = wiped \ {a}
        /\ relinked' = relinked \cup {a} /\ (stage = "list" => a \notin relinked)
    BY DEF Link, Changes, scan
  <1>2. PICK tail \in linked \cup {Anchor} :
          flink[tail] = Anchor /\ flink' = [flink EXCEPT ![tail] = a, ![a] = Anchor]
    BY DEF Link
  <1>3. Steady' = Steady /\ linked \subseteq live /\ Steady \cap wiped = {}
    BY <1>1 DEF Steady, ListInv
  <1>4. /\ flink \in [Areas \cup {Anchor} -> Areas \cup {Anchor, Null}]
        /\ live \subseteq Images /\ Anchor \notin live
    BY DiscoveryAssumption DEF DiscoveryTypeOK
  <1>5. ASSUME NEW known \in SUBSET live, NEW r \in [Areas \cup {Anchor} -> Nat], NEW n \in Nat,
               Ordered(known, linked, Steady, flink, r, n), a \notin known
        PROVE  LET q == [r EXCEPT ![a] = n + 1]
               IN  /\ Ordered(known \cup {a}, linked', Steady', flink', q, n + 1)
                   /\ q \in [Areas \cup {Anchor} -> Nat] /\ n + 1 \in Nat
                   /\ \A c \in known \cup {Anchor} : q[c] = r[c]
                   /\ \A c \in known : Before(known \cup {a}, q, c) = Before(known, r, c)
    <2> DEFINE q == [r EXCEPT ![a] = n + 1]
    <2>1. Ordered(known \cup {a}, linked', Steady', flink', q, n + 1)
      BY <1>1, <1>2, <1>3, <1>4, <1>5, OrderedLink
    <2>2. q \in [Areas \cup {Anchor} -> Nat] /\ n + 1 \in Nat /\ q[a] = n + 1
      OBVIOUS
    <2>3. \A c \in known \cup {Anchor} : q[c] = r[c]
      BY <1>5, DiscoveryAssumption
    <2>4. \A c \in known : r[c] \in Nat /\ r[c] <= n
      BY <1>5 DEF Ordered, Ranked
    <2> HIDE DEF q
    <2>5. \A c \in known : Before(known \cup {a}, q, c) = Before(known, r, c)
      BY <2>2, <2>3, <2>4 DEF Before
    <2> QED BY <2>1, <2>2, <2>3, <2>5 DEF q
  <1>6. CASE stage \in {"walk", "peb", "ldr"}
    <2>1. PICK r \in [Areas \cup {Anchor} -> Nat], n \in Nat :
                 Ordered(linked, linked, Steady, flink, r, n)
      BY <1>1, <1>6 DEF ListInv
    <2> DEFINE q == [r EXCEPT ![a] = n + 1]
    <2>2. /\ Ordered(linked', linked', Steady', flink', q, n + 1)
          /\ q \in [Areas \cup {Anchor} -> Nat] /\ n + 1 \in Nat
      BY <1>1, <1>3, <1>5, <2>1
    <2> HIDE DEF q
    <2>3. steps' = 0
      BY <1>1, <1>6 DEF ListInv
    <2>4. linked' \subseteq live' /\ Steady' \cap wiped' = {}
      BY <1>1, <1>3
    <2> QED BY <1>1, <1>6, <2>2, <2>3, <2>4 DEF ListInv
  <1>7. CASE stage = "list"
    <2>1. PICK known \in SUBSET (live \cap (linked \cup relinked)),
               r \in [Areas \cup {Anchor} -> Nat], n \in Nat :
                  Ordered(known, linked, Steady, flink, r, n) /\ OnWay(known, r)
      BY <1>1, <1>7 DEF ListInv
    <2>2. a \notin known
      BY <1>1, <1>7, <2>1
    <2> DEFINE q == [r EXCEPT ![a] = n + 1]
    <2>3. /\ Ordered(known \cup {a}, linked', Steady', flink', q, n + 1)
          /\ q \in [Areas \cup {Anchor} -> Nat] /\ n + 1 \in Nat
          /\ \A c \in known \cup {Anchor} : q[c] = r[c]
          /\ \A c \in known : Before(known \cup {a}, q, c) = Before(known, r, c)
      BY <1>5, <2>1, <2>2
    <2> HIDE DEF q
    <2>4. Steady \subseteq known
      BY <2>1 DEF Ordered
    <2>5. OnWay(known \cup {a}, q)'
      <3>1. cursor' \in (known \cup {a}) \cup {Anchor} /\ cursor \in known \cup {Anchor}
        BY <1>1, <2>1 DEF OnWay
      <3>2. Modules' = Modules
        BY <1>1 DEF Modules
      <3>3. \A c \in Steady' : c \in Modules' \/ (cursor' # Anchor /\ q[cursor'] <= q[c])
        BY <1>1, <1>3, <2>1, <2>3, <2>4, <3>1, <3>2 DEF OnWay
      <3>4. cursor' # Anchor => steps' <= Cardinality(Before(known \cup {a}, q, cursor'))
        BY <1>1, <2>1, <2>3, <3>1 DEF OnWay
      <3> QED BY <3>1, <3>3, <3>4 DEF OnWay, Before
    <2>6. known \cup {a} \in SUBSET (live' \cap (linked' \cup relinked'))
      BY <1>1, <2>1
    <2>7. linked' \subseteq live' /\ Steady' \cap wiped' = {}
      BY <1>1, <1>3
    <2> QED BY <1>1, <1>7, <2>3, <2>5, <2>6, <2>7 DEF ListInv
  <1>8. CASE stage \notin {"walk", "peb", "ldr", "list"}
    <2>1. linked' \subseteq live' /\ Steady' \cap wiped' = {}
      BY <1>1, <1>3
    <2> QED BY <1>1, <1>3, <1>8, <2>1 DEF ListInv, Modules
  <1> QED BY <1>6, <1>7, <1>8

LEMMA UnlinkKeepsList ==
    ASSUME DiscoveryTypeOK, ListInv, NEW a \in Areas, Unlink(a)
    PROVE  ListInv'
  <1> SUFFICES ASSUME ~gone', ~cut' PROVE ListInv'
    BY DEF ListInv
  <1>1. /\ UNCHANGED <<stage, cursor, steps, loader, live, wiped>> /\ ~gone /\ ~cut
        /\ a \in linked /\ linked' = linked \ {a} /\ relinked' = relinked \cup {a}
    BY DEF Unlink, Changes, scan
  <1>2. PICK p \in linked \cup {Anchor} :
          flink[p] = a /\ flink' = [flink EXCEPT ![p] = flink[a]]
    BY DEF Unlink
  <1>3. /\ Steady' = Steady \ {a} /\ linked' \subseteq live' /\ Steady' \cap wiped' = {}
        /\ Modules' = Modules
    BY <1>1 DEF Steady, ListInv, Modules
  <1>4. /\ flink \in [Areas \cup {Anchor} -> Areas \cup {Anchor, Null}]
        /\ live \subseteq Images /\ Anchor \notin live
    BY DiscoveryAssumption DEF DiscoveryTypeOK
  <1>5. ASSUME NEW known \in SUBSET live, NEW r, NEW n,
               Ordered(known, linked, Steady, flink, r, n)
        PROVE  Ordered(known, linked', Steady', flink', r, n)
    BY <1>1, <1>2, <1>3, <1>4, <1>5, OrderedUnlink
  <1>6. CASE stage \in {"walk", "peb", "ldr"}
    <2>1. PICK r \in [Areas \cup {Anchor} -> Nat], n \in Nat :
                 Ordered(linked, linked, Steady, flink, r, n)
      BY <1>1, <1>6 DEF ListInv
    <2>2. linked \subseteq live
      BY <1>1 DEF ListInv
    <2>3. Ordered(linked', linked', Steady', flink', r, n)
      BY <1>5, <2>1, <2>2, OrderedList
    <2>4. steps' = 0
      BY <1>1, <1>6 DEF ListInv
    <2> QED BY <1>1, <1>3, <1>6, <2>3, <2>4 DEF ListInv
  <1>7. CASE stage = "list"
    <2>1. PICK known \in SUBSET (live \cap (linked \cup relinked)),
               r \in [Areas \cup {Anchor} -> Nat], n \in Nat :
                  Ordered(known, linked, Steady, flink, r, n) /\ OnWay(known, r)
      BY <1>1, <1>7 DEF ListInv
    <2>2. Ordered(known, linked', Steady', flink', r, n)
      BY <1>5, <2>1
    <2>3. OnWay(known, r)'
      BY <1>1, <1>3, <2>1 DEF OnWay, Before
    <2>4. known \in SUBSET (live' \cap (linked' \cup relinked'))
      BY <1>1, <2>1
    <2> QED BY <1>1, <1>3, <1>7, <2>2, <2>3, <2>4 DEF ListInv
  <1>8. CASE stage \notin {"walk", "peb", "ldr", "list"}
    BY <1>1, <1>3, <1>8 DEF ListInv
  <1> QED BY <1>6, <1>7, <1>8

LEMMA SameList ==
    ASSUME ListInv, UNCHANGED <<linked, flink, live, wiped, gone, relinked, cut,
                                stage, cursor, steps, loader>>
    PROVE  ListInv'
  <1>1. Steady' = Steady /\ Modules' = Modules
    BY DEF Steady, Modules
  <1>2. \A known, r : OnWay(known, r)' <=> OnWay(known, r)
    BY <1>1 DEF OnWay, Before
  <1> QED BY <1>1, <1>2 DEF ListInv

LEMMA TargetKeepsList ==
    ASSUME DiscoveryTypeOK, ListInv, Target
    PROVE  ListInv'
  <1> SUFFICES ASSUME ~gone', ~cut' PROVE ListInv'
    BY DEF ListInv
  <1>1. UNCHANGED <<stage, cursor, steps, loader>>
    BY TargetLeavesScan DEF scan
  <1>2. PICK a \in Areas :
          \/ Map(a) \/ Unmap(a) \/ Protect(a) \/ RewriteHeader(a)
          \/ Link(a) \/ Unlink(a) \/ FreeEntry(a) \/ WipeBase(a) \/ Tamper(a)
    BY DEF Target, Exit
  <1>3. CASE Map(a) \/ Unmap(a) \/ Protect(a) \/ RewriteHeader(a)
    <2>1. UNCHANGED <<linked, flink, live, wiped, gone, relinked, cut>>
      BY <1>3 DEF Map, Unmap, Protect, RewriteHeader
    <2> QED BY <1>1, <2>1, SameList
  <1>4. CASE FreeEntry(a)
    <2>1. /\ UNCHANGED <<linked, flink, wiped, gone, relinked>> /\ live' = live \ {a}
          /\ a \notin linked /\ ~cut /\ stage # "list"
      BY <1>4 DEF FreeEntry
    <2> QED BY <1>1, <2>1 DEF ListInv, Steady, Modules
  <1>5. CASE WipeBase(a)
    <2>1. /\ UNCHANGED <<linked, flink, live, gone, cut>>
          /\ wiped' = wiped \cup {a} /\ relinked' = relinked \cup {a}
      BY <1>5 DEF WipeBase
    <2>2. Steady' = Steady \ {a} /\ Modules' = Modules
      BY <1>1, <2>1 DEF Steady, Modules
    <2>3. \A known, r, n : Ordered(known, linked, Steady, flink, r, n)
                              => Ordered(known, linked', Steady', flink', r, n)
      BY <2>1, <2>2, OrderedLess
    <2>4. \A known, r : OnWay(known, r) => OnWay(known, r)'
      BY <1>1, <2>2 DEF OnWay, Before
    <2>5. stage = "list" =>
            \E known \in SUBSET (live' \cap (linked' \cup relinked')),
               r \in [Areas \cup {Anchor} -> Nat], n \in Nat :
                  Ordered(known, linked', Steady', flink', r, n) /\ OnWay(known, r)'
      <3> SUFFICES ASSUME stage = "list"
                   PROVE  \E known \in SUBSET (live' \cap (linked' \cup relinked')),
                             r \in [Areas \cup {Anchor} -> Nat], n \in Nat :
                                Ordered(known, linked', Steady', flink', r, n) /\ OnWay(known, r)'
        OBVIOUS
      <3>1. PICK known \in SUBSET (live \cap (linked \cup relinked)),
                 r \in [Areas \cup {Anchor} -> Nat], n \in Nat :
                    Ordered(known, linked, Steady, flink, r, n) /\ OnWay(known, r)
        BY <2>1 DEF ListInv
      <3>2. known \in SUBSET (live' \cap (linked' \cup relinked'))
        BY <2>1
      <3> QED BY <2>3, <2>4, <3>1, <3>2
    <2> QED BY <1>1, <2>1, <2>2, <2>3, <2>5 DEF ListInv
  <1>6. CASE Link(a)
    BY <1>6, LinkKeepsList
  <1>7. CASE Unlink(a)
    BY <1>7, UnlinkKeepsList
  <1>8. CASE Tamper(a)
    BY <1>8 DEF Tamper
  <1> QED BY <1>2, <1>3, <1>4, <1>5, <1>6, <1>7, <1>8

(***************************************************************************)
(* A module that stays in the loader's list is found there (peb.rs), and   *)
(* is not reported as hidden (scan.rs), whatever is linked and unlinked    *)
(* around it during the walk, as long as no entry that the walk may stand  *)
(* on is freed or overwritten, and there are no more images than the walk  *)
(* reads entries.                                                          *)
(***************************************************************************)
THEOREM SteadyModulesListed ==
    ASSUME IsFiniteSet(Images), Cardinality(Images) <= MaxModules
    PROVE  DiscoverySpec => []LoadedListed
  <1>1. DiscoveryTypeOK /\ ListInv /\ [Next]_vars => ListInv'
    <2> SUFFICES ASSUME DiscoveryTypeOK, ListInv, [Next]_vars PROVE ListInv'
      OBVIOUS
    <2>1. CASE UNCHANGED vars
      BY <2>1, SameList DEF vars, target, scan, history
    <2> QED BY <2>1, ScanKeepsList, TargetKeepsList DEF Next, Finished
  <1>2. ListInv /\ ProbeInv => LoadedListed
    BY DEF ListInv, ProbeInv, HiddenProbed, Steady, LoadedListed
  <1> QED BY <1>1, <1>2, InitList, ReportTyped, SpecProbe, PTL DEF DiscoverySpec
=============================================================================
