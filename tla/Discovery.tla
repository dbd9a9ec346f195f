------------------------------ MODULE Discovery ------------------------------
(***************************************************************************)
(* Discovery (discovery/walk.rs, peb.rs, scan.rs) of a target that runs    *)
(* meanwhile: one VirtualQueryEx per region, one read per loader entry and *)
(* one header probe per allocation, between which the target maps, links,  *)
(* unlinks and unmaps modules, allocates and protects private memory,      *)
(* rewrites headers, tampers with the loader's list, or exits.             *)
(*                                                                         *)
(* Addresses are pages 1..LastPage.  An area is the place of one           *)
(* allocation, mapped or not; an image area also names the loader's entry  *)
(* of the module that is mapped there.                                     *)
(***************************************************************************)
EXTENDS Naturals, Sequences, FiniteSets

CONSTANTS
    LastPage,      \* the end of user space
    Areas,
    Images,        \* the areas that hold images (MEM_IMAGE), the others are private
    First, Size,   \* of every area: its first page and the number of its pages
    ImageSize,     \* of every area: SizeOfImage in its header and loader entry, in pages
    Loaded,        \* the loader's list when the scan starts
    Anchor, Null,    \* the list head in PEB_LDR_DATA, and a null link
    Free,          \* stands for the area of a page that is not committed
    MaxModules,    \* peb.rs, MAX_MODULES
    MaxChanges     \* bound: how often the target changes something

Pages == 1 .. LastPage
PagesOf(a) == First[a] .. (First[a] + Size[a] - 1)
Listed == {Loaded[i] : i \in DOMAIN Loaded}

ASSUME DiscoveryAssumption ==
    /\ LastPage \in Nat \ {0}
    /\ Images \subseteq Areas
    /\ First \in [Areas -> Pages] /\ Size \in [Areas -> Nat \ {0}]
    /\ ImageSize \in [Areas -> Nat]
    /\ \A a \in Areas : PagesOf(a) \subseteq Pages
    /\ \A a, b \in Areas : a # b => PagesOf(a) \cap PagesOf(b) = {}
    /\ Loaded \in Seq(Images)
    /\ \A i, j \in DOMAIN Loaded : i # j => Loaded[i] # Loaded[j]
    /\ Anchor \notin Areas /\ Null \notin Areas /\ Anchor # Null /\ Free \notin Areas
    /\ MaxModules \in Nat /\ MaxChanges \in Nat

VARIABLES
    mapped,    \* areas that are allocated
    exec,      \* pages that are executable
    header,    \* areas whose first page holds a PE header that parse_head accepts
    linked,    \* areas whose entry is in the loader's list
    flink,     \* the forward links, in the target's memory
    live,      \* areas whose entry can be read
    wiped,     \* areas whose entry has lost its dll_base
    gone,      \* the target has exited
    changes

target == <<mapped, exec, header, linked, flink, live, wiped, gone, changes>>

VARIABLES
    stage,     \* "walk", "peb", "ldr", "list", "probe", "done", "failed"
    cursor,    \* next address of the walk, next entry of the list, next region to probe
    regions,   \* what the walk has found
    steps,     \* entries read
    loader,    \* the areas of the loader modules, in the order read
    hidden,    \* the areas of the hidden modules
    chunks     \* the loose code

scan == <<stage, cursor, regions, steps, loader, hidden, chunks>>

VARIABLES
    dirty,     \* history: pages the target has changed since the scan began
    relinked,  \* history: areas linked or unlinked since
    cut        \* history: an entry was freed, re-used or overwritten during the list walk

history == <<dirty, relinked, cut>>
vars == <<target, scan, history>>

-----------------------------------------------------------------------------
\* The loader's list as the links of a sequence of entries.
LinksOf(list) == [e \in Areas \cup {Anchor} |->
    LET at == {i \in DOMAIN list : list[i] = e}
        i == IF e = Anchor THEN 0 ELSE CHOOSE k \in at : TRUE
    IN  IF e # Anchor /\ at = {} THEN Null
        ELSE IF i = Len(list) THEN Anchor ELSE list[i + 1]]

\* A scan of a process whose listed modules are mapped, with any private memory.
Init ==
    /\ mapped \in {m \in SUBSET Areas : Images \cap m = Listed}
    /\ exec = UNION {PagesOf(a) \ {First[a]} : a \in mapped}
    /\ header = mapped
    /\ linked = Listed
    /\ flink = LinksOf(Loaded)
    /\ live = Listed
    /\ wiped = {}
    /\ gone = FALSE
    /\ changes = 0
    /\ stage = "walk"
    /\ cursor = 1
    /\ regions = <<>>
    /\ steps = 0
    /\ loader = <<>>
    /\ hidden = <<>>
    /\ chunks = {}
    /\ dirty = {}
    /\ relinked = {}
    /\ cut = FALSE

-----------------------------------------------------------------------------
(* The target.                                                             *)
Changes ==
    /\ ~gone
    /\ changes < MaxChanges
    /\ stage \notin {"done", "failed"}
    /\ changes' = changes + 1
    /\ UNCHANGED scan

\* An area is mapped with some of its pages executable, and with a header or not.
Map(a) ==
    /\ Changes
    /\ a \notin mapped
    /\ mapped' = mapped \cup {a}
    /\ \E x \in SUBSET PagesOf(a) : exec' = exec \cup x
    /\ header' \in {header, header \cup {a}}
    /\ dirty' = dirty \cup PagesOf(a)
    /\ UNCHANGED <<linked, flink, live, wiped, gone, relinked, cut>>

Unmap(a) ==
    /\ Changes
    /\ a \in mapped \ linked
    /\ mapped' = mapped \ {a}
    /\ exec' = exec \ PagesOf(a)
    /\ header' = header \ {a}
    /\ dirty' = dirty \cup PagesOf(a)
    /\ UNCHANGED <<linked, flink, live, wiped, gone, relinked, cut>>

Protect(a) ==
    /\ Changes
    /\ a \in mapped
    /\ \E p \in PagesOf(a) :
         /\ exec' = IF p \in exec THEN exec \ {p} ELSE exec \cup {p}
         /\ dirty' = dirty \cup {p}
    /\ UNCHANGED <<mapped, header, linked, flink, live, wiped, gone, relinked, cut>>

\* A packer erases its header, or unpacks an image over its memory.
RewriteHeader(a) ==
    /\ Changes
    /\ a \in mapped
    /\ header' = IF a \in header THEN header \ {a} ELSE header \cup {a}
    /\ dirty' = dirty \cup {First[a]}
    /\ UNCHANGED <<mapped, exec, linked, flink, live, wiped, gone, relinked, cut>>

\* The loader appends an entry; one that was in the list before is used again.
Link(a) ==
    /\ Changes
    /\ a \in (mapped \cap Images) \ linked
    /\ \E tail \in linked \cup {Anchor} :
         /\ flink[tail] = Anchor
         /\ flink' = [flink EXCEPT ![tail] = a, ![a] = Anchor]
    /\ linked' = linked \cup {a}
    /\ live' = live \cup {a}
    /\ wiped' = wiped \ {a}
    /\ relinked' = relinked \cup {a}
    /\ cut' = (cut \/ (stage = "list" /\ a \in relinked))
    /\ UNCHANGED <<mapped, exec, header, gone, dirty>>

\* The loader takes an entry out; its own links are left as they were.
Unlink(a) ==
    /\ Changes
    /\ a \in linked
    /\ \E e \in linked \cup {Anchor} :
         /\ flink[e] = a
         /\ flink' = [flink EXCEPT ![e] = flink[a]]
    /\ linked' = linked \ {a}
    /\ relinked' = relinked \cup {a}
    /\ UNCHANGED <<mapped, exec, header, live, wiped, gone, dirty, cut>>

FreeEntry(a) ==
    /\ Changes
    /\ a \in live \ linked
    /\ live' = live \ {a}
    /\ cut' = (cut \/ stage = "list")
    /\ UNCHANGED <<mapped, exec, header, linked, flink, wiped, gone, dirty, relinked>>

\* Tampering: the base of a module is wiped, or a link points anywhere.
WipeBase(a) ==
    /\ Changes
    /\ a \in linked \ wiped
    /\ wiped' = wiped \cup {a}
    /\ relinked' = relinked \cup {a}
    /\ UNCHANGED <<mapped, exec, header, linked, flink, live, gone, dirty, cut>>

Tamper(a) ==
    /\ Changes
    /\ a \in linked
    /\ \E e \in Areas \cup {Anchor, Null} : flink' = [flink EXCEPT ![a] = e]
    /\ cut' = TRUE
    /\ UNCHANGED <<mapped, exec, header, linked, live, wiped, gone, dirty, relinked>>

Exit ==
    /\ Changes
    /\ gone' = TRUE
    /\ UNCHANGED <<mapped, exec, header, linked, flink, live, wiped, history>>

-----------------------------------------------------------------------------
(* The scan.                                                               *)

\* What VirtualQueryEx tells of a page, and how many pages from p on are alike.
AreaAt(p) == IF \E a \in mapped : p \in PagesOf(a)
             THEN CHOOSE a \in mapped : p \in PagesOf(a) ELSE Free
Alike(p, q) == AreaAt(p) = AreaAt(q) /\ (p \in exec <=> q \in exec)
RunLength(p) == CHOOSE n \in 1 .. LastPage :
    /\ p + n - 1 <= LastPage
    /\ \A k \in 0 .. (n - 1) : Alike(p, p + k)
    /\ p + n <= LastPage => ~Alike(p, p + n)

Region(p) == [base |-> p, size |-> RunLength(p), alloc |-> AreaAt(p), exec |-> p \in exec]

\* A walk that goes on one page behind the region.
Mutant_Walk ==
    /\ stage = "walk"
    /\ ~gone /\ cursor <= LastPage
    /\ regions' = IF AreaAt(cursor) = Free THEN regions ELSE Append(regions, Region(cursor))
    /\ cursor' = cursor + RunLength(cursor) + 1
    /\ UNCHANGED <<stage, steps, loader, hidden, chunks, target, history>>

\* enumerate_regions, one turn of the loop: committed regions are kept.
Walk ==
    /\ stage = "walk"
    /\ ~gone /\ cursor <= LastPage
    /\ regions' = IF AreaAt(cursor) = Free THEN regions ELSE Append(regions, Region(cursor))
    /\ cursor' = cursor + RunLength(cursor)
    /\ UNCHANGED <<stage, steps, loader, hidden, chunks, target, history>>

\* The query returns nothing behind the last page, nor of a process that is gone.
WalkEnds ==
    /\ stage = "walk"
    /\ gone \/ cursor > LastPage
    /\ stage' = "peb"
    /\ UNCHANGED <<cursor, regions, steps, loader, hidden, chunks, target, history>>

\* read_peb.  A process that has no loader data yet has no modules.
ReadPeb ==
    /\ stage = "peb"
    /\ \/ gone /\ stage' = "failed" /\ UNCHANGED cursor
       \/ ~gone /\ stage' = "ldr" /\ UNCHANGED cursor
       \/ ~gone /\ linked = {} /\ stage' = "probe" /\ cursor' = 1
    /\ UNCHANGED <<regions, steps, loader, hidden, chunks, target, history>>

\* The loader data with the head of the list: an error ends the scan, as in ReadPeb.
ReadLdr ==
    /\ stage = "ldr"
    /\ IF gone
       THEN stage' = "failed" /\ UNCHANGED cursor
       ELSE stage' = "list" /\ cursor' = flink[Anchor]
    /\ UNCHANGED <<regions, steps, loader, hidden, chunks, target, history>>

MoreEntries == cursor # Anchor /\ cursor # Null /\ steps < MaxModules
EntryReadable == ~gone /\ cursor \in live

\* The cap counts modules instead of entries.
Mutant_ReadEntry ==
    /\ stage = "list"
    /\ MoreEntries /\ EntryReadable
    /\ steps' = IF cursor \in wiped THEN steps ELSE steps + 1
    /\ loader' = IF cursor \in wiped THEN loader ELSE Append(loader, cursor)
    /\ cursor' = flink[cursor]
    /\ UNCHANGED <<stage, regions, hidden, chunks, target, history>>

\* The walk takes an entry without a base for the end of the list.
Mutant_StopAtWiped ==
    /\ stage = "list"
    /\ MoreEntries /\ EntryReadable
    /\ steps' = steps + 1
    /\ loader' = IF cursor \in wiped THEN loader ELSE Append(loader, cursor)
    /\ cursor' = IF cursor \in wiped THEN Anchor ELSE flink[cursor]
    /\ UNCHANGED <<stage, regions, hidden, chunks, target, history>>

\* enumerate_loader_modules, one turn of the loop.
ReadEntry ==
    /\ stage = "list"
    /\ MoreEntries /\ EntryReadable
    /\ steps' = steps + 1
    /\ loader' = IF cursor \in wiped THEN loader ELSE Append(loader, cursor)
    /\ cursor' = flink[cursor]
    /\ UNCHANGED <<stage, regions, hidden, chunks, target, history>>

\* A read that fails just ends the walk.
ListEnds ==
    /\ stage = "list"
    /\ ~MoreEntries \/ ~EntryReadable
    /\ stage' = "probe"
    /\ cursor' = 1
    /\ UNCHANGED <<regions, steps, loader, hidden, chunks, target, history>>

Modules == {loader[i] : i \in DOMAIN loader}
SeenBefore(i) == \E k \in 1 .. (i - 1) : regions[k].alloc = regions[i].alloc

\* Every region is probed, not every allocation.
Mutant_Probe ==
    /\ stage = "probe"
    /\ cursor <= Len(regions)
    /\ LET a == regions[cursor].alloc
       IN  hidden' = IF a \notin Modules /\ ~gone /\ a \in header
                     THEN Append(hidden, a) ELSE hidden
    /\ cursor' = cursor + 1
    /\ UNCHANGED <<stage, regions, steps, loader, chunks, target, history>>

\* find_hidden_modules, one turn of the loop: the header is read only now.
Probe ==
    /\ stage = "probe"
    /\ cursor <= Len(regions)
    /\ LET a == regions[cursor].alloc
       IN  hidden' = IF ~SeenBefore(cursor) /\ a \notin Modules /\ ~gone /\ a \in header
                     THEN Append(hidden, a) ELSE hidden
    /\ cursor' = cursor + 1
    /\ UNCHANGED <<stage, regions, steps, loader, chunks, target, history>>

HiddenModules == {hidden[i] : i \in DOMAIN hidden}
InModule(p, a) == First[a] <= p /\ p < First[a] + ImageSize[a]

Mutant_Covered(p) == \E a \in Modules \cup HiddenModules :
    First[a] <= p /\ p <= First[a] + ImageSize[a]
Covered(p) == \E a \in Modules \cup HiddenModules : InModule(p, a)

\* find_loose_code, on what has been read.
FindLooseCode ==
    /\ stage = "probe"
    /\ cursor > Len(regions)
    /\ chunks' = {r \in {regions[i] : i \in DOMAIN regions} :
                    r.exec /\ r.alloc \notin Images /\ ~Covered(r.base)}
    /\ stage' = "done"
    /\ UNCHANGED <<cursor, regions, steps, loader, hidden, target, history>>

Scan == Walk \/ WalkEnds \/ ReadPeb \/ ReadLdr \/ ReadEntry \/ ListEnds \/ Probe \/ FindLooseCode

Target ==
    \/ Exit
    \/ \E a \in Areas :
         \/ Map(a) \/ Unmap(a) \/ Protect(a) \/ RewriteHeader(a)
         \/ Link(a) \/ Unlink(a) \/ FreeEntry(a) \/ WipeBase(a) \/ Tamper(a)

Finished == stage \in {"done", "failed"} /\ UNCHANGED vars

Next == Scan \/ Target \/ Finished

DiscoverySpec == Init /\ [][Next]_vars /\ WF_vars(Scan)

-----------------------------------------------------------------------------
RegionRecords == [base : Pages, size : Pages, alloc : Areas, exec : BOOLEAN]

(* The regions, modules and chunks of a report are of the kinds promised.  *)
DiscoveryTypeOK ==
    /\ mapped \in SUBSET Areas /\ exec \in SUBSET Pages /\ header \in SUBSET mapped
    /\ linked \in SUBSET (Images \cap mapped)
    /\ flink \in [Areas \cup {Anchor} -> Areas \cup {Anchor, Null}]
    /\ live \in SUBSET Images /\ wiped \in SUBSET Images
    /\ gone \in BOOLEAN /\ changes \in 0 .. MaxChanges
    /\ stage \in {"walk", "peb", "ldr", "list", "probe", "done", "failed"}
    /\ stage = "walk" => cursor \in 1 .. (LastPage + 1)
    /\ stage = "list" => cursor \in Areas \cup {Anchor, Null}
    /\ stage = "probe" => cursor \in 1 .. (Len(regions) + 1)
    /\ regions \in Seq(RegionRecords) /\ loader \in Seq(Images) /\ hidden \in Seq(Areas)
    /\ steps \in 0 .. MaxModules
    /\ chunks \in SUBSET RegionRecords

RegionPages(r) == r.base .. (r.base + r.size - 1)
RegionsOf(p) == {i \in DOMAIN regions : p \in RegionPages(regions[i])}

(* The walk is not atomic, yet of every page that kept its mapping and     *)
(* protection it tells the truth: a committed one is in one region with    *)
(* its allocation and protection, a free one in none.                      *)
RegionsFaithful ==
    stage \notin {"walk", "failed"} /\ ~gone => \A p \in Pages \ dirty :
        IF AreaAt(p) = Free THEN RegionsOf(p) = {}
        ELSE \E i \in DOMAIN regions :
                /\ RegionsOf(p) = {i}
                /\ regions[i].alloc = AreaAt(p)
                /\ regions[i].exec <=> p \in exec

(* A module that is in the loader's list all the time is found there, and  *)
(* never reported as hidden, whatever is linked, unlinked and unmapped     *)
(* around it while the list is walked: unless an entry the walk may stand  *)
(* on is freed, used again or overwritten.                                 *)
LoadedListed ==
    stage \in {"probe", "done"} /\ ~gone /\ ~cut =>
        \A a \in linked \ relinked : a \in Modules \ HiddenModules

(* Nothing that stays in place is lost or dumped twice: an image with a    *)
(* header that the list does not name is one hidden module, and executable *)
(* private code is in exactly one module or chunk (of modules whose        *)
(* SizeOfImage covers their allocation).                                   *)
Dumps(p) == Cardinality({a \in Modules \cup HiddenModules : InModule(p, a)})
            + Cardinality({r \in chunks : p \in RegionPages(r)})
CodeFoundOnce ==
    stage = "done" /\ ~gone =>
        /\ \A a \in header \ Modules : PagesOf(a) \cap dirty = {} =>
              Cardinality({i \in DOMAIN hidden : hidden[i] = a}) = 1
        /\ \A a \in mapped \ Images : \A p \in (PagesOf(a) \cap exec) \ dirty :
              (ImageSize[a] >= Size[a] => Dumps(p) = 1) /\ Dumps(p) <= 1

(* The scan ends, on a cyclic list of entries without a base too.          *)
ScanEnds == <>(stage \in {"done", "failed"})
=============================================================================
