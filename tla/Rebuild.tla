------------------------------- MODULE Rebuild -------------------------------
(***************************************************************************)
(* One module or code region of a target, from its comparison with the     *)
(* file (discovery/diff.rs) to the bytes of its artifact (reconstruct/,    *)
(* lib.rs dump_target, sweep_dump_main, dump_deps), read while the target  *)
(* writes to its memory, changes or erases its header and protects pages.  *)
(*                                                                         *)
(* Addresses are relative to the start of the module or region, which is   *)
(* on a page boundary.  A header lies in page 0; a read call is one step.  *)
(***************************************************************************)
EXTENDS Integers, ModuleDiff, Imports

CONSTANTS
    Scenarios,     \* the modules and regions to dump, with what the target does to them
    NoHeader,      \* memory that does not parse as a PE header
    NoFile,        \* no artifact
    NoOep          \* no original entry point was caught

\* What a scenario gives memory to: everything that it may have the dump read.
ASSUME RebuildAssumption ==
    /\ NoHeader \notin Headers
    /\ SectionHeaderEnd(1) <= PageSize   \* of a synthesized header, whose page comes first
    /\ \A s \in Scenarios :
        /\ s.kind \in {"main", "dep", "hidden", "chunk"}
        /\ s.size \in Nat \ {0}
        /\ {s.header} \cup s.headers \subseteq Headers \cup {NoHeader}
        /\ IsFiniteSet(DOMAIN s.mem)
        /\ \A a \in DOMAIN s.mem : a \in Nat /\ a % Ptr = 0
        /\ \A g, h \in ({s.header} \cup s.headers) \ {NoHeader} :   \* no header is cut within
              Alignable(h, g.soi) => SectionHeaderEnd(Len(h.secs)) <= g.soi
        /\ \A len \in {s.size} \cup {h.soi : h \in ({s.header} \cup s.headers) \ {NoHeader}} :
              Cells(0, len) \subseteq DOMAIN s.mem
        /\ s.kind \in {"main", "dep"} /\ s.disk.found =>
              IsFile(s.disk) /\ Cells(0, s.disk.soi) \subseteq DOMAIN s.mem
        /\ s.patches \subseteq (DOMAIN s.mem) \X Nat
        /\ s.changes \in Nat

VARIABLES
    scenario,
    header, mem, bad,  \* the target: its header, cells and unreadable pages
    changes,           \* how often it may still change
    stage,
    section,           \* the section of the file to be compared next
    diff,              \* ModuleDiff
    soi,               \* bytes to read
    chunk,             \* the chunk to be read next; 0: all at once
    buf,               \* what has been read: header, cells, gaps
    file,              \* the artifact
    had,               \* history: the values of every cell since the dump began
    headers,           \* history: the headers since then
    wasBad, wasGood    \* history: the pages that were unreadable, or readable, then

targetVars == <<header, mem, bad, changes, had, headers, wasBad, wasGood>>
readVars == <<soi, chunk, buf>>
rebuildVars == <<scenario, targetVars, stage, section, diff, readVars, file>>

Pages == {Page(a) : a \in DOMAIN mem}
NothingRead == [head |-> NoHeader, cells |-> <<>>, gaps |-> {}]

RebuildInit ==
    /\ scenario \in Scenarios
    /\ header = scenario.header /\ mem = scenario.mem /\ bad = scenario.bad
    /\ changes = scenario.changes
    /\ stage = CASE scenario.kind \in {"main", "dep"} -> "diff"
                 [] scenario.kind = "hidden" -> "head"
                 [] OTHER -> "loose"
    /\ section = 1
    /\ diff = NoDiff
    /\ soi = scenario.size
    /\ chunk = 0 /\ buf = NothingRead
    /\ file = NoFile
    /\ had = [a \in DOMAIN mem |-> {mem[a]}]
    /\ headers = {header}
    /\ wasBad = bad /\ wasGood = Pages \ bad

-----------------------------------------------------------------------------
(* The target, which runs on while it is read.                             *)

TargetChanges ==
    /\ changes > 0
    /\ changes' = changes - 1
    /\ UNCHANGED <<scenario, stage, section, diff, readVars, file>>

Write == \E p \in scenario.patches :
    /\ TargetChanges
    /\ mem' = [mem EXCEPT ![p[1]] = p[2]]
    /\ had' = [had EXCEPT ![p[1]] = @ \cup {p[2]}]
    /\ UNCHANGED <<header, bad, headers, wasBad, wasGood>>

\* It patches its header, or wipes it.
ChangeHeader == \E h \in scenario.headers :
    /\ TargetChanges
    /\ header' = h
    /\ headers' = headers \cup {h}
    /\ UNCHANGED <<mem, bad, had, wasBad, wasGood>>

Protect == \E p \in scenario.guarded :
    /\ TargetChanges
    /\ bad' = IF p \in bad THEN bad \ {p} ELSE bad \cup {p}
    /\ wasBad' = wasBad \cup bad'
    /\ wasGood' = wasGood \cup (Pages \ bad')
    /\ UNCHANGED <<header, mem, had, headers>>

-----------------------------------------------------------------------------
(* diff_module. Its findings of the name and of the header come together   *)
(* in is_hollowed.                                                         *)

HeaderRead == IF Reads(bad, 0, PageSize) THEN header ELSE NoHeader

DiffHead ==
    /\ stage = "diff"
    /\ LET f == scenario.disk
       IN  /\ diff' = [diff EXCEPT !.hollowed =
                 \/ ~f.sameName
                 \/ /\ f.found /\ HeaderRead # NoHeader
                    /\ Modified(f, HeaderRead) \/ Rebased(HeaderRead)]
           /\ stage' = IF f.found /\ HasImage(f) THEN "sections" ELSE "head"
    /\ UNCHANGED <<scenario, targetVars, section, readVars, file>>

DiffSection ==
    /\ stage = "sections"
    /\ LET f == scenario.disk
       IN  IF section \in DOMAIN f.secs
           THEN /\ diff' = IF Comparable(f, section)
                             THEN Add(diff, SectionPatches(f, section, mem, bad))
                             ELSE diff
                /\ section' = section + 1
                /\ UNCHANGED stage
           ELSE /\ stage' = "head"
                /\ UNCHANGED <<diff, section>>
    /\ UNCHANGED <<scenario, targetVars, readVars, file>>

-----------------------------------------------------------------------------
(* dump_module_image and dump_code_chunk.                                  *)

\* Without a usable header a hidden module is dumped as loose memory, of the size
\* that discovery has found; a main image or a dependency is not dumped.
NoImage ==
    /\ IF scenario.kind = "hidden"
         THEN stage' = "loose" /\ soi' = scenario.size
         ELSE stage' = "failed" /\ UNCHANGED soi
    /\ chunk' = 0 /\ buf' = NothingRead

ReadHead ==
    /\ stage = "head"
    /\ IF HeaderRead = NoHeader
         THEN NoImage
         ELSE /\ stage' = "image"
              /\ soi' = HeaderRead.soi
              /\ UNCHANGED <<chunk, buf>>
    /\ UNCHANGED <<scenario, targetVars, section, diff, file>>

Reading == stage \in {"image", "loose"}
AllRead == chunk > Cardinality(Chunks(soi)) \/ soi = 0

\* The fast path of read_best_effort.
ReadWhole ==
    /\ Reading /\ chunk = 0 /\ soi # 0
    /\ IF Reads(bad, 0, soi)
         THEN /\ buf' = [head |-> header, cells |-> [a \in Cells(0, soi) |-> mem[a]],
                         gaps |-> {}]
              /\ chunk' = Cardinality(Chunks(soi)) + 1
         ELSE /\ chunk' = 1
              /\ UNCHANGED buf
    /\ UNCHANGED <<scenario, targetVars, stage, section, diff, soi, file>>

\* Its slow path.
ReadNext ==
    /\ Reading /\ chunk # 0 /\ ~AllRead
    /\ LET k == chunk - 1
           ok == ReadsChunk(bad, 0, soi, k)
           cells == Cells(k * PageSize, ChunkLength(soi, k))
       IN  buf' = [head |-> IF k = 0 /\ ok THEN header ELSE buf.head,
                   cells |-> [a \in DOMAIN buf.cells \cup cells |->
                                IF a \notin cells THEN buf.cells[a]
                                ELSE IF ok THEN mem[a] ELSE 0],
                   gaps |-> IF ok THEN buf.gaps ELSE buf.gaps \cup {k}]
    /\ chunk' = chunk + 1
    /\ UNCHANGED <<scenario, targetVars, stage, section, diff, soi, file>>

Artifact(h, shift, len, cells) ==
    [head |-> h, shift |-> shift, len |-> len, cells |-> cells, objects |-> {},
     gaps |-> Cardinality(buf.gaps)]

\* memory_align of what was read, whatever header it holds by now.
Align ==
    /\ stage = "image" /\ AllRead
    /\ IF buf.head # NoHeader /\ Alignable(buf.head, soi)
         THEN /\ file' = Artifact(MemoryAlign(buf.head), 0, soi, buf.cells)
              /\ stage' = IF scenario.kind = "main" THEN "imports" ELSE "done"
              /\ UNCHANGED readVars
         ELSE NoImage /\ UNCHANGED file
    /\ UNCHANGED <<scenario, targetVars, section, diff>>

\* synthesize_pe, and for a chunk the noise filter; the header page comes first.
Synthesize ==
    /\ stage = "loose" /\ AllRead
    /\ LET h == SynthesizedHeader(soi)
           cells == [o \in Cells(0, h.soi) |->
                       IF o >= PageSize /\ o - PageSize \in DOMAIN buf.cells
                       THEN buf.cells[o - PageSize] ELSE 0]
       IN  IF scenario.kind = "chunk" /\ ~PlausibleCode(cells)
           THEN stage' = "skipped" /\ UNCHANGED file
           ELSE stage' = "done" /\ file' = Artifact(h, PageSize, h.soi, cells)
    /\ UNCHANGED <<scenario, targetVars, section, diff, readVars>>

\* Imports are rebuilt when the header names none.
ResolveImports ==
    /\ stage = "imports"
    /\ file' = IF file.head.imports # 0 THEN file ELSE RebuildImports(file)
    /\ stage' = "entry"
    /\ UNCHANGED <<scenario, targetVars, section, diff, readVars>>

\* The original entry point, if one was caught and is in the artifact.
SetEntry ==
    /\ stage = "entry"
    /\ file' = IF scenario.oep # NoOep /\ scenario.oep < file.len
               THEN [file EXCEPT !.head.entry = scenario.oep] ELSE file
    /\ stage' = "done"
    /\ UNCHANGED <<scenario, targetVars, section, diff, readVars>>

Over == {"done", "failed", "skipped"}

RebuildNext ==
    \/ stage \notin Over /\ (Write \/ ChangeHeader \/ Protect)
    \/ DiffHead \/ DiffSection
    \/ ReadHead \/ ReadWhole \/ ReadNext \/ Align \/ Synthesize
    \/ ResolveImports \/ SetEntry

RebuildSpec == RebuildInit /\ [][RebuildNext]_rebuildVars

-----------------------------------------------------------------------------
(* How a tool loads the artifact: a section is mapped from its raw bytes,  *)
(* zeros behind them.                                                      *)
Holds(s, rva) == s.va <= rva /\ rva < s.va + s.vsize
SectionAt(f, rva) == CHOOSE i \in DOMAIN f.head.secs : Holds(f.head.secs[i], rva)
Mapped(f, rva) == \E i \in DOMAIN f.head.secs : Holds(f.head.secs[i], rva)
Offset(f, rva) ==
    LET s == f.head.secs[SectionAt(f, rva)]
    IN  s.raw + rva - s.va
Backed(f, rva) ==
    Mapped(f, rva) /\ rva < f.head.secs[SectionAt(f, rva)].va + f.head.secs[SectionAt(f, rva)].rawsize
Loaded(f, rva) ==
    IF Backed(f, rva) /\ Offset(f, rva) \in DOMAIN f.cells THEN f.cells[Offset(f, rva)] ELSE 0
ObjectAt(f, rva) ==
    LET here == {x \in f.objects : Backed(f, rva) /\ x[1] = Offset(f, rva)}
    IN  IF here = {} THEN [kind |-> "none"] ELSE (CHOOSE x \in here : TRUE)[2]

\* Every header that the target has had since the dump began gives one SizeOfImage.
SizeStable == \A g, h \in headers \ {NoHeader} : g.soi = h.soi

(* The state has its type.                                                 *)
RebuildTypeOK ==
    /\ DOMAIN mem = DOMAIN had /\ \A a \in DOMAIN mem : mem[a] \in had[a]
    /\ header \in headers
    /\ bad \subseteq wasBad
    /\ stage \in Over \cup {"diff", "sections", "head", "image", "loose", "imports", "entry"}
    /\ soi \in Nat /\ chunk \in Nat
    /\ IF stage \in {"imports", "entry", "done"} THEN DOMAIN file.cells = Cells(0, file.len)
       ELSE file = NoFile

(* The artifact, loaded as its section table says, is the memory of the    *)
(* target: every cell at its address has a value it had while it was       *)
(* dumped; a cell is zeroed only when its own page could not be read       *)
(* (reader.rs:30-31, devirt.rs:4-9, header.rs:24-28), and the pages that   *)
(* the manifest counts as unreadable are such pages.                       *)
CaptureExact ==
    (file # NoFile /\ SizeStable) =>
        LET lost == {p \in Pages : p * PageSize < soi /\ p \in wasBad}
            never == {p \in lost : p \notin wasGood}
        IN  /\ \A a \in Cells(0, soi) : Mapped(file, a + file.shift) =>
                 \/ Loaded(file, a + file.shift) \in had[a]
                 \/ Loaded(file, a + file.shift) = 0 /\ Page(a) \in wasBad
            /\ Cardinality(never) <= file.gaps /\ file.gaps <= Cardinality(lost)

(* Nothing in the header of an artifact leads out of it: the sections are  *)
(* inside it and apart, their table ends before the first, SizeOfImage is  *)
(* its length and the import directory is in its section (devirt.rs:23,    *)
(* 33, imports.rs:46-48).                                                  *)
Coherent ==
    (file # NoFile /\ SizeStable) =>
        LET h == file.head
        IN  /\ h.soi = file.len
            /\ SectionHeaderEnd(Len(h.secs)) <= h.hsize
            /\ \A i \in DOMAIN h.secs :
                 /\ h.secs[i].raw + h.secs[i].rawsize <= file.len
                 /\ h.secs[i].raw >= h.hsize
                 /\ \A j \in DOMAIN h.secs : i < j =>
                      h.secs[i].raw + h.secs[i].rawsize <= h.secs[j].raw
            /\ (h.imports # 0 /\ file.objects # {}) =>
                 \A rva \in {h.imports, h.imports + h.importSize - 1} :
                    Backed(file, rva) /\ h.secs[SectionAt(file, rva)].va = h.imports

-----------------------------------------------------------------------------
(* What the rebuilt import directory says, read as the loader reads it.    *)

\* The entries of size step from rva up to the null entry.
Walk(f, rva, step) ==
    LET Ends(n) == ObjectAt(f, rva + n * step).kind \in {"null", "none"}
        bound == Cardinality(f.objects)
        n == CHOOSE m \in 0 .. bound : Ends(m) /\ \A j \in 0 .. (m - 1) : ~Ends(j)
    IN  [k \in 1 .. n |-> ObjectAt(f, rva + (k - 1) * step)]

TextAt(f, rva) ==
    LET t == ObjectAt(f, rva) IN IF t.kind = "text" THEN t.text ELSE NoName

Recovered(f) ==
    LET ds == Walk(f, f.head.imports, DescriptorSize)
        Thunks(k) == Walk(f, ds[k].int, Ptr)
    IN  UNION {{[slot |-> ds[k].firstThunk + (i - 1) * Ptr,
                 module |-> TextAt(f, ds[k].name),
                 name |-> IF Thunks(k)[i].kind = "name" THEN TextAt(f, Thunks(k)[i].rva)
                          ELSE NoName,
                 ordinal |-> IF Thunks(k)[i].kind = "ordinal" THEN Thunks(k)[i].ordinal
                             ELSE 0] : i \in DOMAIN Thunks(k)} : k \in DOMAIN ds}

\* Function i of the export directory of m is code at va.
Exports(m, i, va) ==
    /\ Usable(m) /\ i \in DOMAIN m.funcs
    /\ m.funcs[i] # 0 /\ ~Forwarder(m, i) /\ m.base + m.funcs[i] = va
Exported(va) == \E n \in DOMAIN ModuleList :
                    \E i \in DOMAIN ModuleList[n].funcs : Exports(ModuleList[n], i, va)
Named(m, i) ==
    {m.names[k].name : k \in {j \in DOMAIN m.names : m.names[j].index = i}} \ {NoName}

\* An import that resolves to va, of the module the code prefers.
Means(x, va) ==
    /\ \E n \in DOMAIN ModuleList : \E i \in DOMAIN ModuleList[n].funcs :
         LET m == ModuleList[n]
         IN  /\ m.name = x.module /\ Exports(m, i, va)
             /\ IF Named(m, i) # {} THEN x.name \in Named(m, i)
                ELSE x.name = NoName /\ x.ordinal = m.ordinalBase + i - 1
    /\ \A n \in DOMAIN ModuleList : \A i \in DOMAIN ModuleList[n].funcs :
         Exports(ModuleList[n], i, va) => Priority(ModuleList[n].name) <= Priority(x.module)

Rebuildable ==
    /\ stage \in {"entry", "done"} /\ scenario.kind = "main" /\ SizeStable
    /\ \A h \in headers \ {NoHeader} :
         h.imports = 0 /\ SectionHeaderEnd(Len(h.secs) + 1) <= h.align

(* The import directory built into a dump without one leads a loader to    *)
(* exactly the pointers that stand beside another resolvable one, each     *)
(* under a name or ordinal that its module exports at that address, and of *)
(* the lowest-level such module (imports.rs:6-8, 56-58, exports.rs:48-49). *)
ImportsRecovered ==
    Rebuildable =>
        LET whole == {a \in Cells(0, soi) : a + Ptr <= soi}
            slots == {a \in whole :
                        /\ Exported(file.cells[a])
                        /\ \E b \in {a - Ptr, a + Ptr} \cap whole : Exported(file.cells[b])}
            found == Recovered(file)
        IN  IF slots = {} THEN file.objects = {} /\ file.head.imports = 0
            ELSE /\ {x.slot : x \in found} = slots
                 /\ Cardinality(found) = Cardinality(slots)
                 /\ \A x \in found : Means(x, file.cells[x.slot])

-----------------------------------------------------------------------------
\* What the Windows loader puts at a.
LoaderValue(f, a) ==
    LET s == f.secs[CHOOSE i \in DOMAIN f.secs : Holds(f.secs[i], a)]
        v == IF a - s.va < s.rawsize THEN f.cells[s.raw + a - s.va] ELSE 0
    IN  IF a \in f.relocs THEN (v + (Base - f.base)) % Width ELSE v

Code(f) == {a \in Cells(0, f.soi) :
    /\ \E i \in DOMAIN f.secs : Comparable(f, i) /\ Holds(f.secs[i], a)
                                /\ a - f.secs[i].va < f.secs[i].rawsize
    /\ a \notin f.iat.rva .. (f.iat.rva + f.iat.size - 1)}

(* A module that the loader has only relocated and bound shows no patch,   *)
(* one patched from the start and readable shows each patched cell, up to  *)
(* the cap of the list but never of the count. And it is hollowed exactly  *)
(* if the loader's name is not that of the mapped file, whether or not the *)
(* file can be read, or its header differs from the file's (diff.rs:36-44, *)
(* 74-79, 105-107, 113-121, 11-12).                                        *)
DiffExact ==
    (scenario.kind \in {"main", "dep"} /\ stage \notin {"diff", "sections"}) =>
        LET f == scenario.disk
            listed == UNION {Cells(diff.hooks[k][1], diff.hooks[k][2] - diff.hooks[k][1] + Ptr) :
                               k \in DOMAIN diff.hooks}
            patched == {a \in Code(f) : Page(a) \notin wasBad /\ LoaderValue(f, a) \notin had[a]}
            Differs(h) == f.found /\ h # NoHeader /\ (Modified(f, h) \/ Rebased(h))
        IN  /\ f.found =>
                 /\ listed \subseteq Code(f)
                 /\ \A a \in listed : Page(a) \in wasBad \/ \E v \in had[a] : v # LoaderValue(f, a)
                 /\ Len(diff.hooks) < MaxHooks => patched \subseteq listed
                 /\ diff.modified >= Ptr * Cardinality(patched)
            /\ diff.hollowed => ~f.sameName \/ \E h \in headers : Differs(h)
            /\ (~f.sameName \/ (0 \notin wasBad /\ \A h \in headers : Differs(h)))
                  => diff.hollowed
=============================================================================
