------------------------------- MODULE Imports -------------------------------
(***************************************************************************)
(* The import table of a dumped image: the catalog of exports              *)
(* (reconstruct/exports.rs), the search for the import address table and   *)
(* the .idata section built from it (imports.rs).  Strings keep their      *)
(* length only; what is written is a set of objects, each at its RVA.      *)
(***************************************************************************)
EXTENDS PeImage

CONSTANTS
    ModuleList,    \* the loader's modules, each as its export directory reads
    Length,        \* of every module name and export name
    NoName,        \* an export known by its ordinal only
    MaxFunctions   \* exports.rs:88, 0x40000

ASSUME ImportsAssumption ==
    /\ MaxFunctions \in Nat
    /\ \A t \in DOMAIN Length : Length[t] \in Nat
    /\ NoName \notin DOMAIN Length
    /\ ModuleList \in Seq([name : DOMAIN Length, base : Nat, readable : BOOLEAN,
                            dir : Nat, dirSize : Nat, ordinalBase : Nat, funcs : Seq(Nat),
                            names : Seq([name : DOMAIN Length \cup {NoName}, index : Nat])])

MinRun == 2
DescriptorSize == 20
-----------------------------------------------------------------------------
(* reconstruct/exports.rs.  A module is a record of its base name, its     *)
(* base, the range and ordinal base of its export directory, its function  *)
(* RVAs and its names, each with the index of its function.  "readable"    *)
(* says that header and directory could be read; an array that could not   *)
(* be reads as zeros.                                                      *)

Priority(name) ==
    CASE name = "ntdll.dll" -> 4
      [] name = "kernelbase.dll" -> 3
      [] name = "kernel32.dll" -> 2
      [] OTHER -> 1

Usable(m) ==
    /\ m.readable /\ m.dir # 0
    /\ Len(m.funcs) \in 1 .. MaxFunctions
    /\ Len(m.names) <= Len(m.funcs)

Forwarder(m, i) == m.dir <= m.funcs[i] /\ m.funcs[i] < m.dir + m.dirSize

\* name_by_index: of several names of a function the last one counts.
NameOf(m, i) ==
    LET ks == {k \in DOMAIN m.names : m.names[k].index = i /\ m.names[k].name # NoName}
    IN  IF ks = {} THEN NoName
        ELSE m.names[CHOOSE k \in ks : \A j \in ks : j <= k].name

ExportRef(m, i) ==
    [module |-> m.name, name |-> NameOf(m, i),
     ordinal |-> (m.ordinalBase + i - 1) % 65536]

\* The functions that parse_module takes up, each as <<place of its module, index>>.
Entries ==
    {e \in (DOMAIN ModuleList) \X (1 .. MaxFunctions) :
        LET m == ModuleList[e[1]]
        IN  /\ Usable(m) /\ e[2] \in DOMAIN m.funcs
            /\ m.funcs[e[2]] # 0 /\ ~Forwarder(m, e[2])}
Va(e) == ModuleList[e[1]].base + ModuleList[e[1]].funcs[e[2]]
Ref(e) == ExportRef(ModuleList[e[1]], e[2])
Earlier(d, e) == d[1] < e[1] \/ (d[1] = e[1] /\ d[2] < e[2])

\* Insertion without regard to the rank: the last provider wins.
Mutant_Replaces(new, old) == new # old
Replaces(new, old) == Priority(new.module) > Priority(old.module)

\* ExportCatalog::build: from address to export, in the order of the list; a later entry
\* replaces one of lower rank.
Catalog ==
    [va \in {Va(e) : e \in Entries} |->
        LET here == {e \in Entries : Va(e) = va}
        IN  Ref(CHOOSE e \in here : \A d \in here \ {e} :
                    IF Earlier(d, e) THEN Replaces(Ref(e), Ref(d))
                    ELSE ~Replaces(Ref(d), Ref(e)))]

Resolves(v) == v \in DOMAIN Catalog

\* filter/noise.rs: loose code refers to at least two exports.
PlausibleCode(cells) == Cardinality({a \in DOMAIN cells : Resolves(cells[a])}) >= 2

-----------------------------------------------------------------------------
(* imports.rs, scan_iat and group: the blocks <<first, last>> of cells      *)
(* that resolve to one module, as long as they go, in runs of MinRun cells.*)
AllResolve(cells, lo, hi) ==
    \A a \in Cells(lo, hi - lo + Ptr) : a \in DOMAIN cells /\ Resolves(cells[a])

InRun(cells, a) ==
    /\ Resolves(cells[a])
    /\ \E b \in DOMAIN cells : b <= a /\ a < b + MinRun * Ptr
                               /\ AllResolve(cells, b, b + (MinRun - 1) * Ptr)

ModuleAt(cells, a) == Catalog[cells[a]].module
SameBlock(cells, a) ==
    /\ a - Ptr \in DOMAIN cells
    /\ InRun(cells, a - Ptr)
    /\ ModuleAt(cells, a - Ptr) = ModuleAt(cells, a)

Firsts(cells) == {a \in DOMAIN cells : InRun(cells, a) /\ ~SameBlock(cells, a)}
LastFrom(cells, a) == CHOOSE z \in DOMAIN cells :
    /\ z >= a
    /\ \A b \in Cells(a, z - a + Ptr) : InRun(cells, b) /\ (b = a \/ SameBlock(cells, b))
    /\ z + Ptr \in DOMAIN cells => ~(InRun(cells, z + Ptr) /\ SameBlock(cells, z + Ptr))

Descriptor(cells, a) ==
    [module |-> ModuleAt(cells, a),
     firstThunk |-> a,
     imports |-> [i \in 1 .. ((LastFrom(cells, a) - a) \div Ptr + 1) |->
                    Catalog[cells[a + (i - 1) * Ptr]]]]
Descriptors(cells) ==
    [k \in 1 .. Cardinality(Firsts(cells)) |-> Descriptor(cells, InOrder(Firsts(cells))[k])]

-----------------------------------------------------------------------------
(* build_idata: descriptors, then the INTs, then the strings.              *)
IntBytes(d) == (Len(d.imports) + 1) * Ptr

\* Where the INT of each descriptor begins, from the first; where the last ends.
IntsBefore(ds) ==
    LET before[k \in 1 .. (Len(ds) + 1)] ==
            IF k = 1 THEN 0 ELSE before[k - 1] + IntBytes(ds[k - 1])
    IN  before

\* The strings of a descriptor: its module's name, then, with a hint and padded, those of
\* its named imports.  Where the strings are, from at, after its first i imports.
StringsUpTo(d, at) ==
    LET upTo[i \in 0 .. Len(d.imports)] ==
            IF i = 0 THEN at + Length[d.module] + 1
            ELSE IF d.imports[i].name = NoName THEN upTo[i - 1]
            ELSE RoundUp(upTo[i - 1] + 2 + Length[d.imports[i].name] + 1, 2)
    IN  upTo
StringsBefore(ds) ==
    LET before[k \in 1 .. (Len(ds) + 1)] ==
            IF k = 1 THEN 0
            ELSE StringsUpTo(ds[k - 1], before[k - 1])[Len(ds[k - 1].imports)]
    IN  before

\* The parts of a section at rva: the directory, the INTs, the strings.
DirectorySize(ds) == (Len(ds) + 1) * DescriptorSize
IntAt(ds, rva, k) == rva + DirectorySize(ds) + IntsBefore(ds)[k]
StringsAt(ds, rva) == IntAt(ds, rva, Len(ds) + 1)
ModuleTextAt(ds, rva, k) == StringsAt(ds, rva) + StringsBefore(ds)[k]
NameTextAt(ds, rva, k, i) ==
    StringsAt(ds, rva) + StringsUpTo(ds[k], StringsBefore(ds)[k])[i - 1]

Null == [kind |-> "null"]
Text(hint, text) == [kind |-> "text", hint |-> hint, text |-> text]
Thunk(ds, rva, k, i) ==
    IF ds[k].imports[i].name = NoName
    THEN [kind |-> "ordinal", ordinal |-> ds[k].imports[i].ordinal]
    ELSE [kind |-> "name", rva |-> NameTextAt(ds, rva, k, i)]

Directory(ds, rva) ==
    {<<rva + (k - 1) * DescriptorSize,
       [kind |-> "descriptor", int |-> IntAt(ds, rva, k),
        name |-> ModuleTextAt(ds, rva, k), firstThunk |-> ds[k].firstThunk]>> : k \in DOMAIN ds}
    \cup {<<rva + Len(ds) * DescriptorSize, Null>>}
Ints(ds, rva, k) ==
    {<<IntAt(ds, rva, k) + (i - 1) * Ptr, Thunk(ds, rva, k, i)>> : i \in DOMAIN ds[k].imports}
    \cup {<<IntAt(ds, rva, k) + Len(ds[k].imports) * Ptr, Null>>}
Texts(ds, rva, k) ==
    {<<ModuleTextAt(ds, rva, k), Text(FALSE, ds[k].module)>>}
    \cup {<<NameTextAt(ds, rva, k, i), Text(TRUE, ds[k].imports[i].name)>> :
              i \in {j \in DOMAIN ds[k].imports : ds[k].imports[j].name # NoName}}

Idata(h, ds) ==
    LET rva == RoundUp(h.soi, h.align)
    IN  [rva |-> rva, dirSize |-> DirectorySize(ds),
         size |-> ModuleTextAt(ds, rva, Len(ds) + 1) - rva,
         objects |-> Directory(ds, rva)
                     \cup UNION {Ints(ds, rva, k) \cup Texts(ds, rva, k) : k \in DOMAIN ds}]

\* The file is not padded to the raw size.
Mutant_AppendSection(f, idata) ==
    [f EXCEPT !.len = idata.rva + idata.size,
              !.objects = idata.objects,
              !.head.soi = idata.rva + RoundUp(idata.size, f.head.align)]

\* write_section: the bytes go behind the image, or where the section is to begin
\* when that is further on; what then lies beyond the section is cut off.
EndOf(h, idata) == idata.rva + RoundUp(idata.size, h.align)
Padded(cells, end) == [o \in Cells(0, end) |-> IF o \in DOMAIN cells THEN cells[o] ELSE 0]
Placed(f, idata) ==
    LET at == IF f.len < idata.rva THEN idata.rva ELSE f.len
        moved == {<<x[1] - idata.rva + at, x[2]>> : x \in idata.objects}
    IN  {x \in moved : x[1] < EndOf(f.head, idata)}
Announce(h, idata) ==
    [h EXCEPT !.soi = EndOf(h, idata), !.imports = idata.rva, !.importSize = idata.dirSize,
              !.bound = 0,
              !.secs = Append(@, [va |-> idata.rva, vsize |-> idata.size, raw |-> idata.rva,
                                  rawsize |-> EndOf(h, idata) - idata.rva])]
AppendSection(f, idata) ==
    [f EXCEPT !.len = EndOf(f.head, idata),
              !.cells = Padded(f.cells, EndOf(f.head, idata)),
              !.objects = Placed(f, idata),
              !.head = Announce(f.head, idata)]

HasSlack(h) == SectionHeaderEnd(Len(h.secs) + 1) <= h.hsize

\* The scan takes whole pointers; one that the end of the image cuts is left out.
WholeCells(f) == [a \in {b \in DOMAIN f.cells : b + Ptr <= f.len} |-> f.cells[a]]

\* rebuild_imports: nothing is done unless a run was found and the header has room.
RebuildImports(f) ==
    LET ds == Descriptors(WholeCells(f))
    IN  IF ds # <<>> /\ HasSlack(f.head) THEN AppendSection(f, Idata(f.head, ds)) ELSE f
=============================================================================
