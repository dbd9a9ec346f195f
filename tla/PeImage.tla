------------------------------- MODULE PeImage -------------------------------
(***************************************************************************)
(* PE headers as revdump reads and rewrites them (reconstruct/pe.rs,       *)
(* devirt.rs, header.rs), and best-effort reads of memory that holds them  *)
(* (access/reader.rs).  Offsets and sizes count bytes; memory is a function *)
(* from addresses of pointer-sized cells to values, of which 0 is what a   *)
(* cell that could not be read is filled with.                             *)
(***************************************************************************)
EXTENDS Naturals, Sequences, FiniteSets

CONSTANTS
    Ptr,           \* bytes of a pointer, hence of a cell: 8, or 4 in a PE32
    PageSize,      \* a multiple of Ptr
    SectionTable   \* where the section table begins in a header

ASSUME PeImageAssumption ==
    /\ Ptr \in Nat \ {0} /\ PageSize \in Nat \ {0} /\ SectionTable \in Nat
    /\ PageSize % Ptr = 0

SectionHeaderSize == 40
SectionExtent == 16    \* bytes of a section header up to where VirtualAddress ends

(* The fields of a header that revdump reads or writes.                    *)
SectionHeaders == [va : Nat, vsize : Nat, raw : Nat, rawsize : Nat]
Headers == [base : Nat, entry : Nat, soi : Nat, hsize : Nat, align : Nat, falign : Nat,
            imports : Nat, importSize : Nat, bound : Nat, secs : Seq(SectionHeaders)]
Section(va, vsize) == [va |-> va, vsize |-> vsize, raw |-> 0, rawsize |-> 0]
Header(soi, align, secs) ==
    [base |-> 0, entry |-> 0, soi |-> soi, hsize |-> 0, align |-> align, falign |-> 0,
     imports |-> 0, importSize |-> 0, bound |-> 0, secs |-> secs]

\* pe::round_up; no size of the model reaches the 2^32 at which it saturates.
RoundUp(value, align) ==
    IF align = 0 THEN value ELSE ((value + align - 1) \div align) * align

Least(a, b) == IF a <= b THEN a ELSE b
Monus(a, b) == IF a >= b THEN a - b ELSE 0     \* saturating_sub

\* A finite set of numbers in ascending order, each at the place that its rank gives it.
InOrder(S) ==
    [k \in 1 .. Cardinality(S) |->
        CHOOSE a \in S : Cardinality({b \in S : b < a}) = k - 1]

\* Where section header i ends; a header is read only as far as the image goes.
SectionHeaderEnd(i) == SectionTable + i * SectionHeaderSize
Parses(len) == len >= SectionTable

-----------------------------------------------------------------------------
(* access/reader.rs.                                                       *)
Page(a) == a \div PageSize
Cells(base, len) == {a \in base .. (base + len - 1) : a % Ptr = 0}
Chunks(len) == 0 .. ((len + PageSize - 1) \div PageSize - 1)
ChunkLength(len, k) == Least(PageSize, len - k * PageSize)

\* One call that must return all it was asked for.
Reads(bad, base, len) == \A p \in Page(base) .. Page(base + len - 1) : p \notin bad

\* The first chunk that cannot be read ends the loop.
Mutant_ReadsChunk(bad, base, len, k) ==
    Reads(bad, base, k * PageSize + ChunkLength(len, k))
ReadsChunk(bad, base, len, k) == Reads(bad, base + k * PageSize, ChunkLength(len, k))

\* read_best_effort: in one call, or chunk by chunk from base; a chunk that cannot be
\* read whole is filled with zeros and is a gap.
Gaps(bad, base, len) ==
    IF Reads(bad, base, len) THEN {} ELSE {k \in Chunks(len) : ~ReadsChunk(bad, base, len, k)}
ReadBestEffort(mem, bad, base, len) ==
    LET gaps == Gaps(bad, base, len)
    IN  [a \in Cells(base, len) |-> IF (a - base) \div PageSize \in gaps THEN 0 ELSE mem[a]]

-----------------------------------------------------------------------------
(* reconstruct/devirt.rs.                                                  *)

\* The check of memory_align: an alignment, and every section header inside the image as
\* far as its size and its address, the first of its fields.
Alignable(h, len) ==
    /\ Parses(len)
    /\ h.align # 0
    /\ h.secs # <<>> => SectionHeaderEnd(Len(h.secs) - 1) + SectionExtent <= len

AlignSection(h, s) ==
    [s EXCEPT !.raw = s.va,
              !.rawsize = Least(RoundUp(s.vsize, h.align), Monus(h.soi, s.va))]

\* The raw size is not cut at the end of the image.
Mutant_MemoryAlign(h) ==
    [h EXCEPT !.falign = h.align, !.hsize = h.align,
              !.secs = [i \in DOMAIN h.secs |->
                 [h.secs[i] EXCEPT !.raw = h.secs[i].va,
                                   !.rawsize = RoundUp(h.secs[i].vsize, h.align)]]]

MemoryAlign(h) ==
    [h EXCEPT !.falign = h.align, !.hsize = h.align,
              !.secs = [i \in DOMAIN h.secs |-> AlignSection(h, h.secs[i])]]

(* reconstruct/header.rs, synthesize_pe: one section, at RVA PageSize.     *)
SynthesizedHeader(size) ==
    LET raw == RoundUp(size, PageSize)
    IN  [Header(PageSize + raw, PageSize,
                <<[va |-> PageSize, vsize |-> size, raw |-> PageSize, rawsize |-> raw]>>)
         EXCEPT !.falign = PageSize, !.hsize = PageSize, !.entry = PageSize]
=============================================================================
