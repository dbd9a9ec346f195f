----------------------------- MODULE ModuleDiff -----------------------------
(***************************************************************************)
(* The comparison of a loaded module with its file (discovery/diff.rs):    *)
(* the file is laid out as the loader would, relocated to where the module *)
(* is, the import address table is blanked in both, and what still differs *)
(* in an executable section is a patch.  A cell stands for what is         *)
(* compared at once; the code compares bytes.                              *)
(*                                                                         *)
(* A file is a record: found (it can be read and parsed), sameName (no     *)
(* file is known to be mapped there, or the loader gives no name or, but   *)
(* for case, that of the mapped file), len, the header fields base, entry, *)
(* soi and hsize, its sections with the flag exec, the RVAs relocs that    *)
(* its relocation table lists, its iat as an RVA and a size, and its cells *)
(* by file offset.                                                         *)
(***************************************************************************)
EXTENDS PeImage

CONSTANTS
    Base,          \* where the loader has put the module
    Width,         \* 2^32 or 2^64: pointers are relocated modulo Width
    HeaderCell,    \* what a cell of the header holds
    MaxHooks,      \* MAX_HOOKS, 64
    MaxImage       \* 0x80000000: a larger SizeOfImage is not laid out

ASSUME ModuleDiffAssumption ==
    /\ Width \in Nat \ {0} /\ Base \in 0 .. (Width - 1)
    /\ MaxHooks \in Nat /\ MaxImage \in Nat

FileSections == [va : Nat, vsize : Nat, raw : Nat, rawsize : Nat, exec : BOOLEAN]
IsFile(f) ==
    /\ f.len \in Nat /\ f.base \in Nat /\ f.entry \in Nat /\ f.soi \in Nat /\ f.hsize \in Nat
    /\ f.iat.rva \in Nat /\ f.iat.size \in Nat
    /\ f.secs \in Seq(FileSections)
    /\ DOMAIN f.cells = Cells(0, f.len) /\ \A o \in DOMAIN f.cells : f.cells[o] \in Nat

-----------------------------------------------------------------------------
\* build_disk_image: a section is copied as far as it goes in its file and in the image.
Copied(f, s) == Least(Least(s.rawsize, Monus(f.len, s.raw)), Monus(f.soi, s.va))
DiskImage(f) ==
    [a \in Cells(0, f.soi) |->
        LET holding == {i \in DOMAIN f.secs :
                          /\ f.secs[i].va <= a
                          /\ a < f.secs[i].va + Copied(f, f.secs[i])}
        IN  IF holding # {}
            THEN LET s == f.secs[CHOOSE i \in holding : \A j \in holding : j <= i]
                 IN  f.cells[s.raw + a - s.va]
            ELSE IF a < f.hsize THEN HeaderCell ELSE 0]

\* A relocation that only moves an image up.
Mutant_Relocated(f, image) ==
    [a \in DOMAIN image |->
        IF a \in f.relocs THEN (image[a] + Monus(Base, f.base)) % Width ELSE image[a]]

\* apply_relocations, by base - ImageBase, which may be negative.
Relocated(f, image) ==
    [a \in DOMAIN image |->
        IF a \in f.relocs THEN (image[a] + Base + Width - f.base) % Width ELSE image[a]]

\* zero_overlap.
Blanked(f, cells) ==
    [a \in DOMAIN cells |->
        IF f.iat.rva <= a /\ a < f.iat.rva + f.iat.size THEN 0 ELSE cells[a]]

\* build_disk_image lays out a file of a sane size.
HasImage(f) == f.soi # 0 /\ f.soi <= MaxImage

\* The executable sections that are compared, and how far.
Compared(s) == Least(s.vsize, s.rawsize)
Comparable(f, i) ==
    LET s == f.secs[i]
    IN  HasImage(f) /\ s.exec /\ Compared(s) # 0 /\ s.va + Compared(s) <= f.soi

\* collect_patches: the maximal runs of cells that differ, as <<first, last>>.
Patches(disk, mem) ==
    LET differs == {a \in DOMAIN mem : disk[a] # mem[a]}
        firsts == {a \in differs : a - Ptr \notin differs}
        LastOf(a) == CHOOSE z \in differs :
            /\ z >= a /\ Cells(a, z - a + Ptr) \subseteq differs
            /\ z + Ptr \notin differs
    IN  [k \in 1 .. Cardinality(firsts) |->
            LET a == InOrder(firsts)[k] IN <<a, LastOf(a)>>]

SectionPatches(f, i, mem, bad) ==
    LET read == ReadBestEffort(mem, bad, f.secs[i].va, Compared(f.secs[i]))
        disk == Relocated(f, DiskImage(f))
    IN  Patches(Blanked(f, disk), Blanked(f, read))

\* The list of hooks has its limit; modified_bytes counts every patch.
Bytes(patches) ==
    LET upTo[k \in 0 .. Len(patches)] ==
            IF k = 0 THEN 0 ELSE upTo[k - 1] + patches[k][2] - patches[k][1] + Ptr
    IN  upTo[Len(patches)]
Add(diff, patches) ==
    [diff EXCEPT !.hooks = @ \o SubSeq(patches, 1, Least(Len(patches), Monus(MaxHooks, Len(@)))),
                 !.modified = @ + Bytes(patches)]

\* header_modified and image_base_mismatch, of a header that could be read.
Modified(f, h) == h.entry # f.entry \/ Len(h.secs) # Len(f.secs)
Rebased(h) == h.base # Base

NoDiff == [hollowed |-> FALSE, hooks |-> <<>>, modified |-> 0]
=============================================================================
