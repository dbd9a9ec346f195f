------------------------------ MODULE MCRebuild ------------------------------
(***************************************************************************)
(* An instance of Rebuild for TLC: images of three pages whose first       *)
(* section holds an import address table of four cells, every content of   *)
(* that table, and the kinds of regions under a target that changes.       *)
(***************************************************************************)
EXTENDS Rebuild, TLC

Module(name, base, dir, funcs, names) ==
    [name |-> name, base |-> base, readable |-> TRUE, dir |-> dir, dirSize |-> 10,
     ordinalBase |-> 7, funcs |-> funcs, names |-> names]
Name(name, index) == [name |-> name, index |-> index]

\* 101 is exported by both kernel32.dll and ntdll.dll, 102 by ordinal, 155 under two
\* names; 85 is where kernel32.dll forwards to.
TheModules ==
    <<Module("program", 48, 0, <<>>, <<>>),
      Module("ntdll.dll", 100, 20, <<1, 2>>, <<Name("NtA", 1)>>),
      Module("kernel32.dll", 60, 20, <<41, 25, 0, 3>>,
             <<Name("A", 1), Name("Fwd", 2), Name("Open", 4)>>),
      Module("other.dll", 150, 20, <<5>>, <<Name("old", 1), Name("new", 1)>>)>>
TheLengths == ("program" :> 7) @@ ("ntdll.dll" :> 9) @@ ("kernel32.dll" :> 12)
              @@ ("other.dll" :> 8) @@ ("NtA" :> 3) @@ ("A" :> 1) @@ ("Open" :> 4)
              @@ ("old" :> 3) @@ ("new" :> 3) @@ ("Fwd" :> 3)

Iat == 160
CodeSection == [va |-> 128, vsize |-> 96, raw |-> 64, rawsize |-> 104, exec |-> TRUE]
DataSection == [va |-> 256, vsize |-> 120, raw |-> 168, rawsize |-> 40, exec |-> FALSE]

\* The file: pointers at RVAs 128 and 264, names in the import address table.
TheFile(pref, secs) ==
    [found |-> TRUE, sameName |-> TRUE, len |-> 208, base |-> pref, entry |-> 128,
     soi |-> 384, hsize |-> 64, secs |-> secs, relocs |-> {128, 264},
     iat |-> [rva |-> Iat, size |-> 32],
     cells |-> [o \in Cells(0, 208) |->
                  IF o \in {64, 176} THEN pref + 9
                  ELSE IF o \in {96, 104, 112, 120} THEN 3 ELSE 5]]

TheHeader(secs) ==
    [Header(384, 128, [i \in DOMAIN secs |-> Section(secs[i].va, secs[i].vsize)])
        EXCEPT !.base = Base, !.entry = 128]

\* Memory as the loader leaves it, with these pointers bound; page 3 is not there.
Bound(f, iat) ==
    [a \in Cells(0, 512) |->
        IF a < 128 THEN HeaderCell
        ELSE IF a >= Iat /\ a < Iat + 8 * Len(iat) THEN iat[(a - Iat) \div 8 + 1]
        ELSE IF \E i \in DOMAIN f.secs : Holds(f.secs[i], a) THEN LoaderValue(f, a) ELSE 0]

Scenario(kind, pref, secs, iat) ==
    [kind |-> kind, header |-> TheHeader(secs), mem |-> Bound(TheFile(pref, secs), iat),
     bad |-> {3}, changes |-> 0, patches |-> {}, headers |-> {}, guarded |-> {},
     disk |-> TheFile(pref, secs), oep |-> NoOep, size |-> 256]

AnyTable == {Scenario("main", 80, <<CodeSection, DataSection>>, iat) :
               iat \in [1 .. 4 -> {0, 101, 102, 63, 155}]}

\* A size that is no multiple of the alignment, or ends within the fourth pointer; no room
\* for another section header.
Odd == {[Scenario("main", 16, <<CodeSection>>, <<101, 102, 63, 85>>) EXCEPT !.header.soi = 188],
        [Scenario("main", 16, <<CodeSection>>, <<0, 102, 63, 101>>) EXCEPT !.header.soi = 188]}
       \cup {[Scenario("main", 16, <<CodeSection, DataSection>>, <<101, 102, 63, 85>>)
            EXCEPT !.header.soi = 344, !.oep = oep] : oep \in {136, 352}}
       \cup {Scenario("main", 16, <<CodeSection, DataSection, [DataSection EXCEPT !.va = 384, !.vsize = 0]>>,
                      <<101, 102, 63, 85>>)}
       \cup {[Scenario("main", 16, <<CodeSection, DataSection>>, <<101, 102, 63, 85>>)
                EXCEPT !.header.imports = 264]}
       \cup {[Scenario("dep", 80, <<CodeSection, DataSection>>, <<101, 102, 63, 85>>)
                EXCEPT !.mem = [@ EXCEPT ![136] = 6, ![152] = 6, ![200] = 6]]}

\* The name or not, the file or not; and a file too large to be laid out.
Renamed == {[Scenario("dep", 80, <<CodeSection, DataSection>>, <<101, 102, 63, 85>>)
               EXCEPT !.disk.found = found, !.disk.sameName = sameName] :
              found \in BOOLEAN, sameName \in BOOLEAN}
           \cup {[Scenario("dep", 80, <<CodeSection, DataSection>>, <<101, 102, 63, 85>>)
                    EXCEPT !.disk.soi = 512, !.mem = [@ EXCEPT ![136] = 6]]}

\* Up to three changes of the target, anywhere in the dump.
Live(kind, lost, head) ==
    [Scenario(kind, 80, <<CodeSection, DataSection>>, <<101, 102, 0, 63>>) EXCEPT
       !.header = head, !.bad = lost, !.changes = 3, !.guarded = 0 .. 2,
       !.patches = {<<136, 6>>, <<144, 6>>, <<176, 101>>, <<264, 155>>},
       !.headers = {NoHeader, TheHeader(<<CodeSection>>),
                    [TheHeader(<<CodeSection, DataSection>>) EXCEPT !.soi = 256],
                    [TheHeader(<<CodeSection, DataSection>>) EXCEPT !.base = 80]}]
Moving == {Live(kind, lost, TheHeader(<<CodeSection, DataSection>>)) :
             kind \in {"main", "dep", "hidden"}, lost \in {{3}, {1, 3}}}
          \cup {Live(kind, {3}, NoHeader) : kind \in {"hidden", "chunk"}}

TheScenarios == AnyTable \cup Odd \cup Renamed \cup Moving
=============================================================================
