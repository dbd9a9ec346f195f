------------------------------ MODULE DumpProofs ------------------------------
(***************************************************************************)
(* Theorems about DumpPipeline, for every list of processes and whatever   *)
(* discovery finds in them.                                                *)
(***************************************************************************)
EXTENDS DumpPipeline, TLAPS, FiniteSetTheorems, SequenceTheorems

-----------------------------------------------------------------------------
(* Lists that are worked off from the front.                               *)

Elements(s) == {s[i] : i \in DOMAIN s}

LEMMA TakesHead ==
    ASSUME NEW S, NEW s \in Seq(S), s # <<>>, IsInjective(s)
    PROVE  /\ Tail(s) \in Seq(S) /\ Len(Tail(s)) = Len(s) - 1
           /\ IsInjective(Tail(s))
           /\ Head(s) \in S /\ Head(s) \in Elements(s)
           /\ Elements(Tail(s)) = Elements(s) \ {Head(s)}
  <1> DEFINE t == Tail(s)
  <1>1. Len(s) \in Nat \ {0} /\ DOMAIN s = 1 .. Len(s)
    BY EmptySeq, LenProperties
  <1>2. /\ t \in Seq(S) /\ Len(t) = Len(s) - 1 /\ Head(s) = s[1]
        /\ \A i \in 1 .. Len(t) : t[i] = s[i + 1]
    OBVIOUS
  <1>3. DOMAIN t = 1 .. (Len(s) - 1)
    BY <1>2, LenProperties
  <1> HIDE DEF t
  <1>4. IsInjective(t)
    <2> SUFFICES ASSUME NEW i \in DOMAIN t, NEW j \in DOMAIN t, t[i] = t[j] PROVE i = j
      BY DEF IsInjective
    <2>1. i + 1 \in DOMAIN s /\ j + 1 \in DOMAIN s
      BY <1>1, <1>3
    <2>2. s[i + 1] = s[j + 1]
      BY <1>1, <1>2, <1>3
    <2>3. i + 1 = j + 1
      BY <2>1, <2>2 DEF IsInjective
    <2> QED BY <1>1, <1>3, <2>3
  <1>5. Head(s) \in S /\ Head(s) \in Elements(s)
    BY <1>1, <1>2, ElementOfSeq DEF Elements
  <1>6. ASSUME NEW x \in Elements(t) PROVE x \in Elements(s) \ {Head(s)}
    <2>1. PICK i \in 1 .. (Len(s) - 1) : x = s[i + 1]
      BY <1>2, <1>3, <1>6 DEF Elements
    <2>2. i + 1 \in DOMAIN s /\ 1 \in DOMAIN s /\ i + 1 # 1
      BY <1>1, <2>1
    <2> QED BY <1>2, <2>1, <2>2 DEF Elements, IsInjective
  <1>7. ASSUME NEW x \in Elements(s) \ {Head(s)} PROVE x \in Elements(t)
    <2>1. PICK i \in 1 .. Len(s) : x = s[i]
      BY <1>1, <1>7 DEF Elements
    <2>2. i # 1
      BY <1>2, <1>7, <2>1
    <2>3. i - 1 \in 1 .. (Len(s) - 1) /\ (i - 1) + 1 = i
      BY <1>1, <2>2
    <2>4. t[i - 1] = s[(i - 1) + 1]
      BY <1>2, <2>3
    <2> QED BY <1>3, <2>1, <2>3, <2>4 DEF Elements
  <1> QED BY <1>2, <1>4, <1>5, <1>6, <1>7 DEF t

LEMMA EmptyList ==
    /\ IsInjective(<<>>)
    /\ Elements(<<>>) = {}
  BY DEF IsInjective, Elements

LEMMA PartsInjective ==
    ASSUME NEW S, NEW s \in Seq(S), NEW t \in Seq(S), IsInjective(s \o t)
    PROVE  IsInjective(s) /\ IsInjective(t)
  <1>1. /\ s \o t \in Seq(S) /\ Len(s \o t) = Len(s) + Len(t)
        /\ \A i \in 1 .. Len(s) + Len(t) :
             (s \o t)[i] = IF i <= Len(s) THEN s[i] ELSE t[i - Len(s)]
    BY ConcatProperties
  <1>2. /\ Len(s) \in Nat /\ DOMAIN s = 1 .. Len(s)
        /\ Len(t) \in Nat /\ DOMAIN t = 1 .. Len(t)
        /\ DOMAIN (s \o t) = 1 .. (Len(s) + Len(t))
    BY <1>1, LenProperties
  <1>3. ASSUME NEW i \in DOMAIN s, NEW j \in DOMAIN s, s[i] = s[j] PROVE i = j
    <2>1. (s \o t)[i] = s[i] /\ (s \o t)[j] = s[j]
      BY <1>1, <1>2
    <2> QED BY <1>2, <1>3, <2>1 DEF IsInjective
  <1>4. ASSUME NEW i \in DOMAIN t, NEW j \in DOMAIN t, t[i] = t[j] PROVE i = j
    <2>1. /\ Len(s) + i \in 1 .. (Len(s) + Len(t)) /\ Len(s) + j \in 1 .. (Len(s) + Len(t))
          /\ ~(Len(s) + i <= Len(s)) /\ ~(Len(s) + j <= Len(s))
          /\ Len(s) + i - Len(s) = i /\ Len(s) + j - Len(s) = j
      BY <1>2
    <2>2. (s \o t)[Len(s) + i] = t[i] /\ (s \o t)[Len(s) + j] = t[j]
      BY <1>1, <2>1
    <2>3. Len(s) + i = Len(s) + j
      BY <1>2, <1>4, <2>1, <2>2 DEF IsInjective
    <2> QED BY <1>2, <2>3
  <1> QED BY <1>3, <1>4 DEF IsInjective

(* What is selected of a report is a list of distinct regions.             *)
LEMMA SelectedType ==
    ASSUME NEW report \in Reports
    PROVE  Selected(report) \in Seq(Regions) /\ IsInjective(Selected(report))
  <1>1. /\ report.found \in Seq(Regions) /\ report.deps \in Seq(Regions)
        /\ IsInjective(report.found \o report.deps)
    BY DumpAssumption
  <1>2. IsInjective(report.found) /\ IsInjective(report.deps)
    BY <1>1, PartsInjective
  <1>3. /\ report.found \o <<>> = report.found /\ <<>> \o report.deps = report.deps
        /\ <<>> \o <<>> = <<>> /\ <<>> \in Seq(Regions)
    BY <1>1, ConcatEmptySeq, EmptySeq
  <1>4. Selected(report) \in {report.found \o report.deps, report.found, report.deps, <<>>}
    BY <1>3 DEF Selected
  <1> QED BY <1>1, <1>2, <1>3, <1>4, EmptyList, ConcatProperties

-----------------------------------------------------------------------------
(* The stages.                                                             *)

LEMMA StageTable ==
    /\ mode = "system" =>
         /\ Len(Stages) = 10 /\ Stages \in Seq(StageNames)
         /\ \A k \in 1 .. 10 : /\ Stages[k] = "main_file" <=> k = 7
                               /\ Discovers(Stages[k]) => k = 8
                               /\ Stages[k] = "regions" <=> k = 9
                               /\ Stages[k] = "manifest" <=> k = 10
    /\ mode # "system" =>
         /\ Len(Stages) = 9 /\ Stages \in Seq(StageNames)
         /\ \A k \in 1 .. 9 : /\ Stages[k] = "main_file" <=> k = 7
                              /\ Discovers(Stages[k]) => k = 2
                              /\ Stages[k] = "regions" <=> k = 8
                              /\ Stages[k] = "manifest" <=> k = 9
  <1>1. CASE mode = "system"
    <2>1. Stages = SweepStages
      BY <1>1 DEF Stages
    <2>2. Len(SweepStages) = 10 /\ SweepStages \in Seq(StageNames)
      BY DEF SweepStages, StageNames
    <2>3. ASSUME NEW k \in 1 .. 10
          PROVE  /\ SweepStages[k] = "main_file" <=> k = 7
                 /\ Discovers(SweepStages[k]) => k = 8
                 /\ SweepStages[k] = "regions" <=> k = 9
                 /\ SweepStages[k] = "manifest" <=> k = 10
      BY DEF SweepStages, Discovers
    <2> QED BY <1>1, <2>1, <2>2, <2>3
  <1>2. CASE mode # "system"
    <2>1. Stages = TargetStages
      BY <1>2 DEF Stages
    <2>2. Len(TargetStages) = 9 /\ TargetStages \in Seq(StageNames)
      BY DEF TargetStages, StageNames
    <2>3. ASSUME NEW k \in 1 .. 9
          PROVE  /\ TargetStages[k] = "main_file" <=> k = 7
                 /\ Discovers(TargetStages[k]) => k = 2
                 /\ TargetStages[k] = "regions" <=> k = 8
                 /\ TargetStages[k] = "manifest" <=> k = 9
      BY DEF TargetStages, Discovers
    <2> QED BY <1>2, <2>1, <2>2, <2>3
  <1> QED BY <1>1, <1>2

-----------------------------------------------------------------------------
(* The invariant.  Between the stages of a dump its regions are captured,  *)
(* noted or still to come, and the files agree; no other dump is touched.  *)

Captured == Regions \cup {Main}
Files == [region : Captured, whole : BOOLEAN]
Notes == [region : Captured, status : {"skipped", "failed"}]

(* The stages passed, and the one that discovers.                          *)
Done == Len(Stages) - Len(stages)
Discovery == IF mode = "system" THEN 8 ELSE 2

Staged ==
    /\ stages \in Seq(StageNames) /\ Len(stages) <= Len(Stages)
    /\ \A i \in 1 .. Len(stages) : stages[i] = Stages[Done + i]
    /\ pid = NoPid <=> stages = <<>>
    /\ pid # NoPid => exit = "running"

Typed ==
    /\ mode \in Modes /\ deps \in BOOLEAN
    /\ exit \in {"running", "ok", "error"}
    /\ pid \in Pids \cup {NoPid}
    /\ queue \in Seq(Pids) /\ IsInjective(queue)
    /\ todo \in Seq(Regions) /\ IsInjective(todo)
    /\ artifacts \in SUBSET Captured
    /\ notes \in SUBSET Notes
    /\ found \in [Pids -> SUBSET Captured]
    /\ disk \in [Pids -> SUBSET Files]
    /\ manifest \in [Pids -> [state : {"none", "partial", "whole"},
                              artifacts : SUBSET Captured, notes : SUBSET Notes]]

Accounted ==
    /\ found[pid] = artifacts \cup Of(notes) \cup Elements(todo)
                      \cup (IF Done < 7 THEN {Main} ELSE {})
    /\ artifacts \cap Of(notes) = {}
    /\ Elements(todo) \cap (artifacts \cup Of(notes)) = {}

Staging ==
    /\ Done < 7 => artifacts = {} /\ notes = {}
    /\ Done < Discovery => todo = <<>> /\ artifacts \subseteq {Main} /\ notes = {}
    /\ Done >= Len(Stages) - 1 => todo = <<>>

FilesAgree(as, ns, files) ==
    /\ \A r \in as : File(r, TRUE) \in files
    /\ \A f \in files : f.region \in as \/ Note(f.region, "failed") \in ns

Current ==
    pid # NoPid =>
        /\ Accounted /\ Staging
        /\ manifest[pid].state = "none"
        /\ FilesAgree(artifacts, notes, disk[pid])

Idle == pid = NoPid => artifacts \cup Of(notes) \subseteq UNION {found[p] : p \in Pids}

Fresh ==
    \A p \in Elements(queue) : disk[p] = {} /\ manifest[p].state = "none" /\ p # pid

KeptAt(p) ==
    /\ {f.region : f \in disk[p]} \subseteq found[p]
    /\ manifest[p].state = "whole" =>
         /\ manifest[p].artifacts \cup Of(manifest[p].notes) = found[p]
         /\ manifest[p].artifacts \cap Of(manifest[p].notes) = {}
         /\ FilesAgree(manifest[p].artifacts, manifest[p].notes, disk[p])

Kept == \A p \in Pids : KeptAt(p)

DumpInv == Typed /\ Staged /\ Current /\ Idle /\ Fresh /\ Kept

-----------------------------------------------------------------------------
LEMMA MainIsNoRegion == Main \notin Regions
  BY DEF Main, Regions

LEMMA NoNotes == Of({}) = {}
  BY DEF Of

LEMMA OneNote ==
    ASSUME NEW ns, NEW r, NEW status
    PROVE  Of(ns \cup {Note(r, status)}) = Of(ns) \cup {r}
  <1>1. Note(r, status).region = r
    BY DEF Note
  <1> HIDE DEF Note
  <1>2. \A x : x \in Of(ns \cup {Note(r, status)}) <=> x \in Of(ns) \cup {r}
    BY <1>1 DEF Of
  <1> QED BY <1>2

LEMMA StagesLength == Len(Stages) \in {9, 10} /\ Stages \in Seq(StageNames)
  BY StageTable

LEMMA StageAt ==
    ASSUME NEW k \in 1 .. Len(Stages)
    PROVE  /\ Stages[k] = "main_file" <=> k = 7
           /\ Discovers(Stages[k]) => k = Discovery
           /\ Stages[k] = "regions" <=> k = Len(Stages) - 1
           /\ Stages[k] = "manifest" <=> k = Len(Stages)
  <1>1. CASE mode = "system"
    <2>1. Len(Stages) = 10 /\ Discovery = 8 /\ k \in 1 .. 10
      BY <1>1, StageTable DEF Discovery
    <2> QED BY <1>1, <2>1, StageTable
  <1>2. CASE mode # "system"
    <2>1. Len(Stages) = 9 /\ Discovery = 2 /\ k \in 1 .. 9
      BY <1>2, StageTable DEF Discovery
    <2> QED BY <1>2, <2>1, StageTable
  <1> QED BY <1>1, <1>2

LEMMA AtStage ==
    ASSUME Staged, NEW stage, In(stage)
    PROVE  /\ pid # NoPid
           /\ Len(stages) \in Nat \ {0}
           /\ Done \in 0 .. (Len(Stages) - 1)
           /\ Stages[Done + 1] = stage
           /\ Done = 6 <=> stage = "main_file"
           /\ Discovers(stage) => Done = Discovery - 1
           /\ Done = Len(Stages) - 2 <=> stage = "regions"
           /\ Done = Len(Stages) - 1 <=> stage = "manifest"
  <1>1. stages # <<>> /\ Head(stages) = stage /\ stages \in Seq(StageNames)
    BY DEF In, Staged
  <1>2. Len(stages) \in Nat \ {0} /\ Head(stages) = stages[1]
    BY <1>1, EmptySeq
  <1>3. Done \in 0 .. (Len(Stages) - 1)
    BY <1>2, StagesLength DEF Staged, Done
  <1>4. Stages[Done + 1] = stage
    BY <1>1, <1>2 DEF Staged
  <1>5. Done + 1 \in 1 .. Len(Stages)
    BY <1>3, StagesLength
  <1>6. /\ stage = "main_file" <=> Done + 1 = 7
        /\ Discovers(stage) => Done + 1 = Discovery
        /\ stage = "regions" <=> Done + 1 = Len(Stages) - 1
        /\ stage = "manifest" <=> Done + 1 = Len(Stages)
    BY <1>4, <1>5, StageAt
  <1>7. pid # NoPid
    BY <1>1 DEF Staged
  <1>8. Discovery \in Nat
    BY DEF Discovery
  <1> HIDE DEF Done
  <1> QED BY <1>2, <1>3, <1>4, <1>6, <1>7, <1>8, StagesLength

LEMMA ManyStages == ~(0 >= Len(Stages) - 1) /\ ~(7 >= Len(Stages) - 1)
  <1>1. ASSUME NEW n \in {9, 10} PROVE ~(0 >= n - 1) /\ ~(7 >= n - 1)
    OBVIOUS
  <1> QED BY <1>1, StagesLength

(* A stage is over, and it is not the last.                                *)
LEMMA Advances ==
    ASSUME Staged, NEW stage, In(stage), stage # "manifest",
           stages' = Tail(stages), mode' = mode, pid' = pid, exit' = exit
    PROVE  Staged' /\ Done' = Done + 1 /\ Stages' = Stages
  <1>1. Stages' = Stages
    BY DEF Stages
  <1>2. /\ Len(stages) \in Nat \ {0} /\ pid # NoPid
        /\ Done \in 0 .. (Len(Stages) - 1) /\ Done # Len(Stages) - 1
    BY AtStage
  <1>3. stages \in Seq(StageNames) /\ stages # <<>>
    BY DEF Staged, In
  <1>4. /\ stages' \in Seq(StageNames) /\ Len(stages') = Len(stages) - 1
        /\ \A i \in 1 .. Len(stages') : stages'[i] = stages[i + 1]
    BY <1>3, HeadTailProperties
  <1>5. Done' = Done + 1
    BY <1>1, <1>2, <1>4, StagesLength DEF Done
  <1>6. Len(stages') \in Nat \ {0}
    BY <1>2, <1>4, StagesLength DEF Done
  <1>7. stages' # <<>>
    BY <1>6, EmptySeq
  <1>8. ASSUME NEW i \in 1 .. Len(stages') PROVE stages'[i] = Stages[Done' + i]
    <2>1. stages'[i] = stages[i + 1] /\ i + 1 \in 1 .. Len(stages)
      BY <1>2, <1>4, <1>6
    <2>2. stages[i + 1] = Stages[Done + (i + 1)]
      BY <2>1 DEF Staged
    <2>3. Done + (i + 1) = Done' + i
      BY <1>2, <1>5, StagesLength
    <2> QED BY <2>1, <2>2, <2>3
  <1>9. Len(stages') <= Len(Stages)
    BY <1>2, <1>4, StagesLength DEF Staged
  <1> QED BY <1>1, <1>2, <1>4, <1>5, <1>7, <1>8, <1>9 DEF Staged

LEMMA InitInv == DumpInit => DumpInv
  <1> SUFFICES ASSUME DumpInit PROVE DumpInv
    OBVIOUS
  <1>1. Typed
    BY DumpAssumption, EmptySeq, EmptyList DEF DumpInit, Typed, NoManifest
  <1>2. Staged
    BY EmptySeq, StagesLength DEF DumpInit, Staged
  <1>3. NoPid \notin Elements(PidList)
    BY DumpAssumption DEF Elements, Pids
  <1>4. Fresh /\ Kept
    <2>1. Elements(PidList) = Pids
      BY DEF Elements, Pids
    <2> QED BY <2>1, <1>3 DEF DumpInit, Fresh, Kept, KeptAt, NoManifest
  <1>5. Current /\ Idle
    BY NoNotes DEF DumpInit, Current, Idle
  <1> QED BY <1>1, <1>2, <1>4, <1>5 DEF DumpInv

-----------------------------------------------------------------------------
(* What the steps of a dump have in common.                                *)

LEMMA OthersKept ==
    ASSUME NEW p \in Pids, KeptAt(p),
           found'[p] = found[p], disk'[p] = disk[p], manifest'[p] = manifest[p]
    PROVE  KeptAt(p)'
  BY DEF KeptAt, FilesAgree, Of

(* A file of the region r of the current dump.                             *)
LEMMA AddsFile ==
    ASSUME Typed, pid \in Pids, NEW r \in Captured, NEW whole \in BOOLEAN,
           disk' = [disk EXCEPT ![pid] = @ \cup {File(r, whole)}]
    PROVE  /\ disk' \in [Pids -> SUBSET Files]
           /\ disk'[pid] = disk[pid] \cup {File(r, whole)}
           /\ \A p \in Pids : p # pid => disk'[p] = disk[p]
           /\ File(r, whole).region = r
  <1>1. File(r, whole) \in Files /\ File(r, whole).region = r
    BY DEF File, Files
  <1> QED BY <1>1 DEF Typed

LEMMA MayLeaveFile ==
    ASSUME Typed, pid \in Pids, NEW r \in Captured, HalfWritten(r)
    PROVE  /\ disk' \in [Pids -> SUBSET Files]
           /\ disk'[pid] \in {disk[pid], disk[pid] \cup {File(r, FALSE)}}
           /\ \A p \in Pids : p # pid => disk'[p] = disk[p]
           /\ File(r, FALSE).region = r
  <1>1. File(r, FALSE).region = r
    BY DEF File
  <1>2. CASE disk' = disk
    BY <1>1, <1>2 DEF Typed
  <1>3. CASE disk' = [disk EXCEPT ![pid] = @ \cup {File(r, FALSE)}]
    BY <1>3, AddsFile
  <1> QED BY <1>2, <1>3 DEF HalfWritten

(* The queue holds none of the processes that were dumped.                 *)
LEMMA StillFresh ==
    ASSUME Typed, Fresh, queue' = queue, manifest' = manifest, pid' \in {pid, NoPid},
           \A p \in Pids : p # pid => disk'[p] = disk[p]
    PROVE  Fresh'
  <1>1. Elements(queue) \subseteq Pids
    BY LenProperties, ElementOfSeq DEF Elements, Typed
  <1>2. Elements(queue)' = Elements(queue)
    BY DEF Elements
  <1> QED BY <1>1, <1>2, DumpAssumption DEF Fresh

(* A dump that ends without a manifest leaves what it has written.         *)
LEMMA Abandoned ==
    ASSUME DumpInv, pid # NoPid, pid' = NoPid, stages' = <<>>,
           UNCHANGED <<mode, deps, queue, found, artifacts, notes, manifest>>,
           todo' \in Seq(Regions), IsInjective(todo'),
           exit' \in {"running", "ok", "error"},
           NEW r \in found[pid], disk' = disk \/ HalfWritten(r)
    PROVE  DumpInv'
  <1>1. pid \in Pids /\ r \in Captured
    BY DEF DumpInv, Typed
  <1>2. /\ disk' \in [Pids -> SUBSET Files]
        /\ disk'[pid] \in {disk[pid], disk[pid] \cup {File(r, FALSE)}}
        /\ \A p \in Pids : p # pid => disk'[p] = disk[p]
        /\ File(r, FALSE).region = r
    <2>1. CASE disk' = disk
      BY <2>1 DEF DumpInv, Typed, File
    <2>2. CASE HalfWritten(r)
      BY <1>1, <2>2, MayLeaveFile DEF DumpInv
    <2> QED BY <2>1, <2>2
  <1>3. Typed'
    BY <1>2 DEF DumpInv, Typed
  <1>4. Staged'
    BY EmptySeq, StagesLength DEF Staged, Stages
  <1>5. Current'
    BY DEF Current
  <1>6. Idle'
    <2>1. artifacts \cup Of(notes) \subseteq found[pid]
      BY DEF DumpInv, Current, Accounted
    <2>2. Of(notes)' = Of(notes)
      BY DEF Of
    <2> QED BY <1>1, <2>1, <2>2 DEF Idle
  <1>7. Fresh'
    BY <1>2, StillFresh DEF DumpInv
  <1>8. Kept'
    <2> SUFFICES ASSUME NEW p \in Pids PROVE KeptAt(p)'
      BY DEF Kept
    <2>1. CASE p # pid
      BY <1>2, <2>1, OthersKept DEF DumpInv, Kept
    <2>2. CASE p = pid
      <3>1. manifest'[p].state = "none"
        BY <2>2 DEF DumpInv, Current
      <3>2. {f.region : f \in disk'[p]} \subseteq found'[p]
        BY <1>2, <2>2 DEF DumpInv, Kept, KeptAt
      <3> QED BY <3>1, <3>2 DEF KeptAt
    <2> QED BY <2>1, <2>2
  <1> QED BY <1>3, <1>4, <1>5, <1>6, <1>7, <1>8 DEF DumpInv

(* One more region is captured or noted, and its file agrees.              *)
LEMMA RegionDone ==
    ASSUME DumpInv, In("regions"), todo # <<>>, todo' = Tail(todo),
           UNCHANGED <<mode, deps, queue, pid, stages, found, manifest, exit>>,
           artifacts' \in SUBSET Captured, notes' \in SUBSET Notes,
           disk' \in [Pids -> SUBSET Files],
           \A p \in Pids : p # pid => disk'[p] = disk[p],
           {f.region : f \in disk'[pid]} \subseteq found[pid],
           \/ artifacts' = artifacts \cup {Head(todo)} /\ Of(notes') = Of(notes)
           \/ artifacts' = artifacts /\ Of(notes') = Of(notes) \cup {Head(todo)},
           FilesAgree(artifacts', notes', disk'[pid])
    PROVE  DumpInv'
  <1> DEFINE r == Head(todo)
  <1>1. /\ pid # NoPid /\ Done = Len(Stages) - 2
        /\ Len(Stages) \in {9, 10} /\ Done >= 7 /\ ~(Done >= Len(Stages) - 1)
    <2>1. Staged
      BY DEF DumpInv
    <2>2. pid # NoPid /\ Done = Len(Stages) - 2
      BY <2>1, AtStage
    <2> QED BY <2>2, StagesLength
  <1>2. /\ todo' \in Seq(Regions) /\ IsInjective(todo')
        /\ r \in Elements(todo) /\ Elements(todo') = Elements(todo) \ {r}
    BY TakesHead DEF DumpInv, Typed
  <1>3. pid \in Pids /\ Accounted /\ Staging /\ manifest[pid].state = "none"
    <2>1. pid \in Pids \cup {NoPid}
      BY DEF DumpInv, Typed
    <2>2. Current
      BY DEF DumpInv
    <2> QED BY <1>1, <2>1, <2>2 DEF Current
  <1>4. Typed'
    BY <1>2 DEF DumpInv, Typed
  <1>5. Staged' /\ Done' = Done /\ Stages' = Stages /\ Discovery' = Discovery
    BY DEF DumpInv, Staged, Stages, Done, Discovery
  <1> HIDE DEF r
  <1>6. Accounted'
    <2>1. Of(notes)' = Of(notes') /\ Elements(todo)' = Elements(todo')
      BY DEF Of, Elements
    <2>2. found[pid] = artifacts \cup Of(notes) \cup Elements(todo)
      BY <1>1, <1>3 DEF Accounted
    <2>3. r \notin artifacts \cup Of(notes)
      BY <1>2, <1>3 DEF Accounted
    <2>4. found[pid] = artifacts' \cup Of(notes') \cup Elements(todo')
      BY <1>2, <2>2 DEF r
    <2>5. artifacts' \cap Of(notes') = {}
      BY <1>3, <2>3 DEF r, Accounted
    <2>6. Elements(todo') \cap (artifacts' \cup Of(notes')) = {}
      BY <1>2, <1>3 DEF r, Accounted
    <2> QED BY <1>1, <1>5, <2>1, <2>4, <2>5, <2>6 DEF Accounted
  <1>7. Staging'
    <2>1. ~(Done < 7) /\ ~(Done < Discovery)
      <3>1. CASE mode = "system"
        <4>1. Len(Stages) = 10
          BY <3>1, StageTable
        <4> QED BY <1>1, <3>1, <4>1 DEF Discovery
      <3>2. CASE mode # "system"
        BY <1>1, <3>2 DEF Discovery
      <3> QED BY <1>1, <3>1, <3>2
    <2> QED BY <1>1, <1>5, <2>1 DEF Staging
  <1>8. Current'
    BY <1>3, <1>6, <1>7 DEF Current, FilesAgree
  <1>9. Idle' /\ Fresh'
    BY <1>1, StillFresh DEF DumpInv, Idle
  <1>10. Kept'
    <2> SUFFICES ASSUME NEW p \in Pids PROVE KeptAt(p)'
      BY DEF Kept
    <2>1. CASE p # pid
      BY <2>1, OthersKept DEF DumpInv, Kept
    <2>2. CASE p = pid
      BY <1>3, <2>2 DEF KeptAt
    <2> QED BY <2>1, <2>2
  <1> QED BY <1>4, <1>5, <1>8, <1>9, <1>10 DEF DumpInv

-----------------------------------------------------------------------------
(* The regions.                                                            *)

LEMMA NotedKeeps ==
    ASSUME DumpInv, NEW kind, NextRegion(kind), NEW status \in {"skipped", "failed"},
           Noted(Head(todo), status), disk' = disk
    PROVE  DumpInv'
  <1> DEFINE r == Head(todo)
  <1>1. /\ In("regions") /\ todo # <<>> /\ todo' = Tail(todo)
        /\ UNCHANGED <<mode, deps, queue, pid, stages, found, manifest, exit, artifacts>>
        /\ notes' = notes \cup {Note(r, status)}
    BY DEF NextRegion, Noted
  <1>2. r \in Regions
    BY <1>1, TakesHead DEF DumpInv, Typed
  <1>3. Of(notes') = Of(notes) \cup {r} /\ Note(r, status) \in Notes
    BY <1>1, <1>2, OneNote DEF Note, Notes, Captured
  <1>4. FilesAgree(artifacts', notes', disk'[pid])
    BY <1>1, AtStage DEF DumpInv, Current, FilesAgree
  <1>5. {f.region : f \in disk'[pid]} \subseteq found[pid]
    BY <1>1, AtStage DEF DumpInv, Typed, Kept, KeptAt
  <1>6. /\ artifacts' \in SUBSET Captured /\ notes' \in SUBSET Notes
        /\ disk' \in [Pids -> SUBSET Files] /\ \A p \in Pids : disk'[p] = disk[p]
    BY <1>1, <1>3 DEF DumpInv, Typed
  <1> QED BY <1>1, <1>3, <1>4, <1>5, <1>6, RegionDone

LEMMA SavedKeeps ==
    ASSUME DumpInv, NEW kind, NextRegion(kind), Saved(Head(todo))
    PROVE  DumpInv'
  <1> DEFINE r == Head(todo)
  <1>1. /\ In("regions") /\ todo # <<>> /\ todo' = Tail(todo)
        /\ UNCHANGED <<mode, deps, queue, found, manifest>>
    BY DEF NextRegion
  <1>2. pid \in Pids /\ pid # NoPid
    <2>1. pid # NoPid
      BY <1>1, AtStage DEF DumpInv
    <2> QED BY <2>1 DEF DumpInv, Typed
  <1>3. r \in Captured /\ r \in Elements(todo)
    BY <1>1, TakesHead DEF DumpInv, Typed, Captured
  <1>4. r \in found[pid] /\ Accounted /\ FilesAgree(artifacts, notes, disk[pid])
    BY <1>2, <1>3 DEF DumpInv, Current, Accounted
  <1>5. {f.region : f \in disk[pid]} \subseteq found[pid]
    BY <1>2 DEF DumpInv, Kept, KeptAt
  <1>6. artifacts \in SUBSET Captured /\ notes \in SUBSET Notes
    BY DEF DumpInv, Typed
  <1> HIDE DEF r
  <1>7. CASE /\ Written(r)
             /\ artifacts' = artifacts \cup {r}
             /\ UNCHANGED <<notes, stages, pid, cause, dumped, skipped, exit>>
    <2>1. /\ disk' \in [Pids -> SUBSET Files]
          /\ disk'[pid] = disk[pid] \cup {File(r, TRUE)}
          /\ \A p \in Pids : p # pid => disk'[p] = disk[p]
          /\ File(r, TRUE).region = r
      BY <1>2, <1>3, <1>7, AddsFile DEF Written, DumpInv
    <2>2. FilesAgree(artifacts', notes', disk'[pid])
      BY <1>4, <1>7, <2>1 DEF FilesAgree
    <2>3. {f.region : f \in disk'[pid]} \subseteq found[pid]
      BY <1>4, <1>5, <2>1
    <2>4. artifacts' \in SUBSET Captured /\ notes' \in SUBSET Notes /\ Of(notes') = Of(notes)
      BY <1>3, <1>6, <1>7
    <2> QED BY <1>1, <1>7, <2>1, <2>2, <2>3, <2>4, RegionDone DEF r
  <1>8. CASE HalfWritten(r) /\ Noted(r, "failed")
    <2>1. /\ disk' \in [Pids -> SUBSET Files]
          /\ disk'[pid] \in {disk[pid], disk[pid] \cup {File(r, FALSE)}}
          /\ \A p \in Pids : p # pid => disk'[p] = disk[p]
          /\ File(r, FALSE).region = r
      BY <1>2, <1>3, <1>8, MayLeaveFile DEF DumpInv
    <2>2. /\ notes' = notes \cup {Note(r, "failed")} /\ artifacts' = artifacts
          /\ UNCHANGED <<stages, pid, exit>>
      BY <1>8 DEF Noted
    <2>3. Of(notes') = Of(notes) \cup {r} /\ Note(r, "failed") \in Notes
      BY <1>3, <2>2, OneNote DEF Note, Notes
    <2>4. FilesAgree(artifacts', notes', disk'[pid])
      BY <1>4, <2>1, <2>2 DEF FilesAgree
    <2>5. {f.region : f \in disk'[pid]} \subseteq found[pid]
      BY <1>4, <1>5, <2>1
    <2>6. artifacts' \in SUBSET Captured /\ notes' \in SUBSET Notes
      BY <1>6, <2>2, <2>3
    <2> QED BY <1>1, <2>1, <2>2, <2>3, <2>4, <2>5, <2>6, RegionDone DEF r
  <1> QED BY <1>7, <1>8 DEF Saved, r

LEMMA FailsLeaves ==
    ASSUME NEW why, Fails(why), pid # NoPid, DumpInv
    PROVE  pid' = NoPid /\ stages' = <<>> /\ exit' \in {"running", "ok", "error"}
  BY DEF Fails, Returns, DumpInv, Typed

LEMMA FolderFailsKeeps ==
    ASSUME DumpInv, NEW kind, NextRegion(kind), FolderFails(Head(todo))
    PROVE  DumpInv'
  <1>1. /\ In("regions") /\ todo # <<>> /\ todo' = Tail(todo)
        /\ UNCHANGED <<mode, deps, queue, found, manifest, artifacts, notes, disk>>
    BY DEF NextRegion, FolderFails
  <1>2. pid # NoPid
    BY <1>1, AtStage DEF DumpInv
  <1>3. Head(todo) \in found[pid] /\ todo' \in Seq(Regions) /\ IsInjective(todo')
    BY <1>1, <1>2, TakesHead DEF DumpInv, Typed, Current, Accounted
  <1>4. pid' = NoPid /\ stages' = <<>> /\ exit' \in {"running", "ok", "error"}
    BY <1>2, FailsLeaves DEF FolderFails
  <1> QED BY <1>1, <1>2, <1>3, <1>4, Abandoned

LEMMA RegionsKeep ==
    ASSUME DumpInv, Hidden \/ Chunk \/ Dep
    PROVE  DumpInv'
  <1>1. CASE Hidden
    BY <1>1, NotedKeeps, SavedKeeps, FolderFailsKeeps DEF Hidden
  <1>2. CASE Chunk
    BY <1>2, NotedKeeps, SavedKeeps, FolderFailsKeeps DEF Chunk
  <1>3. CASE Dep
    BY <1>3, NotedKeeps, SavedKeeps, FolderFailsKeeps DEF Dep
  <1> QED BY <1>1, <1>2, <1>3

-----------------------------------------------------------------------------
(* The stages.                                                             *)

LEMMA DuringDump ==
    ASSUME DumpInv, NEW stage, In(stage)
    PROVE  /\ pid \in Pids /\ pid # NoPid /\ Done \in 0 .. (Len(Stages) - 1)
           /\ Accounted /\ Staging /\ manifest[pid].state = "none"
           /\ FilesAgree(artifacts, notes, disk[pid])
           /\ {f.region : f \in disk[pid]} \subseteq found[pid]
           /\ Done = 6 <=> stage = "main_file"
           /\ Discovers(stage) => Done = Discovery - 1
           /\ Done = Len(Stages) - 2 <=> stage = "regions"
           /\ Done = Len(Stages) - 1 <=> stage = "manifest"
  <1>1. Staged /\ Current /\ Kept
    BY DEF DumpInv
  <1>2. /\ pid # NoPid /\ Done \in 0 .. (Len(Stages) - 1)
        /\ Done = 6 <=> stage = "main_file"
        /\ Discovers(stage) => Done = Discovery - 1
        /\ Done = Len(Stages) - 2 <=> stage = "regions"
        /\ Done = Len(Stages) - 1 <=> stage = "manifest"
    BY <1>1, AtStage
  <1>3. pid \in Pids
    BY <1>2 DEF DumpInv, Typed
  <1>4. /\ Accounted /\ Staging /\ manifest[pid].state = "none"
        /\ FilesAgree(artifacts, notes, disk[pid])
    BY <1>1, <1>2 DEF Current
  <1>5. {f.region : f \in disk[pid]} \subseteq found[pid]
    BY <1>1, <1>3 DEF Kept, KeptAt
  <1> QED BY <1>2, <1>3, <1>4, <1>5

LEMMA BreakKeeps ==
    ASSUME DumpInv, NEW stage, Break(stage)
    PROVE  DumpInv'
  <1>1. /\ In(stage) /\ stage # "main_file"
        /\ UNCHANGED <<mode, deps, queue, todo, found, artifacts, notes, disk, manifest>>
    BY DEF Break
  <1>2. pid # NoPid /\ Accounted
    BY <1>1, DuringDump
  <1>3. pid' = NoPid /\ stages' = <<>> /\ exit' \in {"running", "ok", "error"}
    BY <1>2, FailsLeaves DEF Break
  <1>4. todo' \in Seq(Regions) /\ IsInjective(todo')
    BY <1>1 DEF DumpInv, Typed
  <1>5. Typed'
    BY <1>1, <1>3, <1>4 DEF DumpInv, Typed
  <1>6. Staged' /\ Current'
    BY <1>3, EmptySeq, StagesLength DEF Staged, Stages, Current
  <1>7. Idle'
    <2>1. pid \in Pids /\ artifacts \cup Of(notes) \subseteq found[pid]
      BY <1>1, <1>2, DuringDump DEF Accounted
    <2>2. Of(notes)' = Of(notes)
      BY <1>1 DEF Of
    <2> QED BY <1>1, <2>1, <2>2 DEF Idle
  <1>8. Fresh'
    BY <1>1, <1>3, StillFresh DEF DumpInv
  <1>9. Kept'
    BY <1>1, OthersKept DEF DumpInv, Kept
  <1> QED BY <1>5, <1>6, <1>7, <1>8, <1>9 DEF DumpInv

(* A stage that leaves the files and the manifests alone.                  *)
LEMMA StageKeeps ==
    ASSUME DumpInv, NEW stage, In(stage), stage # "manifest", stages' = Tail(stages),
           UNCHANGED <<mode, deps, queue, pid, artifacts, notes, disk, manifest, exit>>,
           todo' \in Seq(Regions), IsInjective(todo'),
           found' = [found EXCEPT ![pid] = found'[pid]],
           found'[pid] \in SUBSET Captured, found[pid] \subseteq found'[pid],
           Accounted', Staging'
    PROVE  DumpInv'
  <1>1. /\ pid \in Pids /\ pid # NoPid /\ manifest[pid].state = "none"
        /\ FilesAgree(artifacts, notes, disk[pid])
        /\ {f.region : f \in disk[pid]} \subseteq found[pid]
    BY DuringDump
  <1>2. found' \in [Pids -> SUBSET Captured] /\ \A p \in Pids : p # pid => found'[p] = found[p]
    BY DEF DumpInv, Typed
  <1>3. Typed'
    BY <1>2 DEF DumpInv, Typed
  <1>4. Staged'
    BY Advances DEF DumpInv
  <1>5. Current'
    BY <1>1 DEF Current, FilesAgree
  <1>6. Idle' /\ Fresh'
    BY <1>1, StillFresh DEF DumpInv, Idle
  <1>7. Kept'
    <2> SUFFICES ASSUME NEW p \in Pids PROVE KeptAt(p)'
      BY DEF Kept
    <2>1. CASE p # pid
      BY <1>2, <2>1, OthersKept DEF DumpInv, Kept
    <2>2. CASE p = pid
      BY <1>1, <2>2 DEF KeptAt
    <2> QED BY <2>1, <2>2
  <1> QED BY <1>3, <1>4, <1>5, <1>6, <1>7 DEF DumpInv

LEMMA PassKeeps ==
    ASSUME DumpInv, NEW stage, Pass(stage)
    PROVE  DumpInv'
  <1>1. /\ In(stage) /\ stage # "main_file" /\ stage # "regions" /\ stage # "manifest"
        /\ stages' = Tail(stages)
        /\ UNCHANGED <<mode, deps, queue, pid, artifacts, notes, disk, manifest, exit>>
    BY DEF Pass, countVars
  <1>2. /\ pid \in Pids /\ Done \in 0 .. (Len(Stages) - 1)
        /\ Accounted /\ Staging
        /\ Done # 6 /\ Done # Len(Stages) - 2 /\ Done # Len(Stages) - 1
        /\ Discovers(stage) => Done = Discovery - 1
    BY <1>1, DuringDump
  <1>3. Staged' /\ Done' = Done + 1 /\ Stages' = Stages /\ Discovery' = Discovery
    BY <1>1, Advances DEF DumpInv, Discovery
  <1>4. Of(notes)' = Of(notes) /\ Elements(todo)' = Elements(todo')
    BY <1>1 DEF Of, Elements
  <1>5. Len(Stages) \in {9, 10} /\ Discovery \in {2, 8}
    BY StagesLength DEF Discovery
  <1>6. Done + 1 < 7 <=> Done < 7
    BY <1>2, <1>5
  <1>7. ~(Done + 1 >= Len(Stages) - 1)
    BY <1>2, <1>5
  <1>8. todo \in Seq(Regions) /\ IsInjective(todo) /\ found \in [Pids -> SUBSET Captured]
    BY DEF DumpInv, Typed
  <1>9. CASE ~Discovers(stage)
    <2>1. todo' = todo /\ found' = found
      BY <1>9 DEF Pass
    <2>2. Accounted'
      BY <1>1, <1>2, <1>3, <1>4, <1>6, <2>1 DEF Accounted
    <2>3. Staging'
      BY <1>1, <1>2, <1>3, <1>5, <1>6, <1>7, <2>1 DEF Staging
    <2> QED BY <1>1, <1>2, <1>8, <2>1, <2>2, <2>3, StageKeeps
  <1>10. CASE Discovers(stage)
    <2>1. PICK report \in Reports :
            /\ todo' = Selected(report)
            /\ found' = [found EXCEPT ![pid] = @ \cup {todo'[i] : i \in DOMAIN todo'}]
      BY <1>10 DEF Pass
    <2>2. todo' \in Seq(Regions) /\ IsInjective(todo')
      BY <2>1, SelectedType
    <2>3. Elements(todo') \subseteq Regions
      BY <2>2, LenProperties, ElementOfSeq DEF Elements
    <2>4. found'[pid] = found[pid] \cup Elements(todo')
      BY <1>2, <1>8, <2>1 DEF Elements
    <2>5. found' = [found EXCEPT ![pid] = found'[pid]]
      BY <1>2, <1>8, <2>1
    <2>6. found'[pid] \in SUBSET Captured
      BY <1>2, <1>8, <2>3, <2>4 DEF Captured
    <2>7. todo = <<>> /\ artifacts \subseteq {Main} /\ notes = {}
      BY <1>2, <1>5, <1>10 DEF Staging
    <2>8. Accounted'
      <3>1. Elements(todo) = {} /\ Of(notes) = {}
        BY <2>7, EmptyList, NoNotes
      <3>2. found'[pid] = artifacts \cup Of(notes) \cup Elements(todo')
                            \cup (IF Done + 1 < 7 THEN {Main} ELSE {})
        BY <1>2, <1>6, <2>4, <3>1 DEF Accounted
      <3>3. Elements(todo') \cap (artifacts \cup Of(notes)) = {}
        BY <2>3, <2>7, <3>1, MainIsNoRegion
      <3> QED BY <1>1, <1>3, <1>4, <2>7, <3>1, <3>2, <3>3 DEF Accounted
    <2>9. Staging'
      <3>1. ~(Done + 1 < Discovery)
        BY <1>2, <1>5, <1>10
      <3>2. Done < 7 => artifacts = {} /\ notes = {}
        BY <1>2 DEF Staging
      <3> QED BY <1>1, <1>3, <1>6, <1>7, <3>1, <3>2 DEF Staging
    <2> QED BY <1>1, <2>2, <2>4, <2>5, <2>6, <2>8, <2>9, StageKeeps
  <1> QED BY <1>9, <1>10

LEMMA RegionsDoneKeeps ==
    ASSUME DumpInv, RegionsDone
    PROVE  DumpInv'
  <1>1. /\ In("regions") /\ todo = <<>> /\ stages' = Tail(stages) /\ todo' = todo
        /\ UNCHANGED <<mode, deps, queue, pid, artifacts, notes, found, disk, manifest, exit>>
    BY DEF RegionsDone, fileVars, countVars
  <1>2. /\ pid \in Pids /\ Done = Len(Stages) - 2 /\ Accounted /\ Staging
    BY <1>1, DuringDump
  <1>3. Staged' /\ Done' = Done + 1 /\ Stages' = Stages /\ Discovery' = Discovery
    BY <1>1, Advances DEF DumpInv, Discovery
  <1>4. Of(notes)' = Of(notes) /\ Elements(todo)' = Elements(todo)
    BY <1>1 DEF Of, Elements
  <1>5. ~(Done < 7) /\ ~(Done + 1 < 7)
    <2>1. Len(Stages) = 9 \/ Len(Stages) = 10
      BY StagesLength
    <2>2. Done = Len(Stages) - 2
      BY <1>2
    <2>3. Done = 7 \/ Done = 8
      BY <2>1, <2>2
    <2> QED BY <2>3
  <1>6. ~(Done + 1 < Discovery)
    <2>1. CASE mode = "system"
      <3>1. Len(Stages) = 10
        BY <2>1, StageTable
      <3> QED BY <1>2, <2>1, <3>1 DEF Discovery
    <2>2. CASE mode # "system"
      <3>1. Len(Stages) = 9
        BY <2>2, StageTable
      <3> QED BY <1>2, <2>2, <3>1 DEF Discovery
    <2> QED BY <2>1, <2>2
  <1>7. Accounted'
    BY <1>1, <1>2, <1>3, <1>4, <1>5 DEF Accounted
  <1>8. Staging'
    BY <1>1, <1>3, <1>5, <1>6 DEF Staging
  <1>9. todo' \in Seq(Regions) /\ IsInjective(todo') /\ found \in [Pids -> SUBSET Captured]
    BY <1>1 DEF DumpInv, Typed
  <1>10. found' = [found EXCEPT ![pid] = found'[pid]]
    BY <1>1, <1>9
  <1> QED BY <1>1, <1>2, <1>7, <1>8, <1>9, <1>10, StageKeeps

LEMMA WriteMainKeeps ==
    ASSUME DumpInv, WriteMain
    PROVE  DumpInv'
  <1>1. /\ In("main_file")
        /\ UNCHANGED <<mode, deps, queue, todo, found, notes, manifest>>
    BY DEF WriteMain
  <1>2. /\ pid \in Pids /\ pid # NoPid /\ Done = 6
        /\ Accounted /\ Staging /\ manifest[pid].state = "none"
        /\ FilesAgree(artifacts, notes, disk[pid])
        /\ {f.region : f \in disk[pid]} \subseteq found[pid]
    BY <1>1, DuringDump
  <1>3. artifacts = {} /\ notes = {} /\ Of(notes) = {}
    <2>1. Done < 7
      <3>1. Done = 6
        BY <1>2
      <3> QED BY <3>1
    <2>2. Staging
      BY <1>2
    <2> QED BY <2>1, <2>2, NoNotes DEF Staging
  <1>4. Main \in Captured /\ Main \in found[pid]
    BY <1>2 DEF Captured, Accounted
  <1>5. todo \in Seq(Regions) /\ IsInjective(todo)
    BY DEF DumpInv, Typed
  <1>6. CASE /\ Written(Main)
             /\ artifacts' = artifacts \cup {Main}
             /\ stages' = Tail(stages)
             /\ UNCHANGED <<pid, cause, dumped, skipped, exit>>
    <2>1. /\ disk' \in [Pids -> SUBSET Files]
          /\ disk'[pid] = disk[pid] \cup {File(Main, TRUE)}
          /\ \A p \in Pids : p # pid => disk'[p] = disk[p]
          /\ File(Main, TRUE).region = Main
      BY <1>2, <1>4, <1>6, AddsFile DEF Written, DumpInv
    <2>2. FilesAgree(artifacts', notes', disk'[pid])
      BY <1>1, <1>2, <1>6, <2>1 DEF FilesAgree
    <2>3. Staged' /\ Done' = Done + 1 /\ Stages' = Stages /\ Discovery' = Discovery
      BY <1>1, <1>6, Advances DEF DumpInv, Discovery
    <2>4. Of(notes)' = {} /\ Elements(todo)' = Elements(todo)
      BY <1>1, <1>3 DEF Of, Elements
    <2>5. Elements(todo) \subseteq Regions
      BY <1>5, LenProperties, ElementOfSeq DEF Elements
    <2>6. Accounted'
      <3>1. found[pid] = Elements(todo) \cup {Main}
        BY <1>2, <1>3 DEF Accounted
      <3>2. ~(Done' < 7)
        BY <1>2, <2>3
      <3> QED BY <1>1, <1>3, <1>6, <2>4, <2>5, <3>1, <3>2, MainIsNoRegion DEF Accounted
    <2>7. Staging'
      <3>1. ~(Done' < 7) /\ ~(Done' >= Len(Stages) - 1)
        <4>1. Done = 6
          BY <1>2
        <4>2. Done' = 7
          BY <2>3, <4>1
        <4>3. ~(7 < 7) /\ ~(7 >= Len(Stages) - 1)
          BY ManyStages
        <4> QED BY <4>2, <4>3, Zenon
      <3>2. Done' < Discovery => todo = <<>> /\ artifacts' \subseteq {Main} /\ notes = {}
        <4>1. Discovery \in Nat
          BY DEF Discovery
        <4>2. Done' < Discovery => Done < Discovery
          BY <1>2, <2>3, <4>1
        <4> QED BY <1>2, <1>3, <1>6, <4>2 DEF Staging
      <3> QED BY <1>1, <2>3, <3>1, <3>2 DEF Staging
    <2>8. Typed'
      BY <1>1, <1>4, <1>6, <2>1 DEF DumpInv, Typed
    <2>9. Current'
      BY <1>1, <1>2, <1>6, <2>2, <2>6, <2>7 DEF Current, FilesAgree
    <2>10. Idle' /\ Fresh'
      BY <1>1, <1>2, <1>6, <2>1, StillFresh DEF DumpInv, Idle
    <2>11. Kept'
      <3> SUFFICES ASSUME NEW p \in Pids PROVE KeptAt(p)'
        BY DEF Kept
      <3>1. CASE p # pid
        BY <1>1, <2>1, <3>1, OthersKept DEF DumpInv, Kept
      <3>2. CASE p = pid
        BY <1>1, <1>2, <1>4, <2>1, <3>2 DEF KeptAt
      <3> QED BY <3>1, <3>2
    <2> QED BY <2>3, <2>8, <2>9, <2>10, <2>11 DEF DumpInv
  <1>7. CASE HalfWritten(Main) /\ Fails("main_file") /\ artifacts' = artifacts
    <2>1. pid' = NoPid /\ stages' = <<>> /\ exit' \in {"running", "ok", "error"}
      BY <1>2, <1>7, FailsLeaves
    <2> QED BY <1>1, <1>2, <1>4, <1>5, <1>7, <2>1, Abandoned
  <1> QED BY <1>6, <1>7 DEF WriteMain

LEMMA WriteManifestKeeps ==
    ASSUME DumpInv, WriteManifest
    PROVE  DumpInv'
  <1>1. /\ In("manifest")
        /\ UNCHANGED <<mode, deps, queue, todo, artifacts, notes, found, disk>>
    BY DEF WriteManifest
  <1>2. /\ pid \in Pids /\ pid # NoPid /\ Done = Len(Stages) - 1
        /\ Accounted /\ Staging /\ manifest[pid].state = "none"
        /\ FilesAgree(artifacts, notes, disk[pid])
        /\ {f.region : f \in disk[pid]} \subseteq found[pid]
    BY <1>1, DuringDump
  <1>3. pid' = NoPid /\ stages' = <<>> /\ exit' \in {"running", "ok", "error"}
    BY DEF WriteManifest, WroteManifest, Returns, DumpInv, Typed
  <1>4. todo = <<>> /\ ~(Done < 7)
    <2>1. Len(Stages) = 9 \/ Len(Stages) = 10
      BY StagesLength
    <2>2. Done = Len(Stages) - 1
      BY <1>2
    <2>3. Done = 8 \/ Done = 9
      BY <2>1, <2>2
    <2>4. Done >= Len(Stages) - 1
      BY <2>1, <2>2
    <2>5. ~(Done < 7)
      BY <2>3
    <2>6. Staging
      BY <1>2
    <2> QED BY <2>4, <2>5, <2>6 DEF Staging
  <1>5. artifacts \cup Of(notes) = found[pid] /\ artifacts \cap Of(notes) = {}
    BY <1>2, <1>4, EmptyList DEF Accounted
  <1>6. /\ manifest \in [Pids -> [state : {"none", "partial", "whole"},
                                  artifacts : SUBSET Captured, notes : SUBSET Notes]]
        /\ artifacts \in SUBSET Captured /\ notes \in SUBSET Notes
    BY DEF DumpInv, Typed
  <1>7. /\ manifest' \in [Pids -> [state : {"none", "partial", "whole"},
                                   artifacts : SUBSET Captured, notes : SUBSET Notes]]
        /\ \A p \in Pids : p # pid => manifest'[p] = manifest[p]
        /\ manifest'[pid].state = "whole" =>
             manifest'[pid].artifacts = artifacts /\ manifest'[pid].notes = notes
    <2>1. CASE manifest' = [manifest EXCEPT ![pid] =
                   [state |-> "whole", artifacts |-> artifacts, notes |-> notes]]
      BY <1>2, <1>6, <2>1
    <2>2. CASE manifest' = manifest
      BY <1>2, <1>6, <2>2
    <2>3. CASE manifest' = [manifest EXCEPT ![pid].state = "partial"]
      BY <1>2, <1>6, <2>3
    <2> QED BY <2>1, <2>2, <2>3 DEF WriteManifest
  <1>8. Typed'
    BY <1>1, <1>3, <1>7 DEF DumpInv, Typed
  <1>9. Staged' /\ Current'
    BY <1>3, EmptySeq, StagesLength DEF Staged, Stages, Current
  <1>10. Idle'
    BY <1>1, <1>2, <1>5 DEF Idle, Of
  <1>11. Fresh'
    <2>1. Elements(queue) \subseteq Pids
      BY LenProperties, ElementOfSeq DEF Elements, DumpInv, Typed
    <2>2. Elements(queue)' = Elements(queue)
      BY <1>1 DEF Elements
    <2> QED BY <1>1, <1>3, <1>7, <2>1, <2>2, DumpAssumption DEF DumpInv, Fresh
  <1>12. Kept'
    <2> SUFFICES ASSUME NEW p \in Pids PROVE KeptAt(p)'
      BY DEF Kept
    <2>1. CASE p # pid
      BY <1>1, <1>7, <2>1, OthersKept DEF DumpInv, Kept
    <2>2. CASE p = pid
      BY <1>1, <1>2, <1>5, <1>7, <2>2 DEF KeptAt, FilesAgree, Of
    <2> QED BY <2>1, <2>2
  <1> QED BY <1>8, <1>9, <1>10, <1>11, <1>12 DEF DumpInv

-----------------------------------------------------------------------------
(* The loop over the processes.                                            *)

LEMMA StartKeeps ==
    ASSUME DumpInv, Start
    PROVE  DumpInv'
  <1> DEFINE h == Head(queue)
  <1>1. /\ exit = "running" /\ pid = NoPid /\ queue # <<>>
        /\ artifacts' = {} /\ notes' = {} /\ todo' = <<>>
        /\ UNCHANGED <<mode, deps, disk, manifest, exit>>
        /\ queue' = IF mode = "pid" THEN <<>> ELSE Tail(queue)
    BY DEF Start
  <1>2. /\ queue \in Seq(Pids) /\ IsInjective(queue)
        /\ found \in [Pids -> SUBSET Captured]
    BY DEF DumpInv, Typed
  <1>3. /\ h \in Pids /\ h \in Elements(queue)
        /\ Tail(queue) \in Seq(Pids) /\ IsInjective(Tail(queue))
        /\ Elements(Tail(queue)) = Elements(queue) \ {h}
    BY <1>1, <1>2, TakesHead
  <1>4. queue' \in Seq(Pids) /\ IsInjective(queue') /\ Elements(queue') \subseteq Elements(queue) \ {h}
    BY <1>1, <1>3, EmptySeq, EmptyList
  <1>5. Of(notes)' = {} /\ Elements(todo)' = {} /\ Elements(queue)' = Elements(queue')
    BY <1>1, EmptyList DEF Of, Elements
  <1>6. \A p \in Elements(queue) : disk[p] = {} /\ manifest[p].state = "none"
    BY DEF DumpInv, Fresh
  <1>7. Elements(queue) \subseteq Pids
    BY <1>2, LenProperties, ElementOfSeq DEF Elements
  <1>8. \A p \in Pids : KeptAt(p)
    BY DEF DumpInv, Kept
  <1> HIDE DEF h
  <1>9. CASE mode = "pid" \/ Takes(h)
    <2>1. /\ pid' = h /\ stages' = Stages /\ found' = [found EXCEPT ![h] = {Main}]
      BY <1>9 DEF Start, h
    <2>2. h # NoPid
      BY <1>3, DumpAssumption
    <2>3. Stages' = Stages /\ Discovery' = Discovery
      BY <1>1 DEF Stages, Discovery
    <2>4. Done' = 0
      <3>1. Len(Stages) \in Nat
        BY StagesLength
      <3> QED BY <2>1, <2>3, <3>1 DEF Done
    <2>5. Staged'
      <3>1. Len(Stages) \in Nat \ {0} /\ Stages \in Seq(StageNames)
        BY StagesLength
      <3>2. Stages # <<>>
        BY <3>1, EmptySeq
      <3>3. \A i \in 1 .. Len(Stages) : Stages[i] = Stages[0 + i]
        BY <3>1
      <3> QED BY <1>1, <2>1, <2>2, <2>3, <2>4, <3>1, <3>2, <3>3 DEF Staged
    <2>6. Typed'
      BY <1>1, <1>3, <1>4, <2>1, EmptySeq, EmptyList DEF DumpInv, Typed, Captured
    <2>7. found'[h] = {Main}
      BY <1>2, <1>3, <2>1
    <2>8. Accounted'
      BY <1>1, <1>5, <2>1, <2>4, <2>7 DEF Accounted
    <2>9. Staging'
      <3>1. ~(0 >= Len(Stages) - 1)
        BY ManyStages
      <3> QED BY <1>1, <2>3, <2>4, <3>1 DEF Staging
    <2>10. Current'
      BY <1>1, <1>3, <1>6, <2>1, <2>8, <2>9 DEF Current, FilesAgree
    <2>11. Idle' /\ Fresh'
      BY <1>1, <1>4, <1>5, <1>6, <2>1, <2>2 DEF Idle, Fresh
    <2>12. Kept'
      <3> SUFFICES ASSUME NEW p \in Pids PROVE KeptAt(p)'
        BY DEF Kept
      <3>1. CASE p # h
        BY <1>1, <1>2, <1>8, <2>1, <3>1, OthersKept
      <3>2. CASE p = h
        BY <1>1, <1>3, <1>6, <3>2 DEF KeptAt
      <3> QED BY <3>1, <3>2
    <2> QED BY <2>5, <2>6, <2>10, <2>11, <2>12 DEF DumpInv
  <1>10. CASE ~(mode = "pid" \/ Takes(h))
    <2>1. UNCHANGED <<pid, stages, found>>
      BY <1>10 DEF Start, h
    <2>2. Typed'
      BY <1>1, <1>4, <2>1, EmptySeq, EmptyList DEF DumpInv, Typed
    <2>3. Staged'
      BY <1>1, <2>1 DEF DumpInv, Staged, Stages, Done
    <2>4. Current' /\ Idle' /\ Fresh'
      BY <1>1, <1>4, <1>5, <1>6, <1>7, <2>1, DumpAssumption DEF Current, Idle, Fresh
    <2>5. Kept'
      BY <1>1, <1>8, <2>1, OthersKept DEF Kept
    <2> QED BY <2>2, <2>3, <2>4, <2>5 DEF DumpInv
  <1> QED BY <1>9, <1>10

LEMMA StutterKeeps ==
    ASSUME DumpInv, exit' \in {"running", "ok", "error"}, pid # NoPid => exit' = exit,
           UNCHANGED <<mode, deps, runVars, fileVars>>
    PROVE  DumpInv'
  <1>1. UNCHANGED <<mode, deps, queue, pid, stages, todo, artifacts, notes, found, disk, manifest>>
    BY DEF runVars, fileVars
  <1>2. Typed' /\ Staged'
    BY <1>1 DEF DumpInv, Typed, Staged, Stages, Done
  <1>3. Current'
    <2>1. /\ Done' = Done /\ Stages' = Stages /\ Discovery' = Discovery
          /\ Of(notes)' = Of(notes) /\ Elements(todo)' = Elements(todo)
      BY <1>1 DEF Done, Stages, Discovery, Of, Elements
    <2>2. Accounted => Accounted'
      BY <1>1, <2>1 DEF Accounted
    <2>3. Staging => Staging'
      BY <1>1, <2>1 DEF Staging
    <2>4. FilesAgree(artifacts, notes, disk[pid]) => FilesAgree(artifacts, notes, disk[pid])'
      BY <1>1 DEF FilesAgree
    <2> QED BY <1>1, <2>2, <2>3, <2>4 DEF DumpInv, Current
  <1>4. Idle' /\ Fresh'
    BY <1>1 DEF DumpInv, Idle, Fresh, Of, Elements
  <1>5. Kept'
    BY <1>1, OthersKept DEF DumpInv, Kept
  <1> QED BY <1>2, <1>3, <1>4, <1>5 DEF DumpInv

LEMMA NextInv ==
    ASSUME DumpInv, [DumpNext]_dumpVars
    PROVE  DumpInv'
  <1>1. CASE Start
    BY <1>1, StartKeeps
  <1>2. CASE BatchEnd
    BY <1>2, StutterKeeps DEF BatchEnd
  <1>3. ASSUME NEW stage \in StageNames, Pass(stage) PROVE DumpInv'
    BY <1>3, PassKeeps
  <1>4. ASSUME NEW stage \in StageNames, Break(stage) PROVE DumpInv'
    BY <1>4, BreakKeeps
  <1>5. CASE WriteMain
    BY <1>5, WriteMainKeeps
  <1>6. CASE Hidden \/ Chunk \/ Dep
    BY <1>6, RegionsKeep
  <1>7. CASE RegionsDone
    BY <1>7, RegionsDoneKeeps
  <1>8. CASE WriteManifest
    BY <1>8, WriteManifestKeeps
  <1>9. CASE UNCHANGED dumpVars
    BY <1>9, StutterKeeps DEF dumpVars, countVars, DumpInv, Typed
  <1> QED
    BY <1>1, <1>2, <1>3, <1>4, <1>5, <1>6, <1>7, <1>8, <1>9
    DEF DumpNext, DumpStep, Terminated

LEMMA SpecInv == DumpSpec => []DumpInv
  <1> QED BY InitInv, NextInv, PTL DEF DumpSpec

(***************************************************************************)
(* A dump collects, and writes, only what it set out to capture            *)
(* (lib.rs:772-787), for every list of processes and every report.         *)
(***************************************************************************)
THEOREM DumpTyped == DumpSpec => []DumpTypeOK
  <1>1. DumpInv => DumpTypeOK
    <2> SUFFICES ASSUME DumpInv PROVE DumpTypeOK
      OBVIOUS
    <2>1. /\ pid \in Pids \cup {NoPid} /\ (pid = NoPid <=> stages = <<>>)
          /\ exit \in {"running", "ok", "error"}
      BY DEF DumpInv, Typed, Staged
    <2>2. artifacts \cup Of(notes) \subseteq IF pid = NoPid THEN UNION {found[p] : p \in Pids}
                                             ELSE found[pid]
      BY DEF DumpInv, Current, Accounted, Idle
    <2>3. \A p \in Pids : manifest[p].state \in {"none", "partial", "whole"}
      BY DEF DumpInv, Typed
    <2> QED BY <2>1, <2>2, <2>3 DEF DumpTypeOK, DumpInv, Kept, KeptAt
  <1> QED BY <1>1, SpecInv, PTL

(***************************************************************************)
(* Every region a dump set out to capture is in its manifest exactly once, *)
(* captured or noted (lib.rs:785-787): the regions captured, noted and     *)
(* still to come make up what was found, from stage to stage.              *)
(***************************************************************************)
THEOREM ManifestAccounts == DumpSpec => []ManifestAccountsForAll
  <1>1. DumpInv => ManifestAccountsForAll
    BY DEF DumpInv, Kept, KeptAt, ManifestAccountsForAll
  <1> QED BY <1>1, SpecInv, PTL

(***************************************************************************)
(* Every artifact of a manifest has its whole file, and every other file   *)
(* in the directory was noted as failed (manifest.rs:7-16).                *)
(***************************************************************************)
THEOREM ManifestMatches == DumpSpec => []ManifestMatchesFiles
  <1>1. DumpInv => ManifestMatchesFiles
    BY DEF DumpInv, Kept, KeptAt, FilesAgree, ManifestMatchesFiles
  <1> QED BY <1>1, SpecInv, PTL

-----------------------------------------------------------------------------
(* The counters of a batch.                                                *)

Whole == {p \in Pids : manifest[p].state = "whole"}
Taken == {p \in Tried : Takes(p)}
Busy == IF pid = NoPid THEN 0 ELSE 1

(* What a batch has not come to is the end of the list.                    *)
Ordered ==
    /\ Len(queue) <= Len(PidList)
    /\ \A i \in 1 .. Len(queue) : queue[i] = PidList[(Len(PidList) - Len(queue)) + i]

Counted ==
    /\ dumped \in Nat /\ skipped \in Nat
    /\ dumped = Cardinality(Whole)
    /\ dumped + skipped + Busy = Cardinality(Taken)
    /\ matched = dumped + skipped + Busy

CountInv == mode # "pid" => Ordered /\ Counted

LEMMA PidsFinite == IsFiniteSet(Pids)
  <1> DEFINE D == 1 .. Len(PidList)
  <1>1. Len(PidList) \in Nat /\ PidList \in [D -> Pids] /\ DOMAIN PidList = D
    BY DumpAssumption, LenProperties
  <1>2. PidList \in Surjection(D, Pids)
    BY <1>1 DEF Surjection, Pids
  <1>3. IsFiniteSet(D)
    BY <1>1, FS_Interval
  <1> QED BY <1>2, <1>3, FS_Surjection

LEMMA TriedFinite ==
    ASSUME Typed, Ordered
    PROVE  IsFiniteSet(Taken)
  <1>1. Tried \subseteq Pids
    <2>1. Len(queue) \in Nat /\ Len(PidList) \in Nat /\ DOMAIN PidList = 1 .. Len(PidList)
      BY DumpAssumption, LenProperties DEF Typed
    <2> QED BY <2>1 DEF Tried, Pids
  <1> QED BY <1>1, PidsFinite, FS_Subset DEF Taken

LEMMA InitCounted == DumpInit => CountInv
  <1> SUFFICES ASSUME DumpInit PROVE Ordered /\ Counted
    BY DEF CountInv
  <1>1. Len(PidList) \in Nat
    BY DumpAssumption, LenProperties
  <1>2. Ordered
    BY <1>1 DEF DumpInit, Ordered
  <1>3. Whole = {} /\ Taken = {} /\ Busy = 0
    BY <1>1 DEF DumpInit, Whole, Taken, Tried, Busy, NoManifest
  <1> QED BY <1>2, <1>3, FS_EmptySet DEF DumpInit, Counted

LEMMA CountsSame ==
    ASSUME CountInv,
           UNCHANGED <<mode, queue, manifest, dumped, skipped, matched>>,
           pid' = pid
    PROVE  CountInv'
  BY DEF CountInv, Ordered, Counted, Whole, Taken, Tried, Takes, Busy

(* A dump ends, and one of the counters goes up by one.                    *)
LEMMA CountsSkipped ==
    ASSUME CountInv, pid # NoPid, pid' = NoPid,
           UNCHANGED <<mode, queue, matched>>, Whole' = Whole,
           mode # "pid" => dumped' = dumped /\ skipped' = skipped + 1
    PROVE  CountInv'
  <1> SUFFICES ASSUME mode # "pid" PROVE Ordered' /\ Counted'
    BY DEF CountInv
  <1>1. Ordered /\ Counted
    BY DEF CountInv
  <1>2. Ordered'
    BY <1>1 DEF Ordered
  <1>3. Taken' = Taken
    BY DEF Taken, Tried, Takes
  <1>4. Busy = 1 /\ Busy' = 0
    BY DEF Busy
  <1>5. dumped' + skipped' + 0 = dumped + skipped + 1
    BY <1>1 DEF Counted
  <1> QED BY <1>1, <1>2, <1>3, <1>4, <1>5 DEF Counted

LEMMA FailsCounted ==
    ASSUME CountInv, pid # NoPid, NEW why, Fails(why),
           UNCHANGED <<mode, queue, matched, manifest>>
    PROVE  CountInv'
  <1>1. pid' = NoPid /\ (mode # "pid" => dumped' = dumped /\ skipped' = skipped + 1)
    BY DEF Fails, Returns
  <1>2. Whole' = Whole
    BY DEF Whole
  <1> QED BY <1>1, <1>2, CountsSkipped

LEMMA RegionsCounted ==
    ASSUME DumpInv, CountInv, Hidden \/ Chunk \/ Dep
    PROVE  CountInv'
  <1>1. PICK kind \in {"hidden", "chunk", "dep"} :
          /\ NextRegion(kind)
          /\ \/ \E status \in {"skipped", "failed"} : Noted(Head(todo), status)
             \/ Saved(Head(todo))
             \/ FolderFails(Head(todo))
    BY DEF Hidden, Chunk, Dep
  <1>2. In("regions") /\ UNCHANGED <<mode, queue, manifest, matched>>
    BY <1>1 DEF NextRegion
  <1>3. pid # NoPid
    BY <1>2, DuringDump
  <1>4. CASE \E status \in {"skipped", "failed"} : Noted(Head(todo), status)
    BY <1>2, <1>4, CountsSame DEF Noted
  <1>5. CASE Saved(Head(todo))
    BY <1>2, <1>5, CountsSame DEF Saved, Noted
  <1>6. CASE FolderFails(Head(todo))
    BY <1>2, <1>3, <1>6, FailsCounted DEF FolderFails
  <1> QED BY <1>1, <1>4, <1>5, <1>6

LEMMA StagesCounted ==
    ASSUME DumpInv, CountInv, NEW stage, Pass(stage) \/ Break(stage)
    PROVE  CountInv'
  <1>1. CASE Pass(stage)
    BY <1>1, CountsSame DEF Pass, countVars
  <1>2. CASE Break(stage)
    <2>1. pid # NoPid
      BY <1>2, DuringDump DEF Break
    <2> QED BY <1>2, <2>1, FailsCounted DEF Break
  <1> QED BY <1>1, <1>2

LEMMA MainCounted ==
    ASSUME DumpInv, CountInv, WriteMain
    PROVE  CountInv'
  <1>1. pid # NoPid /\ UNCHANGED <<mode, queue, manifest, matched>>
    BY DuringDump DEF WriteMain
  <1>2. CASE UNCHANGED <<pid, cause, dumped, skipped, exit>>
    BY <1>1, <1>2, CountsSame
  <1>3. CASE Fails("main_file")
    BY <1>1, <1>3, FailsCounted
  <1> QED BY <1>2, <1>3 DEF WriteMain

LEMMA ManifestCounted ==
    ASSUME DumpInv, CountInv, WriteManifest
    PROVE  CountInv'
  <1>1. /\ pid \in Pids /\ pid # NoPid /\ manifest[pid].state = "none"
        /\ UNCHANGED <<mode, queue, matched>>
    BY DuringDump DEF WriteManifest
  <1>2. manifest \in [Pids -> [state : {"none", "partial", "whole"},
                               artifacts : SUBSET Captured, notes : SUBSET Notes]]
    BY DEF DumpInv, Typed
  <1>3. CASE /\ manifest' = [manifest EXCEPT ![pid] =
                  [state |-> "whole", artifacts |-> artifacts, notes |-> notes]]
             /\ WroteManifest(TRUE)
    <2> SUFFICES ASSUME mode # "pid" PROVE Ordered' /\ Counted'
      BY <1>1 DEF CountInv
    <2>1. Ordered /\ Counted
      BY DEF CountInv
    <2>2. pid' = NoPid /\ dumped' = dumped + 1 /\ skipped' = skipped
      BY <1>3 DEF WroteManifest, Returns
    <2>3. Whole' = Whole \cup {pid} /\ pid \notin Whole
      BY <1>1, <1>2, <1>3 DEF Whole
    <2>4. IsFiniteSet(Whole)
      BY PidsFinite, FS_Subset DEF Whole
    <2>5. Cardinality(Whole') = Cardinality(Whole) + 1
      BY <2>3, <2>4, FS_AddElement
    <2>6. Ordered' /\ Taken' = Taken
      BY <1>1, <2>1 DEF Ordered, Taken, Tried, Takes
    <2>7. Busy = 1 /\ Busy' = 0
      BY <1>1, <2>2 DEF Busy
    <2>8. dumped' + skipped' + 0 = dumped + skipped + 1
      BY <2>1, <2>2 DEF Counted
    <2> QED BY <1>1, <2>1, <2>2, <2>5, <2>6, <2>7, <2>8 DEF Counted
  <1>4. CASE /\ manifest' \in {manifest, [manifest EXCEPT ![pid].state = "partial"]}
             /\ WroteManifest(FALSE)
    <2>1. pid' = NoPid /\ (mode # "pid" => dumped' = dumped /\ skipped' = skipped + 1)
      BY <1>4 DEF WroteManifest, Returns
    <2>2. Whole' = Whole
      BY <1>1, <1>2, <1>4 DEF Whole
    <2> QED BY <1>1, <2>1, <2>2, CountsSkipped
  <1> QED BY <1>3, <1>4 DEF WriteManifest

LEMMA StartCounted ==
    ASSUME DumpInv, CountInv, Start
    PROVE  CountInv'
  <1> DEFINE h == Head(queue)
             k == Len(PidList) - Len(queue) + 1
  <1>1. /\ pid = NoPid /\ queue # <<>> /\ UNCHANGED <<mode, manifest, dumped, skipped>>
        /\ queue' = IF mode = "pid" THEN <<>> ELSE Tail(queue)
    BY DEF Start
  <1> SUFFICES ASSUME mode # "pid" PROVE Ordered' /\ Counted'
    BY <1>1 DEF CountInv
  <1>2. Ordered /\ Counted /\ queue \in Seq(Pids) /\ IsInjective(queue)
    BY DEF CountInv, DumpInv, Typed
  <1>3. /\ Len(PidList) \in Nat /\ DOMAIN PidList = 1 .. Len(PidList)
        /\ Len(queue) \in Nat \ {0} /\ Len(queue) <= Len(PidList)
    BY <1>1, <1>2, DumpAssumption, LenProperties, EmptySeq DEF Ordered
  <1>4. /\ queue' = Tail(queue) /\ Len(queue') = Len(queue) - 1 /\ h = queue[1] /\ h \in Pids
        /\ \A i \in 1 .. Len(queue') : queue'[i] = queue[i + 1]
    BY <1>1, <1>2, HeadTailProperties
  <1>5. k \in 1 .. Len(PidList) /\ h = PidList[k]
    BY <1>2, <1>3, <1>4 DEF Ordered
  <1>6. Ordered'
    <2>1. Len(queue') <= Len(PidList)
      BY <1>3, <1>4
    <2>2. ASSUME NEW i \in 1 .. Len(queue')
          PROVE  queue'[i] = PidList[(Len(PidList) - Len(queue')) + i]
      <3>1. i + 1 \in 1 .. Len(queue) /\ queue'[i] = queue[i + 1]
        BY <1>3, <1>4
      <3>2. queue[i + 1] = PidList[(Len(PidList) - Len(queue)) + (i + 1)]
        BY <1>2, <3>1 DEF Ordered
      <3>3. (Len(PidList) - Len(queue)) + (i + 1) = (Len(PidList) - Len(queue')) + i
        BY <1>3, <1>4
      <3> QED BY <3>1, <3>2, <3>3
    <2> QED BY <2>1, <2>2 DEF Ordered
  <1>7. Tried = {PidList[i] : i \in 1 .. (k - 1)} /\ Tried' = {PidList[i] : i \in 1 .. k}
    <2>1. Len(PidList) - Len(queue) = k - 1 /\ Len(PidList) - Len(queue') = k
      BY <1>3, <1>4
    <2> QED BY <2>1 DEF Tried
  <1> HIDE DEF h, k
  <1>8. Tried' = Tried \cup {h}
    BY <1>5, <1>7
  <1>9. h \notin Tried
    <2> SUFFICES ASSUME NEW i \in 1 .. (k - 1), PidList[i] = PidList[k] PROVE FALSE
      BY <1>5, <1>7
    <2>1. i \in DOMAIN PidList /\ k \in DOMAIN PidList /\ i # k
      BY <1>3, <1>5
    <2> QED BY <2>1, DumpAssumption DEF IsInjective
  <1>10. IsFiniteSet(Taken)
    BY <1>2, TriedFinite DEF DumpInv
  <1>11. Whole' = Whole /\ Busy = 0
    BY <1>1 DEF Whole, Busy
  <1>12. \A p : Takes(p)' <=> Takes(p)
    BY <1>1 DEF Takes
  <1>13. CASE Takes(h)
    <2>1. pid' = h /\ matched' = matched + 1 /\ h # NoPid
      BY <1>4, <1>13, DumpAssumption DEF Start, h
    <2>2. Taken' = Taken \cup {h} /\ h \notin Taken
      BY <1>8, <1>9, <1>12, <1>13 DEF Taken
    <2>3. Cardinality(Taken') = Cardinality(Taken) + 1
      BY <1>10, <2>2, FS_AddElement
    <2>4. Busy' = 1
      BY <2>1 DEF Busy
    <2>5. matched' = dumped' + skipped' + 1
      BY <1>1, <1>2, <1>11, <2>1 DEF Counted
    <2>6. dumped' + skipped' + 1 = Cardinality(Taken')
      BY <1>1, <1>2, <1>11, <2>3 DEF Counted
    <2> QED BY <1>1, <1>2, <1>6, <1>11, <2>4, <2>5, <2>6 DEF Counted
  <1>14. CASE ~Takes(h)
    <2>1. pid' = pid /\ matched' = matched
      BY <1>14 DEF Start, h
    <2>2. Taken' = Taken
      BY <1>8, <1>12, <1>14 DEF Taken
    <2>3. Busy' = Busy
      BY <2>1 DEF Busy
    <2> QED BY <1>1, <1>2, <1>6, <1>11, <2>1, <2>2, <2>3 DEF Counted
  <1> QED BY <1>13, <1>14

LEMMA NextCounted ==
    ASSUME DumpInv, CountInv, [DumpNext]_dumpVars
    PROVE  CountInv'
  <1>1. CASE Start
    BY <1>1, StartCounted
  <1>2. CASE BatchEnd
    BY <1>2, CountsSame DEF BatchEnd, runVars, fileVars
  <1>3. ASSUME NEW stage \in StageNames, Pass(stage) \/ Break(stage) PROVE CountInv'
    BY <1>3, StagesCounted
  <1>4. CASE WriteMain
    BY <1>4, MainCounted
  <1>5. CASE Hidden \/ Chunk \/ Dep
    BY <1>5, RegionsCounted
  <1>6. CASE RegionsDone
    BY <1>6, CountsSame DEF RegionsDone, fileVars, countVars
  <1>7. CASE WriteManifest
    BY <1>7, ManifestCounted
  <1>8. CASE UNCHANGED dumpVars
    BY <1>8, CountsSame DEF dumpVars, runVars, fileVars, countVars
  <1> QED
    BY <1>1, <1>2, <1>3, <1>4, <1>5, <1>6, <1>7, <1>8
    DEF DumpNext, DumpStep, Terminated

(***************************************************************************)
(* The last line of a batch counts as dumped exactly the processes with a  *)
(* whole manifest, and as skipped every other one it took (lib.rs:461,     *)
(* 498), for every list of processes.                                      *)
(***************************************************************************)
THEOREM BatchCountsTrue == DumpSpec => []CountsAreTrue
  <1>1. DumpSpec => [](DumpInv /\ CountInv)
    <2>1. DumpInit => DumpInv /\ CountInv
      BY InitInv, InitCounted
    <2>2. DumpInv /\ CountInv /\ [DumpNext]_dumpVars => DumpInv' /\ CountInv'
      BY NextInv, NextCounted
    <2> QED BY <2>1, <2>2, PTL DEF DumpSpec
  <1>2. CountInv => CountsAreTrue
    <2> SUFFICES ASSUME CountInv, pid = NoPid, mode # "pid"
                 PROVE  /\ dumped = Cardinality(Whole)
                        /\ dumped + skipped = Cardinality(Taken)
                        /\ matched = dumped + skipped
      BY DEF CountsAreTrue, Whole, Taken
    <2>1. Counted /\ Busy = 0
      BY DEF CountInv, Busy
    <2> QED BY <2>1 DEF Counted
  <1> QED BY <1>1, <1>2, PTL
=============================================================================
