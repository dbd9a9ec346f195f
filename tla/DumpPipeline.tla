---------------------------- MODULE DumpPipeline ----------------------------
(***************************************************************************)
(* The dump of one target (lib.rs dump_target, sweep_dump_main,            *)
(* dump_deps) and the batches that repeat it over processes                *)
(* (run_name_regex, run_system_sweep): stages that may fail, per-region    *)
(* degradation, the files and the manifest they leave in the run           *)
(* directory, and what the batch counts.                                   *)
(*                                                                         *)
(* The target keeps running under -pid and in a batch: every access to its *)
(* memory, and every access to the file system, may fail whatever          *)
(* succeeded before. A write that fails may leave a partial file.          *)
(***************************************************************************)
EXTENDS Naturals, Sequences, FiniteSets, Functions

CONSTANTS
    PidList,     \* enumerate_pids, in order
    Self,        \* revdump's own pid
    Matching,    \* the pids whose image name matches -p
    NoPid,
    Reports,     \* what discovery may find: the hidden modules and chunks, and the
                 \* dependencies, in the order in which they are dumped
    Modes        \* "pid", "name", "system"

Pids == {PidList[i] : i \in DOMAIN PidList}
Main == [kind |-> "main", base |-> 0]

Regions == [kind : {"hidden", "chunk", "dep"}, base : Nat \ {0}]

ASSUME DumpAssumption ==
    /\ PidList \in Seq(Pids) /\ IsInjective(PidList)
    /\ NoPid \notin Pids
    /\ Matching \subseteq Pids
    /\ Modes \subseteq {"pid", "name", "system"}
    /\ \A r \in Reports :
          /\ r.found \in Seq(Regions) /\ r.deps \in Seq(Regions)
          /\ IsInjective(r.found \o r.deps)

VARIABLES
    mode, deps,   \* the scope and the --deps of the command
    queue,        \* pids the batch has not come to
    pid,          \* the process being dumped
    stages,       \* the stages its dump still has to go through
    todo,         \* the regions still to be dumped
    found,        \* what each dump set out to capture
    artifacts,    \* the manifest being collected
    notes,
    disk,         \* each run directory: the files, whole or partial
    manifest,     \* each run directory's manifest
    cause,        \* where each dump failed
    matched, dumped, skipped,   \* the counters of a batch
    exit

runVars == <<queue, pid, stages, todo, artifacts, notes>>
fileVars == <<found, disk, manifest, cause>>
countVars == <<matched, dumped, skipped, exit>>
dumpVars == <<mode, deps, runVars, fileVars, countVars>>

-----------------------------------------------------------------------------
NoManifest == [state |-> "none", artifacts |-> {}, notes |-> {}]

Note(r, status) == [region |-> r, status |-> status]
File(r, whole) == [region |-> r, whole |-> whole]

(* The stages, each of which ends the dump if it fails: dump_target finds  *)
(* the regions first; the sweep lists the modules for the import catalog   *)
(* of an image without imports, and again for --deps.                      *)
TargetStages ==
    <<"open", "scan", "root", "peb", "image", "main_dir", "main_file", "regions", "manifest">>
SweepStages ==
    <<"open", "peb", "image", "catalog", "root", "main_dir", "main_file", "modules",
      "regions", "manifest">>

Stages == IF mode = "system" THEN SweepStages ELSE TargetStages

(* The stage that yields the regions to dump besides the main image.       *)
Discovers(stage) == stage = "scan" \/ (stage = "modules" /\ deps)

(* Hidden modules, chunks and, with --deps, the dependencies; the sweep    *)
(* dumps none but the dependencies.                                        *)
Selected(report) ==
    (IF mode = "system" THEN <<>> ELSE report.found)
        \o (IF deps THEN report.deps ELSE <<>>)

DumpInit ==
    /\ mode \in Modes
    /\ deps \in BOOLEAN
    /\ queue = PidList
    /\ pid = NoPid /\ stages = <<>> /\ todo = <<>>
    /\ found = [p \in Pids |-> {}]
    /\ artifacts = {} /\ notes = {}
    /\ disk = [p \in Pids |-> {}]
    /\ manifest = [p \in Pids |-> NoManifest]
    /\ cause = [p \in Pids |-> "none"]
    /\ matched = 0 /\ dumped = 0 /\ skipped = 0
    /\ exit = "running"

-----------------------------------------------------------------------------
(* The loop over the processes.                                            *)

Takes(p) == p # Self /\ (mode = "name" => p \in Matching)

(* -pid has one process, whichever it is.                                  *)
Start ==
    /\ exit = "running" /\ pid = NoPid /\ queue # <<>>
    /\ IF mode = "pid" \/ Takes(Head(queue))
         THEN /\ pid' = Head(queue)
              /\ stages' = Stages
              /\ found' = [found EXCEPT ![Head(queue)] = {Main}]
              /\ matched' = matched + 1
         ELSE UNCHANGED <<pid, stages, found, matched>>
    /\ queue' = IF mode = "pid" THEN <<>> ELSE Tail(queue)
    /\ artifacts' = {} /\ notes' = {} /\ todo' = <<>>
    /\ UNCHANGED <<mode, deps, disk, manifest, cause, dumped, skipped, exit>>

(* The dump of the current process returns: the batch counts it, -pid      *)
(* ends with it.                                                           *)
Returns(ok) ==
    /\ pid' = NoPid
    /\ stages' = <<>>
    /\ IF mode = "pid"
         THEN /\ exit' = IF ok THEN "ok" ELSE "error"
              /\ UNCHANGED <<dumped, skipped>>
         ELSE /\ dumped' = IF ok THEN dumped + 1 ELSE dumped
              /\ skipped' = IF ok THEN skipped ELSE skipped + 1
              /\ UNCHANGED exit

FailsBatch(why) ==
    /\ cause' = [cause EXCEPT ![pid] = why]
    /\ pid' = NoPid
    /\ exit' = "error"
    /\ UNCHANGED <<stages, dumped, skipped>>

(* An error leaves dump_target or sweep_dump_main through `?`.             *)
Fails(why) ==
    /\ cause' = [cause EXCEPT ![pid] = why]
    /\ Returns(FALSE)

BatchEnd ==
    /\ exit = "running" /\ pid = NoPid /\ queue = <<>>
    /\ exit' = "ok"
    /\ UNCHANGED <<mode, deps, runVars, fileVars, matched, dumped, skipped>>

-----------------------------------------------------------------------------
(* The stages of a dump.                                                   *)

In(stage) == exit = "running" /\ stages # <<>> /\ Head(stages) = stage

(* A stage that changes nothing but the run directory, and succeeds.       *)
Pass(stage) ==
    /\ In(stage) /\ stage \notin {"main_file", "regions", "manifest"}
    /\ stages' = Tail(stages)
    /\ IF Discovers(stage)
         THEN \E report \in Reports :
                /\ todo' = Selected(report)
                /\ found' = [found EXCEPT ![pid] =
                                @ \cup {todo'[i] : i \in DOMAIN todo'}]
         ELSE UNCHANGED <<todo, found>>
    /\ UNCHANGED <<mode, deps, queue, pid, artifacts, notes, disk, manifest, cause, countVars>>

Break(stage) ==
    /\ In(stage) /\ stage \notin {"main_file", "regions", "manifest"}
    /\ stage = "modules" => deps
    /\ Fails(stage)
    /\ UNCHANGED <<mode, deps, queue, todo, found, artifacts, notes, disk, manifest, matched>>

(* std::fs::write of region r: the file, or an error and what it left.     *)
Written(r) == disk' = [disk EXCEPT ![pid] = @ \cup {File(r, TRUE)}]
HalfWritten(r) == disk' \in {disk, [disk EXCEPT ![pid] = @ \cup {File(r, FALSE)}]}

WriteMain ==
    /\ In("main_file")
    /\ \/ /\ Written(Main)
          /\ artifacts' = artifacts \cup {Main}
          /\ stages' = Tail(stages)
          /\ UNCHANGED <<pid, cause, dumped, skipped, exit>>
       \/ /\ HalfWritten(Main)
          /\ Fails("main_file")
          /\ UNCHANGED artifacts
    /\ UNCHANGED <<mode, deps, queue, todo, found, notes, manifest, matched>>

(* One region at a time, until none is left.                               *)
NextRegion(kind) ==
    /\ In("regions") /\ todo # <<>> /\ Head(todo).kind = kind
    /\ todo' = Tail(todo)
    /\ UNCHANGED <<mode, deps, queue, found, manifest, matched>>

NotNoted(r, status) == UNCHANGED <<notes, stages, pid, artifacts, cause, dumped, skipped, exit>>

(* A region note, and on to the next region.                               *)
Noted(r, status) ==
    /\ notes' = notes \cup {Note(r, status)}
    /\ UNCHANGED <<stages, pid, artifacts, cause, dumped, skipped, exit>>

SavedAnyway(r) ==
    /\ artifacts' = artifacts \cup {r}
    /\ Written(r) \/ HalfWritten(r)
    /\ UNCHANGED <<notes, stages, pid, cause, dumped, skipped, exit>>

(* The folder of the region's kind and then its file: an artifact, or a    *)
(* failed note.                                                            *)
Saved(r) ==
    \/ /\ Written(r)
       /\ artifacts' = artifacts \cup {r}
       /\ UNCHANGED <<notes, stages, pid, cause, dumped, skipped, exit>>
    \/ /\ HalfWritten(r)
       /\ Noted(r, "failed")

FolderFails(r) ==
    /\ Fails(r.kind)
    /\ UNCHANGED <<artifacts, notes, disk>>

(* A known-good mapping is skipped; one that cannot be dumped as a module  *)
(* is dumped as raw memory.                                                *)
Hidden ==
    /\ NextRegion("hidden")
    /\ \/ Noted(Head(todo), "skipped") /\ UNCHANGED disk
       \/ Saved(Head(todo))
       \/ FolderFails(Head(todo))

(* A chunk without import references is noise.                             *)
Chunk ==
    /\ NextRegion("chunk")
    /\ \/ Noted(Head(todo), "skipped") /\ UNCHANGED disk
       \/ Saved(Head(todo))
       \/ FolderFails(Head(todo))

(* A known-good dependency is skipped; one that cannot be read has failed. *)
Dep ==
    /\ NextRegion("dep")
    /\ \/ Noted(Head(todo), "skipped") /\ UNCHANGED disk
       \/ Noted(Head(todo), "failed") /\ UNCHANGED disk
       \/ Saved(Head(todo))
       \/ FolderFails(Head(todo))

RegionsDone ==
    /\ In("regions") /\ todo = <<>>
    /\ stages' = Tail(stages)
    /\ UNCHANGED <<mode, deps, queue, pid, todo, artifacts, notes, fileVars, countVars>>

WroteRegardless(ok) == Returns(TRUE)

(* The result of Manifest::write is that of the dump.                      *)
WroteManifest(ok) == Returns(ok)

(* The minidump that may follow changes neither the outcome nor the rest.  *)
WriteManifest ==
    /\ In("manifest")
    /\ \/ /\ manifest' = [manifest EXCEPT ![pid] =
                [state |-> "whole", artifacts |-> artifacts, notes |-> notes]]
          /\ WroteManifest(TRUE)
          /\ UNCHANGED cause
       \/ /\ manifest' \in {manifest, [manifest EXCEPT ![pid].state = "partial"]}
          /\ cause' = [cause EXCEPT ![pid] = "manifest"]
          /\ WroteManifest(FALSE)
    /\ UNCHANGED <<mode, deps, queue, todo, artifacts, notes, found, disk, matched>>

Terminated == exit # "running" /\ UNCHANGED dumpVars

StageNames == {TargetStages[i] : i \in DOMAIN TargetStages}
                  \cup {SweepStages[i] : i \in DOMAIN SweepStages}

DumpStep ==
    \/ Start
    \/ BatchEnd
    \/ \E stage \in StageNames : Pass(stage) \/ Break(stage)
    \/ WriteMain
    \/ Hidden \/ Chunk \/ Dep
    \/ RegionsDone
    \/ WriteManifest

DumpNext == DumpStep \/ Terminated

DumpSpec == DumpInit /\ [][DumpNext]_dumpVars

(* The program runs on: no stage waits for anybody.                        *)
FairDumpSpec == DumpSpec /\ WF_dumpVars(DumpStep)

-----------------------------------------------------------------------------
(* Properties.                                                             *)

Tried == {PidList[i] : i \in 1 .. (Len(PidList) - Len(queue))}
Of(rs) == {n.region : n \in rs}

(* The state has its type: a dump collects, and writes, only what it set   *)
(* out to capture, and no process is current between dumps                 *)
(* (lib.rs:772-773, 787).                                                  *)
DumpTypeOK ==
    /\ pid \in Pids \cup {NoPid}
    /\ pid = NoPid <=> stages = <<>>
    /\ artifacts \cup Of(notes) \subseteq IF pid = NoPid THEN UNION {found[p] : p \in Pids}
                                          ELSE found[pid]
    /\ \A p \in Pids : {f.region : f \in disk[p]} \subseteq found[p]
    /\ \A p \in Pids : manifest[p].state \in {"none", "partial", "whole"}
    /\ exit \in {"running", "ok", "error"}

(* Every region a dump set out to capture is in its manifest exactly once, *)
(* captured or with the reason why not (lib.rs:785-786), through whatever  *)
(* mixture of skips, fallbacks and failures.                               *)
ManifestAccountsForAll ==
    \A p \in Pids : manifest[p].state = "whole" =>
        /\ manifest[p].artifacts \cup Of(manifest[p].notes) = found[p]
        /\ manifest[p].artifacts \cap Of(manifest[p].notes) = {}

(* A manifest tells the truth about the directory it is in: each artifact  *)
(* has its whole file, and any other file was noted as failed              *)
(* (manifest.rs:7-8, 15-16).                                               *)
ManifestMatchesFiles ==
    \A p \in Pids : manifest[p].state = "whole" =>
        /\ \A r \in manifest[p].artifacts : File(r, TRUE) \in disk[p]
        /\ \A f \in disk[p] : f.region \in manifest[p].artifacts
                                 \/ Note(f.region, "failed") \in manifest[p].notes

(* The batch's last line is true: it counts as dumped the processes with a *)
(* readable manifest, and as skipped every other one it came to            *)
(* (lib.rs:437-438, 461, 498).                                             *)
CountsAreTrue ==
    pid = NoPid /\ mode # "pid" =>
        /\ dumped = Cardinality({p \in Pids : manifest[p].state = "whole"})
        /\ dumped + skipped = Cardinality({p \in Tried : Takes(p)})
        /\ matched = dumped + skipped

(* A batch comes to every process, however its dumps fail                  *)
(* (lib.rs:437-438, 471).                                                  *)
BatchCompletes == mode # "pid" ~> (exit = "ok" /\ Tried = Pids)

(* lib.rs:786: "one bad region never aborts the whole dump".               *)
BadRegionContained == \A p \in Pids : cause[p] \notin {"hidden", "chunk", "dep"}
=============================================================================
