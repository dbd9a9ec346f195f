# Verification of revdump

TLA+ models of revdump, the TLC runs that check them and TLAPS proofs about the debug engine, the
sessions on top of it, the OEP finder, the clean-hash database, the dump pipeline, discovery, the PE
operators and reconstruction. The paths below are relative to `src/crates/revdump/src/` in the repository.

## The system

revdump dumps the memory of a Windows process as PE files. It either opens the process and reads it
while it runs, or drives it as a debugger and dumps it at a chosen moment.

| Part | Source | State | Operations |
|------|--------|-------|------------|
| Debug engine | `debug/engine.rs`, `debug/context.rs` | `breakpoints`, `persistent`, `rearm`, `pending`, `initial_seen` | `cont`, `set_breakpoint`, `set_persistent_breakpoint`, `mark_handled`, `protect`, `detach` |
| Breakpoint sessions | `lib.rs` (`dump_on_breakpoint`, `launch_to_exit`), `triggers/terminate.rs` | `dumped`, the loop | arm at the initial break, dump at the stop, detach |
| Interceptor | `antidebug/intercept.rs` | `pending`: return site to class and buffer | entry and return of `NtQueryInformationProcess`, entry of `NtSetInformationThread` |
| PEB patches | `antidebug/peb_patch.rs` | none | three writes at the initial break |
| OEP finder | `lib.rs` (`oep_finder`), `triggers/execmem.rs`, `triggers/oep.rs`, `debug/tls.rs` | flipped regions, TLS callbacks, `dumped` | watch a protection request, strip execute, catch the fault |
| Command line | `cli.rs`, `lib.rs` (`run`, `dispatch_dump`) | the flags | validate, dispatch, exit code |
| Dump pipeline | `lib.rs` (`dump_target`, `dump_deps`, `sweep_dump_main`) | `artifacts`, `notes` | discover, reconstruct, write each region, write the manifest |
| Batches | `lib.rs` (`run_name_regex`, `run_system_sweep`) | counters | one dump per process |
| Output | `output/layout.rs`, `manifest.rs`, `naming.rs`, `minidump.rs` | the run directory | folders on demand, file names, manifest |
| Access | `access/open.rs`, `privilege.rs`, `reader.rs` | a handle | open, best-effort page-wise read |
| Discovery | `discovery/*.rs` | none; a report | region walk, loader lists, hidden modules, loose chunks, disk diff |
| Clean-hash database | `filter/hashdb.rs` | a set of hashes in a file | load, generate, add, remove, save |
| Noise filter | `filter/noise.rs` | none | count import references |
| Reconstruction | `reconstruct/*.rs` | none | devirtualise, synthesise headers, export catalogue, rebuild imports |
| Native API, errors, log, shims | `nt/*.rs`, `debug/symbols.rs`, `triggers/sweep.rs`, `error.rs`, `log.rs`, the two binaries | none | wrappers |

How they interact: the command line selects one session. A debugger session owns an engine and calls
`cont()` in a loop; the engine returns a stop, at which the target is frozen, and the session calls
back into the engine, hands the stop to the interceptor first, and calls the dump pipeline. The
pipeline calls discovery, reconstruction, filter and output in order. Only the debugged target runs
concurrently with the engine, with all its threads; under `-pid` and in the batches the target runs
concurrently with everything.

What is hard in it, and what makes each part correct:

- **Engine.** Several threads of the target hit and step over breakpoints at once, while the engine
  keeps one step (`rearm`) and one event (`pending`). It is correct when every byte it wrote can be
  undone, a persistent breakpoint comes back, no thread resumes inside an instruction, each arrival
  is announced exactly once, and the target meets its own exceptions and no others.
- **Sessions.** Exit, exceptions, other breakpoints and errors race with the stop that is waited for.
  The target must not get past it undumped.
- **Interceptor.** A rewrite spans two stops of one thread. In the x64 build the answer of every query
  must be that of a process without debugger; the x86 build arms no interceptor (lib.rs:226-230).
- **OEP finder.** An argument changed at a stop takes effect after a step; the fault is recognised by
  a table filled long before, in bytes where the kernel counts pages. No flipped memory may run unseen,
  and no fault in other memory may be taken from the program.
- **Pipeline and batches.** Each of many steps may fail. The manifest must account for every region,
  tell the truth about the files, and the batch must go on and count truly.
- **Discovery.** A region walk, a loader list and one header probe per allocation are read at different
  times from a target that maps, unlinks, protects and exits. What stays in place must be reported
  once, truly, and in one class.
- **Clean-hash database.** Several processes rewrite one file in place, without a lock, and may be
  killed in between. A file must not be known-good unless somebody had it hashed.
- **Reader and reconstruction.** The bytes of an artifact come from several reads of a changing
  target; its headers are computed from untrusted ones. Loaded as its section table says, the
  artifact must be the memory that was there, with imports that resolve to what the pointers meant.
- **Comparison with the file.** What the loader does to a module must not look like a patch, and every
  patch must be counted.

The list of hazards, with their lines and properties, is in `PROJECT.json`.

## Modules

| Module | Models | Composes |
|--------|--------|----------|
| `BreakpointService` | what `set_breakpoint` and `set_persistent_breakpoint` promise | |
| `Engine` | the engine, the debug port and the threads of the target | refines `BreakpointService` |
| `EngineProofs` | theorems about `Engine` | `Engine` |
| `Session` | `-a`, `--closemon`, `--launch`, `--launch --hide` | `Engine` and the interceptor |
| `SessionProofs` | theorems about `Session` | `Session` |
| `OepSession` | `-oep`, `--launch -oep` | `Engine` and the region table |
| `OepProofs` | theorems about `OepSession` | `OepSession` |
| `Cli` | validation, dispatch, exit codes | |
| `DumpPipeline` | `-pid`, `-p`, `-system`: one dump, and the batches | |
| `DumpProofs` | theorems about `DumpPipeline` | `DumpPipeline` |
| `CleanDb` | `-db`, and the load of every dump, by several processes | |
| `CleanDbProofs` | theorems about `CleanDb` | `CleanDb` |
| `Discovery` | `walk.rs`, `peb.rs`, `scan.rs`, over a target that runs | |
| `DiscoveryProofs` | theorems about `Discovery` | `Discovery` |
| `PeImage` | operators: headers, section alignment, synthesis, best-effort reads | |
| `PeImageProofs` | theorems about these operators | `PeImage` |
| `Imports` | operators: export catalogue, noise filter, search and rebuilding of imports | `PeImage` |
| `ModuleDiff` | operators: the comparison of a module with its file | `PeImage` |
| `Rebuild` | one module or region, from its comparison to its artifact, while the target runs | `ModuleDiff`, `Imports` |
| `RebuildProofs` | theorems about `Rebuild` | `Rebuild`, `PeImageProofs` |
| `MC...` | values of the constants for TLC | |

### Engine

The variables with the names of `Debugger`'s fields are those fields. The target is external: `mem`
is the first byte of each breakpoint site, `ip` says whether a thread is at a site, one byte past it
(after its `int3`) or elsewhere, `tf` is its trap flag, `raised` the event with which it waits in the
debug port. A thread waits from the exception until its event is continued, and several may wait. In
Windows the target is frozen from the report of an event to its continuation, so one turn of the
event loop is one action (`OnSingleStep`, `OnBreakpoint`, ..., one for each arm of the match) and what
the client does at a stop is one action for each engine call. The target runs only while the engine
waits (`Running`). `detach` is the exception: it continues the pending event first, so `Detach`,
`RestoreByte` and `StopDebugging` are separate actions with the target running in between. It empties
the table whatever the writes do (engine.rs:321-324): `RestoreByte` may fail, which the history variable
`unrestored` remembers. The end of debugging hands the events left in the port to the target as
unhandled (`LetGo`).

An error returned through `?` ends the debugger's process (`GiveUp`; `Debugger` has no `Drop`), at a stop
(`Abort`), between the trap flag and the continuation (`ContFails`), in the wait (`WaitFails`), or in the
middle of a handler, with what it has done by then: the step taken, its byte written, its flag cleared
or not (`SingleStepFails`), the byte of a hit written and the thread not rewound (`BreakpointFails`).
`MayFail` allows all of this, and the failing write of `detach`; it is off in the two runs that show a
violation, which need no failure. Errors before the initial break are left out: nothing is armed by then.

`damage` is a history variable that records what the target would not have met alone: an exception of
the debugger's making (`leak`), one of its own that it never gets (`swallow`), a resumption inside an
instruction (`skew`).

The client in `Engine` is the most general one: it may arm, continue, detach or fail at any stop.
`Session` and `OepSession` replace it by the loops in the code and keep the engine's actions.

`ArmTwice` says whether a client may arm an armed site. The engine's own clients do so only in the
interceptor, when a second thread queries from the same return site.

### Session

One instance covers the loops of `-a`, `--closemon`, `--launch` and `--launch --hide` (`mode`). The last is
two modes: `hide` is the x64 build, which arms the interceptor before the goal (`Plan`), `hide_x86` the
x86 build, in which `arm_anti_debug` returns none (lib.rs:226-230). `QueriesHidden` and `NeverHidden` speak
of x64 only; in the x86 build every query tells the truth about the debugger, and the other properties
are checked for it too. `Goal` is the address of `-a` or `NtTerminateProcess`. Each
handler of the interceptor is one action; `Run` is the instruction a thread executes, with what the
kernel does at each site. A query's buffer is the thread's own.

### OepSession

An address is a number, `PageSize` addresses to a page. The kernel protects whole pages, the finder
keeps the range of the call. `prot` is the page table; `wanted` (what the program last asked for)
`bypassed` (pages protected by a call made outside the watch) and `requested` (pages the program ever
asked to be executable) are history. `Catch` and `DumpAtOep` are the two halves of the fault's arm, since
the dump between them may fail. `tls::callbacks` may read any number of entries of the array before it
gives up, or none where the header, the directory or the array's address cannot be read
(`CallbacksRead`). A callback that was not read is taken for the OEP like any other first execution, so
what is caught need not be the entry point; `OepRequested` says what it must be.

### Cli

A command line is a set of flags and a `-db` operation. `Checks` lists the checks of `into_action` in
order, `Arms` the arms of `dispatch_dump` with the flags each call is given.

### DumpPipeline

A dump goes through `stages`; each may fail. Regions are handled one by one (`Hidden`, `Chunk`,
`Dep`), with every outcome the code distinguishes: skipped, artifact, failed note, or an error that
leaves the function. Whether a region is known-good or noise, and whether a call fails, is a free
choice. A failed write may leave a partial file. The sweep has its own order of stages.

The regions of a report are distinct; `DumpAssumption` says so, since a module that the loader's list
names twice is dumped twice into one file (naming.rs:44).

### CleanDb

The file is a sequence of half lines. All lines have one length, so that two writers, each at its own
offset, overwrite each other line by line; a half is the finest mixture that matters, since a line of
two different hashes is the hash of no file. `Open` truncates, `Write` appends a half at the process's
offset (a hole reads as zeros), `Stops` is a kill or an error anywhere. `ParseHex` keeps exactly the
lines that `lines().filter_map(parse_hex)` keeps. `meant`, `intact` and `added` are history.

### Discovery

Addresses are pages; an area is the place of an allocation. Each system call of the scan is one step
(`Walk` a query, `ReadPeb` and `ReadLdr` the way to the list, `ReadEntry` a loader entry, `Probe` a header),
and between any two the target may do
anything in `Target`: allocate, free, protect, erase or unpack a header, link or unlink a module as
the loader does, free or re-use an entry, wipe a base, bend a link, exit. `dirty`, `relinked` and
`cut` record what it has touched, so that the properties can speak of the rest.

### PeImage, Imports, ModuleDiff and Rebuild

The first three are operators without state. Memory is a function from the addresses of
pointer-sized cells; a cell stands for the bytes that one comparison, relocation or thunk touches.
Headers are records of the fields that revdump reads or writes. `Imports` keeps of a string its
length and identity; an `.idata` section is a set of objects, each at the RVA that the pointers are
computed with. A wrong length shows when objects run into each other or are cut off by the end of the
section; one that is wrong only where the tables are joined (imports.rs:177-187) does not.

A section header that is cut off behind the fields `memory_align` reads is still read
(`SectionExtent`), and a pointer that the end of the image cuts is none (`WholeCells`). A module is
hollowed by another name as well as by another header (`is_hollowed`); whether a file was found, and
under the same name, belongs to the scenario. A file whose SizeOfImage exceeds the sanity bound of
diff.rs:174 (`MaxImage` in the run) is compared no further than its header.

`Rebuild` runs them: `DiffHead` and `DiffSection` (`diff_module`), `ReadHead`, `ReadWhole`, `ReadNext`
and `Align` (`dump_module_image`), `Synthesize` (`dump_code_chunk`), `ResolveImports`, `SetEntry`. Each
read call is one step; between two the target writes cells, changes or erases its header, and
protects pages. What comes out is compared with how a loader or a disassembler reads it (`Loaded`,
`Walk`, `Recovered`), which is stated independently of how it is built. `had`, `headers`, `wasBad` and
`wasGood` are history.

## Runs

| Run | Instance | Shows |
|-----|----------|-------|
| `engine_one_thread` | 1 thread, 2 persistent sites and 1 one-shot, every exception, launch, errors at any stop and in mid-turn | `PersistentArmed`, `Transparent`, and that the engine implements `BreakpointService` |
| `engine_threads` | 2 threads, 1 persistent and 1 one-shot site, every exception, launch and attach, errors likewise and in the writes of detach | `TypeOK`, `Int3Accounted`, `CleanAfterDetach`, `NeverSkewed`, `ReArmed` |
| `engine_lost_rearm` | 2 threads, 2 persistent sites | violates `PersistentArmed` |
| `engine_detach` | 2 threads, 1 one-shot site | violates `SurvivesDetach` |
| `session` | 2 threads of which 1 makes the intercepted calls, 2 return sites, all modes of both builds | `SessionTypeOK`, `QueriesHidden`, `NeverHidden`, `ReturnsAreArmed`, `GoalNotMissed`, `DumpFollows` |
| `oep` | 2 threads of which 1 unpacks, 2 pages of 2 addresses, 2 requests out of 3 overlapping ones, 1 TLS callback, read or not | `OepTypeOK`, `FlipsHold`, `OepRequested`, `CaughtCanRun`, `JumpDumps` |
| `cli` | all sets of flags | `NothingIgnored`, `RunsWhatIsDocumented` |
| `dump` | 4 processes, one of them revdump; a hidden module, a chunk and a dependency each | `DumpTypeOK`, `ManifestAccountsForAll`, `ManifestMatchesFiles`, `CountsAreTrue`, `BatchCompletes` |
| `dump_bad_region` | 1 process, 1 hidden module | violates `BadRegionContained` |
| `clean_db` | 2 files, 2 processes at a time, any number one after the other | `CleanDbTypeOK`, `NothingInvented`, `SavedIsExact`, `TornOnlyLoses` |
| `discovery` | 2 listed modules, a third that may be loaded, a private allocation, 3 changes anywhere | `DiscoveryTypeOK`, `RegionsFaithful`, `LoadedListed`, `CodeFoundOnce`, `ScanEnds` |
| `rebuild` | every import table of 4 cells over 5 values; odd sizes, an image that ends within a pointer; names and files that do not fit; 4 kinds of regions under 3 changes anywhere | `RebuildTypeOK`, `CaptureExact`, `Coherent`, `ImportsRecovered`, `DiffExact` |

The bounds. A race in the engine needs two threads at two sites or at one; a third thread adds no new
pair. Two persistent sites are the fewest for a lost rearm, one of each kind the fewest for a
one-shot hit during a step. The number of hits and steps is not bounded. In `session` two return
sites let a second query overlap an entry of the first. In `oep`, `MaxCalls` = 2 requests suffice for
a region that is requested again, partly and with another protection; the run starts with
an attach, since what a launched program does, one that is attached to may do as well. The pipeline has no state
across processes other than the counters, so three processes besides revdump give every order of
success and failure; one region of each kind suffices because a region's outcome depends on no
other's. `cli` is exhaustive.

In `clean_db` the number of runs is not bounded; two writers give every overlap of two saves, two
files the mixed line and the lost one. In `discovery` a page is the finest thing a query tells apart;
`MaxChanges` = 3 lets a module be linked, another unlinked and memory be freed within one scan;
`MaxModules` = 4 is one above the number of modules, so that only a list that was tampered with
reaches it. In `rebuild` a page has 16 cells and an image 3 pages, the smallest with a header, code
and data; a table of 4 cells has every pattern of runs of length 1 to 4 and of changes of module; the
five values are a null, exports of four modules by name, by two names, by ordinal only and by a
module of lower rank; `MaxHooks` = 2 fills the list with three patched cells; `Width` = 256 lets the
preferred base be above and below the actual one, so that the difference wraps. `Ptr` = 8 there; a
PE32 differs in `Ptr` alone.

Fairness. `SF` on a thread that is at an instruction: the system schedules it although the target is
frozen at every event. `SF` on the handling of each thread's event: the debug port is a queue, so an
event in it is reported after finitely many others; the model leaves the order of the queue open and
asks for no more. `WF` on the client, which computes and returns. Nothing is assumed of how the
target behaves otherwise: it may never reach a site and never exit. In the pipeline and in the scan
of `Discovery`, `WF` on the whole step: each is a sequential program that waits for nobody. `CleanDb`
and `Rebuild` state safety only.

### What the violations show

1. **Lost rearm** (`engine_lost_rearm`). `rearm` holds one step (engine.rs:55, 218). Thread 1 hits
   site A; while it steps, thread 2 hits site B and `rearm` becomes (B, 2). The single step of thread
   1 then re-arms B, and A is never armed again, although `set_persistent_breakpoint` "re-arms after
   each hit" (engine.rs:271).
2. **Detach with queued events** (`engine_detach`). Two threads reach a one-shot site together. The
   session dumps at the first stop and detaches; the second `int3` is in the port and reaches the
   target as an unhandled exception, which ends it, although after a detach "the target keeps
   running" (engine.rs:325).
3. **A folder that cannot be created** (`dump_bad_region`). `layout.dir(...)?` (lib.rs:902, 950, 649)
   ends the dump and leaves no manifest, although "one bad region never aborts the whole dump"
   (lib.rs:786).

Further disagreements seen while modelling, without a run of their own. The debugger:

- During a step over an entry breakpoint of `--hide` every other thread calls through it. Its query
  returns the debug port, although "a debugged target sees the values it would see running normally"
  (intercept.rs:22-23).
- In the same way a second thread's request for executable memory passes `NtProtectVirtualMemory`
  while the first one steps over its breakpoint; its memory is not flipped, and an OEP in it not found.
  `oep` and `FlipsAlwaysHold` therefore have one thread that unpacks.
- Only the region with the OEP is restored before the detach (lib.rs:317); the target then faults at
  the first call into another flipped section. execmem.rs:8 has a region's protection restored.
- `Transparent` does not hold with two threads: a single step is taken by whichever thread raises it
  first (engine.rs:201), and the later one goes to the program as its own. With an attach it does not
  hold for a program that raises an `int3` before the injected break, which is then taken for the
  loader's (engine.rs:209).
- Two threads that query from one return site make the interceptor arm an armed address:
  `set_breakpoint` saves the 0xCC as the original byte (engine.rs:268).
- A TLS callback in a flipped region is not taken for the OEP, but its access violation, which the
  finder caused, is passed to the target (lib.rs:310).
- A callback that `tls::callbacks` could not read (tls.rs:14-43 gives up without a word) is taken for the
  OEP, which tls.rs:10-11 and README.md:117 exclude. So is whatever else executes first in flipped memory:
  a second thread in a page that another one has just requested, or code in memory whose execute right
  the program has withdrawn since, where its fault would be its own.
- A write that fails while `detach` puts the bytes back is ignored and its entry is gone with the table
  (engine.rs:322-324): the 0xCC stays in a target that "isn't left with 0xCC bytes" (engine.rs:321).
- `revdump32 -launch -hide` intercepts nothing: `arm_anti_debug` returns none on x86 (lib.rs:226-230, whose
  comment says so), while README.md:118-121 describes `-hide` without that limit.
- `region_of` answers with the first region that holds the address: memory requested first as RWX and
  then as RX is restored to RWX, and memory that has become non-executable on the program's own
  request still counts as flipped.
- A request that is not page-aligned flips the whole page, but only its own range is recognised: the
  fault elsewhere in the page is passed to the target.
- `-a -hide` applies the PEB patches only (lib.rs:175-177), while README.md:118-121 describes `-hide`
  with the syscall rewriting.
- `-db gen -o path` is accepted and the path ignored, while README.md:63 has every unsupported
  combination as a hard error.

Dumping and discovery:

- Size and image are two reads (reconstruct/mod.rs:21-25). If the header that is read with the image
  has a larger SizeOfImage, a section claims bytes past the end, which devirt.rs:23 excludes; with a
  smaller one the captured bytes behind it belong to no section, and the rebuilt `.idata` is appended
  behind them and cut off (imports.rs:212-216). `CaptureExact`, `Coherent` and `ImportsRecovered`
  therefore speak of a target whose SizeOfImage does not change (`SizeStable`).
- "One bad page costs only itself" (reader.rs:33-35) holds for a read that begins on a page
  (`BadPageCostsItself`); from any other address a page that cannot be read takes bytes of its
  neighbour with it. An export directory whose array of ordinals is lost in this way gives all its
  names to its first function.
- An unreadable page of code is compared as zeros and reported as a hook (diff.rs:146 drops the gaps).
- The hint of the first name behind a module name may be at an odd address (imports.rs:165 keeps names
  word-aligned, but pads only behind a name that has a hint).
- A module of which a single pointer is imported, with no resolvable neighbour, is not recovered
  (imports.rs, `MIN_RUN`).
- An OEP that lies in the appended `.idata` passes the check of lib.rs:828.
- A dump made at a stop of the debugger shows the debugger's own 0xCC in ntdll as a hook.
- A module whose loader entry is freed or re-used while the list is walked (peb.rs:44) appears as
  hidden, and so do all behind it. An image with an erased header that is not in the list is in no
  class; nor is private code that begins inside a module and reaches beyond its SizeOfImage.
- hashdb.rs:12-14 keeps "a packed or hooked module" in the dump set because its file is hashed; a
  module hooked in memory only has a clean file and is skipped.
- Two overlapping `-db` runs lose one run's update. A database that cannot be read counts as empty
  (hashdb.rs:32) and the next save makes it so.

## Proofs

Eight modules hold theorems, each for every value of the constants that satisfies the module's named
assumption.

| Module | Theorem | Statement | Further hypothesis |
|--------|---------|-----------|--------------------|
| `EngineProofs` | `TypeCorrect` | `Spec => []TypeOK` | |
| | `Int3AlwaysAccounted` | `Spec => []Int3Accounted` | `~ArmTwice` |
| | `DetachIsClean` | `Spec => []CleanAfterDetach` | `~ArmTwice` |
| | `ThreadsNeverSkewed` | `Spec => []NeverSkewed` | `~ArmTwice` |
| | `OnePersistentStaysArmed` | `Spec => []PersistentArmed` | `~ArmTwice`, one persistent site |
| | `OneThreadStaysArmed` | `Spec => []PersistentArmed` | `~ArmTwice`, one thread |
| | `EngineImplementsService` | `Spec => ImplementsService` | `~ArmTwice`, one thread |
| | `LaunchedIsTransparent` | `Spec => []Transparent` | `~ArmTwice`, one thread, launched |
| `SessionProofs` | `SessionTyped` | `SessionSpec => []SessionTypeOK` | |
| | `GoalIsNotMissed` | `SessionSpec => []GoalNotMissed` | |
| | `ReturnsStayArmed` | `SessionSpec => []ReturnsAreArmed` | |
| | `QueriesAreHidden` | `SessionSpec => []QueriesHidden` | one caller |
| | `ThreadsNeverHide` | `SessionSpec => []NeverHidden` | one caller |
| `OepProofs` | `OepTyped` | `OepSpec => []OepTypeOK` | |
| | `CaughtResumes` | `OepSpec => []CaughtCanRun` | |
| | `CaughtIsRequested` | `OepSpec => []OepRequested` | |
| | `FlipsAlwaysHold` | `OepSpec => []FlipsHold` | one packer |
| | `WatchIsKept` | `OepSpec => []PersistentArmed` | |
| `CleanDbProofs` | `DatabaseTyped` | `CleanDbSpec => []CleanDbTypeOK` | |
| | `NothingIsInvented` | `CleanDbSpec => []NothingInvented` | |
| | `SaveIsExact` | `CleanDbSpec => []SavedIsExact` | |
| | `TornSaveOnlyLoses` | `CleanDbSpec => []TornOnlyLoses` | |
| `DumpProofs` | `DumpTyped` | `DumpSpec => []DumpTypeOK` | |
| | `ManifestAccounts` | `DumpSpec => []ManifestAccountsForAll` | |
| | `ManifestMatches` | `DumpSpec => []ManifestMatchesFiles` | |
| | `BatchCountsTrue` | `DumpSpec => []CountsAreTrue` | |
| `DiscoveryProofs` | `ReportTyped` | `DiscoverySpec => []DiscoveryTypeOK` | |
| | `WalkTellsTheTruth` | `DiscoverySpec => []RegionsFaithful` | |
| | `CodeIsFoundOnce` | `DiscoverySpec => []CodeFoundOnce` | `ImageSize[b] <= Size[b]` |
| | `SteadyModulesListed` | `DiscoverySpec => []LoadedListed` | at most `MaxModules` images |
| `PeImageProofs` | `AlignedWithinImage` | of `MemoryAlign` | |
| | `BadPageCostsItself` | of `ReadBestEffort` | a base on a page boundary |
| `RebuildProofs` | `RebuildTyped` | `RebuildSpec => []RebuildTypeOK` | |
| | `CaptureIsExact` | `RebuildSpec => []CaptureExact` | |
| | `ArtifactCoherent` | `RebuildSpec => [](AllLoadable => Coherent)` | |
| | `ImportsAreRecovered` | `RebuildSpec => [](AllLoadable => ImportsRecovered)` | `OrdinalsFit` |
| | `ComparisonIsExact` | `RebuildSpec => []DiffExact` | every file compared is `LaidOut` |

**Engine.** The assumptions are `EngineAssumption`, the types of the constants, and the two
hypotheses, which are what the code needs: arming an armed site saves 0xCC as the program's byte, and
with two persistent sites and two threads `engine_lost_rearm` is the counterexample. The inductive
invariant is `BookKeeping`. `Int3Accounted` alone is not inductive: the end of a step writes 0xCC at
`rearm.site`, which is accounted for only because that site is still in the table (`RearmInTable`), and
nothing is armed before the initial break (`ArmedInTime`), so that a thread past an `int3` is never
taken for the loader's break. A 0xCC that has lost its table entry is at a site whose write back failed
(`unrestored`), which happens only after the watch (`ArmedInTime`); `DetachIsClean` follows, since a
completed detach leaves no entry. `NeverSkewed` needs that such a thread waits with its breakpoint event
(`PastIsHeld`) and that the event the client holds may be continued as handled only if its thread was
rewound (`PendingFits`). Each is preserved by the target (which changes neither its code nor the
tables), by each handler and by each client call; a lemma for each group keeps the cases apart. An error
in mid-turn writes at most the bytes the turn would have written (`FailsWrites`) and leaves nobody who
would rely on the rest.

With one thread the engine keeps more. `LoneInv` says that a step is of this thread and is not yet let
go, on its way, or reported (`StepInPhase`), that a reported hit is of a site still armed (`HitsKnown`), that every persistent site but that of the step holds its 0xCC (`ArmedKept`), and that
nothing waits in the port at a stop without an event (`NothingWaits`); `engine_lost_rearm` is what
happens to `ArmedKept` with a second thread. From it follows the refinement: a site is watched once or
always by the tables and the phase (`WatchOf`), a thread is where its instruction pointer says (`AtOf`),
and its arrival has been announced exactly while `rearm` holds this site (`AnnouncedOf`). Every action of
the engine is then a step of `BreakpointService` or none. `Undisturbed` is about exceptions: where the
event that a thread waits with came from (`Provenance`) and how the stop will therefore end it
(`EndsRightly`). The hypothesis `Launched` is needed: an attached program may raise an `int3` before the
injected one.

**Sessions.** The theorems hold for any threads and return sites, in every mode, with errors at any
stop and in mid-turn. They do not use the engine's theorems, since the interceptor may arm an armed site. `PlaceInv`
says where things are: which call a thread at each site is making, which thread the stop is about.
`GoalNotMissed` needs `GoalInv`: a thread stands at the bare goal only at the stop there, before the
session has served it (`GoalGuarded`); the session detaches only from a target that it has dumped or
that has exited (`LeavesInTime`), and only the event tells it of the exit (`ExitKnown`).
`ReturnsAreArmed` is inductive given `PlaceInv`. For the two properties of `--hide` (on x64, as they say themselves), `WatchInv` says that
an entry point is watched, or to be armed, or stepped over by the caller itself; `Served` says of a call
that has passed its stop that the interceptor has changed it, and of a query that its return site is
armed, with the class of this query (`ReturnsFit`), until its answer has been rewritten
(`AnswersRewritten`).
The hypothesis `OneCaller` is what the code needs: with two callers TLC finds `QueriesHidden` violated,
since one passes the entry point while the other steps over it.

**OEP finder.** The finder arms one persistent site once, so `BookKeeping` and `PersistentArmed` of the
engine carry over: every step of the target is a step of the engine or a jump, which changes nothing
that the engine's invariant mentions (`OepBooks`, `WatchIsKept`). `CatchInv` has the target frozen
at the fault in a region that is executable again (`Caught`), and the pages of every region in the table,
and of every call on its way to it, among those requested (`Recorded`): since an address in a range of
bytes is in one of its pages (`PagesOfRange`), nothing else is caught. `FlipsHold`
speaks of the page table only; `FlipInv` adds that a watched call at the function, whose breakpoint is
out, carries no execute bit unless its stop has yet to be served (`CallsStripped`). It holds for one packer: with two, the
second one's request reaches the kernel while the first one steps over the breakpoint, and TLC finds
`FlipsHold` violated. Any number of other threads may raise, step and fault meanwhile.

**Database.** `CleanDbAssumption` makes the set of files finite (a text lists it) and keeps the zero
of a hole apart from hash halves. `NothingInvented` is not inductive, since it says nothing of the file:
`FromAdded` adds that every half in the file, in a set and in a text comes from a file in `added`. Then a
line of two equal halves is the hash of such a file, whatever two writers did to each other; a mixed
line is the hash of none. `SavedIsExact` and `TornOnlyLoses` need what an undisturbed run knows:
`Undisturbed` relates its set, and while it writes the file as well, to `meant`; `Wrote` says that the
file is a prefix of the text it builds. `PrefixParses` (a prefix of a text parses to a subset of its
set, the whole text to the set) and `WroteParses` carry this over to what the next load reads.

**Pipeline.** `DumpAssumption` makes the list of processes and the regions of a report free of
repetition; without it neither exactly-once nor the counts hold. `DumpInv` has the types (`Typed`), the
stage (`Staged`: the stages left are the end of the list), the current dump (`Current`: what
is in the notes, in the artifacts and still to do are together what was found, without overlap, and
the files agree with them), the gap between two dumps (`Idle`), the processes not yet reached
(`Fresh`) and those done (`Kept`: the two manifest properties and that nothing touches their
directories). `ManifestAccountsForAll` alone fails to be inductive because it speaks of manifests
already written only. `CountInv` adds that the processes come in the order of the list (`Ordered`),
which makes each counted one a new one (`Counted`).

**Discovery.** The theorems hold for any address space, any loader list and any number of changes.
`RegionsFaithful` speaks of the end of the walk; `WalkInv` says at each query that the untouched pages
the walk has come to are told truly (`Truthful`) and that every region lies behind the walk and inside
its allocation (`Behind`), so that the next region can overlap none. That a query finds a region at all
(`Smallest`, `RunIs`) rests on the natural numbers being well-founded. `CodeFoundOnce` needs `ProbeInv`:
no allocation is hidden twice (`HiddenOnce`), each hidden one has been probed (`HiddenProbed`), each
untouched header that has been probed is in the list (`HiddenFound`), and the chunks are those of the regions and
modules at hand. The hypothesis is the code's exposure: with a header that claims more than its
allocation, two modules may cover one page, and it is then dumped with each.

`SteadyModulesListed` is about a list that changes under the walk. Its invariant ranks the entries: at
every step there is an order in which each forward pointer of an entry that is or was linked leads to a
later one or to the anchor (`PointsOn`) and jumps over no module that stays (`Skips`). An entry that was unlinked keeps
its rank and its pointer, so a walk that stands on it comes back to the list, to nothing it has passed;
a new entry is linked at the end, with a rank above all others. `OnWay` says that each steady module is reported
or ahead of the cursor, and that the steps taken are at most the entries behind it, which is why
`MaxModules` suffices if there are no more images. `ListInv` claims this as long as no entry has been
freed or bent, which is what `cut` records.

**PE operators.** `AlignedWithinImage` follows devirt.rs:23: after `memory_align` a section's raw bytes
are where it is mapped, none claims bytes beyond SizeOfImage, and one that lies in the image loses
nothing. `BadPageCostsItself` is reader.rs:33-35 for aligned bases: on whichever path, each cell is what
memory holds, or zero if its own page is unreadable. Both rest on arithmetic lemmas about division
(`Division`, `DivisionUnique`, `Cancels`, `RoundUpBounds`). Further lemmas, which the next module cites, give
the chunks of a read and the pages they cover (`ChunksAre`, `PageIsChunk`, `ChunkRead`), count cells
(`CellsCounted`), and show that a finite set of numbers has one increasing list (`InOrderLists`).

**Reconstruction.** The theorems hold for any scenario: any layout of sections, any imports, any number of
writes, header changes and protections in between the reads. `RebuildAssumption` says that the target's
memory covers what a scenario's headers, or the file's, may have read (what is not mapped is an unreadable
page), that the one-section header of `synthesize_pe` fits its page, and that no image ends within its own
section headers, which no loader would map. `RebuildInv` has the target and what it once had (`History`), how far the read has come
(`Extent`), that each byte in the buffer was there at some time or is a zero for a page that was once
unreadable, and that each page read is either a counted gap or was once readable (`BufferTrue`), and that
the artifact is made from this buffer under one of the headers it was read with (`FileTrue`). The rest is
about the operators: `Shaped` says that an artifact, whatever follows the alignment, either has the
captured bytes under the captured sections (`AsRead`) or these and one more section behind them
(`Extended`). `CaptureIsExact` is then a matter of following an RVA through the section table to the buffer
(`ImageHolds`, `LooseHolds`), and of counting gaps (`GapsCounted`). `ArtifactCoherent` and
`ImportsAreRecovered` speak of the states in which every header the target has had is `Loadable`
(`AllLoadable`), what the Windows loader demands: a SizeOfImage, a section table that ends before the first
section, sections that are apart and in the pages of the image. revdump keeps what it is given, so a header with
overlapping sections yields an artifact with the same. The run `rebuild` checks both properties without this
condition.

`ImportsRecovered` compares what a loader reads from the rebuilt directory with the pointers it was built from,
and the proof follows the way of the code. `PointersAre` says that the search goes over the whole pointers of the
image. `ExportedResolves` and `TellsMeans` say that the catalogue resolves
exactly the addresses of exported code and prefers the module the property asks for; `OrdinalsFit` is needed
there, since exports.rs keeps 16 bits of an ordinal. `RunIs`, `BlockModule` and `BlockCovers` show that the
blocks cover the cells beside another resolvable one, each cell in a block of its module, so that the descriptors list every
slot (`DescriptorsList`). Then the section: the directory, the tables and the strings lie one behind the
other, and within each of them the places ascend (`DirPlaces`, `IntPlaces`, `TextPlaces`), so that no two
objects are at one RVA and all are inside of it (`IdataParted`). Behind the image nothing is moved or cut
(`PlacedAre`), and the new section alone maps these addresses (`LastBacked`): a loader that goes from
entry to entry up to the null entry meets the descriptors, the thunks and the names (`ObjectFound`, `WalkIs`,
`RecoveredIs`). Each slot is then recovered once, since the place of a slot determines its import
(`ImportsListed`). `RebuildInv` leaves open which artifacts have been through `resolve_imports`; `MainTrue`
says that those of the program itself have, whatever the target did meanwhile.

The layout of `.idata` is computed by recursive functions over the blocks (`IntsBefore`, `StringsUpTo`,
`StringsBefore`); that they are total with values in `Nat` is an induction, done here as the search for
a least counterexample (`RecursionExists`), which needs no operator parameter.

`ComparisonIsExact` is about `diff_module`. `PatchesAre` shows of any two runs of bytes that the patches cover
the cells that differ and no others, and `BytesCount` that their bytes are at least as many, again by
`RecursionExists`. `DiskIs` says that what is copied and relocated from the file is what the Windows
loader puts there; with `BadPageCostsItself` the patches of a section are then the cells seen with another
value than the loader's (`SectionFinds`). `CompareInv` has, up to the section that is reached, what was found so far:
no listed cell but those that had another value or an unreadable page, every patch that has been there all
along, in the list unless that is full, and in the count even then (`DiffTrue`). This is kept by a section
(`SectionAdds`) and, since a patch can only be written over and a page only be lost, by everything the target
does (`Outlives`). The verdict on the header is that of another name or another header (`HeadCompared`). The hypothesis `LaidOut` is what the Windows loader demands of a file, for code on page
boundaries: the raw bytes of a compared section are in the file, and sections are in ascending order and apart.
The page boundary is needed: from any other address an unreadable page costs cells of its neighbour.

Model-checked only:

- liveness (`ReArmed`, `DumpFollows`, `JumpDumps`, `BatchCompletes`, `ScanEnds`), since fairness involves
  ENABLED;
- `Cli`: the run goes through every set of flags and every `-db` operation, so there is no larger
  instance for a theorem to speak of.

## Not modelled

- The byte layout of headers and directories, the parsing of `export_name` and of file names, and the
  WOW64 exception of the loader lists.
- `mapped_path` and how a DOS path becomes a device path: whether a file is found, and whether its name is
  the loader's, is a choice of the scenario in `Rebuild` and of the stage in `DumpPipeline`.
- The PEB patches, the native API layer, privileges, the minidump, the log, the shims: straight
  system calls and wrappers.
- The names of artifacts and of the run directory, pure string functions; that two artifacts of one base
  share a name is described with the pipeline.
- A read call of several pages is one step, although the target could change between its pages.
- Exceptions nested in the target's handlers, second-chance exceptions, and threads that start or end:
  `Threads` is fixed. `set_trap_flag` failing on a thread that has ended is an error like any other.
- Errors before the initial break, when nothing is armed.
- More than one thread that makes the intercepted calls, or that unpacks, in the runs `session` and `oep`:
  the properties do not hold then, as listed above. The theorems without the hypothesis cover it.
- Protection bits above the low byte; `-hide` together with `-oep`.

## Plan

Done, in this order: `Engine` with `BreakpointService` and `EngineProofs`; `Session`; `OepSession`;
`Cli`; `DumpPipeline`; `CleanDb` with `CleanDbProofs`; `Discovery`; `PeImage`, `Imports`, `ModuleDiff` and
`Rebuild`; `PeImageProofs`; `DumpProofs`; `DiscoveryProofs`; `OepProofs`; `SessionProofs`; `EngineProofs`
with the refinement; `RebuildProofs`. Next:

1. `-hide -oep`: the interceptor and the finder on one engine.
2. Artifact names, with a list that names a module twice.
