------------------------------- MODULE Engine -------------------------------
(***************************************************************************)
(* The debug engine (debug/engine.rs, debug/context.rs) at work on a       *)
(* running target: software breakpoints, the step-over that re-arms a      *)
(* persistent one, event continuation and detach.                          *)
(*                                                                         *)
(* The target and the debug port of the operating system are external and  *)
(* modelled from how the engine uses them:                                 *)
(*  - a thread that raises an exception waits in the port until its event  *)
(*    is continued; several threads may be waiting;                        *)
(*  - from the moment WaitForDebugEvent reports an event until it is       *)
(*    continued the whole target is frozen, so that one turn of the        *)
(*    engine's event loop is one action;                                   *)
(*  - the trap flag of a thread traps after one instruction and is cleared *)
(*    by the trap;                                                         *)
(*  - an event still in the port when debugging ends (detach, or the       *)
(*    debugger's exit) goes to the target as unhandled.                    *)
(*                                                                         *)
(* The caller of the engine is the most general one its clients allow: at  *)
(* any stop it may arm breakpoints, continue, detach, or return an error   *)
(* without detaching.                                                      *)
(***************************************************************************)
EXTENDS Naturals

CONSTANTS
    Threads,          \* threads of the target
    Sites,            \* addresses the clients put breakpoints on
    PersistentSites,  \* those they arm with set_persistent_breakpoint
    NoSite, NoThread, \* absent values
    OwnExceptions,    \* <<kind, by>>: what else the target may raise
    Starts,           \* how the debugger may get its target: "launch", "attach"
    ArmTwice,         \* a client may set a breakpoint where one is armed
    MayFail           \* a call into the system may fail

ASSUME EngineAssumption ==
    /\ PersistentSites \subseteq Sites
    /\ NoSite \notin Sites
    /\ NoThread \notin Threads
    /\ OwnExceptions \subseteq
          {<<"bp", "app">>, <<"step", "app">>, <<"fault", "app">>,
           <<"fault", "tool">>, <<"other", "system">>}
    /\ Starts \subseteq {"launch", "attach"}
    /\ {ArmTwice, MayFail} \subseteq BOOLEAN

VARIABLES
    (* the target *)
    mem,          \* the first byte of each site: its own, or 0xCC
    ip,           \* where each thread is: at a site, past its int3, or elsewhere
    tf,           \* the trap flag of each thread
    raised,       \* the event each thread waits in the debug port with
    start,        \* how the debugger got it
    boot,         \* the next event the system itself raises
    alive,        \* the process has not exited
    damage,       \* history: how debugging has disturbed the target
    unrestored,   \* history: the sites that detach could not write back
    (* the engine *)
    breakpoints,  \* Debugger.breakpoints: the byte saved for each armed site
    persistent,   \* Debugger.persistent
    rearm,        \* Debugger.rearm: the step over a persistent breakpoint
    pending,      \* Debugger.pending: the event to continue, and how
    initialSeen,  \* Debugger.initial_seen
    process,      \* Debugger.process is known
    (* the control of engine and client *)
    pc,
    stop          \* the Stop that cont() last returned

targetVars == <<mem, ip, tf, raised, start, boot, alive, damage, unrestored>>
engineVars == <<breakpoints, persistent, rearm, pending, initialSeen, process>>
vars == <<targetVars, engineVars, pc, stop>>

-----------------------------------------------------------------------------
Elsewhere == [site |-> NoSite, past |-> FALSE]
At(s) == [site |-> s, past |-> FALSE]
PastInt3(s) == [site |-> s, past |-> TRUE]

NoEvent == [kind |-> "none", site |-> NoSite, by |-> "system"]
Event(k, s, b) == [kind |-> k, site |-> s, by |-> b]

NoRearm == [site |-> NoSite, tid |-> NoThread]
NoPending == [tid |-> NoThread, status |-> "none"]
NoStop == [kind |-> "none", site |-> NoSite]

Running == alive /\ pc # "stopped"          \* the target's threads may run
Debugged == pc \notin {"detached", "gone"}
Watching == pc \in {"stopped", "waiting"}   \* no detach has begun
Armed == {s \in Sites : breakpoints[s] # "none"}

(* What reaches the target that it would not have met alone, when the      *)
(* event e of a thread at place p ends with continue status st: a          *)
(* breakpoint or step of the debugger's making ("leak"), nothing where it  *)
(* raised an exception itself ("swallow"), or a resumption one byte into   *)
(* an instruction ("skew").                                                *)
Disturbs(e, p, st) ==
    {d \in {"leak", "swallow", "skew"} :
        \/ d = "leak" /\ e.by = "tool" /\ st = "not_handled"
        \/ d = "swallow" /\ e.by = "app" /\ e.kind # "exit" /\ st = "continue"
        \/ d = "skew" /\ p.past /\ st = "continue"}

-----------------------------------------------------------------------------
(* Debugger::new after attach or launch: the CREATE_PROCESS event waits.   *)
Init ==
    /\ mem = [s \in Sites |-> "orig"]
    /\ ip = [t \in Threads |-> Elsewhere]
    /\ tf = [t \in Threads |-> FALSE]
    /\ raised = [t \in Threads |-> NoEvent]
    /\ start \in Starts
    /\ boot = "create"
    /\ alive = TRUE
    /\ damage = {}
    /\ unrestored = {}
    /\ breakpoints = [s \in Sites |-> "none"]
    /\ persistent = {}
    /\ rearm = NoRearm
    /\ pending = NoPending
    /\ initialSeen = FALSE
    /\ process = FALSE
    /\ pc = "stopped"
    /\ stop = NoStop

-----------------------------------------------------------------------------
(* The target.                                                             *)

(* A thread that the scheduler may run.                                    *)
Free(t) == Running /\ raised[t] = NoEvent

(* An exception goes to the debug port, or to the target itself when it is *)
(* no longer debugged.                                                     *)
Raise(t, e) ==
    IF Debugged
      THEN /\ raised' = [raised EXCEPT ![t] = e]
           /\ UNCHANGED damage
      ELSE /\ UNCHANGED raised
           /\ damage' = damage \cup Disturbs(e, Elsewhere, "not_handled")

(* The loader's own break: on the main thread before the program's code    *)
(* runs, or on a thread injected by the attach.                            *)
LoaderBreak(t) ==
    /\ Free(t) /\ boot = "breakin" /\ ip[t] = Elsewhere
    /\ boot' = "done"
    /\ Raise(t, Event("bp", NoSite, "system"))
    /\ UNCHANGED <<mem, ip, tf, start, unrestored, alive, engineVars, pc,
                   stop>>

(* A launched program's code runs once the loader's break is over; one     *)
(* that is attached to has been running all along.                         *)
Started == IF start = "launch" THEN initialSeen ELSE boot # "create"

(* Control reaches the instruction at site s.                              *)
Reach(t, s) ==
    /\ Free(t) /\ Started /\ ip[t] = Elsewhere /\ ~tf[t]
    /\ ip' = [ip EXCEPT ![t] = At(s)]
    /\ UNCHANGED <<mem, tf, raised, start, unrestored, boot, alive, damage,
                   engineVars, pc, stop>>

(* The thread executes the 0xCC at its site.                               *)
HitInt3(t) ==
    /\ Free(t) /\ ip[t].site \in Sites /\ mem[ip[t].site] = "int3"
    /\ ip' = [ip EXCEPT ![t] = IF Debugged THEN PastInt3(@.site) ELSE Elsewhere]
    /\ Raise(t, Event("bp", ip[t].site, "tool"))
    /\ UNCHANGED <<mem, tf, start, unrestored, boot, alive, engineVars, pc,
                   stop>>

(* The thread executes one instruction of the program: the one at its      *)
(* site, or any other when its trap flag is set. The flag traps.           *)
Execute(t) ==
    /\ Free(t)
    /\ \/ ip[t].site \in Sites /\ mem[ip[t].site] = "orig"
       \/ ip[t] = Elsewhere /\ tf[t]
    /\ ip' = [ip EXCEPT ![t] = Elsewhere]
    /\ tf' = [tf EXCEPT ![t] = FALSE]
    /\ IF tf[t]
         THEN Raise(t, Event("step", NoSite, "tool"))
         ELSE UNCHANGED <<raised, damage>>
    /\ UNCHANGED <<mem, start, unrestored, boot, alive, engineVars, pc, stop>>

(* Everything else a thread may raise: exceptions of its own, faults that  *)
(* a client of the engine has set up, DLL and thread events.               *)
RaiseOther(t) == \E x \in OwnExceptions :
    /\ Free(t) /\ Started /\ ip[t] = Elsewhere /\ ~tf[t]
    /\ x[2] = "tool" => initialSeen
    /\ Debugged
    /\ Raise(t, Event(x[1], NoSite, x[2]))
    /\ UNCHANGED <<mem, ip, tf, start, unrestored, boot, alive, engineVars, pc,
                   stop>>

(* The last thread ends the process; its event is the last one.            *)
ExitProcess(t) ==
    /\ Free(t) /\ Started /\ ip[t] = Elsewhere /\ ~tf[t]
    /\ \A u \in Threads : raised[u] = NoEvent
    /\ alive' = FALSE
    /\ raised' = [raised EXCEPT ![t] =
                    IF Debugged THEN Event("exit", NoSite, "app") ELSE NoEvent]
    /\ UNCHANGED <<mem, ip, tf, start, unrestored, boot, damage, engineVars,
                   pc, stop>>

Target(t) ==
    \/ LoaderBreak(t)
    \/ \E s \in Sites : Reach(t, s)
    \/ HitInt3(t)
    \/ Execute(t)
    \/ RaiseOther(t)
    \/ ExitProcess(t)

-----------------------------------------------------------------------------
(* The event loop of cont(). Each handler starts at a reported event (the  *)
(* target is frozen) and ends by continuing it or by returning a Stop.     *)

(* continue_pending for thread t with the given status.                    *)
Continue(t, status) ==
    /\ raised' = [raised EXCEPT ![t] = NoEvent]
    /\ ip' = [ip EXCEPT ![t] = IF @.past THEN Elsewhere ELSE @]
    /\ damage' = damage \cup Disturbs(raised[t], ip[t], status)
    /\ pending' = NoPending

(* return Ok(stop) with the event of t left pending.                       *)
Return(t, k, s, status) ==
    /\ pending' = [tid |-> t, status |-> status]
    /\ stop' = [kind |-> k, site |-> s]
    /\ pc' = "stopped"

Reported(t, k) == pc = "waiting" /\ raised[t].kind = k

OnCreateProcess ==
    /\ pc = "waiting" /\ boot = "create"
    /\ process' = TRUE
    /\ boot' = "breakin"
    /\ UNCHANGED <<mem, ip, tf, raised, start, unrestored, alive, damage,
                   breakpoints, persistent, rearm, pending, initialSeen, pc,
                   stop>>

(* The step named by rearm is over: put the breakpoint back, clear the     *)
(* trap flag.                                                              *)
PutBack == mem' = [mem EXCEPT ![rearm.site] = "int3"]

StepEnds ==
    /\ PutBack
    /\ tf' = [tf EXCEPT ![rearm.tid] = FALSE]
    /\ rearm' = NoRearm

StepStatusSwapped == IF rearm # NoRearm THEN "not_handled" ELSE "continue"

StepStatus == IF rearm # NoRearm THEN "continue" ELSE "not_handled"

(* Any single step ends the step in progress, if there is one; otherwise   *)
(* the exception is the program's.                                         *)
OnSingleStep(t) ==
    /\ Reported(t, "step")
    /\ IF rearm # NoRearm THEN StepEnds ELSE UNCHANGED <<mem, tf, rearm>>
    /\ Continue(t, StepStatus)
    /\ UNCHANGED <<start, unrestored, boot, alive, breakpoints, persistent,
                   initialSeen, process, pc, stop>>

OnInitialBreak(t) ==
    /\ Reported(t, "bp") /\ ~initialSeen
    /\ initialSeen' = TRUE
    /\ Return(t, "initial", NoSite, "continue")
    /\ UNCHANGED <<targetVars, breakpoints, persistent, rearm, process>>

RewindNot(t, s) == UNCHANGED ip

(* set_instruction_pointer: back over the 0xCC.                            *)
Rewind(t, s) == ip' = [ip EXCEPT ![t] = At(s)]

ConsumeRearmsAll(t, s) ==
    /\ rearm' = [site |-> s, tid |-> t]
    /\ UNCHANGED breakpoints

ConsumeForgets(t, s) ==
    /\ breakpoints' = [breakpoints EXCEPT ![s] = "none"]
    /\ rearm' = IF s \in persistent THEN [site |-> s, tid |-> t] ELSE rearm

ConsumeNoStep(t, s) ==
    /\ breakpoints' = [breakpoints EXCEPT ![s] =
                          IF s \in persistent THEN @ ELSE "none"]
    /\ UNCHANGED rearm

ConsumeKeeps(t, s) ==
    /\ rearm' = IF s \in persistent THEN [site |-> s, tid |-> t] ELSE rearm
    /\ UNCHANGED breakpoints

(* The entry of a persistent breakpoint stays, to be stepped over and put  *)
(* back; a one-shot one is gone.                                           *)
Consume(t, s) ==
    IF s \in persistent
      THEN /\ rearm' = [site |-> s, tid |-> t]
           /\ UNCHANGED breakpoints
      ELSE /\ breakpoints' = [breakpoints EXCEPT ![s] = "none"]
           /\ UNCHANGED rearm

(* One of ours.                                                            *)
OnBreakpoint(t) ==
    LET s == raised[t].site IN
    /\ Reported(t, "bp") /\ initialSeen /\ s \in Armed
    /\ mem' = [mem EXCEPT ![s] = breakpoints[s]]
    /\ Rewind(t, s)
    /\ Consume(t, s)
    /\ Return(t, "breakpoint", s, "continue")
    /\ UNCHANGED <<tf, raised, start, unrestored, boot, alive, damage,
                   persistent, initialSeen, process>>

(* An unknown breakpoint: hand it back to the application.                 *)
OnUnknownBreakpoint(t) ==
    /\ Reported(t, "bp") /\ initialSeen /\ raised[t].site \notin Armed
    /\ Continue(t, "not_handled")
    /\ UNCHANGED <<mem, tf, start, unrestored, boot, alive, breakpoints,
                   persistent, rearm, initialSeen, process, pc, stop>>

(* Any other exception goes to the caller, by default not handled.         *)
OnException(t) ==
    /\ Reported(t, "fault")
    /\ Return(t, "exception", NoSite, "not_handled")
    /\ UNCHANGED <<targetVars, breakpoints, persistent, rearm, initialSeen,
                   process>>

(* DLL loads, thread starts and exits.                                     *)
OnOther(t) ==
    /\ Reported(t, "other")
    /\ Continue(t, "continue")
    /\ UNCHANGED <<mem, tf, start, unrestored, boot, alive, breakpoints,
                   persistent, rearm, initialSeen, process, pc, stop>>

OnExit(t) ==
    /\ Reported(t, "exit")
    /\ pending' = NoPending
    /\ stop' = [kind |-> "exited", site |-> NoSite]
    /\ pc' = "stopped"
    /\ UNCHANGED <<targetVars, breakpoints, persistent, rearm, initialSeen,
                   process>>

Handle(t) ==
    \/ OnSingleStep(t)
    \/ OnInitialBreak(t)
    \/ OnBreakpoint(t)
    \/ OnUnknownBreakpoint(t)
    \/ OnException(t)
    \/ OnOther(t)
    \/ OnExit(t)

-----------------------------------------------------------------------------
(* The calls a client makes at a stop.                                     *)

StoppedAlive == pc = "stopped" /\ initialSeen /\ stop.kind # "exited"

(* set_breakpoint saves whatever byte is there, and overwrites the entry.  *)
SetBreakpoint(s) ==
    /\ StoppedAlive
    /\ ArmTwice \/ s \notin Armed
    /\ breakpoints' = [breakpoints EXCEPT ![s] = mem[s]]
    /\ mem' = [mem EXCEPT ![s] = "int3"]
    /\ persistent' = IF s \in PersistentSites THEN persistent \cup {s}
                                              ELSE persistent
    /\ UNCHANGED <<ip, tf, raised, start, unrestored, boot, alive, damage,
                   rearm, pending, initialSeen, process, pc, stop>>

(* mark_handled: the pending exception ends as handled.                    *)
MarkHandled ==
    /\ pc = "stopped" /\ stop.kind = "exception" /\ pending.status = "not_handled"
    /\ pending' = [pending EXCEPT !.status = "continue"]
    /\ UNCHANGED <<targetVars, breakpoints, persistent, rearm, initialSeen,
                   process, pc, stop>>

ContinuePending ==
    IF pending = NoPending
      THEN UNCHANGED <<raised, ip, damage, pending>>
      ELSE Continue(pending.tid, pending.status)

TrapFlagsUnset == tf

(* The thread to be stepped gets its trap flag.                            *)
TrapFlags == IF rearm = NoRearm THEN tf ELSE [tf EXCEPT ![rearm.tid] = TRUE]

Cont ==
    /\ pc = "stopped" /\ stop.kind # "exited"
    /\ tf' = TrapFlags
    /\ ContinuePending
    /\ pc' = "waiting"
    /\ stop' = NoStop
    /\ UNCHANGED <<mem, start, unrestored, boot, alive, breakpoints,
                   persistent, rearm, initialSeen, process>>

(* detach, in the steps other threads can come between: the pending event  *)
(* is continued first, so the target runs while the bytes are put back.    *)
Detach ==
    /\ pc = "stopped" /\ stop.kind \in {"breakpoint", "exception", "exited"}
    /\ ContinuePending
    /\ pc' = "detaching"
    /\ stop' = NoStop
    /\ UNCHANGED <<mem, tf, start, unrestored, boot, alive, breakpoints,
                   persistent, rearm, initialSeen, process>>

(* The table is emptied; a write that fails is passed over.                *)
RestoreByte(s) ==
    /\ pc = "detaching" /\ s \in Armed
    /\ breakpoints' = [breakpoints EXCEPT ![s] = "none"]
    /\ \/ /\ mem' = [mem EXCEPT ![s] = breakpoints[s]]
          /\ UNCHANGED unrestored
       \/ /\ MayFail
          /\ unrestored' = unrestored \cup {s}
          /\ UNCHANGED mem
    /\ UNCHANGED <<ip, tf, raised, start, boot, alive, damage, persistent, rearm,
                   pending, initialSeen, process, pc, stop>>

(* The events left in the port go to the target as unhandled.              *)
LetGo ==
    /\ damage' = damage \cup
          UNION {Disturbs(raised[t], ip[t], "not_handled") : t \in Threads}
    /\ raised' = [t \in Threads |-> NoEvent]
    /\ ip' = [t \in Threads |-> IF ip[t].past THEN Elsewhere ELSE ip[t]]
    /\ stop' = NoStop
    /\ UNCHANGED <<start, unrestored, boot, alive, breakpoints, persistent,
                   initialSeen, process>>

NothingToRestore == TRUE

AllRestored == Armed = {}

StopDebugging ==
    /\ pc = "detaching" /\ AllRestored
    /\ pc' = "detached"
    /\ LetGo
    /\ UNCHANGED <<mem, tf, rearm, pending>>

(* An error returned through `?`: the debugger's process ends. What the    *)
(* turn has done by then stays. Before the initial break that is nothing.  *)
GiveUp ==
    /\ MayFail /\ initialSeen
    /\ pc' = "gone"
    /\ pending' = NoPending
    /\ LetGo

(* At a stop, in any call.                                                 *)
Abort ==
    /\ pc = "stopped"
    /\ GiveUp
    /\ UNCHANGED <<mem, tf, rearm>>

(* In cont(), when the trap flag is set and the event is not continued.    *)
ContFails ==
    /\ pc = "stopped" /\ stop.kind # "exited"
    /\ GiveUp
    /\ tf' = TrapFlags
    /\ UNCHANGED <<mem, rearm>>

(* In its loop, before a handler has done anything.                        *)
WaitFails ==
    /\ pc = "waiting"
    /\ GiveUp
    /\ UNCHANGED <<mem, tf, rearm>>

(* At the end of a step: in the write, in set_trap_flag, or thereafter.    *)
SingleStepFails(t) ==
    /\ Reported(t, "step") /\ rearm # NoRearm
    /\ GiveUp
    /\ \/ rearm' = NoRearm /\ UNCHANGED <<mem, tf>>
       \/ rearm' = NoRearm /\ PutBack /\ UNCHANGED tf
       \/ StepEnds

(* At a hit, when the byte is written and the thread is not rewound.       *)
BreakpointFails(t) ==
    LET s == raised[t].site IN
    /\ Reported(t, "bp") /\ s \in Armed
    /\ GiveUp
    /\ mem' = [mem EXCEPT ![s] = breakpoints[s]]
    /\ UNCHANGED <<tf, rearm>>

TurnFails ==
    \/ WaitFails
    \/ \E t \in Threads : SingleStepFails(t) \/ BreakpointFails(t)

(* A fault by the client's own doing, taken back before the target is let  *)
(* go on; every other one is the target's.                                 *)
OwnFault == stop.kind = "exception" /\ raised[pending.tid].by = "tool"

DealtWith == OwnFault => pending.status = "continue"

Client ==
    \/ DealtWith /\ Cont
    \/ DealtWith /\ Detach
    \/ StopDebugging
    \/ \E s \in Sites : RestoreByte(s)
    \/ OwnFault /\ MarkHandled
    \/ Abort

(* The process has ended and nobody debugs it.                             *)
Ended == ~alive /\ ~Debugged /\ UNCHANGED vars

Next ==
    \/ OnCreateProcess
    \/ \E t \in Threads : Target(t) \/ Handle(t)
    \/ \E s \in Sites : SetBreakpoint(s)
    \/ Client
    \/ ContFails \/ TurnFails
    \/ Ended

Spec == Init /\ [][Next]_vars

(* A thread at an instruction executes it although the target is frozen    *)
(* time and again; the port is a queue, so that an event in it is reported *)
(* in the end however many stops come between; a client returns from its   *)
(* work at a stop. No error has to happen.                                 *)
Fairness ==
    /\ WF_vars(OnCreateProcess)
    /\ \A t \in Threads : /\ SF_vars(HitInt3(t) \/ Execute(t))
                          /\ SF_vars(Handle(t))
    /\ WF_vars(Client)

FairSpec == Spec /\ Fairness

-----------------------------------------------------------------------------
(* Properties.                                                             *)

Places == [site : Sites \cup {NoSite}, past : BOOLEAN]

Events == [kind : {"none", "bp", "step", "fault", "other", "exit"},
           site : Sites \cup {NoSite},
           by : {"tool", "app", "system"}]

(* The state has its type (engine.rs:48-60).                               *)
TypeOK ==
    /\ mem \in [Sites -> {"orig", "int3"}]
    /\ ip \in [Threads -> Places]
    /\ tf \in [Threads -> BOOLEAN]
    /\ raised \in [Threads -> Events]
    /\ start \in Starts
    /\ boot \in {"create", "breakin", "done"}
    /\ alive \in BOOLEAN
    /\ damage \subseteq {"leak", "swallow", "skew"}
    /\ unrestored \subseteq Sites
    /\ breakpoints \in [Sites -> {"none", "orig", "int3"}]
    /\ persistent \subseteq PersistentSites
    /\ rearm \in [site : PersistentSites, tid : Threads] \cup {NoRearm}
    /\ pending \in [tid : Threads, status : {"continue", "not_handled"}]
                     \cup {NoPending}
    /\ initialSeen \in BOOLEAN
    /\ process \in BOOLEAN
    /\ pc \in {"stopped", "waiting", "detaching", "detached", "gone"}
    /\ stop \in [kind : {"none", "initial", "breakpoint", "exception", "exited"},
                 site : Sites \cup {NoSite}]

(* As long as no client arms an armed site, every 0xCC the engine has put  *)
(* into the target has its table entry, and the entry holds the program's  *)
(* own byte, until detach fails to write it: the engine can always undo    *)
(* what it did (engine.rs:213-220, 248-269), whichever threads hit and     *)
(* step over it in between and wherever a turn breaks off.                 *)
Int3Accounted ==
    \A s \in Sites :
        /\ mem[s] = "int3" => s \in Armed \cup unrestored
        /\ s \in Armed => breakpoints[s] = "orig"

(* detach tries to write every site back and forgets a write that fails    *)
(* (engine.rs:321-324): an 0xCC is left only where the write of that very  *)
(* site failed, whatever the threads did while the bytes were put back.    *)
CleanAfterDetach ==
    pc = "detached" => \A s \in Sites : mem[s] = "int3" => s \in unrestored

(* A persistent breakpoint that was set is in memory, or the step that     *)
(* will put it back is in progress (engine.rs:52-54, 271).                 *)
PersistentArmed ==
    Watching =>
        \A s \in persistent : mem[s] = "int3" \/ rearm.site = s

(* A thread only ever resumes at the start of an instruction: past an int3 *)
(* it is rewound (engine.rs:215) or its exception goes to the target.      *)
NeverSkewed == "skew" \notin damage

(* Until it is detached the target meets exactly its own exceptions: none  *)
(* that the debugger caused, and all of its own (engine.rs:28-38, 224).    *)
Transparent == Watching => damage = {}

(* A persistent breakpoint being stepped over is put back (engine.rs:271). *)
ReArmed ==
    \A s \in PersistentSites :
        (rearm.site = s /\ pc = "waiting")
            ~> (mem[s] = "int3" \/ pc \in {"detaching", "gone"} \/ ~alive)

(* The engine provides the watch it promises, until detach begins.         *)
Service == INSTANCE BreakpointService WITH
    watch <- [s \in Sites |-> IF s \notin Armed \/ ~Watching THEN "off"
                              ELSE IF s \in persistent THEN "always" ELSE "once"],
    at <- [t \in Threads |-> ip[t].site],
    announced <- {t \in Threads : Watching /\ rearm = [site |-> ip[t].site, tid |-> t]}

ImplementsService == Service!ServiceSpec

(* engine.rs:325: "the target keeps running" after detach: no exception of *)
(* the debugger's making kills it.                                         *)
SurvivesDetach == pc = "detached" => "leak" \notin damage

-----------------------------------------------------------------------------
(* The inductive invariant behind the properties above.                    *)

(* Nothing is armed before the initial break, or after the detach, and no  *)
(* write back has failed before it.                                        *)
ArmedInTime ==
    /\ ~initialSeen => Armed = {} /\ rearm = NoRearm
    /\ pc = "detached" => Armed = {}
    /\ unrestored # {} => initialSeen /\ ~Watching

(* The step in progress is over a breakpoint that is still in the table.   *)
RearmInTable ==
    rearm # NoRearm =>
        /\ rearm.site \in persistent
        /\ Watching => rearm.site \in Armed

(* A thread past an int3 waits in the port with its breakpoint event.      *)
PastIsHeld ==
    \A t \in Threads :
        ip[t].past => raised[t].kind = "bp" /\ initialSeen

(* An event is pending exactly while the client has the control, and is    *)
(* not to be continued as handled with the thread past an int3.            *)
PendingFits ==
    /\ pending # NoPending => pc = "stopped"
    /\ pending.status = "continue" => ~ip[pending.tid].past
    /\ stop.kind = "exception" => pending # NoPending /\ raised[pending.tid].kind = "fault"

BookKeeping ==
    /\ TypeOK
    /\ Int3Accounted
    /\ ArmedInTime
    /\ RearmInTable
    /\ PastIsHeld
    /\ PendingFits
    /\ NeverSkewed
=============================================================================
