------------------------------ MODULE Session ------------------------------
(***************************************************************************)
(* The breakpoint-driven dump sessions and the anti-debug interceptor on   *)
(* top of the engine: -a (dump_on_breakpoint), --closemon                  *)
(* (triggers/terminate.rs), --launch (launch_to_exit) and --launch --hide  *)
(* (antidebug/intercept.rs), each composed with the target they control.   *)
(* The x64 build intercepts under --hide; the x86 build only patches the   *)
(* PEB and the heap, which no query goes through ("hide_x86").             *)
(*                                                                         *)
(* A session is a loop over cont(): what it does at a stop is one action   *)
(* for each call it makes on the engine, the target being frozen.          *)
(***************************************************************************)
EXTENDS Engine, Sequences

CONSTANTS
    Query,        \* NtQueryInformationProcess
    SetThread,    \* NtSetInformationThread
    Goal,         \* the address of -a, or NtTerminateProcess
    ReturnSites,  \* where queries return to
    Callers,      \* the threads that make such calls
    Modes         \* the sessions considered

ASSUME SessionAssumption ==
    /\ Sites = {Query, SetThread, Goal} \cup ReturnSites
    /\ PersistentSites = {Query, SetThread}
    /\ Query # SetThread /\ Goal \notin {Query, SetThread}
    /\ {Query, SetThread, Goal} \cap ReturnSites = {}
    /\ Callers \subseteq Threads
    /\ Modes \subseteq {"addr", "closemon", "launch", "hide", "hide_x86"}

VARIABLES
    mode,      \* the session that runs
    toArm,     \* the breakpoints still to be set at the initial break
    served,    \* the present breakpoint stop has been served
    returns,   \* Interceptor.pending: class and buffer for each return site
    dumped,    \* the target has been dumped
    (* the target's calls *)
    call,      \* the call each thread is making
    out,       \* the output buffer of each thread's query
    status,    \* the status each thread's call returns
    dying,     \* the threads in NtTerminateProcess
    due,       \* threads that reached Goal while it was watched
    detected,  \* history: threads that have seen the debugger
    hidden,    \* history: threads hidden from the debugger
    missed     \* history: Goal was executed, watched, and no dump made

callVars == <<call, out, status, dying, due, detected, hidden, missed>>
clientVars == <<mode, toArm, served, returns, dumped>>
sessionVars == <<vars, clientVars, callVars>>

-----------------------------------------------------------------------------
(* The queries that reveal a debugger, what the kernel answers under one,  *)
(* and what it answers without.                                            *)
DebugClasses == {"port", "handle", "flags"}

Truth(class) == CASE class = "port" -> "minus_one"
                  [] class = "handle" -> "handle"
                  [] class = "flags" -> "zero"

NotDebugged(class) ==
    CASE class = "port" -> [value |-> "zero", status |-> "success"]
      [] class = "handle" -> [value |-> "zero", status |-> "port_not_set"]
      [] class = "flags" -> [value |-> "one", status |-> "success"]

NoCall == [fn |-> "none", class |-> "none", ret |-> NoSite]
NoReturn == [class |-> "none", buffer |-> NoThread]
Idle(t) == call[t] = NoCall /\ t \notin dying

Launches == {"launch", "hide", "hide_x86"}   \* launch_to_exit

(* What is armed at the initial break: Interceptor::arm, on x64, comes     *)
(* before the session's own breakpoint.                                    *)
Plan(m) == IF m = "hide" THEN <<Query, SetThread, Goal>> ELSE <<Goal>>
Exits == mode \in Launches \cup {"closemon"}      \* Goal is NtTerminateProcess

SessionInit ==
    /\ Init
    /\ mode \in Modes
    /\ start = IF mode \in Launches THEN "launch" ELSE "attach"
    /\ toArm = Plan(mode)
    /\ served = FALSE
    /\ returns = [s \in ReturnSites |-> NoReturn]
    /\ dumped = FALSE
    /\ call = [t \in Threads |-> NoCall]
    /\ out = [t \in Threads |-> "none"]
    /\ status = [t \in Threads |-> "none"]
    /\ dying = {} /\ due = {} /\ detected = {} /\ hidden = {}
    /\ missed = FALSE

-----------------------------------------------------------------------------
(* The target: threads that query, hide, come to Goal and exit.            *)

CallQuery(t) == \E c \in DebugClasses \cup {"other"}, r \in ReturnSites :
    /\ t \in Callers /\ Idle(t)
    /\ Reach(t, Query)
    /\ call' = [call EXCEPT ![t] = [fn |-> "query", class |-> c, ret |-> r]]
    /\ UNCHANGED <<clientVars, out, status, dying, due, detected, hidden, missed>>

CallSetThread(t) == \E c \in {"hide", "other"} :
    /\ t \in Callers /\ Idle(t)
    /\ Reach(t, SetThread)
    /\ call' = [call EXCEPT ![t] = [fn |-> "set", class |-> c, ret |-> NoSite]]
    /\ UNCHANGED <<clientVars, out, status, dying, due, detected, hidden, missed>>

ReachGoal(t) ==
    /\ Idle(t)
    /\ Reach(t, Goal)
    /\ due' = IF mem[Goal] = "int3" /\ Watching THEN due \cup {t} ELSE due \ {t}
    /\ UNCHANGED <<clientVars, call, out, status, dying, detected, hidden, missed>>

(* The kernel has filled the buffer; the query returns to its caller.      *)
ComeBack(t) ==
    /\ call[t].fn = "returning"
    /\ Reach(t, call[t].ret)
    /\ UNCHANGED <<clientVars, callVars>>

(* The instruction a thread executes, with what it does at each site.      *)
Run(t) ==
    /\ Execute(t)
    /\ UNCHANGED clientVars
    /\ CASE ip[t].site = Query ->
              /\ call' = [call EXCEPT ![t].fn = "returning"]
              /\ status' = [status EXCEPT ![t] = "success"]
              /\ out' = [out EXCEPT ![t] = IF call[t].class \in DebugClasses
                                             THEN Truth(call[t].class) ELSE @]
              /\ UNCHANGED <<dying, due, detected, hidden, missed>>
         [] ip[t].site = SetThread ->
              /\ hidden' = IF call[t].class = "hide" /\ Debugged THEN hidden \cup {t} ELSE hidden
              /\ call' = [call EXCEPT ![t] = NoCall]
              /\ UNCHANGED <<out, status, dying, due, detected, missed>>
         [] ip[t].site \in ReturnSites ->
              /\ detected' = IF /\ Debugged /\ call[t].class \in DebugClasses
                                /\ [value |-> out[t], status |-> status[t]]
                                      # NotDebugged(call[t].class)
                               THEN detected \cup {t} ELSE detected
              /\ call' = [call EXCEPT ![t] = NoCall]
              /\ out' = [out EXCEPT ![t] = "none"]
              /\ status' = [status EXCEPT ![t] = "none"]
              /\ UNCHANGED <<dying, due, hidden, missed>>
         [] ip[t].site = Goal ->
              /\ dying' = IF Exits THEN dying \cup {t} ELSE dying
              /\ missed' = (missed \/ (t \in due /\ ~dumped /\ Debugged))
              /\ UNCHANGED <<call, out, status, due, detected, hidden>>
         [] OTHER -> UNCHANGED callVars

SessionTarget(t) ==
    \/ CallQuery(t) \/ CallSetThread(t) \/ ReachGoal(t) \/ ComeBack(t) \/ Run(t)
    \/ /\ LoaderBreak(t) \/ HitInt3(t)
       /\ UNCHANGED <<clientVars, callVars>>
    \/ /\ RaiseOther(t)
       /\ Idle(t)
       /\ UNCHANGED <<clientVars, callVars>>
    \/ /\ ExitProcess(t)               \* of its own, or killed from outside
       /\ UNCHANGED <<clientVars, callVars>>

-----------------------------------------------------------------------------
(* The sessions.                                                           *)

(* Stop::InitialBreak: arm what the session waits for, one call each.      *)
ArmNext ==
    /\ pc = "stopped" /\ stop.kind = "initial" /\ toArm # <<>>
    /\ SetBreakpoint(Head(toArm))
    /\ toArm' = Tail(toArm)
    /\ UNCHANGED <<mode, served, returns, dumped, callVars>>

AtBreakpoint(s) ==
    /\ pc = "stopped" /\ stop = [kind |-> "breakpoint", site |-> s] /\ ~served
    /\ served' = TRUE
    /\ UNCHANGED <<mode, toArm>>

InterceptEverything(class) == TRUE
Intercepted(class) == class \in DebugClasses

(* on_query_entry: a debug-detection query gets a breakpoint at its return *)
(* site, with the class and the buffer to rewrite there.                   *)
OnQueryEntry ==
    LET t == pending.tid
        r == call[t].ret IN
    /\ mode = "hide" /\ AtBreakpoint(Query)
    /\ IF Intercepted(call[t].class)
         THEN /\ SetBreakpoint(r)
              /\ returns' = [returns EXCEPT ![r] =
                                [class |-> call[t].class, buffer |-> t]]
         ELSE UNCHANGED <<vars, returns>>
    /\ UNCHANGED <<dumped, callVars>>

RewrittenValueOnly(class) == [value |-> "zero", status |-> "success"]

(* The output and status on_query_return leaves for a class.               *)
Rewritten(class) ==
    CASE class = "port" -> [value |-> "zero", status |-> "kept"]
      [] class = "handle" -> [value |-> "zero", status |-> "port_not_set"]
      [] class = "flags" -> [value |-> "one", status |-> "kept"]

Peek(s) == UNCHANGED returns
Take(s) == returns' = [returns EXCEPT ![s] = NoReturn]

(* on_query_return: the buffer recorded at the entry, and the status of    *)
(* the thread that is at the return site.                                  *)
OnQueryReturn(s) ==
    LET t == pending.tid
        new == Rewritten(returns[s].class) IN
    /\ mode = "hide" /\ AtBreakpoint(s) /\ returns[s] # NoReturn
    /\ out' = [out EXCEPT ![returns[s].buffer] = new.value]
    /\ status' = [status EXCEPT ![t] = IF new.status = "kept" THEN @ ELSE new.status]
    /\ Take(s)
    /\ UNCHANGED <<vars, dumped, call, dying, due, detected, hidden, missed>>

SwallowNothing(class) == class
SwallowHide(class) == IF class = "hide" THEN "invalid" ELSE class

(* on_set_thread: the class of a ThreadHideFromDebugger call is invalid.   *)
OnSetThread ==
    /\ mode = "hide" /\ AtBreakpoint(SetThread)
    /\ LET c == call[pending.tid]
       IN  call' = [call EXCEPT ![pending.tid] = [c EXCEPT !.class = SwallowHide(c.class)]]
    /\ UNCHANGED <<vars, returns, dumped, out, status, dying, due, detected, hidden,
                   missed>>

DumpsWhenDumped(s) == IF mode \in Launches THEN s = Goal /\ dumped ELSE TRUE

(* A launched target is dumped once, at its exit; -a and --closemon dump   *)
(* at whatever breakpoint stops them.                                      *)
DumpsAt(s) == IF mode \in Launches THEN s = Goal /\ ~dumped ELSE TRUE

(* No handler of the interceptor takes the stop (on_breakpoint is false).  *)
NotConsumed(s) ==
    ~(mode = "hide" /\ (s \in {Query, SetThread}
                        \/ (s \in ReturnSites /\ returns[s] # NoReturn)))

Serve(s) ==
    /\ AtBreakpoint(s) /\ NotConsumed(s)
    /\ dumped' = (dumped \/ DumpsAt(s))
    /\ UNCHANGED <<vars, returns, callVars>>

(* The loop goes on, unless it is to break out.                            *)
Leaves == \/ stop.kind = "exited"
          \/ stop.kind = "breakpoint" /\ mode \in {"addr", "closemon"}

GoOn ==
    /\ ~Leaves
    /\ stop.kind = "initial" => toArm = <<>>
    /\ stop.kind = "breakpoint" => served
    /\ Cont \/ ContFails
    /\ served' = FALSE
    /\ UNCHANGED <<mode, toArm, returns, dumped, callVars>>

Leave ==
    /\ Leaves
    /\ stop.kind = "breakpoint" => served
    /\ Detach
    /\ UNCHANGED <<clientVars, callVars>>

(* The steps of detach, and an error out of the loop.                      *)
Finish ==
    /\ StopDebugging \/ Abort \/ \E s \in Sites : RestoreByte(s)
    /\ UNCHANGED <<clientVars, callVars>>

SessionClient ==
    \/ ArmNext
    \/ OnQueryEntry \/ OnSetThread
    \/ \E s \in ReturnSites : OnQueryReturn(s)
    \/ \E s \in Sites : Serve(s)
    \/ GoOn \/ Leave \/ Finish

SessionNext ==
    \/ \E t \in Threads : SessionTarget(t)
    \/ /\ OnCreateProcess \/ \E t \in Threads : Handle(t)
       /\ UNCHANGED <<clientVars, callVars>>
    \/ SessionClient
    \/ TurnFails /\ UNCHANGED <<clientVars, callVars>>
    \/ Ended /\ UNCHANGED <<clientVars, callVars>>

SessionSpec == SessionInit /\ [][SessionNext]_sessionVars

SessionFairness ==
    /\ WF_sessionVars(OnCreateProcess /\ UNCHANGED <<clientVars, callVars>>)
    /\ \A t \in Threads :
          /\ SF_sessionVars(Run(t) \/ (HitInt3(t) /\ UNCHANGED <<clientVars, callVars>>))
          /\ SF_sessionVars(Handle(t) /\ UNCHANGED <<clientVars, callVars>>)
    /\ WF_sessionVars(SessionClient)

FairSessionSpec == SessionSpec /\ SessionFairness

-----------------------------------------------------------------------------
(* Properties.                                                             *)

(* The session's own tables are as declared, next to the engine's          *)
(* (lib.rs:365-371, intercept.rs:24-29).                                   *)
SessionTypeOK ==
    /\ TypeOK
    /\ mode \in Modes
    /\ toArm \in {<<>>, <<Goal>>, <<SetThread, Goal>>, <<Query, SetThread, Goal>>}
    /\ served \in BOOLEAN /\ dumped \in BOOLEAN /\ missed \in BOOLEAN
    /\ \A s \in ReturnSites :
          returns[s] = NoReturn \/ (returns[s].class \in DebugClasses /\ returns[s].buffer \in Callers)
    /\ \A t \in Threads :
          /\ call[t].fn \in {"none", "query", "set", "returning"}
          /\ out[t] \in {"none", "minus_one", "handle", "zero", "one"}
          /\ status[t] \in {"none", "success", "port_not_set"}
    /\ \A S \in {dying, due, detected, hidden} : S \subseteq Threads

(* Under --hide of the x64 build no thread gets the answer a debugged      *)
(* process gets from its queries, whatever their classes and return sites  *)
(* (intercept.rs:22-23). The x86 build does not promise it (lib.rs:229).   *)
QueriesHidden == mode = "hide" => detected = {}

(* Under --hide of the x64 build no thread ever hides itself from the      *)
(* debugger (intercept.rs:94-95).                                          *)
NeverHidden == mode = "hide" => hidden = {}

(* A rewrite is only ever awaited where a breakpoint will bring it about:  *)
(* the interceptor's table and the engine's agree (intercept.rs:27, 75-76).*)
ReturnsAreArmed ==
    Watching => \A s \in ReturnSites :
        returns[s] # NoReturn =>
            \/ s \in Armed
            \/ stop = [kind |-> "breakpoint", site |-> s] /\ ~served

(* Once the session waits for Goal no thread gets past it before the dump  *)
(* (lib.rs:356-357, terminate.rs:15-16): whichever threads, other          *)
(* breakpoints and exceptions come between.                                *)
GoalNotMissed == ~missed

(* A thread that comes to a watched Goal brings about the dump, or the     *)
(* session's end.                                                          *)
DumpFollows ==
    \A t \in Threads :
        (t \in due /\ ip[t].site = Goal /\ Debugged)
            ~> (dumped \/ ~Debugged \/ ~alive)
=============================================================================
