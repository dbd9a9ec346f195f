---------------------------- MODULE EngineProofs ----------------------------
(***************************************************************************)
(* Theorems about Engine, for every set of threads and sites.              *)
(***************************************************************************)
EXTENDS Engine, TLAPS

(* The client of Engine takes its own faults back. The lemmas do without   *)
(* that, so that they hold for every session: an engine step is one of the *)
(* target, of the event loop, or any call, failing or not.                 *)
Fails == Abort \/ ContFails \/ TurnFails

ClientCall ==
    \/ Cont \/ Detach \/ StopDebugging \/ MarkHandled \/ Fails
    \/ \E s \in Sites : RestoreByte(s) \/ SetBreakpoint(s)

EngineStep ==
    \/ OnCreateProcess \/ Ended \/ UNCHANGED vars
    \/ \E t \in Threads : Target(t) \/ Handle(t)
    \/ ClientCall

LEMMA NextIsEngineStep == [Next]_vars => EngineStep
  BY DEF Next, Client, EngineStep, ClientCall, Fails

(* Where an error ends the debugger, the rest of the step matters little.  *)
LEMMA FailsIs ==
    ASSUME Fails
    PROVE  /\ pc' = "gone" /\ pending' = NoPending /\ stop' = NoStop
           /\ LetGo /\ initialSeen /\ Watching
           /\ UNCHANGED <<start, unrestored, boot, alive, breakpoints, persistent,
                          initialSeen, process>>
  BY DEF Fails, Abort, ContFails, TurnFails, WaitFails, SingleStepFails, BreakpointFails,
         GiveUp, LetGo, Reported, Watching

(* It leaves the target's code alone, puts the byte of a step back, or     *)
(* takes the 0xCC of a hit out.                                            *)
LEMMA FailsWrites ==
    ASSUME Fails
    PROVE  /\ \/ UNCHANGED mem
              \/ rearm # NoRearm /\ PutBack
              \/ \E s \in Armed : mem' = [mem EXCEPT ![s] = breakpoints[s]]
           /\ \/ tf' = tf
              \/ /\ rearm # NoRearm
                 /\ \E b \in BOOLEAN : tf' = [tf EXCEPT ![rearm.tid] = b]
           /\ rearm' = rearm \/ rearm' = NoRearm
  <1>1. CASE Abort \/ WaitFails
    BY <1>1 DEF Abort, WaitFails
  <1>2. CASE ContFails
    BY <1>2 DEF ContFails, TrapFlags
  <1>3. ASSUME NEW t \in Threads, SingleStepFails(t)
        PROVE  /\ \/ UNCHANGED mem
                  \/ rearm # NoRearm /\ PutBack
               /\ \/ tf' = tf
                  \/ rearm # NoRearm /\ tf' = [tf EXCEPT ![rearm.tid] = FALSE]
               /\ rearm' = NoRearm
    BY <1>3 DEF SingleStepFails, StepEnds
  <1>4. ASSUME NEW t \in Threads, BreakpointFails(t)
        PROVE  /\ \E s \in Armed : mem' = [mem EXCEPT ![s] = breakpoints[s]]
               /\ tf' = tf /\ rearm' = rearm
    BY <1>4 DEF BreakpointFails
  <1> QED BY <1>1, <1>2, <1>3, <1>4 DEF Fails, TurnFails

-----------------------------------------------------------------------------
(* Type correctness.                                                       *)

LEMMA InitType == Init => TypeOK
  <1> SUFFICES ASSUME Init PROVE TypeOK
    OBVIOUS
  <1>1. /\ ip \in [Threads -> Places]
        /\ stop \in [kind : {"none", "initial", "breakpoint", "exception", "exited"},
                     site : Sites \cup {NoSite}]
    BY DEF Init, Elsewhere, NoStop, Places
  <1>2. raised \in [Threads -> Events]
    BY DEF Init, NoEvent, Events
  <1> QED BY <1>1, <1>2 DEF Init, TypeOK

LEMMA DisturbsType ==
    ASSUME NEW e, NEW p, NEW st
    PROVE  Disturbs(e, p, st) \subseteq {"leak", "swallow", "skew"}
  BY DEF Disturbs

LEMMA RaiseType ==
    ASSUME TypeOK, NEW t \in Threads,
           NEW e \in Events,
           Raise(t, e)
    PROVE  /\ raised' \in [Threads -> Events]
           /\ damage' \subseteq {"leak", "swallow", "skew"}
  <1>1. CASE Debugged
    <2>1. raised' = [raised EXCEPT ![t] = e] /\ damage' = damage
      BY <1>1 DEF Raise
    <2> QED BY <2>1 DEF TypeOK
  <1>2. CASE ~Debugged
    <2>1. Disturbs(e, Elsewhere, "not_handled") \subseteq {"leak", "swallow", "skew"}
      BY DisturbsType
    <2>2. raised' = raised /\ damage' = damage \cup Disturbs(e, Elsewhere, "not_handled")
      BY <1>2 DEF Raise
    <2> QED BY <2>1, <2>2 DEF TypeOK
  <1> QED BY <1>1, <1>2

LEMMA ContinueType ==
    ASSUME TypeOK, NEW t \in Threads, NEW st, Continue(t, st)
    PROVE  /\ raised' \in [Threads -> Events]
           /\ ip' \in [Threads -> Places]
           /\ damage' \subseteq {"leak", "swallow", "skew"}
           /\ pending' = NoPending
  BY DisturbsType DEF TypeOK, Continue, Events, NoEvent, Places, Elsewhere

LEMMA TargetType ==
    ASSUME TypeOK, NEW t \in Threads, Target(t)
    PROVE  TypeOK'
  <1>1. CASE LoaderBreak(t)
    BY <1>1, RaiseType DEF TypeOK, LoaderBreak, Events, Event, engineVars
  <1>2. ASSUME NEW s \in Sites, Reach(t, s) PROVE TypeOK'
    BY <1>2 DEF TypeOK, Reach, At, Places, engineVars
  <1>3. CASE HitInt3(t)
    BY <1>3, RaiseType DEF TypeOK, HitInt3, Events, Event, PastInt3, Places, Elsewhere, engineVars
  <1>4. CASE Execute(t)
    <2>1. /\ raised' \in [Threads -> Events]
          /\ damage' \subseteq {"leak", "swallow", "skew"}
      <3>1. CASE tf[t]
        BY <1>4, <3>1, RaiseType DEF Execute, Events, Event
      <3>2. CASE ~tf[t]
        BY <1>4, <3>2 DEF Execute, TypeOK
      <3> QED BY <3>1, <3>2
    <2>2. /\ ip' \in [Threads -> Places]
          /\ tf' \in [Threads -> BOOLEAN]
      BY <1>4 DEF TypeOK, Execute, Elsewhere, Places
    <2> QED BY <1>4, <2>1, <2>2 DEF TypeOK, Execute, engineVars
  <1>5. CASE RaiseOther(t)
    <2>1. PICK x \in OwnExceptions :
             /\ Raise(t, Event(x[1], NoSite, x[2]))
             /\ UNCHANGED <<mem, ip, tf, start, unrestored, boot, alive, engineVars, pc,
                            stop>>
      BY <1>5 DEF RaiseOther
    <2>2. Event(x[1], NoSite, x[2]) \in Events
      <3>1. /\ x[1] \in {"bp", "step", "fault", "other"}
            /\ x[2] \in {"tool", "app", "system"}
        <4>1. x \in {<<"bp", "app">>, <<"step", "app">>, <<"fault", "app">>,
                     <<"fault", "tool">>, <<"other", "system">>}
          BY EngineAssumption
        <4> QED BY <4>1
      <3> QED BY <3>1 DEF Events, Event
    <2> QED BY <2>1, <2>2, RaiseType DEF TypeOK, engineVars
  <1>6. CASE ExitProcess(t)
    <2>1. {Event("exit", NoSite, "app"), NoEvent} \subseteq Events
      BY DEF Events, Event, NoEvent
    <2>2. raised' \in [Threads -> Events]
      BY <1>6, <2>1 DEF TypeOK, ExitProcess
    <2>3. /\ alive' = FALSE
          /\ UNCHANGED <<mem, ip, tf, start, unrestored, boot, damage, engineVars, pc,
                         stop>>
      BY <1>6 DEF ExitProcess
    <2>4. alive' \in BOOLEAN
      BY <2>3
    <2> QED BY <2>2, <2>3, <2>4 DEF TypeOK, engineVars
  <1> QED BY <1>1, <1>2, <1>3, <1>4, <1>5, <1>6 DEF Target

LEMMA HandleType ==
    ASSUME TypeOK, NEW t \in Threads, Handle(t)
    PROVE  TypeOK'
  <1>1. CASE OnSingleStep(t)
    <2>1. /\ mem' \in [Sites -> {"orig", "int3"}]
          /\ tf' \in [Threads -> BOOLEAN]
          /\ rearm' \in [site : PersistentSites, tid : Threads] \cup {NoRearm}
      BY <1>1 DEF TypeOK, OnSingleStep, StepEnds, PutBack
    <2>2. Continue(t, StepStatus)
      BY <1>1 DEF OnSingleStep
    <2> QED BY <1>1, <2>1, <2>2, ContinueType DEF TypeOK, OnSingleStep
  <1>2. CASE OnInitialBreak(t)
    BY <1>2 DEF TypeOK, OnInitialBreak, Return, targetVars
  <1>3. CASE OnBreakpoint(t)
    <2> DEFINE s == raised[t].site
    <2>1. s \in Sites /\ breakpoints[s] \in {"orig", "int3"}
      BY <1>3 DEF TypeOK, OnBreakpoint, Armed
    <2>2. /\ breakpoints' \in [Sites -> {"none", "orig", "int3"}]
          /\ rearm' \in [site : PersistentSites, tid : Threads] \cup {NoRearm}
      BY <1>3, <2>1 DEF TypeOK, OnBreakpoint, Consume
    <2>3. /\ mem' \in [Sites -> {"orig", "int3"}]
          /\ ip' \in [Threads -> Places]
      BY <1>3, <2>1 DEF TypeOK, OnBreakpoint, Rewind, At, Places
    <2> QED BY <1>3, <2>1, <2>2, <2>3 DEF TypeOK, OnBreakpoint, Return
  <1>4. CASE OnUnknownBreakpoint(t)
    BY <1>4, ContinueType DEF TypeOK, OnUnknownBreakpoint
  <1>5. CASE OnException(t)
    BY <1>5 DEF TypeOK, OnException, Return, targetVars
  <1>6. CASE OnOther(t)
    BY <1>6, ContinueType DEF TypeOK, OnOther
  <1>7. CASE OnExit(t)
    BY <1>7 DEF TypeOK, OnExit, targetVars
  <1> QED BY <1>1, <1>2, <1>3, <1>4, <1>5, <1>6, <1>7 DEF Handle

LEMMA LetGoType ==
    ASSUME TypeOK, LetGo
    PROVE  /\ raised' \in [Threads -> Events]
           /\ ip' \in [Threads -> Places]
           /\ damage' \subseteq {"leak", "swallow", "skew"}
  <1>1. UNION {Disturbs(raised[t], ip[t], "not_handled") : t \in Threads}
           \subseteq {"leak", "swallow", "skew"}
    BY DisturbsType
  <1> QED BY <1>1 DEF TypeOK, LetGo, Events, NoEvent, Places, Elsewhere

LEMMA ContinuePendingType ==
    ASSUME TypeOK, ContinuePending
    PROVE  /\ raised' \in [Threads -> Events]
           /\ ip' \in [Threads -> Places]
           /\ damage' \subseteq {"leak", "swallow", "skew"}
           /\ pending' = NoPending
  <1>1. CASE pending = NoPending
    BY <1>1 DEF TypeOK, ContinuePending
  <1>2. CASE pending # NoPending
    BY <1>2, ContinueType DEF TypeOK, ContinuePending
  <1> QED BY <1>1, <1>2

LEMMA ClientType ==
    ASSUME TypeOK, ClientCall
    PROVE  TypeOK'
  <1>1. CASE Cont
    BY <1>1, ContinuePendingType DEF TypeOK, Cont, TrapFlags, NoStop
  <1>2. CASE Detach
    BY <1>2, ContinuePendingType DEF TypeOK, Detach, NoStop
  <1>3. CASE StopDebugging
    BY <1>3, LetGoType DEF TypeOK, StopDebugging, LetGo, NoStop
  <1>4. ASSUME NEW s \in Sites, RestoreByte(s) PROVE TypeOK'
    BY <1>4 DEF TypeOK, RestoreByte, Armed
  <1>5. CASE MarkHandled
    <2>1. pending \in [tid : Threads, status : {"continue", "not_handled"}]
      BY <1>5 DEF TypeOK, MarkHandled, NoPending
    <2> QED BY <1>5, <2>1 DEF TypeOK, MarkHandled, targetVars
  <1>6. CASE Fails
    <2>1. /\ pc' = "gone" /\ pending' = NoPending /\ stop' = NoStop /\ LetGo
          /\ UNCHANGED <<start, unrestored, boot, alive, breakpoints, persistent,
                         initialSeen, process>>
      BY <1>6, FailsIs
    <2>2. /\ raised' \in [Threads -> Events]
          /\ ip' \in [Threads -> Places]
          /\ damage' \subseteq {"leak", "swallow", "skew"}
      BY <2>1, LetGoType
    <2>3. /\ mem' \in [Sites -> {"orig", "int3"}]
          /\ tf' \in [Threads -> BOOLEAN]
          /\ rearm' \in [site : PersistentSites, tid : Threads] \cup {NoRearm}
      BY <1>6, FailsWrites DEF TypeOK, PutBack, Armed
    <2> QED BY <2>1, <2>2, <2>3 DEF TypeOK, NoStop
  <1>7. ASSUME NEW s \in Sites, SetBreakpoint(s) PROVE TypeOK'
    BY <1>7 DEF TypeOK, SetBreakpoint
  <1> QED BY <1>1, <1>2, <1>3, <1>4, <1>5, <1>6, <1>7 DEF ClientCall

LEMMA NextType == TypeOK /\ EngineStep => TypeOK'
  <1> SUFFICES ASSUME TypeOK, EngineStep PROVE TypeOK'
    OBVIOUS
  <1>1. CASE OnCreateProcess
    BY <1>1 DEF TypeOK, OnCreateProcess
  <1>2. CASE \E t \in Threads : Target(t) \/ Handle(t)
    BY <1>2, TargetType, HandleType
  <1>3. CASE ClientCall
    BY <1>3, ClientType
  <1>4. CASE Ended \/ UNCHANGED vars
    BY <1>4 DEF TypeOK, Ended, vars, targetVars, engineVars
  <1> QED BY <1>1, <1>2, <1>3, <1>4 DEF EngineStep

(* The state keeps its type, whatever the target and the client do: a      *)
(* saved byte is a byte, a step in progress names a persistent site and a  *)
(* thread, a pending event names a thread (engine.rs:48-60).               *)
THEOREM TypeCorrect == Spec => []TypeOK
  <1>1. TypeOK /\ [Next]_vars => TypeOK'
    BY NextType, NextIsEngineStep
  <1> QED BY <1>1, InitType, PTL DEF Spec

-----------------------------------------------------------------------------
(* Book-keeping: the engine can undo every byte it wrote.                  *)

Bytes == Int3Accounted /\ ArmedInTime /\ RearmInTable
Holding == PastIsHeld /\ PendingFits /\ NeverSkewed

LEMMA SkewIff ==
    ASSUME NEW e, NEW p, NEW st
    PROVE  "skew" \in Disturbs(e, p, st) <=> (p.past /\ st = "continue")
  BY DEF Disturbs

LEMMA InitBooks == Init => BookKeeping
  <1> SUFFICES ASSUME Init PROVE BookKeeping
    OBVIOUS
  <1>1. Int3Accounted /\ ArmedInTime /\ RearmInTable
    BY DEF Init, Int3Accounted, ArmedInTime, RearmInTable, Armed
  <1>2. PastIsHeld /\ PendingFits /\ NeverSkewed
    BY DEF Init, PastIsHeld, PendingFits, NeverSkewed, Elsewhere, NoPending, NoStop
  <1> QED BY <1>1, <1>2, InitType DEF BookKeeping

(* The target changes neither its code nor the engine's tables.            *)
LEMMA TargetBytes ==
    ASSUME BookKeeping, NEW t \in Threads, Target(t)
    PROVE  Bytes'
  <1>1. UNCHANGED <<mem, unrestored, engineVars, pc>>
    BY DEF Target, LoaderBreak, Reach, HitInt3, Execute, RaiseOther, ExitProcess
  <1> QED BY <1>1 DEF BookKeeping, Bytes, Int3Accounted, ArmedInTime, RearmInTable,
                      Armed, Watching, engineVars

(* It runs only while no event is pending, and only a thread that is not   *)
(* waiting in the port moves.                                              *)
LEMMA TargetHolding ==
    ASSUME BookKeeping, NEW t \in Threads, Target(t)
    PROVE  Holding'
  <1>1. pc # "stopped" /\ raised[t] = NoEvent /\ UNCHANGED <<pending, initialSeen, pc, stop>>
    BY DEF Target, LoaderBreak, Reach, HitInt3, Execute, RaiseOther, ExitProcess,
           Free, Running, engineVars
  <1>2. pending = NoPending /\ stop.kind # "exception"
    BY <1>1 DEF BookKeeping, PendingFits
  <1>3. PendingFits'
    BY <1>1, <1>2 DEF PendingFits, NoPending
  <1>4. ~ip[t].past
    BY <1>1 DEF BookKeeping, PastIsHeld, NoEvent
  <1>5. damage' = damage \/ \E e : damage' = damage \cup Disturbs(e, Elsewhere, "not_handled")
    BY DEF Target, LoaderBreak, Reach, HitInt3, Execute, RaiseOther, ExitProcess, Raise
  <1>6. NeverSkewed'
    BY <1>5, SkewIff DEF BookKeeping, NeverSkewed
  <1>7. PastIsHeld'
    <2> SUFFICES ASSUME NEW u \in Threads, ip'[u].past
                 PROVE  raised'[u].kind = "bp" /\ initialSeen'
      BY DEF PastIsHeld
    <2>1. CASE HitInt3(t) /\ Debugged
      <3>1. u = t => raised'[u].kind = "bp"
        BY <2>1 DEF HitInt3, Raise, Event, BookKeeping, TypeOK
      <3>2. u # t => ip'[u] = ip[u] /\ raised'[u] = raised[u]
        BY <2>1 DEF HitInt3, Raise, BookKeeping, TypeOK
      <3>3. initialSeen
        BY <2>1 DEF HitInt3, BookKeeping, Int3Accounted, ArmedInTime
      <3> QED BY <1>1, <3>1, <3>2, <3>3 DEF BookKeeping, PastIsHeld
    <2>2. CASE ~(HitInt3(t) /\ Debugged)
      <3>1. ip'[t].past = FALSE
        BY <1>4, <2>2 DEF Target, LoaderBreak, Reach, HitInt3, Execute, RaiseOther,
              ExitProcess, Elsewhere, At, BookKeeping, TypeOK, Places
      <3>2. u # t => ip'[u] = ip[u] /\ raised'[u] = raised[u]
        BY DEF Target, LoaderBreak, Reach, HitInt3, Execute, RaiseOther, ExitProcess,
               Raise, BookKeeping, TypeOK
      <3> QED BY <1>1, <3>1, <3>2 DEF BookKeeping, PastIsHeld
    <2> QED BY <2>1, <2>2
  <1> QED BY <1>3, <1>6, <1>7 DEF Holding

(* Continuing an event whose thread is not past an int3, or handing it to  *)
(* the program, skews nothing.                                             *)
LEMMA ContinueHolding ==
    ASSUME BookKeeping, NEW t \in Threads, NEW st, Continue(t, st),
           st = "continue" => ~ip[t].past,
           stop'.kind # "exception", UNCHANGED initialSeen
    PROVE  Holding'
  <1>1. PendingFits'
    BY DEF PendingFits, Continue, NoPending
  <1>2. NeverSkewed'
    BY SkewIff DEF BookKeeping, NeverSkewed, Continue
  <1>3. PastIsHeld'
    <2> SUFFICES ASSUME NEW u \in Threads, ip'[u].past
                 PROVE  raised'[u].kind = "bp" /\ initialSeen'
      BY DEF PastIsHeld
    <2>1. u # t
      BY DEF Continue, Elsewhere, BookKeeping, TypeOK
    <2>2. ip'[u] = ip[u] /\ raised'[u] = raised[u]
      BY <2>1 DEF Continue, BookKeeping, TypeOK
    <2> QED BY <2>2 DEF BookKeeping, PastIsHeld
  <1> QED BY <1>1, <1>2, <1>3 DEF Holding

LEMMA HandleBytes ==
    ASSUME BookKeeping, NEW t \in Threads, Handle(t)
    PROVE  Bytes'
  <1>0. UNCHANGED unrestored /\ unrestored = {}
    BY DEF Handle, OnSingleStep, OnInitialBreak, OnBreakpoint, OnUnknownBreakpoint,
           OnException, OnOther, OnExit, Reported, targetVars, BookKeeping, ArmedInTime,
           Watching
  <1>1. CASE OnSingleStep(t) /\ rearm # NoRearm
    <2>1. rearm.site \in Sites /\ rearm.site \in Armed
      BY <1>1 DEF BookKeeping, RearmInTable, OnSingleStep, Reported, Watching, Armed
    <2>2. /\ mem' = [mem EXCEPT ![rearm.site] = "int3"]
          /\ rearm' = NoRearm
          /\ UNCHANGED <<breakpoints, persistent, initialSeen, pc>>
      BY <1>1 DEF OnSingleStep, StepEnds, PutBack
    <2>3. Int3Accounted'
      BY <1>0, <2>1, <2>2 DEF BookKeeping, TypeOK, Int3Accounted, Armed
    <2>4. ArmedInTime' /\ RearmInTable'
      BY <1>0, <2>2 DEF BookKeeping, ArmedInTime, RearmInTable, Armed
    <2> QED BY <2>3, <2>4 DEF Bytes
  <1>2. CASE OnBreakpoint(t)
    <2> DEFINE s == raised[t].site
    <2>1. s \in Armed /\ s \in Sites /\ breakpoints[s] = "orig" /\ initialSeen
          /\ pc = "waiting"
      BY <1>2 DEF OnBreakpoint, Reported, BookKeeping, Int3Accounted, Armed
    <2>2. /\ mem' = [mem EXCEPT ![s] = "orig"]
          /\ Consume(t, s)
          /\ pc' = "stopped"
          /\ UNCHANGED <<persistent, initialSeen>>
      BY <1>2, <2>1 DEF OnBreakpoint, Return
    <2>3. CASE s \in persistent
      <3>1. rearm' = [site |-> s, tid |-> t] /\ breakpoints' = breakpoints
        BY <2>2, <2>3 DEF Consume
      <3>2. Int3Accounted'
        BY <1>0, <2>1, <2>2, <3>1 DEF BookKeeping, TypeOK, Int3Accounted, Armed
      <3>3. ArmedInTime' /\ RearmInTable'
        BY <1>0, <2>1, <2>2, <2>3, <3>1 DEF ArmedInTime, RearmInTable, Armed
      <3> QED BY <3>2, <3>3 DEF Bytes
    <2>4. CASE s \notin persistent
      <3>1. rearm' = rearm /\ breakpoints' = [breakpoints EXCEPT ![s] = "none"]
        BY <2>2, <2>4 DEF Consume
      <3>2. Int3Accounted'
        BY <1>0, <2>1, <2>2, <3>1 DEF BookKeeping, TypeOK, Int3Accounted, Armed
      <3>3. ArmedInTime'
        BY <1>0, <2>1, <2>2 DEF ArmedInTime
      <3>4. RearmInTable'
        BY <2>1, <2>2, <2>4, <3>1
           DEF BookKeeping, TypeOK, RearmInTable, Armed, Watching
      <3> QED BY <3>2, <3>3, <3>4 DEF Bytes
    <2> QED BY <2>3, <2>4
  <1>3. CASE ~OnBreakpoint(t) /\ ~(OnSingleStep(t) /\ rearm # NoRearm)
    <2>1. UNCHANGED <<mem, breakpoints, persistent, rearm>>
      BY <1>3 DEF Handle, OnSingleStep, OnInitialBreak, OnUnknownBreakpoint, OnException,
                  OnOther, OnExit, targetVars
    <2>2. initialSeen => initialSeen'
      BY <1>3 DEF Handle, OnSingleStep, OnInitialBreak, OnUnknownBreakpoint, OnException,
                  OnOther, OnExit
    <2>3. pc = "waiting" /\ pc' \in {"waiting", "stopped"}
      BY <1>3 DEF Handle, OnSingleStep, OnInitialBreak, OnUnknownBreakpoint, OnException,
                  OnOther, OnExit, Reported, Return
    <2> QED BY <1>0, <2>1, <2>2, <2>3
            DEF BookKeeping, Bytes, Int3Accounted, ArmedInTime, RearmInTable, Armed, Watching
  <1> QED BY <1>1, <1>2, <1>3

LEMMA HandleHolding ==
    ASSUME BookKeeping, NEW t \in Threads, Handle(t)
    PROVE  Holding'
  <1>0. pc = "waiting" /\ raised[t].kind # "bp" => ~ip[t].past
    BY DEF BookKeeping, PastIsHeld
  <1>a. stop.kind # "exception"
    BY DEF BookKeeping, PendingFits, Handle, OnSingleStep, OnInitialBreak, OnBreakpoint,
           OnUnknownBreakpoint, OnException, OnOther, OnExit, Reported
  <1>1. CASE OnSingleStep(t)
    BY <1>0, <1>a, <1>1, ContinueHolding DEF OnSingleStep, Reported
  <1>2. CASE OnUnknownBreakpoint(t)
    BY <1>a, <1>2, ContinueHolding DEF OnUnknownBreakpoint
  <1>3. CASE OnOther(t)
    BY <1>0, <1>a, <1>3, ContinueHolding DEF OnOther, Reported
  <1>4. CASE OnInitialBreak(t)
    <2>1. ~ip[t].past
      BY <1>4 DEF OnInitialBreak, BookKeeping, PastIsHeld
    <2> QED BY <1>4, <2>1 DEF OnInitialBreak, Return, targetVars, BookKeeping, Holding,
               PastIsHeld, PendingFits, NeverSkewed
  <1>5. CASE OnBreakpoint(t)
    <2> DEFINE s == raised[t].site
    <2>1. /\ ip' = [ip EXCEPT ![t] = At(s)]
          /\ pending' = [tid |-> t, status |-> "continue"]
          /\ stop' = [kind |-> "breakpoint", site |-> s]
          /\ pc' = "stopped"
          /\ UNCHANGED <<raised, damage, initialSeen>>
      BY <1>5 DEF OnBreakpoint, Rewind, Return
    <2>2. ~ip'[t].past
      BY <2>1 DEF At, BookKeeping, TypeOK
    <2>3. PendingFits'
      BY <2>1, <2>2 DEF PendingFits
    <2>4. PastIsHeld'
      BY <2>1, <2>2 DEF PastIsHeld, BookKeeping, TypeOK
    <2> QED BY <2>1, <2>3, <2>4 DEF Holding, NeverSkewed, BookKeeping
  <1>6. CASE OnException(t)
    BY <1>6 DEF OnException, Reported, Return, targetVars, BookKeeping, Holding,
                PastIsHeld, PendingFits, NeverSkewed, NoPending
  <1>7. CASE OnExit(t)
    BY <1>7 DEF OnExit, targetVars, BookKeeping, Holding, PastIsHeld, PendingFits,
                NeverSkewed, NoPending
  <1> QED BY <1>1, <1>2, <1>3, <1>4, <1>5, <1>6, <1>7 DEF Handle

LEMMA LetGoHolding ==
    ASSUME BookKeeping, LetGo, pending' = NoPending, UNCHANGED initialSeen
    PROVE  Holding'
  <1>1. PendingFits'
    BY DEF LetGo, PendingFits, NoPending, NoStop
  <1>2. PastIsHeld'
    BY DEF LetGo, PastIsHeld, Elsewhere, BookKeeping, TypeOK
  <1>3. NeverSkewed'
    <2>1. \A t \in Threads : "skew" \notin Disturbs(raised[t], ip[t], "not_handled")
      BY SkewIff
    <2> QED BY <2>1 DEF LetGo, NeverSkewed, BookKeeping
  <1> QED BY <1>1, <1>2, <1>3 DEF Holding

LEMMA ContinuePendingHolding ==
    ASSUME BookKeeping, ContinuePending, stop' = NoStop, UNCHANGED initialSeen
    PROVE  Holding'
  <1>1. CASE pending = NoPending
    BY <1>1 DEF ContinuePending, BookKeeping, Holding, PastIsHeld, PendingFits,
                NeverSkewed, NoPending, NoStop
  <1>2. CASE pending # NoPending
    <2>1. pending.tid \in Threads /\ Continue(pending.tid, pending.status)
      BY <1>2 DEF ContinuePending, BookKeeping, TypeOK
    <2>2. pending.status = "continue" => ~ip[pending.tid].past
      BY DEF BookKeeping, PendingFits
    <2>3. stop'.kind # "exception"
      BY DEF NoStop
    <2> QED BY <2>1, <2>2, <2>3, ContinueHolding
  <1> QED BY <1>1, <1>2

LEMMA ClientHolding ==
    ASSUME BookKeeping, ClientCall
    PROVE  Holding'
  <1>1. CASE Cont \/ Detach
    BY <1>1, ContinuePendingHolding DEF Cont, Detach
  <1>2. CASE StopDebugging
    <2>1. pending' = NoPending
      BY <1>2 DEF StopDebugging, BookKeeping, PendingFits
    <2> QED BY <1>2, <2>1, LetGoHolding DEF StopDebugging, LetGo
  <1>5. CASE Fails
    BY <1>5, FailsIs, LetGoHolding
  <1>3. CASE MarkHandled
    <2>1. /\ pending' = [pending EXCEPT !.status = "continue"]
          /\ stop.kind = "exception" /\ pending # NoPending
          /\ raised[pending.tid].kind = "fault"
          /\ pc = "stopped"
          /\ UNCHANGED <<ip, raised, damage, initialSeen, pc, stop>>
      BY <1>3 DEF MarkHandled, targetVars, BookKeeping, PendingFits
    <2>2. /\ pending' # NoPending
          /\ pending'.tid = pending.tid
          /\ pending.tid \in Threads
      BY <2>1 DEF BookKeeping, TypeOK, NoPending
    <2>3. ~ip[pending.tid].past
      BY <2>1, <2>2 DEF BookKeeping, PastIsHeld
    <2> QED BY <2>1, <2>2, <2>3 DEF Holding, PastIsHeld, PendingFits, NeverSkewed, BookKeeping
  <1>4. CASE \E s \in Sites : RestoreByte(s) \/ SetBreakpoint(s)
    BY <1>4 DEF RestoreByte, SetBreakpoint, BookKeeping, Holding, PastIsHeld, PendingFits,
                NeverSkewed
  <1> QED BY <1>1, <1>2, <1>3, <1>4, <1>5 DEF ClientCall

LEMMA ClientBytes ==
    ASSUME BookKeeping, ~ArmTwice, ClientCall
    PROVE  Bytes'
  <1>1. CASE Cont \/ Detach \/ StopDebugging \/ MarkHandled
    <2>1. UNCHANGED <<mem, unrestored, breakpoints, persistent, rearm, initialSeen>>
      BY <1>1 DEF Cont, Detach, StopDebugging, MarkHandled, LetGo, targetVars
    <2>2. pc' = "detached" => Armed = {}
      BY <1>1 DEF Cont, Detach, StopDebugging, MarkHandled, AllRestored,
                  BookKeeping, ArmedInTime
    <2>3. Watching' => Watching
      BY <1>1 DEF Cont, Detach, StopDebugging, MarkHandled, DealtWith, Watching
    <2> QED BY <2>1, <2>2, <2>3 DEF BookKeeping, Bytes, Int3Accounted, ArmedInTime,
               RearmInTable, Armed
  <1>2. ASSUME NEW s \in Sites, RestoreByte(s) PROVE Bytes'
    <2>1. /\ pc = "detaching" /\ s \in Armed /\ breakpoints[s] = "orig" /\ initialSeen
          /\ breakpoints' = [breakpoints EXCEPT ![s] = "none"]
          /\ UNCHANGED <<persistent, rearm, initialSeen, pc>>
          /\ \/ mem' = [mem EXCEPT ![s] = "orig"] /\ unrestored' = unrestored
             \/ mem' = mem /\ unrestored' = unrestored \cup {s}
      BY <1>2 DEF RestoreByte, BookKeeping, Int3Accounted, ArmedInTime
    <2>2. Armed' = Armed \ {s}
      BY <2>1 DEF Armed, BookKeeping, TypeOK
    <2>3. Int3Accounted'
      BY <2>1, <2>2 DEF BookKeeping, TypeOK, Int3Accounted
    <2>4. ArmedInTime' /\ RearmInTable'
      BY <2>1 DEF BookKeeping, ArmedInTime, RearmInTable, Watching
    <2> QED BY <2>3, <2>4 DEF Bytes
  <1>4. CASE Fails
    <2>1. /\ pc' = "gone" /\ initialSeen /\ unrestored = {}
          /\ UNCHANGED <<unrestored, breakpoints, persistent, initialSeen>>
      BY <1>4, FailsIs DEF BookKeeping, ArmedInTime
    <2>2. rearm # NoRearm => rearm.site \in Armed
      BY <1>4, FailsIs DEF BookKeeping, RearmInTable
    <2>3. Int3Accounted'
      BY <1>4, <2>1, <2>2, FailsWrites DEF BookKeeping, TypeOK, Int3Accounted, Armed, PutBack
    <2>4. ArmedInTime' /\ RearmInTable'
      BY <1>4, <2>1, FailsWrites DEF BookKeeping, ArmedInTime, RearmInTable, Watching
    <2> QED BY <2>3, <2>4 DEF Bytes
  <1>3. ASSUME NEW s \in Sites, SetBreakpoint(s) PROVE Bytes'
    <2>1. /\ s \notin Armed
          /\ breakpoints' = [breakpoints EXCEPT ![s] = mem[s]]
          /\ mem' = [mem EXCEPT ![s] = "int3"]
          /\ persistent \subseteq persistent'
          /\ initialSeen /\ pc = "stopped"
          /\ UNCHANGED <<rearm, initialSeen, pc>>
      BY <1>3 DEF SetBreakpoint, StoppedAlive
    <2>2. mem[s] = "orig" /\ unrestored = {} /\ unrestored' = {}
      BY <1>3, <2>1 DEF SetBreakpoint, BookKeeping, TypeOK, Int3Accounted, ArmedInTime,
                        Watching
    <2> QED BY <2>1, <2>2 DEF BookKeeping, TypeOK, Bytes, Int3Accounted, ArmedInTime,
               RearmInTable, Armed, Watching
  <1> QED BY <1>1, <1>2, <1>3, <1>4 DEF ClientCall

LEMMA NextBooks == ~ArmTwice /\ BookKeeping /\ EngineStep => BookKeeping'
  <1> SUFFICES ASSUME ~ArmTwice, BookKeeping, EngineStep PROVE BookKeeping'
    OBVIOUS
  <1>1. TypeOK'
    BY NextType DEF BookKeeping
  <1>2. CASE OnCreateProcess \/ Ended \/ UNCHANGED vars
    <2>1. UNCHANGED <<mem, ip, raised, damage, unrestored, breakpoints, persistent, rearm,
                      pending, initialSeen, pc, stop>>
      BY <1>2 DEF OnCreateProcess, Ended, vars, targetVars, engineVars
    <2> QED BY <1>1, <2>1 DEF BookKeeping, Int3Accounted, ArmedInTime, RearmInTable, Armed,
               Watching, PastIsHeld, PendingFits, NeverSkewed
  <1>3. CASE \E t \in Threads : Target(t) \/ Handle(t)
    BY <1>1, <1>3, TargetBytes, TargetHolding, HandleBytes, HandleHolding
       DEF BookKeeping, Bytes, Holding
  <1>4. CASE ClientCall
    BY <1>1, <1>4, ClientBytes, ClientHolding DEF BookKeeping, Bytes, Holding
  <1> QED BY <1>2, <1>3, <1>4 DEF EngineStep

LEMMA BooksAlways ==
    ASSUME ~ArmTwice
    PROVE  Spec => []BookKeeping
  <1>1. BookKeeping /\ [Next]_vars => BookKeeping'
    BY NextBooks, NextIsEngineStep
  <1> QED BY <1>1, InitBooks, PTL DEF Spec

(* Whatever threads hit and step over, every 0xCC in the target has an     *)
(* entry that holds the program's byte (engine.rs:213-220, 248-269), as    *)
(* long as no client arms an armed site.                                   *)
THEOREM Int3AlwaysAccounted ==
    ASSUME ~ArmTwice
    PROVE  Spec => []Int3Accounted
  <1>1. BookKeeping => Int3Accounted
    BY DEF BookKeeping
  <1>2. Spec => []BookKeeping
    BY BooksAlways
  <1> QED BY <1>1, <1>2, PTL

(* So detach leaves none behind but where the write of that very byte      *)
(* failed (engine.rs:319-328), although the target runs while it restores  *)
(* the bytes and whatever went before.                                     *)
THEOREM DetachIsClean ==
    ASSUME ~ArmTwice
    PROVE  Spec => []CleanAfterDetach
  <1>1. BookKeeping => CleanAfterDetach
    BY DEF BookKeeping, TypeOK, Int3Accounted, ArmedInTime, CleanAfterDetach
  <1>2. Spec => []BookKeeping
    BY BooksAlways
  <1> QED BY <1>1, <1>2, PTL

(* No thread resumes inside an instruction (engine.rs:215).                *)
THEOREM ThreadsNeverSkewed ==
    ASSUME ~ArmTwice
    PROVE  Spec => []NeverSkewed
  <1>1. BookKeeping => NeverSkewed
    BY DEF BookKeeping
  <1>2. Spec => []BookKeeping
    BY BooksAlways
  <1> QED BY <1>1, <1>2, PTL

-----------------------------------------------------------------------------
(* One persistent site.                                                    *)

OnePersistent == \A p, q \in PersistentSites : p = q

LEMMA NextArmed ==
    OnePersistent /\ BookKeeping /\ PersistentArmed /\ EngineStep => PersistentArmed'
  <1> SUFFICES ASSUME OnePersistent, BookKeeping, PersistentArmed, EngineStep
               PROVE  PersistentArmed'
    OBVIOUS
  <1>1. CASE OnCreateProcess \/ Ended \/ UNCHANGED vars
    BY <1>1 DEF OnCreateProcess, Ended, vars, targetVars, engineVars, PersistentArmed, Watching
  <1>2. ASSUME NEW t \in Threads, Target(t) PROVE PersistentArmed'
    BY <1>2 DEF Target, LoaderBreak, Reach, HitInt3, Execute, RaiseOther, ExitProcess,
                engineVars, PersistentArmed, Watching
  <1>3. ASSUME NEW t \in Threads, Handle(t) PROVE PersistentArmed'
    <2>1. CASE OnSingleStep(t) /\ rearm # NoRearm
      <3>1. rearm.site \in persistent /\ mem' = [mem EXCEPT ![rearm.site] = "int3"]
            /\ persistent' = persistent
        BY <2>1 DEF OnSingleStep, StepEnds, PutBack, BookKeeping, RearmInTable
      <3>2. \A p \in persistent : p = rearm.site /\ p \in Sites
        BY <3>1, EngineAssumption DEF OnePersistent, BookKeeping, TypeOK
      <3> QED BY <3>1, <3>2 DEF PersistentArmed, BookKeeping, TypeOK
    <2>2. CASE OnBreakpoint(t)
      <3> DEFINE s == raised[t].site
      <3>1. mem' = [mem EXCEPT ![s] = breakpoints[s]] /\ Consume(t, s)
            /\ persistent' = persistent /\ Watching
        BY <2>2 DEF OnBreakpoint, Reported, Watching
      <3>2. CASE s \in persistent
        <4>1. \A p \in persistent : p = s
          BY <3>2 DEF OnePersistent, BookKeeping, TypeOK
        <4> QED BY <3>1, <3>2, <4>1 DEF PersistentArmed, Consume
      <3>3. CASE s \notin persistent
        BY <3>1, <3>3 DEF PersistentArmed, Consume, BookKeeping, TypeOK
      <3> QED BY <3>2, <3>3
    <2>3. CASE ~OnBreakpoint(t) /\ ~(OnSingleStep(t) /\ rearm # NoRearm)
      <3>1. UNCHANGED <<mem, persistent, rearm>> /\ Watching
        BY <1>3, <2>3 DEF Handle, OnSingleStep, OnInitialBreak, OnUnknownBreakpoint,
              OnException, OnOther, OnExit, Reported, Watching, targetVars
      <3> QED BY <3>1 DEF PersistentArmed
    <2> QED BY <2>1, <2>2, <2>3
  <1>4. ASSUME ClientCall, ~\E s \in Sites : SetBreakpoint(s) PROVE PersistentArmed'
    <2>1. Watching' => UNCHANGED <<mem, persistent, rearm>> /\ Watching
      BY <1>4, FailsIs DEF ClientCall, Cont, Detach, StopDebugging, MarkHandled,
                  RestoreByte, Watching, targetVars
    <2> QED BY <2>1 DEF PersistentArmed
  <1>5. ASSUME NEW s \in Sites, SetBreakpoint(s) PROVE PersistentArmed'
    BY <1>5 DEF SetBreakpoint, PersistentArmed, BookKeeping, TypeOK, Watching
  <1> QED BY <1>1, <1>2, <1>3, <1>4, <1>5 DEF EngineStep

(* With one persistent site its breakpoint is never lost, however many     *)
(* threads hit it (engine.rs:52-54, 271): it is in memory or about to be   *)
(* put back.                                                               *)
THEOREM OnePersistentStaysArmed ==
    ASSUME ~ArmTwice, OnePersistent
    PROVE  Spec => []PersistentArmed
  <1>1. Init => PersistentArmed
    BY DEF Init, PersistentArmed
  <1>2. BookKeeping /\ PersistentArmed /\ [Next]_vars => PersistentArmed'
    BY NextArmed, NextIsEngineStep
  <1>3. Spec => []BookKeeping
    BY BooksAlways
  <1> QED BY <1>1, <1>2, <1>3, PTL DEF Spec
-----------------------------------------------------------------------------
(* One thread: the engine keeps one step and one event, and that is enough *)
(* for it.                                                                 *)

OneThread == \A t, u \in Threads : t = u

(* A step in progress is where the last breakpoint was hit: not yet let    *)
(* go, on its way, or reported.                                            *)
Stepping(t) ==
    LET s == rearm.site IN
    /\ rearm.tid = t /\ mem[s] = "orig"
    /\ \/ pc = "stopped" /\ ip[t] = At(s) /\ ~tf[t] /\ pending.tid = t /\ raised[t].kind = "bp"
       \/ pc = "waiting" /\ ip[t] = At(s) /\ tf[t] /\ raised[t] = NoEvent
       \/ /\ pc = "waiting" /\ ip[t] = Elsewhere /\ ~tf[t]
          /\ raised[t] = Event("step", NoSite, "tool")

StepInPhase == Watching => \A t \in Threads :
    IF rearm # NoRearm THEN Stepping(t)
    ELSE ~tf[t] /\ (raised[t].kind = "step" => raised[t].by = "app")

(* A breakpoint event of the debugger's is that of an armed site, where    *)
(* its thread is; at a stop nobody is past an int3.                        *)
HitsKnown == Watching => \A t \in Threads :
    /\ pc = "stopped" => ~ip[t].past
    /\ raised[t].kind = "bp" /\ pc = "waiting" =>
         IF raised[t].by = "tool"
           THEN raised[t].site \in Armed /\ ip[t] = PastInt3(raised[t].site)
           ELSE raised[t].site = NoSite /\ ip[t] = Elsewhere

(* What is armed is in memory or stepped over, and of its kind; what is    *)
(* persistent stays in the table.                                          *)
ArmedKept == Watching =>
    /\ \A s \in Armed : /\ mem[s] = "int3" \/ rearm.site = s
                        /\ s \in persistent <=> s \in PersistentSites
    /\ persistent \subseteq Armed

(* Only the first stop, before any event, has none pending.                *)
NothingWaits ==
    pc = "stopped" /\ stop.kind # "exited" /\ pending = NoPending
        => \A t \in Threads : raised[t] = NoEvent

LoneInv == StepInPhase /\ HitsKnown /\ ArmedKept /\ NothingWaits

LEMMA InitLone == Init => LoneInv
  BY DEF Init, LoneInv, StepInPhase, HitsKnown, ArmedKept, NothingWaits, Armed, NoEvent,
         Elsewhere

(* Where a step is on its way, its thread can do nothing but execute.      *)
LEMMA StepsOnly ==
    ASSUME OneThread, BookKeeping, LoneInv, Watching, NEW t \in Threads, Target(t)
    PROVE  /\ pc = "waiting" /\ raised[t] = NoEvent /\ ~ip[t].past
           /\ rearm # NoRearm => /\ rearm = [site |-> rearm.site, tid |-> t]
                                 /\ rearm.site \in Sites /\ mem[rearm.site] = "orig"
                                 /\ ip[t] = At(rearm.site) /\ tf[t] /\ Execute(t)
           /\ rearm = NoRearm => ~tf[t]
  <1>1. pc = "waiting" /\ raised[t] = NoEvent
    BY DEF Target, LoaderBreak, Reach, HitInt3, Execute, RaiseOther, ExitProcess, Free,
           Running, Watching
  <1>2. ~ip[t].past
    BY <1>1 DEF BookKeeping, PastIsHeld, NoEvent
  <1>3. CASE rearm # NoRearm
    <2>1. Stepping(t)
      BY <1>3 DEF LoneInv, StepInPhase
    <2>2. ip[t] = At(rearm.site) /\ tf[t] /\ mem[rearm.site] = "orig" /\ rearm.tid = t
      BY <1>1, <2>1 DEF Stepping, NoEvent, Event
    <2>3. rearm \in [site : PersistentSites, tid : Threads]
      BY <1>3 DEF BookKeeping, TypeOK
    <2>4. rearm.site \in Sites /\ rearm.site # NoSite /\ rearm = [site |-> rearm.site, tid |-> t]
      BY <2>2, <2>3, EngineAssumption
    <2>5. ip[t] # Elsewhere
      BY <2>2, <2>4 DEF At, Elsewhere
    <2>6. Execute(t)
      BY <2>2, <2>5 DEF Target, LoaderBreak, Reach, HitInt3, RaiseOther, ExitProcess, At
    <2> QED BY <1>1, <1>2, <1>3, <2>2, <2>4, <2>6
  <1>4. CASE rearm = NoRearm
    BY <1>1, <1>2, <1>4 DEF LoneInv, StepInPhase
  <1> QED BY <1>3, <1>4

LEMMA TargetLone ==
    ASSUME OneThread, BookKeeping, LoneInv, NEW t \in Threads, Target(t)
    PROVE  LoneInv'
  <1>1. UNCHANGED <<mem, engineVars, pc, stop>> /\ pc # "stopped"
    BY DEF Target, LoaderBreak, Reach, HitInt3, Execute, RaiseOther, ExitProcess, Free, Running
  <1>2. ArmedKept' /\ NothingWaits'
    BY <1>1 DEF LoneInv, ArmedKept, NothingWaits, Watching, Armed, engineVars
  <1>3. CASE ~Watching
    BY <1>1, <1>2, <1>3 DEF LoneInv, StepInPhase, HitsKnown, Watching
  <1>4. CASE Watching
    <2>0. /\ pc = "waiting" /\ raised[t] = NoEvent /\ ~ip[t].past
          /\ rearm # NoRearm => /\ rearm = [site |-> rearm.site, tid |-> t]
                                /\ rearm.site \in Sites /\ mem[rearm.site] = "orig"
                                /\ ip[t] = At(rearm.site) /\ tf[t] /\ Execute(t)
          /\ rearm = NoRearm => ~tf[t]
      BY <1>4, StepsOnly
    <2>1. pc' = "waiting" /\ rearm' = rearm /\ mem' = mem /\ breakpoints' = breakpoints
          /\ Watching' /\ Armed' = Armed
      BY <1>1, <2>0 DEF engineVars, Watching, Armed
    <2>2. StepInPhase' /\ HitsKnown' <=>
            /\ IF rearm # NoRearm THEN Stepping(t)'
               ELSE ~tf'[t] /\ (raised'[t].kind = "step" => raised'[t].by = "app")
            /\ raised'[t].kind = "bp" =>
                 IF raised'[t].by = "tool"
                   THEN raised'[t].site \in Armed /\ ip'[t] = PastInt3(raised'[t].site)
                   ELSE raised'[t].site = NoSite /\ ip'[t] = Elsewhere
      BY <2>1 DEF StepInPhase, HitsKnown, OneThread
    <2>3. \A e : Raise(t, e) => raised' = [raised EXCEPT ![t] = e]
      BY <1>4 DEF Raise, Debugged, Watching
    <2>a. raised \in [Threads -> Events] /\ ip \in [Threads -> Places] /\ tf \in [Threads -> BOOLEAN]
      BY DEF BookKeeping, TypeOK
    <2>4. CASE LoaderBreak(t)
      <3>1. raised'[t] = Event("bp", NoSite, "system") /\ ip'[t] = Elsewhere /\ tf' = tf
            /\ rearm = NoRearm
        BY <2>0, <2>3, <2>4, <2>a DEF LoaderBreak, Execute, At, Elsewhere
      <3> QED BY <1>2, <2>0, <2>2, <3>1 DEF Event, LoneInv
    <2>5. ASSUME NEW s \in Sites, Reach(t, s) PROVE LoneInv'
      <3>1. raised' = raised /\ tf' = tf /\ rearm = NoRearm
        BY <2>0, <2>5 DEF Reach
      <3> QED BY <1>2, <2>0, <2>2, <3>1 DEF NoEvent, LoneInv
    <2>6. CASE HitInt3(t)
      <3>1. rearm = NoRearm
        BY <2>0, <2>6 DEF HitInt3, At
      <3>2. ip[t].site \in Armed
        BY <1>4, <2>6 DEF HitInt3, BookKeeping, Int3Accounted, ArmedInTime
      <3>3. /\ ip'[t] = PastInt3(ip[t].site) /\ tf' = tf
            /\ raised'[t] = Event("bp", ip[t].site, "tool")
        BY <1>4, <2>3, <2>6, <2>a DEF HitInt3, Debugged, Watching
      <3> QED BY <1>2, <2>0, <2>2, <3>1, <3>2, <3>3 DEF Event, LoneInv
    <2>7. CASE Execute(t)
      <3>1. ip'[t] = Elsewhere /\ tf'[t] = FALSE
        BY <2>7, <2>a DEF Execute
      <3>2. CASE rearm # NoRearm
        <4>1. raised'[t] = Event("step", NoSite, "tool")
          BY <2>0, <2>3, <2>7, <2>a, <3>2 DEF Execute
        <4>2. Stepping(t)'
          BY <2>0, <2>1, <3>1, <3>2, <4>1 DEF Stepping
        <4> QED BY <1>2, <2>2, <3>2, <4>1, <4>2 DEF Event, LoneInv
      <3>3. CASE rearm = NoRearm
        <4>1. raised' = raised
          BY <2>0, <2>7, <3>3 DEF Execute
        <4> QED BY <1>2, <2>0, <2>2, <3>1, <3>3, <4>1 DEF NoEvent, LoneInv
      <3> QED BY <3>2, <3>3
    <2>8. CASE RaiseOther(t)
      <3>1. PICK x \in OwnExceptions : Raise(t, Event(x[1], NoSite, x[2]))
        BY <2>8 DEF RaiseOther
      <3>2. ip[t] = Elsewhere /\ ip' = ip /\ tf' = tf /\ ~tf[t]
        BY <2>8 DEF RaiseOther
      <3>3. rearm = NoRearm
        BY <2>0, <3>2
      <3>4. x \in {<<"bp", "app">>, <<"step", "app">>, <<"fault", "app">>,
                   <<"fault", "tool">>, <<"other", "system">>}
        BY EngineAssumption
      <3>5. raised'[t] = [kind |-> x[1], site |-> NoSite, by |-> x[2]]
        BY <2>3, <2>a, <3>1 DEF Event
      <3>6. /\ x[1] = "step" => x[2] = "app"
            /\ x[1] = "bp" => x[2] = "app"
        BY <3>4
      <3> QED BY <1>2, <2>2, <3>2, <3>3, <3>5, <3>6 DEF LoneInv
    <2>9. CASE ExitProcess(t)
      <3>1. ip' = ip /\ tf' = tf /\ ~tf[t] /\ rearm = NoRearm
        BY <2>0, <2>9 DEF ExitProcess
      <3>2. raised'[t] = Event("exit", NoSite, "app")
        BY <1>4, <2>9, <2>a DEF ExitProcess, Debugged, Watching
      <3> QED BY <1>2, <2>2, <3>1, <3>2 DEF Event, LoneInv
    <2> QED BY <2>4, <2>5, <2>6, <2>7, <2>8, <2>9 DEF Target
  <1> QED BY <1>3, <1>4

LEMMA HandleLone ==
    ASSUME ~ArmTwice, OneThread, BookKeeping, LoneInv, NEW t \in Threads, Handle(t)
    PROVE  LoneInv'
  <1>0. /\ pc = "waiting" /\ Watching
        /\ raised \in [Threads -> Events] /\ ip \in [Threads -> Places]
        /\ tf \in [Threads -> BOOLEAN] /\ mem \in [Sites -> {"orig", "int3"}]
        /\ breakpoints \in [Sites -> {"none", "orig", "int3"}]
        /\ raised[t].kind # "none" /\ NoThread # t /\ \A u \in Threads : u = t
    BY EngineAssumption DEF Handle, OnSingleStep, OnInitialBreak, OnBreakpoint, OnUnknownBreakpoint,
          OnException, OnOther, OnExit, Reported, Watching, BookKeeping, TypeOK, OneThread
  <1>1. rearm # NoRearm =>
          /\ Stepping(t) /\ rearm.site \in Sites /\ rearm.site \in PersistentSites
          /\ ip[t] = Elsewhere /\ ~tf[t] /\ raised[t] = Event("step", NoSite, "tool")
    <2>1. rearm # NoRearm => Stepping(t)
      BY <1>0 DEF LoneInv, StepInPhase
    <2> QED BY <1>0, <2>1, EngineAssumption DEF Stepping, NoEvent, BookKeeping, TypeOK
  <1>2. rearm = NoRearm =>
          /\ ~tf[t] /\ (raised[t].kind = "step" => raised[t].by = "app")
    BY <1>0 DEF LoneInv, StepInPhase
  <1>3. raised[t].kind # "bp" => ~ip[t].past
    BY DEF BookKeeping, PastIsHeld
  <1>4. raised[t].kind = "bp" => rearm = NoRearm
    BY <1>1 DEF Event
  <1>5. \A s \in Armed : mem[s] = "int3" \/ rearm.site = s
    BY <1>0 DEF LoneInv, ArmedKept
  <1>6. CASE OnSingleStep(t) /\ rearm # NoRearm
    <2>1. /\ mem' = [mem EXCEPT ![rearm.site] = "int3"]
          /\ tf' = [tf EXCEPT ![rearm.tid] = FALSE]
          /\ rearm' = NoRearm /\ raised' = [raised EXCEPT ![t] = NoEvent]
          /\ UNCHANGED <<breakpoints, persistent, pc, stop>>
      BY <1>6 DEF OnSingleStep, StepEnds, PutBack, Continue
    <2>2. StepInPhase'
      <3>1. tf'[t] = FALSE /\ raised'[t].kind = "none"
        BY <1>0, <1>1, <1>6, <2>1 DEF NoEvent, Stepping
      <3>2. \A u \in Threads : ~tf'[u] /\ raised'[u].kind # "step"
        BY <1>0, <3>1
      <3> QED BY <2>1, <3>2 DEF StepInPhase
    <2>3. HitsKnown'
      BY <1>0, <2>1 DEF HitsKnown, NoEvent
    <2>4. ArmedKept'
      BY <1>0, <1>1, <1>5, <2>1 DEF LoneInv, ArmedKept, Armed, NoRearm
    <2>5. NothingWaits'
      BY <1>0, <2>1 DEF NothingWaits
    <2> QED BY <2>2, <2>3, <2>4, <2>5 DEF LoneInv
  <1>7. CASE \/ OnSingleStep(t) /\ rearm = NoRearm
             \/ OnUnknownBreakpoint(t) \/ OnOther(t)
    <2>1. /\ raised' = [raised EXCEPT ![t] = NoEvent]
          /\ UNCHANGED <<mem, tf, rearm, breakpoints, persistent, pc, stop>>
          /\ rearm = NoRearm
      BY <1>1, <1>7 DEF OnSingleStep, OnUnknownBreakpoint, OnOther, Continue, Reported, Event
    <2>2. StepInPhase' /\ HitsKnown' /\ NothingWaits'
      BY <1>0, <1>2, <2>1 DEF StepInPhase, HitsKnown, NoEvent, NothingWaits
    <2>3. ArmedKept'
      BY <2>1 DEF LoneInv, ArmedKept, Armed, Watching
    <2> QED BY <2>2, <2>3 DEF LoneInv
  <1>8. CASE OnInitialBreak(t) \/ OnException(t) \/ OnExit(t)
    <2>1. /\ UNCHANGED <<mem, tf, ip, raised, rearm, breakpoints, persistent>>
          /\ pc' = "stopped" /\ rearm = NoRearm
          /\ pending'.tid = t \/ stop'.kind = "exited"
      BY <1>1, <1>8 DEF OnInitialBreak, OnException, OnExit, Return, Reported, Event, targetVars
    <2>2. ~ip[t].past
      BY <1>3, <1>8 DEF OnInitialBreak, OnException, OnExit, Reported, BookKeeping, PastIsHeld
    <2>3. StepInPhase' /\ HitsKnown' /\ NothingWaits'
      BY <1>0, <1>2, <2>1, <2>2 DEF StepInPhase, HitsKnown, NothingWaits, NoPending
    <2>4. ArmedKept'
      BY <1>0, <2>1 DEF LoneInv, ArmedKept, Armed
    <2> QED BY <2>3, <2>4 DEF LoneInv
  <1>9. CASE OnBreakpoint(t)
    <2> DEFINE s == raised[t].site
    <2>1. /\ s \in Armed /\ s \in Sites /\ s # NoSite /\ breakpoints[s] = "orig"
          /\ raised[t].kind = "bp" /\ rearm = NoRearm /\ ~tf[t]
      BY <1>2, <1>4, <1>9, EngineAssumption
         DEF OnBreakpoint, Reported, BookKeeping, Int3Accounted, Armed
    <2>2. /\ mem' = [mem EXCEPT ![s] = "orig"] /\ ip' = [ip EXCEPT ![t] = At(s)]
          /\ Consume(t, s) /\ pc' = "stopped" /\ pending'.tid = t
          /\ UNCHANGED <<tf, raised, persistent>>
      BY <1>9, <2>1 DEF OnBreakpoint, Rewind, Return
    <2>3. HitsKnown' /\ NothingWaits'
      BY <1>0, <2>2 DEF HitsKnown, NothingWaits, At, NoPending
    <2>4. \A p \in Armed : p # s => mem[p] = "int3"
      BY <1>5, <2>1, EngineAssumption DEF NoRearm, Armed
    <2>5. s \in persistent => rearm' = [site |-> s, tid |-> t] /\ breakpoints' = breakpoints
      BY <2>2 DEF Consume
    <2>6. s \notin persistent => rearm' = NoRearm /\ breakpoints' = [breakpoints EXCEPT ![s] = "none"]
      BY <2>1, <2>2 DEF Consume
    <2>7. StepInPhase'
      <3>1. CASE s \in persistent
        <4>1. rearm'.site = s /\ rearm'.tid = t /\ mem'[s] = "orig" /\ ip'[t] = At(s)
          BY <1>0, <2>1, <2>2, <2>5, <3>1
        <4>2. Stepping(t)' /\ rearm' # NoRearm
          BY <2>1, <2>2, <4>1, <1>0 DEF Stepping, NoRearm
        <4> QED BY <1>0, <4>2 DEF StepInPhase
      <3>2. CASE s \notin persistent
        BY <1>0, <2>1, <2>2, <2>6, <3>2 DEF StepInPhase
      <3> QED BY <3>1, <3>2
    <2>8. ArmedKept'
      <3>1. CASE s \in persistent
        BY <1>0, <2>1, <2>2, <2>4, <2>5, <3>1 DEF LoneInv, ArmedKept, Armed
      <3>2. CASE s \notin persistent
        <4>1. Armed' = Armed \ {s}
          BY <1>0, <2>1, <2>6, <3>2 DEF Armed
        <4> QED BY <1>0, <2>1, <2>2, <2>4, <3>2, <4>1 DEF LoneInv, ArmedKept, Armed
      <3> QED BY <3>1, <3>2
    <2> QED BY <2>3, <2>7, <2>8 DEF LoneInv
  <1> QED BY <1>6, <1>7, <1>8, <1>9 DEF Handle

LEMMA ClientLone ==
    ASSUME ~ArmTwice, OneThread, BookKeeping, LoneInv, ClientCall
    PROVE  LoneInv'
  <1>0. /\ raised \in [Threads -> Events] /\ ip \in [Threads -> Places]
        /\ tf \in [Threads -> BOOLEAN] /\ mem \in [Sites -> {"orig", "int3"}]
        /\ breakpoints \in [Sites -> {"none", "orig", "int3"}]
    BY DEF BookKeeping, TypeOK
  <1>1. CASE Cont
    <2>1. /\ pc = "stopped" /\ pc' = "waiting" /\ stop.kind # "exited"
          /\ tf' = TrapFlags /\ ContinuePending
          /\ UNCHANGED <<mem, breakpoints, persistent, rearm>>
      BY <1>1 DEF Cont
    <2>2. ArmedKept' /\ NothingWaits'
      BY <2>1 DEF LoneInv, ArmedKept, NothingWaits, Armed, Watching
    <2>3. SUFFICES ASSUME NEW t \in Threads
                   PROVE  /\ raised'[t].kind = "none"
                          /\ IF rearm # NoRearm THEN Stepping(t)' ELSE ~tf'[t]
      BY <2>1, <2>2, <2>3 DEF LoneInv, StepInPhase, HitsKnown
    <2>4. \A u \in Threads : u = t
      BY DEF OneThread
    <2>5. CASE pending = NoPending
      <3>1. rearm = NoRearm
        <4>1. rearm # NoRearm => pending.tid = t
          BY <2>1 DEF LoneInv, StepInPhase, Stepping, Watching
        <4> QED BY <2>5, <4>1, EngineAssumption DEF NoPending
      <3> QED BY <2>1, <2>5, <3>1 DEF ContinuePending, TrapFlags, LoneInv, StepInPhase, NothingWaits,
                 NoEvent, Watching
    <2>6. CASE pending # NoPending
      <3>1. pending.tid = t
        BY <2>4, <2>6 DEF BookKeeping, TypeOK
      <3>2. raised'[t] = NoEvent /\ ip'[t] = IF ip[t].past THEN Elsewhere ELSE ip[t]
        BY <1>0, <2>1, <2>6, <3>1 DEF ContinuePending, Continue
      <3>3. CASE rearm # NoRearm
        <4>1. Stepping(t) /\ rearm.tid = t /\ ip[t] = At(rearm.site)
          BY <2>1, <3>3 DEF LoneInv, StepInPhase, Stepping, Watching
        <4>2. tf'[t] = TRUE
          BY <1>0, <2>1, <3>3, <4>1 DEF TrapFlags
        <4> QED BY <2>1, <3>2, <3>3, <4>1, <4>2 DEF Stepping, At, NoEvent
      <3>4. CASE rearm = NoRearm
        BY <2>1, <3>2, <3>4 DEF TrapFlags, LoneInv, StepInPhase, NoEvent, Watching
      <3> QED BY <3>3, <3>4
    <2> QED BY <2>5, <2>6
  <1>2. CASE Detach \/ Fails \/ StopDebugging \/ \E s \in Sites : RestoreByte(s)
    <2>1. ~Watching' /\ pc' # "stopped"
      BY <1>2, FailsIs DEF Detach, StopDebugging, RestoreByte, Watching
    <2> QED BY <2>1 DEF LoneInv, StepInPhase, HitsKnown, ArmedKept, NothingWaits
  <1>3. CASE MarkHandled
    <2>1. /\ UNCHANGED <<mem, ip, tf, raised, breakpoints, persistent, rearm, pc, stop>>
          /\ pc = "stopped" /\ pending' = [pending EXCEPT !.status = "continue"]
          /\ pending # NoPending
      BY <1>3 DEF MarkHandled, targetVars, BookKeeping, PendingFits
    <2>2. pending'.tid = pending.tid /\ pending' # NoPending
      BY <2>1 DEF BookKeeping, TypeOK, NoPending
    <2>3. \A t \in Threads : Stepping(t) => Stepping(t)'
      BY <2>1, <2>2 DEF Stepping
    <2> QED BY <2>1, <2>2, <2>3 DEF LoneInv, StepInPhase, HitsKnown, ArmedKept, NothingWaits,
               Armed, Watching
  <1>4. ASSUME NEW s \in Sites, SetBreakpoint(s) PROVE LoneInv'
    <2>1. /\ s \notin Armed /\ pc = "stopped"
          /\ breakpoints' = [breakpoints EXCEPT ![s] = mem[s]]
          /\ mem' = [mem EXCEPT ![s] = "int3"]
          /\ persistent' = IF s \in PersistentSites THEN persistent \cup {s} ELSE persistent
          /\ UNCHANGED <<ip, tf, raised, rearm, pending, pc, stop>>
      BY <1>4 DEF SetBreakpoint, StoppedAlive
    <2>2. Armed' = Armed \cup {s}
      BY <1>0, <2>1 DEF Armed
    <2>3. rearm # NoRearm => rearm.site # s
      BY <2>1 DEF BookKeeping, RearmInTable, Watching
    <2>4. \A t \in Threads : rearm # NoRearm /\ Stepping(t) => Stepping(t)'
      BY <1>0, <2>1, <2>3 DEF Stepping
    <2>5. StepInPhase' /\ HitsKnown' /\ NothingWaits'
      BY <2>1, <2>4 DEF LoneInv, StepInPhase, HitsKnown, NothingWaits, Watching
    <2>6. ArmedKept'
      <3>1. persistent \subseteq PersistentSites /\ Watching
        BY <2>1 DEF BookKeeping, TypeOK, Watching
      <3> QED BY <1>0, <2>1, <2>2, <3>1 DEF LoneInv, ArmedKept, Armed
    <2> QED BY <2>5, <2>6 DEF LoneInv
  <1> QED BY <1>1, <1>2, <1>3, <1>4 DEF ClientCall

LEMMA NextLone ==
    ~ArmTwice /\ OneThread /\ BookKeeping /\ LoneInv /\ EngineStep => LoneInv'
  <1> SUFFICES ASSUME ~ArmTwice, OneThread, BookKeeping, LoneInv, EngineStep PROVE LoneInv'
    OBVIOUS
  <1>1. CASE OnCreateProcess \/ Ended \/ UNCHANGED vars
    <2>1. UNCHANGED <<mem, ip, tf, raised, breakpoints, persistent, rearm, pending, pc, stop>>
      BY <1>1 DEF OnCreateProcess, Ended, vars, targetVars, engineVars
    <2> QED BY <2>1 DEF LoneInv, StepInPhase, Stepping, HitsKnown, ArmedKept, NothingWaits,
               Armed, Watching
  <1> QED BY <1>1, TargetLone, HandleLone, ClientLone DEF EngineStep

LEMMA LoneAlways ==
    ASSUME ~ArmTwice, OneThread
    PROVE  Spec => []LoneInv
  <1>1. BookKeeping /\ LoneInv /\ [Next]_vars => LoneInv'
    BY NextLone, NextIsEngineStep
  <1> QED BY <1>1, InitLone, BooksAlways, PTL DEF Spec

(* With one thread no persistent breakpoint is ever lost, however many     *)
(* sites there are and whatever else the thread raises (engine.rs:52-54,   *)
(* 271).                                                                   *)
THEOREM OneThreadStaysArmed ==
    ASSUME ~ArmTwice, OneThread
    PROVE  Spec => []PersistentArmed
  <1>1. LoneInv => PersistentArmed
    BY DEF LoneInv, ArmedKept, PersistentArmed
  <1> QED BY <1>1, LoneAlways, PTL

-----------------------------------------------------------------------------
(* The watch that the engine provides to its one thread, as the abstract   *)
(* specification sees it.                                                  *)

WatchOf == [s \in Sites |-> IF s \notin Armed \/ ~Watching THEN "off"
                            ELSE IF s \in persistent THEN "always" ELSE "once"]
AtOf == [t \in Threads |-> ip[t].site]
AnnouncedOf == {t \in Threads : Watching /\ rearm = [site |-> ip[t].site, tid |-> t]}

Unseen == UNCHANGED WatchOf /\ UNCHANGED AtOf /\ UNCHANGED AnnouncedOf

ServiceStep == Service!ServiceNext \/ Unseen

LEMMA ServiceIs ==
    [Service!ServiceNext]_(Service!serviceVars) <=> ServiceStep
  BY DEF ServiceStep, Unseen, Service!serviceVars, WatchOf, AtOf, AnnouncedOf

LEMMA TargetServes ==
    ASSUME OneThread, BookKeeping, LoneInv, NEW t \in Threads, Target(t)
    PROVE  ServiceStep
  <1>1. UNCHANGED <<mem, engineVars, pc, stop>> /\ UNCHANGED WatchOf
    BY DEF Target, LoaderBreak, Reach, HitInt3, Execute, RaiseOther, ExitProcess, engineVars,
           WatchOf, Armed, Watching
  <1>2. /\ ip \in [Threads -> Places] /\ rearm' = rearm /\ Watching' = Watching
        /\ rearm # NoRearm => rearm.site \in Sites
    BY <1>1, EngineAssumption DEF BookKeeping, TypeOK, engineVars, Watching
  <1>3. CASE ip'[t].site = ip[t].site /\ ip' \in [Threads -> Places]
    <2>1. \A u \in Threads : ip'[u].site = ip[u].site
      BY <1>3 DEF OneThread
    <2>2. UNCHANGED AtOf /\ UNCHANGED AnnouncedOf
      BY <1>2, <2>1 DEF AtOf, AnnouncedOf
    <2> QED BY <1>1, <2>2 DEF ServiceStep, Unseen
  <1>4. ASSUME NEW s \in Sites, Reach(t, s) PROVE ServiceStep
    <2>1. ip[t].site = NoSite /\ ip' = [ip EXCEPT ![t] = At(s)]
      BY <1>4 DEF Reach, Elsewhere
    <2>2. AtOf' = [AtOf EXCEPT ![t] = s] /\ AtOf[t] = NoSite
      BY <1>2, <2>1 DEF AtOf, At
    <2>3. Watching => rearm = NoRearm
      <3>1. Watching /\ rearm # NoRearm => ip[t] = At(rearm.site) /\ rearm.site \in Sites
        BY StepsOnly
      <3> QED BY <2>1, <3>1, EngineAssumption DEF At
    <2>4. UNCHANGED AnnouncedOf
      BY <1>2, <2>3, EngineAssumption DEF AnnouncedOf, NoRearm
    <2>5. Service!Arrive(t, s)
      BY <1>1, <2>2, <2>4 DEF Service!Arrive, WatchOf, AtOf, AnnouncedOf
    <2> QED BY <2>5 DEF ServiceStep, Service!ServiceNext
  <1>5. ASSUME ip[t].site # NoSite, ip' = [ip EXCEPT ![t] = Elsewhere],
               WatchOf[ip[t].site] = "off" \/ t \in AnnouncedOf
        PROVE  ServiceStep
    <2>1. AtOf' = [AtOf EXCEPT ![t] = NoSite] /\ AtOf[t] = ip[t].site
      BY <1>2, <1>5 DEF AtOf, Elsewhere
    <2>2. AnnouncedOf' = AnnouncedOf \ {t}
      <3>1. AnnouncedOf' = {}
        BY <1>2, <1>5, EngineAssumption DEF AnnouncedOf, Elsewhere, OneThread, NoRearm
      <3> QED BY <3>1 DEF AnnouncedOf, OneThread
    <2>3. Service!Proceed(t)
      BY <1>1, <1>5, <2>1, <2>2 DEF Service!Proceed, WatchOf, AtOf, AnnouncedOf
    <2> QED BY <2>3 DEF ServiceStep, Service!ServiceNext
  <1>6. CASE HitInt3(t)
    <2>1. CASE Debugged
      BY <1>2, <1>3, <1>6, <2>1 DEF HitInt3, PastInt3, Places
    <2>2. CASE ~Debugged
      <3>1. WatchOf[ip[t].site] = "off" /\ ip[t].site # NoSite
        BY <1>6, <2>2, EngineAssumption DEF HitInt3, WatchOf, Debugged, Watching
      <3> QED BY <1>5, <1>6, <2>2, <3>1 DEF HitInt3
    <2> QED BY <2>1, <2>2
  <1>7. CASE Execute(t) /\ ip[t].site # NoSite
    <2>1. ip[t].site \in Sites /\ mem[ip[t].site] = "orig"
      BY <1>7 DEF Execute, Elsewhere
    <2>2. CASE WatchOf[ip[t].site] # "off"
      <3>1. Watching /\ ip[t].site \in Armed
        BY <2>1, <2>2 DEF WatchOf
      <3>2. rearm.site = ip[t].site
        BY <2>1, <3>1 DEF LoneInv, ArmedKept
      <3>3. rearm # NoRearm
        BY <2>1, <3>2, EngineAssumption DEF NoRearm
      <3>4. rearm = [site |-> rearm.site, tid |-> t]
        BY <3>1, <3>3, StepsOnly
      <3>5. t \in AnnouncedOf
        BY <3>1, <3>2, <3>4 DEF AnnouncedOf
      <3> QED BY <1>5, <1>7, <3>5 DEF Execute
    <2> QED BY <1>5, <1>7, <2>2 DEF Execute
  <1>8. CASE Execute(t) /\ ip[t].site = NoSite
    BY <1>2, <1>3, <1>8 DEF Execute, Elsewhere, Places
  <1>9. CASE LoaderBreak(t) \/ RaiseOther(t) \/ ExitProcess(t)
    BY <1>2, <1>3, <1>9 DEF LoaderBreak, RaiseOther, ExitProcess
  <1> QED BY <1>4, <1>6, <1>7, <1>8, <1>9 DEF Target

LEMMA HandleServes ==
    ASSUME ~ArmTwice, OneThread, BookKeeping, LoneInv, NEW t \in Threads, Handle(t)
    PROVE  ServiceStep
  <1>0. /\ pc = "waiting" /\ Watching /\ Watching'
        /\ raised \in [Threads -> Events] /\ ip \in [Threads -> Places]
        /\ breakpoints \in [Sites -> {"none", "orig", "int3"}]
        /\ persistent' = persistent
        /\ raised[t].kind # "none" /\ \A u \in Threads : u = t
    BY DEF Handle, OnSingleStep, OnInitialBreak, OnBreakpoint, OnUnknownBreakpoint,
           OnException, OnOther, OnExit, Reported, Return, Watching, BookKeeping, TypeOK, OneThread
  <1>1. rearm # NoRearm =>
          /\ Stepping(t) /\ rearm.site \in Sites /\ rearm.site # NoSite
          /\ ip[t] = Elsewhere /\ raised[t].kind = "step"
    <2>1. rearm # NoRearm => Stepping(t)
      BY <1>0 DEF LoneInv, StepInPhase
    <2> QED BY <1>0, <2>1, EngineAssumption DEF Stepping, NoEvent, Event, BookKeeping, TypeOK
  <1>2. ~ip[t].past \/ OnBreakpoint(t)
    <2>1. OnUnknownBreakpoint(t) => ~ip[t].past
      BY <1>0 DEF OnUnknownBreakpoint, Reported, LoneInv, HitsKnown, Elsewhere
    <2> QED BY <2>1 DEF Handle, OnSingleStep, OnInitialBreak, OnException, OnOther, OnExit,
               Reported, BookKeeping, PastIsHeld
  <1>3. CASE ~OnBreakpoint(t)
    <2>1. ip' = ip /\ breakpoints' = breakpoints
      BY <1>0, <1>2, <1>3 DEF Handle, OnSingleStep, OnInitialBreak, OnUnknownBreakpoint,
            OnException, OnOther, OnExit, Continue, targetVars
    <2>2. UNCHANGED WatchOf /\ UNCHANGED AtOf
      BY <1>0, <2>1 DEF WatchOf, AtOf, Armed
    <2>3. UNCHANGED AnnouncedOf
      <3>1. CASE rearm' = rearm
        BY <1>0, <2>1, <3>1 DEF AnnouncedOf
      <3>2. CASE OnSingleStep(t) /\ rearm # NoRearm
        BY <1>0, <1>1, <3>2, EngineAssumption DEF OnSingleStep, StepEnds, AnnouncedOf, Elsewhere,
              NoRearm
      <3> QED BY <1>3, <3>1, <3>2 DEF Handle, OnSingleStep, OnInitialBreak, OnUnknownBreakpoint,
            OnException, OnOther, OnExit
    <2> QED BY <2>2, <2>3 DEF ServiceStep, Unseen
  <1>4. CASE OnBreakpoint(t)
    <2> DEFINE s == raised[t].site
    <2>1. /\ s \in Armed /\ s \in Sites /\ s # NoSite /\ raised[t].kind = "bp"
          /\ ip' = [ip EXCEPT ![t] = At(s)] /\ Consume(t, s)
      BY <1>4, EngineAssumption DEF OnBreakpoint, Rewind, Reported, Armed
    <2>2. ip[t] = PastInt3(s)
      BY <1>0, <2>1 DEF LoneInv, HitsKnown
    <2>3. AtOf' = AtOf /\ AtOf[t] = s
      BY <1>0, <2>1, <2>2 DEF AtOf, At, PastInt3
    <2>4. rearm = NoRearm /\ AnnouncedOf = {}
      BY <1>0, <1>1, <2>1, EngineAssumption DEF AnnouncedOf, NoRearm
    <2>5. CASE s \in persistent
      <3>1. rearm' = [site |-> s, tid |-> t] /\ breakpoints' = breakpoints
        BY <2>1, <2>5 DEF Consume
      <3>2. AnnouncedOf' = {t} /\ WatchOf' = WatchOf /\ WatchOf[s] = "always"
        BY <1>0, <2>1, <2>5, <3>1 DEF AnnouncedOf, WatchOf, Armed, At
      <3>3. Service!Announce(t)
        BY <2>1, <2>3, <2>4, <3>2 DEF Service!Announce, WatchOf, AtOf, AnnouncedOf
      <3> QED BY <3>3 DEF ServiceStep, Service!ServiceNext
    <2>6. CASE s \notin persistent
      <3>1. rearm' = NoRearm /\ breakpoints' = [breakpoints EXCEPT ![s] = "none"]
        BY <2>1, <2>4, <2>6 DEF Consume
      <3>2. AnnouncedOf' = {} /\ WatchOf[s] = "once"
        BY <1>0, <2>1, <2>6, <3>1, EngineAssumption DEF AnnouncedOf, WatchOf, NoRearm
      <3>3. WatchOf' = [WatchOf EXCEPT ![s] = "off"]
        BY <1>0, <2>1, <3>1 DEF WatchOf, Armed
      <3>4. Service!Announce(t)
        BY <2>1, <2>3, <2>4, <3>2, <3>3 DEF Service!Announce, WatchOf, AtOf, AnnouncedOf
      <3> QED BY <3>4 DEF ServiceStep, Service!ServiceNext
    <2> QED BY <2>5, <2>6
  <1> QED BY <1>3, <1>4

LEMMA ClientServes ==
    ASSUME ~ArmTwice, OneThread, BookKeeping, LoneInv, ClientCall
    PROVE  ServiceStep
  <1>0. /\ ip \in [Threads -> Places] /\ persistent \subseteq PersistentSites
        /\ breakpoints \in [Sites -> {"none", "orig", "int3"}]
        /\ pc = "stopped" => \A t \in Threads : ~ip[t].past
    BY DEF BookKeeping, TypeOK, LoneInv, HitsKnown, Watching
  <1>1. pc = "stopped" /\ ContinuePending => ip' = ip
    <2>1. CASE pending = NoPending
      BY <2>1 DEF ContinuePending
    <2>2. CASE pending # NoPending
      BY <1>0, <2>2 DEF ContinuePending, Continue, BookKeeping, TypeOK
    <2> QED BY <2>1, <2>2
  <1>2. CASE Cont \/ MarkHandled
    <2>1. UNCHANGED <<ip, breakpoints, persistent, rearm>> /\ Watching /\ Watching'
      BY <1>1, <1>2 DEF Cont, MarkHandled, targetVars, Watching
    <2> QED BY <2>1 DEF ServiceStep, Unseen, WatchOf, AtOf, AnnouncedOf, Armed
  <1>3. CASE Detach \/ Fails
    <2> DEFINE freed == {t \in Threads : ip'[t].site # ip[t].site}
    <2>1. \A t \in Threads : ip'[t].site \in {ip[t].site, NoSite}
      <3>1. CASE Detach
        BY <1>1, <3>1 DEF Detach
      <3>2. CASE Fails
        BY <3>2, FailsIs DEF LetGo, Elsewhere
      <3> QED BY <1>3, <3>1, <3>2
    <2>2. ~Watching'
      BY <1>3, FailsIs DEF Detach, Watching
    <2>3. WatchOf' = [s \in Sites |-> "off"] /\ AnnouncedOf' = {}
      BY <2>2 DEF WatchOf, AnnouncedOf
    <2>4. AtOf' = [t \in Threads |-> IF t \in freed THEN NoSite ELSE AtOf[t]]
      BY <2>1 DEF AtOf
    <2>5. freed \in SUBSET Threads
      OBVIOUS
    <2> HIDE DEF freed
    <2>6. Service!Release
      BY <2>3, <2>4, <2>5 DEF Service!Release, WatchOf, AtOf, AnnouncedOf
    <2> QED BY <2>6 DEF ServiceStep, Service!ServiceNext
  <1>4. ASSUME NEW s \in Sites, RestoreByte(s) PROVE ServiceStep
    <2>1. ~Watching /\ ~Watching' /\ ip' = ip
      BY <1>4 DEF RestoreByte, Watching
    <2> QED BY <2>1 DEF ServiceStep, Unseen, WatchOf, AtOf, AnnouncedOf
  <1>5. CASE StopDebugging
    <2>1. /\ ~Watching /\ ~Watching'
          /\ ip' = [t \in Threads |-> IF ip[t].past THEN Elsewhere ELSE ip[t]]
      BY <1>5 DEF StopDebugging, LetGo, Watching
    <2>2. WatchOf' = WatchOf /\ AnnouncedOf' = {} /\ AnnouncedOf = {}
      BY <2>1 DEF WatchOf, AnnouncedOf
    <2>3. CASE \A t \in Threads : ip'[t].site = ip[t].site
      BY <2>2, <2>3 DEF ServiceStep, Unseen, AtOf
    <2>4. ASSUME NEW t \in Threads, ip'[t].site # ip[t].site PROVE ServiceStep
      <3>1. ip[t].site \in Sites /\ ip[t].site # NoSite /\ ip'[t].site = NoSite
        BY <1>0, <2>1, <2>4, EngineAssumption DEF Elsewhere, Places
      <3>2. AtOf' = [AtOf EXCEPT ![t] = NoSite] /\ AtOf[t] = ip[t].site
        BY <3>1 DEF AtOf, OneThread
      <3>3. WatchOf[ip[t].site] = "off"
        BY <2>1, <3>1 DEF WatchOf
      <3>4. Service!Proceed(t)
        BY <2>2, <3>1, <3>2, <3>3 DEF Service!Proceed, WatchOf, AtOf, AnnouncedOf
      <3> QED BY <3>4 DEF ServiceStep, Service!ServiceNext
    <2> QED BY <2>3, <2>4
  <1>6. ASSUME NEW s \in Sites, SetBreakpoint(s) PROVE ServiceStep
    <2>1. /\ s \notin Armed /\ Watching /\ Watching'
          /\ breakpoints' = [breakpoints EXCEPT ![s] = mem[s]]
          /\ persistent' = IF s \in PersistentSites THEN persistent \cup {s} ELSE persistent
          /\ UNCHANGED <<ip, rearm>> /\ mem \in [Sites -> {"orig", "int3"}]
      BY <1>6 DEF SetBreakpoint, StoppedAlive, Watching, BookKeeping, TypeOK
    <2>2. Armed' = Armed \cup {s}
      BY <1>0, <2>1 DEF Armed
    <2>3. /\ WatchOf[s] = "off" /\ AtOf' = AtOf /\ AnnouncedOf' = AnnouncedOf
          /\ WatchOf' = [WatchOf EXCEPT ![s] = IF s \in PersistentSites THEN "always" ELSE "once"]
      BY <1>0, <2>1, <2>2 DEF WatchOf, AtOf, AnnouncedOf
    <2>4. Service!Watch(s)
      BY <2>3 DEF Service!Watch, WatchOf, AtOf, AnnouncedOf
    <2> QED BY <2>4 DEF ServiceStep, Service!ServiceNext
  <1> QED BY <1>2, <1>3, <1>4, <1>5, <1>6 DEF ClientCall

LEMMA NextServes ==
    ~ArmTwice /\ OneThread /\ BookKeeping /\ LoneInv /\ EngineStep => ServiceStep
  <1> SUFFICES ASSUME ~ArmTwice, OneThread, BookKeeping, LoneInv, EngineStep PROVE ServiceStep
    OBVIOUS
  <1>1. CASE OnCreateProcess \/ Ended \/ UNCHANGED vars
    <2>1. UNCHANGED <<ip, breakpoints, persistent, rearm, pc>>
      BY <1>1 DEF OnCreateProcess, Ended, vars, targetVars, engineVars
    <2> QED BY <2>1 DEF ServiceStep, Unseen, WatchOf, AtOf, AnnouncedOf, Armed, Watching
  <1> QED BY <1>1, TargetServes, HandleServes, ClientServes DEF EngineStep

LEMMA InitServes == Init => Service!ServiceInit
  <1> SUFFICES ASSUME Init PROVE Service!ServiceInit
    OBVIOUS
  <1>1. WatchOf = [s \in Sites |-> "off"]
    BY DEF Init, WatchOf, Armed
  <1>2. AtOf = [t \in Threads |-> NoSite]
    BY DEF Init, AtOf, Elsewhere
  <1>3. AnnouncedOf = {}
    BY EngineAssumption DEF Init, AnnouncedOf, NoRearm
  <1> QED BY <1>1, <1>2, <1>3 DEF Service!ServiceInit, WatchOf, AtOf, AnnouncedOf

(* For a target with one thread the engine provides the watch it promises  *)
(* at every site: no instruction runs there before its arrival has been    *)
(* announced, once, whatever else the thread raises and however its client *)
(* sets breakpoints, continues, detaches or fails (engine.rs:48-60,        *)
(* 205-280).                                                               *)
THEOREM EngineImplementsService ==
    ASSUME ~ArmTwice, OneThread
    PROVE  Spec => ImplementsService
  <1>1. BookKeeping /\ LoneInv /\ [Next]_vars => [Service!ServiceNext]_(Service!serviceVars)
    BY NextServes, NextIsEngineStep, ServiceIs
  <1>2. Spec => []BookKeeping /\ []LoneInv
    BY BooksAlways, LoneAlways, PTL
  <1> QED BY <1>1, <1>2, InitServes, PTL DEF Spec, ImplementsService, Service!ServiceSpec
-----------------------------------------------------------------------------
(* A launched target with one thread: how an event ends follows from where *)
(* it came from.                                                           *)

Launched == \A s \in Starts : s = "launch"

(* Before the loader's break there is nothing but that break; what comes   *)
(* with every module and thread is the system's.                           *)
Provenance(t) ==
    /\ raised[t].kind = "other" => raised[t].by = "system"
    /\ ~initialSeen => raised[t].by = "system" /\ ip[t] = Elsewhere

(* Only an exception can end as not handled, and none of the program's own *)
(* ends as handled.                                                        *)
EndsRightly(t) ==
    pc = "stopped" /\ pending # NoPending =>
        /\ pending.status = "continue" => raised[t].by # "app"
        /\ pending.status = "not_handled" => stop.kind = "exception"

Undisturbed ==
    Watching => damage = {} /\ \A t \in Threads : Provenance(t) /\ EndsRightly(t)

LEMMA InitUndisturbed == Init => Undisturbed
  BY DEF Init, Undisturbed, Provenance, EndsRightly, NoEvent

LEMMA DisturbsNot ==
    ASSUME NEW e, NEW p, NEW st,
           st = "not_handled" => e.by # "tool",
           st = "continue" => ~p.past /\ (e.by = "app" => e.kind = "exit")
    PROVE  Disturbs(e, p, st) = {}
  BY DEF Disturbs

LEMMA TargetUndisturbed ==
    ASSUME Launched, OneThread, BookKeeping, LoneInv, Undisturbed,
           NEW t \in Threads, Target(t)
    PROVE  Undisturbed'
  <1> SUFFICES ASSUME Watching' PROVE Undisturbed'
    BY DEF Undisturbed
  <1>1. /\ UNCHANGED <<engineVars, pc, stop>> /\ pc = "waiting" /\ Watching
        /\ start = "launch" /\ raised \in [Threads -> Events] /\ ip \in [Threads -> Places]
        /\ \A u \in Threads : u = t
    BY DEF Target, LoaderBreak, Reach, HitInt3, Execute, RaiseOther, ExitProcess, Free, Running,
           Watching, Launched, BookKeeping, TypeOK, OneThread
  <1>2. initialSeen' = initialSeen /\ Debugged
    BY <1>1 DEF engineVars, Debugged
  <1>3. \A e : Raise(t, e) => raised' = [raised EXCEPT ![t] = e] /\ damage' = damage
    BY <1>2 DEF Raise
  <1>4. damage' = damage
    BY <1>2, <1>3 DEF Target, LoaderBreak, Reach, HitInt3, Execute, RaiseOther, ExitProcess
  <1>5. EndsRightly(t)'
    BY <1>1 DEF EndsRightly
  <1>6. CASE ~initialSeen
    <2>1. ip[t] = Elsewhere /\ raised[t].by = "system" /\ ~tf[t]
      BY <1>1, <1>6 DEF Undisturbed, Provenance, LoneInv, StepInPhase, BookKeeping, ArmedInTime
    <2>2. LoaderBreak(t)
      BY <1>1, <1>6, <2>1, EngineAssumption
         DEF Target, Reach, HitInt3, Execute, RaiseOther, ExitProcess, Started, Elsewhere
    <2>3. raised'[t] = Event("bp", NoSite, "system") /\ ip' = ip
      BY <1>1, <1>3, <2>2 DEF LoaderBreak
    <2> QED BY <1>1, <1>4, <1>5, <2>1, <2>3 DEF Undisturbed, Provenance, Event
  <1>7. CASE initialSeen
    <2>1. raised'[t].kind = "other" => raised'[t].by = "system"
      <3>1. CASE RaiseOther(t)
        <4>1. PICK x \in OwnExceptions : Raise(t, Event(x[1], NoSite, x[2]))
          BY <3>1 DEF RaiseOther
        <4>2. x \in {<<"bp", "app">>, <<"step", "app">>, <<"fault", "app">>,
                     <<"fault", "tool">>, <<"other", "system">>}
          BY EngineAssumption
        <4>3. x[1] = "other" => x[2] = "system"
          BY <4>2
        <4> QED BY <1>1, <1>3, <4>1, <4>3 DEF Event
      <3>2. CASE ~RaiseOther(t)
        <4>1. raised' = raised \/ \E e : e.kind # "other" /\ raised' = [raised EXCEPT ![t] = e]
          <5>1. CASE LoaderBreak(t)
            BY <1>3, <5>1 DEF LoaderBreak, Event
          <5>2. CASE HitInt3(t)
            BY <1>3, <5>2 DEF HitInt3, Event
          <5>3. CASE Execute(t)
            BY <1>3, <5>3 DEF Execute, Event
          <5>4. CASE ExitProcess(t)
            BY <1>2, <5>4 DEF ExitProcess, Event
          <5>5. CASE \E s \in Sites : Reach(t, s)
            BY <5>5 DEF Reach
          <5> QED BY <3>2, <5>1, <5>2, <5>3, <5>4, <5>5 DEF Target
        <4> QED BY <1>1, <4>1 DEF Undisturbed, Provenance
      <3> QED BY <3>1, <3>2
    <2> QED BY <1>1, <1>2, <1>4, <1>5, <1>7, <2>1 DEF Undisturbed, Provenance
  <1> QED BY <1>6, <1>7

LEMMA HandleUndisturbed ==
    ASSUME OneThread, BookKeeping, LoneInv, Undisturbed, NEW t \in Threads, Handle(t)
    PROVE  Undisturbed'
  <1>0. /\ pc = "waiting" /\ Watching /\ \A u \in Threads : u = t
        /\ raised \in [Threads -> Events] /\ ip \in [Threads -> Places] /\ NoThread # t
    BY EngineAssumption DEF Handle, OnSingleStep, OnInitialBreak, OnBreakpoint,
           OnUnknownBreakpoint, OnException, OnOther, OnExit, Reported, Watching, BookKeeping,
           TypeOK, OneThread
  <1>1. damage = {} /\ Provenance(t)
    BY <1>0 DEF Undisturbed
  <1>2. CASE OnSingleStep(t) \/ OnUnknownBreakpoint(t) \/ OnOther(t)
    <2> DEFINE st == IF OnSingleStep(t) THEN StepStatus
                     ELSE IF OnOther(t) THEN "continue" ELSE "not_handled"
    <2>1. Continue(t, st) /\ initialSeen' = initialSeen /\ pc' = pc
      BY <1>2 DEF OnSingleStep, OnUnknownBreakpoint, OnOther, Reported
    <2>2. Disturbs(raised[t], ip[t], st) = {}
      <3>1. CASE OnSingleStep(t)
        <4>1. raised[t].kind = "step" /\ ~ip[t].past
          BY <3>1 DEF OnSingleStep, Reported, BookKeeping, PastIsHeld
        <4>2. IF rearm # NoRearm THEN raised[t].by = "tool" ELSE raised[t].by = "app"
          BY <1>0, <4>1 DEF LoneInv, StepInPhase, Stepping, NoEvent, Event
        <4> QED BY <3>1, <4>1, <4>2, DisturbsNot DEF StepStatus
      <3>2. CASE OnOther(t)
        <4>1. raised[t].by = "system" /\ ~ip[t].past /\ raised[t].kind = "other"
          BY <1>1, <3>2 DEF OnOther, Reported, Provenance, BookKeeping, PastIsHeld
        <4>2. st = "continue"
          BY <3>2, <4>1 DEF OnSingleStep, Reported
        <4> QED BY <4>1, <4>2, DisturbsNot
      <3>3. CASE OnUnknownBreakpoint(t)
        <4>1. raised[t].by # "tool" /\ raised[t].kind = "bp"
          BY <1>0, <3>3 DEF OnUnknownBreakpoint, Reported, LoneInv, HitsKnown
        <4>2. st = "not_handled"
          BY <4>1 DEF OnSingleStep, OnOther, Reported
        <4> QED BY <4>1, <4>2, DisturbsNot
      <3> QED BY <1>2, <3>1, <3>2, <3>3
    <2>3. damage' = {} /\ raised'[t] = NoEvent /\ (ip[t] = Elsewhere => ip'[t] = Elsewhere)
      BY <1>0, <1>1, <2>1, <2>2 DEF Continue, Elsewhere
    <2> QED BY <1>0, <1>1, <2>1, <2>3 DEF Undisturbed, Provenance, EndsRightly, NoEvent
  <1>3. CASE OnInitialBreak(t)
    <2>1. raised[t].by = "system"
      BY <1>1, <1>3 DEF OnInitialBreak, Provenance
    <2> QED BY <1>0, <1>1, <1>3, <2>1
        DEF OnInitialBreak, Return, targetVars, Undisturbed, Provenance, EndsRightly
  <1>4. CASE OnBreakpoint(t)
    <2>1. raised[t].by = "tool"
      BY <1>0, <1>4, EngineAssumption DEF OnBreakpoint, Reported, LoneInv, HitsKnown, Armed
    <2> QED BY <1>0, <1>1, <1>4, <2>1
        DEF OnBreakpoint, Return, Undisturbed, Provenance, EndsRightly
  <1>5. CASE OnException(t) \/ OnExit(t)
    BY <1>0, <1>1, <1>5
       DEF OnException, OnExit, Return, targetVars, Undisturbed, Provenance, EndsRightly
  <1> QED BY <1>2, <1>3, <1>4, <1>5 DEF Handle

LEMMA ClientUndisturbed ==
    ASSUME OneThread, BookKeeping, LoneInv, Undisturbed,
           Client \/ Fails \/ \E s \in Sites : SetBreakpoint(s)
    PROVE  Undisturbed'
  <1>1. CASE DealtWith /\ Cont
    <2>1. /\ pc = "stopped" /\ Watching /\ ContinuePending /\ pc' = "waiting"
          /\ initialSeen' = initialSeen
          /\ raised \in [Threads -> Events] /\ ip \in [Threads -> Places]
      BY <1>1 DEF Cont, Watching, BookKeeping, TypeOK
    <2>2. damage = {} /\ \A t \in Threads : Provenance(t) /\ EndsRightly(t)
      BY <2>1 DEF Undisturbed
    <2>3. CASE pending = NoPending
      BY <2>1, <2>2, <2>3 DEF ContinuePending, Undisturbed, Provenance, EndsRightly
    <2>4. CASE pending # NoPending
      <3> DEFINE t == pending.tid
      <3>1. t \in Threads /\ pending.status \in {"continue", "not_handled"}
        BY <2>4 DEF BookKeeping, TypeOK
      <3>2. EndsRightly(t) /\ Provenance(t)
        BY <2>2, <3>1
      <3>3. Disturbs(raised[t], ip[t], pending.status) = {}
        <4>1. ~ip[t].past
          BY <2>1, <3>1 DEF LoneInv, HitsKnown
        <4>2. pending.status = "continue" => raised[t].by # "app"
          BY <2>1, <2>4, <3>2 DEF EndsRightly
        <4>3. pending.status = "not_handled" => raised[t].by # "tool"
          BY <1>1, <2>1, <2>4, <3>2 DEF EndsRightly, DealtWith, OwnFault
        <4> QED BY <4>1, <4>2, <4>3, DisturbsNot
      <3>4. damage' = {} /\ \A u \in Threads :
               /\ raised'[u] = NoEvent \/ raised'[u] = raised[u]
               /\ ip[u] = Elsewhere => ip'[u] = Elsewhere
        BY <2>1, <2>2, <2>4, <3>1, <3>3 DEF ContinuePending, Continue, Elsewhere
      <3> QED BY <2>1, <2>2, <3>4 DEF Undisturbed, Provenance, EndsRightly, NoEvent
    <2> QED BY <2>3, <2>4
  <1>2. CASE Detach \/ StopDebugging \/ Fails \/ \E s \in Sites : RestoreByte(s)
    BY <1>2, FailsIs DEF Detach, StopDebugging, RestoreByte, Undisturbed, Watching
  <1>3. CASE OwnFault /\ MarkHandled
    <2>1. /\ pc = "stopped" /\ Watching /\ pending' = [pending EXCEPT !.status = "continue"]
          /\ UNCHANGED <<targetVars, initialSeen, pc, stop>>
          /\ raised[pending.tid].by = "tool" /\ pending # NoPending
      BY <1>3 DEF MarkHandled, OwnFault, Watching, BookKeeping, PendingFits
    <2>2. pending.tid \in Threads /\ pending'.status = "continue"
      BY <2>1 DEF BookKeeping, TypeOK
    <2>3. \A t \in Threads : raised[t].by = "tool"
      BY <2>1, <2>2 DEF OneThread
    <2> QED BY <2>1, <2>2, <2>3 DEF targetVars, Undisturbed, Provenance, EndsRightly
  <1>4. ASSUME NEW s \in Sites, SetBreakpoint(s) PROVE Undisturbed'
    BY <1>4 DEF SetBreakpoint, StoppedAlive, Undisturbed, Provenance, EndsRightly, Watching
  <1> QED BY <1>1, <1>2, <1>3, <1>4 DEF Client, Fails

(* A launched target with one thread meets, until it is detached, exactly  *)
(* its own exceptions: none of the debugger's making, and all of its own   *)
(* (engine.rs:28-38, 224, 264-280), wherever its breakpoints are and       *)
(* however often they are hit.                                             *)
THEOREM LaunchedIsTransparent ==
    ASSUME ~ArmTwice, OneThread, Launched
    PROVE  Spec => []Transparent
  <1>1. ASSUME BookKeeping, LoneInv, Undisturbed, [Next]_vars PROVE Undisturbed'
    <2>1. CASE OnCreateProcess \/ Ended \/ UNCHANGED vars
      <3>1. UNCHANGED <<ip, raised, damage, initialSeen, pending, pc, stop>>
        BY <2>1 DEF OnCreateProcess, Ended, vars, targetVars, engineVars
      <3> QED BY <1>1, <3>1 DEF Undisturbed, Provenance, EndsRightly, Watching
    <2> QED BY <1>1, <2>1, TargetUndisturbed, HandleUndisturbed, ClientUndisturbed
        DEF Next, Fails
  <1>2. Undisturbed => Transparent
    BY DEF Undisturbed, Transparent
  <1>3. Spec => []BookKeeping /\ []LoneInv
    BY BooksAlways, LoneAlways, PTL
  <1> QED BY <1>1, <1>2, <1>3, InitUndisturbed, PTL DEF Spec
=============================================================================
