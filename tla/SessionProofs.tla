--------------------------- MODULE SessionProofs ----------------------------
(***************************************************************************)
(* Theorems about Session, for every set of threads and return sites.      *)
(***************************************************************************)
EXTENDS Session, EngineProofs

-----------------------------------------------------------------------------
(* The state has its type, and every call is where it should be.           *)

Outputs == {"none", "minus_one", "handle", "zero", "one"}
Statuses == {"none", "success", "port_not_set"}

QueryCalls == [fn : {"query", "returning"}, class : DebugClasses \cup {"other"},
               ret : ReturnSites]
SetCalls == [fn : {"set"}, class : {"hide", "other", "invalid"}, ret : {NoSite}]
Returns == [class : DebugClasses, buffer : Callers]

ClientTyped ==
    /\ mode \in Modes
    /\ mode = "hide" => start = "launch"
    /\ toArm \in {<<>>, <<Goal>>, <<SetThread, Goal>>, <<Query, SetThread, Goal>>}
    /\ served \in BOOLEAN /\ dumped \in BOOLEAN
    /\ returns \in [ReturnSites -> Returns \cup {NoReturn}]
    /\ mode # "hide" => \A s \in ReturnSites : returns[s] = NoReturn

CallsTyped ==
    /\ call \in [Threads -> QueryCalls \cup SetCalls \cup {NoCall}]
    /\ out \in [Threads -> Outputs]
    /\ status \in [Threads -> Statuses]
    /\ dying \in SUBSET Threads /\ due \in SUBSET Threads
    /\ detected \in SUBSET Threads /\ hidden \in SUBSET Threads
    /\ missed \in BOOLEAN

(* Only a caller makes a call, and it is where the call takes it.          *)
AtSites ==
    \A t \in Threads :
        /\ call[t] # NoCall => t \in Callers
        /\ ip[t].site = Query => call[t].fn = "query"
        /\ ip[t].site = SetThread => call[t].fn = "set"
        /\ ip[t].site \in ReturnSites => call[t].fn = "returning" /\ call[t].ret = ip[t].site

(* An event with a site is that of a thread there.                         *)
RaisedThere ==
    \A t \in Threads : raised[t].site # NoSite => ip[t].site = raised[t].site

(* A breakpoint stop is that of a thread at its site, and is served once.  *)
AtStop ==
    /\ pc = "stopped" /\ stop.kind = "breakpoint" =>
          /\ stop.site \in Sites /\ pending.tid \in Threads
          /\ ip[pending.tid] = At(stop.site)
    /\ pc = "waiting" => ~served /\ stop.kind = "none"
    /\ stop.kind = "initial" => ~served

PlaceInv == TypeOK /\ ClientTyped /\ CallsTyped /\ AtSites /\ RaisedThere /\ AtStop

LEMMA SiteFacts ==
    /\ Query \in Sites /\ SetThread \in Sites /\ Goal \in Sites /\ ReturnSites \subseteq Sites
    /\ NoSite \notin Sites
    /\ Query \notin ReturnSites /\ SetThread \notin ReturnSites /\ Goal \notin ReturnSites
    /\ Query # SetThread /\ Goal # Query /\ Goal # SetThread
    /\ PersistentSites = {Query, SetThread}
    /\ Sites = {Query, SetThread, Goal} \cup ReturnSites
    /\ Callers \subseteq Threads
  BY SessionAssumption, EngineAssumption

(* The steps, sorted by what they can disturb.                             *)
Quiet(t) ==
    /\ \/ Handle(t) \/ OnCreateProcess
       \/ LoaderBreak(t) \/ HitInt3(t) \/ ExitProcess(t) \/ RaiseOther(t)
    /\ UNCHANGED <<clientVars, callVars>>

(* What the session does: a call of its own, an error included, or an      *)
(* error within a turn of the event loop.                                  *)
Move == SessionClient \/ (TurnFails /\ UNCHANGED <<clientVars, callVars>>)

GoesOn == GoOn /\ Cont

Closes ==
    /\ StopDebugging \/ \E s \in Sites : RestoreByte(s)
    /\ UNCHANGED <<clientVars, callVars>>

Breaks ==
    /\ Fails
    /\ UNCHANGED <<mode, toArm, returns, dumped>> /\ UNCHANGED callVars
    /\ served' \in {served, FALSE}

LEMMA Moves ==
    ASSUME Move
    PROVE  \/ ArmNext \/ OnQueryEntry \/ OnSetThread
           \/ \E s \in ReturnSites : OnQueryReturn(s)
           \/ \E s \in Sites : Serve(s)
           \/ GoesOn \/ Leave \/ Closes \/ Breaks
  <1>1. GoOn => GoesOn \/ Breaks
    BY DEF GoOn, GoesOn, Breaks, Fails
  <1>2. Finish => Closes \/ Breaks
    BY DEF Finish, Closes, Breaks, Fails, clientVars
  <1>3. TurnFails /\ UNCHANGED <<clientVars, callVars>> => Breaks
    BY DEF Breaks, Fails, clientVars
  <1> QED BY <1>1, <1>2, <1>3 DEF Move, SessionClient

LEMMA SessionSteps ==
    ASSUME [SessionNext]_sessionVars
    PROVE  \/ \E t \in Threads : \/ CallQuery(t) \/ CallSetThread(t) \/ ReachGoal(t)
                                 \/ ComeBack(t) \/ Run(t) \/ Quiet(t)
           \/ OnCreateProcess /\ UNCHANGED <<clientVars, callVars>>
           \/ Move
           \/ UNCHANGED sessionVars
  <1>1. ASSUME NEW t \in Threads, SessionTarget(t)
        PROVE  \/ CallQuery(t) \/ CallSetThread(t) \/ ReachGoal(t)
               \/ ComeBack(t) \/ Run(t) \/ Quiet(t)
    BY <1>1 DEF SessionTarget, Quiet
  <1>2. ASSUME NEW t \in Threads, Handle(t), UNCHANGED <<clientVars, callVars>> PROVE Quiet(t)
    BY <1>2 DEF Quiet
  <1>3. Ended /\ UNCHANGED <<clientVars, callVars>> => UNCHANGED sessionVars
    BY DEF Ended, sessionVars
  <1> QED BY <1>1, <1>2, <1>3 DEF SessionNext, Move

(* The session is one of the engine's clients.                             *)
LEMMA ClientIsCall == PlaceInv /\ Move => ClientCall \/ UNCHANGED vars
  <1> SUFFICES ASSUME PlaceInv, Move PROVE ClientCall \/ UNCHANGED vars
    OBVIOUS
  <1>1. CASE ArmNext
    <2>1. Head(toArm) \in Sites
      BY <1>1, SiteFacts DEF ArmNext, PlaceInv, ClientTyped
    <2> QED BY <1>1, <2>1 DEF ArmNext, ClientCall
  <1>2. CASE OnQueryEntry
    <2>1. pending.tid \in Threads /\ ip[pending.tid].site = Query
      BY <1>2 DEF OnQueryEntry, AtBreakpoint, PlaceInv, AtStop, At
    <2>2. call[pending.tid].ret \in Sites
      <3>1. call[pending.tid].fn = "query"
        BY <2>1 DEF PlaceInv, AtSites
      <3>2. call[pending.tid] \in QueryCalls
        BY <2>1, <3>1 DEF PlaceInv, CallsTyped, SetCalls, NoCall
      <3> QED BY <3>2, SiteFacts DEF QueryCalls
    <2> QED BY <1>2, <2>2 DEF OnQueryEntry, ClientCall
  <1>3. CASE OnSetThread \/ (\E s \in ReturnSites : OnQueryReturn(s)) \/ \E s \in Sites : Serve(s)
    BY <1>3 DEF OnSetThread, OnQueryReturn, Serve
  <1>4. CASE GoesOn \/ Leave \/ Closes \/ Breaks
    BY <1>4 DEF GoesOn, Leave, Closes, Breaks, ClientCall
  <1> QED BY <1>1, <1>2, <1>3, <1>4, Moves

LEMMA SessionIsEngineStep == PlaceInv /\ [SessionNext]_sessionVars => EngineStep
  <1> SUFFICES ASSUME PlaceInv, [SessionNext]_sessionVars PROVE EngineStep
    OBVIOUS
  <1>1. ASSUME NEW t \in Threads,
               CallQuery(t) \/ CallSetThread(t) \/ ReachGoal(t) \/ ComeBack(t) \/ Run(t) \/ Quiet(t)
        PROVE  EngineStep
    <2>1. CASE CallQuery(t) \/ CallSetThread(t) \/ ReachGoal(t)
      <3>1. \E s \in Sites : Reach(t, s)
        BY <2>1, SiteFacts DEF CallQuery, CallSetThread, ReachGoal
      <3> QED BY <3>1 DEF EngineStep, Target
    <2>2. CASE ComeBack(t)
      <3>1. call[t] \in QueryCalls
        BY <2>2 DEF ComeBack, PlaceInv, CallsTyped, SetCalls, NoCall
      <3>2. call[t].ret \in Sites
        BY <3>1, SiteFacts DEF QueryCalls
      <3> QED BY <2>2, <3>2 DEF ComeBack, EngineStep, Target
    <2>3. CASE Run(t)
      BY <2>3 DEF Run, EngineStep, Target
    <2>4. CASE Quiet(t)
      BY <2>4 DEF Quiet, EngineStep, Target
    <2> QED BY <1>1, <2>1, <2>2, <2>3, <2>4
  <1>2. OnCreateProcess \/ UNCHANGED sessionVars => EngineStep
    BY DEF EngineStep, sessionVars
  <1> QED BY <1>1, <1>2, SessionSteps, ClientIsCall DEF EngineStep

LEMMA SessionInitPlace == SessionInit => PlaceInv
  <1> SUFFICES ASSUME SessionInit PROVE PlaceInv
    OBVIOUS
  <1>1. TypeOK
    BY InitType DEF SessionInit
  <1>2. ClientTyped
    BY DEF SessionInit, ClientTyped, Plan, Launches
  <1>3. CallsTyped
    BY DEF SessionInit, CallsTyped, Outputs, Statuses
  <1>4. AtSites /\ RaisedThere /\ AtStop
    BY SiteFacts DEF SessionInit, Init, AtSites, RaisedThere, AtStop, Elsewhere, NoEvent, NoStop
  <1> QED BY <1>1, <1>2, <1>3, <1>4 DEF PlaceInv

(* A thread leaves a site when it executes or when its event is continued; *)
(* an event has the site its thread is at.                                 *)
LEMMA EngineMoves ==
    ASSUME TypeOK, NEW t \in Threads,
           \/ Handle(t) \/ OnCreateProcess \/ Execute(t)
           \/ LoaderBreak(t) \/ HitInt3(t) \/ ExitProcess(t) \/ RaiseOther(t),
           NEW u \in Threads, raised[u].site # NoSite => ip[u].site = raised[u].site
    PROVE  /\ ip'[u].site \in {ip[u].site, NoSite}
           /\ raised'[u].site # NoSite => ip'[u].site = raised'[u].site
  <1> USE DEF TypeOK
  <1>1. CASE Execute(t)
    BY <1>1 DEF Execute, Free, Raise, Event, Elsewhere, NoEvent
  <1>2. CASE HitInt3(t)
    BY <1>2 DEF HitInt3, Free, Raise, Event, Elsewhere, PastInt3, NoEvent
  <1>3. CASE LoaderBreak(t) \/ ExitProcess(t) \/ RaiseOther(t) \/ OnCreateProcess
    <2>1. ASSUME NEW e, e.site = NoSite, Raise(t, e)
          PROVE  raised'[u].site \in {raised[u].site, NoSite}
      BY <2>1 DEF Raise
    <2>2. \A k, b : Event(k, NoSite, b).site = NoSite
      BY DEF Event
    <2>3. CASE LoaderBreak(t)
      BY <2>1, <2>2, <2>3 DEF LoaderBreak
    <2>4. CASE RaiseOther(t)
      BY <2>1, <2>2, <2>4 DEF RaiseOther
    <2>5. CASE ExitProcess(t)
      BY <2>5 DEF ExitProcess, Event, NoEvent
    <2>6. CASE OnCreateProcess
      BY <2>6 DEF OnCreateProcess
    <2> QED BY <1>3, <2>3, <2>4, <2>5, <2>6
  <1>4. CASE OnSingleStep(t) \/ OnUnknownBreakpoint(t) \/ OnOther(t)
    <2>1. PICK st : Continue(t, st)
      BY <1>4 DEF OnSingleStep, OnUnknownBreakpoint, OnOther
    <2> QED BY <2>1 DEF Continue, Elsewhere, NoEvent
  <1>5. CASE OnInitialBreak(t) \/ OnException(t) \/ OnExit(t)
    BY <1>5 DEF OnInitialBreak, OnException, OnExit, targetVars
  <1>6. CASE OnBreakpoint(t)
    <2>1. raised[t].site # NoSite
      BY <1>6, SiteFacts DEF OnBreakpoint, Armed
    <2>2. ip' = [ip EXCEPT ![t] = At(raised[t].site)] /\ raised' = raised
      BY <1>6 DEF OnBreakpoint, Rewind
    <2> QED BY <2>1, <2>2 DEF At
  <1> QED BY <1>1, <1>2, <1>3, <1>4, <1>5, <1>6 DEF Handle

LEMMA ClientMoves ==
    ASSUME TypeOK, ClientCall \/ UNCHANGED vars,
           NEW u \in Threads, raised[u].site # NoSite => ip[u].site = raised[u].site
    PROVE  /\ ip'[u].site \in {ip[u].site, NoSite}
           /\ raised'[u].site # NoSite => ip'[u].site = raised'[u].site
  <1> USE DEF TypeOK
  <1>1. CASE Cont \/ Detach
    <2>1. CASE pending = NoPending
      BY <1>1, <2>1 DEF Cont, Detach, ContinuePending
    <2>2. CASE pending # NoPending
      <3>1. Continue(pending.tid, pending.status) /\ pending.tid \in Threads
        BY <1>1, <2>2 DEF Cont, Detach, ContinuePending
      <3> QED BY <3>1 DEF Continue, Elsewhere, NoEvent
    <2> QED BY <2>1, <2>2
  <1>2. CASE StopDebugging \/ Fails
    <2>1. LetGo
      BY <1>2, FailsIs DEF StopDebugging
    <2> QED BY <2>1 DEF LetGo, Elsewhere, NoEvent
  <1>3. CASE MarkHandled \/ (\E s \in Sites : RestoreByte(s) \/ SetBreakpoint(s)) \/ UNCHANGED vars
    <2>1. ip' = ip /\ raised' = raised
      BY <1>3 DEF MarkHandled, RestoreByte, SetBreakpoint, vars, targetVars
    <2> QED BY <2>1
  <1> QED BY <1>1, <1>2, <1>3 DEF ClientCall

(* Calls that stay as they are still fit the sites.                        *)
LEMMA MovesKeepSites ==
    ASSUME PlaceInv, call' = call,
           \A u \in Threads : /\ ip'[u].site \in {ip[u].site, NoSite}
                              /\ raised'[u].site # NoSite => ip'[u].site = raised'[u].site
    PROVE  AtSites' /\ RaisedThere'
  BY SiteFacts DEF PlaceInv, AtSites, RaisedThere

LEMMA QuietPlace ==
    ASSUME PlaceInv, NEW t \in Threads, Quiet(t), TypeOK'
    PROVE  PlaceInv'
  <1>1. UNCHANGED <<mode, toArm, served, returns, dumped>> /\ UNCHANGED callVars /\ start' = start
    BY DEF Quiet, clientVars, Handle, OnSingleStep, OnInitialBreak, OnBreakpoint,
           OnUnknownBreakpoint, OnException, OnOther, OnExit, OnCreateProcess, LoaderBreak,
           HitInt3, ExitProcess, RaiseOther, targetVars
  <1>2. ClientTyped' /\ CallsTyped'
    BY <1>1 DEF PlaceInv, ClientTyped, CallsTyped, callVars
  <1>3. AtSites' /\ RaisedThere'
    <2>1. \A u \in Threads : /\ ip'[u].site \in {ip[u].site, NoSite}
                             /\ raised'[u].site # NoSite => ip'[u].site = raised'[u].site
      BY EngineMoves DEF Quiet, PlaceInv, RaisedThere
    <2>2. call' = call
      BY <1>1 DEF callVars
    <2> QED BY <2>1, <2>2, MovesKeepSites
  <1>4. AtStop'
    <2>1. CASE OnBreakpoint(t)
      <3>1. /\ raised[t].site \in Sites
            /\ pending' = [tid |-> t, status |-> "continue"]
            /\ stop' = [kind |-> "breakpoint", site |-> raised[t].site]
            /\ pc' = "stopped"
            /\ ip' = [ip EXCEPT ![t] = At(raised[t].site)]
        BY <2>1 DEF OnBreakpoint, Armed, Return, Rewind
      <3> QED BY <1>1, <3>1 DEF AtStop, PlaceInv, TypeOK
    <2>2. CASE OnInitialBreak(t) \/ OnException(t) \/ OnExit(t)
      <3>1. pc = "waiting" /\ pc' = "stopped" /\ stop'.kind \in {"initial", "exception", "exited"}
        BY <2>2 DEF OnInitialBreak, OnException, OnExit, Return, Reported
      <3> QED BY <1>1, <3>1 DEF PlaceInv, AtStop
    <2>3. CASE OnSingleStep(t) \/ OnUnknownBreakpoint(t) \/ OnOther(t) \/ OnCreateProcess
      <3>1. pc = "waiting" /\ pc' = pc /\ stop' = stop
        BY <2>3 DEF OnSingleStep, OnUnknownBreakpoint, OnOther, OnCreateProcess, Reported
      <3> QED BY <1>1, <3>1 DEF PlaceInv, AtStop
    <2>4. CASE LoaderBreak(t) \/ HitInt3(t) \/ ExitProcess(t) \/ RaiseOther(t)
      <3>1. pc # "stopped" /\ pc' = pc /\ stop' = stop
        BY <2>4 DEF LoaderBreak, HitInt3, ExitProcess, RaiseOther, Free, Running
      <3> QED BY <1>1, <3>1 DEF PlaceInv, AtStop
    <2> QED BY <2>1, <2>2, <2>3, <2>4 DEF Quiet, Handle
  <1> QED BY <1>2, <1>3, <1>4 DEF PlaceInv

(* A thread that comes to a site, with the call it makes there.            *)
LEMMA ReachPlace ==
    ASSUME PlaceInv, NEW t \in Threads, TypeOK',
           CallQuery(t) \/ CallSetThread(t) \/ ReachGoal(t) \/ ComeBack(t)
    PROVE  PlaceInv'
  <1>1. /\ UNCHANGED <<mode, toArm, served, returns, dumped, out, status, dying, detected, hidden,
                       missed, start, raised, pc, stop, pending>>
        /\ pc # "stopped" /\ raised[t] = NoEvent
    BY DEF CallQuery, CallSetThread, ReachGoal, ComeBack, clientVars, callVars, Reach, Free,
           Running, engineVars
  <1>2. ClientTyped' /\ AtStop'
    BY <1>1 DEF PlaceInv, ClientTyped, AtStop
  <1>3. PICK s \in Sites : /\ ip' = [ip EXCEPT ![t] = At(s)]
                           /\ \/ s = Query /\ CallQuery(t)
                              \/ s = SetThread /\ CallSetThread(t)
                              \/ s = Goal /\ ReachGoal(t)
                              \/ s = call[t].ret /\ s \in ReturnSites /\ ComeBack(t)
    <2>1. ComeBack(t) => call[t].ret \in ReturnSites
      BY DEF ComeBack, PlaceInv, CallsTyped, QueryCalls, SetCalls, NoCall
    <2> QED BY <2>1, SiteFacts DEF CallQuery, CallSetThread, ReachGoal, ComeBack, Reach
  <1>4. /\ CallsTyped'
        /\ \/ call' = call /\ s \notin {Query, SetThread}
           \/ /\ t \in Callers
              /\ \/ s = Query /\ \E c \in QueryCalls : c.fn = "query" /\ call' = [call EXCEPT ![t] = c]
                 \/ s = SetThread /\ \E c \in SetCalls : call' = [call EXCEPT ![t] = c]
    <2>1. CASE s = Query /\ CallQuery(t)
      <3>1. PICK c \in DebugClasses \cup {"other"}, r \in ReturnSites :
               call' = [call EXCEPT ![t] = [fn |-> "query", class |-> c, ret |-> r]]
        BY <2>1 DEF CallQuery
      <3>2. [fn |-> "query", class |-> c, ret |-> r] \in QueryCalls
        BY DEF QueryCalls
      <3>3. t \in Callers /\ due' = due
        BY <2>1 DEF CallQuery
      <3> QED BY <1>1, <2>1, <3>1, <3>2, <3>3 DEF PlaceInv, CallsTyped
    <2>2. CASE s = SetThread /\ CallSetThread(t)
      <3>1. PICK c \in {"hide", "other"} :
               call' = [call EXCEPT ![t] = [fn |-> "set", class |-> c, ret |-> NoSite]]
        BY <2>2 DEF CallSetThread
      <3>2. [fn |-> "set", class |-> c, ret |-> NoSite] \in SetCalls
        BY DEF SetCalls
      <3>3. t \in Callers /\ due' = due
        BY <2>2 DEF CallSetThread
      <3> QED BY <1>1, <2>2, <3>1, <3>2, <3>3 DEF PlaceInv, CallsTyped
    <2>3. CASE s = Goal /\ ReachGoal(t)
      <3>1. call' = call /\ due' \in SUBSET Threads
        BY <2>3 DEF ReachGoal, PlaceInv, CallsTyped
      <3> QED BY <1>1, <2>3, <3>1, SiteFacts DEF PlaceInv, CallsTyped
    <2>4. CASE s = call[t].ret /\ s \in ReturnSites /\ ComeBack(t)
      <3>1. call' = call /\ due' = due
        BY <2>4 DEF ComeBack, callVars
      <3> QED BY <1>1, <2>4, <3>1, SiteFacts DEF PlaceInv, CallsTyped
    <2> QED BY <1>3, <2>1, <2>2, <2>3, <2>4
  <1>5. AtSites'
    <2> SUFFICES ASSUME NEW u \in Threads
                 PROVE  /\ call'[u] # NoCall => u \in Callers
                        /\ ip'[u].site = Query => call'[u].fn = "query"
                        /\ ip'[u].site = SetThread => call'[u].fn = "set"
                        /\ ip'[u].site \in ReturnSites =>
                              call'[u].fn = "returning" /\ call'[u].ret = ip'[u].site
      BY DEF AtSites
    <2>1. CASE u # t
      <3>1. call'[u] = call[u] /\ ip'[u] = ip[u]
        BY <1>3, <1>4, <2>1 DEF PlaceInv, TypeOK, CallsTyped
      <3> QED BY <3>1 DEF PlaceInv, AtSites
    <2>2. CASE u = t
      <3>1. ip'[t].site = s
        BY <1>3 DEF PlaceInv, TypeOK, At
      <3>2. s \in ReturnSites => call[t].fn = "returning" /\ call[t].ret = s /\ call' = call
        BY <1>3, SiteFacts DEF ComeBack, callVars
      <3>3. s = Query => call'[t].fn = "query"
        BY <1>4, SiteFacts DEF PlaceInv, CallsTyped
      <3>4. s = SetThread => call'[t].fn = "set"
        BY <1>4, SiteFacts DEF PlaceInv, CallsTyped, SetCalls
      <3>5. call'[t] # NoCall => t \in Callers
        BY <1>4 DEF PlaceInv, AtSites
      <3> QED BY <2>2, <3>1, <3>2, <3>3, <3>4, <3>5
    <2> QED BY <2>1, <2>2
  <1>6. RaisedThere'
    BY <1>1, <1>3 DEF PlaceInv, RaisedThere, TypeOK, NoEvent
  <1> QED BY <1>2, <1>4, <1>5, <1>6 DEF PlaceInv

(* The instruction at a site, with what it does to the call.               *)
LEMMA RunPlace ==
    ASSUME PlaceInv, NEW t \in Threads, TypeOK', Run(t)
    PROVE  PlaceInv'
  <1>1. /\ UNCHANGED <<mode, toArm, served, returns, dumped, start, pc, stop, pending>>
        /\ pc # "stopped" /\ Execute(t) /\ ip' = [ip EXCEPT ![t] = Elsewhere]
    BY DEF Run, Execute, Free, Running, clientVars, engineVars
  <1>2. ClientTyped' /\ AtStop'
    BY <1>1 DEF PlaceInv, ClientTyped, AtStop
  <1>3. ASSUME ip[t].site = Query PROVE CallsTyped'
    <2>1. call[t] \in QueryCalls
      BY <1>3 DEF PlaceInv, AtSites, CallsTyped, SetCalls, NoCall
    <2>2. [call[t] EXCEPT !.fn = "returning"] \in QueryCalls
      BY <2>1 DEF QueryCalls
    <2> DEFINE o == IF call[t].class \in DebugClasses THEN Truth(call[t].class) ELSE out[t]
    <2>3. o \in Outputs
      BY DEF PlaceInv, CallsTyped, Outputs, Truth, DebugClasses
    <2>4. /\ call' = [call EXCEPT ![t] = [call[t] EXCEPT !.fn = "returning"]]
          /\ status' = [status EXCEPT ![t] = "success"]
          /\ out' = [out EXCEPT ![t] = o]
          /\ UNCHANGED <<dying, due, detected, hidden, missed>>
      BY <1>3, SiteFacts DEF Run
    <2> HIDE DEF o
    <2>5. call' \in [Threads -> QueryCalls \cup SetCalls \cup {NoCall}]
      BY <2>2, <2>4 DEF PlaceInv, CallsTyped
    <2>6. out' \in [Threads -> Outputs] /\ status' \in [Threads -> Statuses]
      BY <2>3, <2>4 DEF PlaceInv, CallsTyped, Statuses
    <2> QED BY <2>4, <2>5, <2>6 DEF PlaceInv, CallsTyped
  <1>4. ASSUME ip[t].site # Query PROVE CallsTyped'
    <2>1. /\ call' = call \/ call' = [call EXCEPT ![t] = NoCall]
          /\ out' = out \/ out' = [out EXCEPT ![t] = "none"]
          /\ status' = status \/ status' = [status EXCEPT ![t] = "none"]
          /\ dying' \in {dying, dying \cup {t}} /\ due' = due
          /\ detected' \in {detected, detected \cup {t}}
          /\ hidden' \in {hidden, hidden \cup {t}}
      BY <1>4, Zenon DEF Run, callVars
    <2>2. missed' \in BOOLEAN
      <3>1. missed' = missed \/ missed' = (missed \/ (t \in due /\ ~dumped /\ Debugged))
        BY <1>4, Zenon DEF Run, callVars
      <3> QED BY <3>1 DEF PlaceInv, CallsTyped
    <2>3. call' \in [Threads -> QueryCalls \cup SetCalls \cup {NoCall}]
      BY <2>1 DEF PlaceInv, CallsTyped
    <2>4. out' \in [Threads -> Outputs] /\ status' \in [Threads -> Statuses]
      BY <2>1 DEF PlaceInv, CallsTyped, Outputs, Statuses
    <2>5. /\ dying' \in SUBSET Threads /\ due' \in SUBSET Threads
          /\ detected' \in SUBSET Threads /\ hidden' \in SUBSET Threads
      BY <2>1 DEF PlaceInv, CallsTyped
    <2> QED BY <2>2, <2>3, <2>4, <2>5 DEF CallsTyped
  <1>5. CallsTyped'
    BY <1>3, <1>4
  <1>6. \A u \in Threads : /\ ip'[u].site \in {ip[u].site, NoSite}
                           /\ raised'[u].site # NoSite => ip'[u].site = raised'[u].site
    BY <1>1, EngineMoves DEF PlaceInv, RaisedThere
  <1>7. AtSites' /\ RaisedThere'
    <2>1. \A u \in Threads : u # t => call'[u] = call[u]
      <3>1. \/ call' = call \/ call' = [call EXCEPT ![t] = NoCall]
            \/ call' = [call EXCEPT ![t].fn = "returning"]
        BY Zenon DEF Run, callVars
      <3> QED BY <3>1 DEF PlaceInv, CallsTyped
    <2>2. ip'[t].site = NoSite
      BY <1>1 DEF PlaceInv, TypeOK, Elsewhere
    <2>3. call'[t] # NoCall => call[t] # NoCall
      <3>1. \/ call' = call \/ call' = [call EXCEPT ![t] = NoCall]
            \/ ip[t].site = Query
        BY Zenon DEF Run, callVars
      <3>2. ip[t].site = Query => call[t] # NoCall
        BY DEF PlaceInv, AtSites, NoCall
      <3> QED BY <3>1, <3>2 DEF PlaceInv, CallsTyped
    <2> QED BY <1>6, <2>1, <2>2, <2>3, SiteFacts DEF PlaceInv, AtSites, RaisedThere
  <1> QED BY <1>2, <1>5, <1>7 DEF PlaceInv

-----------------------------------------------------------------------------
(* What the session does at a stop.                                        *)

(* The thread at a breakpoint stop, and the call it is in.                 *)
LEMMA StopFacts ==
    ASSUME PlaceInv, NEW s, AtBreakpoint(s)
    PROVE  /\ s \in Sites /\ pending.tid \in Threads /\ ip[pending.tid] = At(s)
           /\ ip[pending.tid].site = s /\ pc = "stopped" /\ ~served /\ stop.site = s
           /\ stop = [kind |-> "breakpoint", site |-> s]
           /\ s = Query => /\ call[pending.tid] \in QueryCalls /\ call[pending.tid].fn = "query"
                           /\ pending.tid \in Callers
           /\ s = SetThread => call[pending.tid] \in SetCalls /\ pending.tid \in Callers
           /\ s \in ReturnSites => /\ call[pending.tid] \in QueryCalls /\ pending.tid \in Callers
                                   /\ call[pending.tid].fn = "returning"
                                   /\ call[pending.tid].ret = s
  <1> DEFINE t == pending.tid
  <1>1. /\ s \in Sites /\ t \in Threads /\ ip[t] = At(s)
        /\ pc = "stopped" /\ ~served /\ stop = [kind |-> "breakpoint", site |-> s]
    BY DEF AtBreakpoint, PlaceInv, AtStop
  <1>2. ip[t].site = s
    BY <1>1 DEF At
  <1> HIDE DEF t
  <1>3. /\ s = Query => call[t].fn = "query"
        /\ s = SetThread => call[t].fn = "set"
        /\ s \in ReturnSites => call[t].fn = "returning" /\ call[t].ret = s
    BY <1>1, <1>2 DEF PlaceInv, AtSites
  <1>4. call[t] \in QueryCalls \cup SetCalls \cup {NoCall}
    BY <1>1 DEF PlaceInv, CallsTyped
  <1>5. call[t] # NoCall => t \in Callers
    BY <1>1 DEF PlaceInv, AtSites
  <1>6. /\ call[t].fn = "set" => call[t] \in SetCalls /\ call[t] # NoCall
        /\ call[t].fn \in {"query", "returning"} => call[t] \in QueryCalls /\ call[t] # NoCall
    BY <1>4 DEF QueryCalls, SetCalls, NoCall
  <1> QED BY <1>1, <1>2, <1>3, <1>5, <1>6 DEF t

LEMMA ServicePlace ==
    ASSUME PlaceInv, TypeOK', UNCHANGED <<ip, raised>>,
           OnQueryEntry \/ OnSetThread \/ (\E s \in ReturnSites : OnQueryReturn(s))
               \/ \E s \in Sites : Serve(s)
    PROVE  PlaceInv'
  <1>1. PICK s : AtBreakpoint(s)
    BY DEF OnQueryEntry, OnSetThread, OnQueryReturn, Serve
  <1>2. /\ UNCHANGED <<mode, toArm, start, pc, stop, pending, ip, raised>>
        /\ served' = TRUE /\ pc = "stopped" /\ stop.kind = "breakpoint"
    <2>1. vars' = vars \/ (\E r : SetBreakpoint(r))
      BY DEF OnQueryEntry, OnSetThread, OnQueryReturn, Serve
    <2>2. UNCHANGED <<start, pc, stop, pending>>
      BY <2>1 DEF SetBreakpoint, vars, targetVars, engineVars
    <2> QED BY <2>2 DEF OnQueryEntry, OnSetThread, OnQueryReturn, Serve, AtBreakpoint
  <1>3. AtStop'
    BY <1>2 DEF PlaceInv, AtStop
  <1>4. \A u \in Threads : /\ ip'[u].site \in {ip[u].site, NoSite}
                           /\ raised'[u].site # NoSite => ip'[u].site = raised'[u].site
    BY <1>2 DEF PlaceInv, RaisedThere
  <1>5. CASE OnQueryEntry
    <2>1. pending.tid \in Callers /\ call[pending.tid] \in QueryCalls
      BY <1>5, StopFacts DEF OnQueryEntry
    <2>2. /\ UNCHANGED callVars /\ dumped' = dumped /\ mode = "hide"
          /\ \/ returns' = returns
             \/ /\ call[pending.tid].class \in DebugClasses
                /\ returns' = [returns EXCEPT ![call[pending.tid].ret] =
                                 [class |-> call[pending.tid].class, buffer |-> pending.tid]]
      BY <1>5 DEF OnQueryEntry, Intercepted
    <2>3. returns' \in [ReturnSites -> Returns \cup {NoReturn}]
      BY <2>1, <2>2 DEF PlaceInv, ClientTyped, Returns
    <2>4. ClientTyped' /\ CallsTyped'
      BY <1>2, <2>2, <2>3 DEF PlaceInv, ClientTyped, CallsTyped, callVars
    <2>5. AtSites' /\ RaisedThere'
      BY <1>4, <2>2, MovesKeepSites DEF callVars
    <2> QED BY <1>3, <2>4, <2>5 DEF PlaceInv
  <1>6. CASE OnSetThread
    <2> DEFINE t == pending.tid
               new == [call[t] EXCEPT !.class = SwallowHide(call[t].class)]
    <2>1. t \in Threads /\ t \in Callers /\ call[t] \in SetCalls /\ ip[t].site = SetThread
      BY <1>6, StopFacts DEF OnSetThread
    <2>2. new \in SetCalls
      BY <2>1 DEF SetCalls, SwallowHide
    <2>3. /\ call' = [call EXCEPT ![t] = new]
          /\ UNCHANGED <<returns, dumped, out, status, dying, due, detected, hidden, missed>>
      BY <1>6 DEF OnSetThread
    <2> HIDE DEF new, t
    <2>4. ClientTyped' /\ CallsTyped'
      BY <1>2, <2>1, <2>2, <2>3 DEF PlaceInv, ClientTyped, CallsTyped
    <2>5. AtSites' /\ RaisedThere'
      <3> SUFFICES ASSUME NEW u \in Threads
                   PROVE  /\ call'[u] # NoCall => u \in Callers
                          /\ ip'[u].site = Query => call'[u].fn = "query"
                          /\ ip'[u].site = SetThread => call'[u].fn = "set"
                          /\ ip'[u].site \in ReturnSites =>
                                call'[u].fn = "returning" /\ call'[u].ret = ip'[u].site
        BY <1>4 DEF AtSites, RaisedThere
      <3>1. u # t => call'[u] = call[u]
        BY <2>3 DEF PlaceInv, CallsTyped
      <3>2. call'[t] \in SetCalls
        BY <2>1, <2>2, <2>3 DEF PlaceInv, CallsTyped
      <3> QED BY <1>2, <2>1, <3>1, <3>2, SiteFacts DEF PlaceInv, AtSites, SetCalls
    <2> QED BY <1>3, <2>4, <2>5 DEF PlaceInv
  <1>7. ASSUME NEW r \in ReturnSites, OnQueryReturn(r) PROVE PlaceInv'
    <2> DEFINE t == pending.tid
               new == Rewritten(returns[r].class)
    <2>1. t \in Threads
      BY <1>7, StopFacts DEF OnQueryReturn
    <2>2. returns[r] \in Returns
      BY <1>7 DEF OnQueryReturn, PlaceInv, ClientTyped
    <2>3. new.value \in Outputs /\ new.status \in Statuses \cup {"kept"}
      BY <2>2 DEF Returns, DebugClasses, Rewritten, Outputs, Statuses
    <2>4. returns[r].buffer \in Threads
      BY <2>2, SiteFacts DEF Returns
    <2>5. /\ out' = [out EXCEPT ![returns[r].buffer] = new.value]
          /\ status' = [status EXCEPT ![t] = IF new.status = "kept" THEN @ ELSE new.status]
          /\ returns' = [returns EXCEPT ![r] = NoReturn]
          /\ UNCHANGED <<dumped, call, dying, due, detected, hidden, missed>>
          /\ mode = "hide"
      BY <1>7 DEF OnQueryReturn, Take
    <2> HIDE DEF new, t
    <2>6. CallsTyped'
      BY <2>1, <2>3, <2>4, <2>5 DEF PlaceInv, CallsTyped
    <2>7. ClientTyped'
      BY <1>2, <2>5 DEF PlaceInv, ClientTyped
    <2> QED BY <1>3, <1>4, <2>5, <2>6, <2>7, MovesKeepSites DEF PlaceInv
  <1>8. ASSUME NEW r \in Sites, Serve(r) PROVE PlaceInv'
    <2>1. dumped' \in BOOLEAN /\ UNCHANGED callVars /\ returns' = returns
      BY <1>8 DEF Serve
    <2>2. ClientTyped' /\ CallsTyped' /\ call' = call
      BY <1>2, <2>1 DEF PlaceInv, ClientTyped, CallsTyped, callVars
    <2> QED BY <1>3, <1>4, <2>2, MovesKeepSites DEF PlaceInv
  <1> QED BY <1>5, <1>6, <1>7, <1>8

LEMMA PlanTail ==
    /\ Tail(<<Goal>>) = <<>> /\ Head(<<Goal>>) = Goal
    /\ Tail(<<SetThread, Goal>>) = <<Goal>> /\ Head(<<SetThread, Goal>>) = SetThread
    /\ Tail(<<Query, SetThread, Goal>>) = <<SetThread, Goal>>
    /\ Head(<<Query, SetThread, Goal>>) = Query
  <1>1. Tail(<<Goal>>) = <<>>
    OBVIOUS
  <1>2. Tail(<<SetThread, Goal>>) = <<Goal>>
    OBVIOUS
  <1>3. Tail(<<Query, SetThread, Goal>>) = <<SetThread, Goal>>
    OBVIOUS
  <1> QED BY <1>1, <1>2, <1>3

LEMMA ClientPlace ==
    ASSUME PlaceInv, Move, TypeOK'
    PROVE  PlaceInv'
  <1>1. \A u \in Threads : /\ ip'[u].site \in {ip[u].site, NoSite}
                           /\ raised'[u].site # NoSite => ip'[u].site = raised'[u].site
    BY ClientIsCall, ClientMoves DEF PlaceInv, RaisedThere
  <1>2. CASE OnQueryEntry \/ OnSetThread \/ (\E s \in ReturnSites : OnQueryReturn(s))
             \/ \E s \in Sites : Serve(s)
    <2>1. vars' = vars \/ (\E r : SetBreakpoint(r))
      BY <1>2 DEF OnQueryEntry, OnSetThread, OnQueryReturn, Serve
    <2>2. UNCHANGED <<ip, raised>>
      BY <2>1 DEF SetBreakpoint, vars, targetVars
    <2> QED BY <1>2, <2>2, ServicePlace
  <1>3. CASE ArmNext
    <2>1. /\ UNCHANGED <<mode, served, returns, dumped, start, pc, stop, pending, ip>>
          /\ UNCHANGED callVars
          /\ toArm' = Tail(toArm) /\ toArm # <<>>
          /\ stop.kind = "initial"
      BY <1>3 DEF ArmNext, SetBreakpoint
    <2>2. toArm' \in {<<>>, <<Goal>>, <<SetThread, Goal>>}
      BY <2>1, PlanTail DEF PlaceInv, ClientTyped
    <2>3. ClientTyped' /\ CallsTyped' /\ AtStop' /\ call' = call
      BY <2>1, <2>2 DEF PlaceInv, ClientTyped, CallsTyped, AtStop, callVars
    <2> QED BY <1>1, <2>3, MovesKeepSites DEF PlaceInv
  <1>4. CASE GoesOn \/ Leave \/ Closes \/ Breaks
    <2>1. /\ UNCHANGED <<mode, toArm, returns, dumped, start>> /\ UNCHANGED callVars
          /\ served' \in {served, FALSE}
          /\ \/ pc' = "waiting" /\ ~served' /\ stop' = NoStop
             \/ pc' \notin {"waiting", "stopped"} /\ (stop' = NoStop \/ (stop' = stop /\ served' = served))
      <3>1. CASE Breaks
        BY <3>1, FailsIs DEF Breaks
      <3>2. CASE GoesOn \/ Leave \/ Closes
        BY <3>2 DEF GoesOn, GoOn, Leave, Closes, Cont, Detach, StopDebugging, LetGo,
                    RestoreByte, clientVars
      <3> QED BY <1>4, <3>1, <3>2
    <2>2. ClientTyped' /\ CallsTyped' /\ call' = call
      BY <2>1 DEF PlaceInv, ClientTyped, CallsTyped, callVars
    <2>3. AtStop'
      BY <2>1 DEF PlaceInv, AtStop, NoStop
    <2> QED BY <1>1, <2>2, <2>3, MovesKeepSites DEF PlaceInv
  <1> QED BY <1>2, <1>3, <1>4, Moves

LEMMA NextPlace == PlaceInv /\ [SessionNext]_sessionVars => PlaceInv'
  <1> SUFFICES ASSUME PlaceInv, [SessionNext]_sessionVars PROVE PlaceInv'
    OBVIOUS
  <1>1. TypeOK'
    BY SessionIsEngineStep, NextType DEF PlaceInv
  <1>2. ASSUME OnCreateProcess \/ UNCHANGED vars, UNCHANGED <<clientVars, callVars>>
        PROVE  PlaceInv'
    <2>1. UNCHANGED <<mode, toArm, served, returns, dumped, call, out, status, dying, due,
                      detected, hidden, missed, start, pc, stop, pending, ip, raised>>
      BY <1>2 DEF clientVars, callVars, OnCreateProcess, vars, targetVars, engineVars
    <2> QED BY <1>1, <2>1 DEF PlaceInv, ClientTyped, CallsTyped, AtSites, RaisedThere, AtStop
  <1> QED BY <1>1, <1>2, SessionSteps, QuietPlace, ReachPlace, RunPlace, ClientPlace
          DEF sessionVars

LEMMA PlaceAlways == SessionSpec => []PlaceInv
  BY SessionInitPlace, NextPlace, PTL DEF SessionSpec

(***************************************************************************)
(* The session's tables and the target's calls have their types, whichever *)
(* threads call, at whatever sites they return (lib.rs:365-371,            *)
(* intercept.rs:24-29).                                                    *)
(***************************************************************************)
THEOREM SessionTyped == SessionSpec => []SessionTypeOK
  <1>1. ASSUME PlaceInv PROVE SessionTypeOK
    <2>1. TypeOK /\ ClientTyped /\ CallsTyped
      BY <1>1 DEF PlaceInv
    <2>2. ASSUME NEW s \in ReturnSites
          PROVE  \/ returns[s] = NoReturn
                 \/ returns[s].class \in DebugClasses /\ returns[s].buffer \in Callers
      BY <2>1 DEF ClientTyped, Returns
    <2>3. ASSUME NEW t \in Threads
          PROVE  /\ call[t].fn \in {"none", "query", "set", "returning"}
                 /\ out[t] \in {"none", "minus_one", "handle", "zero", "one"}
                 /\ status[t] \in {"none", "success", "port_not_set"}
      <3>1. call[t] \in QueryCalls \cup SetCalls \cup {NoCall}
        BY <2>1 DEF CallsTyped
      <3> QED BY <2>1, <3>1 DEF CallsTyped, QueryCalls, SetCalls, NoCall, Outputs, Statuses
    <2> QED BY <2>1, <2>2, <2>3 DEF SessionTypeOK, ClientTyped, CallsTyped
  <1> QED BY <1>1, PlaceAlways, PTL

-----------------------------------------------------------------------------
(* The goal is not missed.                                                 *)

(* A thread that came to the watched Goal could execute it.                *)
AtOpenGoal(t) ==
    t \in due /\ ip[t].site = Goal /\ mem[Goal] = "orig" /\ Debugged /\ alive /\ ~dumped

HeldAtGoal == pc = "stopped" /\ stop = [kind |-> "breakpoint", site |-> Goal] /\ ~served

(* Goal is open only while the target is held there, before the dump.      *)
GoalGuarded == \A t \in Threads : AtOpenGoal(t) => HeldAtGoal

(* The exit of the process is known from its event alone.                  *)
ExitKnown ==
    /\ \A t \in Threads : raised[t].kind = "exit" => ~alive
    /\ pc = "stopped" /\ stop.kind = "exited" => ~alive

(* The session leaves a target that it has dumped, or that has exited.     *)
LeavesInTime ==
    /\ (/\ pc = "stopped" /\ stop.kind = "breakpoint" /\ served
        /\ (mode \notin Launches \/ stop.site = Goal)) => dumped
    /\ pc = "detaching" => dumped \/ ~alive
    /\ pc = "detaching" /\ mode = "hide" => ~alive

GoalInv == GoalNotMissed /\ GoalGuarded /\ ExitKnown /\ LeavesInTime

LEMMA SessionInitGoal == SessionInit => GoalInv
  BY DEF SessionInit, Init, GoalInv, GoalNotMissed, GoalGuarded, AtOpenGoal, ExitKnown,
         LeavesInTime, NoEvent, NoStop

LEMMA QuietGoal ==
    ASSUME PlaceInv, PlaceInv', GoalInv, NEW t \in Threads, Quiet(t)
    PROVE  GoalInv'
  <1>1. UNCHANGED <<served, dumped, mode, due, missed>>
    BY DEF Quiet, clientVars, callVars
  <1>2. \A u \in Threads : ip'[u].site \in {ip[u].site, NoSite}
    BY EngineMoves DEF Quiet, PlaceInv, RaisedThere
  <1>3. GoalNotMissed'
    BY <1>1 DEF GoalInv, GoalNotMissed
  <1>4. pc # "stopped" /\ Debugged' = Debugged /\ (alive' => alive) /\ pc' \in {pc, "stopped"}
        /\ (pc = "detaching" => pc' = pc)
    BY DEF Quiet, Handle, OnSingleStep, OnInitialBreak, OnBreakpoint, OnUnknownBreakpoint,
           OnException, OnOther, OnExit, OnCreateProcess, LoaderBreak, HitInt3, ExitProcess,
           RaiseOther, Return, Reported, targetVars, engineVars, Debugged, Free, Running
  <1>5. GoalGuarded'
    <2> SUFFICES ASSUME NEW u \in Threads, AtOpenGoal(u)' PROVE HeldAtGoal'
      BY DEF GoalGuarded
    <2>1. ip[u].site = Goal
      BY <1>2, SiteFacts DEF AtOpenGoal
    <2>2. mem[Goal] # "orig"
      BY <1>1, <1>4, <2>1 DEF AtOpenGoal, GoalInv, GoalGuarded, HeldAtGoal
    <2>3. mem[Goal] = "int3" /\ mem'[Goal] = "orig"
      BY <2>2, SiteFacts DEF PlaceInv, TypeOK, AtOpenGoal
    <2>4. OnBreakpoint(t) /\ raised[t].site = Goal
      <3>1. CASE OnBreakpoint(t)
        BY <3>1, <2>3, SiteFacts DEF OnBreakpoint, PlaceInv, TypeOK
      <3>2. CASE OnSingleStep(t)
        BY <3>2, <2>3, SiteFacts DEF OnSingleStep, StepEnds, PutBack, PlaceInv, TypeOK
      <3>3. CASE \/ OnInitialBreak(t) \/ OnUnknownBreakpoint(t) \/ OnException(t) \/ OnOther(t)
                 \/ OnExit(t) \/ OnCreateProcess
                 \/ LoaderBreak(t) \/ HitInt3(t) \/ ExitProcess(t) \/ RaiseOther(t)
        <4>1. mem' = mem
          BY <3>3 DEF OnInitialBreak, OnUnknownBreakpoint, OnException, OnOther, OnExit,
                      OnCreateProcess, LoaderBreak, HitInt3, ExitProcess, RaiseOther, targetVars
        <4> QED BY <2>3, <4>1
      <3> QED BY <3>1, <3>2, <3>3 DEF Quiet, Handle
    <2> QED BY <1>1, <2>4 DEF OnBreakpoint, Return, Reported, HeldAtGoal, PlaceInv, AtStop
  <1>6. ExitKnown'
    <2>1. CASE OnExit(t)
      BY <2>1 DEF OnExit, Reported, targetVars, GoalInv, ExitKnown
    <2>2. CASE OnInitialBreak(t) \/ OnBreakpoint(t) \/ OnException(t)
      BY <2>2 DEF OnInitialBreak, OnBreakpoint, OnException, Return, targetVars, GoalInv, ExitKnown
    <2>3. CASE OnSingleStep(t) \/ OnUnknownBreakpoint(t) \/ OnOther(t)
      <3>1. PICK st : Continue(t, st)
        BY <2>3 DEF OnSingleStep, OnUnknownBreakpoint, OnOther
      <3>2. UNCHANGED <<alive, pc, stop>>
        BY <2>3 DEF OnSingleStep, OnUnknownBreakpoint, OnOther
      <3> QED BY <3>1, <3>2 DEF Continue, NoEvent, GoalInv, ExitKnown, PlaceInv, TypeOK
    <2>4. CASE OnCreateProcess
      BY <2>4 DEF OnCreateProcess, GoalInv, ExitKnown
    <2>5. CASE ExitProcess(t)
      BY <2>5 DEF ExitProcess, ExitKnown
    <2>6. CASE LoaderBreak(t) \/ HitInt3(t) \/ RaiseOther(t)
      <3>1. PICK e : Raise(t, e) /\ e.kind # "exit"
        <4>1. \A k, r, b : Event(k, r, b).kind = k
          BY DEF Event
        <4>2. CASE RaiseOther(t)
          <5>1. PICK x \in OwnExceptions : Raise(t, Event(x[1], NoSite, x[2]))
            BY <4>2 DEF RaiseOther
          <5>2. x[1] # "exit"
            BY EngineAssumption
          <5> QED BY <4>1, <5>1, <5>2
        <4>3. CASE LoaderBreak(t) \/ HitInt3(t)
          <5>1. \E r, b : Raise(t, Event("bp", r, b))
            BY <4>3 DEF LoaderBreak, HitInt3
          <5> QED BY <4>1, <5>1
        <4> QED BY <2>6, <4>2, <4>3
      <3>2. UNCHANGED <<alive, pc, stop>>
        BY <2>6 DEF LoaderBreak, HitInt3, RaiseOther
      <3> QED BY <3>1, <3>2 DEF Raise, GoalInv, ExitKnown, PlaceInv, TypeOK
    <2> QED BY <2>1, <2>2, <2>3, <2>4, <2>5, <2>6 DEF Quiet, Handle
  <1>7. LeavesInTime'
    <2>1. pc' = "stopped" => ~served'
      <3>1. pc' = "stopped" => pc = "waiting"
        BY <1>4 DEF Quiet, Handle, OnSingleStep, OnInitialBreak, OnBreakpoint, OnUnknownBreakpoint,
           OnException, OnOther, OnExit, OnCreateProcess, LoaderBreak, HitInt3, ExitProcess,
           RaiseOther, Reported
      <3> QED BY <1>1, <3>1 DEF PlaceInv, AtStop
    <2>2. pc' = "detaching" => pc = "detaching"
      BY <1>4
    <2> QED BY <1>1, <1>4, <2>1, <2>2 DEF GoalInv, LeavesInTime
  <1> QED BY <1>3, <1>5, <1>6, <1>7 DEF GoalInv

LEMMA RunsGoal ==
    ASSUME PlaceInv, GoalInv, NEW t \in Threads,
           CallQuery(t) \/ CallSetThread(t) \/ ReachGoal(t) \/ ComeBack(t) \/ Run(t)
    PROVE  GoalInv'
  <1>1. /\ UNCHANGED <<mem, alive, served, dumped, mode, pc, stop>>
        /\ pc # "stopped" /\ alive /\ Debugged' = Debugged
    BY DEF CallQuery, CallSetThread, ReachGoal, ComeBack, Run, clientVars, callVars, Reach, Free,
           Running, Execute, Debugged
  <1>2. LeavesInTime'
    BY <1>1 DEF GoalInv, LeavesInTime
  <1>3. ExitKnown'
    <2>1. \A u \in Threads : raised'[u].kind = "exit" => raised[u].kind = "exit"
      <3>1. CASE Run(t)
        BY <3>1 DEF Run, Execute, Raise, Event, PlaceInv, TypeOK
      <3>2. CASE CallQuery(t) \/ CallSetThread(t) \/ ReachGoal(t) \/ ComeBack(t)
        BY <3>2 DEF CallQuery, CallSetThread, ReachGoal, ComeBack, Reach
      <3> QED BY <3>1, <3>2
    <2> QED BY <1>1, <2>1 DEF GoalInv, ExitKnown
  <1>4. CASE Run(t)
    <2>1. /\ ip' = [ip EXCEPT ![t] = Elsewhere] /\ due' = due
          /\ mem[ip[t].site] = "orig" \/ ip[t].site \notin Sites
      <3>1. due' = due
        BY <1>4, Zenon DEF Run, callVars
      <3>2. ip' = [ip EXCEPT ![t] = Elsewhere] /\ (mem[ip[t].site] = "orig" \/ ip[t].site \notin Sites)
        BY <1>4, SiteFacts DEF Run, Execute, Elsewhere
      <3> QED BY <3>1, <3>2
    <2>2. GoalGuarded'
      BY <1>1, <2>1, SiteFacts DEF GoalInv, GoalGuarded, AtOpenGoal, HeldAtGoal, Elsewhere,
                                   PlaceInv, TypeOK
    <2>3. GoalNotMissed'
      <3>1. \/ missed' = missed
            \/ ip[t].site = Goal /\ missed' = (missed \/ (t \in due /\ ~dumped /\ Debugged))
        BY <1>4, Zenon DEF Run, callVars
      <3>2. ip[t].site = Goal => ~(t \in due /\ ~dumped /\ Debugged)
        BY <1>1, <2>1, SiteFacts DEF GoalInv, GoalGuarded, AtOpenGoal, HeldAtGoal
      <3> QED BY <3>1, <3>2 DEF GoalInv, GoalNotMissed
    <2> QED BY <1>2, <1>3, <2>2, <2>3 DEF GoalInv
  <1>5. CASE CallQuery(t) \/ CallSetThread(t) \/ ReachGoal(t) \/ ComeBack(t)
    <2>1. GoalNotMissed'
      BY <1>5 DEF CallQuery, CallSetThread, ReachGoal, ComeBack, callVars, GoalInv, GoalNotMissed
    <2>2. CASE ReachGoal(t)
      <3>1. /\ ip' = [ip EXCEPT ![t] = At(Goal)]
            /\ due' = IF mem[Goal] = "int3" /\ Watching THEN due \cup {t} ELSE due \ {t}
        BY <2>2 DEF ReachGoal, Reach
      <3>2. GoalGuarded'
        BY <1>1, <3>1 DEF GoalInv, GoalGuarded, AtOpenGoal, HeldAtGoal, At, PlaceInv, TypeOK
      <3> QED BY <1>2, <1>3, <2>1, <3>2 DEF GoalInv
    <2>3. CASE CallQuery(t) \/ CallSetThread(t) \/ ComeBack(t)
      <3>1. PICK s \in Sites \ {Goal} : ip' = [ip EXCEPT ![t] = At(s)]
        <4>1. CASE ComeBack(t)
          <5>1. call[t].ret \in ReturnSites
            BY <4>1 DEF ComeBack, PlaceInv, CallsTyped, QueryCalls, SetCalls, NoCall
          <5> QED BY <4>1, <5>1, SiteFacts DEF ComeBack, Reach
        <4> QED BY <2>3, <4>1, SiteFacts DEF CallQuery, CallSetThread, Reach
      <3>2. due' = due
        BY <2>3 DEF CallQuery, CallSetThread, ComeBack, callVars
      <3>3. GoalGuarded'
        BY <1>1, <3>1, <3>2 DEF GoalInv, GoalGuarded, AtOpenGoal, HeldAtGoal, At, PlaceInv, TypeOK
      <3> QED BY <1>2, <1>3, <2>1, <3>3 DEF GoalInv
    <2> QED BY <1>5, <2>2, <2>3
  <1> QED BY <1>4, <1>5

LEMMA ClientGoal ==
    ASSUME PlaceInv, GoalInv, Move
    PROVE  GoalInv'
  <1>1. UNCHANGED <<due, missed, mode, alive>>
    <2>1. UNCHANGED <<due, missed, mode>>
      BY Moves DEF ArmNext, OnQueryEntry, OnSetThread, OnQueryReturn, Serve, GoesOn, GoOn,
             Leave, Closes, Breaks, AtBreakpoint, clientVars, callVars
    <2>2. ClientCall \/ UNCHANGED vars
      BY ClientIsCall
    <2>3. alive' = alive
      BY <2>2, FailsIs DEF ClientCall, SetBreakpoint, MarkHandled, Cont, Detach, StopDebugging,
                  LetGo, RestoreByte, vars, targetVars
    <2> QED BY <2>1, <2>3
  <1>2. GoalNotMissed'
    BY <1>1 DEF GoalInv, GoalNotMissed
  <1>3. /\ \A u \in Threads : ip'[u].site \in {ip[u].site, NoSite}
        /\ \A u \in Threads : raised'[u].kind = "exit" => raised[u].kind = "exit"
    <2>1. \A u \in Threads : ip'[u].site \in {ip[u].site, NoSite}
      BY ClientIsCall, ClientMoves DEF PlaceInv, RaisedThere
    <2>2. CASE Cont \/ Detach
      BY <2>1, <2>2 DEF Cont, Detach, ContinuePending, Continue, NoEvent, PlaceInv, TypeOK
    <2>3. CASE StopDebugging \/ Fails
      BY <2>1, <2>3, FailsIs DEF StopDebugging, LetGo, NoEvent
    <2>4. CASE MarkHandled \/ (\E s \in Sites : RestoreByte(s) \/ SetBreakpoint(s)) \/ UNCHANGED vars
      BY <2>1, <2>4 DEF MarkHandled, RestoreByte, SetBreakpoint, vars, targetVars
    <2> QED BY <2>2, <2>3, <2>4, ClientIsCall DEF ClientCall
  <1>4. CASE ArmNext
    <2>1. /\ UNCHANGED <<pc, stop, served, dumped, ip>> /\ pc = "stopped" /\ stop.kind = "initial"
          /\ mem' = [mem EXCEPT ![Head(toArm)] = "int3"]
      BY <1>4 DEF ArmNext, SetBreakpoint
    <2> QED BY <1>1, <1>2, <1>3, <2>1, SiteFacts
            DEF GoalInv, GoalGuarded, AtOpenGoal, HeldAtGoal, ExitKnown, LeavesInTime, Debugged,
                PlaceInv, TypeOK
  <1>5. CASE OnQueryEntry \/ OnSetThread \/ (\E s \in ReturnSites : OnQueryReturn(s))
             \/ \E s \in Sites : Serve(s)
    <2>1. /\ UNCHANGED <<pc, stop, ip>>
          /\ mem' = mem \/ \E s : mem' = [mem EXCEPT ![s] = "int3"]
      BY <1>5 DEF OnQueryEntry, OnSetThread, OnQueryReturn, Serve, SetBreakpoint, vars, targetVars
    <2>2. PICK s : /\ AtBreakpoint(s)
                   /\ \/ dumped' = dumped /\ s # Goal /\ mode = "hide"
                      \/ Serve(s)
      BY <1>5, SiteFacts DEF OnQueryEntry, OnSetThread, OnQueryReturn, Serve
    <2>3. pc = "stopped" /\ stop = [kind |-> "breakpoint", site |-> s] /\ served'
      BY <2>2 DEF AtBreakpoint
    <2>4. \/ dumped' = dumped /\ s # Goal /\ mode \in Launches
          \/ dumped'
      <3>1. Serve(s) => dumped' = (dumped \/ DumpsAt(s))
        BY DEF Serve
      <3>2. CASE mode \in Launches /\ s # Goal
        BY <2>2, <3>1, <3>2 DEF DumpsAt, PlaceInv, ClientTyped
      <3>3. CASE ~(mode \in Launches /\ s # Goal)
        BY <2>2, <3>1, <3>3 DEF DumpsAt, Launches
      <3> QED BY <3>2, <3>3
    <2>5. LeavesInTime'
      BY <1>1, <2>1, <2>3, <2>4 DEF LeavesInTime
    <2>6. ExitKnown'
      BY <1>1, <1>3, <2>1 DEF GoalInv, ExitKnown
    <2>7. GoalGuarded'
      <3>1. CASE dumped'
        BY <3>1 DEF GoalGuarded, AtOpenGoal
      <3>2. CASE dumped' = dumped /\ s # Goal
        <4>1. \A u \in Threads : ~AtOpenGoal(u)
          BY <2>3, <3>2 DEF GoalInv, GoalGuarded, HeldAtGoal
        <4>2. mem'[Goal] = "orig" => mem[Goal] = "orig"
          BY <2>1, SiteFacts DEF PlaceInv, TypeOK
        <4> QED BY <1>1, <2>1, <3>2, <4>1, <4>2 DEF GoalGuarded, AtOpenGoal, Debugged
      <3> QED BY <2>4, <3>1, <3>2
    <2> QED BY <1>2, <2>5, <2>6, <2>7 DEF GoalInv
  <1>6. CASE GoesOn
    <2>1. /\ pc' = "waiting" /\ UNCHANGED <<mem, dumped>> /\ pc = "stopped"
          /\ stop.kind = "breakpoint" => served
      BY <1>6 DEF GoesOn, GoOn, Cont
    <2>2. \A u \in Threads : ~AtOpenGoal(u)
      BY <2>1 DEF GoalInv, GoalGuarded, HeldAtGoal
    <2>3. GoalGuarded'
      BY <1>1, <1>3, <2>1, <2>2, SiteFacts DEF GoalGuarded, AtOpenGoal, Debugged
    <2> QED BY <1>1, <1>2, <1>3, <2>1, <2>3 DEF GoalInv, ExitKnown, LeavesInTime
  <1>7. CASE Leave
    <2>1. /\ pc' = "detaching" /\ dumped' = dumped /\ pc = "stopped" /\ Leaves
          /\ stop.kind = "breakpoint" => served
      BY <1>7 DEF Leave, Detach, clientVars
    <2>2. (dumped \/ ~alive) /\ (mode = "hide" => ~alive)
      BY <2>1 DEF Leaves, Launches, GoalInv, LeavesInTime, ExitKnown
    <2>3. GoalGuarded'
      BY <1>1, <2>1, <2>2 DEF GoalGuarded, AtOpenGoal
    <2> QED BY <1>1, <1>2, <1>3, <2>1, <2>2, <2>3 DEF GoalInv, ExitKnown, LeavesInTime
  <1>8. CASE Closes \/ Breaks
    <2>1. dumped' = dumped
      BY <1>8 DEF Closes, Breaks, clientVars
    <2>2. CASE \E s \in Sites : RestoreByte(s)
      <3>1. pc = "detaching" /\ pc' = pc
        BY <2>2 DEF RestoreByte
      <3>2. dumped \/ ~alive
        BY <3>1 DEF GoalInv, LeavesInTime
      <3> QED BY <1>1, <1>2, <1>3, <2>1, <3>1, <3>2
              DEF GoalInv, GoalGuarded, AtOpenGoal, ExitKnown, LeavesInTime
    <2>3. CASE StopDebugging \/ Fails
      <3>1. pc' \in {"detached", "gone"}
        BY <2>3, FailsIs DEF StopDebugging
      <3> QED BY <1>1, <1>2, <1>3, <3>1
              DEF GoalInv, GoalGuarded, AtOpenGoal, ExitKnown, LeavesInTime, Debugged
    <2> QED BY <1>8, <2>2, <2>3 DEF Closes, Breaks
  <1> QED BY <1>4, <1>5, <1>6, <1>7, <1>8, Moves

LEMMA NextGoal ==
    PlaceInv /\ PlaceInv' /\ GoalInv /\ [SessionNext]_sessionVars => GoalInv'
  <1> SUFFICES ASSUME PlaceInv, PlaceInv', GoalInv, [SessionNext]_sessionVars PROVE GoalInv'
    OBVIOUS
  <1>1. ASSUME OnCreateProcess \/ UNCHANGED vars, UNCHANGED <<clientVars, callVars>>
        PROVE  GoalInv'
    <2>1. UNCHANGED <<served, dumped, mode, due, missed, mem, ip, raised, alive, pc, stop>>
      BY <1>1 DEF clientVars, callVars, OnCreateProcess, vars, targetVars
    <2> QED BY <2>1 DEF GoalInv, GoalNotMissed, GoalGuarded, AtOpenGoal, HeldAtGoal, ExitKnown,
                        LeavesInTime, Debugged
  <1> QED BY <1>1, SessionSteps, QuietGoal, RunsGoal, ClientGoal DEF sessionVars

(***************************************************************************)
(* A thread that comes to the address a session waits for does not get     *)
(* past it before the dump, whichever threads run, and whatever other      *)
(* breakpoints, exceptions and steps come between (lib.rs:356-357,         *)
(* terminate.rs:15-16).                                                    *)
(***************************************************************************)
THEOREM GoalIsNotMissed == SessionSpec => []GoalNotMissed
  <1>1. PlaceInv /\ GoalInv /\ [SessionNext]_sessionVars => (PlaceInv /\ GoalInv)'
    BY NextPlace, NextGoal
  <1>2. SessionInit => PlaceInv /\ GoalInv
    BY SessionInitPlace, SessionInitGoal
  <1>3. GoalInv => GoalNotMissed
    BY DEF GoalInv
  <1> QED BY <1>1, <1>2, <1>3, PTL DEF SessionSpec

-----------------------------------------------------------------------------
(* A rewrite that is awaited will be brought about.                        *)

LEMMA SessionInitReturns == SessionInit => ReturnsAreArmed
  BY DEF SessionInit, ReturnsAreArmed

LEMMA TargetReturns ==
    ASSUME PlaceInv, ReturnsAreArmed, NEW t \in Threads,
           \/ CallQuery(t) \/ CallSetThread(t) \/ ReachGoal(t) \/ ComeBack(t) \/ Run(t) \/ Quiet(t)
    PROVE  ReturnsAreArmed'
  <1>1. UNCHANGED <<returns, served>>
    BY DEF CallQuery, CallSetThread, ReachGoal, ComeBack, Run, Quiet, clientVars
  <1>2. CASE UNCHANGED <<breakpoints, pc, stop>>
    BY <1>1, <1>2 DEF ReturnsAreArmed, Watching, Armed
  <1>3. CASE OnBreakpoint(t)
    <2> DEFINE s == raised[t].site
    <2>1. /\ pc = "waiting" /\ stop' = [kind |-> "breakpoint", site |-> s]
          /\ breakpoints' = breakpoints \/ breakpoints' = [breakpoints EXCEPT ![s] = "none"]
      BY <1>3 DEF OnBreakpoint, Consume, Reported, Return
    <2>2. ~served /\ stop.kind = "none"
      BY <2>1 DEF PlaceInv, AtStop
    <2>3. ASSUME NEW r \in ReturnSites, returns[r] # NoReturn PROVE r \in Armed
      BY <2>1, <2>2, <2>3 DEF ReturnsAreArmed, Watching
    <2>4. ASSUME NEW r \in ReturnSites, r \in Armed PROVE r \in Armed' \/ r = s
      BY <2>1, <2>4 DEF Armed, PlaceInv, TypeOK
    <2> HIDE DEF s
    <2> QED BY <1>1, <2>1, <2>2, <2>3, <2>4 DEF ReturnsAreArmed
  <1>4. CASE OnInitialBreak(t) \/ OnException(t) \/ OnExit(t)
    <2>1. pc = "waiting" /\ breakpoints' = breakpoints
      BY <1>4 DEF OnInitialBreak, OnException, OnExit, Reported
    <2>2. stop.kind = "none"
      BY <2>1 DEF PlaceInv, AtStop
    <2> QED BY <1>1, <2>1, <2>2 DEF ReturnsAreArmed, Watching, Armed
  <1>5. UNCHANGED <<breakpoints, pc, stop>> \/ OnBreakpoint(t)
        \/ OnInitialBreak(t) \/ OnException(t) \/ OnExit(t)
    BY DEF CallQuery, CallSetThread, ReachGoal, ComeBack, Run, Reach, Execute, Quiet, Handle,
           OnSingleStep, OnUnknownBreakpoint, OnOther, OnCreateProcess, LoaderBreak, HitInt3,
           ExitProcess, RaiseOther, engineVars
  <1> QED BY <1>2, <1>3, <1>4, <1>5

LEMMA SetArms ==
    ASSUME TypeOK, NEW x \in Sites, SetBreakpoint(x)
    PROVE  Armed' = Armed \cup {x}
  BY DEF TypeOK, SetBreakpoint, Armed

LEMMA ClientReturns ==
    ASSUME PlaceInv, ReturnsAreArmed, Move
    PROVE  ReturnsAreArmed'
  <1>1. CASE ArmNext
    <2>1. Head(toArm) \in Sites
      BY <1>1, PlanTail, SiteFacts DEF ArmNext, PlaceInv, ClientTyped
    <2>2. Armed \subseteq Armed' /\ UNCHANGED <<pc, stop, served, returns>>
      BY <1>1, <2>1, SetArms DEF ArmNext, PlaceInv, SetBreakpoint
    <2> QED BY <2>2 DEF ReturnsAreArmed, Watching
  <1>2. CASE OnQueryEntry
    <2> DEFINE r == call[pending.tid].ret
    <2>1. stop.site = Query /\ call[pending.tid] \in QueryCalls /\ pc = "stopped"
      BY <1>2, StopFacts DEF OnQueryEntry
    <2>2. r \in ReturnSites /\ r \in Sites
      BY <2>1, SiteFacts DEF QueryCalls
    <2>3. \A x \in ReturnSites : returns[x] # NoReturn => x \in Armed
      BY <2>1, SiteFacts DEF ReturnsAreArmed, Watching
    <2>4. CASE UNCHANGED <<vars, returns>>
      BY <2>3, <2>4 DEF ReturnsAreArmed, Watching, Armed, vars, engineVars
    <2>5. CASE /\ SetBreakpoint(r)
               /\ \E n : returns' = [returns EXCEPT ![r] = n]
      <3>1. Armed' = Armed \cup {r}
        BY <2>2, <2>5, SetArms DEF PlaceInv
      <3>2. \A x \in ReturnSites : x # r => returns'[x] = returns[x]
        BY <2>5 DEF PlaceInv, ClientTyped
      <3> QED BY <2>3, <3>1, <3>2 DEF ReturnsAreArmed
    <2> QED BY <1>2, <2>4, <2>5 DEF OnQueryEntry
  <1>3. CASE OnSetThread \/ (\E s \in Sites : Serve(s)) \/ (\E s \in ReturnSites : OnQueryReturn(s))
    <2>1. PICK s : /\ AtBreakpoint(s) /\ UNCHANGED vars
                   /\ \/ returns' = returns /\ (s \in ReturnSites => returns[s] = NoReturn)
                      \/ s \in ReturnSites /\ returns' = [returns EXCEPT ![s] = NoReturn]
      <3>1. CASE OnSetThread
        BY <3>1, SiteFacts DEF OnSetThread
      <3>2. ASSUME NEW s \in Sites, Serve(s)
            PROVE  /\ AtBreakpoint(s) /\ UNCHANGED vars
                   /\ returns' = returns /\ (s \in ReturnSites => returns[s] = NoReturn)
        BY <3>2 DEF Serve, NotConsumed, PlaceInv, ClientTyped
      <3>3. ASSUME NEW s \in ReturnSites, OnQueryReturn(s)
            PROVE  /\ AtBreakpoint(s) /\ UNCHANGED vars
                   /\ returns' = [returns EXCEPT ![s] = NoReturn]
        BY <3>3 DEF OnQueryReturn, Take
      <3> QED BY <1>3, <3>1, <3>2, <3>3
    <2>2. stop.site = s /\ pc = "stopped"
      BY <2>1, StopFacts
    <2>3. \A x \in ReturnSites : returns'[x] # NoReturn => x # s /\ returns[x] # NoReturn
      BY <2>1 DEF PlaceInv, ClientTyped
    <2>4. \A x \in ReturnSites : returns'[x] # NoReturn => x \in Armed
      BY <2>2, <2>3 DEF ReturnsAreArmed, Watching
    <2>5. Armed' = Armed
      BY <2>1 DEF Armed, vars, engineVars
    <2> QED BY <2>4, <2>5 DEF ReturnsAreArmed
  <1>4. CASE GoesOn
    <2>1. /\ UNCHANGED <<breakpoints, returns>> /\ pc = "stopped"
          /\ stop.kind = "breakpoint" => served
      BY <1>4 DEF GoesOn, GoOn, Cont
    <2> QED BY <2>1 DEF ReturnsAreArmed, Watching, Armed
  <1>5. CASE Leave \/ Closes \/ Breaks
    <2>1. pc' \notin {"stopped", "waiting"}
      BY <1>5, FailsIs DEF Leave, Closes, Breaks, Detach, StopDebugging, RestoreByte
    <2> QED BY <2>1 DEF ReturnsAreArmed, Watching
  <1> QED BY <1>1, <1>2, <1>3, <1>4, <1>5, Moves

LEMMA NextReturns ==
    PlaceInv /\ ReturnsAreArmed /\ [SessionNext]_sessionVars => ReturnsAreArmed'
  <1> SUFFICES ASSUME PlaceInv, ReturnsAreArmed, [SessionNext]_sessionVars PROVE ReturnsAreArmed'
    OBVIOUS
  <1>1. ASSUME OnCreateProcess \/ UNCHANGED vars, UNCHANGED <<clientVars, callVars>>
        PROVE  ReturnsAreArmed'
    <2>1. UNCHANGED <<served, returns, breakpoints, pc, stop>>
      BY <1>1 DEF clientVars, OnCreateProcess, vars, engineVars
    <2> QED BY <2>1 DEF ReturnsAreArmed, Watching, Armed
  <1> QED BY <1>1, SessionSteps, TargetReturns, ClientReturns DEF sessionVars

(***************************************************************************)
(* The interceptor's table of return sites and the engine's table of       *)
(* breakpoints agree, however many threads are in queries and share return *)
(* sites (intercept.rs:27, 75-76).                                         *)
(***************************************************************************)
THEOREM ReturnsStayArmed == SessionSpec => []ReturnsAreArmed
  <1>1. PlaceInv /\ ReturnsAreArmed /\ [SessionNext]_sessionVars
            => (PlaceInv /\ ReturnsAreArmed)'
    BY NextPlace, NextReturns
  <1>2. SessionInit => PlaceInv /\ ReturnsAreArmed
    BY SessionInitPlace, SessionInitReturns
  <1> QED BY <1>1, <1>2, PTL DEF SessionSpec

-----------------------------------------------------------------------------
(* What --hide hides, from a target in which one thread makes the calls.   *)

OneCaller == \A t, u \in Callers : t = u

(* A thread past an int3 waits with its event; so does the pending one.    *)
Held ==
    /\ \A t \in Threads : ip[t].past => raised[t].kind = "bp"
    /\ pc = "stopped" /\ pending # NoPending => raised[pending.tid].kind \in {"bp", "fault"}

LEMMA HeldStep == TypeOK /\ Held /\ EngineStep => Held'
  <1> SUFFICES ASSUME TypeOK, Held, EngineStep PROVE Held'
    OBVIOUS
  <1> USE DEF TypeOK, Held
  <1>1. ASSUME NEW t \in Threads, Target(t) PROVE Held'
    <2>2. CASE HitInt3(t)
      BY <2>2 DEF HitInt3, Free, Running, Raise, Event, PastInt3, Elsewhere
    <2>3. CASE Execute(t)
      BY <2>3 DEF Execute, Free, Running, Raise, Event, Elsewhere
    <2>4. CASE \E s \in Sites : Reach(t, s)
      BY <2>4 DEF Reach, Free, Running, At
    <2>5. CASE LoaderBreak(t) \/ RaiseOther(t) \/ ExitProcess(t)
      <3>1. ip' = ip /\ ip[t] = Elsewhere /\ pc # "stopped" /\ pc' = pc
        BY <2>5 DEF LoaderBreak, RaiseOther, ExitProcess, Free, Running
      <3>2. \A u \in Threads : u # t => raised'[u] = raised[u]
        BY <2>5 DEF LoaderBreak, RaiseOther, ExitProcess, Raise
      <3> QED BY <3>1, <3>2 DEF Elsewhere
    <2> QED BY <1>1, <2>2, <2>3, <2>4, <2>5 DEF Target
  <1>2. ASSUME NEW t \in Threads, Handle(t) PROVE Held'
    <2>1. CASE OnSingleStep(t) \/ OnUnknownBreakpoint(t) \/ OnOther(t)
      <3>1. PICK st : Continue(t, st)
        BY <2>1 DEF OnSingleStep, OnUnknownBreakpoint, OnOther
      <3>2. pc = "waiting" /\ pc' = pc
        BY <2>1 DEF OnSingleStep, OnUnknownBreakpoint, OnOther, Reported
      <3> QED BY <3>1, <3>2 DEF Continue, Elsewhere
    <2>2. CASE OnInitialBreak(t) \/ OnException(t)
      BY <2>2 DEF OnInitialBreak, OnException, Return, Reported, targetVars
    <2>3. CASE OnExit(t)
      BY <2>3 DEF OnExit, targetVars
    <2>4. CASE OnBreakpoint(t)
      BY <2>4 DEF OnBreakpoint, Return, Reported, Rewind, At
    <2> QED BY <1>2, <2>1, <2>2, <2>3, <2>4 DEF Handle
  <1>3. CASE ClientCall
    <2>1. CASE Cont \/ Detach
      <3>1. CASE pending = NoPending
        BY <2>1, <3>1 DEF Cont, Detach, ContinuePending
      <3>2. CASE pending # NoPending
        <4>1. Continue(pending.tid, pending.status) /\ pending.tid \in Threads /\ pc' # "stopped"
          BY <2>1, <3>2 DEF Cont, Detach, ContinuePending
        <4> QED BY <4>1 DEF Continue, Elsewhere
      <3> QED BY <3>1, <3>2
    <2>2. CASE StopDebugging \/ Fails
      <3>1. LetGo /\ pc' # "stopped"
        BY <2>2, FailsIs DEF StopDebugging
      <3> QED BY <3>1 DEF LetGo, Elsewhere
    <2>3. CASE MarkHandled \/ \E s \in Sites : RestoreByte(s) \/ SetBreakpoint(s)
      <3>1. /\ UNCHANGED <<ip, raised, pc>>
            /\ pending' = pending \/ (pending # NoPending /\ pending' = [pending EXCEPT !.status = "continue"])
        BY <2>3 DEF MarkHandled, RestoreByte, SetBreakpoint, targetVars, NoPending
      <3>2. pending' # NoPending => pending # NoPending /\ pending'.tid = pending.tid
        BY <3>1
      <3> QED BY <3>1, <3>2
    <2> QED BY <1>3, <2>1, <2>2, <2>3 DEF ClientCall
  <1>4. CASE OnCreateProcess \/ Ended \/ UNCHANGED vars
    <2>1. UNCHANGED <<ip, raised, pc, pending>>
      BY <1>4 DEF OnCreateProcess, Ended, vars, targetVars, engineVars
    <2> QED BY <2>1
  <1> QED BY <1>1, <1>2, <1>3, <1>4 DEF EngineStep

Hiding == mode = "hide" /\ Watching

Entries == {Query, SetThread}

(* The entry points are armed at the initial break, in this order.         *)
ToBeArmed(p) ==
    /\ stop.kind = "initial"
    /\ toArm = <<Query, SetThread, Goal>> \/ (p = SetThread /\ toArm = <<SetThread, Goal>>)

(* Thread u is stepping over the breakpoint at p: it is to step, it steps, *)
(* or it has.                                                              *)
StepsOver(u, p) ==
    /\ rearm = [site |-> p, tid |-> u]
    /\ \/ /\ pc = "stopped" /\ pending.tid = u /\ pending # NoPending /\ ip[u] = At(p)
          /\ stop = [kind |-> "breakpoint", site |-> p]
       \/ tf[u] /\ raised[u] = NoEvent /\ ip[u] = At(p)
       \/ raised[u].kind = "step"

(* Nobody comes to an entry point unnoticed: where its int3 is away, it is *)
(* being set, or the caller itself is stepping over it.                    *)
EntriesWatched ==
    initialSeen => \A p \in Entries :
        mem[p] = "int3" \/ ToBeArmed(p) \/ (\E u \in Callers : StepsOver(u, p))

PlanFollowed ==
    /\ ~initialSeen => toArm = <<Query, SetThread, Goal>>
    /\ initialSeen /\ stop.kind # "initial" => toArm = <<>>

EntriesPersist == \A p \in Entries : p \in Armed => p \in persistent

WatchInv == Hiding => EntriesWatched /\ PlanFollowed /\ EntriesPersist

(* Thread t is stopped at site p, and the interceptor has not served it.   *)
Unserved(t, p) ==
    /\ pc = "stopped" /\ stop = [kind |-> "breakpoint", site |-> p]
    /\ pending.tid = t /\ ~served

(* A call to hide meets the interceptor before the kernel.                 *)
HidesServed ==
    \A t \in Threads :
        ip[t] = At(SetThread) /\ mem[SetThread] = "orig" /\ call[t].class = "hide"
            => Unserved(t, SetThread)

(* The answer to the query of thread t is to be rewritten at r.            *)
Awaited(t, r) ==
    /\ returns[r] # NoReturn
    /\ (mem[r] = "int3" /\ r \in Armed) \/ Unserved(t, r)

QueriesServed ==
    \A t \in Threads :
        (/\ call[t].class \in DebugClasses /\ call[t].fn = "query"
         /\ ip[t] = At(Query) /\ mem[Query] = "orig")
            => Unserved(t, Query) \/ Awaited(t, call[t].ret)

Answered(t) == [value |-> out[t], status |-> status[t]] = NotDebugged(call[t].class)

(* A query that is over is rewritten, or will be before its caller goes on.*)
AnswersRewritten ==
    \A t \in Threads :
        call[t].class \in DebugClasses /\ call[t].fn = "returning" =>
            IF returns[call[t].ret] # NoReturn
              THEN Awaited(t, call[t].ret) /\ status[t] = "success"
              ELSE Answered(t)

(* What is awaited is the query that the caller is in.                     *)
ReturnsFit ==
    \A r \in ReturnSites, t \in Callers :
        returns[r] # NoReturn => call[t].class = returns[r].class /\ call[t].ret = r

Served == HidesServed /\ QueriesServed /\ AnswersRewritten /\ ReturnsFit

ServedInv == Hiding => Served

NothingSeen == mode = "hide" => detected = {} /\ hidden = {}

LEMMA WatchingLasts == EngineStep /\ mode' = mode => (Hiding' => Hiding)
  <1> SUFFICES ASSUME EngineStep, Watching' PROVE Watching
    BY DEF Hiding
  <1> QED BY FailsIs
          DEF EngineStep, Watching, OnCreateProcess, Ended, vars, Target, LoaderBreak, Reach,
             HitInt3, Execute, RaiseOther, ExitProcess, Handle, OnSingleStep, OnInitialBreak,
             OnBreakpoint, OnUnknownBreakpoint, OnException, OnOther, OnExit, Reported,
             ClientCall, Cont, Detach, StopDebugging, MarkHandled, RestoreByte, SetBreakpoint,
             StoppedAlive

LEMMA TargetKeeps ==
    ASSUME NEW t \in Threads, Target(t)
    PROVE  /\ UNCHANGED <<mem, start, breakpoints, persistent, rearm, pending, initialSeen,
                          process, pc, stop>>
           /\ pc # "stopped" /\ alive /\ raised[t] = NoEvent
  BY DEF Target, LoaderBreak, Reach, HitInt3, Execute, RaiseOther, ExitProcess, engineVars, Free,
         Running

(* What tells that a thread is one that makes the calls, and which.        *)
LEMMA CallerFacts ==
    ASSUME PlaceInv, NEW t \in Threads
    PROVE  /\ ip[t].site \in Entries \cup ReturnSites => t \in Callers
           /\ raised[t].site # NoSite => ip[t].site = raised[t].site
           /\ call[t].class \in DebugClasses =>
                 t \in Callers /\ call[t] \in QueryCalls /\ call[t].ret \in ReturnSites
                 /\ call[t].fn \in {"query", "returning"}
           /\ call[t].class = "hide" => t \in Callers /\ call[t].fn = "set"
           /\ call[t].fn = "set" => call[t].class \notin DebugClasses
           /\ call[t] = NoCall => call[t].class \notin DebugClasses \cup {"hide"}
           /\ ip[t].site = Query => call[t].fn = "query"
           /\ ip[t].site = SetThread => call[t].fn = "set"
           /\ ip[t].site \in ReturnSites => call[t].fn = "returning" /\ call[t].ret = ip[t].site
  <1>1. call[t] \in QueryCalls \cup SetCalls \cup {NoCall}
    BY DEF PlaceInv, CallsTyped
  <1>2. call[t] # NoCall => t \in Callers
    BY DEF PlaceInv, AtSites
  <1>3. /\ ip[t].site = Query => call[t].fn = "query"
        /\ ip[t].site = SetThread => call[t].fn = "set"
        /\ ip[t].site \in ReturnSites => call[t].fn = "returning" /\ call[t].ret = ip[t].site
        /\ raised[t].site # NoSite => ip[t].site = raised[t].site
    BY DEF PlaceInv, AtSites, RaisedThere
  <1>4. NoCall.fn = "none" /\ NoCall.class = "none"
    BY DEF NoCall
  <1>5. call[t] \in QueryCalls => /\ call[t].fn \in {"query", "returning"} /\ call[t].ret \in ReturnSites
                                  /\ call[t].class \in DebugClasses \cup {"other"}
    BY DEF QueryCalls
  <1>6. call[t] \in SetCalls => call[t].fn = "set" /\ call[t].class \in {"hide", "other", "invalid"}
    BY DEF SetCalls
  <1> QED BY <1>1, <1>2, <1>3, <1>4, <1>5, <1>6 DEF Entries, DebugClasses

(* A step over an entry point goes on as the target runs.                  *)
LEMMA StepGoesOn ==
    ASSUME TypeOK, NEW t \in Threads, NEW u \in Threads, NEW p \in Sites,
           Target(t), pc = "waiting", StepsOver(u, p)
    PROVE  StepsOver(u, p)' \/ mem[p] = "int3"
  <1> USE DEF TypeOK
  <1>1. rearm' = rearm /\ pc # "stopped" /\ raised[t] = NoEvent
    BY TargetKeeps
  <1>2. CASE u # t
    <2>1. UNCHANGED <<raised[u], tf[u], ip[u]>>
      BY <1>2 DEF Target, LoaderBreak, Reach, HitInt3, Execute, RaiseOther, ExitProcess, Raise
    <2> QED BY <1>1, <2>1 DEF StepsOver
  <1>3. CASE u = t
    <2>1. tf[t] /\ ip[t] = At(p)
      BY <1>1, <1>3 DEF StepsOver, NoEvent
    <2>2. ip[t] # Elsewhere /\ ip[t].site = p
      BY <2>1, EngineAssumption DEF At, Elsewhere
    <2>3. HitInt3(t) \/ Execute(t)
      BY <2>1, <2>2 DEF Target, LoaderBreak, Reach, RaiseOther, ExitProcess
    <2>4. CASE HitInt3(t)
      BY <2>2, <2>4 DEF HitInt3
    <2>5. CASE Execute(t)
      <3>1. raised' = [raised EXCEPT ![t] = Event("step", NoSite, "tool")]
        BY <2>1, <2>5 DEF Execute, Raise, Debugged
      <3>2. raised'[t].kind = "step"
        BY <3>1 DEF Event
      <3> QED BY <1>1, <1>3, <3>2 DEF StepsOver
    <2> QED BY <2>3, <2>4, <2>5
  <1> QED BY <1>2, <1>3

LEMMA WatchTarget ==
    ASSUME PlaceInv, WatchInv, NEW t \in Threads, Target(t), UNCHANGED clientVars
    PROVE  WatchInv'
  <1> SUFFICES ASSUME Hiding PROVE (EntriesWatched /\ PlanFollowed /\ EntriesPersist)'
    BY WatchingLasts DEF EngineStep, WatchInv, clientVars
  <1>1. /\ UNCHANGED <<mem, breakpoints, persistent, rearm, initialSeen, pc, stop, toArm>>
        /\ pc = "waiting"
    BY TargetKeeps DEF Hiding, Watching, clientVars
  <1>2. PlanFollowed' /\ EntriesPersist'
    BY <1>1 DEF WatchInv, PlanFollowed, EntriesPersist, Armed
  <1>3. EntriesWatched'
    <2> SUFFICES ASSUME initialSeen, NEW p \in Entries
                 PROVE  mem'[p] = "int3" \/ ToBeArmed(p)' \/ \E u \in Callers : StepsOver(u, p)'
      BY <1>1 DEF EntriesWatched
    <2>1. mem[p] = "int3" \/ ToBeArmed(p) \/ \E u \in Callers : StepsOver(u, p)
      BY DEF WatchInv, EntriesWatched
    <2>2. ToBeArmed(p) => ToBeArmed(p)'
      BY <1>1 DEF ToBeArmed
    <2>3. ASSUME NEW u \in Callers, StepsOver(u, p) PROVE StepsOver(u, p)' \/ mem[p] = "int3"
      BY <1>1, <2>3, StepGoesOn, SiteFacts DEF Entries, PlaceInv
    <2> QED BY <1>1, <2>1, <2>2, <2>3
  <1> QED BY <1>2, <1>3

LEMMA WatchHandle ==
    ASSUME OneCaller, PlaceInv, Held, WatchInv, NEW t \in Threads, Handle(t) \/ OnCreateProcess,
           UNCHANGED clientVars
    PROVE  WatchInv'
  <1> SUFFICES ASSUME Hiding PROVE (EntriesWatched /\ PlanFollowed /\ EntriesPersist)'
    BY WatchingLasts DEF EngineStep, WatchInv, clientVars
  <1> USE DEF TypeOK
  <1>1. /\ pc = "waiting" /\ toArm' = toArm /\ persistent' = persistent /\ Armed' \subseteq Armed
    BY DEF Handle, OnSingleStep, OnInitialBreak, OnBreakpoint, OnUnknownBreakpoint, OnException,
           OnOther, OnExit, OnCreateProcess, Reported, targetVars, clientVars, Consume, Armed,
           PlaceInv
  <1>2. stop.kind = "none" /\ ~served
    BY <1>1 DEF PlaceInv, AtStop
  <1>3. EntriesPersist'
    BY <1>1 DEF WatchInv, EntriesPersist
  <1>4. \A p : ~ToBeArmed(p)
    BY <1>2 DEF ToBeArmed
  <1>5. CASE OnInitialBreak(t)
    <2>1. stop'.kind = "initial" /\ initialSeen' /\ ~initialSeen
      BY <1>5 DEF OnInitialBreak, Return
    <2>2. toArm' = <<Query, SetThread, Goal>>
      BY <1>1, <2>1 DEF WatchInv, PlanFollowed
    <2> QED BY <1>3, <2>1, <2>2 DEF EntriesWatched, ToBeArmed, PlanFollowed
  <1>6. ASSUME ~OnInitialBreak(t) PROVE PlanFollowed' /\ initialSeen' = initialSeen
    <2>1. initialSeen' = initialSeen
      BY <1>6 DEF Handle, OnSingleStep, OnBreakpoint, OnUnknownBreakpoint, OnException,
                  OnOther, OnExit, OnCreateProcess
    <2> QED BY <1>1, <1>2, <2>1 DEF WatchInv, PlanFollowed
  <1>7. CASE OnBreakpoint(t)
    <2> DEFINE s == raised[t].site
    <2>1. /\ s \in Armed /\ s \in Sites /\ initialSeen
          /\ raised[t].kind = "bp" /\ raised' = raised /\ tf' = tf
          /\ mem' = [mem EXCEPT ![s] = breakpoints[s]] /\ ip' = [ip EXCEPT ![t] = At(s)]
          /\ pending' = [tid |-> t, status |-> "continue"] /\ pc' = "stopped"
          /\ stop' = [kind |-> "breakpoint", site |-> s]
      BY <1>7 DEF OnBreakpoint, Rewind, Return, Reported, Armed
    <2>2. \A u \in Threads, p \in Entries :
             StepsOver(u, p) => u # t /\ (rearm' = rearm => StepsOver(u, p)')
      BY <1>1, <2>1 DEF StepsOver, PlaceInv, NoEvent
    <2>3. CASE s \in Entries
      <3>1. rearm' = [site |-> s, tid |-> t]
        BY <1>7, <2>1, <2>3 DEF OnBreakpoint, Consume, WatchInv, EntriesPersist
      <3>2. \A p : p = s => StepsOver(t, p)'
        BY <2>1, <3>1 DEF StepsOver, PlaceInv, NoPending
      <3>3. t \in Callers
        BY <2>1, <2>3, CallerFacts, SiteFacts
      <3>4. \A u \in Callers, p \in Entries : ~StepsOver(u, p)
        BY <2>2, <3>3, SiteFacts DEF OneCaller
      <3>5. \A p \in Entries : p # s => mem'[p] = "int3"
        BY <1>4, <2>1, <3>4 DEF WatchInv, EntriesWatched
      <3>6. EntriesWatched'
        <4> SUFFICES ASSUME NEW p \in Entries
                     PROVE  mem'[p] = "int3" \/ \E u \in Callers : StepsOver(u, p)'
          BY DEF EntriesWatched
        <4>1. CASE p # s
          BY <3>5, <4>1
        <4>2. CASE p = s
          <5>1. StepsOver(t, p)'
            BY <3>2, <4>2
          <5> QED BY <3>3, <5>1
        <4> QED BY <4>1, <4>2
      <3> QED BY <1>3, <1>6, <1>7, <3>6 DEF OnBreakpoint, OnInitialBreak
    <2>4. CASE s \notin Entries
      <3>1. rearm' = rearm
        BY <1>7, <2>4, SiteFacts DEF OnBreakpoint, Consume, PlaceInv, Entries
      <3>2. \A p \in Entries : mem'[p] = mem[p]
        BY <2>1, <2>4, SiteFacts DEF PlaceInv, Entries
      <3>3. EntriesWatched'
        BY <1>4, <2>1, <2>2, <3>1, <3>2, SiteFacts DEF WatchInv, EntriesWatched
      <3> QED BY <1>3, <1>6, <1>7, <3>3 DEF OnBreakpoint, OnInitialBreak
    <2> QED BY <2>3, <2>4
  <1>8. CASE OnSingleStep(t)
    <2>1. Continue(t, StepStatus) /\ raised[t].kind = "step" /\ initialSeen' = initialSeen
      BY <1>8 DEF OnSingleStep, Reported
    <2>2. CASE rearm # NoRearm
      <3>1. mem' = [mem EXCEPT ![rearm.site] = "int3"]
        BY <1>8, <2>2 DEF OnSingleStep, StepEnds, PutBack
      <3>2. \A u \in Callers, p \in Entries : StepsOver(u, p) => rearm.site = p
        BY DEF StepsOver
      <3>3. \A p \in Entries : mem'[p] = "int3" \/ (mem'[p] = mem[p] /\ rearm.site # p)
        BY <3>1, SiteFacts DEF PlaceInv, Entries
      <3>4. EntriesWatched'
        BY <1>4, <2>1, <3>2, <3>3 DEF WatchInv, EntriesWatched
      <3> QED BY <1>3, <1>6, <1>8, <2>1, <3>4 DEF OnInitialBreak, Reported
    <2>3. CASE rearm = NoRearm
      <3>1. mem' = mem
        BY <1>8, <2>3 DEF OnSingleStep
      <3>2. \A u \in Callers, p \in Entries : ~StepsOver(u, p)
        BY <2>3, SiteFacts DEF StepsOver, NoRearm, Entries
      <3>3. EntriesWatched'
        BY <1>4, <2>1, <3>1, <3>2 DEF WatchInv, EntriesWatched
      <3> QED BY <1>3, <1>6, <1>8, <2>1, <3>3 DEF OnInitialBreak, Reported
    <2> QED BY <2>2, <2>3
  <1>9. CASE \/ OnUnknownBreakpoint(t) \/ OnOther(t) \/ OnException(t) \/ OnExit(t) \/ OnCreateProcess
    <2>1. /\ UNCHANGED <<mem, rearm, initialSeen, tf>>
          /\ UNCHANGED <<raised, ip>> \/ (raised[t].kind \in {"bp", "other"} /\ \E st : Continue(t, st))
      BY <1>9 DEF OnUnknownBreakpoint, OnOther, OnException, OnExit, OnCreateProcess, targetVars,
                  Reported
    <2>2. ASSUME NEW u \in Callers, NEW p \in Entries, StepsOver(u, p) PROVE StepsOver(u, p)'
      <3>1. u \in Threads
        BY SiteFacts
      <3>2. \/ tf[u] /\ raised[u] = NoEvent /\ ip[u] = At(p)
            \/ raised[u].kind = "step"
        BY <1>1, <2>2 DEF StepsOver
      <3>3. UNCHANGED <<raised[u], ip[u], tf[u]>>
        BY <2>1, <3>1, <3>2 DEF Continue, NoEvent, PlaceInv
      <3> QED BY <2>1, <2>2, <3>2, <3>3 DEF StepsOver
    <2>3. EntriesWatched'
      BY <1>4, <2>1, <2>2 DEF WatchInv, EntriesWatched
    <2>4. PlanFollowed'
      BY <1>1, <1>2, <2>1 DEF WatchInv, PlanFollowed
    <2> QED BY <1>3, <2>3, <2>4
  <1> QED BY <1>5, <1>7, <1>8, <1>9 DEF Handle

LEMMA PlansDiffer ==
    /\ <<Query, SetThread, Goal>> # <<>> /\ <<SetThread, Goal>> # <<>>
    /\ <<Query, SetThread, Goal>> # <<SetThread, Goal>>
    /\ <<Query, SetThread, Goal>> # <<Goal>> /\ <<SetThread, Goal>> # <<Goal>>
  <1>1. <<Query, SetThread, Goal>>[1] # <<SetThread, Goal>>[1]
    BY SiteFacts
  <1>2. <<SetThread, Goal>>[1] # <<Goal>>[1] /\ <<Query, SetThread, Goal>>[1] # <<Goal>>[1]
    BY SiteFacts
  <1> QED BY <1>1, <1>2

LEMMA SetKeepsWatch ==
    ASSUME PlaceInv, WatchInv, Hiding, NEW x \in Sites, SetBreakpoint(x)
    PROVE  /\ EntriesPersist'
           /\ x \in Entries => mem'[x] = "int3"
           /\ initialSeen /\ UNCHANGED <<initialSeen, pc, stop, mode>>
                => \A p \in Entries : \/ mem'[p] = "int3"
                                      \/ ToBeArmed(p) /\ p # x
                                      \/ \E u \in Callers : StepsOver(u, p)'
  <1>1. /\ mem' = [mem EXCEPT ![x] = "int3"]
        /\ persistent' = IF x \in PersistentSites THEN persistent \cup {x} ELSE persistent
        /\ UNCHANGED <<ip, tf, raised, rearm, pending, initialSeen, pc, stop>>
    BY DEF SetBreakpoint
  <1>2. Armed' = Armed \cup {x}
    BY SetArms DEF PlaceInv
  <1>3. EntriesPersist'
    BY <1>1, <1>2, SiteFacts DEF EntriesPersist, WatchInv, Entries
  <1>4. \A p \in Entries : mem'[p] = "int3" \/ (mem'[p] = mem[p] /\ p # x)
    BY <1>1, SiteFacts DEF PlaceInv, TypeOK, Entries
  <1>5. \A u, p : StepsOver(u, p) => StepsOver(u, p)'
    BY <1>1 DEF StepsOver
  <1>6. initialSeen => \A p \in Entries :
           mem[p] = "int3" \/ ToBeArmed(p) \/ \E u \in Callers : StepsOver(u, p)
    BY DEF WatchInv, EntriesWatched
  <1>7. x \in Entries => mem'[x] = "int3"
    BY <1>1 DEF PlaceInv, TypeOK
  <1> QED BY <1>3, <1>4, <1>5, <1>6, <1>7

LEMMA WatchClient ==
    ASSUME PlaceInv, Held, WatchInv, Move, EngineStep
    PROVE  WatchInv'
  <1>0. mode' = mode
    BY Moves DEF ArmNext, OnQueryEntry, OnSetThread, OnQueryReturn, Serve, GoesOn, GoOn, Leave,
           Closes, Breaks, AtBreakpoint, clientVars
  <1> SUFFICES ASSUME Hiding, Hiding' PROVE (EntriesWatched /\ PlanFollowed /\ EntriesPersist)'
    BY <1>0, WatchingLasts DEF WatchInv
  <1>1. CASE ArmNext
    <2> DEFINE h == Head(toArm)
    <2>1. /\ SetBreakpoint(h) /\ toArm' = Tail(toArm) /\ toArm # <<>> /\ stop.kind = "initial"
          /\ initialSeen /\ UNCHANGED <<initialSeen, pc, stop>>
      BY <1>1 DEF ArmNext, SetBreakpoint, StoppedAlive
    <2>2. h \in Sites
      BY <2>1, PlanTail, SiteFacts DEF PlaceInv, ClientTyped
    <2>3. /\ EntriesPersist'
          /\ \A p \in Entries : \/ mem'[p] = "int3"
                                \/ ToBeArmed(p) /\ p # h
                                \/ \E u \in Callers : StepsOver(u, p)'
      BY <1>0, <2>1, <2>2, SetKeepsWatch
    <2>4. ASSUME NEW p \in Entries, ToBeArmed(p), p # h PROVE ToBeArmed(p)'
      <3>1. \/ toArm = <<Query, SetThread, Goal>> /\ p = SetThread
            \/ toArm = <<SetThread, Goal>> /\ p = SetThread /\ h = SetThread
        BY <2>4, PlanTail DEF ToBeArmed, Entries
      <3>2. toArm = <<Query, SetThread, Goal>> /\ p = SetThread
        BY <2>4, <3>1
      <3>3. toArm' = <<SetThread, Goal>>
        BY <2>1, <3>2, PlanTail
      <3> QED BY <2>1, <3>2, <3>3 DEF ToBeArmed
    <2>5. EntriesWatched' /\ PlanFollowed'
      BY <2>1, <2>3, <2>4 DEF EntriesWatched, PlanFollowed
    <2> QED BY <2>3, <2>5
  <1>2. CASE OnQueryEntry /\ ~UNCHANGED vars
    <2> DEFINE r == call[pending.tid].ret
    <2>1. /\ SetBreakpoint(r) /\ UNCHANGED <<toArm, initialSeen, pc, stop>> /\ initialSeen
          /\ stop.kind = "breakpoint"
      BY <1>2 DEF OnQueryEntry, AtBreakpoint, SetBreakpoint, StoppedAlive
    <2>2. r \in Sites
      BY <1>2, StopFacts, SiteFacts DEF OnQueryEntry, QueryCalls
    <2> HIDE DEF r
    <2>3. /\ EntriesPersist'
          /\ \A p \in Entries : \/ mem'[p] = "int3"
                                \/ ToBeArmed(p)
                                \/ \E u \in Callers : StepsOver(u, p)'
      BY <1>0, <2>1, <2>2, SetKeepsWatch
    <2>4. EntriesWatched' /\ PlanFollowed'
      BY <2>1, <2>3 DEF EntriesWatched, PlanFollowed, ToBeArmed, WatchInv
    <2> QED BY <2>3, <2>4
  <1>3. CASE UNCHANGED vars /\ toArm' = toArm
    <2>1. UNCHANGED <<mem, ip, tf, raised, breakpoints, persistent, rearm, pending, initialSeen,
                      pc, stop, toArm>>
      BY <1>3 DEF vars, targetVars, engineVars
    <2> QED BY <2>1 DEF WatchInv, EntriesWatched, ToBeArmed, StepsOver, PlanFollowed,
                        EntriesPersist, Armed
  <1>4. CASE GoesOn
    <2>1. /\ pc = "stopped" /\ pc' = "waiting" /\ stop' = NoStop /\ tf' = TrapFlags
          /\ ContinuePending
          /\ UNCHANGED <<mem, breakpoints, persistent, rearm, initialSeen, toArm>>
          /\ stop.kind = "initial" => toArm = <<>>
      BY <1>4 DEF GoesOn, GoOn, Cont
    <2>2. PlanFollowed' /\ EntriesPersist'
      BY <2>1 DEF WatchInv, PlanFollowed, EntriesPersist, Armed, NoStop
    <2>3. \A p : ~ToBeArmed(p)
      BY <2>1, PlansDiffer DEF ToBeArmed
    <2>4. ASSUME NEW u \in Callers, NEW p \in Entries, StepsOver(u, p) PROVE StepsOver(u, p)'
      <3>1. u \in Threads /\ rearm = [site |-> p, tid |-> u] /\ rearm' = rearm /\ rearm # NoRearm
        BY <2>1, <2>4, SiteFacts DEF StepsOver, NoRearm, Entries
      <3>2. tf'[u]
        BY <2>1, <3>1 DEF TrapFlags, PlaceInv, TypeOK
      <3>3. CASE /\ pending.tid = u /\ pending # NoPending /\ ip[u] = At(p)
        <4>1. Continue(u, pending.status)
          BY <2>1, <3>3 DEF ContinuePending
        <4>2. raised'[u] = NoEvent /\ ip'[u] = At(p)
          BY <3>1, <3>3, <4>1 DEF Continue, At, PlaceInv, TypeOK
        <4> QED BY <3>1, <3>2, <4>2 DEF StepsOver
      <3>4. CASE ~(pending.tid = u /\ pending # NoPending)
        <4>1. raised'[u] = raised[u] /\ ip'[u] = ip[u]
          BY <2>1, <3>1, <3>4 DEF ContinuePending, Continue, PlaceInv, TypeOK
        <4>2. (raised[u] = NoEvent /\ ip[u] = At(p)) \/ raised[u].kind = "step"
          BY <2>4, <3>4 DEF StepsOver
        <4> QED BY <3>1, <3>2, <4>1, <4>2 DEF StepsOver
      <3>5. CASE pending.tid = u /\ pending # NoPending /\ ip[u] # At(p)
        <4>1. raised[u].kind = "step" \/ raised[u] = NoEvent
          BY <2>4, <3>5 DEF StepsOver
        <4> QED BY <2>1, <3>5, <4>1 DEF Held, NoEvent
      <3> QED BY <3>3, <3>4, <3>5
    <2>5. EntriesWatched'
      BY <2>1, <2>3, <2>4 DEF WatchInv, EntriesWatched
    <2> QED BY <2>2, <2>5
  <1>5. CASE Leave \/ Closes \/ Breaks
    <2>1. pc' \notin {"stopped", "waiting"}
      BY <1>5, FailsIs DEF Leave, Closes, Breaks, Detach, StopDebugging, RestoreByte
    <2> QED BY <2>1 DEF Hiding, Watching
  <1>6. /\ OnSetThread \/ (\E s \in Sites : Serve(s)) \/ (\E s \in ReturnSites : OnQueryReturn(s))
              => UNCHANGED vars /\ toArm' = toArm
        /\ OnQueryEntry => toArm' = toArm
    BY DEF OnSetThread, Serve, OnQueryReturn, OnQueryEntry, AtBreakpoint
  <1> QED BY <1>1, <1>2, <1>3, <1>4, <1>5, <1>6, Moves

-----------------------------------------------------------------------------
(* The calls of the one caller are served before they have an effect.      *)

(* Steps that open no entry point and lose nothing that is awaited.        *)
LEMMA ServedStays ==
    ASSUME PlaceInv, Served, UNCHANGED <<returns, call, out, status>>,
           \A u \in Threads, p \in Entries :
               /\ ip'[u] = At(p) => ip[u] = At(p)
               /\ mem'[p] = "orig" => mem[p] = "orig"
               /\ Unserved(u, p) => Unserved(u, p)',
           \A u \in Threads, r \in ReturnSites : Awaited(u, r) => Awaited(u, r)'
    PROVE  Served'
  <1>1. HidesServed'
    BY DEF Served, HidesServed, Entries
  <1>2. \A u \in Threads : call[u].class \in DebugClasses => call[u].ret \in ReturnSites
    BY CallerFacts
  <1>3. QueriesServed'
    <2> SUFFICES ASSUME NEW u \in Threads,
                        call[u].class \in DebugClasses, call[u].fn = "query",
                        ip'[u] = At(Query), mem'[Query] = "orig"
                 PROVE  Unserved(u, Query)' \/ Awaited(u, call[u].ret)'
      BY DEF QueriesServed
    <2>1. Unserved(u, Query) \/ Awaited(u, call[u].ret)
      BY DEF Served, QueriesServed, Entries
    <2>2. Unserved(u, Query) => Unserved(u, Query)'
      BY DEF Entries
    <2>3. ASSUME NEW r, r = call[u].ret PROVE Awaited(u, r) => Awaited(u, r)'
      BY <1>2, <2>3
    <2>4. Awaited(u, call[u].ret) => Awaited(u, call[u].ret)'
      BY <2>3 DEF Awaited, Unserved
    <2> QED BY <2>1, <2>2, <2>4
  <1>4. AnswersRewritten'
    <2> SUFFICES ASSUME NEW u \in Threads,
                        call[u].class \in DebugClasses, call[u].fn = "returning"
                 PROVE  IF returns[call[u].ret] # NoReturn
                          THEN Awaited(u, call[u].ret)' /\ status[u] = "success"
                          ELSE Answered(u)
      BY DEF AnswersRewritten, Answered
    <2>1. IF returns[call[u].ret] # NoReturn
            THEN Awaited(u, call[u].ret) /\ status[u] = "success"
            ELSE Answered(u)
      BY DEF Served, AnswersRewritten
    <2>2. ASSUME NEW r, r = call[u].ret PROVE Awaited(u, r) => Awaited(u, r)'
      BY <1>2, <2>2
    <2>3. Awaited(u, call[u].ret) => Awaited(u, call[u].ret)'
      BY <2>2 DEF Awaited, Unserved
    <2> QED BY <2>1, <2>3
  <1>5. ReturnsFit'
    BY DEF Served, ReturnsFit
  <1> QED BY <1>1, <1>3, <1>4, <1>5 DEF Served

LEMMA OpenEntry ==
    ASSUME OneCaller, PlaceInv, WatchInv, Hiding, NEW t \in Callers, NEW p \in Entries,
           Reach(t, p)
    PROVE  mem[p] = "int3"
  <1>1. /\ pc = "waiting" /\ raised[t] = NoEvent /\ ~tf[t] /\ Started
    BY DEF Reach, Free, Running, Hiding, Watching
  <1>2. initialSeen
    BY <1>1 DEF Started, Hiding, PlaceInv, ClientTyped
  <1>3. ~ToBeArmed(p)
    BY <1>1 DEF ToBeArmed, PlaceInv, AtStop
  <1>4. ASSUME NEW u \in Callers, StepsOver(u, p) PROVE FALSE
    <2>1. u = t
      BY DEF OneCaller
    <2> QED BY <1>1, <1>4, <2>1 DEF StepsOver, NoEvent
  <1> QED BY <1>2, <1>3, <1>4 DEF WatchInv, EntriesWatched

(* The caller in no query: nothing is awaited.                             *)
LEMMA NothingAwaited ==
    ASSUME PlaceInv, ReturnsFit, NEW t \in Callers, call[t].class \notin DebugClasses
    PROVE  \A r \in ReturnSites : returns[r] = NoReturn
  BY DEF ReturnsFit, PlaceInv, ClientTyped, Returns

LEMMA ReachServed ==
    ASSUME OneCaller, PlaceInv, WatchInv, Served, Hiding, NEW t \in Threads,
           CallQuery(t) \/ CallSetThread(t) \/ ReachGoal(t) \/ ComeBack(t)
    PROVE  Served' /\ UNCHANGED <<detected, hidden>>
  <1>1. /\ UNCHANGED <<returns, out, status, detected, hidden, mem, breakpoints, served, pc, stop,
                       pending>>
        /\ pc # "stopped"
    BY DEF CallQuery, CallSetThread, ReachGoal, ComeBack, clientVars, callVars, Reach, Free,
           Running, engineVars
  <1>2. \A u, r : (Awaited(u, r) <=> Awaited(u, r)') /\ ~Unserved(u, r)
    BY <1>1 DEF Awaited, Unserved, Armed
  <1>3. CASE ReachGoal(t) \/ ComeBack(t)
    <2>1. PICK s : s \notin Entries /\ ip' = [ip EXCEPT ![t] = At(s)]
      <3>1. ComeBack(t) => call[t].ret \in ReturnSites
        BY DEF ComeBack, PlaceInv, CallsTyped, QueryCalls, SetCalls, NoCall
      <3> QED BY <1>3, <3>1, SiteFacts DEF ReachGoal, ComeBack, Reach, Entries
    <2>2. call' = call
      BY <1>3 DEF ReachGoal, ComeBack, callVars
    <2>3. \A u \in Threads, p \in Entries : ip'[u] = At(p) => ip[u] = At(p)
      BY <2>1 DEF At, PlaceInv, TypeOK
    <2>4. Served'
      BY <1>1, <1>2, <2>2, <2>3, ServedStays
    <2> QED BY <1>1, <2>4
  <1>4. CASE CallQuery(t) \/ CallSetThread(t)
    <2>1. t \in Callers /\ call[t] = NoCall
      BY <1>4 DEF CallQuery, CallSetThread, Idle
    <2>2. \A r \in ReturnSites : returns[r] = NoReturn
      BY <2>1, NothingAwaited, CallerFacts DEF Served
    <2>3. PICK p \in Entries, c \in QueryCalls \cup SetCalls :
             /\ ip' = [ip EXCEPT ![t] = At(p)] /\ mem[p] = "int3"
             /\ call' = [call EXCEPT ![t] = c]
             /\ c.fn # "returning" /\ (p = Query <=> c.fn = "query")
      <3>1. CASE CallQuery(t)
        <4>1. PICK c \in DebugClasses \cup {"other"}, r \in ReturnSites :
                 call' = [call EXCEPT ![t] = [fn |-> "query", class |-> c, ret |-> r]]
          BY <3>1 DEF CallQuery
        <4> DEFINE d == [fn |-> "query", class |-> c, ret |-> r]
        <4>2. d \in QueryCalls /\ d.fn = "query"
          BY DEF QueryCalls
        <4>3. Reach(t, Query) /\ mem[Query] = "int3" /\ ip' = [ip EXCEPT ![t] = At(Query)]
          BY <2>1, <3>1, OpenEntry DEF CallQuery, Entries, Reach
        <4> HIDE DEF d
        <4>4. call' = [call EXCEPT ![t] = d]
          BY <4>1 DEF d
        <4> QED BY <4>2, <4>3, <4>4 DEF Entries
      <3>2. CASE CallSetThread(t)
        <4>1. PICK c \in {"hide", "other"} :
                 call' = [call EXCEPT ![t] = [fn |-> "set", class |-> c, ret |-> NoSite]]
          BY <3>2 DEF CallSetThread
        <4>2. [fn |-> "set", class |-> c, ret |-> NoSite] \in SetCalls
          BY DEF SetCalls
        <4>3. Reach(t, SetThread) /\ mem[SetThread] = "int3" /\ ip' = [ip EXCEPT ![t] = At(SetThread)]
          BY <2>1, <3>2, OpenEntry DEF CallSetThread, Entries, Reach
        <4> QED BY <4>1, <4>2, <4>3, SiteFacts DEF Entries
      <3> QED BY <1>4, <3>1, <3>2
    <2>4. \A u \in Threads : u # t => ip'[u] = ip[u] /\ call'[u] = call[u]
      BY <2>3 DEF PlaceInv, TypeOK, CallsTyped
    <2>5. ip'[t] = At(p) /\ call'[t] = c /\ \A q : At(p) = At(q) => p = q
      BY <2>3 DEF At, PlaceInv, TypeOK, CallsTyped
    <2>6. HidesServed'
      BY <1>1, <1>2, <2>3, <2>4, <2>5 DEF Served, HidesServed
    <2>7. QueriesServed'
      <3> SUFFICES ASSUME NEW u \in Threads,
                          call'[u].class \in DebugClasses, call'[u].fn = "query",
                          ip'[u] = At(Query), mem'[Query] = "orig"
                   PROVE  FALSE
        BY DEF QueriesServed
      <3>1. u # t
        BY <1>1, <2>3, <2>5
      <3>2. Unserved(u, Query) \/ Awaited(u, call[u].ret)
        BY <1>1, <2>4, <3>1 DEF Served, QueriesServed
      <3>3. call[u].ret \in ReturnSites
        BY <2>4, <3>1, CallerFacts
      <3> QED BY <1>2, <2>2, <3>2, <3>3 DEF Awaited
    <2>8. AnswersRewritten'
      <3> SUFFICES ASSUME NEW u \in Threads,
                          call'[u].class \in DebugClasses, call'[u].fn = "returning"
                   PROVE  returns'[call'[u].ret] = NoReturn /\ Answered(u)'
        BY DEF AnswersRewritten
      <3>1. u # t
        BY <2>3, <2>5
      <3>2. call[u].ret \in ReturnSites /\ call'[u] = call[u]
        BY <2>4, <3>1, CallerFacts
      <3>3. Answered(u)
        BY <2>2, <3>2 DEF Served, AnswersRewritten
      <3> QED BY <1>1, <2>2, <3>2, <3>3 DEF Answered
    <2>9. ReturnsFit'
      BY <1>1, <2>2 DEF ReturnsFit
    <2> QED BY <1>1, <2>6, <2>7, <2>8, <2>9 DEF Served
  <1> QED BY <1>3, <1>4

(* The kernel's part of a query, and the caller's look at its answer.      *)
LEMMA RunServed ==
    ASSUME OneCaller, PlaceInv, Held, WatchInv, Served, Hiding, NEW t \in Threads, Run(t)
    PROVE  Served' /\ UNCHANGED <<detected, hidden>>
  <1>1. /\ UNCHANGED <<returns, mem, breakpoints, served, pc, stop, pending>>
        /\ pc = "waiting" /\ raised[t] = NoEvent
        /\ ip' = [ip EXCEPT ![t] = Elsewhere]
        /\ ip[t].site \in Sites => mem[ip[t].site] = "orig"
    BY SiteFacts DEF Run, Execute, Free, Running, clientVars, engineVars, Hiding, Watching, Elsewhere
  <1>2. \A u, r : (Awaited(u, r) <=> Awaited(u, r)') /\ ~Unserved(u, r)
    BY <1>1 DEF Awaited, Unserved, Armed
  <1>3. ~ip[t].past
    BY <1>1 DEF Held, NoEvent
  <1>4. \A p \in Sites : ip[t].site = p => ip[t] = At(p)
    BY <1>3 DEF PlaceInv, TypeOK, Places, At
  <1>5. \A u \in Threads, p \in Entries : ip'[u] = At(p) => ip[u] = At(p) /\ u # t
    BY <1>1, SiteFacts DEF PlaceInv, TypeOK, At, Elsewhere, Entries
  <1>6. CASE ip[t].site = Query
    <2>1. /\ call' = [call EXCEPT ![t] = [call[t] EXCEPT !.fn = "returning"]]
          /\ status' = [status EXCEPT ![t] = "success"]
          /\ \E o : out' = [out EXCEPT ![t] = o]
          /\ UNCHANGED <<detected, hidden>>
      BY <1>6, SiteFacts DEF Run
    <2>2. t \in Callers /\ call[t].fn = "query" /\ ip[t] = At(Query) /\ mem[Query] = "orig"
      BY <1>1, <1>4, <1>6, CallerFacts, SiteFacts DEF Entries
    <2>3. \A u \in Threads : u # t => /\ call'[u] = call[u] /\ call[u].class \notin DebugClasses
      BY <2>1, <2>2, CallerFacts DEF OneCaller, PlaceInv, CallsTyped
    <2>4. call[t] \in QueryCalls
      BY <2>2, CallerFacts DEF PlaceInv, CallsTyped, QueryCalls, SetCalls, NoCall
    <2>5. call'[t].class = call[t].class /\ call'[t].ret = call[t].ret /\ call'[t].fn = "returning"
          /\ status'[t] = "success"
      BY <2>1, <2>4 DEF PlaceInv, CallsTyped, QueryCalls
    <2>6. HidesServed'
      BY <1>1, <1>2, <1>5, <2>3 DEF Served, HidesServed, Entries
    <2>7. QueriesServed'
      BY <2>3, <2>5 DEF QueriesServed
    <2>8. AnswersRewritten'
      <3> SUFFICES ASSUME NEW u \in Threads, NEW r, r = call'[u].ret,
                          call'[u].class \in DebugClasses
                   PROVE  returns'[r] # NoReturn /\ Awaited(u, r)' /\ status'[u] = "success"
        BY DEF AnswersRewritten, Awaited, Unserved
      <3>1. u = t
        BY <2>3
      <3>2. Awaited(t, call[t].ret)
        BY <1>2, <2>2, <2>5, <3>1 DEF Served, QueriesServed
      <3>3. Awaited(t, r)
        BY <2>5, <3>1, <3>2
      <3> QED BY <1>1, <1>2, <2>5, <3>1, <3>3 DEF Awaited
    <2>9. ReturnsFit'
      BY <1>1, <2>3, <2>5, SiteFacts DEF Served, ReturnsFit
    <2> QED BY <2>1, <2>6, <2>7, <2>8, <2>9 DEF Served
  <1>7. CASE ip[t].site \in {SetThread} \cup ReturnSites
    <2>1. call' = [call EXCEPT ![t] = NoCall] /\ t \in Callers
      BY <1>7, CallerFacts, SiteFacts DEF Run, Entries
    <2>2. call'[t] = NoCall /\ NoCall.class \notin DebugClasses \cup {"hide"}
      BY <2>1 DEF PlaceInv, CallsTyped, NoCall, DebugClasses
    <2>3. \A u \in Threads : u # t => /\ call'[u] = call[u]
                                      /\ call[u].class \notin DebugClasses \cup {"hide"}
      BY <2>1, CallerFacts DEF OneCaller, PlaceInv, CallsTyped
    <2>4. HidesServed' /\ QueriesServed' /\ AnswersRewritten'
      BY <2>2, <2>3 DEF HidesServed, QueriesServed, AnswersRewritten
    <2>5. (\A r \in ReturnSites : returns[r] = NoReturn) /\ UNCHANGED <<detected, hidden>>
      <3>1. CASE ip[t].site = SetThread
        <4>1. \A r \in ReturnSites : returns[r] = NoReturn
          BY <2>1, <3>1, CallerFacts, NothingAwaited DEF Served
        <4>2. call[t].class # "hide"
          BY <1>1, <1>2, <1>4, <3>1, SiteFacts DEF Served, HidesServed
        <4> QED BY <3>1, <4>1, <4>2, SiteFacts DEF Run
      <3>2. CASE ip[t].site \in ReturnSites
        <4>1. call[t].fn = "returning" /\ call[t].ret = ip[t].site /\ mem[ip[t].site] = "orig"
          BY <1>1, <3>2, CallerFacts, SiteFacts
        <4>2. ~Awaited(t, call[t].ret)
          BY <1>2, <4>1 DEF Awaited
        <4>3. call[t].class \in DebugClasses => returns[call[t].ret] = NoReturn /\ Answered(t)
          BY <4>1, <4>2 DEF Served, AnswersRewritten
        <4>4. \A r \in ReturnSites : returns[r] = NoReturn
          <5>1. CASE call[t].class \notin DebugClasses
            BY <2>1, <5>1, NothingAwaited DEF Served
          <5>2. CASE call[t].class \in DebugClasses
            BY <2>1, <4>3, <5>2 DEF Served, ReturnsFit
          <5> QED BY <5>1, <5>2
        <4>5. /\ hidden' = hidden
              /\ \/ detected' = detected
                 \/ call[t].class \in DebugClasses /\ ~Answered(t)
          BY <3>2, SiteFacts DEF Run, Answered
        <4> QED BY <4>3, <4>4, <4>5
      <3> QED BY <1>7, <3>1, <3>2
    <2>6. ReturnsFit'
      BY <1>1, <2>5 DEF ReturnsFit
    <2> QED BY <2>4, <2>5, <2>6 DEF Served
  <1>8. CASE ip[t].site \notin Entries \cup ReturnSites
    <2>1. UNCHANGED <<call, out, status, detected, hidden>>
      BY <1>8, Zenon DEF Run, callVars, Entries
    <2> QED BY <1>1, <1>2, <1>5, <2>1, ServedStays
  <1> QED BY <1>6, <1>7, <1>8 DEF Entries

(* The rest of the target, and the event loop.                             *)
LEMMA QuietServed ==
    ASSUME OneCaller, PlaceInv, Served, Hiding, NEW t \in Threads, Quiet(t)
    PROVE  Served'
  <1> USE DEF TypeOK
  <1>1. UNCHANGED <<returns, served, call, out, status>> /\ pc = "waiting" /\ ~served
    <2>1. pc = "waiting"
      BY DEF Quiet, Handle, OnSingleStep, OnInitialBreak, OnBreakpoint, OnUnknownBreakpoint,
             OnException, OnOther, OnExit, OnCreateProcess, Reported, LoaderBreak, HitInt3,
             ExitProcess, RaiseOther, Free, Running, Hiding, Watching
    <2> QED BY <2>1 DEF Quiet, clientVars, callVars, PlaceInv, AtStop
  <1>2. \A u, r : ~Unserved(u, r)
    BY <1>1 DEF Unserved
  <1>3. CASE ~OnBreakpoint(t)
    <2>1. /\ breakpoints' = breakpoints
          /\ mem' = mem \/ (rearm # NoRearm /\ mem' = [mem EXCEPT ![rearm.site] = "int3"])
      BY <1>3 DEF Quiet, Handle, OnSingleStep, StepEnds, PutBack, OnInitialBreak, OnUnknownBreakpoint,
             OnException, OnOther, OnExit, OnCreateProcess, LoaderBreak, HitInt3, ExitProcess,
             RaiseOther, targetVars, engineVars
    <2>2. \A p \in Sites : mem'[p] = mem[p] \/ mem'[p] = "int3"
      BY <2>1 DEF PlaceInv
    <2>3. \A u \in Threads, p \in Entries : ip'[u] = At(p) => ip[u] = At(p)
      <3>1. CASE OnSingleStep(t) \/ OnUnknownBreakpoint(t) \/ OnOther(t)
        <4>1. PICK st : Continue(t, st)
          BY <3>1 DEF OnSingleStep, OnUnknownBreakpoint, OnOther
        <4> QED BY <4>1, SiteFacts DEF Continue, Elsewhere, At, Entries, PlaceInv
      <3>2. CASE HitInt3(t)
        BY <3>2, SiteFacts DEF HitInt3, PastInt3, Elsewhere, At, Entries, PlaceInv
      <3>3. CASE \/ OnInitialBreak(t) \/ OnException(t) \/ OnExit(t) \/ OnCreateProcess
                 \/ LoaderBreak(t) \/ ExitProcess(t) \/ RaiseOther(t)
        BY <3>3 DEF OnInitialBreak, OnException, OnExit, OnCreateProcess, LoaderBreak, ExitProcess,
                    RaiseOther, targetVars
      <3> QED BY <1>3, <3>1, <3>2, <3>3 DEF Quiet, Handle
    <2>4. \A u \in Threads, r \in ReturnSites : Awaited(u, r) => Awaited(u, r)'
      <3>1. \A r \in ReturnSites : mem[r] = "int3" => mem'[r] = "int3"
        BY <2>2, SiteFacts
      <3> QED BY <1>1, <1>2, <2>1, <3>1 DEF Awaited, Armed
    <2> QED BY <1>1, <1>2, <2>2, <2>3, <2>4, ServedStays, SiteFacts DEF Entries
  <1>4. CASE OnBreakpoint(t)
    <2> DEFINE s == raised[t].site
    <2>1. /\ s \in Sites /\ s # NoSite /\ mem' = [mem EXCEPT ![s] = breakpoints[s]]
          /\ ip' = [ip EXCEPT ![t] = At(s)]
          /\ breakpoints' = breakpoints \/ breakpoints' = [breakpoints EXCEPT ![s] = "none"]
          /\ pending' = [tid |-> t, status |-> "continue"] /\ pc' = "stopped"
          /\ stop' = [kind |-> "breakpoint", site |-> s]
      BY <1>4, SiteFacts DEF OnBreakpoint, Rewind, Return, Consume, Armed
    <2>2. ip[t].site = s
      BY <2>1, CallerFacts
    <2>3. \A p : p = s => Unserved(t, p)'
      BY <1>1, <2>1 DEF Unserved
    <2>4. /\ \A p \in Sites : p # s => mem'[p] = mem[p] /\ (p \in Armed => p \in Armed')
          /\ \A u \in Threads : u # t => ip'[u] = ip[u]
      BY <2>1 DEF PlaceInv, Armed
    <2>5. \A u \in Threads, r \in ReturnSites : Awaited(u, r) /\ r # s => Awaited(u, r)'
      BY <1>1, <1>2, <2>4, SiteFacts DEF Awaited
    <2>6. \A p : ip'[t] = At(p) => p = s
      BY <2>1 DEF At, PlaceInv
    <2> HIDE DEF s
    <2>7. HidesServed'
      <3> SUFFICES ASSUME NEW u \in Threads,
                          ip'[u] = At(SetThread), mem'[SetThread] = "orig", call[u].class = "hide"
                   PROVE  Unserved(u, SetThread)'
        BY <1>1 DEF HidesServed
      <3>1. CASE u = t
        BY <2>3, <2>6, <3>1
      <3>2. CASE u # t
        <4>1. ip[u] = At(SetThread) /\ mem[SetThread] # "orig"
          BY <1>2, <2>4, <3>2 DEF Served, HidesServed
        <4>2. s = SetThread
          BY <2>4, <4>1, SiteFacts
        <4>3. t \in Callers /\ u \in Callers
          BY <2>2, <4>2, CallerFacts DEF Entries
        <4> QED BY <3>2, <4>3 DEF OneCaller
      <3> QED BY <3>1, <3>2
    <2>8. QueriesServed'
      <3> SUFFICES ASSUME NEW u \in Threads,
                          call[u].class \in DebugClasses, call[u].fn = "query",
                          ip'[u] = At(Query), mem'[Query] = "orig"
                   PROVE  Unserved(u, Query)' \/ Awaited(u, call[u].ret)'
        BY <1>1 DEF QueriesServed
      <3>0. u \in Callers /\ call[u].ret \in ReturnSites
        BY CallerFacts
      <3>1. CASE u = t
        BY <2>3, <2>6, <3>1
      <3>2. CASE u # t
        <4>1. t \notin Callers
          BY <3>0, <3>2 DEF OneCaller
        <4>2. s \notin Entries \cup ReturnSites
          BY <2>2, <4>1, CallerFacts
        <4>3. ip[u] = At(Query) /\ mem[Query] = "orig"
          BY <2>4, <3>2, <4>2, SiteFacts DEF Entries
        <4>4. Awaited(u, call[u].ret)
          BY <1>2, <4>3 DEF Served, QueriesServed
        <4>5. ASSUME NEW r, r = call[u].ret PROVE Awaited(u, r)'
          BY <2>5, <3>0, <4>2, <4>4, <4>5
        <4> QED BY <1>1, <4>5 DEF Awaited, Unserved
      <3> QED BY <3>1, <3>2
    <2>9. AnswersRewritten'
      <3> SUFFICES ASSUME NEW u \in Threads, NEW r,
                          call[u].class \in DebugClasses, call[u].fn = "returning", r = call[u].ret
                   PROVE  IF returns[r] # NoReturn
                            THEN Awaited(u, r)' /\ status[u] = "success"
                            ELSE Answered(u)
        BY <1>1 DEF AnswersRewritten, Answered, Awaited, Unserved
      <3>1. u \in Callers /\ r \in ReturnSites
        BY CallerFacts
      <3>2. IF returns[r] # NoReturn THEN Awaited(u, r) /\ status[u] = "success" ELSE Answered(u)
        BY DEF Served, AnswersRewritten
      <3>3. CASE r # s
        BY <2>5, <3>1, <3>2, <3>3
      <3>4. CASE r = s
        <4>1. t \in Callers
          BY <2>2, <3>1, <3>4, CallerFacts
        <4>2. u = t
          BY <3>1, <4>1 DEF OneCaller
        <4>3. Unserved(u, r)'
          BY <2>3, <3>4, <4>2
        <4> QED BY <1>1, <3>2, <4>3 DEF Awaited
      <3> QED BY <3>3, <3>4
    <2>10. ReturnsFit'
      BY <1>1 DEF Served, ReturnsFit
    <2> QED BY <2>7, <2>8, <2>9, <2>10 DEF Served
  <1> QED BY <1>3, <1>4

(* What the interceptor does at its stops.                                 *)
LEMMA EntryServed ==
    ASSUME OneCaller, PlaceInv, Served, Hiding, OnQueryEntry
    PROVE  Served'
  <1> DEFINE t == pending.tid
             r == call[t].ret
  <1>1. /\ t \in Callers /\ t \in Threads /\ call[t] \in QueryCalls /\ call[t].fn = "query"
        /\ stop.site = Query /\ served' = TRUE /\ call' = call /\ UNCHANGED <<out, status>>
    BY StopFacts DEF OnQueryEntry, AtBreakpoint, callVars
  <1>2. r \in ReturnSites /\ r \in Sites
    BY <1>1, SiteFacts DEF QueryCalls
  <1>3. \/ UNCHANGED <<vars, returns>> /\ call[t].class \notin DebugClasses
        \/ /\ SetBreakpoint(r) /\ call[t].class \in DebugClasses
           /\ returns' = [returns EXCEPT ![r] = [class |-> call[t].class, buffer |-> t]]
    BY DEF OnQueryEntry, Intercepted
  <1> HIDE DEF t, r
  <1>4. \A u \in Threads : u # t => call[u].class \notin DebugClasses \cup {"hide"}
    BY <1>1, CallerFacts DEF OneCaller
  <1>5. call[t].class # "hide"
    BY <1>1 DEF QueryCalls, DebugClasses
  <1>6. HidesServed'
    BY <1>1, <1>4, <1>5 DEF HidesServed
  <1>7. AnswersRewritten'
    BY <1>1, <1>4 DEF AnswersRewritten
  <1>8. CASE UNCHANGED <<vars, returns>> /\ call[t].class \notin DebugClasses
    <2>1. QueriesServed'
      BY <1>1, <1>4, <1>8 DEF QueriesServed
    <2>2. ReturnsFit'
      BY <1>1, <1>8 DEF Served, ReturnsFit
    <2> QED BY <1>6, <1>7, <2>1, <2>2 DEF Served
  <1>9. CASE /\ SetBreakpoint(r) /\ call[t].class \in DebugClasses
             /\ returns' = [returns EXCEPT ![r] = [class |-> call[t].class, buffer |-> t]]
    <2>1. returns'[r] = [class |-> call[t].class, buffer |-> t] /\ returns'[r] # NoReturn
      BY <1>2, <1>9 DEF PlaceInv, ClientTyped, NoReturn, DebugClasses
    <2>2. \A x \in ReturnSites : x # r => returns'[x] = NoReturn
      <3>1. \A x \in ReturnSites : x # r => returns'[x] = returns[x]
        BY <1>9 DEF PlaceInv, ClientTyped
      <3> QED BY <1>1, <3>1 DEF Served, ReturnsFit, r
    <2>3. mem'[r] = "int3" /\ r \in Armed'
      <3>1. \A x \in Sites : SetBreakpoint(x) => mem'[x] = "int3" /\ x \in Armed'
        <4> SUFFICES ASSUME NEW x \in Sites, SetBreakpoint(x)
                     PROVE  mem'[x] = "int3" /\ x \in Armed'
          OBVIOUS
        <4>1. TypeOK
          BY DEF PlaceInv
        <4>2. mem' = [mem EXCEPT ![x] = "int3"] /\ mem \in [Sites -> {"orig", "int3"}]
          BY <4>1 DEF SetBreakpoint, TypeOK
        <4> QED BY <4>1, <4>2, SetArms
      <3> QED BY <1>2, <1>9, <3>1
    <2>4. QueriesServed'
      <3> SUFFICES ASSUME NEW u \in Threads, NEW x, x = call[u].ret, call[u].class \in DebugClasses
                   PROVE  Awaited(u, x)'
        BY <1>1 DEF QueriesServed, Awaited, Unserved
      <3>1. x = r
        BY <1>4 DEF r
      <3> QED BY <2>1, <2>3, <3>1 DEF Awaited
    <2>5. ReturnsFit'
      <3> SUFFICES ASSUME NEW x \in ReturnSites, NEW u \in Callers, returns'[x] # NoReturn
                   PROVE  call[u].class = returns'[x].class /\ call[u].ret = x
        BY <1>1 DEF ReturnsFit
      <3>1. x = r /\ u = t
        BY <1>1, <2>2 DEF OneCaller
      <3> QED BY <2>1, <3>1 DEF r
    <2> QED BY <1>6, <1>7, <2>4, <2>5 DEF Served
  <1> QED BY <1>3, <1>8, <1>9

LEMMA HideServed ==
    ASSUME OneCaller, PlaceInv, Served, Hiding, OnSetThread
    PROVE  Served'
  <1> DEFINE t == pending.tid
             new == [call[t] EXCEPT !.class = SwallowHide(call[t].class)]
  <1>1. /\ t \in Callers /\ t \in Threads /\ call[t] \in SetCalls
        /\ call' = [call EXCEPT ![t] = new] /\ returns' = returns
    BY StopFacts DEF OnSetThread
  <1>2. new.class \notin DebugClasses \cup {"hide"}
    BY <1>1 DEF SetCalls, SwallowHide, DebugClasses
  <1> HIDE DEF new, t
  <1>3. \A u \in Threads : call'[u].class \notin DebugClasses \cup {"hide"}
    BY <1>1, <1>2, CallerFacts DEF OneCaller, PlaceInv, CallsTyped
  <1>4. HidesServed' /\ QueriesServed' /\ AnswersRewritten'
    BY <1>3 DEF HidesServed, QueriesServed, AnswersRewritten
  <1>5. call[t].class \notin DebugClasses
    BY <1>1 DEF SetCalls, DebugClasses
  <1>6. ReturnsFit'
    BY <1>1, <1>5, NothingAwaited DEF Served, ReturnsFit
  <1> QED BY <1>4, <1>6 DEF Served

(* The rewritten answer is what a process that is not debugged gets.       *)
LEMMA RewrittenFits ==
    ASSUME NEW class \in DebugClasses
    PROVE  [value |-> Rewritten(class).value,
            status |-> IF Rewritten(class).status = "kept" THEN "success"
                       ELSE Rewritten(class).status] = NotDebugged(class)
  BY DEF DebugClasses, Rewritten, NotDebugged

LEMMA ReturnServed ==
    ASSUME OneCaller, PlaceInv, Served, Hiding, NEW s \in ReturnSites, OnQueryReturn(s)
    PROVE  Served'
  <1> DEFINE t == pending.tid
             class == returns[s].class
  <1>1. /\ t \in Callers /\ t \in Threads /\ call[t] \in QueryCalls
        /\ call[t].fn = "returning" /\ call[t].ret = s /\ returns[s] # NoReturn /\ call' = call
    BY StopFacts DEF OnQueryReturn
  <1>2. class \in DebugClasses /\ call[t].class = class /\ returns[s].buffer = t
    BY <1>1 DEF OneCaller, Served, ReturnsFit, PlaceInv, ClientTyped, Returns
  <1>3. status[t] = "success"
    BY <1>1, <1>2 DEF Served, AnswersRewritten
  <1>4. /\ out' = [out EXCEPT ![t] = Rewritten(class).value]
        /\ status' = [status EXCEPT ![t] = IF Rewritten(class).status = "kept" THEN @
                                             ELSE Rewritten(class).status]
        /\ returns' = [returns EXCEPT ![s] = NoReturn]
    BY <1>2 DEF OnQueryReturn, Take
  <1> HIDE DEF t, class
  <1>5. Answered(t)'
    <2>1. /\ out'[t] = Rewritten(class).value
          /\ status'[t] = IF Rewritten(class).status = "kept" THEN "success"
                          ELSE Rewritten(class).status
      BY <1>1, <1>3, <1>4 DEF PlaceInv, CallsTyped
    <2>2. [value |-> out'[t], status |-> status'[t]] = NotDebugged(class)
      BY <1>2, <2>1, RewrittenFits
    <2>3. \A u : u = t => Answered(u)'
      BY <1>1, <1>2, <2>2 DEF Answered
    <2>4. t' = t
      BY StopFacts DEF OnQueryReturn, vars, engineVars, t
    <2> QED BY <2>3, <2>4 DEF Answered
  <1>6. \A u \in Threads : u # t => call[u].class \notin DebugClasses \cup {"hide"}
    BY <1>1, CallerFacts DEF OneCaller
  <1>7. call[t].class # "hide"
    BY <1>2 DEF DebugClasses
  <1>8. HidesServed' /\ QueriesServed'
    BY <1>1, <1>6, <1>7 DEF HidesServed, QueriesServed
  <1>9. returns'[s] = NoReturn /\ \A r \in ReturnSites : r # s => returns'[r] = NoReturn
    <2>1. \A r \in ReturnSites : r # s => returns'[r] = returns[r]
      BY <1>4 DEF PlaceInv, ClientTyped
    <2>2. \A r \in ReturnSites : returns[r] # NoReturn => r = s
      BY <1>1 DEF Served, ReturnsFit
    <2> QED BY <1>4, <2>1, <2>2 DEF PlaceInv, ClientTyped
  <1>10. AnswersRewritten'
    <2> SUFFICES ASSUME NEW u \in Threads, call[u].class \in DebugClasses
                 PROVE  returns'[call[u].ret] = NoReturn /\ Answered(u)'
      BY <1>1 DEF AnswersRewritten
    <2>1. u = t
      BY <1>6
    <2>2. t' = t
      BY StopFacts DEF OnQueryReturn, vars, engineVars, t
    <2> QED BY <1>1, <1>5, <1>9, <2>1, <2>2 DEF Answered
  <1>11. ReturnsFit'
    BY <1>9 DEF ReturnsFit
  <1> QED BY <1>8, <1>10, <1>11 DEF Served

LEMMA ClientServed ==
    ASSUME OneCaller, PlaceInv, Served, Hiding, Move, Hiding'
    PROVE  Served'
  <1>1. CASE ArmNext
    <2>1. Head(toArm) \in Sites
      BY <1>1, PlanTail, SiteFacts DEF ArmNext, PlaceInv, ClientTyped
    <2>2. /\ mem' = [mem EXCEPT ![Head(toArm)] = "int3"] /\ Armed \subseteq Armed'
          /\ UNCHANGED <<returns, call, out, status, ip, pc, stop, pending, served>>
      BY <1>1, <2>1, SetArms DEF ArmNext, PlaceInv, SetBreakpoint, callVars
    <2>3. \A p \in Sites : mem'[p] = mem[p] \/ mem'[p] = "int3"
      BY <2>2 DEF PlaceInv, TypeOK
    <2>4. \A u, p : Unserved(u, p) => Unserved(u, p)'
      BY <2>2 DEF Unserved
    <2>5. \A u \in Threads, r \in ReturnSites : Awaited(u, r) => Awaited(u, r)'
      BY <2>2, <2>3, <2>4, SiteFacts DEF Awaited
    <2> QED BY <2>2, <2>3, <2>4, <2>5, ServedStays, SiteFacts DEF Entries
  <1>2. ASSUME NEW s \in Sites, Serve(s) PROVE Served'
    <2>1. /\ UNCHANGED <<returns, call, out, status, ip, mem, breakpoints>>
          /\ s \notin Entries /\ (s \in ReturnSites => returns[s] = NoReturn)
          /\ stop = [kind |-> "breakpoint", site |-> s]
      BY <1>2, SiteFacts DEF Serve, NotConsumed, callVars, vars, targetVars, engineVars, Hiding,
                             Entries, AtBreakpoint
    <2>2. stop.site = s
      BY <2>1
    <2>3. \A u, p : Unserved(u, p) => p = s
      BY <2>2 DEF Unserved
    <2>4. \A u \in Threads, r \in ReturnSites : Awaited(u, r) => Awaited(u, r)'
      BY <2>1, <2>3 DEF Awaited, Armed
    <2> QED BY <2>1, <2>3, <2>4, ServedStays
  <1>3. CASE GoesOn
    <2>1. /\ UNCHANGED <<returns, call, out, status, mem, breakpoints>>
          /\ stop.kind = "breakpoint" => served
          /\ ContinuePending
      BY <1>3 DEF GoesOn, GoOn, Cont, callVars
    <2>2. \A u, p : ~Unserved(u, p)
      BY <2>1 DEF Unserved
    <2>3. \A u \in Threads, p \in Entries : ip'[u] = At(p) => ip[u] = At(p)
      BY <2>1, SiteFacts DEF ContinuePending, Continue, Elsewhere, At, Entries, PlaceInv, TypeOK
    <2>4. \A u \in Threads, r \in ReturnSites : Awaited(u, r) => Awaited(u, r)'
      BY <2>1, <2>2 DEF Awaited, Armed
    <2> QED BY <2>1, <2>2, <2>3, <2>4, ServedStays
  <1>4. CASE Leave \/ Closes \/ Breaks
    <2>1. pc' \notin {"stopped", "waiting"}
      BY <1>4, FailsIs DEF Leave, Closes, Breaks, Detach, StopDebugging, RestoreByte
    <2> QED BY <2>1 DEF Hiding, Watching
  <1> QED BY <1>1, <1>2, <1>3, <1>4, EntryServed, HideServed, ReturnServed, Moves

-----------------------------------------------------------------------------

HidingInv == WatchInv /\ ServedInv /\ NothingSeen

LEMMA SessionInitHiding == SessionInit => Held /\ HidingInv
  <1> SUFFICES ASSUME SessionInit PROVE Held /\ HidingInv
    OBVIOUS
  <1>1. Held
    BY DEF SessionInit, Init, Held, Elsewhere, NoPending
  <1>2. WatchInv
    BY DEF SessionInit, Init, WatchInv, EntriesWatched, PlanFollowed, EntriesPersist, Armed, Plan,
           Entries, Hiding
  <1>3. ServedInv
    BY SiteFacts
       DEF SessionInit, Init, ServedInv, Served, HidesServed, QueriesServed, AnswersRewritten,
           ReturnsFit, NoCall, Elsewhere, At
  <1>4. NothingSeen
    BY DEF SessionInit, NothingSeen
  <1> QED BY <1>1, <1>2, <1>3, <1>4 DEF HidingInv

(* After the session has let go of its target nothing is seen either.      *)
LEMMA SeenWatching ==
    ASSUME PlaceInv, GoalInv, NothingSeen, mode = "hide", ~Hiding, NEW t \in Threads, Run(t)
    PROVE  UNCHANGED <<detected, hidden>>
  <1>1. ~Debugged
    BY DEF Run, Execute, Free, Running, Hiding, Watching, Debugged, GoalInv, LeavesInTime,
           PlaceInv, TypeOK
  <1>2. /\ detected' \in {detected, IF Debugged THEN detected' ELSE detected}
        /\ hidden' \in {hidden, IF Debugged THEN hidden' ELSE hidden}
    BY <1>1, Zenon DEF Run, callVars
  <1> QED BY <1>1, <1>2

LEMMA NextHiding ==
    ASSUME OneCaller, PlaceInv, Held, GoalInv, HidingInv, [SessionNext]_sessionVars
    PROVE  HidingInv'
  <1>1. EngineStep
    BY SessionIsEngineStep
  <1>2. CASE UNCHANGED sessionVars
    <2>1. UNCHANGED <<mem, ip, tf, raised, breakpoints, persistent, rearm, pending, initialSeen,
                      pc, stop, mode, toArm, served, returns, call, out, status, detected, hidden>>
      BY <1>2 DEF sessionVars, vars, targetVars, engineVars, clientVars, callVars
    <2> QED BY <2>1 DEF HidingInv, WatchInv, EntriesWatched, ToBeArmed, StepsOver, PlanFollowed,
               EntriesPersist, Armed, ServedInv, Served, HidesServed, QueriesServed, Unserved,
               Awaited, AnswersRewritten, Answered, ReturnsFit, NothingSeen, Hiding, Watching
  <1>3. ASSUME NEW t \in Threads, CallQuery(t) \/ CallSetThread(t) \/ ReachGoal(t) \/ ComeBack(t)
        PROVE  HidingInv'
    <2>1. UNCHANGED clientVars /\ \E s \in Sites : Reach(t, s)
      <3>1. CASE ComeBack(t)
        <4>1. call[t].ret \in ReturnSites
          BY <3>1 DEF ComeBack, PlaceInv, CallsTyped, QueryCalls, SetCalls, NoCall
        <4> QED BY <3>1, <4>1, SiteFacts DEF ComeBack
      <3> QED BY <1>3, <3>1, SiteFacts DEF CallQuery, CallSetThread, ReachGoal
    <2>2. Target(t) /\ mode' = mode
      BY <2>1 DEF Target, clientVars
    <2>3. WatchInv'
      BY <2>1, <2>2, WatchTarget DEF HidingInv
    <2>4. ServedInv'
      BY <1>1, <1>3, <2>2, ReachServed, WatchingLasts DEF HidingInv, ServedInv
    <2>5. NothingSeen'
      BY <1>3, <2>2 DEF CallQuery, CallSetThread, ReachGoal, ComeBack, callVars, HidingInv, NothingSeen
    <2> QED BY <2>3, <2>4, <2>5 DEF HidingInv
  <1>4. ASSUME NEW t \in Threads, Run(t) PROVE HidingInv'
    <2>1. Target(t) /\ mode' = mode /\ UNCHANGED clientVars
      BY <1>4 DEF Run, Target, clientVars
    <2>2. WatchInv'
      BY <2>1, WatchTarget DEF HidingInv
    <2>3. ServedInv'
      BY <1>1, <1>4, <2>1, RunServed, WatchingLasts DEF HidingInv, ServedInv
    <2>4. NothingSeen'
      BY <1>4, <2>1, RunServed, SeenWatching DEF HidingInv, ServedInv, NothingSeen, Hiding
    <2> QED BY <2>2, <2>3, <2>4 DEF HidingInv
  <1>5. ASSUME NEW t \in Threads, Quiet(t) PROVE HidingInv'
    <2>1. UNCHANGED clientVars /\ mode' = mode /\ UNCHANGED <<detected, hidden>>
      BY <1>5 DEF Quiet, clientVars, callVars
    <2>2. WatchInv'
      BY <1>5, <2>1, WatchTarget, WatchHandle DEF HidingInv, Quiet, Target
    <2>3. ServedInv'
      BY <1>1, <1>5, <2>1, QuietServed, WatchingLasts DEF HidingInv, ServedInv
    <2> QED BY <2>1, <2>2, <2>3 DEF HidingInv, NothingSeen
  <1>6. ASSUME OnCreateProcess, UNCHANGED <<clientVars, callVars>> PROVE HidingInv'
    <2>1. UNCHANGED <<mem, ip, tf, raised, breakpoints, persistent, rearm, pending, initialSeen,
                      pc, stop, mode, toArm, served, returns, call, out, status, detected, hidden>>
      BY <1>6 DEF OnCreateProcess, clientVars, callVars
    <2> QED BY <2>1 DEF HidingInv, WatchInv, EntriesWatched, ToBeArmed, StepsOver, PlanFollowed,
               EntriesPersist, Armed, ServedInv, Served, HidesServed, QueriesServed, Unserved,
               Awaited, AnswersRewritten, Answered, ReturnsFit, NothingSeen, Hiding, Watching
  <1>7. ASSUME Move PROVE HidingInv'
    <2>1. mode' = mode /\ UNCHANGED <<detected, hidden>>
      BY <1>7, Moves DEF ArmNext, OnQueryEntry, OnSetThread, OnQueryReturn, Serve, GoesOn, GoOn,
                  Leave, Closes, Breaks, AtBreakpoint, clientVars, callVars
    <2>2. WatchInv'
      BY <1>1, <1>7, WatchClient DEF HidingInv
    <2>3. ServedInv'
      BY <1>1, <1>7, <2>1, ClientServed, WatchingLasts DEF HidingInv, ServedInv
    <2> QED BY <2>1, <2>2, <2>3 DEF HidingInv, NothingSeen
  <1> QED BY <1>2, <1>3, <1>4, <1>5, <1>6, <1>7, SessionSteps

LEMMA HidingAlways ==
    ASSUME OneCaller
    PROVE  SessionSpec => []NothingSeen
  <1> DEFINE Inv == PlaceInv /\ Held /\ GoalInv /\ HidingInv
  <1>1. SessionInit => Inv
    BY SessionInitPlace, SessionInitGoal, SessionInitHiding
  <1>2. Inv /\ [SessionNext]_sessionVars => Inv'
    <2> SUFFICES ASSUME Inv, [SessionNext]_sessionVars PROVE Inv'
      OBVIOUS
    <2>1. PlaceInv' /\ GoalInv'
      BY NextPlace, NextGoal
    <2>2. Held'
      BY SessionIsEngineStep, HeldStep DEF PlaceInv
    <2>3. HidingInv'
      BY NextHiding
    <2> QED BY <2>1, <2>2, <2>3
  <1>3. Inv => NothingSeen
    BY DEF HidingInv
  <1> QED BY <1>1, <1>2, <1>3, PTL DEF SessionSpec

(***************************************************************************)
(* Under --hide of the x64 build, whose interceptor is armed at the        *)
(* initial break (lib.rs:226-227), no query answers as it would to a       *)
(* debugged process, at whatever return sites, as long as one thread makes *)
(* the calls: with two, one passes the entry point while the other steps   *)
(* over its breakpoint (intercept.rs:22-23).                               *)
(***************************************************************************)
THEOREM QueriesAreHidden ==
    ASSUME OneCaller
    PROVE  SessionSpec => []QueriesHidden
  <1>1. NothingSeen => QueriesHidden
    BY DEF NothingSeen, QueriesHidden
  <1> QED BY <1>1, HidingAlways, PTL

(***************************************************************************)
(* Nor does that thread, under --hide of the x64 build, ever hide itself   *)
(* from the debugger (intercept.rs:94-95).                                 *)
(***************************************************************************)
THEOREM ThreadsNeverHide ==
    ASSUME OneCaller
    PROVE  SessionSpec => []NeverHidden
  <1>1. NothingSeen => NeverHidden
    BY DEF NothingSeen, NeverHidden
  <1> QED BY <1>1, HidingAlways, PTL
=============================================================================
