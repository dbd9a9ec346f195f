----------------------------- MODULE OepProofs ------------------------------
(***************************************************************************)
(* Theorems about OepSession, for every set of threads, memory size and    *)
(* requests.                                                               *)
(***************************************************************************)
EXTENDS OepSession, EngineProofs, FiniteSetTheorems, SequenceTheorems,
        WellFoundedInduction

-----------------------------------------------------------------------------
(* The finder is one of the engine's clients, and the target one of its    *)
(* targets, but for the faults the finder sets up.                         *)

(* The finder's turn, or the engine's error in the middle of one.          *)
Move == Finder \/ (TurnFails /\ UNCHANGED <<finderVars, packerVars>>)

GoesOn == GoOn /\ Cont

Closes ==
    /\ StopDebugging \/ RestoreByte(ProtectFn)
    /\ UNCHANGED <<finderVars, packerVars>>

Breaks ==
    /\ Fails
    /\ served' \in {served, FALSE}
    /\ UNCHANGED <<watched, tls, oep, dumped, packerVars>>

LEMMA Moves ==
    ASSUME Move
    PROVE  \/ ArmWatch \/ AtProtect \/ Catch \/ DumpAtOep
           \/ GoesOn \/ Leave \/ Closes \/ Breaks
  <1>1. GoOn => GoesOn \/ Breaks
    BY DEF GoOn, GoesOn, Breaks, Fails
  <1>2. Finish => Closes \/ Breaks
    BY DEF Finish, Closes, Breaks, Fails, finderVars
  <1>3. TurnFails /\ UNCHANGED <<finderVars, packerVars>> => Breaks
    BY DEF Breaks, Fails, finderVars
  <1> QED BY <1>1, <1>2, <1>3 DEF Move, Finder

LEMMA MoveIsCall == Move => ClientCall \/ UNCHANGED vars
  <1> SUFFICES ASSUME Move PROVE ClientCall \/ UNCHANGED vars
    OBVIOUS
  <1>1. ProtectFn \in Sites
    BY OepAssumption
  <1>2. CASE ArmWatch
    BY <1>1, <1>2 DEF ArmWatch, ClientCall
  <1>3. CASE AtProtect \/ Catch
    BY <1>3 DEF AtProtect, Catch
  <1>4. CASE DumpAtOep \/ GoesOn \/ Leave \/ Closes \/ Breaks
    BY <1>1, <1>4 DEF DumpAtOep, GoesOn, Leave, Closes, Breaks, ClientCall
  <1> QED BY <1>2, <1>3, <1>4, Moves

LEMMA OepIsEngineStep ==
    ASSUME [OepNext]_oepVars
    PROVE  EngineStep \/ \E t \in Threads, a \in Addresses : Jump(t, a)
  <1>1. CASE UNCHANGED oepVars
    BY <1>1 DEF oepVars, EngineStep
  <1>2. ASSUME NEW t \in Threads, OepTarget(t)
        PROVE  EngineStep \/ \E a \in Addresses : Jump(t, a)
    <2>1. CallProtect(t) => Reach(t, ProtectFn) /\ ProtectFn \in Sites
      BY OepAssumption DEF CallProtect
    <2>2. Run(t) => Execute(t)
      BY DEF Run
    <2> QED BY <1>2, <2>1, <2>2 DEF OepTarget, EngineStep, Target
  <1>3. CASE OnCreateProcess \/ \E t \in Threads : Handle(t)
    BY <1>3 DEF EngineStep
  <1>4. CASE Move
    BY <1>4, MoveIsCall DEF EngineStep
  <1>5. CASE Ended
    BY <1>5 DEF EngineStep
  <1> QED BY <1>1, <1>2, <1>3, <1>4, <1>5 DEF OepNext, Move

LEMMA JumpBooks ==
    ASSUME BookKeeping, NEW t \in Threads, NEW a \in Addresses, Jump(t, a)
    PROVE  BookKeeping'
  <1> DEFINE e == Event("fault", NoSite, IF IsExecutable(wanted[PageOf(a)]) THEN "tool" ELSE "app")
  <1>1. /\ Raise(t, e) /\ pc # "stopped" /\ raised[t] = NoEvent
        /\ UNCHANGED <<mem, ip, tf, start, boot, alive, unrestored, breakpoints, persistent,
                       rearm, pending, initialSeen, process, pc, stop>>
    BY DEF Jump, Free, Running, engineVars
  <1>2. e \in Events /\ e.kind = "fault"
    BY DEF Event, Events
  <1> HIDE DEF e
  <1>3. raised' \in [Threads -> Events] /\ damage' \subseteq {"leak", "swallow", "skew"}
    BY <1>1, <1>2, RaiseType DEF BookKeeping
  <1>4. TypeOK'
    BY <1>1, <1>3 DEF BookKeeping, TypeOK
  <1>5. Int3Accounted' /\ ArmedInTime' /\ RearmInTable'
    BY <1>1 DEF BookKeeping, Int3Accounted, ArmedInTime, RearmInTable, Armed, Watching
  <1>6. pending = NoPending /\ stop.kind # "exception"
    BY <1>1 DEF BookKeeping, PendingFits
  <1>7. PendingFits'
    BY <1>1, <1>6 DEF PendingFits, NoPending
  <1>8. NeverSkewed'
    <2>1. damage' = damage \/ damage' = damage \cup Disturbs(e, Elsewhere, "not_handled")
      BY <1>1 DEF Raise
    <2> QED BY <2>1, SkewIff DEF BookKeeping, NeverSkewed
  <1>9. PastIsHeld'
    <2>1. ~ip[t].past
      BY <1>1 DEF BookKeeping, PastIsHeld, NoEvent
    <2>2. \A u \in Threads : u # t => raised'[u] = raised[u]
      BY <1>1 DEF Raise, BookKeeping, TypeOK
    <2> QED BY <1>1, <2>1, <2>2 DEF BookKeeping, PastIsHeld
  <1> QED BY <1>4, <1>5, <1>7, <1>8, <1>9 DEF BookKeeping

LEMMA OepBooks == BookKeeping /\ [OepNext]_oepVars => BookKeeping'
  BY OepIsEngineStep, JumpBooks, NextBooks, OepAssumption

LEMMA OepBooksAlways == OepSpec => []BookKeeping
  <1>1. OepInit => BookKeeping
    BY InitBooks DEF OepInit
  <1> QED BY <1>1, OepBooks, PTL DEF OepSpec

-----------------------------------------------------------------------------
(* The state has its type, and calls are where they should be.             *)

Calls == {c \in [base : Addresses, size : Nat \ {0}, protect : Protections,
                 asked : Protections, watched : BOOLEAN] :
             /\ c.base + c.size - 1 \in Addresses
             /\ c.protect \in Writable <=> c.asked \in Writable}

Regions == {r \in [base : Addresses, size : Nat \ {0}, original : ExecKinds] :
               r.base + r.size - 1 \in Addresses}

FinderTyped ==
    /\ watched \in Seq(Regions)
    /\ tls \in SUBSET Addresses
    /\ served \in BOOLEAN /\ dumped \in BOOLEAN
    /\ oep \in Addresses \cup {NoAddr}

PackerTyped ==
    /\ call \in [Threads -> Calls \cup {NoCall}]
    /\ calls \in 0 .. MaxCalls
    /\ prot \in [Pages -> Protections] /\ wanted \in [Pages -> Protections]
    /\ bypassed \in SUBSET Pages /\ requested \in SUBSET Pages
    /\ faultAt \in [Threads -> Addresses \cup {NoAddr}]

(* Only a packer in a call is at the watched function.                     *)
AtFunction ==
    \A t \in Threads :
        /\ ip[t].site = ProtectFn => t \in Packers /\ call[t] # NoCall
        /\ raised[t].site = ProtectFn => ip[t].site = ProtectFn

(* A breakpoint stop is a packer's, and is served once.                    *)
AtStop ==
    /\ pc = "stopped" /\ stop.kind = "breakpoint" =>
          /\ stop.site = ProtectFn /\ pending.tid \in Threads
          /\ ip[pending.tid] = At(ProtectFn)
    /\ pc = "waiting" => ~served

PlaceInv == FinderTyped /\ PackerTyped /\ AtFunction /\ AtStop

LEMMA FnIsSite == ProtectFn \in Sites /\ ProtectFn # NoSite
  BY OepAssumption, EngineAssumption

(* Pages of addresses and of ranges.                                       *)
LEMMA Quotient ==
    ASSUME NEW a \in Nat, NEW n \in Nat \ {0}
    PROVE  /\ a \div n \in Nat
           /\ (a \div n) * n <= a
           /\ a < (a \div n + 1) * n
  BY SMTT(60)

LEMMA LessByFactor ==
    ASSUME NEW a \in Nat, NEW b \in Nat, NEW n \in Nat \ {0}, a * n < b * n
    PROVE  a < b
  BY SMTT(60)

LEMMA AddressIsNat ==
    /\ PageSize \in Nat \ {0} /\ PageCount \in Nat \ {0} /\ PageSize * PageCount \in Nat
    /\ \A a \in Addresses : a \in Nat /\ a < PageCount * PageSize
  <1>1. PageSize \in Nat \ {0} /\ PageCount \in Nat \ {0}
    BY OepAssumption
  <1>2. PageSize * PageCount \in Nat /\ PageSize * PageCount = PageCount * PageSize
    BY <1>1
  <1> QED BY <1>1, <1>2 DEF Addresses

LEMMA PageType ==
    ASSUME NEW a \in Addresses
    PROVE  PageOf(a) \in Pages
  <1> DEFINE q == a \div PageSize
  <1>1. /\ a \in Nat /\ a < PageCount * PageSize
        /\ PageSize \in Nat \ {0} /\ PageCount \in Nat \ {0}
    BY AddressIsNat
  <1>2. q \in Nat /\ q * PageSize <= a
    BY <1>1, Quotient
  <1> HIDE DEF q
  <1>3. q * PageSize \in Nat /\ PageCount * PageSize \in Nat
    BY <1>1, <1>2
  <1>4. q * PageSize < PageCount * PageSize
    BY <1>1, <1>2, <1>3
  <1>5. q < PageCount
    BY <1>1, <1>2, <1>4, LessByFactor
  <1>6. PageOf(a) = q
    BY DEF PageOf, q
  <1> QED BY <1>1, <1>2, <1>5, <1>6 DEF Pages

LEMMA PageMonotone ==
    ASSUME NEW a \in Addresses, NEW b \in Addresses, a <= b
    PROVE  PageOf(a) <= PageOf(b)
  <1> DEFINE q == a \div PageSize
             r == b \div PageSize
  <1>1. a \in Nat /\ b \in Nat /\ PageSize \in Nat \ {0}
    BY AddressIsNat
  <1>2. q \in Nat /\ q * PageSize <= a
    BY <1>1, Quotient
  <1>3. r \in Nat /\ b < (r + 1) * PageSize
    BY <1>1, Quotient
  <1>a. PageOf(a) = q /\ PageOf(b) = r
    BY DEF PageOf
  <1> HIDE DEF q, r
  <1>4. q * PageSize \in Nat /\ (r + 1) * PageSize \in Nat /\ r + 1 \in Nat
    BY <1>1, <1>2, <1>3
  <1>5. q * PageSize < (r + 1) * PageSize
    BY <1>1, <1>2, <1>3, <1>4
  <1>6. q < r + 1
    BY <1>1, <1>2, <1>4, <1>5, LessByFactor
  <1> QED BY <1>2, <1>3, <1>6, <1>a

LEMMA PagesOfRange ==
    ASSUME NEW base \in Addresses, NEW size \in Nat \ {0}, base + size - 1 \in Addresses
    PROVE  /\ PagesOf(base, size) \subseteq Pages
           /\ \A a \in Addresses :
                 a >= base /\ a < base + size => PageOf(a) \in PagesOf(base, size)
  <1>1. /\ PageOf(base) \in Pages /\ PageOf(base + size - 1) \in Pages
        /\ \A a \in Addresses : PageOf(a) \in Pages
    BY PageType
  <1>2. PageCount \in Nat /\ base \in Nat /\ \A a \in Addresses : a \in Nat
    BY AddressIsNat
  <1>3. ASSUME NEW a \in Addresses, a >= base, a < base + size
        PROVE  PageOf(a) \in PagesOf(base, size)
    <2>1. base <= a /\ a <= base + size - 1
      BY <1>2, <1>3
    <2>2. PageOf(base) <= PageOf(a) /\ PageOf(a) <= PageOf(base + size - 1)
      BY <2>1, PageMonotone
    <2> QED BY <1>1, <1>2, <2>2 DEF PagesOf, Pages
  <1> QED BY <1>1, <1>2, <1>3 DEF PagesOf, Pages

LEMMA OepInitPlace == OepInit => PlaceInv
  <1> SUFFICES ASSUME OepInit PROVE PlaceInv
    OBVIOUS
  <1>1. FinderTyped
    BY EmptySeq DEF OepInit, FinderTyped
  <1>2. PackerTyped
    BY OepAssumption DEF OepInit, PackerTyped, Protections
  <1>3. AtFunction
    BY FnIsSite DEF OepInit, Init, AtFunction, Elsewhere, NoEvent
  <1>4. AtStop
    BY DEF OepInit, Init, AtStop, NoStop
  <1> QED BY <1>1, <1>2, <1>3, <1>4 DEF PlaceInv

LEMMA StripKeepsWritable ==
    ASSUME NEW p \in Protections
    PROVE  /\ StripExecute(p) \in Protections \ ExecKinds
           /\ StripExecute(p) \in Writable <=> p \in Writable
  BY DEF Protections, ExecKinds, Writable, StripExecute

LEMMA RequestIsCall ==
    ASSUME NEW q \in Requests, NEW w \in BOOLEAN
    PROVE  /\ [base |-> q[1], size |-> q[2], protect |-> q[3], asked |-> q[3], watched |-> w]
                 \in Calls
           /\ PagesOf(q[1], q[2]) \subseteq Pages
  BY OepAssumption, PagesOfRange DEF Calls

(* A place and an event change together: a thread leaves a site when it    *)
(* executes or when its event is continued.                                *)
LEMMA EngineMoves ==
    ASSUME TypeOK, NEW t \in Threads,
           \/ Handle(t) \/ OnCreateProcess \/ Run(t)
           \/ LoaderBreak(t) \/ HitInt3(t) \/ ExitProcess(t) \/ RaiseOther(t)
           \/ \E a \in Addresses : Jump(t, a),
           NEW u \in Threads, raised[u].site = ProtectFn => ip[u].site = ProtectFn
    PROVE  /\ ip'[u].site = ProtectFn => ip[u].site = ProtectFn
           /\ raised'[u].site = ProtectFn => ip'[u].site = ProtectFn
  <1> USE FnIsSite DEF TypeOK
  <1>1. CASE Run(t)
    BY <1>1 DEF Run, Execute, Free, Raise, Event, Elsewhere, NoEvent
  <1>2. CASE HitInt3(t)
    BY <1>2 DEF HitInt3, Free, Raise, Event, Elsewhere, PastInt3, NoEvent
  <1>3. CASE LoaderBreak(t) \/ ExitProcess(t) \/ RaiseOther(t) \/ OnCreateProcess
             \/ \E a \in Addresses : Jump(t, a)
    <2>1. ip' = ip /\ (raised'[u].site = ProtectFn => raised[u].site = ProtectFn)
      <3>1. ASSUME NEW e, e.site = NoSite, Raise(t, e)
            PROVE  raised'[u].site = ProtectFn => raised[u].site = ProtectFn
        BY <3>1 DEF Raise
      <3>2. \A k, b : Event(k, NoSite, b).site = NoSite
        BY DEF Event
      <3>3. CASE LoaderBreak(t)
        BY <3>1, <3>2, <3>3 DEF LoaderBreak
      <3>4. CASE RaiseOther(t)
        BY <3>1, <3>2, <3>4 DEF RaiseOther
      <3>5. CASE \E a \in Addresses : Jump(t, a)
        BY <3>1, <3>2, <3>5 DEF Jump
      <3>6. CASE ExitProcess(t)
        BY <3>6 DEF ExitProcess, Event, NoEvent
      <3>7. CASE OnCreateProcess
        BY <3>7 DEF OnCreateProcess
      <3> QED BY <1>3, <3>3, <3>4, <3>5, <3>6, <3>7
    <2> QED BY <2>1
  <1>4. CASE OnSingleStep(t) \/ OnUnknownBreakpoint(t) \/ OnOther(t)
    <2>1. PICK st : Continue(t, st)
      BY <1>4 DEF OnSingleStep, OnUnknownBreakpoint, OnOther
    <2> QED BY <2>1 DEF Continue, Elsewhere, NoEvent
  <1>5. CASE OnInitialBreak(t) \/ OnException(t) \/ OnExit(t)
    BY <1>5 DEF OnInitialBreak, OnException, OnExit, targetVars
  <1>6. CASE OnBreakpoint(t)
    <2>1. raised[t].site = ProtectFn
      BY <1>6, OepAssumption DEF OnBreakpoint, Armed
    <2>2. ip' = [ip EXCEPT ![t] = At(ProtectFn)] /\ raised' = raised
      BY <1>6, <2>1 DEF OnBreakpoint, Rewind
    <2> QED BY <2>1, <2>2 DEF At
  <1> QED BY <1>1, <1>2, <1>3, <1>4, <1>5, <1>6 DEF Handle

LEMMA ClientMoves ==
    ASSUME TypeOK, ClientCall \/ UNCHANGED vars,
           NEW u \in Threads, raised[u].site = ProtectFn => ip[u].site = ProtectFn
    PROVE  /\ ip'[u].site = ProtectFn => ip[u].site = ProtectFn
           /\ raised'[u].site = ProtectFn => ip'[u].site = ProtectFn
  <1> USE FnIsSite DEF TypeOK
  <1>1. CASE Cont \/ Detach
    <2>1. CASE pending = NoPending
      BY <1>1, <2>1 DEF Cont, Detach, ContinuePending
    <2>2. CASE pending # NoPending
      <3>1. Continue(pending.tid, pending.status) /\ pending.tid \in Threads
        BY <1>1, <2>2 DEF Cont, Detach, ContinuePending
      <3> QED BY <3>1 DEF Continue, Elsewhere, NoEvent
    <2> QED BY <2>1, <2>2
  <1>2. CASE StopDebugging \/ Fails
    <2>1. LetGo
      BY <1>2, FailsIs DEF StopDebugging
    <2> QED BY <2>1 DEF LetGo, Elsewhere, NoEvent
  <1>3. CASE MarkHandled \/ (\E s \in Sites : RestoreByte(s) \/ SetBreakpoint(s)) \/ UNCHANGED vars
    <2>1. ip' = ip /\ raised' = raised
      BY <1>3 DEF MarkHandled, RestoreByte, SetBreakpoint, vars, targetVars
    <2> QED BY <2>1
  <1> QED BY <1>1, <1>2, <1>3 DEF ClientCall

(* What a request of a packer adds.                                        *)
LEMMA CallPlace ==
    ASSUME BookKeeping, PlaceInv, NEW t \in Threads, CallProtect(t)
    PROVE  PlaceInv'
  <1>1. PICK q \in Requests :
          call' = [call EXCEPT ![t] = [base |-> q[1], size |-> q[2], protect |-> q[3],
                                       asked |-> q[3],
                                       watched |-> Watching /\ mem[ProtectFn] = "int3"]]
    BY DEF CallProtect
  <1>2. PICK c \in Calls : call' = [call EXCEPT ![t] = c]
    BY <1>1, RequestIsCall
  <1>a. requested' \in SUBSET Pages
    BY RequestIsCall DEF CallProtect, PlaceInv, PackerTyped
  <1>3. /\ t \in Packers /\ calls < MaxCalls /\ calls' = calls + 1
        /\ Reach(t, ProtectFn)
        /\ UNCHANGED <<watched, tls, served, oep, dumped, prot, wanted, bypassed, faultAt>>
    BY DEF CallProtect, finderVars
  <1>4. /\ ip' = [ip EXCEPT ![t] = At(ProtectFn)] /\ raised[t] = NoEvent
        /\ pc # "stopped" /\ UNCHANGED <<raised, pc, stop, pending>>
    BY <1>3 DEF Reach, Free, Running, engineVars
  <1>5. FinderTyped'
    BY <1>3 DEF PlaceInv, FinderTyped
  <1>6. PackerTyped'
    BY <1>2, <1>3, <1>a, OepAssumption DEF PlaceInv, PackerTyped
  <1>7. NoCall \notin Calls
    BY OepAssumption DEF Calls, NoCall
  <1>8. AtFunction'
    BY <1>2, <1>3, <1>4, <1>7, FnIsSite
       DEF PlaceInv, PackerTyped, AtFunction, At, NoEvent, BookKeeping, TypeOK
  <1>9. AtStop'
    BY <1>3, <1>4 DEF PlaceInv, AtStop
  <1> QED BY <1>5, <1>6, <1>8, <1>9 DEF PlaceInv

(* The call is made, with the protection it has by then.                   *)
LEMMA RunPlace ==
    ASSUME BookKeeping, PlaceInv, NEW t \in Threads, Run(t)
    PROVE  PlaceInv'
  <1>1. /\ UNCHANGED <<watched, tls, served, oep, dumped, calls, requested, faultAt>>
        /\ pc # "stopped" /\ UNCHANGED <<pc, stop, pending>>
        /\ ip' = [ip EXCEPT ![t] = Elsewhere]
    BY DEF Run, Execute, Free, Running, engineVars, finderVars
  <1>2. FinderTyped' /\ AtStop'
    BY <1>1 DEF PlaceInv, FinderTyped, AtStop
  <1>3. ASSUME ip[t].site = ProtectFn PROVE PackerTyped'
    <2> DEFINE c == call[t]
               touched == PagesOf(c.base, c.size)
    <2>1. /\ prot' = [p \in Pages |-> IF p \in touched THEN c.protect ELSE prot[p]]
          /\ wanted' = [p \in Pages |-> IF p \in touched THEN c.asked ELSE wanted[p]]
          /\ bypassed' = IF c.watched THEN bypassed \ touched ELSE bypassed \cup touched
          /\ call' = [call EXCEPT ![t] = NoCall]
      BY <1>3 DEF Run
    <2>2. c \in Calls
      BY <1>3 DEF PlaceInv, AtFunction, PackerTyped
    <2>3. c.protect \in Protections /\ c.asked \in Protections
      BY <2>2 DEF Calls
    <2>4. touched \subseteq Pages
      BY <2>2, PagesOfRange DEF Calls
    <2> HIDE DEF c, touched
    <2>5. prot' \in [Pages -> Protections] /\ wanted' \in [Pages -> Protections]
      BY <2>1, <2>3 DEF PlaceInv, PackerTyped
    <2>6. bypassed' \in SUBSET Pages
      BY <2>1, <2>4 DEF PlaceInv, PackerTyped
    <2>7. call' \in [Threads -> Calls \cup {NoCall}]
      BY <2>1 DEF PlaceInv, PackerTyped
    <2> QED BY <1>1, <2>5, <2>6, <2>7 DEF PlaceInv, PackerTyped
  <1>4. ASSUME ip[t].site # ProtectFn PROVE PackerTyped' /\ call' = call
    BY <1>1, <1>4 DEF Run, PlaceInv, PackerTyped
  <1>5. AtFunction'
    <2> SUFFICES ASSUME NEW u \in Threads
                 PROVE  /\ ip'[u].site = ProtectFn => u \in Packers /\ call'[u] # NoCall
                        /\ raised'[u].site = ProtectFn => ip'[u].site = ProtectFn
      BY DEF AtFunction
    <2>1. /\ ip'[u].site = ProtectFn => ip[u].site = ProtectFn
          /\ raised'[u].site = ProtectFn => ip'[u].site = ProtectFn
      BY EngineMoves DEF PlaceInv, AtFunction, BookKeeping
    <2>2. ip'[u].site = ProtectFn => u # t
      BY <1>1, FnIsSite DEF Elsewhere, BookKeeping, TypeOK
    <2>3. u # t => call'[u] = call[u]
      <3>1. call' = [call EXCEPT ![t] = NoCall] \/ call' = call
        BY <1>4 DEF Run
      <3> QED BY <3>1 DEF PlaceInv, PackerTyped
    <2> QED BY <2>1, <2>2, <2>3 DEF PlaceInv, AtFunction
  <1> QED BY <1>2, <1>3, <1>4, <1>5 DEF PlaceInv

(* The rest of the target, and the event loop.                             *)
QuietStep(t) ==
    /\ \/ Handle(t) \/ OnCreateProcess
       \/ LoaderBreak(t) \/ HitInt3(t) \/ ExitProcess(t) \/ RaiseOther(t)
       \/ \E a \in Addresses : Jump(t, a)
    /\ UNCHANGED <<finderVars, call, calls, prot, wanted, bypassed, requested>>
    /\ \/ faultAt' = faultAt
       \/ \E a \in Addresses \cup {NoAddr} : faultAt' = [faultAt EXCEPT ![t] = a]

LEMMA QuietPlace ==
    ASSUME BookKeeping, PlaceInv, NEW t \in Threads, QuietStep(t)
    PROVE  PlaceInv'
  <1>1. UNCHANGED <<watched, tls, served, oep, dumped, call, calls, prot, wanted, bypassed,
                    requested>>
    BY DEF QuietStep, finderVars
  <1>2. FinderTyped'
    BY <1>1 DEF PlaceInv, FinderTyped
  <1>3. faultAt' \in [Threads -> Addresses \cup {NoAddr}]
    BY DEF QuietStep, PlaceInv, PackerTyped
  <1>4. PackerTyped'
    BY <1>1, <1>3 DEF PlaceInv, PackerTyped
  <1>5. AtFunction'
    BY <1>1, EngineMoves DEF QuietStep, PlaceInv, AtFunction, BookKeeping
  <1>6. AtStop'
    <2>1. CASE OnBreakpoint(t)
      <3>1. /\ raised[t].site = ProtectFn
            /\ pending' = [tid |-> t, status |-> "continue"]
            /\ stop' = [kind |-> "breakpoint", site |-> raised[t].site]
            /\ pc' = "stopped"
            /\ ip' = [ip EXCEPT ![t] = At(raised[t].site)]
        BY <2>1, OepAssumption DEF OnBreakpoint, Armed, Return, Rewind
      <3> QED BY <1>1, <3>1 DEF AtStop, BookKeeping, TypeOK
    <2>2. CASE OnInitialBreak(t) \/ OnException(t) \/ OnExit(t)
      BY <1>1, <2>2 DEF OnInitialBreak, OnException, OnExit, Return, AtStop
    <2>3. CASE OnSingleStep(t) \/ OnUnknownBreakpoint(t) \/ OnOther(t) \/ OnCreateProcess
      <3>1. pc = "waiting" /\ pc' = pc
        BY <2>3 DEF OnSingleStep, OnUnknownBreakpoint, OnOther, OnCreateProcess, Reported
      <3> QED BY <1>1, <3>1 DEF PlaceInv, AtStop
    <2>4. CASE LoaderBreak(t) \/ HitInt3(t) \/ ExitProcess(t) \/ RaiseOther(t)
               \/ \E a \in Addresses : Jump(t, a)
      <3>1. pc # "stopped" /\ pc' = pc
        BY <2>4 DEF LoaderBreak, HitInt3, ExitProcess, RaiseOther, Jump, Free, Running
      <3> QED BY <1>1, <3>1 DEF PlaceInv, AtStop
    <2> QED BY <2>1, <2>2, <2>3, <2>4 DEF QuietStep, Handle
  <1> QED BY <1>2, <1>4, <1>5, <1>6 DEF PlaceInv

(* A flipped region that holds an address is one of the list.              *)
LEMMA LeastIndex ==
    ASSUME NEW I \in SUBSET Nat, I # {}
    PROVE  Min(I) \in I
  <1>1. \E n \in I : \A m \in I : <<m, n>> \notin OpToRel(<, Nat)
    BY NatLessThanWellFounded, WFMin
  <1>2. ASSUME NEW m \in Nat, NEW n \in Nat, m < n PROVE <<m, n>> \in OpToRel(<, Nat)
    BY <1>2, Zenon DEF OpToRel
  <1>3. PICK n \in I : \A m \in I : <<m, n>> \notin OpToRel(<, Nat)
    BY <1>1, Zenon
  <1>4. \A m \in I : ~(m < n)
    BY <1>2, <1>3, Zenon
  <1>5. \A m \in I : n =< m
    BY <1>4
  <1> QED BY <1>5 DEF Min

LEMMA RegionFound ==
    ASSUME watched \in Seq(Regions), NEW a \in Addresses, RegionOf(a) # NoRegion
    PROVE  \E i \in DOMAIN watched :
              /\ RegionOf(a) = watched[i] /\ watched[i] \in Regions
              /\ PageOf(a) \in PagesOf(watched[i].base, watched[i].size)
  <1> DEFINE holding == {i \in DOMAIN watched :
                            a >= watched[i].base /\ a < watched[i].base + watched[i].size}
  <1>1. DOMAIN watched \subseteq Nat /\ \A i \in DOMAIN watched : watched[i] \in Regions
    BY LenProperties, ElementOfSeq
  <1>2. holding # {} /\ RegionOf(a) = watched[Min(holding)]
    BY DEF RegionOf
  <1>3. Min(holding) \in holding
    BY <1>1, <1>2, LeastIndex
  <1> DEFINE i == Min(holding)
  <1>4. /\ i \in DOMAIN watched
        /\ a >= watched[i].base /\ a < watched[i].base + watched[i].size
    BY <1>3
  <1> HIDE DEF i, holding
  <1>5. RegionOf(a) = watched[i]
    BY <1>2 DEF i
  <1>6. watched[i] \in Regions
    BY <1>1, <1>4
  <1>7. PageOf(a) \in PagesOf(watched[i].base, watched[i].size)
    BY <1>4, <1>6, PagesOfRange DEF Regions
  <1> QED BY <1>4, <1>5, <1>6, <1>7

(* What the finder does at a stop.                                         *)
LEMMA CallbackAddresses == \A n : CallbacksRead(n) \in SUBSET Addresses
  BY OepAssumption DEF CallbacksRead

LEMMA FinderMoves ==
    ASSUME BookKeeping, PlaceInv, Move, UNCHANGED call
    PROVE  AtFunction'
  <1> QED BY MoveIsCall, ClientMoves DEF PlaceInv, AtFunction, BookKeeping

LEMMA ProtectPlace ==
    ASSUME BookKeeping, PlaceInv, AtProtect
    PROVE  /\ PlaceInv'
           /\ LET t == pending.tid IN
                /\ t \in Threads /\ call[t] \in Calls /\ ip[t] = At(ProtectFn)
                /\ \/ /\ call[t].protect \in ExecKinds
                      /\ call' = [call EXCEPT ![t] = Without(call[t])]
                   \/ call[t].protect \notin ExecKinds /\ UNCHANGED <<call, watched>>
  <1> DEFINE t == pending.tid
             c == call[t]
  <1>1. t \in Threads /\ ip[t] = At(ProtectFn)
    BY DEF AtProtect, PlaceInv, AtStop
  <1>2. c \in Calls
    BY <1>1 DEF PlaceInv, AtFunction, PackerTyped, At
  <1>3. Without(c) \in Calls /\ Without(c) # NoCall
    <2>1. c.protect \in Protections
      BY <1>2 DEF Calls
    <2>2. /\ StripExecute(c.protect) \in Protections
          /\ StripExecute(c.protect) \in Writable <=> c.protect \in Writable
      BY <2>1, StripKeepsWritable
    <2>3. Without(c) \in Calls
      BY <1>2, <2>2 DEF Calls, Without
    <2>4. Without(c).base \in Addresses
      BY <2>3 DEF Calls
    <2>5. NoCall.base \notin Addresses
      BY OepAssumption DEF NoCall
    <2> QED BY <2>3, <2>4, <2>5
  <1>4. /\ served' = TRUE
        /\ UNCHANGED <<vars, tls, oep, dumped, calls, prot, wanted, bypassed, requested, faultAt>>
        /\ \/ /\ c.protect \in ExecKinds
              /\ watched' = Append(watched, [base |-> c.base, size |-> c.size,
                                             original |-> c.protect])
              /\ call' = [call EXCEPT ![t] = Without(c)]
           \/ c.protect \notin ExecKinds /\ UNCHANGED <<call, watched>>
    BY DEF AtProtect, Watch, IsExecutable
  <1> HIDE DEF c, t
  <1>5. watched' \in Seq(Regions)
    <2>1. c.protect \in ExecKinds =>
            [base |-> c.base, size |-> c.size, original |-> c.protect] \in Regions
      BY <1>2 DEF Calls, Regions
    <2> QED BY <1>4, <2>1, AppendProperties DEF PlaceInv, FinderTyped
  <1>6. FinderTyped'
    BY <1>4, <1>5 DEF PlaceInv, FinderTyped
  <1>7. PackerTyped'
    BY <1>1, <1>3, <1>4 DEF PlaceInv, PackerTyped
  <1>8. AtFunction'
    BY <1>1, <1>3, <1>4 DEF PlaceInv, PackerTyped, AtFunction, vars, targetVars
  <1>9. AtStop'
    BY <1>4 DEF AtProtect, PlaceInv, AtStop, vars, targetVars, engineVars
  <1> QED BY <1>1, <1>2, <1>4, <1>6, <1>7, <1>8, <1>9 DEF PlaceInv, t, c

LEMMA CatchPlace ==
    ASSUME BookKeeping, PlaceInv, Catch
    PROVE  /\ PlaceInv'
           /\ oep' \in Addresses /\ oep' = FaultAddress
           /\ \E i \in DOMAIN watched :
                /\ PageOf(oep') \in PagesOf(watched[i].base, watched[i].size)
                /\ watched[i].original \in ExecKinds
                /\ prot'[PageOf(oep')] = watched[i].original
  <1>1. /\ oep' = FaultAddress /\ FaultAddress # NoAddr
        /\ RegionOf(FaultAddress) # NoRegion
        /\ Restore(RegionOf(FaultAddress))
        /\ UNCHANGED <<vars, watched, tls, served, dumped, call, calls, wanted, bypassed,
                       requested, faultAt>>
    BY DEF Catch, AtOepFault, IsOep
  <1>2. pending.tid \in Threads
    BY DEF Catch, AtOepFault, BookKeeping, PendingFits, TypeOK
  <1>3. FaultAddress \in Addresses
    BY <1>1, <1>2 DEF FaultAddress, PlaceInv, PackerTyped
  <1>4. PICK i \in DOMAIN watched :
           /\ RegionOf(FaultAddress) = watched[i] /\ watched[i] \in Regions
           /\ PageOf(FaultAddress) \in PagesOf(watched[i].base, watched[i].size)
    BY <1>1, <1>3, RegionFound DEF PlaceInv, FinderTyped
  <1>5. /\ prot' = [p \in Pages |-> IF p \in PagesOf(watched[i].base, watched[i].size)
                                      THEN watched[i].original ELSE prot[p]]
        /\ watched[i].original \in ExecKinds
    BY <1>1, <1>4 DEF Restore, Regions
  <1>6. prot' \in [Pages -> Protections]
    BY <1>5 DEF PlaceInv, PackerTyped, Protections
  <1>7. PackerTyped' /\ FinderTyped'
    BY <1>1, <1>3, <1>6 DEF PlaceInv, PackerTyped, FinderTyped
  <1>8. AtFunction'
    BY <1>1, FinderMoves DEF Move, Finder
  <1>9. AtStop'
    BY <1>1 DEF PlaceInv, AtStop, vars, targetVars, engineVars
  <1>10. PageOf(FaultAddress) \in Pages
    BY <1>3, PageType
  <1> QED BY <1>1, <1>3, <1>4, <1>5, <1>7, <1>8, <1>9, <1>10 DEF PlaceInv

LEMMA FinderPlace ==
    ASSUME BookKeeping, PlaceInv, Move
    PROVE  PlaceInv'
  <1>1. CASE AtProtect
    BY <1>1, ProtectPlace
  <1>2. CASE Catch
    BY <1>2, CatchPlace
  <1>3. CASE ArmWatch
    <2>1. /\ \E n : tls' = CallbacksRead(n)
          /\ SetBreakpoint(ProtectFn)
          /\ UNCHANGED <<watched, served, oep, dumped, call, calls, prot, wanted, bypassed, requested, faultAt>>
      BY <1>3 DEF ArmWatch, packerVars
    <2>2. FinderTyped' /\ PackerTyped'
      BY <2>1, CallbackAddresses DEF PlaceInv, FinderTyped, PackerTyped
    <2>3. AtStop'
      BY <2>1 DEF SetBreakpoint, PlaceInv, AtStop
    <2> QED BY <1>3, <2>1, <2>2, <2>3, FinderMoves DEF PlaceInv
  <1>4. CASE DumpAtOep
    <2>1. /\ dumped' = TRUE /\ MarkHandled
          /\ UNCHANGED <<watched, tls, served, oep, call, calls, prot, wanted, bypassed, requested, faultAt>>
      BY <1>4 DEF DumpAtOep, packerVars
    <2>2. FinderTyped' /\ PackerTyped'
      BY <2>1 DEF PlaceInv, FinderTyped, PackerTyped
    <2>3. AtStop'
      BY <2>1 DEF MarkHandled, PlaceInv, AtStop
    <2> QED BY <1>4, <2>1, <2>2, <2>3, FinderMoves DEF PlaceInv
  <1>5. CASE GoesOn \/ Leave \/ Closes \/ Breaks
    <2>1. /\ served' \in {served, FALSE}
          /\ UNCHANGED <<watched, tls, oep, dumped, call, calls, prot, wanted, bypassed, requested,
                         faultAt>>
      BY <1>5 DEF GoesOn, GoOn, Leave, Closes, Breaks, packerVars, finderVars
    <2>2. FinderTyped' /\ PackerTyped'
      BY <2>1 DEF PlaceInv, FinderTyped, PackerTyped
    <2>3. pc' # "stopped" /\ (pc' = "waiting" => ~served')
      <3>1. CASE Breaks
        BY <3>1, FailsIs DEF Breaks
      <3>2. CASE GoesOn \/ Leave \/ Closes
        BY <3>2 DEF GoesOn, GoOn, Leave, Closes, Cont, Detach, StopDebugging, RestoreByte
      <3> QED BY <1>5, <3>1, <3>2
    <2>4. AtStop'
      BY <2>3 DEF AtStop
    <2> QED BY <1>5, <2>1, <2>2, <2>4, FinderMoves DEF PlaceInv
  <1> QED BY <1>1, <1>2, <1>3, <1>4, <1>5, Moves

(* The steps, sorted by what they can disturb.                             *)
LEMMA OepSteps ==
    ASSUME [OepNext]_oepVars
    PROVE  \/ \E t \in Threads : CallProtect(t) \/ Run(t) \/ QuietStep(t)
           \/ OnCreateProcess /\ UNCHANGED <<finderVars, packerVars>>
           \/ Move
           \/ UNCHANGED oepVars
  <1>1. ASSUME NEW t \in Threads, OepTarget(t)
        PROVE  CallProtect(t) \/ Run(t) \/ QuietStep(t)
    <2>1. CASE \E a \in Addresses : Jump(t, a)
      BY <2>1 DEF Jump, QuietStep, finderVars
    <2>2. CASE (LoaderBreak(t) \/ HitInt3(t) \/ ExitProcess(t)) /\ UNCHANGED <<finderVars, packerVars>>
      BY <2>2 DEF QuietStep, finderVars, packerVars
    <2>3. CASE /\ RaiseOther(t) /\ faultAt' = [faultAt EXCEPT ![t] = NoAddr]
               /\ UNCHANGED <<finderVars, call, calls, prot, wanted, bypassed, requested>>
      BY <2>3 DEF QuietStep
    <2> QED BY <1>1, <2>1, <2>2, <2>3 DEF OepTarget
  <1>2. ASSUME NEW t \in Threads, Handle(t), UNCHANGED <<finderVars, packerVars>>
        PROVE  QuietStep(t)
    BY <1>2 DEF QuietStep, packerVars
  <1>3. Ended /\ UNCHANGED <<finderVars, packerVars>> => UNCHANGED oepVars
    BY DEF Ended, oepVars
  <1> QED BY <1>1, <1>2, <1>3 DEF OepNext, Move

LEMMA NextPlace ==
    ASSUME BookKeeping, PlaceInv, [OepNext]_oepVars
    PROVE  PlaceInv'
  <1>1. CASE \E t \in Threads : CallProtect(t) \/ Run(t) \/ QuietStep(t)
    BY <1>1, CallPlace, RunPlace, QuietPlace
  <1>2. CASE Move
    BY <1>2, FinderPlace
  <1>3. ASSUME OnCreateProcess \/ UNCHANGED vars, UNCHANGED <<finderVars, packerVars>>
        PROVE  PlaceInv'
    <2>1. UNCHANGED <<ip, raised, pending, pc, stop>>
      BY <1>3 DEF OnCreateProcess, vars, targetVars, engineVars
    <2>2. UNCHANGED <<watched, tls, served, oep, dumped, call, calls, prot, wanted, bypassed, requested, faultAt>>
      BY <1>3 DEF finderVars, packerVars
    <2> QED BY <2>1, <2>2 DEF PlaceInv, FinderTyped, PackerTyped, AtFunction, AtStop
  <1> QED BY <1>1, <1>2, <1>3, OepSteps DEF oepVars

LEMMA PlaceAlways == OepSpec => [](BookKeeping /\ PlaceInv)
  <1>1. OepInit => BookKeeping /\ PlaceInv
    BY InitBooks, OepInitPlace DEF OepInit
  <1>2. BookKeeping /\ PlaceInv /\ [OepNext]_oepVars => (BookKeeping /\ PlaceInv)'
    BY OepBooks, NextPlace
  <1> QED BY <1>1, <1>2, PTL DEF OepSpec

(***************************************************************************)
(* The finder's tables and the target's memory have their types, and every *)
(* region recorded is one that was to be executable (execmem.rs:5-10).     *)
(***************************************************************************)
THEOREM OepTyped == OepSpec => []OepTypeOK
  <1>1. ASSUME BookKeeping, PlaceInv PROVE OepTypeOK
    <2>1. /\ TypeOK /\ FinderTyped /\ PackerTyped
      BY <1>1 DEF BookKeeping, PlaceInv
    <2>2. ASSUME NEW i \in DOMAIN watched
          PROVE  /\ watched[i].original \in ExecKinds
                 /\ PagesOf(watched[i].base, watched[i].size) \subseteq Pages
      <3>1. watched[i] \in Regions
        BY <2>1, ElementOfSeq, LenProperties DEF FinderTyped
      <3> QED BY <3>1, PagesOfRange DEF Regions
    <2>3. ASSUME NEW t \in Threads
          PROVE  /\ call[t] = NoCall \/ {call[t].protect, call[t].asked} \subseteq Protections
                 /\ faultAt[t] \in Addresses \cup {NoAddr}
      BY <2>1 DEF PackerTyped, Calls
    <2>4. /\ tls \subseteq Addresses /\ {served, dumped} \subseteq BOOLEAN
          /\ oep \in Addresses \cup {NoAddr}
      BY <2>1 DEF FinderTyped
    <2>5. /\ calls \in 0 .. MaxCalls /\ prot \in [Pages -> Protections]
          /\ wanted \in [Pages -> Protections] /\ {bypassed, requested} \subseteq SUBSET Pages
      BY <2>1 DEF PackerTyped
    <2> QED BY <2>1, <2>2, <2>3, <2>4, <2>5 DEF OepTypeOK
  <1> QED BY <1>1, PlaceAlways, PTL

-----------------------------------------------------------------------------
(* What is caught.                                                         *)

(* Once the OEP is known the target stays frozen in front of it until it   *)
(* is let go.                                                              *)
Caught ==
    oep # NoAddr =>
        /\ pc # "waiting"
        /\ pc = "stopped" =>
              /\ stop.kind = "exception"
              /\ FaultAddress = oep /\ IsOep(oep)
              /\ IsExecutable(prot[PageOf(oep)])

(* The regions recorded, and those of the calls that are to be, were asked *)
(* for.                                                                    *)
Recorded ==
    /\ \A i \in DOMAIN watched : PagesOf(watched[i].base, watched[i].size) \subseteq requested
    /\ \A t \in Threads : call[t].protect \in ExecKinds =>
                            PagesOf(call[t].base, call[t].size) \subseteq requested

CatchInv == Caught /\ Recorded /\ OepRequested

LEMMA OepInitCatch == OepInit => CatchInv
  <1> SUFFICES ASSUME OepInit PROVE CatchInv
    OBVIOUS
  <1>1. Caught /\ OepRequested
    BY DEF OepInit, Caught, OepRequested
  <1>2. DOMAIN watched = {}
    BY DEF OepInit
  <1>3. \A t \in Threads : call[t].protect \notin ExecKinds
    BY DEF OepInit, NoCall, ExecKinds
  <1> QED BY <1>1, <1>2, <1>3 DEF CatchInv, Recorded

(* While the target runs, or the engine waits, nothing is caught.          *)
LEMMA RunningCaught ==
    ASSUME BookKeeping, PlaceInv, Caught, NEW t \in Threads,
           CallProtect(t) \/ Run(t) \/ QuietStep(t)
    PROVE  Caught'
  <1>1. oep' = oep
    BY DEF CallProtect, Run, QuietStep, finderVars
  <1>2. CASE Handle(t) \/ OnCreateProcess
    <2>1. pc = "waiting"
      BY <1>2 DEF Handle, OnSingleStep, OnInitialBreak, OnBreakpoint, OnUnknownBreakpoint,
                  OnException, OnOther, OnExit, Reported, OnCreateProcess
    <2> QED BY <1>1, <2>1 DEF Caught
  <1>3. CASE ~Handle(t) /\ ~OnCreateProcess
    <2>1. pc # "stopped" /\ pc' = pc
      BY <1>3 DEF CallProtect, Reach, Run, Execute, QuietStep, LoaderBreak, HitInt3, ExitProcess,
                  RaiseOther, Jump, Free, Running
    <2> QED BY <1>1, <2>1 DEF Caught
  <1> QED BY <1>2, <1>3

(* A request of executable memory is one from the moment it is made.       *)
LEMMA RunningRecorded ==
    ASSUME BookKeeping, PlaceInv, Recorded, NEW t \in Threads,
           CallProtect(t) \/ Run(t) \/ QuietStep(t)
    PROVE  Recorded' /\ requested \subseteq requested'
  <1>1. UNCHANGED watched
    BY DEF CallProtect, Run, QuietStep, finderVars
  <1>2. CASE CallProtect(t)
    <2>1. PICK q \in Requests :
            /\ call' = [call EXCEPT ![t] =
                  [base |-> q[1], size |-> q[2], protect |-> q[3], asked |-> q[3],
                   watched |-> Watching /\ mem[ProtectFn] = "int3"]]
            /\ requested' = IF q[3] \in ExecKinds THEN requested \cup PagesOf(q[1], q[2])
                                                  ELSE requested
      BY <1>2 DEF CallProtect, IsExecutable
    <2>2. requested \subseteq requested'
      BY <2>1
    <2>3. ASSUME NEW u \in Threads, call'[u].protect \in ExecKinds
          PROVE  PagesOf(call'[u].base, call'[u].size) \subseteq requested'
      <3>1. CASE u = t
        <4>1. call'[u].base = q[1] /\ call'[u].size = q[2] /\ call'[u].protect = q[3]
          BY <2>1, <3>1 DEF PlaceInv, PackerTyped
        <4> QED BY <2>1, <2>3, <4>1
      <3>2. CASE u # t
        <4>1. call'[u] = call[u]
          BY <2>1, <3>2 DEF PlaceInv, PackerTyped
        <4> QED BY <2>2, <2>3, <4>1 DEF Recorded
      <3> QED BY <3>1, <3>2
    <2> QED BY <1>1, <2>2, <2>3 DEF Recorded, PagesOf, PageOf
  <1>3. CASE Run(t) \/ QuietStep(t)
    <2>1. /\ requested' = requested
          /\ call' = call \/ call' = [call EXCEPT ![t] = NoCall]
      BY <1>3 DEF Run, QuietStep
    <2>2. NoCall.protect \notin ExecKinds
      BY DEF NoCall, ExecKinds
    <2>3. \A u \in Threads : call'[u] = call[u] \/ call'[u] = NoCall
      BY <2>1 DEF PlaceInv, PackerTyped
    <2> QED BY <1>1, <2>1, <2>2, <2>3 DEF Recorded, PagesOf, PageOf
  <1> QED BY <1>2, <1>3

LEMMA RunningCatch ==
    ASSUME BookKeeping, PlaceInv, CatchInv, NEW t \in Threads,
           CallProtect(t) \/ Run(t) \/ QuietStep(t)
    PROVE  CatchInv'
  <1>1. oep' = oep
    BY DEF CallProtect, Run, QuietStep, finderVars
  <1>2. Caught' /\ Recorded' /\ requested \subseteq requested'
    BY RunningCaught, RunningRecorded DEF CatchInv
  <1> QED BY <1>1, <1>2 DEF CatchInv, OepRequested, PageOf

(* Only AtProtect touches the regions and the calls.                       *)
LEMMA FinderRecorded ==
    ASSUME BookKeeping, PlaceInv, Recorded, Move
    PROVE  Recorded' /\ requested' = requested
  <1>1. CASE AtProtect
    <2> DEFINE t == pending.tid
               c == call[t]
    <2>1. /\ t \in Threads /\ c \in Calls
          /\ \/ c.protect \in ExecKinds /\ call' = [call EXCEPT ![t] = Without(c)]
             \/ c.protect \notin ExecKinds /\ UNCHANGED <<call, watched>>
      BY <1>1, ProtectPlace
    <2>2. /\ requested' = requested
          /\ \/ c.protect \in ExecKinds /\ Watch(c)
             \/ c.protect \notin ExecKinds
      BY <1>1 DEF AtProtect, IsExecutable
    <2>3. Without(c).protect \notin ExecKinds
      BY <2>1, StripKeepsWritable DEF Without, Calls
    <2> HIDE DEF c, t
    <2>4. CASE c.protect \notin ExecKinds
      BY <2>1, <2>2, <2>4 DEF Recorded, PagesOf, PageOf
    <2>5. CASE c.protect \in ExecKinds
      <3> DEFINE r == [base |-> c.base, size |-> c.size, original |-> c.protect]
      <3>1. watched' = Append(watched, r) /\ call' = [call EXCEPT ![t] = Without(c)]
        BY <2>1, <2>2, <2>5 DEF Watch
      <3>2. \A u \in Threads :
              \/ u # t /\ call'[u] = call[u]
              \/ u = t /\ call'[u].protect \notin ExecKinds
        BY <2>1, <2>3, <3>1 DEF PlaceInv, PackerTyped
      <3>3. PagesOf(c.base, c.size) \subseteq requested
        BY <2>1, <2>5 DEF Recorded, c
      <3>4. r \in Regions
        BY <2>1, <2>5 DEF Calls, Regions
      <3>5. r.base = c.base /\ r.size = c.size
        OBVIOUS
      <3> HIDE DEF r
      <3>6. \A i \in DOMAIN watched' : \/ i \in DOMAIN watched /\ watched'[i] = watched[i]
                                      \/ watched'[i] = r
        BY <3>1, <3>4, AppendProperties, LenProperties DEF PlaceInv, FinderTyped
      <3>7. \A i \in DOMAIN watched' :
              PagesOf(watched'[i].base, watched'[i].size) \subseteq requested
        BY <3>3, <3>5, <3>6 DEF Recorded
      <3>8. \A u \in Threads : call'[u].protect \in ExecKinds =>
              PagesOf(call'[u].base, call'[u].size) \subseteq requested
        BY <3>2 DEF Recorded
      <3> QED BY <2>2, <3>7, <3>8 DEF Recorded, PagesOf, PageOf
    <2> QED BY <2>4, <2>5
  <1>2. CASE ~AtProtect
    <2>1. UNCHANGED <<watched, call, requested>>
      BY <1>2, Moves DEF ArmWatch, Catch, DumpAtOep, GoesOn, GoOn, Leave, Closes, Breaks,
                         finderVars, packerVars
    <2> QED BY <2>1 DEF Recorded, PagesOf, PageOf
  <1> QED BY <1>1, <1>2

LEMMA FinderCatch ==
    ASSUME BookKeeping, PlaceInv, CatchInv, Move
    PROVE  CatchInv'
  <1>1. Recorded' /\ requested' = requested
    BY FinderRecorded DEF CatchInv
  <1>2. CASE ArmWatch \/ AtProtect
    <2>1. pc = "stopped" /\ stop.kind \in {"initial", "breakpoint"} /\ oep' = oep
      BY <1>2 DEF ArmWatch, SetBreakpoint, StoppedAlive, AtProtect
    <2>2. oep = NoAddr
      BY <2>1 DEF CatchInv, Caught
    <2> QED BY <1>1, <2>1, <2>2 DEF CatchInv, Caught, OepRequested
  <1>3. CASE Catch
    <2>1. /\ oep' = FaultAddress /\ oep' \in Addresses
          /\ AtOepFault
          /\ UNCHANGED <<vars, watched, tls, faultAt>>
      BY <1>3, CatchPlace DEF Catch
    <2>2. PICK i \in DOMAIN watched :
             /\ PageOf(oep') \in PagesOf(watched[i].base, watched[i].size)
             /\ watched[i].original \in ExecKinds
             /\ prot'[PageOf(oep')] = watched[i].original
      BY <1>3, CatchPlace
    <2>3. UNCHANGED <<pc, stop, pending>>
      BY <2>1 DEF vars, engineVars
    <2>4. oep' \notin tls /\ RegionOf(oep') # NoRegion /\ stop.kind = "exception"
      BY <2>1 DEF AtOepFault, IsOep
    <2>5. FaultAddress' = FaultAddress
      BY <2>1, <2>3 DEF FaultAddress
    <2>6. IsOep(oep)'
      BY <2>1, <2>4 DEF IsOep, RegionOf, NoRegion
    <2>7. IsExecutable(prot[PageOf(oep)])'
      BY <2>2 DEF IsExecutable, PageOf
    <2>8. Caught'
      BY <2>1, <2>3, <2>4, <2>5, <2>6, <2>7 DEF Caught, AtOepFault
    <2>9. OepRequested'
      BY <1>1, <2>2 DEF CatchInv, Recorded, OepRequested, PageOf
    <2> QED BY <1>1, <2>8, <2>9 DEF CatchInv
  <1>4. CASE DumpAtOep
    <2>1. /\ UNCHANGED <<watched, tls, oep, pc, stop, prot, faultAt>>
          /\ pc = "stopped" /\ pending' = [pending EXCEPT !.status = "continue"]
      BY <1>4 DEF DumpAtOep, MarkHandled, packerVars
    <2>2. pending'.tid = pending.tid
      BY <2>1 DEF BookKeeping, TypeOK, NoPending
    <2>3. FaultAddress' = FaultAddress
      BY <2>1, <2>2 DEF FaultAddress
    <2>4. IsOep(oep)' = IsOep(oep) /\ IsExecutable(prot[PageOf(oep)])' = IsExecutable(prot[PageOf(oep)])
      BY <2>1 DEF IsOep, RegionOf, NoRegion, IsExecutable, PageOf
    <2> QED BY <1>1, <2>1, <2>3, <2>4 DEF CatchInv, Caught, OepRequested, PageOf
  <1>5. CASE GoesOn
    <2>1. pc = "stopped" /\ ~AtOepFault
      BY <1>5 DEF GoesOn, GoOn, Cont
    <2>2. oep = NoAddr
      BY <2>1 DEF CatchInv, Caught, AtOepFault
    <2>3. oep' = oep
      BY <1>5 DEF GoesOn, GoOn
    <2> QED BY <1>1, <2>2, <2>3 DEF CatchInv, Caught, OepRequested
  <1>6. CASE Leave \/ Closes \/ Breaks
    <2>1. oep' = oep
      BY <1>6 DEF Leave, Closes, Breaks, finderVars
    <2>2. pc' \notin {"stopped", "waiting"}
      BY <1>6, FailsIs DEF Leave, Closes, Breaks, Detach, StopDebugging, RestoreByte
    <2> QED BY <1>1, <2>1, <2>2 DEF CatchInv, Caught, OepRequested, PageOf
  <1> QED BY <1>2, <1>3, <1>4, <1>5, <1>6, Moves

LEMMA NextCatch ==
    ASSUME BookKeeping, PlaceInv, CatchInv, [OepNext]_oepVars
    PROVE  CatchInv'
  <1>1. CASE \E t \in Threads : CallProtect(t) \/ Run(t) \/ QuietStep(t)
    BY <1>1, RunningCatch
  <1>2. CASE Move
    BY <1>2, FinderCatch
  <1>3. ASSUME OnCreateProcess \/ UNCHANGED vars, UNCHANGED <<finderVars, packerVars>>
        PROVE  CatchInv'
    <2>1. UNCHANGED <<pending, pc, stop>>
      BY <1>3 DEF OnCreateProcess, vars, engineVars
    <2>2. UNCHANGED <<watched, tls, oep, call, requested, prot, faultAt>>
      BY <1>3 DEF finderVars, packerVars
    <2>3. FaultAddress' = FaultAddress /\ IsOep(oep)' = IsOep(oep)
          /\ IsExecutable(prot[PageOf(oep)])' = IsExecutable(prot[PageOf(oep)])
      BY <2>1, <2>2 DEF FaultAddress, IsOep, RegionOf, NoRegion, IsExecutable, PageOf
    <2> QED BY <2>1, <2>2, <2>3 DEF CatchInv, Caught, Recorded, OepRequested, PagesOf, PageOf
  <1> QED BY <1>1, <1>2, <1>3, OepSteps DEF oepVars

LEMMA CatchAlways == OepSpec => []CatchInv
  <1>1. OepInit => CatchInv
    BY OepInitCatch
  <1>2. BookKeeping /\ PlaceInv /\ CatchInv /\ [OepNext]_oepVars => CatchInv'
    BY NextCatch
  <1> QED BY <1>1, <1>2, PlaceAlways, PTL DEF OepSpec

(***************************************************************************)
(* The thread that is caught can execute its instruction when it resumes:  *)
(* the region restored is one that holds the fault, with its execute bit   *)
(* (lib.rs:315-319), whichever regions overlap it.                         *)
(***************************************************************************)
THEOREM CaughtResumes == OepSpec => []CaughtCanRun
  <1>1. CatchInv => CaughtCanRun
    BY DEF CatchInv, Caught, CaughtCanRun
  <1> QED BY <1>1, CatchAlways, PTL

(***************************************************************************)
(* What is caught lies in a page that the program has asked to execute     *)
(* (execmem.rs:5-9, 38-43): each region the finder keeps is a request's,   *)
(* and no address the finder takes to be in one leaves its pages, for      *)
(* every page size and however ranges, pages and requests overlap.         *)
(***************************************************************************)
THEOREM CaughtIsRequested == OepSpec => []OepRequested
  <1>1. CatchInv => OepRequested
    BY DEF CatchInv
  <1> QED BY <1>1, CatchAlways, PTL

-----------------------------------------------------------------------------
(* What is flipped.                                                        *)

OnePacker == \A t, u \in Packers : t = u

(* A watched call that is past its breakpoint has lost its execute bit, or *)
(* the finder is about to take it.                                         *)
CallsStripped ==
    Watching => \A t \in Threads :
        ip[t] = At(ProtectFn) /\ call[t].watched /\ mem[ProtectFn] = "orig" =>
            \/ call[t].protect \notin ExecKinds
            \/ /\ pc = "stopped" /\ stop.kind = "breakpoint"
               /\ pending.tid = t /\ ~served

FlipInv == CallsStripped /\ FlipsHold

LEMMA OepInitFlip == OepInit => FlipInv
  <1> SUFFICES ASSUME OepInit PROVE FlipInv
    OBVIOUS
  <1>1. CallsStripped
    BY DEF OepInit, CallsStripped, NoCall
  <1>2. FlipsHold
    BY DEF OepInit, FlipsHold, ExecKinds
  <1> QED BY <1>1, <1>2 DEF FlipInv

LEMMA CallFlip ==
    ASSUME BookKeeping, PlaceInv, FlipInv, NEW t \in Threads, CallProtect(t)
    PROVE  FlipInv'
  <1>1. /\ UNCHANGED <<mem, pc, stop, pending, oep, served, prot, wanted, bypassed>>
        /\ ip' = [ip EXCEPT ![t] = At(ProtectFn)]
    BY DEF CallProtect, Reach, engineVars, finderVars
  <1>2. PICK q \in Requests :
          call' = [call EXCEPT ![t] = [base |-> q[1], size |-> q[2], protect |-> q[3],
                                       asked |-> q[3],
                                       watched |-> Watching /\ mem[ProtectFn] = "int3"]]
    BY DEF CallProtect
  <1>3. call'[t].watched => mem[ProtectFn] = "int3"
    BY <1>2 DEF PlaceInv, PackerTyped
  <1>4. \A u \in Threads : u # t => call'[u] = call[u] /\ ip'[u] = ip[u]
    BY <1>1, <1>2 DEF PlaceInv, PackerTyped, BookKeeping, TypeOK
  <1>5. CallsStripped'
    BY <1>1, <1>3, <1>4 DEF FlipInv, CallsStripped, Watching, At
  <1>6. FlipsHold'
    BY <1>1 DEF FlipInv, FlipsHold, Watching
  <1> QED BY <1>5, <1>6 DEF FlipInv

LEMMA RunFlip ==
    ASSUME BookKeeping, PlaceInv, FlipInv, NEW t \in Threads, Run(t)
    PROVE  FlipInv'
  <1>1. /\ Execute(t) /\ pc # "stopped"
        /\ UNCHANGED <<mem, pc, stop, pending, oep, served>>
        /\ ip' = [ip EXCEPT ![t] = Elsewhere]
    BY DEF Run, Execute, Free, Running, engineVars, finderVars
  <1>2. \A u \in Threads : u # t => call'[u] = call[u] /\ ip'[u] = ip[u]
    BY <1>1 DEF Run, PlaceInv, PackerTyped, BookKeeping, TypeOK
  <1>3. ip'[t] # At(ProtectFn)
    BY <1>1, FnIsSite DEF Elsewhere, At, BookKeeping, TypeOK
  <1>4. CallsStripped'
    BY <1>1, <1>2, <1>3 DEF FlipInv, CallsStripped, Watching
  <1>5. ASSUME ip[t].site = ProtectFn PROVE FlipsHold'
    <2> DEFINE c == call[t]
               touched == PagesOf(c.base, c.size)
    <2>1. /\ prot' = [p \in Pages |-> IF p \in touched THEN c.protect ELSE prot[p]]
          /\ wanted' = [p \in Pages |-> IF p \in touched THEN c.asked ELSE wanted[p]]
          /\ bypassed' = IF c.watched THEN bypassed \ touched ELSE bypassed \cup touched
      BY <1>5 DEF Run
    <2>2. c \in Calls
      BY <1>5 DEF PlaceInv, AtFunction, PackerTyped
    <2>3. c.protect \in Writable <=> c.asked \in Writable
      BY <2>2 DEF Calls
    <2>4. ip[t] = At(ProtectFn) /\ mem[ProtectFn] = "orig"
      <3>1. mem[ProtectFn] = "orig"
        BY <1>1, <1>5, FnIsSite DEF Execute, Elsewhere
      <3>2. ~ip[t].past
        BY <1>1 DEF Execute, Free, BookKeeping, PastIsHeld, NoEvent
      <3>3. ip[t] = [site |-> ProtectFn, past |-> FALSE]
        BY <1>5, <3>2 DEF BookKeeping, TypeOK, Places
      <3> QED BY <3>1, <3>3 DEF At
    <2>5. Watching /\ c.watched => c.protect \notin ExecKinds
      BY <1>1, <2>4 DEF FlipInv, CallsStripped
    <2> HIDE DEF c, touched
    <2>6. SUFFICES ASSUME Watching', oep' = NoAddr, NEW p \in Pages, p \notin bypassed'
                   PROVE  /\ prot'[p] \notin ExecKinds
                          /\ prot'[p] \in Writable <=> wanted'[p] \in Writable
      BY DEF FlipsHold
    <2>7. Watching /\ oep = NoAddr
      BY <1>1, <2>6 DEF Watching
    <2>8. CASE p \in touched
      <3>1. c.watched
        BY <2>1, <2>6, <2>8
      <3> QED BY <2>1, <2>3, <2>5, <2>7, <2>8, <3>1
    <2>9. CASE p \notin touched
      <3>1. p \notin bypassed
        BY <2>1, <2>6, <2>9
      <3>2. prot'[p] = prot[p] /\ wanted'[p] = wanted[p]
        BY <2>1, <2>9
      <3> QED BY <2>7, <3>1, <3>2 DEF FlipInv, FlipsHold
    <2> QED BY <2>8, <2>9
  <1>6. ASSUME ip[t].site # ProtectFn PROVE FlipsHold'
    <2>1. UNCHANGED <<prot, wanted, bypassed>>
      BY <1>6 DEF Run
    <2> QED BY <1>1, <2>1 DEF FlipInv, FlipsHold, Watching
  <1> QED BY <1>4, <1>5, <1>6 DEF FlipInv

(* Only the one packer's own breakpoint takes the int3 away.               *)
LEMMA QuietFlip ==
    ASSUME OnePacker, BookKeeping, PlaceInv, FlipInv, NEW t \in Threads, QuietStep(t)
    PROVE  FlipInv'
  <1>1. UNCHANGED <<oep, served, call, prot, wanted, bypassed>>
    BY DEF QuietStep, finderVars
  <1>2. Watching' => Watching
    BY DEF QuietStep, Handle, OnSingleStep, OnInitialBreak, OnBreakpoint, OnUnknownBreakpoint,
           OnException, OnOther, OnExit, Reported, OnCreateProcess, LoaderBreak, HitInt3,
           ExitProcess, RaiseOther, Jump, Watching
  <1>3. FlipsHold'
    BY <1>1, <1>2 DEF FlipInv, FlipsHold
  <1>4. CASE OnBreakpoint(t)
    <2>1. /\ raised[t].site = ProtectFn /\ pc = "waiting"
          /\ pending' = [tid |-> t, status |-> "continue"]
          /\ stop' = [kind |-> "breakpoint", site |-> raised[t].site]
          /\ pc' = "stopped"
          /\ ip' = [ip EXCEPT ![t] = At(raised[t].site)]
      BY <1>4, OepAssumption DEF OnBreakpoint, Armed, Return, Rewind, Reported
    <2>2. ip[t].site = ProtectFn /\ t \in Packers
      BY <2>1 DEF PlaceInv, AtFunction
    <2>3. \A u \in Threads : ip'[u] = At(ProtectFn) => u = t
      <3>1. \A u \in Threads : u # t => ip'[u] = ip[u]
        BY <2>1 DEF BookKeeping, TypeOK
      <3>2. \A u \in Threads : ip[u] = At(ProtectFn) => u \in Packers
        BY DEF PlaceInv, AtFunction, At
      <3> QED BY <2>2, <3>1, <3>2 DEF OnePacker
    <2>4. ~served
      BY <2>1 DEF PlaceInv, AtStop
    <2>5. CallsStripped'
      BY <1>1, <2>1, <2>3, <2>4 DEF CallsStripped
    <2> QED BY <1>3, <2>5 DEF FlipInv
  <1>5. CASE ~OnBreakpoint(t)
    <2>1. mem' = mem \/ mem'[ProtectFn] = "int3"
      <3>1. CASE OnSingleStep(t) /\ rearm # NoRearm
        <4>1. rearm.site = ProtectFn /\ mem' = [mem EXCEPT ![rearm.site] = "int3"]
          BY <3>1, OepAssumption DEF OnSingleStep, StepEnds, PutBack, BookKeeping, TypeOK
        <4> QED BY <4>1, FnIsSite DEF BookKeeping, TypeOK
      <3>2. CASE ~(OnSingleStep(t) /\ rearm # NoRearm)
        BY <1>5, <3>2 DEF QuietStep, Handle, OnSingleStep, OnInitialBreak, OnUnknownBreakpoint,
                  OnException, OnOther, OnExit, OnCreateProcess, LoaderBreak, HitInt3,
                  ExitProcess, RaiseOther, Jump, targetVars
      <3> QED BY <3>1, <3>2
    <2>2. \A u \in Threads : ip'[u] = At(ProtectFn) => ip[u] = At(ProtectFn)
      <3>1. \/ ip' = ip
            \/ \E p \in {Elsewhere, PastInt3(ip[t].site)} : ip' = [ip EXCEPT ![t] = p]
        <4>1. CASE OnSingleStep(t) \/ OnUnknownBreakpoint(t) \/ OnOther(t)
          <5>1. ip' = [ip EXCEPT ![t] = IF @.past THEN Elsewhere ELSE @]
            BY <4>1 DEF OnSingleStep, OnUnknownBreakpoint, OnOther, Continue
          <5>2. ip' = ip \/ ip' = [ip EXCEPT ![t] = Elsewhere]
            BY <5>1 DEF BookKeeping, TypeOK
          <5> QED BY <5>2
        <4>2. CASE HitInt3(t)
          BY <4>2 DEF HitInt3
        <4>3. CASE ~(OnSingleStep(t) \/ OnUnknownBreakpoint(t) \/ OnOther(t) \/ HitInt3(t))
          BY <1>5, <4>3 DEF QuietStep, Handle, OnInitialBreak, OnException, OnExit,
                    OnCreateProcess, LoaderBreak, ExitProcess, RaiseOther, Jump, targetVars
        <4> QED BY <4>1, <4>2, <4>3
      <3> QED BY <3>1, FnIsSite DEF BookKeeping, TypeOK, Elsewhere, PastInt3, At
    <2>3. pc = "stopped" => FALSE
      BY DEF QuietStep, Handle, OnSingleStep, OnInitialBreak, OnBreakpoint, OnUnknownBreakpoint,
             OnException, OnOther, OnExit, Reported, OnCreateProcess, LoaderBreak, HitInt3,
             ExitProcess, RaiseOther, Jump, Free, Running
    <2>4. CallsStripped'
      BY <1>1, <1>2, <2>1, <2>2, <2>3 DEF FlipInv, CallsStripped
    <2> QED BY <1>3, <2>4 DEF FlipInv
  <1> QED BY <1>4, <1>5

LEMMA FinderFlip ==
    ASSUME BookKeeping, PlaceInv, FlipInv, Move
    PROVE  FlipInv'
  <1>1. CASE ArmWatch
    <2>1. /\ mem' = [mem EXCEPT ![ProtectFn] = "int3"] /\ pc' = pc
          /\ UNCHANGED <<oep, prot, wanted, bypassed>>
      BY <1>1 DEF ArmWatch, SetBreakpoint, packerVars
    <2>2. mem'[ProtectFn] = "int3"
      BY <2>1, FnIsSite DEF BookKeeping, TypeOK
    <2> QED BY <2>1, <2>2 DEF FlipInv, CallsStripped, FlipsHold, Watching
  <1>2. CASE AtProtect
    <2> DEFINE t == pending.tid
    <2>1. /\ t \in Threads /\ call[t] \in Calls
          /\ \/ call' = [call EXCEPT ![t] = Without(call[t])]
             \/ call[t].protect \notin ExecKinds /\ call' = call
      BY <1>2, ProtectPlace
    <2>2. UNCHANGED <<ip, mem, pc, stop, pending, oep, prot, wanted, bypassed>>
      BY <1>2 DEF AtProtect, vars, targetVars, engineVars
    <2>3. call'[t].protect \notin ExecKinds
      <3>1. Without(call[t]).protect \notin ExecKinds
        BY <2>1, StripKeepsWritable DEF Without, Calls
      <3> QED BY <2>1, <3>1 DEF PlaceInv, PackerTyped
    <2>4. \A u \in Threads : u # t => call'[u] = call[u]
      BY <2>1 DEF PlaceInv, PackerTyped
    <2> HIDE DEF t
    <2>5. CallsStripped'
      BY <2>2, <2>3, <2>4 DEF FlipInv, CallsStripped, Watching, t
    <2> QED BY <2>2, <2>5 DEF FlipInv, FlipsHold, Watching
  <1>3. CASE Catch
    <2>1. oep' # NoAddr
      BY <1>3, CatchPlace, OepAssumption
    <2>2. UNCHANGED <<ip, mem, pc, stop, pending, call, served>>
      BY <1>3 DEF Catch, vars, targetVars, engineVars
    <2> QED BY <2>1, <2>2 DEF FlipInv, CallsStripped, FlipsHold, Watching
  <1>4. CASE DumpAtOep
    <2>1. /\ UNCHANGED <<ip, mem, pc, stop, call, served, oep, prot, wanted, bypassed>>
          /\ pending' = [pending EXCEPT !.status = "continue"]
      BY <1>4 DEF DumpAtOep, MarkHandled, packerVars, targetVars
    <2>2. pending'.tid = pending.tid
      BY <2>1 DEF BookKeeping, TypeOK, NoPending
    <2> QED BY <2>1, <2>2 DEF FlipInv, CallsStripped, FlipsHold, Watching
  <1>5. CASE GoesOn
    <2>1. /\ UNCHANGED <<mem, call, oep, prot, wanted, bypassed>> /\ pc = "stopped"
          /\ stop.kind = "breakpoint" => served
          /\ ContinuePending
      BY <1>5 DEF GoesOn, GoOn, Cont, packerVars
    <2>2. \A u \in Threads : ip'[u] = At(ProtectFn) => ip[u] = At(ProtectFn)
      BY <2>1, FnIsSite DEF ContinuePending, Continue, Elsewhere, At, BookKeeping, TypeOK
    <2>3. CallsStripped'
      BY <2>1, <2>2 DEF FlipInv, CallsStripped, Watching
    <2> QED BY <2>1, <2>3 DEF FlipInv, FlipsHold, Watching
  <1>6. CASE Leave \/ Closes \/ Breaks
    <2>1. ~Watching'
      BY <1>6, FailsIs DEF Leave, Closes, Breaks, Detach, StopDebugging, RestoreByte, Watching
    <2> QED BY <2>1 DEF FlipInv, CallsStripped, FlipsHold
  <1> QED BY <1>1, <1>2, <1>3, <1>4, <1>5, <1>6, Moves

LEMMA NextFlip ==
    ASSUME OnePacker, BookKeeping, PlaceInv, FlipInv, [OepNext]_oepVars
    PROVE  FlipInv'
  <1>1. CASE \E t \in Threads : CallProtect(t) \/ Run(t) \/ QuietStep(t)
    BY <1>1, CallFlip, RunFlip, QuietFlip
  <1>2. CASE Move
    BY <1>2, FinderFlip
  <1>3. ASSUME OnCreateProcess \/ UNCHANGED vars, UNCHANGED <<finderVars, packerVars>>
        PROVE  FlipInv'
    <2>1. UNCHANGED <<ip, mem, pending, pc, stop>>
      BY <1>3 DEF OnCreateProcess, vars, targetVars, engineVars
    <2>2. UNCHANGED <<served, oep, call, prot, wanted, bypassed>>
      BY <1>3 DEF finderVars, packerVars
    <2> QED BY <2>1, <2>2 DEF FlipInv, CallsStripped, FlipsHold, Watching
  <1> QED BY <1>1, <1>2, <1>3, OepSteps DEF oepVars

(***************************************************************************)
(* With one thread that asks for executable memory, no page under watch    *)
(* executes until the OEP is found, and each stays writable exactly if the *)
(* program last asked for that (oep.rs:18-19): whatever the other threads  *)
(* raise, step and fault meanwhile, and however often the requests overlap.*)
(***************************************************************************)
THEOREM FlipsAlwaysHold ==
    ASSUME OnePacker
    PROVE  OepSpec => []FlipsHold
  <1>1. OepInit => FlipInv
    BY OepInitFlip
  <1>2. BookKeeping /\ PlaceInv /\ FlipInv /\ [OepNext]_oepVars => FlipInv'
    BY NextFlip
  <1>3. FlipInv => FlipsHold
    BY DEF FlipInv
  <1> QED BY <1>1, <1>2, <1>3, PlaceAlways, PTL DEF OepSpec

-----------------------------------------------------------------------------
(* The watch itself.                                                       *)

(***************************************************************************)
(* The finder keeps its one breakpoint for as long as it watches, whatever *)
(* the program raises: the persistent breakpoint at NtProtectVirtualMemory *)
(* is in memory or about to be put back (execmem.rs, engine.rs:271).       *)
(***************************************************************************)
THEOREM WatchIsKept == OepSpec => []PersistentArmed
  <1>1. OepInit => PersistentArmed
    BY DEF OepInit, Init, PersistentArmed
  <1>2. OnePersistent
    BY OepAssumption DEF OnePersistent
  <1>3. ASSUME BookKeeping, PersistentArmed, NEW t \in Threads, NEW a \in Addresses, Jump(t, a)
        PROVE  PersistentArmed'
    BY <1>3 DEF Jump, engineVars, PersistentArmed, Watching
  <1>4. BookKeeping /\ PersistentArmed /\ [OepNext]_oepVars => PersistentArmed'
    BY <1>2, <1>3, NextArmed, OepIsEngineStep
  <1> QED BY <1>1, <1>4, OepBooksAlways, PTL DEF OepSpec
===============
