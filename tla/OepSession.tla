----------------------------- MODULE OepSession -----------------------------
(***************************************************************************)
(* The OEP finder (lib.rs oep_finder, triggers/execmem.rs,                 *)
(* triggers/oep.rs, debug/tls.rs) on top of the engine, composed with a    *)
(* packed target: threads that ask NtProtectVirtualMemory for executable   *)
(* memory and threads that jump into it.                                   *)
(*                                                                         *)
(* Memory is a run of addresses, PageSize to a page. The kernel protects   *)
(* the pages a call's range touches; the finder keeps the range itself.    *)
(***************************************************************************)
EXTENDS Engine, Sequences, FiniteSetsExt

CONSTANTS
    ProtectFn,     \* NtProtectVirtualMemory
    Packers,       \* the threads that call it
    Requests,      \* what they ask for: <<base, size, protection>>
    MaxCalls,      \* bound on their calls
    PageSize, PageCount,
    TlsArray,      \* the callback array of the image's TLS directory
    MaxCallbacks,  \* MAX_CALLBACKS
    NoAddr

Addresses == 0 .. (PageSize * PageCount - 1)
Pages == 0 .. (PageCount - 1)
ExecKinds == {"x", "rx", "rwx", "xwc"}
Writable == {"rw", "wc", "rwx", "xwc"}
Protections == ExecKinds \cup {"ro", "rw", "wc"}

ASSUME OepAssumption ==
    /\ Sites = {ProtectFn} /\ PersistentSites = {ProtectFn}
    /\ Packers \subseteq Threads
    /\ \A q \in Requests : /\ q[1] \in Addresses /\ q[2] \in Nat \ {0}
                           /\ q[1] + q[2] - 1 \in Addresses /\ q[3] \in Protections
    /\ {PageSize, PageCount, MaxCallbacks} \subseteq Nat \ {0}
    /\ MaxCalls \in Nat
    /\ ~ArmTwice
    /\ \A i \in DOMAIN TlsArray : TlsArray[i] \in Addresses
    /\ NoAddr \notin Addresses

VARIABLES
    (* the finder *)
    watched,   \* ExecMem.watched: the flipped regions, in order
    tls,       \* ExecMem.tls_callbacks
    served,    \* the present stop at NtProtectVirtualMemory has been served
    oep,       \* the address of the fault being caught
    dumped,
    (* the target *)
    call,      \* each thread's call: its arguments, and what it asked for
    calls,     \* how many calls have been made
    prot,      \* the protection of each page
    wanted,    \* the protection the program last asked for, for each page
    bypassed,  \* pages last protected by a call made outside the watch
    requested, \* pages that a request for executable memory has covered
    faultAt    \* where each thread has faulted

finderVars == <<watched, tls, served, oep, dumped>>
packerVars == <<call, calls, prot, wanted, bypassed, requested, faultAt>>
oepVars == <<vars, finderVars, packerVars>>

-----------------------------------------------------------------------------
IsExecutable(p) == p \in ExecKinds

StripRxOnly(p) == IF p \in {"x", "rx"} THEN "ro" ELSE p

(* strip_execute: the counterpart without execute.                         *)
StripExecute(p) ==
    CASE p \in {"x", "rx"} -> "ro"
      [] p = "rwx" -> "rw"
      [] p = "xwc" -> "wc"
      [] OTHER -> p

NoCall == [base |-> NoAddr, size |-> 0, protect |-> "none",
           asked |-> "none", watched |-> FALSE]
NoRegion == [base |-> NoAddr, size |-> 0, original |-> "none"]

PageOf(a) == a \div PageSize
PagesOf(base, size) == PageOf(base) .. PageOf(base + size - 1)

(* callbacks, when n entries of the array can be read before its end: none *)
(* where the header, the directory or the pointer to the array cannot.     *)
CallbacksRead(n) == {TlsArray[i] : i \in {j \in DOMAIN TlsArray : j <= n}}

RegionOfClosed(a) ==
    LET holding == {i \in DOMAIN watched :
                       a >= watched[i].base /\ a <= watched[i].base + watched[i].size}
    IN  IF holding = {} THEN NoRegion ELSE watched[Min(holding)]

(* region_of: the first watched region that holds address a.               *)
RegionOf(a) ==
    LET holding == {i \in DOMAIN watched :
                       a >= watched[i].base /\ a < watched[i].base + watched[i].size}
    IN  IF holding = {} THEN NoRegion ELSE watched[Min(holding)]

IsOepAnywhere(a) == RegionOf(a) # NoRegion

(* A fault that is the OEP: not at a TLS callback, in a flipped region.    *)
IsOep(a) == a \notin tls /\ RegionOf(a) # NoRegion

OepInit ==
    /\ Init
    /\ watched = <<>> /\ tls = {} /\ served = FALSE /\ oep = NoAddr /\ dumped = FALSE
    /\ call = [t \in Threads |-> NoCall]
    /\ calls = 0
    /\ prot = [p \in Pages |-> "rw"]
    /\ wanted = prot
    /\ bypassed = {} /\ requested = {}
    /\ faultAt = [t \in Threads |-> NoAddr]

-----------------------------------------------------------------------------
(* The target.                                                             *)

CallProtect(t) == \E q \in Requests :
    /\ t \in Packers /\ calls < MaxCalls
    /\ Reach(t, ProtectFn)
    /\ calls' = calls + 1
    /\ call' = [call EXCEPT ![t] =
          [base |-> q[1], size |-> q[2], protect |-> q[3], asked |-> q[3],
           watched |-> Watching /\ mem[ProtectFn] = "int3"]]
    /\ requested' = IF IsExecutable(q[3]) THEN requested \cup PagesOf(q[1], q[2])
                                          ELSE requested
    /\ UNCHANGED <<finderVars, prot, wanted, bypassed, faultAt>>

(* A single-stepped instruction, or the call: the kernel protects what the *)
(* arguments say.                                                          *)
Run(t) ==
    /\ Execute(t)
    /\ IF ip[t].site = ProtectFn
         THEN LET c == call[t]
                  touched == PagesOf(c.base, c.size) IN
              /\ prot' = [p \in Pages |-> IF p \in touched THEN c.protect ELSE prot[p]]
              /\ wanted' = [p \in Pages |-> IF p \in touched THEN c.asked ELSE wanted[p]]
              /\ bypassed' = IF c.watched THEN bypassed \ touched
                                          ELSE bypassed \cup touched
              /\ call' = [call EXCEPT ![t] = NoCall]
         ELSE UNCHANGED <<prot, wanted, bypassed, call>>
    /\ UNCHANGED <<finderVars, calls, requested, faultAt>>

(* A thread jumps to an address that is not executable. The access         *)
(* violation is the finder's doing if the program made the page executable.*)
Jump(t, a) ==
    /\ Free(t) /\ Started /\ ip[t] = Elsewhere /\ ~tf[t]
    /\ ~IsExecutable(prot[PageOf(a)])
    /\ Raise(t, Event("fault", NoSite,
                      IF IsExecutable(wanted[PageOf(a)]) THEN "tool" ELSE "app"))
    /\ faultAt' = [faultAt EXCEPT ![t] = IF Debugged THEN a ELSE NoAddr]
    /\ UNCHANGED <<mem, ip, tf, start, unrestored, boot, alive, engineVars, pc,
                   stop, finderVars, call, calls, prot, wanted, bypassed, requested>>

OepTarget(t) ==
    \/ CallProtect(t)
    \/ Run(t)
    \/ \E a \in Addresses : Jump(t, a)
    \/ /\ LoaderBreak(t) \/ HitInt3(t) \/ ExitProcess(t)
       /\ UNCHANGED <<finderVars, packerVars>>
    \/ /\ RaiseOther(t)
       /\ faultAt' = [faultAt EXCEPT ![t] = NoAddr]
       /\ UNCHANGED <<finderVars, call, calls, prot, wanted, bypassed, requested>>

-----------------------------------------------------------------------------
(* The finder's loop.                                                      *)

(* Stop::InitialBreak: record what TLS callbacks can be read, arm the      *)
(* watch.                                                                  *)
ArmWatch ==
    /\ stop.kind = "initial" /\ ProtectFn \notin persistent
    /\ \E n \in 0 .. MaxCallbacks : tls' = CallbacksRead(n)
    /\ SetBreakpoint(ProtectFn)
    /\ UNCHANGED <<watched, served, oep, dumped, packerVars>>

WatchNothing(c) == UNCHANGED watched
WatchStripped(c) ==
    watched' = Append(watched, [base |-> c.base, size |-> c.size,
                                original |-> StripExecute(c.protect)])

(* ExecMem.watch, with the protection that was asked for.                  *)
Watch(c) ==
    watched' = Append(watched, [base |-> c.base, size |-> c.size, original |-> c.protect])

(* The arguments with the protection replaced (set_argument).              *)
Without(c) == [c EXCEPT !.protect = StripExecute(c.protect)]

(* Stop::Breakpoint: a request for executable memory is recorded, and made *)
(* without execute.                                                        *)
AtProtect ==
    LET c == call[pending.tid] IN
    /\ pc = "stopped" /\ stop = [kind |-> "breakpoint", site |-> ProtectFn] /\ ~served
    /\ served' = TRUE
    /\ IF IsExecutable(c.protect)
         THEN /\ Watch(c)
              /\ call' = [call EXCEPT ![pending.tid] = Without(c)]
         ELSE UNCHANGED <<watched, call>>
    /\ UNCHANGED <<vars, tls, oep, dumped, calls, prot, wanted, bypassed, requested,
                   faultAt>>

FaultAddress == faultAt[pending.tid]

AtOepFault ==
    /\ pc = "stopped" /\ stop.kind = "exception"
    /\ FaultAddress # NoAddr /\ IsOep(FaultAddress)

RestoreStripped(r) ==
    prot' = [p \in Pages |-> IF p \in PagesOf(r.base, r.size)
                                THEN StripExecute(r.original) ELSE prot[p]]

(* Debugger::protect with the region's original protection.                *)
Restore(r) ==
    prot' = [p \in Pages |-> IF p \in PagesOf(r.base, r.size) THEN r.original
                                                               ELSE prot[p]]

(* Stop::Exception at the OEP: restore the region, dump, mark handled; the *)
(* dump may fail (Abort) in between.                                       *)
Catch ==
    /\ AtOepFault /\ oep = NoAddr
    /\ oep' = FaultAddress
    /\ Restore(RegionOf(FaultAddress))
    /\ UNCHANGED <<vars, watched, tls, served, dumped, call, calls, wanted,
                   bypassed, requested, faultAt>>

DumpAtOep ==
    /\ AtOepFault /\ oep # NoAddr /\ ~dumped
    /\ dumped' = TRUE
    /\ MarkHandled
    /\ UNCHANGED <<watched, tls, served, oep, packerVars>>

(* Back to cont(): everything but the OEP and the exit.                    *)
GoOn ==
    /\ stop.kind = "initial" => ProtectFn \in persistent
    /\ stop.kind = "breakpoint" => served
    /\ ~AtOepFault
    /\ Cont \/ ContFails
    /\ served' = FALSE
    /\ UNCHANGED <<watched, tls, oep, dumped, packerVars>>

(* Out of the loop.                                                        *)
Leave ==
    /\ stop.kind = "exited" \/ dumped
    /\ Detach
    /\ UNCHANGED <<finderVars, packerVars>>

Finish ==
    /\ StopDebugging \/ Abort \/ RestoreByte(ProtectFn)
    /\ UNCHANGED <<finderVars, packerVars>>

Finder == ArmWatch \/ AtProtect \/ Catch \/ DumpAtOep \/ GoOn \/ Leave \/ Finish

OepNext ==
    \/ \E t \in Threads : OepTarget(t)
    \/ /\ OnCreateProcess \/ TurnFails \/ \E t \in Threads : Handle(t)
       /\ UNCHANGED <<finderVars, packerVars>>
    \/ Finder
    \/ Ended /\ UNCHANGED <<finderVars, packerVars>>

OepSpec == OepInit /\ [][OepNext]_oepVars

OepFairness ==
    /\ WF_oepVars(OnCreateProcess /\ UNCHANGED <<finderVars, packerVars>>)
    /\ \A t \in Threads : SF_oepVars(Handle(t) /\ UNCHANGED <<finderVars, packerVars>>)
    /\ WF_oepVars(Finder)

FairOepSpec == OepSpec /\ OepFairness

-----------------------------------------------------------------------------
(* Properties.                                                             *)

(* The finder's tables keep their type: only executable requests are       *)
(* recorded, with the protection that was asked for (execmem.rs:5-10).     *)
OepTypeOK ==
    /\ TypeOK
    /\ \A i \in DOMAIN watched :
          /\ watched[i].original \in ExecKinds
          /\ PagesOf(watched[i].base, watched[i].size) \subseteq Pages
    /\ tls \subseteq Addresses
    /\ {served, dumped} \subseteq BOOLEAN
    /\ oep \in Addresses \cup {NoAddr}
    /\ calls \in 0 .. MaxCalls
    /\ \A t \in Threads :
          /\ call[t] = NoCall \/ {call[t].protect, call[t].asked} \subseteq Protections
          /\ faultAt[t] \in Addresses \cup {NoAddr}
    /\ prot \in [Pages -> Protections]
    /\ wanted \in [Pages -> Protections]
    /\ {bypassed, requested} \subseteq SUBSET Pages

(* No page under watch executes until the OEP is found, so that the jump   *)
(* into it must fault, and each stays writable exactly if the program last *)
(* asked for that: the unpacking stub still writes it (oep.rs:18-19).      *)
FlipsHold ==
    Watching /\ oep = NoAddr =>
        \A p \in Pages \ bypassed :
            prot[p] \notin ExecKinds /\ (prot[p] \in Writable <=> wanted[p] \in Writable)

(* What is caught lies in a page that the program has asked to execute,    *)
(* byte ranges and pages notwithstanding (execmem.rs:5-9, 38-43): the      *)
(* finder takes no fault in other memory from the program.                 *)
OepRequested == oep # NoAddr => PageOf(oep) \in requested

(* The thread that is caught can execute its instruction when it resumes,  *)
(* so that one fault is dumped once (lib.rs:315-319).                      *)
CaughtCanRun ==
    oep # NoAddr /\ pc = "stopped" => IsExecutable(prot[PageOf(oep)])

(* Every first execution of flipped memory, other than a TLS callback's,   *)
(* is dumped, or the session ends (README.md:122-125).                     *)
JumpDumps ==
    \A t \in Threads :
        (/\ Watching /\ raised[t].kind = "fault" /\ raised[t].by = "tool"
         /\ faultAt[t] \notin tls)
            ~> (dumped \/ ~Watching \/ ~alive)
=============================================================================
