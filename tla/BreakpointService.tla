-------------------------- MODULE BreakpointService --------------------------
(***************************************************************************)
(* What set_breakpoint and set_persistent_breakpoint promise their caller  *)
(* (debug/engine.rs): while a site is watched, no thread executes the      *)
(* instruction there before its arrival has been announced, exactly once;  *)
(* a one-shot watch ends with its announcement, a persistent one remains.  *)
(***************************************************************************)
EXTENDS Naturals

CONSTANTS Threads, Sites, PersistentSites, NoSite

VARIABLES
    watch,      \* each site: not watched, watched once, or always
    at,         \* the site each thread is at
    announced   \* the threads whose arrival at an always-watched site is known

serviceVars == <<watch, at, announced>>

ServiceInit ==
    /\ watch = [s \in Sites |-> "off"]
    /\ at = [t \in Threads |-> NoSite]
    /\ announced = {}

Watch(s) ==
    /\ watch[s] = "off"
    /\ watch' = [watch EXCEPT ![s] =
                    IF s \in PersistentSites THEN "always" ELSE "once"]
    /\ UNCHANGED <<at, announced>>

(* The caller withdraws every watch; threads that wait at a site may be    *)
(* let go with it.                                                         *)
Release == \E freed \in SUBSET Threads :
    /\ watch' = [s \in Sites |-> "off"]
    /\ at' = [t \in Threads |-> IF t \in freed THEN NoSite ELSE at[t]]
    /\ announced' = {}

Arrive(t, s) ==
    /\ at[t] = NoSite
    /\ at' = [at EXCEPT ![t] = s]
    /\ UNCHANGED <<watch, announced>>

Announce(t) ==
    /\ at[t] # NoSite /\ t \notin announced
    /\ \/ /\ watch[at[t]] = "always"
          /\ announced' = announced \cup {t}
          /\ UNCHANGED watch
       \/ /\ watch[at[t]] = "once"
          /\ watch' = [watch EXCEPT ![at[t]] = "off"]
          /\ UNCHANGED announced
    /\ UNCHANGED at

Proceed(t) ==
    /\ at[t] # NoSite
    /\ watch[at[t]] = "off" \/ t \in announced
    /\ at' = [at EXCEPT ![t] = NoSite]
    /\ announced' = announced \ {t}
    /\ UNCHANGED watch

ServiceNext ==
    \/ Release
    \/ \E s \in Sites : Watch(s)
    \/ \E t \in Threads : Announce(t) \/ Proceed(t) \/ \E s \in Sites : Arrive(t, s)

ServiceSpec == ServiceInit /\ [][ServiceNext]_serviceVars
=============================================================================
