--------------------------------- MODULE Cli ---------------------------------
(***************************************************************************)
(* From the command line to the session that runs: Cli::into_action        *)
(* (cli.rs), dispatch and dispatch_dump (lib.rs), the exit code (lib.rs    *)
(* run).                                                                   *)
(*                                                                         *)
(* A command line is the set of flags given, whatever their values; clap   *)
(* itself is external. The pattern of -p may be no regular expression.     *)
(***************************************************************************)
EXTENDS Naturals, FiniteSets, Sequences

LOCAL INSTANCE SequencesExt

CONSTANT Flags   \* the flags a command line may give, other than -db

Scopes == {"pid", "p", "system", "launch"}
Options == {"a", "closemon", "oep", "hide", "minidump", "deps"}
Ops == {"gen", "add", "rem", "clean", "unknown"}

ASSUME CliAssumption == Flags \subseteq Scopes \cup Options

NoDb == [op |-> "none", path |-> FALSE]

VARIABLES
    given,    \* the flags of the command line
    db,       \* the operation of -db, and whether it has a path argument
    action,   \* the validated Action
    session,  \* the arm of dispatch_dump that was taken
    exit      \* the process exit code, or 99 while it runs

cliVars == <<given, db, action, session, exit>>

-----------------------------------------------------------------------------
Fails(why) == [kind |-> "error", what |-> why, flags |-> {}]
Manages(op) == [kind |-> "db", what |-> op, flags |-> {}]
Dumps(scope, flags) == [kind |-> "dump", what |-> scope, flags |-> flags]
NoAction == Fails("none")

(* parse_db.                                                               *)
ParseDb(d) ==
    CASE d.op \in {"gen", "clean"} /\ d.path -> Fails("db_path")
      [] d.op \in {"add", "rem"} /\ ~d.path -> Fails("db_no_path")
      [] d.op = "unknown" -> Fails("db_op")
      [] OTHER -> Manages(d.op)

(* The scope of the command: pid before the name, launch before system.    *)
Scope(f) == LET order == SelectSeq(<<"pid", "p", "launch", "system">>, LAMBDA s : s \in f)
            IN  IF order = <<>> THEN "none" ELSE order[1]

ChecksNoHide(f) ==
    << <<Cardinality(f \cap Scopes) > 1, "scopes">>,
       <<"closemon" \in f /\ "pid" \notin f, "closemon">>,
       <<Scope(f) = "none", "no_target">>,
       <<"a" \in f /\ Scope(f) # "pid", "addr">>,
       <<{"a", "closemon"} \subseteq f, "addr_closemon">>,
       <<"oep" \in f /\ Scope(f) \notin {"pid", "launch"}, "oep">>,
       <<"oep" \in f /\ f \cap {"a", "closemon"} # {}, "oep_mode">> >>

(* The checks of into_action, in order: condition and error.               *)
Checks(f) ==
    << <<Cardinality(f \cap Scopes) > 1, "scopes">>,
       <<"closemon" \in f /\ "pid" \notin f, "closemon">>,
       <<Scope(f) = "none", "no_target">>,
       <<"a" \in f /\ Scope(f) # "pid", "addr">>,
       <<{"a", "closemon"} \subseteq f, "addr_closemon">>,
       <<"oep" \in f /\ Scope(f) \notin {"pid", "launch"}, "oep">>,
       <<"oep" \in f /\ f \cap {"a", "closemon"} # {}, "oep_mode">>,
       <<"hide" \in f /\ Scope(f) # "launch" /\ f \cap {"a", "oep"} = {}, "hide">> >>

(* into_action: a database operation, the first error, or a dump.          *)
IntoAction(f, d) ==
    IF d # NoDb
      THEN IF f # {} THEN Fails("standalone") ELSE ParseDb(d)
      ELSE LET i == SelectInSeq(Checks(f), LAMBDA c : c[1])
           IN  IF i # 0 THEN Fails(Checks(f)[i][2])
               ELSE Dumps(Scope(f), f \ Scopes)

(* The arms of dispatch_dump: the scope, the mode flags each one matches,  *)
(* and the flags its call is given.                                        *)
Arms ==
    {[call |-> "dump_pid", scope |-> "pid", modes |-> {{}},
      takes |-> {"minidump", "deps"}],
     [call |-> "dump_on_breakpoint", scope |-> "pid", modes |-> {{"a"}},
      takes |-> {"a", "hide", "minidump", "deps"}],
     [call |-> "run_closemon", scope |-> "pid", modes |-> {{"closemon"}},
      takes |-> {"closemon", "minidump", "deps"}],
     [call |-> "run_oep_finder", scope |-> "pid", modes |-> {{"oep"}},
      takes |-> {"oep", "hide", "minidump", "deps"}],
     [call |-> "run_launch", scope |-> "launch", modes |-> {{}, {"oep"}},
      takes |-> {"oep", "hide", "minidump", "deps"}],
     [call |-> "run_name_regex", scope |-> "p", modes |-> {{}},
      takes |-> {"minidump", "deps"}],
     [call |-> "run_system_sweep", scope |-> "system", modes |-> {{}},
      takes |-> {"minidump", "deps"}]}

Unsupported == [call |-> "unsupported", scope |-> "none", modes |-> {}, takes |-> {}]
NoSession == [Unsupported EXCEPT !.call = "none"]

Matching(a) ==
    {m \in Arms : m.scope = a.what /\ a.flags \cap {"a", "closemon", "oep"} \in m.modes}

-----------------------------------------------------------------------------
CliInit ==
    /\ given \in SUBSET Flags
    /\ db \in [op : Ops, path : BOOLEAN] \cup {NoDb}
    /\ action = NoAction
    /\ session = NoSession
    /\ exit = 99

ExitOfFailure(why) == 1

(* run: an error of the command line is 2, every other one is 1.           *)
ExitOf(error) == IF error = "cli" THEN 2 ELSE 1

(* try_run: validate the command line.                                     *)
Validate ==
    /\ action = NoAction /\ exit = 99
    /\ action' = IntoAction(given, db)
    /\ exit' = IF action'.kind = "error" THEN ExitOf("cli") ELSE 99
    /\ UNCHANGED <<given, db, session>>

Dispatch ==
    /\ action.kind = "dump" /\ session = NoSession
    /\ IF Matching(action) = {}
         THEN session' = Unsupported /\ exit' = ExitOf("cli")
         ELSE session' \in Matching(action) /\ exit' = exit
    /\ UNCHANGED <<given, db, action>>

(* The session returns: Ok(0), Ok(1) where nothing was dumped, an error of *)
(* its own, or the error of a bad -p pattern. A sweep always returns Ok(0).*)
SessionEnds ==
    /\ exit = 99 /\ session.call \notin {"none", "unsupported"}
    /\ exit' \in CASE session.call = "dump_pid" -> {0, ExitOf("access")}
                   [] session.call = "run_name_regex" -> {0, ExitOf("cli")}
                   [] session.call = "run_system_sweep" -> {0}
                   [] OTHER -> {0, 1, ExitOf("access")}
    /\ UNCHANGED <<given, db, action, session>>

ManageDb ==
    /\ action.kind = "db" /\ exit = 99
    /\ exit' \in {0, ExitOf("io")}
    /\ UNCHANGED <<given, db, action, session>>

Exited == exit # 99 /\ UNCHANGED cliVars

CliNext == Validate \/ Dispatch \/ SessionEnds \/ ManageDb \/ Exited

CliSpec == CliInit /\ [][CliNext]_cliVars

-----------------------------------------------------------------------------
(* Properties.                                                             *)

(* Every command line that validation lets through has its arm, and only   *)
(* one: the two tables, in two files, agree (lib.rs:130, 137-140). And no  *)
(* flag is silently dropped: the session that runs is given every option   *)
(* of the command line (README.md:63).                                     *)
NothingIgnored ==
    /\ session # Unsupported
    /\ action.kind = "dump" => Cardinality(Matching(action)) = 1
    /\ session.call \notin {"none", "unsupported"} =>
          given \subseteq session.takes \cup {session.scope}

(* The combinations the README documents (README.md:63-66), independent of *)
(* the order of the checks.                                                *)
Documented(f, d) ==
    IF d # NoDb
      THEN f = {} /\ d \in {[op |-> "gen", path |-> FALSE], [op |-> "clean", path |-> FALSE],
                            [op |-> "add", path |-> TRUE], [op |-> "rem", path |-> TRUE]}
      ELSE /\ \E s \in Scopes : f \cap Scopes = {s}
           /\ Cardinality(f \cap {"a", "closemon", "oep"}) <= 1
           /\ f \cap {"a", "closemon"} # {} => "pid" \in f
           /\ "oep" \in f => f \cap {"pid", "launch"} # {}
           /\ "hide" \in f => f \cap {"launch", "a", "oep"} # {}

(* Exactly the documented combinations run; every other one exits with the *)
(* usage code before anything has been done (README.md:63).                *)
RunsWhatIsDocumented ==
    action # NoAction =>
        /\ Documented(given, db) <=> action.kind # "error"
        /\ ~Documented(given, db) => exit = 2 /\ session = NoSession
=============================================================================
