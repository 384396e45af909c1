-------------------------- MODULE ScriptLifecycle --------------------------
(***************************************************************************)
(* The life of one packetdrill process: main() in packetdrill.c parses and *)
(* runs the scripts of the command line one after the other.  Around the   *)
(* events of each, run_script (run.c) runs its init command and its        *)
(* cleanup command; the cleanup command is also run by every die()         *)
(* (logging.c), that of the parser included.  What is to be run is kept in *)
(* globals that outlive a script: cleanup_cmd, set by the parser,          *)
(* init_cmd_exists and init_cmd_exed.                                      *)
(***************************************************************************)
EXTENDS Naturals, Sequences

CONSTANT NumScripts     \* script paths on the command line, at most

ASSUME NumScriptsAssumption == NumScripts \in Nat \ {0}

Script == 1 .. NumScripts

VARIABLES
  num,              \* the number of scripts on the command line
  kind,             \* the untimed commands that each script has
  current,          \* the script that main() is at
  pc,               \* where main() and run_script() are
  cleanup_cmd,      \* the script whose cleanup command it points to; 0 for NULL
  init_cmd_exists,
  init_cmd_exed,
  handled,          \* has signal() installed signal_handler?
  state,            \* the static variable state in run.c
  proc,             \* "running", "passed" or "failed"
  initsRun,         \* history: the scripts whose init command succeeded
  cleanups,         \* history: for each script, the cleanup commands run in its time
  begun             \* history: the scripts whose events were started

Kinds == {"none", "init", "cleanup", "both"}

hasInit == {s \in Script : kind[s] \in {"init", "both"}}
hasCleanup == {s \in Script : kind[s] \in {"cleanup", "both"}}

input == <<num, kind>>
vars == <<input, current, pc, cleanup_cmd, init_cmd_exists, init_cmd_exed,
          handled, state, proc, initsRun, cleanups, begun>>

PC == {"parse", "parsed", "run_init_scripts", "run_script", "netdev", "init_command", "events",
       "cleanup", "code_execute", "state_free"}

\* One type for the globals and the history.
TypeOK ==
  /\ num \in Script
  /\ kind \in [Script -> Kinds]
  /\ current \in Script /\ pc \in PC
  /\ cleanup_cmd \in 0 .. NumScripts
  /\ init_cmd_exists \in BOOLEAN /\ init_cmd_exed \in BOOLEAN
  /\ handled \in BOOLEAN
  /\ state \in {"null", "live", "freed"}
  /\ proc \in {"running", "passed", "failed"}
  /\ initsRun \in SUBSET Script /\ begun \in SUBSET Script
  /\ cleanups \in [Script -> Seq(Script)]
  /\ \A s \in Script : Len(cleanups[s]) <= 2

Init ==
  /\ num \in Script /\ kind \in [Script -> Kinds]
  /\ current = 1 /\ pc = "parse"
  /\ cleanup_cmd = 0 /\ init_cmd_exists = FALSE /\ init_cmd_exed = FALSE
  /\ handled = FALSE /\ state = "null" /\ proc = "running"
  /\ initsRun = {} /\ begun = {} /\ cleanups = [s \in Script |-> <<>>]

At(l) == proc = "running" /\ pc = l

(***************************************************************************)
(* run_cleanup_command: runs whatever cleanup_cmd points to.               *)
(***************************************************************************)
run_cleanup_command ==
  cleanups' = IF cleanup_cmd # 0 /\ (~init_cmd_exists \/ init_cmd_exed)
              THEN [cleanups EXCEPT ![current] = Append(@, cleanup_cmd)]
              ELSE cleanups

die == proc' = "failed" /\ run_cleanup_command

globals == <<cleanup_cmd, init_cmd_exists, init_cmd_exed>>

(***************************************************************************)
(* main() and run_script().                                                *)
(***************************************************************************)
\* Mutant: the grammar forgets to store the cleanup command of later scripts.
parse_script_first_only ==
  /\ At("parse")
  /\ \/ /\ cleanup_cmd' = IF current \in hasCleanup /\ cleanup_cmd = 0
                         THEN current ELSE cleanup_cmd
        /\ pc' = "parsed" /\ UNCHANGED <<proc, cleanups>>
     \/ proc' = "failed" /\ UNCHANGED <<pc, cleanup_cmd, cleanups>>
     \/ die /\ UNCHANGED <<pc, cleanup_cmd>>
  /\ UNCHANGED <<input, current, init_cmd_exists, init_cmd_exed, handled, state,
                 initsRun, begun>>

\* read_script and parse_script, up to the cleanup command, which the grammar
\* stores if there is one.  A syntax error is exit(EXIT_FAILURE); a script that
\* cannot be read, a semantic error and a wrong option are die().
parse_script ==
  /\ At("parse")
  /\ \/ /\ cleanup_cmd' = IF current \in hasCleanup THEN current ELSE cleanup_cmd
        /\ pc' = "parsed" /\ UNCHANGED <<proc, cleanups>>
     \/ proc' = "failed" /\ UNCHANGED <<pc, cleanup_cmd, cleanups>>
     \/ die /\ UNCHANGED <<pc, cleanup_cmd>>
  /\ UNCHANGED <<input, current, init_cmd_exists, init_cmd_exed, handled, state,
                 initsRun, begun>>

\* The rest of parse_script: text behind the cleanup command is a syntax error,
\* fclose() may fail.
parse_script_end ==
  /\ At("parsed")
  /\ \/ pc' = "run_init_scripts" /\ UNCHANGED <<proc, cleanups>>
     \/ proc' = "failed" /\ UNCHANGED <<pc, cleanups>>
     \/ die /\ pc' = pc
  /\ UNCHANGED <<input, current, globals, handled, state, initsRun, begun>>

\* The scripts of --init_scripts, if this script or the command line has the option.
run_init_scripts ==
  /\ At("run_init_scripts")
  /\ \/ pc' = "run_script" /\ UNCHANGED <<proc, cleanups>>
     \/ die /\ pc' = pc
  /\ UNCHANGED <<input, current, globals, handled, state, initsRun, begun>>

\* Mutant: the flag of the script before is kept.
run_script_keeps_exed ==
  /\ At("run_script")
  /\ init_cmd_exists' = (init_cmd_exists \/ current \in hasInit)
  /\ handled' = TRUE /\ pc' = "netdev"
  /\ UNCHANGED <<input, current, cleanup_cmd, init_cmd_exed, state, proc, initsRun,
                 cleanups, begun>>

\* The globals and the signal handlers.
run_script ==
  /\ At("run_script")
  /\ init_cmd_exed' = FALSE
  /\ init_cmd_exists' = (init_cmd_exists \/ current \in hasInit)
  /\ handled' = TRUE /\ pc' = "netdev"
  /\ UNCHANGED <<input, current, cleanup_cmd, state, proc, initsRun, cleanups, begun>>

\* The rest of the setup, local_netdev_new among it, which may die(), and state_new.
local_netdev_new ==
  /\ At("netdev")
  /\ \/ pc' = "init_command" /\ state' = "live" /\ UNCHANGED <<proc, cleanups>>
     \/ die /\ UNCHANGED <<pc, state>>
  /\ UNCHANGED <<input, current, globals, handled, initsRun, begun>>

run_init_command ==
  /\ At("init_command")
  /\ pc' = "events" /\ begun' = begun \cup {current}
  /\ \/ /\ current \in hasInit
        /\ init_cmd_exed' = TRUE /\ initsRun' = initsRun \cup {current}
     \/ current \notin hasInit /\ UNCHANGED <<init_cmd_exed, initsRun>>
  /\ UNCHANGED <<input, current, cleanup_cmd, init_cmd_exists, handled, state, proc,
                 cleanups>>

\* The init command failed: exit(EXIT_FAILURE), not die().
init_command_failed ==
  /\ At("init_command") /\ current \in hasInit
  /\ proc' = "failed"
  /\ UNCHANGED <<input, current, pc, globals, handled, state, initsRun, cleanups, begun>>

\* The interpreter loop: to its end, or to an error, with or without state_free.
run_events ==
  /\ At("events")
  /\ \/ pc' = "cleanup" /\ UNCHANGED <<proc, cleanups, state>>
     \/ die /\ state' \in {"live", "freed"} /\ pc' = pc
  /\ UNCHANGED <<input, current, globals, handled, initsRun, begun>>

\* A signal.  Before run_script its default action ends the process.  The
\* handler uses state when it is not NULL and ends in die(); once state has
\* been freed, and is not NULL, what it does before die() is undefined.
signal_handler ==
  /\ proc = "running"
  /\ \/ handled /\ die
     \/ ~handled /\ proc' = "failed" /\ cleanups' = cleanups
     \/ handled /\ state = "freed" /\ proc' = "failed" /\ cleanups' = cleanups
  /\ UNCHANGED <<input, current, pc, globals, handled, state, initsRun, begun>>

\* After the last event; an error of the command itself is exit(EXIT_FAILURE).
final_cleanup ==
  /\ At("cleanup")
  /\ run_cleanup_command
  /\ \/ pc' = "code_execute" /\ proc' = proc
     \/ cleanups' # cleanups /\ proc' = "failed" /\ pc' = pc
  /\ UNCHANGED <<input, current, globals, handled, state, initsRun, begun>>

code_execute ==
  /\ At("code_execute")
  /\ \/ pc' = "state_free" /\ UNCHANGED <<proc, cleanups, state>>
     \/ die /\ state' = "freed" /\ pc' = pc
  /\ UNCHANGED <<input, current, globals, handled, initsRun, begun>>

\* The next script of the command line, or exit status 0.
NextScript ==
  \/ /\ current < num
     /\ current' = current + 1 /\ pc' = "parse" /\ proc' = proc
  \/ /\ current = num
     /\ proc' = "passed" /\ UNCHANGED <<current, pc>>

\* With --dry_run, an option of the script or of the command line, the script is
\* parsed and not run.
dry_run ==
  /\ At("run_init_scripts")
  /\ NextScript
  /\ UNCHANGED <<input, globals, handled, state, initsRun, cleanups, begun>>

\* state_free, which may die() in close_all_sockets, and free_script.
state_free ==
  /\ At("state_free")
  /\ \/ state' = "freed" /\ NextScript /\ cleanups' = cleanups
     \/ die /\ UNCHANGED <<current, pc, state>>
  /\ UNCHANGED <<input, globals, handled, initsRun, begun>>

Next ==
  \/ parse_script \/ parse_script_end \/ run_init_scripts \/ run_script
  \/ local_netdev_new \/ run_init_command \/ init_command_failed \/ run_events \/ signal_handler
  \/ final_cleanup \/ code_execute \/ state_free \/ dry_run

Spec == Init /\ [][Next]_vars

(***************************************************************************)
(* Properties.                                                             *)
(***************************************************************************)
Over(s) == s < current \/ proc # "running"

\* Before run_script resets init_cmd_exed, the flags are those of the script before.
Early == {"parse", "parsed", "run_init_scripts", "run_script"}
Parsed(s) == s < current \/ pc # "parse"
Entered(s) == s < current \/ pc \notin Early

\* init_cmd_exists is never reset: a script without an init command, after one
\* that has run its own, waits for a flag that nobody will set.
FlagKept(s) == s \notin hasInit /\ \E r \in initsRun : r < s

\* "If there is a cleanup command at the end of a packetdrill script, we
\* execute that no matter whether the test passes or fails" (run.c:546): for each
\* script whose events were started, but for one before which the flag was kept.
CleanupUnlessFlagKept ==
  \A s \in begun : Over(s) /\ s \in hasCleanup /\ ~FlagKept(s) =>
    \E i \in DOMAIN cleanups[s] : cleanups[s][i] = s

\* What run_cleanup_command executes while a script is run that has a cleanup
\* command is this command, although cleanup_cmd outlives its script.  Excepted
\* is the time before the parser has stored it: a parser that calls die() runs
\* the command of an earlier script, as does a script that has none.
CleanupIsOwn ==
  \A s \in hasCleanup : Parsed(s) => \A i \in DOMAIN cleanups[s] : cleanups[s][i] = s

\* A cleanup command does not undo what its init command has not done, for each
\* script that run_script has been called for: die() before that finds the flags
\* of the script before.
CleanupAfterInit ==
  \A s \in Script : Entered(s) /\ cleanups[s] # <<>> /\ s \in hasInit => s \in initsRun

\* The cleanup command is run if and only if there is something to clean up
\* (run_cleanup_command, run_script): after every script whose events were
\* started, and not for one whose init command was not run.
CleanupMatchesInit == CleanupUnlessFlagKept /\ CleanupAfterInit
=============================================================================
