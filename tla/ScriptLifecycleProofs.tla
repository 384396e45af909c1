----------------------- MODULE ScriptLifecycleProofs -----------------------
(***************************************************************************)
(* Proofs about ScriptLifecycle, for any number of scripts and on every    *)
(* command line: every cleanup command that is run in the time of a script *)
(* that has one is its own, follows its init command, and is not forgotten *)
(* unless the flag of an earlier script was kept.  The globals outlive a   *)
(* script, so the invariant says what each of them still means when the    *)
(* next script has come.                                                   *)
(***************************************************************************)
EXTENDS ScriptLifecycle, TLAPS

\* From here on the init command of the current script was run, if it has one.
Late == {"events", "cleanup", "code_execute", "state_free"}

\* The handlers are installed by the first run_script; while the process runs,
\* the state is freed only between two scripts.
ProcessInv ==
  /\ current <= num
  /\ pc \notin Early => handled
  /\ proc = "running" /\ state = "freed" => pc \in Early \cup {"netdev"}

\* What the globals mean.
GlobalsInv ==
  /\ pc # "parse" /\ current \in hasCleanup => cleanup_cmd = current
  /\ init_cmd_exists <=> \/ \E r \in initsRun : r < current
                         \/ pc \notin Early /\ current \in hasInit
  /\ pc \in {"netdev", "init_command"} => ~init_cmd_exed
  /\ pc \in Late => (init_cmd_exed <=> current \in hasInit)

\* What the history says of the scripts so far.
HistoryInv ==
  /\ \A s \in begun \cup initsRun : s <= current
  /\ current \in begun <=> pc \in Late
  /\ current \in initsRun <=> pc \in Late /\ current \in hasInit
  /\ /\ current \in begun /\ current \in hasCleanup /\ ~FlagKept(current)
     /\ pc \in {"code_execute", "state_free"}
     => \E i \in DOMAIN cleanups[current] : cleanups[current][i] = current
  /\ \A s \in Script : s > current => cleanups[s] = <<>>
  /\ proc = "running" /\ pc \notin {"code_execute", "state_free"} => cleanups[current] = <<>>
  /\ proc = "running" => Len(cleanups[current]) <= 1

\* The inductive invariant.
IInv == TypeOK /\ ProcessInv /\ GlobalsInv /\ HistoryInv /\ CleanupIsOwn /\ CleanupMatchesInit

\* The globals of main() when it starts.
LEMMA InitIInv == ASSUME Init PROVE IInv
  <1> USE NumScriptsAssumption DEF Init, Script
  <1>1. TypeOK
    <2>1. <<>> \in Seq(Script) /\ Len(<<>>) = 0
      OBVIOUS
    <2>2. cleanups \in [Script -> Seq(Script)] /\ \A s \in Script : cleanups[s] = <<>>
      BY <2>1
    <2>3. \A s \in Script : Len(cleanups[s]) <= 2
      <3>1. \A s \in Script : Len(cleanups[s]) = 0
        BY <2>1, <2>2, Zenon
      <3>2. QED
        BY <3>1
    <2>4. current \in Script /\ cleanup_cmd \in 0 .. NumScripts
      OBVIOUS
    <2>5. QED
      BY <2>2, <2>3, <2>4, Zenon DEF TypeOK, PC
  <1>2. ProcessInv
    BY DEF ProcessInv, Early
  <1>3. GlobalsInv
    BY DEF GlobalsInv, Early, Late
  <1>4. HistoryInv
    BY DEF HistoryInv, Late
  <1>5. CleanupIsOwn /\ CleanupMatchesInit
    BY DEF CleanupIsOwn, hasCleanup, CleanupMatchesInit, CleanupUnlessFlagKept, CleanupAfterInit
  <1>6. QED
    BY <1>1, <1>2, <1>3, <1>4, <1>5 DEF IInv

\* run_cleanup_command appends at most one command, to those of the current script.
LEMMA CleanupEffect ==
  ASSUME TypeOK, run_cleanup_command
  PROVE  /\ cleanups' \in [Script -> Seq(Script)]
         /\ \A s \in Script : s # current => cleanups'[s] = cleanups[s]
         /\ cleanup_cmd # 0 /\ (~init_cmd_exists \/ init_cmd_exed) =>
              cleanups'[current] = Append(cleanups[current], cleanup_cmd)
         /\ ~(cleanup_cmd # 0 /\ (~init_cmd_exists \/ init_cmd_exed)) =>
              cleanups'[current] = cleanups[current]
  <1> USE DEF TypeOK, run_cleanup_command
  <1>1. CASE cleanup_cmd # 0 /\ (~init_cmd_exists \/ init_cmd_exed)
    <2>1. cleanup_cmd \in Script
      BY <1>1, NumScriptsAssumption DEF Script
    <2>2. cleanups[current] \in Seq(Script)
      OBVIOUS
    <2>3. Append(cleanups[current], cleanup_cmd) \in Seq(Script)
      BY <2>1, <2>2
    <2>4. cleanups' = [cleanups EXCEPT ![current] = Append(cleanups[current], cleanup_cmd)]
      BY <1>1
    <2>5. QED
      BY <1>1, <2>3, <2>4
  <1>2. CASE ~(cleanup_cmd # 0 /\ (~init_cmd_exists \/ init_cmd_exed))
    BY <1>2
  <1>3. QED
    BY <1>1, <1>2

Runs == cleanup_cmd # 0 /\ (~init_cmd_exists \/ init_cmd_exed)

\* What run_cleanup_command runs belongs to the current script, if it has a
\* cleanup command and this was parsed, and follows its init command; it runs the
\* cleanup command of a script whose events were started.
LEMMA RunsOwn ==
  ASSUME IInv
  PROVE  /\ current \in hasCleanup /\ pc # "parse" => cleanup_cmd = current
         /\ Runs /\ current \in hasInit /\ pc \notin Early => current \in initsRun
         /\ current \in begun /\ current \in hasCleanup /\ ~FlagKept(current) => Runs
  <1> USE DEF IInv
  <1>1. current \in Script /\ current # 0
    BY DEF TypeOK, Script
  <1>2. Runs /\ current \in hasInit /\ pc \notin Early => current \in initsRun
    <2> SUFFICES ASSUME Runs, current \in hasInit, pc \notin Early PROVE current \in initsRun
      OBVIOUS
    <2>1. init_cmd_exed
      <3>1. init_cmd_exists
        BY DEF GlobalsInv
      <3>2. QED
        BY <3>1 DEF Runs
    <2>2. pc \in Late
      BY <2>1 DEF TypeOK, PC, Late, Early, GlobalsInv
    <2>3. QED
      BY <2>2 DEF HistoryInv
  <1>3. current \in begun /\ current \in hasCleanup /\ ~FlagKept(current) => Runs
    <2> SUFFICES ASSUME current \in begun, current \in hasCleanup, ~FlagKept(current) PROVE Runs
      OBVIOUS
    <2>1. pc \in Late /\ pc # "parse"
      BY DEF HistoryInv, Late
    <2>2. init_cmd_exists => init_cmd_exed
      BY <2>1 DEF GlobalsInv, FlagKept
    <2>3. QED
      BY <1>1, <2>1, <2>2 DEF Runs, GlobalsInv
  <1>4. QED
    BY <1>2, <1>3 DEF GlobalsInv

\* die(): whatever the state is left in, the invariant holds of the failed process.
LEMMA DieInv ==
  ASSUME IInv, proc = "running", die, state' \in {"null", "live", "freed"},
         UNCHANGED <<input, current, pc, globals, handled, initsRun, begun>>
  PROVE  IInv'
  <1> USE DEF IInv, die, input, globals
  <1>0. UNCHANGED <<hasInit, hasCleanup>>
    BY DEF hasInit, hasCleanup
  <1>1. /\ current \in hasCleanup /\ pc # "parse" => cleanup_cmd = current
        /\ Runs /\ current \in hasInit /\ pc \notin Early => current \in initsRun
        /\ current \in begun /\ current \in hasCleanup /\ ~FlagKept(current) => Runs
    BY RunsOwn
  <1>2. /\ cleanups' \in [Script -> Seq(Script)]
        /\ \A s \in Script : s # current => cleanups'[s] = cleanups[s]
        /\ Runs => cleanups'[current] = Append(cleanups[current], cleanup_cmd)
        /\ ~Runs => cleanups'[current] = cleanups[current]
    BY <1>1, CleanupEffect DEF Runs
  <1>3. /\ current \in Script /\ cleanups[current] \in Seq(Script)
        /\ Len(cleanups[current]) \in Nat /\ Len(cleanups[current]) <= 1
    BY DEF TypeOK, HistoryInv
  <1>4. Runs => /\ Len(cleanups'[current]) = Len(cleanups[current]) + 1
                /\ \A i \in 1 .. Len(cleanups[current]) : cleanups'[current][i] = cleanups[current][i]
                /\ cleanups'[current][Len(cleanups[current]) + 1] = cleanup_cmd
    BY <1>2, <1>3
  <1>5. TypeOK'
    <2>1. \A s \in Script : Len(cleanups'[s]) <= 2
      <3> SUFFICES ASSUME NEW s \in Script PROVE Len(cleanups'[s]) <= 2
        OBVIOUS
      <3>1. CASE s # current \/ ~Runs
        <4>1. cleanups'[s] = cleanups[s]
          BY <1>2, <3>1
        <4>2. QED
          BY <4>1 DEF TypeOK
      <3>2. CASE s = current /\ Runs
        BY <1>3, <1>4, <3>2
      <3>3. QED
        BY <3>1, <3>2
    <2>2. proc' = "failed"
      OBVIOUS
    <2>3. QED
      BY <1>2, <2>1, <2>2, Zenon DEF TypeOK
  <1>6. ProcessInv' /\ GlobalsInv'
    BY <1>0 DEF ProcessInv, GlobalsInv
  <1>7. current \in begun /\ current \in hasCleanup /\ ~FlagKept(current) =>
          \E i \in DOMAIN cleanups'[current] : cleanups'[current][i] = current
    <2> SUFFICES ASSUME current \in begun, current \in hasCleanup, ~FlagKept(current)
                 PROVE  \E i \in DOMAIN cleanups'[current] : cleanups'[current][i] = current
      OBVIOUS
    <2>1. Len(cleanups[current]) + 1 \in DOMAIN cleanups'[current]
      BY <1>1, <1>2, <1>3, <1>4
    <2>2. cleanup_cmd = current
      BY <1>1 DEF HistoryInv, Late
    <2>3. QED
      BY <2>1, <2>2, <1>1, <1>4
  <1>8. HistoryInv'
    <2>1. \A s \in Script : s > current => cleanups'[s] = <<>>
      <3> SUFFICES ASSUME NEW s \in Script, s > current PROVE cleanups'[s] = <<>>
        OBVIOUS
      <3>1. s # current
        BY <1>3 DEF Script
      <3>2. QED
        BY <1>2, <3>1 DEF HistoryInv
    <2>2. QED
      BY <1>0, <1>7, <2>1 DEF HistoryInv, FlagKept
  <1>9. CleanupIsOwn'
    <2> SUFFICES ASSUME NEW s \in hasCleanup, Parsed(s)', NEW i \in DOMAIN cleanups'[s]
                 PROVE  cleanups'[s][i] = s
      BY <1>0 DEF CleanupIsOwn
    <2>0. s \in Script /\ Parsed(s) /\ (s = current => cleanup_cmd = current)
      BY <1>1 DEF Parsed, hasCleanup, TypeOK, Script
    <2>1. CASE s # current \/ ~Runs
      <3>1. cleanups'[s] = cleanups[s]
        BY <1>2, <2>0, <2>1
      <3>2. QED
        BY <2>0, <3>1 DEF CleanupIsOwn
    <2>2. CASE s = current /\ Runs
      <3>1. i \in 1 .. Len(cleanups[current]) + 1
        BY <1>2, <1>3, <1>4, <2>2
      <3>2. CASE i \in 1 .. Len(cleanups[current])
        BY <1>3, <1>4, <2>0, <2>2, <3>2 DEF CleanupIsOwn
      <3>3. CASE i = Len(cleanups[current]) + 1
        BY <1>4, <2>0, <2>2, <3>3
      <3>4. QED
        BY <1>3, <3>1, <3>2, <3>3
    <2>3. QED
      BY <2>1, <2>2
  <1>10. CleanupUnlessFlagKept'
    BY <1>0, <1>2, <1>7 DEF CleanupMatchesInit, CleanupUnlessFlagKept, FlagKept, Over, HistoryInv, TypeOK, Script
  <1>11. CleanupAfterInit'
    BY <1>0, <1>1, <1>2 DEF CleanupMatchesInit, CleanupAfterInit, Entered, TypeOK, Script
  <1>12. QED
    BY <1>5, <1>6, <1>8, <1>9, <1>10, <1>11 DEF CleanupMatchesInit

(***************************************************************************)
(* One lemma for each step that does more than call die().                 *)
(***************************************************************************)
\* The grammar stores the cleanup command.
LEMMA ParseInv ==
  ASSUME IInv, proc = "running", pc = "parse", pc' = "parsed", proc' = proc,
         cleanup_cmd' = IF current \in hasCleanup THEN current ELSE cleanup_cmd,
         UNCHANGED <<input, current, init_cmd_exists, init_cmd_exed, handled, state,
                     initsRun, cleanups, begun>>
  PROVE  IInv'
  <1> USE DEF IInv, input
  <1>0. UNCHANGED <<hasInit, hasCleanup>>
    BY DEF hasInit, hasCleanup
  <1>1. TypeOK'
    <2>1. cleanup_cmd' \in 0 .. NumScripts
      BY NumScriptsAssumption DEF TypeOK, Script
    <2>2. pc' \in PC /\ proc' \in {"running", "passed", "failed"}
      BY DEF TypeOK, PC
    <2>3. QED
      BY <2>1, <2>2, Zenon DEF TypeOK
  <1>2. ProcessInv'
    BY DEF ProcessInv, Early
  <1>3. GlobalsInv'
    BY <1>0, NumScriptsAssumption DEF GlobalsInv, HistoryInv, Early, Late, TypeOK, PC, Script
  <1>4. HistoryInv'
    BY <1>0 DEF HistoryInv, FlagKept, Late, TypeOK
  <1>5. CleanupIsOwn'
    BY <1>0 DEF CleanupIsOwn, Parsed, hasCleanup, HistoryInv, TypeOK, Script
  <1>6. CleanupUnlessFlagKept'
    BY <1>0 DEF CleanupMatchesInit, CleanupUnlessFlagKept, FlagKept, Over, HistoryInv, Late, TypeOK, Script
  <1>7. CleanupAfterInit'
    BY <1>0 DEF CleanupMatchesInit, CleanupAfterInit, Entered, Early, Late, HistoryInv, TypeOK, Script
  <1>8. QED
    BY <1>1, <1>2, <1>3, <1>4, <1>5, <1>6, <1>7 DEF CleanupMatchesInit

\* The globals and the handlers are set.
LEMMA RunScriptInv == ASSUME IInv, run_script PROVE IInv'
  <1> USE DEF IInv, run_script, At, input, globals
  <1>0. UNCHANGED <<hasInit, hasCleanup>>
    BY DEF hasInit, hasCleanup
  <1>1. TypeOK'
    BY DEF TypeOK, PC
  <1>2. ProcessInv'
    BY DEF ProcessInv, Early
  <1>3. GlobalsInv'
    <2>1. init_cmd_exists' <=> \/ \E r \in initsRun' : r < current'
                               \/ pc' \notin Early /\ current' \in hasInit'
      <3>1. pc \in Early /\ pc' \notin Early
        BY DEF Early
      <3>2. init_cmd_exists <=> \E r \in initsRun : r < current
        BY <3>1 DEF GlobalsInv
      <3>3. QED
        BY <1>0, <3>1, <3>2
    <2>2. QED
      BY <1>0, <2>1 DEF GlobalsInv, Late
  <1>4. HistoryInv'
    BY <1>0 DEF HistoryInv, FlagKept, Late, TypeOK
  <1>5. CleanupIsOwn'
    BY <1>0 DEF CleanupIsOwn, Parsed, hasCleanup, HistoryInv, TypeOK, Script
  <1>6. CleanupUnlessFlagKept'
    BY <1>0 DEF CleanupMatchesInit, CleanupUnlessFlagKept, FlagKept, Over, HistoryInv, Late, TypeOK, Script
  <1>7. CleanupAfterInit'
    BY <1>0 DEF CleanupMatchesInit, CleanupAfterInit, Entered, Early, Late, HistoryInv, TypeOK, Script
  <1>8. QED
    BY <1>1, <1>2, <1>3, <1>4, <1>5, <1>6, <1>7 DEF CleanupMatchesInit

\* The init command succeeds, or there is none.
LEMMA InitCommandInv == ASSUME IInv, run_init_command PROVE IInv'
  <1> USE DEF IInv, run_init_command, At, input, globals
  <1>0. UNCHANGED <<hasInit, hasCleanup>>
    BY DEF hasInit, hasCleanup
  <1>1. TypeOK'
    BY DEF TypeOK, PC
  <1>2. ProcessInv'
    BY DEF ProcessInv, Early
  <1>3. GlobalsInv'
    <2>1. init_cmd_exists' <=> \/ \E r \in initsRun' : r < current'
                               \/ pc' \notin Early /\ current' \in hasInit'
      <3>1. pc \notin Early /\ pc' \notin Early
        BY DEF Early
      <3>2. (\E r \in initsRun : r < current) <=> (\E r \in initsRun' : r < current')
        <4>1. ~(current < current) /\ current' = current
          BY DEF TypeOK, Script
        <4>2. initsRun \subseteq initsRun' /\ initsRun' \subseteq initsRun \cup {current}
          OBVIOUS
        <4>3. QED
          BY <4>1, <4>2
      <3>3. init_cmd_exists <=> ((\E r \in initsRun : r < current) \/ current \in hasInit)
        BY <3>1 DEF GlobalsInv
      <3>4. QED
        BY <1>0, <3>1, <3>2, <3>3
    <2>2. init_cmd_exed' <=> current' \in hasInit'
      BY <1>0 DEF GlobalsInv
    <2>3. QED
      BY <1>0, <2>1, <2>2 DEF GlobalsInv
  <1>4. HistoryInv'
    <2>1. \A s \in begun' \cup initsRun' : s <= current'
      BY DEF HistoryInv, TypeOK, Script
    <2>2. current' \in begun' /\ pc' \in Late
      BY DEF Late
    <2>3. current' \in initsRun' <=> current' \in hasInit'
      BY <1>0 DEF HistoryInv, Late
    <2>4. pc \notin {"code_execute", "state_free"} /\ pc' \notin {"code_execute", "state_free"}
      OBVIOUS
    <2>5. QED
      BY <2>1, <2>2, <2>3, <2>4 DEF HistoryInv
  <1>5. CleanupIsOwn'
    BY <1>0 DEF CleanupIsOwn, Parsed, hasCleanup, HistoryInv, TypeOK, Script
  <1>6. CleanupUnlessFlagKept'
    BY <1>0 DEF CleanupMatchesInit, CleanupUnlessFlagKept, FlagKept, Over, HistoryInv, Late, TypeOK, Script
  <1>7. CleanupAfterInit'
    BY <1>0 DEF CleanupMatchesInit, CleanupAfterInit, Entered, Early, Late, HistoryInv, TypeOK, Script
  <1>8. QED
    BY <1>1, <1>2, <1>3, <1>4, <1>5, <1>6, <1>7 DEF CleanupMatchesInit

\* The steps that only move on.
Advance ==
  \/ pc = "parsed" /\ pc' = "run_init_scripts" /\ state' = state
  \/ pc = "run_init_scripts" /\ pc' = "run_script" /\ state' = state
  \/ pc = "netdev" /\ pc' = "init_command" /\ state' = "live"
  \/ pc = "events" /\ pc' = "cleanup" /\ state' = state
  \/ pc = "code_execute" /\ pc' = "state_free" /\ state' = state

LEMMA AdvanceInv == ASSUME IInv, proc = "running", Advance,
                           UNCHANGED <<input, current, globals, handled, proc, initsRun,
                                       cleanups, begun>> PROVE IInv'
  <1> USE DEF IInv, Advance, input, globals
  <1>0. UNCHANGED <<hasInit, hasCleanup>>
    BY DEF hasInit, hasCleanup
  <1>1. TypeOK'
    BY DEF TypeOK, PC
  <1>2. ProcessInv'
    BY DEF ProcessInv, Early
  <1>3. GlobalsInv'
    BY <1>0, NumScriptsAssumption DEF GlobalsInv, HistoryInv, Early, Late, TypeOK, PC, Script
  <1>4. HistoryInv'
    BY <1>0 DEF HistoryInv, FlagKept, Late, TypeOK
  <1>5. CleanupIsOwn'
    BY <1>0 DEF CleanupIsOwn, Parsed, hasCleanup, HistoryInv, TypeOK, Script
  <1>6. CleanupUnlessFlagKept'
    BY <1>0 DEF CleanupMatchesInit, CleanupUnlessFlagKept, FlagKept, Over, HistoryInv, Late, TypeOK, Script
  <1>7. CleanupAfterInit'
    BY <1>0 DEF CleanupMatchesInit, CleanupAfterInit, Entered, Early, Late, HistoryInv, TypeOK, Script
  <1>8. QED
    BY <1>1, <1>2, <1>3, <1>4, <1>5, <1>6, <1>7 DEF CleanupMatchesInit

\* exit() without die(), or a signal that ends the process at once, before the
\* events of a script have begun.
LEMMA KilledInv == ASSUME IInv, proc = "running", proc' = "failed", pc \notin Late,
                          UNCHANGED <<input, current, pc, globals, handled, state,
                                      initsRun, cleanups, begun>> PROVE IInv'
  <1> USE DEF IInv, At, input, globals
  <1>0. UNCHANGED <<hasInit, hasCleanup>>
    BY DEF hasInit, hasCleanup
  <1>1. TypeOK'
    BY DEF TypeOK, PC
  <1>2. ProcessInv'
    BY DEF ProcessInv, Early
  <1>3. GlobalsInv'
    BY <1>0, NumScriptsAssumption DEF GlobalsInv, HistoryInv, Early, Late, TypeOK, PC, Script
  <1>4. HistoryInv'
    BY <1>0 DEF HistoryInv, FlagKept, Late, TypeOK
  <1>5. CleanupIsOwn'
    BY <1>0 DEF CleanupIsOwn, Parsed, hasCleanup, HistoryInv, TypeOK, Script
  <1>6. CleanupUnlessFlagKept'
    BY <1>0 DEF CleanupMatchesInit, CleanupUnlessFlagKept, FlagKept, Over, HistoryInv, Late, TypeOK, Script
  <1>7. CleanupAfterInit'
    BY <1>0 DEF CleanupMatchesInit, CleanupAfterInit, Entered, Early, Late, HistoryInv, TypeOK, Script
  <1>8. QED
    BY <1>1, <1>2, <1>3, <1>4, <1>5, <1>6, <1>7 DEF CleanupMatchesInit

\* The next script, or the end.
LEMMA NextScriptInv == ASSUME IInv, proc = "running", NextScript,
                              \/ pc = "run_init_scripts" /\ state' = state
                              \/ pc = "state_free" /\ state' = "freed",
                              UNCHANGED <<input, globals, handled, initsRun, cleanups, begun>> PROVE IInv'
  <1> USE DEF IInv, NextScript, input, globals
  <1>0. UNCHANGED <<hasInit, hasCleanup>>
    BY DEF hasInit, hasCleanup
  <1> current \in Script /\ num \in Script /\ current <= num /\ Script \subseteq Nat
    BY DEF TypeOK, ProcessInv, Script
  <1>1. TypeOK'
    <2>1. current' \in Script
      BY NumScriptsAssumption DEF Script
    <2>2. pc' \in PC /\ proc' \in {"running", "passed", "failed"} /\ state' \in {"null", "live", "freed"}
      BY DEF TypeOK, PC
    <2>3. QED
      BY <2>1, <2>2, Zenon DEF TypeOK
  <1>2. ProcessInv'
    <2>1. current' <= num'
      BY DEF Script
    <2>2. CASE current < num
      <3>1. pc' = "parse" /\ num' = num
        BY <2>2 DEF Script
      <3>2. QED
        BY <2>1, <3>1 DEF ProcessInv, Early
    <2>3. CASE current = num
      <3>1. pc' = pc /\ proc' = "passed" /\ num' = num
        BY <2>3
      <3>2. QED
        BY <2>1, <3>1 DEF ProcessInv
    <2>4. QED
      BY <2>2, <2>3 DEF Script
  <1>3. GlobalsInv'
    <2>1. init_cmd_exists' <=> \/ \E r \in initsRun' : r < current'
                               \/ pc' \notin Early /\ current' \in hasInit'
      <3>1. CASE current < num
        <4>1. pc' \in Early /\ current' = current + 1
          BY <3>1 DEF Early
        <4>2. \A r \in initsRun : r \in Nat /\ r <= current
          BY DEF HistoryInv, TypeOK
        <4>3. pc \notin Early /\ current \in hasInit <=> current \in initsRun
          BY DEF HistoryInv, Early, Late
        <4>4. (\E r \in initsRun : r < current) \/ current \in initsRun
                <=> \E r \in initsRun' : r < current'
          BY <4>1, <4>2
        <4>5. init_cmd_exists <=> ((\E r \in initsRun : r < current) \/ current \in initsRun)
          BY <4>3 DEF GlobalsInv
        <4>6. QED
          BY <4>1, <4>4, <4>5
      <3>2. CASE current = num
        BY <1>0, <3>2 DEF GlobalsInv
      <3>3. QED
        BY <3>1, <3>2
    <2>2. QED
      BY <1>0, <2>1 DEF GlobalsInv, Late
  <1>4. HistoryInv'
    <2>1. CASE current < num
      <3>1. current' = current + 1 /\ pc' = "parse" /\ current' \in Script
        BY <2>1, <1>1 DEF Script, TypeOK
      <3>2. \A s \in begun' \cup initsRun' : s <= current' /\ s # current'
        BY <3>1 DEF HistoryInv, TypeOK
      <3>3. \A s \in Script : s >= current' => cleanups'[s] = <<>>
        BY <3>1 DEF HistoryInv
      <3>4. cleanups'[current'] = <<>> /\ Len(<<>>) = 0
        BY <3>1, <3>3
      <3>5. \A s \in Script : s > current' => cleanups'[s] = <<>>
        BY <3>1, <3>3
      <3>6. QED
        BY <3>1, <3>2, <3>4, <3>5 DEF HistoryInv, Late
    <2>2. CASE current = num
      BY <1>0, <2>2 DEF HistoryInv, FlagKept
    <2>3. QED
      BY <2>1, <2>2
  <1>5. CleanupIsOwn'
    BY <1>0 DEF CleanupIsOwn, Parsed, hasCleanup, HistoryInv, TypeOK, Script
  <1>6. CleanupUnlessFlagKept'
    BY <1>0 DEF CleanupMatchesInit, CleanupUnlessFlagKept, FlagKept, Over, HistoryInv, Late, TypeOK, Script
  <1>7. CleanupAfterInit'
    BY <1>0 DEF CleanupMatchesInit, CleanupAfterInit, Entered, Early, Late, HistoryInv, TypeOK, Script
  <1>8. QED
    BY <1>1, <1>2, <1>3, <1>4, <1>5, <1>6, <1>7 DEF CleanupMatchesInit

\* The cleanup command at the end of a script, and exit() when it fails.
LEMMA FinalCleanupInv == ASSUME IInv, final_cleanup PROVE IInv'
  <1> USE DEF IInv, final_cleanup, At, input, globals
  <1>0. UNCHANGED <<hasInit, hasCleanup>>
    BY DEF hasInit, hasCleanup
  <1>1. /\ current \in hasCleanup /\ pc # "parse" => cleanup_cmd = current
        /\ Runs /\ current \in hasInit /\ pc \notin Early => current \in initsRun
        /\ current \in begun /\ current \in hasCleanup /\ ~FlagKept(current) => Runs
    BY RunsOwn DEF Early
  <1>2. /\ current \in Script /\ current \in begun /\ cleanups[current] = <<>>
        /\ Script \subseteq Nat
    BY DEF TypeOK, HistoryInv, Late, Script
  <1>3. /\ cleanups' \in [Script -> Seq(Script)]
        /\ \A s \in Script : s # current => cleanups'[s] = cleanups[s]
        /\ Runs => cleanups'[current] = Append(<<>>, cleanup_cmd)
        /\ ~Runs => cleanups'[current] = <<>>
    BY <1>1, <1>2, CleanupEffect DEF Runs
  <1>4. Runs => /\ Len(cleanups'[current]) = 1 /\ cleanups'[current][1] = cleanup_cmd
                /\ DOMAIN cleanups'[current] = {1}
    <2>1. <<>> \in Seq(Script) /\ Len(<<>>) = 0
      OBVIOUS
    <2> SUFFICES ASSUME Runs
                 PROVE  /\ Len(cleanups'[current]) = 1 /\ cleanups'[current][1] = cleanup_cmd
                        /\ DOMAIN cleanups'[current] = {1}
      OBVIOUS
    <2>2. /\ Append(<<>>, cleanup_cmd) \in Seq(Script)
          /\ Len(Append(<<>>, cleanup_cmd)) = 1 /\ Append(<<>>, cleanup_cmd)[1] = cleanup_cmd
      BY <2>1, NumScriptsAssumption DEF Runs, TypeOK, Script
    <2>3. DOMAIN Append(<<>>, cleanup_cmd) = 1 .. 1
      BY <2>2
    <2>4. 1 .. 1 = {1}
      OBVIOUS
    <2>5. QED
      BY <1>3, <2>2, <2>3, <2>4, Zenon
  <1>5. Len(cleanups'[current]) <= 1
    <2>1. Len(<<>>) = 0
      OBVIOUS
    <2>2. QED
      <3>1. CASE Runs
        <4>1. Len(cleanups'[current]) = 1
          BY <1>4, <3>1, Zenon
        <4>2. QED
          BY <4>1
      <3>2. CASE ~Runs
        <4>1. Len(cleanups'[current]) = 0
          BY <1>3, <2>1, <3>2, Zenon
        <4>2. QED
          BY <4>1
      <3>3. QED
        BY <3>1, <3>2
  <1>6. TypeOK'
    <2>1. \A s \in Script : Len(cleanups'[s]) <= 2
      <3> SUFFICES ASSUME NEW s \in Script PROVE Len(cleanups'[s]) <= 2
        OBVIOUS
      <3>1. CASE s = current
        <4>1. Len(cleanups'[s]) \in Nat
          BY <1>3
        <4>2. QED
          BY <1>5, <3>1, <4>1
      <3>2. CASE s # current
        BY <1>3, <3>2 DEF TypeOK
      <3>3. QED
        BY <3>1, <3>2
    <2>2. pc' \in PC /\ proc' \in {"running", "passed", "failed"}
      BY DEF TypeOK, PC
    <2>3. QED
      BY <1>3, <2>1, <2>2, Zenon DEF TypeOK
  <1>7. ProcessInv'
    BY DEF ProcessInv, Early
  <1>8. GlobalsInv'
    BY <1>0 DEF GlobalsInv, Early, Late
  <1>9. current \in hasCleanup /\ ~FlagKept(current) => \E i \in DOMAIN cleanups'[current] : cleanups'[current][i] = current
    BY <1>1, <1>2, <1>4
  <1>10. HistoryInv'
    <2>1. \A s \in Script : s > current => cleanups'[s] = <<>>
      <3> SUFFICES ASSUME NEW s \in Script, s > current PROVE cleanups'[s] = <<>>
        OBVIOUS
      <3>1. s # current
        BY <1>2
      <3>2. QED
        BY <1>3, <3>1 DEF HistoryInv
    <2>2. proc' = "running" => pc' = "code_execute"
      OBVIOUS
    <2>3. pc' \in Late /\ pc \in Late
      BY DEF Late
    <2>4. QED
      BY <1>0, <1>5, <1>9, <2>1, <2>2, <2>3 DEF HistoryInv, FlagKept
  <1>11. CleanupIsOwn'
    <2> SUFFICES ASSUME NEW s \in hasCleanup, Parsed(s)', NEW i \in DOMAIN cleanups'[s]
                 PROVE  cleanups'[s][i] = s
      BY <1>0 DEF CleanupIsOwn
    <2>0. s \in Script /\ Parsed(s) /\ (s = current => cleanup_cmd = current)
      BY <1>1 DEF Parsed, hasCleanup, TypeOK, Script
    <2>1. CASE s # current
      <3>1. cleanups'[s] = cleanups[s]
        BY <1>3, <2>0, <2>1
      <3>2. QED
        BY <2>0, <3>1 DEF CleanupIsOwn
    <2>2. CASE s = current /\ Runs
      BY <1>4, <2>0, <2>2
    <2>3. CASE s = current /\ ~Runs
      BY <1>3, <2>3
    <2>4. QED
      BY <2>1, <2>2, <2>3
  <1>12. CleanupUnlessFlagKept'
    BY <1>0, <1>3, <1>9 DEF CleanupMatchesInit, CleanupUnlessFlagKept, FlagKept, Over, HistoryInv, TypeOK, Script
  <1>13. CleanupAfterInit'
    BY <1>0, <1>1, <1>3 DEF CleanupMatchesInit, CleanupAfterInit, Entered, Early, TypeOK, Script
  <1>14. QED
    BY <1>6, <1>7, <1>8, <1>10, <1>11, <1>12, <1>13 DEF CleanupMatchesInit

\* Every step keeps the invariant.
LEMMA StepIInv == IInv /\ [Next]_vars => IInv'
  <1> SUFFICES ASSUME IInv, [Next]_vars PROVE IInv'
    OBVIOUS
  <1>1. CASE parse_script
    <2>1. CASE pc' = "parsed" /\ UNCHANGED <<proc, cleanups>>
      BY <1>1, <2>1, ParseInv DEF parse_script, At
    <2>2. CASE proc' = "failed" /\ UNCHANGED <<pc, cleanup_cmd, cleanups>>
      BY <1>1, <2>2, KilledInv DEF parse_script, At, Late, globals
    <2>3. CASE die /\ UNCHANGED <<pc, cleanup_cmd>>
      BY <1>1, <2>3, DieInv DEF parse_script, At, IInv, TypeOK, globals
    <2>4. QED
      BY <1>1, <2>1, <2>2, <2>3 DEF parse_script
  <1>15. CASE parse_script_end
    <2>1. CASE pc' = "run_init_scripts" /\ UNCHANGED <<proc, cleanups>>
      BY <1>15, <2>1, AdvanceInv DEF parse_script_end, At, Advance
    <2>2. CASE proc' = "failed" /\ UNCHANGED <<pc, cleanups>>
      BY <1>15, <2>2, KilledInv DEF parse_script_end, At, Late
    <2>3. CASE die /\ pc' = pc
      BY <1>15, <2>3, DieInv DEF parse_script_end, At, IInv, TypeOK
    <2>4. QED
      BY <1>15, <2>1, <2>2, <2>3 DEF parse_script_end
  <1>2. CASE run_init_scripts
    <2>1. CASE pc' = "run_script" /\ UNCHANGED <<proc, cleanups>>
      BY <1>2, <2>1, AdvanceInv DEF run_init_scripts, At, Advance
    <2>2. CASE die /\ pc' = pc
      BY <1>2, <2>2, DieInv DEF run_init_scripts, At, IInv, TypeOK
    <2>3. QED
      BY <1>2, <2>1, <2>2 DEF run_init_scripts
  <1>3. CASE run_script BY <1>3, RunScriptInv
  <1>4. CASE local_netdev_new
    <2>1. CASE pc' = "init_command" /\ state' = "live" /\ UNCHANGED <<proc, cleanups>>
      BY <1>4, <2>1, AdvanceInv DEF local_netdev_new, At, Advance
    <2>2. CASE die /\ UNCHANGED <<pc, state>>
      BY <1>4, <2>2, DieInv DEF local_netdev_new, At, IInv, TypeOK, Early
    <2>3. QED
      BY <1>4, <2>1, <2>2 DEF local_netdev_new
  <1>5. CASE run_init_command BY <1>5, InitCommandInv
  <1>6. CASE init_command_failed
    BY <1>6, KilledInv DEF init_command_failed, At, Late
  <1>7. CASE run_events
    <2>1. CASE pc' = "cleanup" /\ UNCHANGED <<proc, cleanups, state>>
      BY <1>7, <2>1, AdvanceInv DEF run_events, At, Advance
    <2>2. CASE die /\ state' \in {"live", "freed"} /\ pc' = pc
      BY <1>7, <2>2, DieInv DEF run_events, At, Early
    <2>3. QED
      BY <1>7, <2>1, <2>2 DEF run_events
  <1>8. CASE signal_handler
    <2>1. CASE handled /\ die
      BY <1>8, <2>1, DieInv DEF signal_handler, IInv, TypeOK
    <2>2. CASE ~handled /\ proc' = "failed" /\ cleanups' = cleanups
      <3>1. pc \notin Late
        BY <2>2 DEF IInv, ProcessInv, Early, Late
      <3>2. QED
        BY <1>8, <2>2, <3>1, KilledInv DEF signal_handler
    <2>3. CASE handled /\ state = "freed" /\ proc' = "failed" /\ cleanups' = cleanups
      <3>1. pc \notin Late
        BY <1>8, <2>3 DEF signal_handler, IInv, ProcessInv, Early, Late
      <3>2. QED
        BY <1>8, <2>3, <3>1, KilledInv DEF signal_handler
    <2>4. QED
      BY <1>8, <2>1, <2>2, <2>3 DEF signal_handler
  <1>9. CASE final_cleanup BY <1>9, FinalCleanupInv
  <1>10. CASE code_execute
    <2>1. CASE pc' = "state_free" /\ UNCHANGED <<proc, cleanups, state>>
      BY <1>10, <2>1, AdvanceInv DEF code_execute, At, Advance
    <2>2. CASE die /\ state' = "freed" /\ pc' = pc
      BY <1>10, <2>2, DieInv DEF code_execute, At, Early
    <2>3. QED
      BY <1>10, <2>1, <2>2 DEF code_execute
  <1>11. CASE state_free
    <2>1. CASE state' = "freed" /\ NextScript /\ cleanups' = cleanups
      BY <1>11, <2>1, NextScriptInv DEF state_free, At
    <2>2. CASE die /\ UNCHANGED <<current, pc, state>>
      BY <1>11, <2>2, DieInv DEF state_free, At, IInv, TypeOK
    <2>3. QED
      BY <1>11, <2>1, <2>2 DEF state_free
  <1>12. CASE dry_run BY <1>12, NextScriptInv DEF dry_run, At
  <1>13. CASE UNCHANGED vars
    BY <1>13 DEF vars, input, IInv, TypeOK, ProcessInv, GlobalsInv, HistoryInv, CleanupIsOwn,
       CleanupMatchesInit, CleanupUnlessFlagKept, CleanupAfterInit, FlagKept, Over, Parsed, Entered, hasInit, hasCleanup
  <1>14. QED
    BY <1>1, <1>2, <1>3, <1>4, <1>5, <1>6, <1>7, <1>8, <1>9, <1>10, <1>11, <1>12, <1>13, <1>15 DEF Next

\* The invariant holds throughout, on every command line, for any number of
\* scripts and whichever of their commands fail.
THEOREM Invariance == Spec => []IInv
  <1>1. Init => IInv
    BY InitIInv
  <1>2. QED
    BY <1>1, StepIInv, PTL DEF Spec

\* run_cleanup_command executes, in the time of a script that has a cleanup
\* command, no other once this is parsed, although cleanup_cmd outlives its script.
THEOREM CleanupsAreOwn == Spec => []CleanupIsOwn
  <1>1. IInv => CleanupIsOwn
    BY DEF IInv
  <1>2. QED
    BY <1>1, Invariance, PTL

\* The cleanup command is run after every script whose events were started,
\* unless init_cmd_exists was kept from an earlier one, and not for one whose init
\* command was not run (run_script, die).
THEOREM CleanupsMatchInits == Spec => []CleanupMatchesInit
  <1>1. IInv => CleanupMatchesInit
    BY DEF IInv
  <1>2. QED
    BY <1>1, Invariance, PTL

\* The types of the globals; among them, that at most two cleanup commands are
\* run in the time of a script (run_script, then die).
THEOREM TypeCorrect == Spec => []TypeOK
  <1>1. IInv => TypeOK
    BY DEF IInv
  <1>2. QED
    BY <1>1, Invariance, PTL
=============================================================================
