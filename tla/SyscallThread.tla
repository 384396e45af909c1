--------------------------- MODULE SyscallThread ---------------------------
(***************************************************************************)
(* The two threads of packetdrill and how they share the global mutex.     *)
(*                                                                         *)
(* The main thread (run_script in run.c) walks through the events of the   *)
(* script holding state->mutex.  A system call that the script expects to  *)
(* block is handed to the system call thread (run_system_call.c) through   *)
(* syscalls->state and the condition variables enqueued, dequeued and      *)
(* idle.  At the end, or on an error, the main thread stops the system     *)
(* call thread (syscalls_free) and closes the sockets (state_free).        *)
(*                                                                         *)
(* An atomic step is a stretch of code between two operations on the       *)
(* mutex or on a condition variable.  What an event does to the kernel is  *)
(* left out; only its outcome (success, error, bad timing) is chosen.      *)
(***************************************************************************)
EXTENDS Integers, FiniteSets

CONSTANTS
  NumEvents,       \* length of the script's event list
  TimeoutsOccur,   \* may a blocking call outlast the one second wait?
  SignalsOccur     \* may SIGINT, SIGTERM or SIGHUP arrive?

ASSUME NumEventsAssumption == NumEvents \in Nat \ {0}
ASSUME FlagsAssumption == TimeoutsOccur \in BOOLEAN /\ SignalsOccur \in BOOLEAN

Event == 1 .. NumEvents
NULL  == 0                        \* the null struct event pointer
Cond  == {"idle", "enqueued", "dequeued"}

SyscallState ==
  {"SYSCALL_IDLE", "SYSCALL_ENQUEUED", "SYSCALL_RUNNING", "SYSCALL_DONE",
   "SYSCALL_EXITING"}

(***************************************************************************)
(* The kinds of event, told apart by how they use the mutex: a blocking    *)
(* system call; a system call the main thread makes itself; an event that  *)
(* waits for its time and frees the state on error (an inbound packet, a   *)
(* command, code); an outbound packet, which is sniffed without waiting.   *)
(***************************************************************************)
Kind == {"blocking", "call", "inject", "sniff"}

VARIABLES
  mutex,      \* owner of state->mutex: "main", "syscall" or "free"
  waiting,    \* the condition variables with a thread in their wait set
  sstate,     \* state->syscalls->state
  sysEvent,   \* state->syscalls->event
  liveEnd,    \* state->syscalls->live_end_usecs: -1, or 0 for any time
  event,      \* state->event, NumEvents + 1 when the list is exhausted
  kind,       \* the kind of the current event
  mpc,        \* where the main thread is
  why,        \* which caller await_idle_thread returns to
  status,     \* what pthread_cond_timedwait or is_thread_sleeping returned
  spc,        \* where the system call thread is
  own,        \* its local variable event
  cancel,     \* "requested" once pthread_cancel has been called
  closes,     \* how many times close_all_sockets has run (2: at least twice)
  proc,       \* what became of the process
  issued,     \* history: the events handed to the system call thread
  verified    \* history: the blocking calls whose result and time were right

mainVars == <<event, kind, mpc, why, status, closes, issued>>
sysVars  == <<sysEvent, liveEnd, spc, own, verified>>
vars == <<mutex, waiting, sstate, cancel, proc, mainVars, sysVars>>

MainPC ==
  {"get_next_event", "sleep", "run_event", "await_idle", "idle_wait",
   "idle_relock", "await_dequeued", "dequeued_wait", "dequeued_relock",
   "check_sleeping", "yield_relock", "syscalls_free", "join", "relock",
   "close_all_sockets", "die", "returned"}

SysPC ==
  {"start", "switch", "enqueued_wait", "enqueued_relock", "sleep",
   "begin_syscall", "signal", "call", "end_syscall", "check", "die", "exited",
   "cancelled"}

\* Why the main thread is in await_idle_thread: for a blocking call, for
\* state_free(state, 0), or for state_free(state, 1) with die() to follow.
Why == {"enqueue", "free_at_end", "free_and_die"}

\* One type for everything the threads share and keep.
TypeOK ==
  /\ mutex \in {"main", "syscall", "free"}
  /\ waiting \in SUBSET Cond
  /\ sstate \in SyscallState
  /\ sysEvent \in Event \cup {NULL}
  /\ liveEnd \in {-1, 0}
  /\ event \in 0 .. (NumEvents + 1)
  /\ kind \in Kind
  /\ mpc \in MainPC
  /\ why \in Why
  /\ status \in {"STATUS_OK", "STATUS_ERR"}
  /\ spc \in SysPC
  /\ own \in Event \cup {NULL}
  /\ cancel \in {"none", "requested"}
  /\ closes \in 0 .. 2
  /\ proc \in {"running", "passed", "failed", "assert", "null_event"}
  /\ issued \in SUBSET Event
  /\ verified \in SUBSET Event

\* state_new: the creator holds the mutex, the new thread starts by locking it.
Init ==
  /\ mutex = "main" /\ waiting = {} /\ sstate = "SYSCALL_IDLE"
  /\ sysEvent = NULL /\ liveEnd = 0 /\ event = NULL /\ kind = "sniff"
  /\ mpc = "get_next_event" /\ why = "enqueue" /\ status = "STATUS_OK"
  /\ spc = "start" /\ own = NULL /\ cancel = "none" /\ closes = 0
  /\ proc = "running" /\ issued = {} /\ verified = {}

Running == proc = "running"

\* assert(), which stays enabled in every build, ends the process.
assert(p) == proc' = IF p THEN proc ELSE "assert"

(***************************************************************************)
(* The main thread.                                                        *)
(***************************************************************************)
MainAt(l) == Running /\ mpc = l

\* state_free(state, about_to_die) begins with syscalls_free.
StateFree(w) == mpc' = "await_idle" /\ why' = w

\* Mutant: walks one event past the end of the list.
get_next_event_overrun ==
  /\ MainAt("get_next_event")
  /\ event <= NumEvents
  /\ event' = event + 1
  /\ kind' \in Kind
  /\ \/ kind' = "blocking" /\ mpc' = "await_idle" /\ why' = "enqueue" /\ mutex' = mutex
     \/ kind' = "sniff" /\ mpc' = "run_event" /\ UNCHANGED <<why, mutex>>
     \/ kind' \in {"call", "inject"} /\ mpc' = "sleep" /\ why' = why /\ mutex' = "free"
  /\ UNCHANGED <<waiting, sstate, status, cancel, closes, proc, issued, sysVars>>

get_next_event ==
  /\ MainAt("get_next_event")
  /\ event < NumEvents
  /\ event' = event + 1
  /\ kind' \in Kind
  /\ \/ kind' = "blocking" /\ mpc' = "await_idle" /\ why' = "enqueue" /\ mutex' = mutex
     \/ kind' = "sniff" /\ mpc' = "run_event" /\ UNCHANGED <<why, mutex>>
     \/ kind' \in {"call", "inject"} /\ mpc' = "sleep" /\ why' = why /\ mutex' = "free"
  /\ UNCHANGED <<waiting, sstate, status, cancel, closes, proc, issued, sysVars>>

\* The script's times are out of order (or its first event is not at time 0).
get_next_event_error ==
  /\ MainAt("get_next_event")
  /\ event < NumEvents
  /\ event' = event + 1
  /\ StateFree("free_and_die")
  /\ UNCHANGED <<mutex, waiting, sstate, kind, status, cancel, closes, proc,
                 issued, sysVars>>

\* wait_for_event: the mutex was released; the start time has come.
wait_for_event ==
  /\ MainAt("sleep")
  /\ mutex = "free"
  /\ mutex' = "main"
  /\ mpc' \in {"run_event", "die"}         \* check_event_time may call die()
  /\ UNCHANGED <<waiting, sstate, event, kind, why, status, cancel, closes,
                 proc, issued, sysVars>>

\* run_local_packet_event, run_command_event, run_code_event, and
\* invoke_system_call for a call that does not block.
run_event ==
  /\ MainAt("run_event")
  /\ \/ mpc' = "get_next_event" /\ why' = why
     \/ kind = "call" /\ mpc' = "die" /\ why' = why
     \/ kind # "call" /\ StateFree("free_and_die")
  /\ UNCHANGED <<mutex, waiting, sstate, event, kind, status, cancel, closes,
                 proc, issued, sysVars>>

\* After the last event: the cleanup command, code_execute, state_free.
run_script_end ==
  /\ MainAt("get_next_event")
  /\ event = NumEvents
  /\ event' = NumEvents + 1
  /\ \/ StateFree("free_at_end") /\ proc' = proc
     \/ StateFree("free_and_die") /\ proc' = proc    \* code_execute failed
     \/ proc' = "failed" /\ UNCHANGED <<mpc, why>>   \* the cleanup command failed
  /\ UNCHANGED <<mutex, waiting, sstate, kind, status, cancel, closes, issued,
                 sysVars>>

(***************************************************************************)
(* await_idle_thread, used by enqueue_system_call and syscalls_free.       *)
(***************************************************************************)
await_idle_wait ==
  /\ MainAt("await_idle")
  /\ sstate # "SYSCALL_IDLE"
  /\ mutex' = "free"
  /\ waiting' = waiting \cup {"idle"}
  /\ mpc' = "idle_wait"
  /\ UNCHANGED <<sstate, event, kind, why, status, cancel, closes, proc, issued,
                 sysVars>>

\* A signal, or a spurious wakeup.
idle_wake ==
  /\ MainAt("idle_wait")
  /\ waiting' = waiting \ {"idle"}
  /\ status' = "STATUS_OK"
  /\ mpc' = "idle_relock"
  /\ UNCHANGED <<mutex, sstate, event, kind, why, cancel, closes, proc, issued,
                 sysVars>>

\* ETIMEDOUT: MAX_WAIT_SECS have passed.
idle_timeout ==
  /\ MainAt("idle_wait")
  /\ TimeoutsOccur
  /\ "idle" \in waiting
  /\ waiting' = waiting \ {"idle"}
  /\ status' = "STATUS_ERR"
  /\ mpc' = "idle_relock"
  /\ UNCHANGED <<mutex, sstate, event, kind, why, cancel, closes, proc, issued,
                 sysVars>>

\* Mutant: a timeout is taken for a wakeup, and the wait starts again.
idle_relock_ignores_timeout ==
  /\ MainAt("idle_relock")
  /\ mutex = "free"
  /\ mutex' = "main"
  /\ mpc' = "await_idle"
  /\ UNCHANGED <<waiting, sstate, event, kind, why, status, cancel, closes, proc,
                 issued, sysVars>>

\* pthread_cond_timedwait takes the mutex again before it returns.  A timeout
\* ends the wait whatever syscalls->state has become meanwhile.
idle_relock ==
  /\ MainAt("idle_relock")
  /\ mutex = "free"
  /\ mutex' = "main"
  /\ \/ status = "STATUS_OK" /\ mpc' = "await_idle" /\ why' = why
     \/ status = "STATUS_ERR" /\ why = "enqueue" /\ StateFree("free_and_die")
     \/ status = "STATUS_ERR" /\ why # "enqueue" /\ mpc' = "syscalls_free" /\ why' = why
  /\ UNCHANGED <<waiting, sstate, event, kind, status, cancel, closes, proc,
                 issued, sysVars>>

(***************************************************************************)
(* enqueue_system_call.                                                    *)
(***************************************************************************)
\* Mutant: does not wait for the previous blocking call.
enqueue_system_call_at_once ==
  /\ MainAt("await_idle")
  /\ why = "enqueue"
  /\ sstate' = "SYSCALL_ENQUEUED"
  /\ waiting' = waiting \ {"enqueued"}
  /\ issued' = issued \cup {event}
  /\ mpc' = "await_dequeued"
  /\ UNCHANGED <<mutex, event, kind, why, status, cancel, closes, proc, sysVars>>

enqueue_system_call ==
  /\ MainAt("await_idle")
  /\ sstate = "SYSCALL_IDLE"
  /\ why = "enqueue"
  /\ sstate' = "SYSCALL_ENQUEUED"
  /\ waiting' = waiting \ {"enqueued"}
  /\ issued' = issued \cup {event}
  /\ mpc' = "await_dequeued"
  /\ UNCHANGED <<mutex, event, kind, why, status, cancel, closes, proc, sysVars>>

await_dequeued ==
  /\ MainAt("await_dequeued")
  /\ mutex' = "free"
  /\ \/ /\ sstate = "SYSCALL_ENQUEUED"
        /\ mpc' = "dequeued_wait" /\ waiting' = waiting \cup {"dequeued"}
     \/ /\ sstate # "SYSCALL_ENQUEUED"
        /\ mpc' = "check_sleeping" /\ waiting' = waiting
  /\ UNCHANGED <<sstate, event, kind, why, status, cancel, closes, proc, issued,
                 sysVars>>

dequeued_wake ==
  /\ MainAt("dequeued_wait")
  /\ waiting' = waiting \ {"dequeued"}
  /\ mpc' = "dequeued_relock"
  /\ UNCHANGED <<mutex, sstate, event, kind, why, status, cancel, closes, proc,
                 issued, sysVars>>

\* Mutant: an if in place of the while, so that a spurious wakeup counts.
dequeued_relock_no_loop ==
  /\ MainAt("dequeued_relock")
  /\ mutex = "free"
  /\ mpc' = "check_sleeping"
  /\ UNCHANGED <<mutex, waiting, sstate, event, kind, why, status, cancel, closes,
                 proc, issued, sysVars>>

dequeued_relock ==
  /\ MainAt("dequeued_relock")
  /\ mutex = "free"
  /\ mutex' = "main"
  /\ mpc' = "await_dequeued"
  /\ UNCHANGED <<waiting, sstate, event, kind, why, status, cancel, closes, proc,
                 issued, sysVars>>

\* What /proc or sysctl says of the thread: asleep on a condition variable;
\* perhaps asleep in usleep(), on the mutex, in its system call or in the
\* cleanup command that die() runs; otherwise runnable.
MaySleep ==
  spc \in {"start", "enqueued_wait", "enqueued_relock", "sleep", "call",
           "end_syscall", "die"}
MustSleep == spc = "enqueued_wait"

is_thread_sleeping ==
  /\ MainAt("check_sleeping")
  /\ \/ MaySleep /\ status' = "STATUS_OK"
     \/ ~MustSleep /\ status' = "STATUS_ERR"
  /\ mpc' = "yield_relock"
  /\ UNCHANGED <<mutex, waiting, sstate, event, kind, why, cancel, closes, proc,
                 issued, sysVars>>

yield_relock ==
  /\ MainAt("yield_relock")
  /\ mutex = "free"
  /\ IF status = "STATUS_OK" \/ sstate = "SYSCALL_IDLE"
     THEN mutex' = "main" /\ mpc' = "get_next_event"
     ELSE mutex' = "free" /\ mpc' = "check_sleeping"
  /\ UNCHANGED <<waiting, sstate, event, kind, why, status, cancel, closes, proc,
                 issued, sysVars>>

(***************************************************************************)
(* syscalls_free and the rest of state_free.                               *)
(***************************************************************************)
\* The thread is idle: ask it to exit.
request_exit ==
  /\ MainAt("await_idle")
  /\ sstate = "SYSCALL_IDLE"
  /\ why # "enqueue"
  /\ sstate' = "SYSCALL_EXITING"
  /\ waiting' = waiting \ {"enqueued"}
  /\ mutex' = "free"
  /\ mpc' = "join"
  /\ UNCHANGED <<event, kind, why, status, cancel, closes, proc, issued, sysVars>>

\* Mutant: about_to_die is not looked at.
syscalls_free_cancels_always ==
  /\ MainAt("syscalls_free")
  /\ cancel' = "requested"
  /\ mutex' = "free"
  /\ mpc' = "join"
  /\ UNCHANGED <<waiting, sstate, event, kind, why, status, closes, proc, issued,
                 sysVars>>

\* The wait timed out: report the call in progress (its line number is read
\* through syscalls->event) or cancel the thread.
syscalls_free_timeout ==
  /\ MainAt("syscalls_free")
  /\ IF why = "free_at_end"
     THEN /\ proc' = IF sysEvent = NULL THEN "null_event" ELSE proc
          /\ mpc' = "die"
          /\ UNCHANGED <<mutex, cancel>>
     ELSE /\ cancel' = "requested"
          /\ mutex' = "free"
          /\ mpc' = "join"
          /\ proc' = proc
  /\ UNCHANGED <<waiting, sstate, event, kind, why, status, closes, issued, sysVars>>

\* Mutant: goes on without waiting for the thread.
pthread_join_missing ==
  /\ MainAt("join")
  /\ mpc' = "relock"
  /\ UNCHANGED <<mutex, waiting, sstate, event, kind, why, status, cancel, closes,
                 proc, issued, sysVars>>

pthread_join ==
  /\ MainAt("join")
  /\ spc \in {"exited", "cancelled"}
  /\ mpc' = "relock"
  /\ UNCHANGED <<mutex, waiting, sstate, event, kind, why, status, cancel, closes,
                 proc, issued, sysVars>>

relock ==
  /\ MainAt("relock")
  /\ mutex = "free"
  /\ mutex' = "main"
  /\ mpc' = "close_all_sockets"
  /\ UNCHANGED <<waiting, sstate, event, kind, why, status, cancel, closes, proc,
                 issued, sysVars>>

\* close_all_sockets, the other frees, and run_unlock.  A close() that fails, or
\* a reset or abort that cannot be sent, is die() with the mutex held.
close_all_sockets ==
  /\ MainAt("close_all_sockets")
  /\ closes' = IF closes = 2 THEN 2 ELSE closes + 1
  /\ \/ why = "free_at_end" /\ mutex' = "free" /\ mpc' = "returned" /\ proc' = "passed"
     \/ why # "free_at_end" /\ mutex' = "free" /\ mpc' = "die" /\ proc' = proc
     \/ mpc' = "die" /\ UNCHANGED <<mutex, proc>>
  /\ UNCHANGED <<waiting, sstate, event, kind, why, status, cancel, issued,
                 sysVars>>

\* die(): the cleanup command, then exit(EXIT_FAILURE) for both threads.
main_die ==
  /\ MainAt("die")
  /\ proc' = "failed"
  /\ UNCHANGED <<mutex, waiting, sstate, mainVars, cancel, sysVars>>

\* SIGINT, SIGTERM or SIGHUP while the main thread is anywhere: the handler
\* takes no lock, closes the sockets and dies.
signal_handler ==
  /\ Running
  /\ SignalsOccur
  /\ mpc # "die"
  /\ closes' = IF closes = 2 THEN 2 ELSE closes + 1
  /\ waiting' = waiting \ {"idle", "dequeued"}
  /\ mpc' = "die"
  /\ UNCHANGED <<mutex, sstate, event, kind, why, status, cancel, proc, issued,
                 sysVars>>

(***************************************************************************)
(* The system call thread: system_call_thread and, below it,               *)
(* invoke_system_call, begin_syscall and end_syscall.                      *)
(***************************************************************************)
SysAt(l) == Running /\ spc = l

unchangedMain == UNCHANGED <<mainVars, cancel>>

thread_start ==
  /\ SysAt("start")
  /\ mutex = "free"
  /\ mutex' = "syscall"
  /\ spc' = "switch"
  /\ UNCHANGED <<waiting, sstate, proc, sysEvent, liveEnd, own, verified>>
  /\ unchangedMain

\* The switch on syscalls->state, with the SYSCALL_RUNNING and SYSCALL_DONE
\* cases in which the code asserts that they are not reached.
case_idle ==
  /\ SysAt("switch")
  /\ sstate \in {"SYSCALL_IDLE", "SYSCALL_RUNNING", "SYSCALL_DONE"}
  /\ assert(sstate = "SYSCALL_IDLE")
  /\ mutex' = "free"
  /\ waiting' = waiting \cup {"enqueued"}
  /\ spc' = "enqueued_wait"
  /\ UNCHANGED <<sstate, sysEvent, liveEnd, own, verified>>
  /\ unchangedMain

enqueued_wake ==
  /\ SysAt("enqueued_wait")
  /\ waiting' = waiting \ {"enqueued"}
  /\ spc' = "enqueued_relock"
  /\ UNCHANGED <<mutex, sstate, proc, sysEvent, liveEnd, own, verified>>
  /\ unchangedMain

enqueued_relock ==
  /\ SysAt("enqueued_relock")
  /\ mutex = "free"
  /\ mutex' = "syscall"
  /\ spc' = "switch"
  /\ UNCHANGED <<waiting, sstate, proc, sysEvent, liveEnd, own, verified>>
  /\ unchangedMain

\* Remember the event; invoke_system_call starts with wait_for_event, which
\* releases the mutex.
case_enqueued ==
  /\ SysAt("switch")
  /\ sstate = "SYSCALL_ENQUEUED"
  /\ assert(event \in Event /\ kind = "blocking")
  /\ own' = event
  /\ sysEvent' = event
  /\ liveEnd' = -1
  /\ mutex' = "free"
  /\ spc' = "sleep"
  /\ UNCHANGED <<waiting, sstate, verified>>
  /\ unchangedMain

sys_wait_for_event ==
  /\ SysAt("sleep")
  /\ mutex = "free"
  /\ mutex' = "syscall"
  /\ spc' \in {"begin_syscall", "die"}      \* check_event_time(state->event)
  /\ UNCHANGED <<waiting, sstate, proc, sysEvent, liveEnd, own, verified>>
  /\ unchangedMain

\* An unknown call or bad arguments, found before begin_syscall.
bad_arguments ==
  /\ SysAt("begin_syscall")
  /\ spc' = "die"
  /\ UNCHANGED <<mutex, waiting, sstate, proc, sysEvent, liveEnd, own, verified>>
  /\ unchangedMain

\* Mutant: the state is left at SYSCALL_ENQUEUED.
begin_syscall_still_enqueued ==
  /\ SysAt("begin_syscall")
  /\ assert(sstate = "SYSCALL_ENQUEUED")
  /\ mutex' = "free"
  /\ spc' = "signal"
  /\ UNCHANGED <<waiting, sstate, sysEvent, liveEnd, own, verified>>
  /\ unchangedMain

begin_syscall ==
  /\ SysAt("begin_syscall")
  /\ assert(sstate = "SYSCALL_ENQUEUED")
  /\ sstate' = "SYSCALL_RUNNING"
  /\ mutex' = "free"
  /\ spc' = "signal"
  /\ UNCHANGED <<waiting, sysEvent, liveEnd, own, verified>>
  /\ unchangedMain

\* Mutant: the main thread is not told that its call was taken.
signal_dequeued_forgotten ==
  /\ SysAt("signal")
  /\ spc' = "call"
  /\ UNCHANGED <<mutex, waiting, sstate, proc, sysEvent, liveEnd, own, verified>>
  /\ unchangedMain

\* The signal is sent after the mutex has been released.
signal_dequeued ==
  /\ SysAt("signal")
  /\ waiting' = waiting \ {"dequeued"}
  /\ spc' = "call"
  /\ UNCHANGED <<mutex, sstate, proc, sysEvent, liveEnd, own, verified>>
  /\ unchangedMain

\* The kernel returns from the call.
call_returns ==
  /\ SysAt("call")
  /\ spc' = "end_syscall"
  /\ UNCHANGED <<mutex, waiting, sstate, proc, sysEvent, liveEnd, own, verified>>
  /\ unchangedMain

end_syscall ==
  /\ SysAt("end_syscall")
  /\ mutex = "free"
  /\ mutex' = "syscall"
  /\ liveEnd' = 0
  /\ assert(sstate = "SYSCALL_RUNNING")
  /\ sstate' = "SYSCALL_DONE"
  /\ spc' = "check"
  /\ UNCHANGED <<waiting, sysEvent, own, verified>>
  /\ unchangedMain

\* Mutant: a failed check is forgotten and the thread goes idle.
call_failed_ignored ==
  /\ SysAt("check")
  /\ sstate' = "SYSCALL_IDLE"
  /\ sysEvent' = NULL
  /\ waiting' = waiting \ {"idle"}
  /\ spc' = "switch"
  /\ UNCHANGED <<mutex, proc, liveEnd, own, verified>>
  /\ unchangedMain

\* Wrong result or errno, or verify_time fails for the return of the call.
call_failed ==
  /\ SysAt("check")
  /\ spc' = "die"
  /\ UNCHANGED <<mutex, waiting, sstate, proc, sysEvent, liveEnd, own, verified>>
  /\ unchangedMain

call_verified ==
  /\ SysAt("check")
  /\ assert(liveEnd >= 0 /\ sstate = "SYSCALL_DONE")
  /\ verified' = verified \cup {own}
  /\ sstate' = "SYSCALL_IDLE"
  /\ sysEvent' = NULL
  /\ liveEnd' = -1
  /\ waiting' = waiting \ {"idle"}
  /\ spc' = "switch"
  /\ UNCHANGED <<mutex, own>>
  /\ unchangedMain

case_exiting ==
  /\ SysAt("switch")
  /\ sstate = "SYSCALL_EXITING"
  /\ mutex' = "free"
  /\ spc' = "exited"
  /\ UNCHANGED <<waiting, sstate, proc, sysEvent, liveEnd, own, verified>>
  /\ unchangedMain

sys_die ==
  /\ SysAt("die")
  /\ proc' = "failed"
  /\ UNCHANGED <<mutex, waiting, sstate, mainVars, cancel, sysVars>>

\* pthread_cancel takes effect at a cancellation point: inside the system call;
\* in pthread_cond_wait, which takes the mutex again first; or in the output
\* and the command of die(), while the mutex is held.  No cleanup handler
\* releases the mutex.
act_on_cancel ==
  /\ Running
  /\ cancel = "requested"
  /\ \/ spc \in {"call", "die"} /\ mutex' = mutex /\ waiting' = waiting
     \/ /\ spc = "enqueued_wait" /\ mutex = "free"
        /\ mutex' = "syscall" /\ waiting' = waiting \ {"enqueued"}
  /\ spc' = "cancelled"
  /\ UNCHANGED <<sstate, proc, sysEvent, liveEnd, own, verified>>
  /\ unchangedMain

(***************************************************************************)
(* The whole system.                                                       *)
(***************************************************************************)
MainStep ==
  \/ get_next_event \/ get_next_event_error \/ wait_for_event \/ run_event
  \/ run_script_end \/ await_idle_wait \/ idle_wake \/ idle_timeout
  \/ idle_relock \/ enqueue_system_call \/ await_dequeued \/ dequeued_wake
  \/ dequeued_relock \/ is_thread_sleeping \/ yield_relock \/ request_exit
  \/ syscalls_free_timeout \/ pthread_join \/ relock \/ close_all_sockets
  \/ main_die

SysStep ==
  \/ thread_start \/ case_idle \/ enqueued_wake \/ enqueued_relock
  \/ case_enqueued \/ sys_wait_for_event \/ bad_arguments \/ begin_syscall
  \/ signal_dequeued \/ call_returns \/ end_syscall \/ call_failed
  \/ call_verified \/ case_exiting \/ sys_die \/ act_on_cancel

\* The process is gone, with both its threads.
process_exited == ~Running /\ UNCHANGED vars

Next == MainStep \/ SysStep \/ signal_handler \/ process_exited

Spec == Init /\ [][Next]_vars

(***************************************************************************)
(* Fairness.  A thread that can go on does so, and a thread that keeps     *)
(* finding the mutex free gets it in the end (strong fairness: between two *)
(* of its polls the main thread yields the CPU, and futex queues do not    *)
(* starve a waiter for ever).  Spurious wakeups are possible but never     *)
(* promised.  One second passes (idle_timeout) and a cancellation point    *)
(* acts, whatever the kernel does.  What waits for the kernel gets no      *)
(* fairness: a blocking call may never return, netdev_receive waits for    *)
(* a packet to sniff without a timeout, and so may a call or command that  *)
(* the main thread makes itself.  That these end is the premise of         *)
(* TestEnds (EventsComplete) and is assumed nowhere else.                  *)
(***************************************************************************)
MainProgress ==
  MainStep /\ mpc # "run_event"
           /\ (mpc = "idle_wait" => "idle" \notin waiting)
           /\ (mpc = "dequeued_wait" => "dequeued" \notin waiting)

SysProgress ==
  SysStep /\ spc # "call" /\ (spc = "enqueued_wait" => "enqueued" \notin waiting)

FairSpec ==
  /\ Spec
  /\ SF_vars(MainProgress)
  /\ SF_vars(SysProgress)
  /\ SF_vars(idle_timeout)
  /\ SF_vars(act_on_cancel)

(***************************************************************************)
(* Safety.                                                                 *)
(***************************************************************************)
\* None of the assert()s of system_call_thread, begin_syscall and end_syscall
\* can fail, whatever the interleaving, spurious wakeups included.
AssertsHold == proc # "assert"

\* wait_for_event looks at state->event, which belongs to the main thread, also
\* when the system call thread calls it; until begin_syscall the event it finds
\* there is still the one it was given.
OwnEventCurrent ==
  spc \in {"sleep", "begin_syscall"} => event = own /\ sysEvent = own

\* At most one blocking call is unfinished, and when the thread is idle none is.
OneCallAtATime ==
  /\ Cardinality(issued \ verified) <= 1
  /\ sstate \in {"SYSCALL_IDLE", "SYSCALL_EXITING"} => issued \subseteq verified

\* run_script returns normally only if all events were run and every blocking
\* call was verified and the system call thread has exited.
PassedMeansVerified ==
  proc = "passed" =>
    event = NumEvents + 1 /\ issued \subseteq verified /\ spc = "exited"

\* state_free: "We have to stop the system call thread first, since it's using
\* sockets that we want to close and reset."  Once close_all_sockets is reached
\* the thread is in no call; only the handler of a signal closes the sockets
\* under it, on its way to die().
SocketsOutliveThread ==
  closes > 0 \/ mpc = "close_all_sockets" =>
    \/ SignalsOccur /\ mpc = "die"
    \/ spc \notin {"begin_syscall", "signal", "call", "end_syscall", "check"}

\* The event whose call is between enqueue_system_call and the idle signal.
CallInProgress ==
  IF sstate = "SYSCALL_ENQUEUED" THEN event
  ELSE IF sstate \in {"SYSCALL_RUNNING", "SYSCALL_DONE"} THEN own ELSE 0

\* The detailed threads implement the serial calls of SerialCalls.
Serial ==
  INSTANCE SerialCalls WITH
    call <- CallInProgress,
    outcome <- IF proc \in {"running", "passed"} THEN proc ELSE "failed"

\* The abstract specification as a property of the threads.
ImplementsSerialCalls == Serial!Spec

(***************************************************************************)
(* The invariant behind these properties, in named parts: who may hold the *)
(* mutex; which value of syscalls->state belongs to which stretch of the   *)
(* two threads; which calls are unfinished in which state; what is known   *)
(* while the state is being freed.                                         *)
(***************************************************************************)
MutexInv ==
  /\ mpc \in {"get_next_event", "run_event", "await_idle", "await_dequeued",
             "syscalls_free", "close_all_sockets"} => mutex = "main"
  /\ spc \in {"switch", "begin_syscall", "check", "die"} => mutex = "syscall"

AwaitingIdle == mpc \in {"await_idle", "idle_wait", "idle_relock"}

HandoverInv ==
  /\ AwaitingIdle /\ why = "enqueue" => event \in Event /\ kind = "blocking"
  /\ sstate = "SYSCALL_ENQUEUED" =>
       /\ mpc \in {"await_dequeued", "dequeued_wait", "dequeued_relock", "die"}
       /\ event \in Event /\ kind = "blocking"
  /\ spc \in {"start", "switch", "enqueued_wait", "enqueued_relock"} =>
       sstate \in {"SYSCALL_IDLE", "SYSCALL_ENQUEUED", "SYSCALL_EXITING"}
  /\ spc \in {"sleep", "begin_syscall"} =>
       sstate = "SYSCALL_ENQUEUED" /\ own = event /\ sysEvent = own
  /\ spc \in {"signal", "call", "end_syscall"} =>
       sstate = "SYSCALL_RUNNING" /\ own \in Event
  /\ spc = "check" => sstate = "SYSCALL_DONE" /\ own \in Event /\ liveEnd = 0
  /\ proc # "assert"

CallsInv ==
  /\ sstate \in {"SYSCALL_IDLE", "SYSCALL_EXITING"} => issued \subseteq verified
  /\ sstate = "SYSCALL_ENQUEUED" => issued \subseteq verified \cup {event}
  /\ sstate \in {"SYSCALL_RUNNING", "SYSCALL_DONE"} => issued \subseteq verified \cup {own}
  /\ \A e \in issued : e <= event
  /\ AwaitingIdle /\ why = "enqueue" => \A e \in issued : e < event

FreeInv ==
  /\ why = "free_at_end" =>
       /\ event = NumEvents + 1
       /\ mpc \in {"await_idle", "idle_wait", "idle_relock", "syscalls_free", "join",
                  "relock", "close_all_sockets", "returned", "die"}
  /\ why = "free_at_end" /\ mpc \in {"join", "relock", "close_all_sockets"} =>
       sstate = "SYSCALL_EXITING"
  /\ why = "free_at_end" /\ mpc \in {"relock", "close_all_sockets"} => spc = "exited"
  /\ sstate = "SYSCALL_EXITING" =>
       mpc \in {"join", "relock", "close_all_sockets", "returned", "die"}
  /\ spc = "cancelled" => cancel = "requested"
  /\ cancel = "requested" =>
       why = "free_and_die" /\ mpc \in {"join", "relock", "close_all_sockets", "die"}
  /\ mpc = "syscalls_free" => why # "enqueue"
  /\ mpc \in {"close_all_sockets", "relock"} => spc \in {"exited", "cancelled"}
  /\ proc = "passed" =>
       event = NumEvents + 1 /\ issued \subseteq verified /\ spc = "exited"

\* The inductive invariant: the type and the four parts.
IInv == TypeOK /\ MutexInv /\ HandoverInv /\ CallsInv /\ FreeInv

(***************************************************************************)
(* Liveness.                                                               *)
(***************************************************************************)
\* Every system call and command ends, and every packet that is to be sniffed
\* arrives.
EventsComplete == WF_vars(call_returns) /\ WF_vars(run_event)

\* No wakeup is lost and nobody waits for ever on the other thread: if what the
\* script waits for happens, and the thread that makes the blocking calls is not
\* cancelled for being late, the test ends.
TestEnds == EventsComplete /\ [](cancel # "requested") => <>(~Running)

\* await_idle_thread: "To avoid mystifying hangs ... we limit the duration of
\* our waiting to 1 second": every wait for the idle thread ends.
AwaitIdleEnds ==
  mpc \in {"await_idle", "idle_wait"} ~>
    ~Running \/ mpc \notin {"await_idle", "idle_wait", "idle_relock"}

\* Once the main thread waits for the exit of the system call thread, which
\* includes the case that it has cancelled it, the process ends.
TeardownEnds == mpc = "join" ~> ~Running

=============================================================================
