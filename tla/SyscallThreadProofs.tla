------------------------ MODULE SyscallThreadProofs ------------------------
(***************************************************************************)
(* Proofs about the two threads of SyscallThread, for scripts of every     *)
(* length, with and without timeouts and signals, and about the arguments  *)
(* of the calls (StructArguments), for any set of structs.                 *)
(***************************************************************************)
EXTENDS SyscallThread, StructArguments, FiniteSetTheorems, TLAPS

\* The initial state of state_new satisfies the invariant.
LEMMA InitIInv == Init => IInv
  <1> SUFFICES ASSUME Init PROVE IInv
    OBVIOUS
  <1> USE NumEventsAssumption DEF Init
  <1>1. TypeOK
    BY DEF TypeOK, Event, NULL, Cond, SyscallState, Kind, MainPC, SysPC, Why
  <1>2. MutexInv /\ FreeInv
    BY DEF MutexInv, FreeInv
  <1>3. HandoverInv
    BY DEF HandoverInv, AwaitingIdle
  <1>4. CallsInv
    BY DEF CallsInv, AwaitingIdle
  <1>5. QED
    BY <1>1, <1>2, <1>3, <1>4 DEF IInv

LEMMA MainStepIInv == ASSUME IInv, MainStep PROVE IInv'
  <1> USE NumEventsAssumption DEF IInv, TypeOK, MutexInv, HandoverInv, CallsInv,
     FreeInv, AwaitingIdle, Event, NULL, Cond, SyscallState, Kind, MainPC, SysPC, Why,
     MainAt, Running, StateFree, mainVars, sysVars
  <1>1. CASE get_next_event
    <2> USE <1>1 DEF get_next_event
    <2>1. TypeOK'
      OBVIOUS
    <2>2. MutexInv' /\ FreeInv'
      OBVIOUS
    <2>3. HandoverInv'
      OBVIOUS
    <2>4. CallsInv'
      OBVIOUS
    <2>5. QED
      BY <2>1, <2>2, <2>3, <2>4
  <1>2. CASE get_next_event_error BY <1>2 DEF get_next_event_error
  <1>3. CASE wait_for_event BY <1>3 DEF wait_for_event
  <1>4. CASE run_event BY <1>4 DEF run_event
  <1>5. CASE run_script_end
    <2> USE <1>5 DEF run_script_end
    <2>1. TypeOK'
      OBVIOUS
    <2>2. MutexInv' /\ FreeInv'
      OBVIOUS
    <2>3. HandoverInv'
      OBVIOUS
    <2>4. CallsInv'
      OBVIOUS
    <2>5. QED
      BY <2>1, <2>2, <2>3, <2>4
  <1>6. CASE await_idle_wait BY <1>6 DEF await_idle_wait
  <1>7. CASE idle_wake BY <1>7 DEF idle_wake
  <1>8. CASE idle_timeout BY <1>8 DEF idle_timeout
  <1>9. CASE idle_relock BY <1>9 DEF idle_relock
  <1>10. CASE enqueue_system_call BY <1>10 DEF enqueue_system_call
  <1>11. CASE await_dequeued
    <2> USE <1>11 DEF await_dequeued
    <2>1. waiting' \in SUBSET Cond
      OBVIOUS
    <2>2. TypeOK'
      BY <2>1
    <2>3. MutexInv' /\ FreeInv'
      OBVIOUS
    <2>4. HandoverInv' /\ CallsInv'
      OBVIOUS
    <2>5. QED
      BY <2>2, <2>3, <2>4
  <1>12. CASE dequeued_wake BY <1>12 DEF dequeued_wake
  <1>13. CASE dequeued_relock BY <1>13 DEF dequeued_relock
  <1>14. CASE is_thread_sleeping BY <1>14 DEF is_thread_sleeping
  <1>15. CASE yield_relock BY <1>15 DEF yield_relock
  <1>16. CASE request_exit BY <1>16 DEF request_exit
  <1>17. CASE syscalls_free_timeout BY <1>17 DEF syscalls_free_timeout
  <1>18. CASE pthread_join BY <1>18 DEF pthread_join
  <1>19. CASE relock BY <1>19 DEF relock
  <1>20. CASE close_all_sockets BY <1>20 DEF close_all_sockets
  <1>21. CASE main_die BY <1>21 DEF main_die
  <1>22. QED
    BY <1>1, <1>2, <1>3, <1>4, <1>5, <1>6, <1>7, <1>8, <1>9, <1>10, <1>11, <1>12,
       <1>13, <1>14, <1>15, <1>16, <1>17, <1>18, <1>19, <1>20, <1>21 DEF MainStep

LEMMA SysStepIInv == ASSUME IInv, SysStep PROVE IInv'
  <1> USE NumEventsAssumption DEF IInv, TypeOK, MutexInv, HandoverInv, CallsInv,
     FreeInv, AwaitingIdle, Event, NULL, Cond, SyscallState, Kind, MainPC, SysPC, Why,
     SysAt, Running, assert, unchangedMain, mainVars, sysVars
  <1>1. CASE thread_start BY <1>1 DEF thread_start
  <1>2. CASE case_idle BY <1>2 DEF case_idle
  <1>3. CASE enqueued_wake BY <1>3 DEF enqueued_wake
  <1>4. CASE enqueued_relock BY <1>4 DEF enqueued_relock
  <1>5. CASE case_enqueued BY <1>5 DEF case_enqueued
  <1>6. CASE sys_wait_for_event BY <1>6 DEF sys_wait_for_event
  <1>7. CASE bad_arguments BY <1>7 DEF bad_arguments
  <1>8. CASE begin_syscall BY <1>8 DEF begin_syscall
  <1>9. CASE signal_dequeued BY <1>9 DEF signal_dequeued
  <1>10. CASE call_returns BY <1>10 DEF call_returns
  <1>11. CASE end_syscall BY <1>11 DEF end_syscall
  <1>12. CASE call_failed BY <1>12 DEF call_failed
  <1>13. CASE call_verified BY <1>13 DEF call_verified
  <1>14. CASE case_exiting BY <1>14 DEF case_exiting
  <1>15. CASE sys_die BY <1>15 DEF sys_die
  <1>16. CASE act_on_cancel
    <2> USE <1>16 DEF act_on_cancel
    <2>1. waiting' \in SUBSET Cond
      OBVIOUS
    <2>2. TypeOK'
      BY <2>1
    <2>3. MutexInv' /\ FreeInv'
      OBVIOUS
    <2>4. HandoverInv' /\ CallsInv'
      OBVIOUS
    <2>5. QED
      BY <2>2, <2>3, <2>4
  <1>17. QED
    BY <1>1, <1>2, <1>3, <1>4, <1>5, <1>6, <1>7, <1>8, <1>9, <1>10, <1>11, <1>12,
       <1>13, <1>14, <1>15, <1>16 DEF SysStep

\* A signal may interrupt the main thread anywhere; the handler only takes it to
\* die(), about which the invariant says nothing.
LEMMA SignalIInv == ASSUME IInv, signal_handler PROVE IInv'
  BY DEF signal_handler, IInv, TypeOK, MutexInv, HandoverInv, CallsInv, FreeInv,
     AwaitingIdle, Event, NULL, Cond, SyscallState, Kind, MainPC, SysPC, Why, Running,
     sysVars

LEMMA StepIInv == IInv /\ [Next]_vars => IInv'
  <1> SUFFICES ASSUME IInv, [Next]_vars PROVE IInv'
    OBVIOUS
  <1>1. CASE MainStep BY <1>1, MainStepIInv
  <1>2. CASE SysStep BY <1>2, SysStepIInv
  <1>3. CASE signal_handler BY <1>3, SignalIInv
  <1>4. CASE UNCHANGED vars
    BY <1>4 DEF vars, mainVars, sysVars, IInv, TypeOK, MutexInv, HandoverInv, CallsInv,
       FreeInv, AwaitingIdle
  <1>5. QED
    BY <1>1, <1>2, <1>3, <1>4 DEF Next, process_exited

\* The conjunction of all parts holds in every reachable state.
THEOREM Invariance == Spec => []IInv
  BY InitIInv, StepIInv, PTL DEF Spec

\* The types of the shared state hold throughout; they need the whole invariant,
\* since that an event is a member of Event depends on who owns it.
THEOREM TypeCorrect == Spec => []TypeOK
  <1>1. IInv => TypeOK
    BY DEF IInv
  <1>2. QED
    BY <1>1, Invariance, PTL

\* No assert() of the thread protocol fails, for any number of events.
THEOREM AssertsNeverFail == Spec => []AssertsHold
  <1>1. IInv => AssertsHold
    BY DEF IInv, HandoverInv, AssertsHold
  <1>2. QED
    BY <1>1, Invariance, PTL

\* The event that wait_for_event and check_event_time read on behalf of the system
\* call thread is the event that thread was given.
THEOREM WaitsForOwnEvent == Spec => []OwnEventCurrent
  <1>1. IInv => OwnEventCurrent
    BY DEF IInv, HandoverInv, OwnEventCurrent
  <1>2. QED
    BY <1>1, Invariance, PTL

\* Blocking calls never overlap.
THEOREM CallsAreSerial == Spec => []OneCallAtATime
  <1>1. ASSUME IInv PROVE OneCallAtATime
    <2>1. PICK x : issued \ verified \subseteq {x}
      BY <1>1 DEF IInv, CallsInv, TypeOK, SyscallState
    <2>2. issued \ verified = {} \/ issued \ verified = {x}
      BY <2>1
    <2>3. Cardinality({}) = 0 /\ Cardinality({x}) = 1
      BY FS_EmptySet, FS_Singleton
    <2>4. Cardinality(issued \ verified) <= 1
      BY <2>2, <2>3
    <2>5. QED
      BY <1>1, <2>4 DEF OneCallAtATime, IInv, CallsInv
  <1>2. QED
    BY <1>1, Invariance, PTL

\* A test that passes ran all its events and verified every blocking call.
THEOREM PassIsEarned == Spec => []PassedMeansVerified
  <1>1. IInv => PassedMeansVerified
    BY DEF IInv, FreeInv, PassedMeansVerified
  <1>2. QED
    BY <1>1, Invariance, PTL

\* Without signals, the sockets are closed only after the system call thread has
\* ended: the order that state_free keeps, in the timeout case too.
THEOREM SocketsClosedLast ==
  ASSUME SignalsOccur = FALSE
  PROVE  Spec => []SocketsOutliveThread
  <1> DEFINE Stopped == closes > 0 => spc \in {"exited", "cancelled"}
  <1>1. Init => Stopped
    BY DEF Init
  <1>2. IInv /\ Stopped /\ [Next]_vars => Stopped'
    <2> SUFFICES ASSUME IInv, Stopped, [Next]_vars PROVE Stopped'
      OBVIOUS
    <2>1. CASE close_all_sockets
      BY <2>1 DEF close_all_sockets, MainAt, IInv, FreeInv, sysVars
    <2>2. CASE MainStep /\ ~close_all_sockets
      <3>1. UNCHANGED <<closes, spc>>
        BY <2>2 DEF MainStep, get_next_event, get_next_event_error, wait_for_event,
           run_event, run_script_end, await_idle_wait, idle_wake, idle_timeout,
           idle_relock, enqueue_system_call, await_dequeued, dequeued_wake,
           dequeued_relock, is_thread_sleeping, yield_relock, request_exit,
           syscalls_free_timeout, pthread_join, relock, main_die, sysVars, mainVars
      <3>2. QED
        BY <3>1
    <2>3. CASE SysStep
      <3>1. closes' = closes /\ spc \notin {"exited", "cancelled"}
        BY <2>3 DEF SysStep, thread_start, case_idle, enqueued_wake, enqueued_relock,
           case_enqueued, sys_wait_for_event, bad_arguments, begin_syscall,
           signal_dequeued, call_returns, end_syscall, call_failed, call_verified,
           case_exiting, sys_die, act_on_cancel, SysAt, unchangedMain, mainVars
      <3>2. QED
        BY <3>1
    <2>4. CASE UNCHANGED vars
      BY <2>4 DEF vars, mainVars, sysVars
    <2>5. ~signal_handler
      BY DEF signal_handler
    <2>6. QED
      BY <2>1, <2>2, <2>3, <2>4, <2>5 DEF Next, process_exited
  <1>3. IInv /\ Stopped => SocketsOutliveThread
    BY DEF SocketsOutliveThread, IInv, FreeInv
  <1>4. QED
    BY <1>1, <1>2, <1>3, Invariance, PTL DEF Spec

(***************************************************************************)
(* Refinement.  A step of the threads starts a call (enqueue_system_call), *)
(* finishes one (call_verified), ends the test, or is invisible.           *)
(***************************************************************************)
LEMMA InitRefines == Init => Serial!Init
  BY DEF Init, Serial!Init, CallInProgress

\* What the main thread and the signal handler do, seen as SerialCalls.
LEMMA MainRefines == ASSUME IInv, MainStep PROVE [Serial!Next]_(Serial!vars)
  <1> USE DEF Serial!vars, CallInProgress, MainAt, Running
  <1>1. CASE enqueue_system_call
    <2>1. event \in 1 .. NumEvents /\ (\A f \in issued : f < event)
      BY <1>1 DEF enqueue_system_call, IInv, HandoverInv, CallsInv, AwaitingIdle, Event
    <2>2. Serial!Start(event)
      BY <1>1, <2>1 DEF enqueue_system_call, Serial!Start, sysVars
    <2>3. QED
      BY <2>1, <2>2 DEF Serial!Next
  <1>2. CASE close_all_sockets
    <2>1. CASE why = "free_at_end" /\ proc' = "passed"
      <3>1. Serial!Pass
        BY <1>2, <2>1 DEF close_all_sockets, Serial!Pass, IInv, FreeInv, CallsInv, sysVars
      <3>2. QED
        BY <3>1 DEF Serial!Next
    <2>2. CASE proc' = proc
      BY <1>2, <2>2 DEF close_all_sockets, sysVars
    <2>3. QED
      BY <1>2, <2>1, <2>2 DEF close_all_sockets
  <1>3. CASE run_script_end \/ syscalls_free_timeout \/ main_die
    <2>1. Serial!Fail \/ UNCHANGED Serial!vars
      <3>1. UNCHANGED <<sstate, own, issued, verified>>
        BY <1>3 DEF run_script_end, syscalls_free_timeout, main_die, sysVars, mainVars
      <3>2. CallInProgress' = CallInProgress
        BY <1>3, <3>1 DEF run_script_end, syscalls_free_timeout, main_die, sysVars,
           mainVars, IInv, HandoverInv
      <3>3. proc = "running" /\ proc' \in {"running", "failed", "null_event"}
        BY <1>3 DEF run_script_end, syscalls_free_timeout, main_die
      <3>4. QED
        BY <3>1, <3>2, <3>3 DEF Serial!Fail
    <2>2. QED
      BY <2>1 DEF Serial!Next
  <1>4. CASE get_next_event \/ get_next_event_error
    BY <1>4 DEF get_next_event, get_next_event_error, sysVars, IInv, HandoverInv
  <1>5. CASE wait_for_event \/ run_event \/ await_idle_wait \/ idle_wake \/ idle_timeout
    BY <1>5 DEF wait_for_event, run_event, await_idle_wait, idle_wake, idle_timeout, sysVars
  <1>6. CASE idle_relock \/ await_dequeued \/ dequeued_wake \/ dequeued_relock
    BY <1>6 DEF idle_relock, await_dequeued, dequeued_wake, dequeued_relock, sysVars
  <1>7. CASE is_thread_sleeping \/ yield_relock \/ pthread_join \/ relock
    BY <1>7 DEF is_thread_sleeping, yield_relock, pthread_join, relock, sysVars
  <1>8. CASE request_exit
    BY <1>8 DEF request_exit, sysVars
  <1>9. QED
    BY <1>1, <1>2, <1>3, <1>4, <1>5, <1>6, <1>7, <1>8 DEF MainStep

\* What the system call thread does, seen as SerialCalls.
LEMMA SysRefines == ASSUME IInv, IInv', SysStep PROVE [Serial!Next]_(Serial!vars)
  <1> USE DEF Serial!vars, CallInProgress, SysAt, Running, unchangedMain, mainVars
  <1>1. CASE call_verified
    <2>1. proc' = "running" /\ own \in Event /\ sstate = "SYSCALL_DONE"
      BY <1>1 DEF call_verified, assert, IInv, HandoverInv
    <2>2. Serial!Finish
      BY <1>1, <2>1 DEF call_verified, Serial!Finish, Event
    <2>3. QED
      BY <2>2 DEF Serial!Next
  <1>2. CASE sys_die
    <2>1. Serial!Fail
      BY <1>2 DEF sys_die, Serial!Fail, sysVars
    <2>2. QED
      BY <2>1 DEF Serial!Next
  <1>3. CASE begin_syscall
    BY <1>3 DEF begin_syscall, assert, IInv, HandoverInv
  <1>4. CASE case_enqueued
    <2>1. proc' = "running"
      BY <1>4 DEF case_enqueued, assert, IInv, HandoverInv
    <2>2. QED
      BY <1>4, <2>1 DEF case_enqueued
  <1>5. CASE end_syscall
    BY <1>5 DEF end_syscall, assert, IInv, HandoverInv
  <1>6. CASE case_idle
    BY <1>6 DEF case_idle, assert, IInv, HandoverInv
  <1>7. CASE thread_start \/ enqueued_wake \/ enqueued_relock \/ sys_wait_for_event
    BY <1>7 DEF thread_start, enqueued_wake, enqueued_relock, sys_wait_for_event
  <1>8. CASE bad_arguments \/ signal_dequeued \/ call_returns \/ call_failed
    BY <1>8 DEF bad_arguments, signal_dequeued, call_returns, call_failed
  <1>9. CASE case_exiting \/ act_on_cancel
    BY <1>9 DEF case_exiting, act_on_cancel
  <1>10. QED
    BY <1>1, <1>2, <1>3, <1>4, <1>5, <1>6, <1>7, <1>8, <1>9 DEF SysStep

\* The two threads, with all their locking, implement serial blocking calls: the
\* contract of run_system_call.h.
THEOREM Refinement == Spec => ImplementsSerialCalls
  <1>1. IInv /\ IInv' /\ [Next]_vars => [Serial!Next]_(Serial!vars)
    <2> SUFFICES ASSUME IInv, IInv', [Next]_vars PROVE [Serial!Next]_(Serial!vars)
      OBVIOUS
    <2>1. CASE MainStep BY <2>1, MainRefines
    <2>2. CASE SysStep BY <2>2, SysRefines
    <2>3. CASE signal_handler
      BY <2>3 DEF signal_handler, Serial!vars, CallInProgress, sysVars
    <2>4. CASE UNCHANGED vars
      BY <2>4 DEF vars, mainVars, sysVars, Serial!vars, CallInProgress
    <2>5. QED
      BY <2>1, <2>2, <2>3, <2>4 DEF Next, process_exited
  <1>2. QED
    BY <1>1, InitRefines, Invariance, PTL DEF Spec, ImplementsSerialCalls, Serial!Spec

------------------------------------------------------------------------------
(* StructArguments: the copies of arguments are freed.  evaluate() and       *)
(* free_expression() walk the same tree, of which every node is reached from *)
(* its parent only; what evaluate() has still to visit lies outside what it  *)
(* has copied.                                                               *)

(* The members that free_expression knows, and the paths made of them and of the two elements *)
(* of a list.                                                                                *)
Members == UNION {ToSet(free_expression[k]) : k \in DOMAIN free_expression}
Names == Members \cup {"0", "1"}
Paths == Seq(Names)

(* Every link leads to a path, and a node's parent frees it. *)
Tree(links) ==
  /\ \A n \in links : n.at \in Paths
  /\ \A n, p \in links :
       IsStrictPrefix(p.at, n.at) => n.at[Len(p.at) + 1] \in FreedBelow(p.kind)

(* What is left to visit: no node of it is below another or has been visited, and a node   *)
(* that has been visited frees what is left below it.                                      *)
Unvisited(work, links) ==
  /\ work \in Seq(Paths)
  /\ \A i, j \in 1 .. Len(work) : IsPrefix(work[i], work[j]) => i = j
  /\ \A i \in 1 .. Len(work) : \A n \in links : ~IsPrefix(work[i], n.at)
  /\ \A i \in 1 .. Len(work) : \A p \in links :
       IsStrictPrefix(p.at, work[i]) => work[i][Len(p.at) + 1] \in FreedBelow(p.kind)

(* The heap holds the nodes some link leads to; nothing is linked once all is done.          *)
CopyInv ==
  /\ Tree(linked)
  /\ heap = At(linked)
  /\ badfree = FALSE
  /\ phase \notin {"call", "check"} => tmp = FALSE
  /\ phase = "done" => linked = {}
  /\ phase = "evaluate" => Unvisited(todo, linked)

(* IsPrefix, element by element. *)
LEMMA PrefixDef ==
  ASSUME NEW s \in Paths, NEW t \in Paths
  PROVE  IsPrefix(s, t) <=> Len(s) <= Len(t) /\ \A i \in 1 .. Len(s) : s[i] = t[i]
BY DEF IsPrefix, Paths

(* IsStrictPrefix, element by element. *)
LEMMA StrictPrefixDef ==
  ASSUME NEW s \in Paths, NEW t \in Paths
  PROVE  IsStrictPrefix(s, t) <=> Len(s) < Len(t) /\ \A i \in 1 .. Len(s) : s[i] = t[i]
<1>1. IsStrictPrefix(s, t) <=> IsPrefix(s, t) /\ s # t
  BY DEF IsStrictPrefix
<1>2. ASSUME Len(s) = Len(t), \A i \in 1 .. Len(s) : s[i] = t[i] PROVE s = t
  BY <1>2 DEF Paths
<1>3. QED BY <1>1, <1>2, PrefixDef DEF Paths

(* A row of the tables: a sequence without repetition. *)
Row(members) == members \in Seq(ToSet(members)) /\ IsInjective(members)

(* evaluate_X_expression fills the members that free_expression frees, in the same order. *)
LEMMA SameMembers ==
  /\ evaluate_iovec_expression = free_iovec
  /\ evaluate_msghdr_expression = free_msghdr
  /\ evaluate_cmsghdr_expression = free_cmsghdr
  /\ evaluate_pollfd_expression = free_pollfd
  /\ evaluate_linger_expression = free_linger
  /\ evaluate_accept_filter_arg_expression = free_accept_filter_arg
  /\ evaluate_sf_hdtr_expression = free_sf_hdtr
  /\ evaluate_tcp_function_set_expression = free_tcp_function_set
  /\ evaluate_tcp_fastopen_expression = free_tcp_fastopen
  /\ evaluate_sctp_rtoinfo_expression = free_sctp_rtoinfo
  /\ evaluate_sctp_initmsg_expression = free_sctp_initmsg
  /\ evaluate_sctp_hmacalgo_expression = free_sctp_hmacalgo
  /\ evaluate_sctp_assoc_value_expression = free_sctp_assoc_value
  /\ evaluate_sctp_stream_value_expression = free_sctp_stream_value
  /\ evaluate_sctp_authkeyid_expression = free_sctp_authkeyid
  /\ evaluate_sctp_sack_info_expression = free_sctp_sack_info
  /\ evaluate_sctp_status_expression = free_sctp_status
  /\ evaluate_sctp_paddrinfo_expression = free_sctp_paddrinfo
  /\ evaluate_sctp_peer_addr_param_expression = free_sctp_paddrparams
  /\ evaluate_sctp_accocparams_expression = free_sctp_assocparams
  /\ evaluate_sctp_event_expression = free_sctp_event
  /\ evaluate_sctp_event_subscribe_expression = free_sctp_event_subscribe
  /\ evaluate_sctp_sndinfo_expression = free_sctp_sndinfo
  /\ evaluate_sctp_setprim_expression = free_sctp_setprim
  /\ evaluate_sctp_setadaptation_expression = free_sctp_setadaptation
  /\ evaluate_sctp_sndrcvinfo_expression = free_sctp_sndrcvinfo
  /\ evaluate_sctp_prinfo_expression = free_sctp_prinfo
  /\ evaluate_sctp_default_prinfo_expression = free_sctp_default_prinfo
  /\ evaluate_sctp_authinfo_expression = free_sctp_authinfo
  /\ evaluate_sctp_sendv_spa_expression = free_sctp_sendv_spa
  /\ evaluate_sctp_rcvinfo_expression = free_sctp_rcvinfo
  /\ evaluate_sctp_nxtinfo_expression = free_sctp_nxtinfo
  /\ evaluate_sctp_recvv_rn_expression = free_sctp_recvv_rn
  /\ evaluate_sctp_assoc_change_expression = free_sctp_assoc_change
  /\ evaluate_sctp_paddr_change_expression = free_sctp_paddr_change
  /\ evaluate_sctp_remote_error_expression = free_sctp_remote_error
  /\ evaluate_sctp_send_failed_expression = free_sctp_send_failed
  /\ evaluate_sctp_shutdown_event_expression = free_sctp_shutdown_event
  /\ evaluate_sctp_adaptation_event_expression = free_sctp_adaptation_event
  /\ evaluate_sctp_pdapi_event_expression = free_sctp_pdapi_event
  /\ evaluate_sctp_authkey_event_expression = free_sctp_authkey_event
  /\ evaluate_sctp_sender_dry_event_expression = free_sctp_sender_dry_event
  /\ evaluate_sctp_send_failed_event_expression = free_sctp_send_failed_event
  /\ evaluate_sctp_tlv_expression = free_sctp_tlv
  /\ evaluate_sctp_extrcvinfo_expression = free_sctp_extrcvinfo
  /\ evaluate_sctp_assoc_ids_expression = free_sctp_assoc_ids
  /\ evaluate_sctp_authchunks_expression = free_sctp_authchunks
  /\ evaluate_sctp_setpeerprim_expression = free_sctp_setpeerprim
  /\ evaluate_sctp_authchunk_expression = free_sctp_authchunk
  /\ evaluate_sctp_authkey_expression = free_sctp_authkey
  /\ evaluate_sctp_reset_streams_expression = free_sctp_reset_streams
  /\ evaluate_sctp_add_streams_expression = free_sctp_add_streams
  /\ evaluate_sctp_stream_reset_event_expression = free_sctp_stream_reset_event
  /\ evaluate_sctp_assoc_reset_event_expression = free_sctp_assoc_reset_event
  /\ evaluate_sctp_stream_change_event_expression = free_sctp_stream_change_event
  /\ evaluate_sctp_udpencaps_expression = free_sctp_udpencaps
BY DEF evaluate_iovec_expression, evaluate_msghdr_expression, evaluate_cmsghdr_expression,
  evaluate_pollfd_expression, evaluate_linger_expression,
  evaluate_accept_filter_arg_expression, evaluate_sf_hdtr_expression,
  evaluate_tcp_function_set_expression, evaluate_tcp_fastopen_expression,
  evaluate_sctp_rtoinfo_expression, evaluate_sctp_initmsg_expression,
  evaluate_sctp_hmacalgo_expression, evaluate_sctp_assoc_value_expression,
  evaluate_sctp_stream_value_expression, evaluate_sctp_authkeyid_expression,
  evaluate_sctp_sack_info_expression, evaluate_sctp_status_expression,
  evaluate_sctp_paddrinfo_expression, evaluate_sctp_peer_addr_param_expression,
  evaluate_sctp_accocparams_expression, evaluate_sctp_event_expression,
  evaluate_sctp_event_subscribe_expression, evaluate_sctp_sndinfo_expression,
  evaluate_sctp_setprim_expression, evaluate_sctp_setadaptation_expression,
  evaluate_sctp_sndrcvinfo_expression, evaluate_sctp_prinfo_expression,
  evaluate_sctp_default_prinfo_expression, evaluate_sctp_authinfo_expression,
  evaluate_sctp_sendv_spa_expression, evaluate_sctp_rcvinfo_expression,
  evaluate_sctp_nxtinfo_expression, evaluate_sctp_recvv_rn_expression,
  evaluate_sctp_assoc_change_expression, evaluate_sctp_paddr_change_expression,
  evaluate_sctp_remote_error_expression, evaluate_sctp_send_failed_expression,
  evaluate_sctp_shutdown_event_expression, evaluate_sctp_adaptation_event_expression,
  evaluate_sctp_pdapi_event_expression, evaluate_sctp_authkey_event_expression,
  evaluate_sctp_sender_dry_event_expression, evaluate_sctp_send_failed_event_expression,
  evaluate_sctp_tlv_expression, evaluate_sctp_extrcvinfo_expression,
  evaluate_sctp_assoc_ids_expression, evaluate_sctp_authchunks_expression,
  evaluate_sctp_setpeerprim_expression, evaluate_sctp_authchunk_expression,
  evaluate_sctp_authkey_expression, evaluate_sctp_reset_streams_expression,
  evaluate_sctp_add_streams_expression, evaluate_sctp_stream_reset_event_expression,
  evaluate_sctp_assoc_reset_event_expression, evaluate_sctp_stream_change_event_expression,
  evaluate_sctp_udpencaps_expression, free_iovec, free_msghdr, free_cmsghdr, free_pollfd,
  free_linger, free_accept_filter_arg, free_sf_hdtr, free_tcp_function_set,
  free_tcp_fastopen, free_sctp_rtoinfo, free_sctp_initmsg, free_sctp_hmacalgo,
  free_sctp_assoc_value, free_sctp_stream_value, free_sctp_authkeyid, free_sctp_sack_info,
  free_sctp_status, free_sctp_paddrinfo, free_sctp_paddrparams, free_sctp_assocparams,
  free_sctp_event, free_sctp_event_subscribe, free_sctp_sndinfo, free_sctp_setprim,
  free_sctp_setadaptation, free_sctp_sndrcvinfo, free_sctp_prinfo,
  free_sctp_default_prinfo, free_sctp_authinfo, free_sctp_sendv_spa, free_sctp_rcvinfo,
  free_sctp_nxtinfo, free_sctp_recvv_rn, free_sctp_assoc_change, free_sctp_paddr_change,
  free_sctp_remote_error, free_sctp_send_failed, free_sctp_shutdown_event,
  free_sctp_adaptation_event, free_sctp_pdapi_event, free_sctp_authkey_event,
  free_sctp_sender_dry_event, free_sctp_send_failed_event, free_sctp_tlv,
  free_sctp_extrcvinfo, free_sctp_assoc_ids, free_sctp_authchunks, free_sctp_setpeerprim,
  free_sctp_authchunk, free_sctp_authkey, free_sctp_reset_streams, free_sctp_add_streams,
  free_sctp_stream_reset_event, free_sctp_assoc_reset_event, free_sctp_stream_change_event,
  free_sctp_udpencaps

(* No case of free_expression frees a member twice. *)
LEMMA FreeRows ==
  /\ Row(free_iovec)
  /\ Row(free_msghdr)
  /\ Row(free_cmsghdr)
  /\ Row(free_pollfd)
  /\ Row(free_linger)
  /\ Row(free_accept_filter_arg)
  /\ Row(free_sf_hdtr)
  /\ Row(free_tcp_function_set)
  /\ Row(free_tcp_fastopen)
  /\ Row(free_sctp_rtoinfo)
  /\ Row(free_sctp_initmsg)
  /\ Row(free_sctp_hmacalgo)
  /\ Row(free_sctp_assoc_value)
  /\ Row(free_sctp_stream_value)
  /\ Row(free_sctp_authkeyid)
  /\ Row(free_sctp_sack_info)
  /\ Row(free_sctp_status)
  /\ Row(free_sctp_paddrinfo)
  /\ Row(free_sctp_paddrparams)
  /\ Row(free_sctp_assocparams)
  /\ Row(free_sctp_event)
  /\ Row(free_sctp_event_subscribe)
  /\ Row(free_sctp_sndinfo)
  /\ Row(free_sctp_setprim)
  /\ Row(free_sctp_setadaptation)
  /\ Row(free_sctp_sndrcvinfo)
  /\ Row(free_sctp_prinfo)
  /\ Row(free_sctp_default_prinfo)
  /\ Row(free_sctp_authinfo)
  /\ Row(free_sctp_sendv_spa)
  /\ Row(free_sctp_rcvinfo)
  /\ Row(free_sctp_nxtinfo)
  /\ Row(free_sctp_recvv_rn)
  /\ Row(free_sctp_assoc_change)
  /\ Row(free_sctp_paddr_change)
  /\ Row(free_sctp_remote_error)
  /\ Row(free_sctp_send_failed)
  /\ Row(free_sctp_shutdown_event)
  /\ Row(free_sctp_adaptation_event)
  /\ Row(free_sctp_pdapi_event)
  /\ Row(free_sctp_authkey_event)
  /\ Row(free_sctp_sender_dry_event)
  /\ Row(free_sctp_send_failed_event)
  /\ Row(free_sctp_tlv)
  /\ Row(free_sctp_extrcvinfo)
  /\ Row(free_sctp_assoc_ids)
  /\ Row(free_sctp_authchunks)
  /\ Row(free_sctp_setpeerprim)
  /\ Row(free_sctp_authchunk)
  /\ Row(free_sctp_authkey)
  /\ Row(free_sctp_reset_streams)
  /\ Row(free_sctp_add_streams)
  /\ Row(free_sctp_stream_reset_event)
  /\ Row(free_sctp_assoc_reset_event)
  /\ Row(free_sctp_stream_change_event)
  /\ Row(free_sctp_udpencaps)
<1>1. Row(free_iovec)
  BY DEF free_iovec, Row, ToSet, IsInjective
<1>2. Row(free_msghdr)
  BY DEF free_msghdr, Row, ToSet, IsInjective
<1>3. Row(free_cmsghdr)
  BY DEF free_cmsghdr, Row, ToSet, IsInjective
<1>4. Row(free_pollfd)
  BY DEF free_pollfd, Row, ToSet, IsInjective
<1>5. Row(free_linger)
  BY DEF free_linger, Row, ToSet, IsInjective
<1>6. Row(free_accept_filter_arg)
  BY DEF free_accept_filter_arg, Row, ToSet, IsInjective
<1>7. Row(free_sf_hdtr)
  BY DEF free_sf_hdtr, Row, ToSet, IsInjective
<1>8. Row(free_tcp_function_set)
  BY DEF free_tcp_function_set, Row, ToSet, IsInjective
<1>9. Row(free_tcp_fastopen)
  BY DEF free_tcp_fastopen, Row, ToSet, IsInjective
<1>10. Row(free_sctp_rtoinfo)
  BY DEF free_sctp_rtoinfo, Row, ToSet, IsInjective
<1>11. Row(free_sctp_initmsg)
  BY DEF free_sctp_initmsg, Row, ToSet, IsInjective
<1>12. Row(free_sctp_hmacalgo)
  BY DEF free_sctp_hmacalgo, Row, ToSet, IsInjective
<1>13. Row(free_sctp_assoc_value)
  BY DEF free_sctp_assoc_value, Row, ToSet, IsInjective
<1>14. Row(free_sctp_stream_value)
  BY DEF free_sctp_stream_value, Row, ToSet, IsInjective
<1>15. Row(free_sctp_authkeyid)
  BY DEF free_sctp_authkeyid, Row, ToSet, IsInjective
<1>16. Row(free_sctp_sack_info)
  BY DEF free_sctp_sack_info, Row, ToSet, IsInjective
<1>17. Row(free_sctp_status)
  BY DEF free_sctp_status, Row, ToSet, IsInjective
<1>18. Row(free_sctp_paddrinfo)
  BY DEF free_sctp_paddrinfo, Row, ToSet, IsInjective
<1>19. Row(free_sctp_paddrparams)
  BY DEF free_sctp_paddrparams, Row, ToSet, IsInjective
<1>20. Row(free_sctp_assocparams)
  BY DEF free_sctp_assocparams, Row, ToSet, IsInjective
<1>21. Row(free_sctp_event)
  BY DEF free_sctp_event, Row, ToSet, IsInjective
<1>22. Row(free_sctp_event_subscribe)
  BY DEF free_sctp_event_subscribe, Row, ToSet, IsInjective
<1>23. Row(free_sctp_sndinfo)
  BY DEF free_sctp_sndinfo, Row, ToSet, IsInjective
<1>24. Row(free_sctp_setprim)
  BY DEF free_sctp_setprim, Row, ToSet, IsInjective
<1>25. Row(free_sctp_setadaptation)
  BY DEF free_sctp_setadaptation, Row, ToSet, IsInjective
<1>26. Row(free_sctp_sndrcvinfo)
  BY DEF free_sctp_sndrcvinfo, Row, ToSet, IsInjective
<1>27. Row(free_sctp_prinfo)
  BY DEF free_sctp_prinfo, Row, ToSet, IsInjective
<1>28. Row(free_sctp_default_prinfo)
  BY DEF free_sctp_default_prinfo, Row, ToSet, IsInjective
<1>29. Row(free_sctp_authinfo)
  BY DEF free_sctp_authinfo, Row, ToSet, IsInjective
<1>30. Row(free_sctp_sendv_spa)
  BY DEF free_sctp_sendv_spa, Row, ToSet, IsInjective
<1>31. Row(free_sctp_rcvinfo)
  BY DEF free_sctp_rcvinfo, Row, ToSet, IsInjective
<1>32. Row(free_sctp_nxtinfo)
  BY DEF free_sctp_nxtinfo, Row, ToSet, IsInjective
<1>33. Row(free_sctp_recvv_rn)
  BY DEF free_sctp_recvv_rn, Row, ToSet, IsInjective
<1>34. Row(free_sctp_assoc_change)
  BY DEF free_sctp_assoc_change, Row, ToSet, IsInjective
<1>35. Row(free_sctp_paddr_change)
  BY DEF free_sctp_paddr_change, Row, ToSet, IsInjective
<1>36. Row(free_sctp_remote_error)
  BY DEF free_sctp_remote_error, Row, ToSet, IsInjective
<1>37. Row(free_sctp_send_failed)
  BY DEF free_sctp_send_failed, Row, ToSet, IsInjective
<1>38. Row(free_sctp_shutdown_event)
  BY DEF free_sctp_shutdown_event, Row, ToSet, IsInjective
<1>39. Row(free_sctp_adaptation_event)
  BY DEF free_sctp_adaptation_event, Row, ToSet, IsInjective
<1>40. Row(free_sctp_pdapi_event)
  BY DEF free_sctp_pdapi_event, Row, ToSet, IsInjective
<1>41. Row(free_sctp_authkey_event)
  BY DEF free_sctp_authkey_event, Row, ToSet, IsInjective
<1>42. Row(free_sctp_sender_dry_event)
  BY DEF free_sctp_sender_dry_event, Row, ToSet, IsInjective
<1>43. Row(free_sctp_send_failed_event)
  BY DEF free_sctp_send_failed_event, Row, ToSet, IsInjective
<1>44. Row(free_sctp_tlv)
  BY DEF free_sctp_tlv, Row, ToSet, IsInjective
<1>45. Row(free_sctp_extrcvinfo)
  BY DEF free_sctp_extrcvinfo, Row, ToSet, IsInjective
<1>46. Row(free_sctp_assoc_ids)
  BY DEF free_sctp_assoc_ids, Row, ToSet, IsInjective
<1>47. Row(free_sctp_authchunks)
  BY DEF free_sctp_authchunks, Row, ToSet, IsInjective
<1>48. Row(free_sctp_setpeerprim)
  BY DEF free_sctp_setpeerprim, Row, ToSet, IsInjective
<1>49. Row(free_sctp_authchunk)
  BY DEF free_sctp_authchunk, Row, ToSet, IsInjective
<1>50. Row(free_sctp_authkey)
  BY DEF free_sctp_authkey, Row, ToSet, IsInjective
<1>51. Row(free_sctp_reset_streams)
  BY DEF free_sctp_reset_streams, Row, ToSet, IsInjective
<1>52. Row(free_sctp_add_streams)
  BY DEF free_sctp_add_streams, Row, ToSet, IsInjective
<1>53. Row(free_sctp_stream_reset_event)
  BY DEF free_sctp_stream_reset_event, Row, ToSet, IsInjective
<1>54. Row(free_sctp_assoc_reset_event)
  BY DEF free_sctp_assoc_reset_event, Row, ToSet, IsInjective
<1>55. Row(free_sctp_stream_change_event)
  BY DEF free_sctp_stream_change_event, Row, ToSet, IsInjective
<1>56. Row(free_sctp_udpencaps)
  BY DEF free_sctp_udpencaps, Row, ToSet, IsInjective
<1>57. QED BY <1>1, <1>2, <1>3, <1>4, <1>5, <1>6, <1>7, <1>8, <1>9, <1>10, <1>11, <1>12, <1>13, <1>14,
  <1>15, <1>16, <1>17, <1>18, <1>19, <1>20, <1>21, <1>22, <1>23, <1>24, <1>25, <1>26,
  <1>27, <1>28, <1>29, <1>30, <1>31, <1>32, <1>33, <1>34, <1>35, <1>36, <1>37, <1>38,
  <1>39, <1>40, <1>41, <1>42, <1>43, <1>44, <1>45, <1>46, <1>47, <1>48, <1>49, <1>50,
  <1>51, <1>52, <1>53, <1>54, <1>55, <1>56

(* ... whatever the struct. *)
LEMMA FreeTable ==
  /\ \A k \in DOMAIN free_expression : Row(free_expression[k])
  /\ "LIST" \notin DOMAIN free_expression
BY FreeRows DEF free_expression

(* evaluate() and free_expression() agree on every struct. *)
LEMMA EvaluateIsFree == evaluate = free_expression
BY SameMembers DEF evaluate, free_expression

(* The nodes below a node lie one step from it, are all different, and free_expression *)
(* frees each of them.                                                                  *)
LEMMA BelowFacts ==
  ASSUME NEW at \in Paths, NEW e
  PROVE  /\ Below(at, e) \in Seq(Paths)
         /\ \A i \in 1 .. Len(Below(at, e)) :
              \E x \in FreedBelow(e.kind) \cap Names : Below(at, e)[i] = Append(at, x)
         /\ \A i, j \in 1 .. Len(Below(at, e)) : Below(at, e)[i] = Below(at, e)[j] => i = j
<1>1. CASE e.kind \in DOMAIN evaluate
  <2> DEFINE row == evaluate[e.kind]
  <2>1. /\ row \in Seq(ToSet(row)) /\ IsInjective(row)
        /\ FreedBelow(e.kind) = ToSet(row) /\ ToSet(row) \subseteq Names
    BY <1>1, FreeTable, EvaluateIsFree DEF Row, FreedBelow, Members, Names
  <2>2. Below(at, e) = [i \in 1 .. Len(row) |-> Append(at, row[i])]
    BY <1>1 DEF Below
  <2>3. \A i \in 1 .. Len(row) : row[i] \in ToSet(row) /\ row[i] \in Names
    BY <2>1
  <2>4. \A i, j \in 1 .. Len(row) : row[i] = row[j] => i = j
    BY <2>1 DEF IsInjective
  <2> HIDE DEF row
  <2>5. Len(row) \in Nat
    BY <2>1
  <2>6. \A i, j \in 1 .. Len(row) : Append(at, row[i]) = Append(at, row[j]) => row[i] = row[j]
    BY <2>3 DEF Paths
  <2>7. \A i \in 1 .. Len(row) : Append(at, row[i]) \in Paths
    BY <2>3 DEF Paths
  <2>8. Below(at, e) \in Seq(Paths) /\ Len(Below(at, e)) = Len(row)
    BY <2>2, <2>5, <2>7
  <2>9. \A i \in 1 .. Len(row) : Below(at, e)[i] = Append(at, row[i])
    BY <2>2
  <2>10. \A i \in 1 .. Len(row) : row[i] \in FreedBelow(e.kind) \cap Names
    BY <2>1, <2>3
  <2>11. QED BY <2>4, <2>6, <2>8, <2>9, <2>10
<1>2. CASE e.kind \notin DOMAIN evaluate /\ e.kind = "LIST"
  <2>1. FreedBelow(e.kind) = {"0", "1"} /\ {"0", "1"} \subseteq Names
    <3>1. e.kind \notin DOMAIN free_expression
      BY <1>2, FreeTable
    <3>2. FreedBelow(e.kind) = {"0", "1"}
      BY <3>1 DEF FreedBelow
    <3>3. \A x \in {"0", "1"} : x \in Names
      BY DEF Names
    <3>4. QED BY <3>2, <3>3
  <2>2. Below(at, e) = <<Append(at, "0"), Append(at, "1")>>
    BY <1>2 DEF Below
  <2>3. Append(at, "0") \in Paths /\ Append(at, "1") \in Paths
    BY <2>1 DEF Paths
  <2>4. Append(at, "0") # Append(at, "1")
    BY <2>1 DEF Paths
  <2>5. QED BY <2>1, <2>2, <2>3, <2>4
<1>3. CASE e.kind \notin DOMAIN evaluate /\ e.kind # "LIST"
  BY <1>3 DEF Below
<1>4. QED BY <1>1, <1>2, <1>3

(* How the path of a node and those of the nodes below it compare with other paths. *)
LEMMA PrefixFacts ==
  ASSUME NEW s \in Paths, NEW t \in Paths, NEW x \in Names, NEW y \in Names
  PROVE  /\ Append(s, x) \in Paths
         /\ IsPrefix(s, s)
         /\ IsPrefix(Append(s, x), t) => IsStrictPrefix(s, t)
         /\ IsPrefix(t, Append(s, x)) => IsPrefix(t, s) \/ t = Append(s, x)
         /\ IsPrefix(s, Append(s, x))
         /\ IsPrefix(Append(s, x), Append(s, y)) => x = y
         /\ IsStrictPrefix(t, Append(s, x)) => t = s \/ IsStrictPrefix(t, s)
         /\ IsStrictPrefix(s, t) => IsPrefix(s, t)
         /\ IsStrictPrefix(s, t) => Append(t, x)[Len(s) + 1] = t[Len(s) + 1]
         /\ Append(s, x)[Len(s) + 1] = x
         /\ ~IsPrefix(Append(s, x), s)
         /\ ~IsStrictPrefix(s, s)
<1> DEFINE sx == Append(s, x)
           sy == Append(s, y)
<1>1. /\ sx \in Paths /\ Len(sx) = Len(s) + 1 /\ sx[Len(s) + 1] = x
      /\ \A i \in 1 .. Len(s) : sx[i] = s[i]
  BY DEF Paths
<1>2. /\ sy \in Paths /\ Len(sy) = Len(s) + 1 /\ sy[Len(s) + 1] = y
      /\ \A i \in 1 .. Len(s) : sy[i] = s[i]
  BY DEF Paths
<1>3. Len(s) \in Nat /\ Len(t) \in Nat
  BY DEF Paths
<1>4. \A u, v \in Paths : Len(u) = Len(v) /\ (\A i \in 1 .. Len(u) : u[i] = v[i]) => u = v
  BY DEF Paths
<1>5. IsStrictPrefix(s, t) => Append(t, x)[Len(s) + 1] = t[Len(s) + 1]
  BY StrictPrefixDef DEF Paths
<1> HIDE DEF sx, sy
<1>6. IsPrefix(sx, t) => IsStrictPrefix(s, t)
  BY <1>1, <1>3, PrefixDef, StrictPrefixDef
<1>7. IsPrefix(t, sx) => IsPrefix(t, s) \/ t = sx
  BY <1>1, <1>3, <1>4, PrefixDef
<1>8. IsPrefix(s, sx) /\ IsPrefix(s, s) /\ ~IsPrefix(sx, s) /\ ~IsStrictPrefix(s, s)
  BY <1>1, <1>3, PrefixDef, StrictPrefixDef
<1>9. IsPrefix(sx, sy) => x = y
  BY <1>1, <1>2, <1>3, PrefixDef
<1>10. IsStrictPrefix(t, sx) => t = s \/ IsStrictPrefix(t, s)
  BY <1>1, <1>3, <1>4, PrefixDef, StrictPrefixDef
<1>11. QED BY <1>1, <1>5, <1>6, <1>7, <1>8, <1>9, <1>10, PrefixDef, StrictPrefixDef, <1>3 DEF sx, sy

(* Visiting the first node of what is left keeps the tree, and leaves the nodes below it. *)
LEMMA VisitNode ==
  ASSUME NEW work, work # <<>>, NEW links, Tree(links), Unvisited(work, links), NEW e
  PROVE  LET at == Head(work)
             node == [at |-> at, kind |-> e.kind] IN
         /\ at \in Paths
         /\ Tree(links \cup {node})
         /\ Unvisited(Below(at, e) \o Tail(work), links \cup {node})
<1> DEFINE at == Head(work)
           node == [at |-> at, kind |-> e.kind]
           all == links \cup {node}
           b == Below(at, e)
           t == Tail(work)
           new == b \o t
<1>1. /\ work \in Seq(Paths) /\ Len(work) \in Nat /\ Len(work) >= 1
      /\ at = work[1] /\ at \in Paths
      /\ t \in Seq(Paths) /\ Len(t) = Len(work) - 1
      /\ \A i \in 1 .. Len(t) : t[i] = work[i + 1] /\ t[i] \in Paths
  BY DEF Unvisited
<1>2. node.at = at /\ node.kind = e.kind
  OBVIOUS
<1>3. /\ b \in Seq(Paths) /\ Len(b) \in Nat
      /\ \A i \in 1 .. Len(b) :
           \E x \in FreedBelow(e.kind) \cap Names : b[i] = Append(at, x)
      /\ \A i, j \in 1 .. Len(b) : b[i] = b[j] => i = j
  <2> HIDE DEF at
  <2>1. /\ b \in Seq(Paths)
        /\ \A i \in 1 .. Len(b) :
             \E x \in FreedBelow(e.kind) \cap Names : b[i] = Append(at, x)
        /\ \A i, j \in 1 .. Len(b) : b[i] = b[j] => i = j
    BY <1>1, BelowFacts, Zenon
  <2> HIDE DEF b
  <2>2. Len(b) \in Nat
    BY <2>1
  <2>3. QED BY <2>1, <2>2
<1>4. /\ new \in Seq(Paths) /\ Len(new) = Len(b) + Len(t)
      /\ \A i \in 1 .. Len(new) : new[i] \in Paths
      /\ \A i \in 1 .. Len(new) : i <= Len(b) => new[i] = b[i]
      /\ \A i \in 1 .. Len(new) : i > Len(b) => new[i] = t[i - Len(b)]
  BY <1>1, <1>3
<1>5. \A i \in 1 .. Len(t) : ~IsPrefix(at, t[i]) /\ ~IsPrefix(t[i], at)
  BY <1>1 DEF Unvisited
<1>6. \A i, j \in 1 .. Len(t) : IsPrefix(t[i], t[j]) => i = j
  BY <1>1 DEF Unvisited
<1>7. \A n \in links : n.at \in Paths /\ ~IsPrefix(at, n.at)
  BY <1>1 DEF Unvisited, Tree
<1>8. \A i \in 1 .. Len(t) : \A n \in links : ~IsPrefix(t[i], n.at)
  BY <1>1 DEF Unvisited
<1>9. \A p \in links : IsStrictPrefix(p.at, at) => at[Len(p.at) + 1] \in FreedBelow(p.kind)
  BY <1>1 DEF Unvisited
<1>10. \A i \in 1 .. Len(t) : \A p \in links :
         IsStrictPrefix(p.at, t[i]) => t[i][Len(p.at) + 1] \in FreedBelow(p.kind)
  BY <1>1 DEF Unvisited
<1>11. \A n, p \in links :
         IsStrictPrefix(p.at, n.at) => n.at[Len(p.at) + 1] \in FreedBelow(p.kind)
  BY DEF Tree
<1>12. \A u, v \in Paths : IsStrictPrefix(u, v) => IsPrefix(u, v)
  BY PrefixFacts DEF IsStrictPrefix
<1> HIDE DEF at, node, b, t, new
<1>13. Tree(all)
  <2>1. \A n \in all : n.at \in Paths
    BY <1>1, <1>2, <1>7
  <2>2. ASSUME NEW n \in all, NEW p \in all, IsStrictPrefix(p.at, n.at)
        PROVE  n.at[Len(p.at) + 1] \in FreedBelow(p.kind)
    <3>1. CASE p = node
      BY <2>2, <3>1, <1>1, <1>2, <1>7, <1>12 DEF IsStrictPrefix
    <3>2. CASE p # node /\ n = node
      BY <2>2, <3>2, <1>2, <1>9
    <3>3. QED BY <2>2, <3>1, <3>2, <1>11
  <2>3. QED BY <2>1, <2>2 DEF Tree
<1>14. ASSUME NEW i \in 1 .. Len(new), NEW j \in 1 .. Len(new), IsPrefix(new[i], new[j])
       PROVE  i = j
  <2>1. CASE i <= Len(b) /\ j <= Len(b)
    <3>1. PICK x \in FreedBelow(e.kind) \cap Names : b[i] = Append(at, x)
      BY <2>1, <1>3
    <3>2. PICK y \in FreedBelow(e.kind) \cap Names : b[j] = Append(at, y)
      BY <2>1, <1>3
    <3>3. IsPrefix(Append(at, x), Append(at, y))
      BY <1>14, <2>1, <3>1, <3>2, <1>1, <1>3, <1>4
    <3>4. x = y
      BY <3>3, <1>1, PrefixFacts
    <3>5. b[i] = b[j] /\ i \in 1 .. Len(b) /\ j \in 1 .. Len(b)
      BY <2>1, <3>1, <3>2, <3>4, <1>1, <1>3, <1>4
    <3>6. QED BY <3>5, <1>3
  <2>2. CASE i <= Len(b) /\ j > Len(b)
    <3>1. PICK x \in FreedBelow(e.kind) \cap Names : b[i] = Append(at, x)
      BY <2>2, <1>3
    <3>2. j - Len(b) \in 1 .. Len(t)
      BY <2>2, <1>3, <1>4, <1>1
    <3>3. IsPrefix(Append(at, x), t[j - Len(b)])
      BY <1>14, <2>2, <3>1, <1>1, <1>3, <1>4
    <3>4. QED BY <3>2, <3>3, <1>1, <1>5, <1>12, PrefixFacts
  <2>3. CASE i > Len(b) /\ j <= Len(b)
    <3>1. PICK x \in FreedBelow(e.kind) \cap Names : b[j] = Append(at, x)
      BY <2>3, <1>3
    <3>2. i - Len(b) \in 1 .. Len(t)
      BY <2>3, <1>3, <1>4, <1>1
    <3>3. IsPrefix(t[i - Len(b)], Append(at, x))
      BY <1>14, <2>3, <3>1, <1>1, <1>3, <1>4
    <3>4. PICK k \in 1 .. Len(t) : k = i - Len(b)
      BY <3>2
    <3>5. t[k] \in Paths /\ at \in Paths /\ IsPrefix(t[k], Append(at, x))
      BY <3>3, <3>4, <1>1
    <3>6. ~IsPrefix(t[k], at) /\ ~IsPrefix(at, t[k])
      BY <1>5
    <3>7. t[k] = Append(at, x)
      BY <3>5, <3>6, PrefixFacts
    <3>8. QED BY <3>5, <3>6, <3>7, PrefixFacts
  <2>4. CASE i > Len(b) /\ j > Len(b)
    <3>1. i - Len(b) \in 1 .. Len(t) /\ j - Len(b) \in 1 .. Len(t)
      BY <2>4, <1>3, <1>4, <1>1
    <3>2. IsPrefix(t[i - Len(b)], t[j - Len(b)])
      BY <1>14, <2>4, <1>1, <1>3, <1>4
    <3>3. i - Len(b) = j - Len(b)
      BY <3>1, <3>2, <1>6
    <3>4. QED BY <3>3, <1>3
  <2>5. QED BY <2>1, <2>2, <2>3, <2>4, <1>1, <1>3, <1>4
<1>15. ASSUME NEW i \in 1 .. Len(new), NEW n \in all PROVE ~IsPrefix(new[i], n.at)
  <2>1. CASE i <= Len(b)
    <3>1. PICK x \in FreedBelow(e.kind) \cap Names : b[i] = Append(at, x)
      BY <2>1, <1>3
    <3>2. ~IsPrefix(Append(at, x), at)
      BY <1>1, PrefixFacts
    <3>3. n # node => ~IsPrefix(Append(at, x), n.at)
      BY <1>1, <1>7, <1>12, PrefixFacts
    <3>4. QED BY <2>1, <3>1, <3>2, <3>3, <1>1, <1>2, <1>3, <1>4
  <2>2. CASE i > Len(b)
    <3>1. i - Len(b) \in 1 .. Len(t)
      BY <2>2, <1>3, <1>4, <1>1
    <3>2. QED BY <2>2, <3>1, <1>1, <1>2, <1>3, <1>4, <1>5, <1>8
  <2>3. QED BY <2>1, <2>2, <1>1, <1>3, <1>4
<1>16. ASSUME NEW i \in 1 .. Len(new), NEW p \in all, IsStrictPrefix(p.at, new[i])
       PROVE  new[i][Len(p.at) + 1] \in FreedBelow(p.kind)
  <2>1. CASE i <= Len(b)
    <3>1. PICK x \in FreedBelow(e.kind) \cap Names : b[i] = Append(at, x)
      BY <2>1, <1>3
    <3>2. new[i] = Append(at, x)
      BY <2>1, <3>1, <1>1, <1>3, <1>4
    <3>3. CASE p = node
      BY <3>2, <3>3, <1>1, <1>2, PrefixFacts
    <3>4. CASE p # node
      <4>1. p.at \in Paths /\ p.at # at
        BY <3>4, <1>1, <1>7, PrefixFacts
      <4>2. IsStrictPrefix(p.at, at)
        BY <1>16, <3>2, <4>1, <1>1, PrefixFacts
      <4>3. Append(at, x)[Len(p.at) + 1] = at[Len(p.at) + 1]
        BY <4>1, <4>2, <1>1, PrefixFacts
      <4>4. QED BY <3>2, <3>4, <4>2, <4>3, <1>9
    <3>5. QED BY <3>3, <3>4
  <2>2. CASE i > Len(b)
    <3>1. i - Len(b) \in 1 .. Len(t)
      BY <2>2, <1>3, <1>4, <1>1
    <3>2. new[i] = t[i - Len(b)]
      BY <2>2, <1>1, <1>3, <1>4
    <3>3. p # node
      BY <1>16, <3>1, <3>2, <1>1, <1>2, <1>5, <1>12
    <3>4. QED BY <1>16, <3>1, <3>2, <3>3, <1>10
  <2>3. QED BY <2>1, <2>2, <1>1, <1>3, <1>4
<1>17. Unvisited(new, all)
  BY <1>4, <1>14, <1>15, <1>16 DEF Unvisited
<1>18. QED BY <1>1, <1>13, <1>17 DEF at, node, b, t, new

(* free_expression_list() on a whole tree frees every node of it, once. *)
LEMMA FreeWhole ==
  ASSUME NEW links, Tree(links), badfree = FALSE, free_expression_list(links, At(links))
  PROVE  badfree' = FALSE /\ heap' = {} /\ linked' = {}
<1>1. ~FreesTwice(links)
  BY FreeTable DEF FreesTwice, Row
<1>2. \A n \in links : IsPrefix(<<>>, n.at)
  <2>1. <<>> \in Paths /\ Len(<<>>) = 0
    BY DEF Paths
  <2>2. \A s \in Paths : Len(s) >= 0
    BY DEF Paths
  <2>3. \A s \in Paths : IsPrefix(<<>>, s)
    BY <2>1, <2>2, PrefixDef
  <2>4. QED BY <2>3 DEF Tree
<1>3. Reached(links, <<>>) = links
  BY <1>2 DEF Reached, Tree
<1>4. QED BY <1>1, <1>3 DEF free_expression_list

(* Which elements of the enclosing lists are dropped depends on their paths only. *)
LEMMA DropWhole ==
  ASSUME NEW links, Tree(links), NEW at
  PROVE  /\ Tree(links \ Dropped(links, at))
         /\ At(links) \ At(Dropped(links, at)) = At(links \ Dropped(links, at))
<1>1. Tree(links \ Dropped(links, at))
  BY DEF Tree
<1>2. \A m, n \in links : m.at = n.at /\ m \in Dropped(links, at) => n \in Dropped(links, at)
  BY DEF Dropped
<1>3. Dropped(links, at) \subseteq links
  BY DEF Dropped
<1>4. QED BY <1>1, <1>2, <1>3 DEF At

(* Nothing has been copied yet, and the argument itself is what is left to visit. *)
LEMMA CopyInit == ArgInit => CopyInv
<1> SUFFICES ASSUME ArgInit PROVE CopyInv
  OBVIOUS
<1>1. Tree(linked) /\ heap = At(linked)
  BY DEF ArgInit, Tree, At
<1>2. << >> \in Paths
  BY DEF Paths
<1>3. todo \in Seq(Paths) /\ Len(todo) = 1
  BY <1>2 DEF ArgInit
<1>4. Unvisited(todo, linked)
  BY <1>3 DEF ArgInit, Unvisited
<1>5. QED BY <1>1, <1>4 DEF ArgInit, CopyInv

(* Every step of evaluate(), of the handler and of free_expression_list() keeps it. *)
LEMMA CopyStep == CopyInv /\ [ArgNext]_argVars => CopyInv'
<1> SUFFICES ASSUME CopyInv, [ArgNext]_argVars PROVE CopyInv'
  OBVIOUS
<1>1. CASE EvaluateNode
  <2> DEFINE at == Head(todo)
  <2>1. /\ phase = "evaluate" /\ todo # <<>> /\ tmp = FALSE /\ tmp' = tmp /\ badfree = FALSE
        /\ Tree(linked) /\ heap = At(linked) /\ Unvisited(todo, linked)
    BY <1>1 DEF EvaluateNode, CopyInv
  <2>2. PICK o \in {odd} \cup {[at |-> at, is |-> e] : e \in
                   IF odd = NoOdd THEN Unusual(SlotOf(at), at) ELSE {}} :
          LET e == IF o.at = at THEN o.is ELSE Usual(SlotOf(at))
              links == linked \cup {[at |-> at, kind |-> e.kind]}
              lost == Dropped(links, at) IN
          /\ odd' = o
          /\ IF Evaluates(e)
             THEN /\ todo' = Below(at, e) \o Tail(todo)
                  /\ linked' = links /\ heap' = heap \cup {at}
                  /\ UNCHANGED <<phase, outcome, badfree>>
             ELSE /\ todo' = <<>> /\ phase' = "done" /\ outcome' = "err_evaluate"
                  /\ free_expression_list(links \ lost, (heap \cup {at}) \ At(lost))
    BY <1>1, Zenon DEF EvaluateNode
  <2> DEFINE e == IF o.at = at THEN o.is ELSE Usual(SlotOf(at))
             links == linked \cup {[at |-> at, kind |-> e.kind]}
             lost == Dropped(links, at)
  <2> HIDE DEF e
  <2>3. /\ Tree(links) /\ Unvisited(Below(at, e) \o Tail(todo), links)
        /\ heap \cup {at} = At(links)
    <3>1. Tree(links) /\ Unvisited(Below(at, e) \o Tail(todo), links)
      BY <2>1, VisitNode
    <3>2. heap \cup {at} = At(links)
      <4>1. [at |-> at, kind |-> e.kind].at = at
        OBVIOUS
      <4> HIDE DEF at
      <4>2. QED BY <2>1, <4>1 DEF At
    <3>3. QED BY <3>1, <3>2
  <2>4. CASE Evaluates(e)
    <3>1. /\ todo' = Below(at, e) \o Tail(todo) /\ linked' = links /\ heap' = heap \cup {at}
          /\ UNCHANGED <<phase, badfree>>
      BY <2>2, <2>4 DEF e
    <3> HIDE DEF links
    <3>2. Tree(linked') /\ Unvisited(todo', linked') /\ heap' = At(linked')
      BY <2>3, <3>1
    <3>3. QED BY <2>1, <3>1, <3>2 DEF CopyInv, Tree, At, Unvisited
  <2>5. CASE ~Evaluates(e)
    <3>1. /\ phase' = "done"
          /\ free_expression_list(links \ lost, (heap \cup {at}) \ At(lost))
      BY <2>2, <2>5 DEF e
    <3> HIDE DEF links
    <3>2. Tree(links \ lost) /\ (heap \cup {at}) \ At(lost) = At(links \ lost)
      BY <2>3, DropWhole
    <3>3. badfree' = FALSE /\ heap' = {} /\ linked' = {}
      BY <2>1, <3>1, <3>2, FreeWhole
    <3>4. QED BY <2>1, <3>1, <3>3 DEF CopyInv, Tree, At
  <2>6. QED BY <2>4, <2>5
<1>2. ASSUME phase' # "evaluate" /\ phase' # "done"
             /\ (phase' \notin {"call", "check"} => tmp' = FALSE),
             UNCHANGED <<linked, heap, badfree>>
      PROVE  CopyInv'
  BY <1>2 DEF CopyInv, Tree, At
<1>3. CASE BeginCall
  BY <1>2, <1>3 DEF BeginCall, CopyInv
<1>4. CASE ReadMember
  BY <1>2, <1>4 DEF ReadMember, CopyInv
<1>5. CASE SetOrSend
  BY <1>2, <1>5 DEF SetOrSend, CopyInv
<1>6. CASE GetAnswered
  BY <1>2, <1>6 DEF GetAnswered, CopyInv
<1>7. CASE CheckMember
  BY <1>2, <1>7 DEF CheckMember, CopyInv
<1>8. CASE EndCheck
  BY <1>2, <1>8 DEF EndCheck, CopyInv
<1>9. CASE FreeArguments
  <2>1. badfree' = FALSE /\ heap' = {} /\ linked' = {} /\ phase' = "done" /\ tmp' = FALSE
    BY <1>9, FreeWhole DEF FreeArguments, CopyInv
  <2>2. QED BY <2>1 DEF CopyInv, Tree, At
<1>10. CASE UNCHANGED argVars
  BY <1>10 DEF CopyInv, argVars, Tree, At, Unvisited
<1>11. QED BY <1>1, <1>3, <1>4, <1>5, <1>6, <1>7, <1>8, <1>9, <1>10 DEF ArgNext

(* The copy of an argument that evaluate() makes of a script's struct is freed whole, and   *)
(* no node of it twice, whether evaluate() fails halfway, the handler fails or all goes well.*)
THEOREM CopyFreedOnce == ArgSpec => []FreedOnce
<1>1. CopyInv => FreedOnce
  BY DEF CopyInv, FreedOnce, At
<1>2. QED BY CopyInit, CopyStep, <1>1, PTL DEF ArgSpec

=============================================================================
