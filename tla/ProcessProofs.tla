--------------------------- MODULE ProcessProofs ---------------------------
(***************************************************************************)
(* Proofs about Process, for every number of processes and every value of  *)
(* its bounds.  The first part proves the inductive invariant IInv of      *)
(* ProcessInv and what follows from it; the second one how a step changes  *)
(* the states of processes, and from it that zombies are reaped by their   *)
(* parents only, that no wake-up is lost, and that no assertion fails.     *)
(***************************************************************************)
EXTENDS ProcessInv, FiniteSetTheorems

----------------------------------------------------------------------------
(* Type correctness *)

\* schedule() is called from, and comes back to, known places of the code.
LEMMA ResumeType == \A l \in DOMAIN Resume : l \in Location /\ Resume[l] \in Location
  BY DEF Resume, Location

\* The wake-ups of do_exit keep all types.
LEMMA WakeWaiterType ==
    ASSUME SchedTypeOK, panic \in BOOLEAN, NEW p \in Proc, WakeWaiter(p)
    PROVE  /\ state' \in [Proc -> ProcState]
           /\ wait_state' \in [Proc -> WaitState]
           /\ run_list' \in Seq(Proc)
           /\ time_slice' \in [Proc -> 0 .. MAX_TIME_SLICE]
           /\ panic' \in BOOLEAN
<1>1. CASE wait_state[p] = "WT_CHILD"
  <2>1. wakeup_proc(p)
    BY <1>1, Zenon DEF WakeWaiter
  <2>2. panic' \in BOOLEAN
    BY <1>1, Zenon DEF WakeWaiter, assert
  <2> QED
    BY <2>1, <2>2, WakeupType
<1>2. CASE wait_state[p] # "WT_CHILD"
  BY <1>2 DEF WakeWaiter, SchedTypeOK
<1> QED
  BY <1>1, <1>2

\* do_fork's new process is well formed.
LEMMA NewProcessType ==
    ASSUME TypeOK, NEW p \in Proc, NEW c \in Proc, NewProcess(p, c),
           NEW l \in Location, NEW m \in Location,
           pc' = [pc EXCEPT ![p] = l, ![c] = m]
    PROVE  TypeOK'
<1>1. /\ run_list' \in Seq(Proc)
      /\ time_slice' \in [Proc -> 0 .. MAX_TIME_SLICE]
  BY EnqueueType DEF NewProcess, TypeOK
<1>2. /\ state' \in [Proc -> ProcState] /\ wait_state' \in [Proc -> WaitState]
  BY DEF NewProcess, TypeOK, SchedTypeOK, ProcState, WaitState
<1>3. /\ parent' \in [Proc -> Proc \cup {NoProc}] /\ nr_process' \in Int
      /\ pc' \in [Proc -> Location]
  <2>1. /\ parent \in [Proc -> Proc \cup {NoProc}] /\ nr_process \in Int
        /\ pc \in [Proc -> Location]
    BY DEF TypeOK
  <2> QED
    BY <2>1 DEF NewProcess
<1>4. panic' \in BOOLEAN
  BY DEF NewProcess, assert
<1> QED
  BY <1>1, <1>2, <1>3, <1>4 DEF NewProcess, TypeOK, SchedTypeOK, TimerListTypeOK, stdinVars

\* Every step keeps the types, given that the parent a dying process looks at
\* is a process.
LEMMA TypeStep == IInv /\ [Next]_vars => TypeOK'
<1> SUFFICES ASSUME IInv, [Next]_vars
             PROVE  TypeOK'
  OBVIOUS
<1> USE DEF At, Goto
<1>a. TypeOK /\ SchedTypeOK /\ timer_list \in Seq(Timer) /\ OneTimerEach
  BY DEF IInv, TypeOK, SchedTypeOK, TimerListTypeOK, Links
<1>1. ASSUME NEW p \in Proc, CallSchedule(p)
      PROVE  TypeOK'
  <2>1. SchedTypeOK'
    BY <1>a, <1>1, ScheduleType DEF CallSchedule
  <2>2. pc' \in [Proc -> Location]
    BY <1>a, <1>1, ResumeType DEF CallSchedule, TypeOK
  <2> QED
    BY <1>a, <1>1, <2>1, <2>2 DEF CallSchedule, TypeOK, stdinVars, assert
<1>2. ASSUME NEW p \in Proc, TrapReturn(p)
      PROVE  TypeOK'
  BY <1>a, <1>2 DEF TrapReturn, TypeOK, SchedTypeOK, TimerListTypeOK, schedVars,
                    stdinVars, Location, Resume
<1>3. ASSUME NEW p \in Proc, Fork(p)
      PROVE  TypeOK'
  BY <1>a, <1>3, NewProcessType DEF Fork, Location
<1>4. ASSUME InitMain
      PROVE  TypeOK'
  <2>1. PICK c \in Proc : /\ NewProcess(initproc, c)
                          /\ pc' = [pc EXCEPT ![initproc] = "scan", ![c] = "user"]
    BY <1>4 DEF InitMain
  <2> QED
    BY <1>a, <2>1, NewProcessType, SchedAssumption DEF Location
<1>5. ASSUME NEW p \in Proc, OtherSyscall(p)
      PROVE  TypeOK'
  BY <1>a, <1>5 DEF OtherSyscall, TypeOK, SchedTypeOK, TimerListTypeOK,
                    stdinVars, Location, Resume
<1>6. ASSUME NEW p \in Proc, SysExit(p) \/ ExitDone(p) \/ WaitWoken(p)
      PROVE  TypeOK'
  BY <1>a, <1>6 DEF SysExit, ExitDone, WaitWoken, TypeOK, SchedTypeOK,
                    TimerListTypeOK, schedVars, stdinVars, Location, Resume
<1>7. ASSUME NEW p \in Proc, SysWait(p)
       PROVE  TypeOK'
  BY <1>a, <1>7 DEF SysWait, TypeOK, SchedTypeOK, TimerListTypeOK, schedVars,
                     stdinVars, Location
<1>8. ASSUME NEW p \in Proc, SysRead(p)
       PROVE  TypeOK'
  BY <1>a, <1>8, ProcessAssumption
     DEF SysRead, TypeOK, SchedTypeOK, TimerListTypeOK, schedVars, Location
<1>9. ASSUME NEW p \in Proc, Exit(p)
      PROVE  TypeOK'
  BY <1>a, <1>9 DEF Exit, TypeOK, SchedTypeOK, TimerListTypeOK, stdinVars,
                    Location, ProcState, assert
<1>10. ASSUME NEW p \in Proc, WaitSleep(p)
       PROVE  TypeOK'
  BY <1>a, <1>10 DEF WaitSleep, TypeOK, SchedTypeOK, TimerListTypeOK, stdinVars,
                     Location, Resume, ProcState, WaitState
<1>11. ASSUME NEW p \in Proc, ExitNotify(p)
      PROVE  TypeOK'
  <2>1. parent[p] \in Proc
    <3>1. p # idleproc /\ Live(p)
      BY <1>11, SchedAssumption DEF IInv, Places, Placed, ExitNotify, Live
    <3> QED
      BY <3>1 DEF IInv, Family
  <2>2. WakeWaiter(parent[p]) /\ panic \in BOOLEAN
    BY <1>a, <1>11 DEF ExitNotify, TypeOK
  <2>3. /\ state' \in [Proc -> ProcState] /\ wait_state' \in [Proc -> WaitState]
        /\ run_list' \in Seq(Proc)
        /\ time_slice' \in [Proc -> 0 .. MAX_TIME_SLICE]
        /\ panic' \in BOOLEAN
    BY <1>a, <2>1, <2>2, WakeWaiterType
  <2> QED
    BY <1>a, <1>11, <2>3 DEF ExitNotify, TypeOK, SchedTypeOK, TimerListTypeOK,
                            stdinVars, Location, Resume
<1>12. ASSUME NEW p \in Proc, ExitReparent(p)
      PROVE  TypeOK'
  <2>1. PICK c \in Children(p) :
           /\ parent' = [parent EXCEPT ![c] = initproc]
           /\ IF state[c] = "PROC_ZOMBIE"
              THEN WakeWaiter(initproc)
              ELSE UNCHANGED <<state, wait_state, run_list, time_slice, panic>>
    BY <1>12, Zenon DEF ExitReparent
  <2>2. /\ state' \in [Proc -> ProcState] /\ wait_state' \in [Proc -> WaitState]
        /\ run_list' \in Seq(Proc)
        /\ time_slice' \in [Proc -> 0 .. MAX_TIME_SLICE]
        /\ panic' \in BOOLEAN
    <3>1. CASE state[c] = "PROC_ZOMBIE"
      <4>1. WakeWaiter(initproc) /\ initproc \in Proc /\ panic \in BOOLEAN
        BY <1>a, <2>1, <3>1, SchedAssumption, Zenon DEF TypeOK
      <4> QED
        BY <1>a, <4>1, WakeWaiterType
    <3>2. CASE state[c] # "PROC_ZOMBIE"
      BY <1>a, <2>1, <3>2 DEF TypeOK, SchedTypeOK
    <3> QED
      BY <3>1, <3>2
  <2>3. parent' \in [Proc -> Proc \cup {NoProc}]
    BY <1>a, <2>1, SchedAssumption DEF TypeOK, Children
  <2> QED
    BY <1>a, <1>12, <2>2, <2>3 DEF ExitReparent, TypeOK, SchedTypeOK,
                                  TimerListTypeOK, stdinVars
<1>14. ASSUME NEW p \in Proc, WaitReap(p)
       PROVE  TypeOK'
  <2>1. PICK z \in ZombieCandidates(p) :
           /\ pc' = [pc EXCEPT ![p] = AfterReap(p), ![z] = "none"]
           /\ state' = [state EXCEPT ![z] = "PROC_UNUSED"]
           /\ need_resched' = [need_resched EXCEPT ![z] = FALSE]
           /\ time_slice' = [time_slice EXCEPT ![z] = 0]
           /\ parent' = [parent EXCEPT ![z] = NoProc]
           /\ exiting' = [exiting EXCEPT ![z] = FALSE]
           /\ waited' = [waited EXCEPT ![z] = idleproc]
           /\ wanted' = [wanted EXCEPT ![z] = 0]
           /\ wakeup_flags' = [wakeup_flags EXCEPT ![z] = "WT_INTERRUPTED"]
           /\ assert(z \notin {idleproc, initproc})
    BY <1>14 DEF WaitReap
  <2>2. /\ state' \in [Proc -> ProcState]
        /\ need_resched' \in [Proc -> BOOLEAN]
        /\ time_slice' \in [Proc -> 0 .. MAX_TIME_SLICE]
    <3>1. /\ state \in [Proc -> ProcState]
          /\ need_resched \in [Proc -> BOOLEAN]
          /\ time_slice \in [Proc -> 0 .. MAX_TIME_SLICE]
          /\ 0 \in 0 .. MAX_TIME_SLICE
      BY <1>a, SchedAssumption DEF SchedTypeOK
    <3> QED
      BY <2>1, <3>1 DEF ProcState
  <2>3. /\ pc' \in [Proc -> Location]
        /\ parent' \in [Proc -> Proc \cup {NoProc}]
        /\ exiting' \in [Proc -> BOOLEAN]
        /\ waited' \in [Proc -> Proc]
    BY <1>a, <2>1, SchedAssumption DEF TypeOK, Location, Resume, AfterReap
  <2>4. /\ wanted' \in [Proc -> 0 .. MaxRead]
        /\ wakeup_flags' \in [Proc -> {"WT_INTERRUPTED", "WT_KBD"}]
        /\ panic' \in BOOLEAN
    <3>1. /\ wanted \in [Proc -> 0 .. MaxRead] /\ 0 \in 0 .. MaxRead
          /\ wakeup_flags \in [Proc -> {"WT_INTERRUPTED", "WT_KBD"}]
      BY <1>a, ProcessAssumption DEF TypeOK
    <3> QED
      BY <2>1, <3>1 DEF assert
  <2>5. nr_process' \in Int
    BY <1>a, <1>14 DEF WaitReap, TypeOK
  <2> QED
    BY <1>a, <1>14, <2>2, <2>3, <2>4, <2>5, Zenon
       DEF WaitReap, TypeOK, SchedTypeOK, TimerListTypeOK
<1>15. ASSUME NEW p \in Proc, WaitNoChild(p)
       PROVE  TypeOK'
  BY <1>a, <1>15 DEF WaitNoChild, TypeOK, SchedTypeOK, TimerListTypeOK,
                     schedVars, stdinVars, Location, Resume, AfterNoChild, assert
<1>16. ASSUME NEW p \in Proc, SysKill(p)
       PROVE  TypeOK'
  <2>1. PICK q \in Killable :
           /\ exiting' = [exiting EXCEPT ![q] = TRUE]
           /\ IF Interruptible(wait_state[q])
              THEN wakeup_proc(q) /\ assert(WakeupOK(q))
              ELSE UNCHANGED <<state, wait_state, run_list, time_slice, panic>>
    BY <1>16, Zenon DEF SysKill
  <2>2. q \in Proc
    BY ProcessAssumption
  <2>3. /\ state' \in [Proc -> ProcState] /\ wait_state' \in [Proc -> WaitState]
        /\ run_list' \in Seq(Proc)
        /\ time_slice' \in [Proc -> 0 .. MAX_TIME_SLICE]
        /\ panic' \in BOOLEAN
    <3>1. CASE Interruptible(wait_state[q])
      <4>1. wakeup_proc(q) /\ panic' \in BOOLEAN
        BY <2>1, <3>1, Zenon DEF assert
      <4> QED
        BY <1>a, <2>2, <4>1, WakeupType
    <3>2. CASE ~ Interruptible(wait_state[q])
      BY <1>a, <2>1, <3>2 DEF TypeOK, SchedTypeOK
    <3> QED
      BY <3>1, <3>2
  <2> QED
    BY <1>a, <1>16, <2>1, <2>2, <2>3
       DEF SysKill, TypeOK, SchedTypeOK, TimerListTypeOK, stdinVars, Location,
           Resume
<1>17. ASSUME NEW p \in Proc, SysSleep(p)
       PROVE  TypeOK'
  <2>1. timer_list' \in Seq(Timer)
    <3>1. PICK time \in 1 .. MaxSleep : add_timer(p, time)
      BY <1>17 DEF SysSleep
    <3>2. time \in Nat
      BY ProcessAssumption
    <3> QED
      BY <1>a, <3>1, <3>2, AddTimer
  <2> QED
    BY <1>a, <1>17, <2>1
       DEF SysSleep, TypeOK, SchedTypeOK, TimerListTypeOK, stdinVars, Location,
           Resume, ProcState, WaitState
<1>18. ASSUME NEW p \in Proc, SleepReturn(p)
       PROVE  TypeOK'
  <2>1. timer_list' \in Seq(Timer)
    BY <1>a, <1>18, DelTimerOwners DEF SleepReturn
  <2> QED
    BY <1>a, <1>18, <2>1
       DEF SleepReturn, TypeOK, SchedTypeOK, TimerListTypeOK, stdinVars, Location,
           Resume
<1>19. ASSUME NEW p \in Proc, ReadLoop(p)
       PROVE  TypeOK'
  <2>1. PICK n \in 0 .. wanted[p] :
           /\ n <= buffered
           /\ buffered' = buffered - n
           /\ wanted' = [wanted EXCEPT ![p] = @ - n]
    BY <1>19 DEF ReadLoop
  <2>2. wanted[p] \in 0 .. MaxRead /\ buffered \in 0 .. STDIN_BUFSIZE
    BY <1>a DEF TypeOK
  <2>3. /\ wanted' \in [Proc -> 0 .. MaxRead]
        /\ buffered' \in 0 .. STDIN_BUFSIZE
    <3>1. wanted[p] - n \in 0 .. MaxRead /\ buffered - n \in 0 .. STDIN_BUFSIZE
      BY <2>1, <2>2, ProcessAssumption
    <3>2. wanted \in [Proc -> 0 .. MaxRead]
      BY <1>a DEF TypeOK
    <3> QED
      BY <2>1, <3>1, <3>2
  <2>4. /\ pc' \in [Proc -> Location] /\ state' \in [Proc -> ProcState]
        /\ wait_state' \in [Proc -> WaitState]
        /\ kbd_queue' \in Seq(Proc)
        /\ wakeup_flags' \in [Proc -> {"WT_INTERRUPTED", "WT_KBD"}]
    <3>1. /\ pc \in [Proc -> Location] /\ state \in [Proc -> ProcState]
          /\ wait_state \in [Proc -> WaitState]
          /\ kbd_queue \in Seq(Proc)
          /\ wakeup_flags \in [Proc -> {"WT_INTERRUPTED", "WT_KBD"}]
      BY <1>a DEF TypeOK, SchedTypeOK
    <3>2. \/ /\ pc' = [pc EXCEPT ![p] = "trapret"]
             /\ UNCHANGED <<state, wait_state, kbd_queue, wakeup_flags>>
          \/ /\ pc' = [pc EXCEPT ![p] = "read"]
             /\ state' = [state EXCEPT ![p] = "PROC_SLEEPING"]
             /\ wait_state' = [wait_state EXCEPT ![p] = "WT_KBD"]
             /\ kbd_queue' = Append(kbd_queue, p)
             /\ wakeup_flags' = [wakeup_flags EXCEPT ![p] = "WT_INTERRUPTED"]
      BY <1>19 DEF ReadLoop
    <3>3. Append(kbd_queue, p) \in Seq(Proc)
      BY <3>1
    <3>4. "trapret" \in Location /\ "read" \in Location
      BY DEF Location, Resume
    <3>5. /\ "PROC_SLEEPING" \in ProcState /\ "WT_KBD" \in WaitState
          /\ "WT_INTERRUPTED" \in {"WT_INTERRUPTED", "WT_KBD"}
      BY DEF ProcState, WaitState
    <3>6. pc' \in [Proc -> Location]
      BY <3>1, <3>2, <3>4
    <3>7. kbd_queue' \in Seq(Proc)
      BY <3>1, <3>2, <3>3
    <3> QED
      BY <3>1, <3>2, <3>5, <3>6, <3>7
  <2> QED
    BY <1>a, <1>19, <2>3, <2>4 DEF ReadLoop, TypeOK, SchedTypeOK, TimerListTypeOK
<1>20. ASSUME NEW p \in Proc, ReadWoken(p)
       PROVE  TypeOK'
  <2>1. kbd_queue' \in Seq(Proc)
    <3>1. kbd_queue \in Seq(Proc) /\ IsInjective(kbd_queue)
      BY <1>a DEF TypeOK, IInv, Links
    <3>2. CASE Waiting(p)
      <4>1. PICK i \in DOMAIN kbd_queue : kbd_queue' = RemoveAt(kbd_queue, i)
        BY <1>20, <3>2 DEF ReadWoken
      <4> QED
        BY <3>1, <4>1, RemoveAtSet
    <3>3. CASE ~ Waiting(p)
      BY <1>20, <3>1, <3>3 DEF ReadWoken
    <3> QED
      BY <3>2, <3>3
  <2>2. pc' \in [Proc -> Location]
    BY <1>a, <1>20 DEF ReadWoken, TypeOK, Location, Resume
  <2> QED
    BY <1>a, <1>20, <2>1, <2>2
       DEF ReadWoken, TypeOK, SchedTypeOK, TimerListTypeOK, schedVars
<1>21. ASSUME IrqTimer
       PROVE  TypeOK'
  <2>1. timer_list' \in Seq(Timer)
    BY <1>a, <1>21, DecrementHeadOwners DEF IrqTimer
  <2> QED
    BY <1>a, <1>21, <2>1 DEF IrqTimer, TypeOK, SchedTypeOK, TimerListTypeOK,
                             procVars, stdinVars, assert
<1>22. ASSUME IrqExpire
       PROVE  TypeOK'
  <2> DEFINE p == timer_list[1].proc
  <2>1. p \in Proc
    <3>1. timer_list[1] \in Timer
      BY <1>a, <1>22 DEF IrqExpire, HeadExpired
    <3> QED
      BY <3>1 DEF Timer
  <2>2. wakeup_proc(p) /\ del_timer(p) /\ panic' \in BOOLEAN
    BY <1>22 DEF IrqExpire, assert
  <2> HIDE DEF p
  <2>3. /\ state' \in [Proc -> ProcState] /\ wait_state' \in [Proc -> WaitState]
        /\ run_list' \in Seq(Proc)
        /\ time_slice' \in [Proc -> 0 .. MAX_TIME_SLICE]
    BY <1>a, <2>1, <2>2, WakeupType
  <2>4. timer_list' \in Seq(Timer)
    BY <1>a, <2>1, <2>2, DelTimerOwners
  <2> QED
    BY <1>a, <1>22, <2>2, <2>3, <2>4
       DEF IrqExpire, TypeOK, SchedTypeOK, TimerListTypeOK, procVars, stdinVars
<1>23. ASSUME IrqTick
       PROVE  TypeOK'
  BY <1>a, <1>23, ProcTickType DEF IrqTick, TypeOK, SchedTypeOK, TimerListTypeOK,
                                   procVars, stdinVars
<1>24. ASSUME IrqChar
       PROVE  TypeOK'
  <2>1. buffered' \in 0 .. STDIN_BUFSIZE
    <3>1. buffered \in 0 .. STDIN_BUFSIZE
      BY <1>a DEF TypeOK
    <3> QED
      BY <1>24, <3>1, ProcessAssumption DEF IrqChar
  <2> QED
    BY <1>a, <1>24, <2>1 DEF IrqChar, TypeOK, SchedTypeOK, TimerListTypeOK,
                             schedVars, procVars
<1>25. ASSUME IrqWake
       PROVE  TypeOK'
  <2>1. /\ kbd_queue \in Seq(Proc) /\ kbd_queue # << >>
        /\ IsInjective(kbd_queue)
    BY <1>a, <1>25 DEF IrqWake, TypeOK, IInv, Links
  <2> DEFINE p == Head(kbd_queue)
  <2>2. p \in Proc /\ kbd_queue' \in Seq(Proc)
    BY <1>25, <2>1, HeadTailProperties DEF IrqWake
  <2>3. wakeup_proc(p) /\ panic' \in BOOLEAN
    BY <1>25 DEF IrqWake, assert
  <2>4. wakeup_flags' \in [Proc -> {"WT_INTERRUPTED", "WT_KBD"}]
    BY <1>a, <1>25, <2>2 DEF IrqWake, TypeOK
  <2> HIDE DEF p
  <2>5. /\ state' \in [Proc -> ProcState] /\ wait_state' \in [Proc -> WaitState]
        /\ run_list' \in Seq(Proc)
        /\ time_slice' \in [Proc -> 0 .. MAX_TIME_SLICE]
    BY <1>a, <2>2, <2>3, WakeupType
  <2> QED
    BY <1>a, <1>25, <2>2, <2>3, <2>4, <2>5
       DEF IrqWake, TypeOK, SchedTypeOK, TimerListTypeOK, procVars
<1>26. ASSUME IrqReturn
       PROVE  TypeOK'
  BY <1>a, <1>26 DEF IrqReturn, TypeOK, SchedTypeOK, TimerListTypeOK, schedVars,
                     stdinVars, Location, Resume
<1>27. ASSUME UNCHANGED vars
       PROVE  TypeOK'
  BY <1>a, <1>27 DEF vars, TypeOK, SchedTypeOK, TimerListTypeOK, schedVars,
                     procVars, stdinVars
<1> QED
  BY <1>1, <1>2, <1>3, <1>4, <1>5, <1>6, <1>9, <1>11, <1>12, <1>14, <1>15,
     <1>16, <1>17, <1>18, <1>19, <1>20, <1>21, <1>22, <1>23, <1>24, <1>25,
     <1>26, <1>27, <1>7, <1>8, <1>10, Zenon
     DEF Next, Syscall, Kernel, Irq, Halted

----------------------------------------------------------------------------
(* The parts of the invariant *)

\* The places schedule() is called from, each with the one it comes back to.
LEMMA ResumeValues ==
    \A l \in DOMAIN Resume :
        \/ l = "preempt" /\ Resume[l] = "user"
        \/ l = "wait" /\ Resume[l] = "woken"
        \/ l = "sleep" /\ Resume[l] = "slept"
        \/ l = "read" /\ Resume[l] = "kbd"
        \/ l = "loop" /\ Resume[l] = "scan"
        \/ l = "idle" /\ Resume[l] = "idle"
        \/ l = "dead" /\ Resume[l] = "returned"
  BY DEF Resume

\* What IInv says of the pieces of state the steps below look at.
LEMMA Basics ==
    ASSUME IInv
    PROVE  /\ SchedTypeOK /\ TypeOK /\ RunQueueExact /\ Places /\ Links /\ Family
           /\ current \in Proc
           /\ state \in [Proc -> ProcState] /\ wait_state \in [Proc -> WaitState]
           /\ pc \in [Proc -> Location]
           /\ parent \in [Proc -> Proc \cup {NoProc}]
           /\ exiting \in [Proc -> BOOLEAN]
           /\ timer_list \in Seq(Timer) /\ OneTimerEach
           /\ kbd_queue \in Seq(Proc) /\ IsInjective(kbd_queue)
           /\ run_list \in Seq(Proc)
           /\ state[idleproc] = "PROC_RUNNABLE" /\ pc[idleproc] = "idle"
  BY DEF IInv, TypeOK, SchedTypeOK, TimerListTypeOK, Links, Places

\* A list that does not change has the same members.
LEMMA SameLists ==
    /\ UNCHANGED timer_list => /\ \A p : Armed(p)' <=> Armed(p)
                               /\ OneTimerEach' <=> OneTimerEach
    /\ UNCHANGED kbd_queue => \A p : Waiting(p)' <=> Waiting(p)
  BY DEF Armed, Waiting, OneTimerEach

\* A process that is dying has a parent.
LEMMA ParentType ==
    ASSUME IInv, NEW p \in Proc, pc[p] \notin {"idle", "none"}
    PROVE  p # idleproc /\ Live(p) /\ parent[p] \in Proc /\ Live(parent[p])
<1>1. p # idleproc /\ Live(p)
  BY Basics DEF Places, Placed, Live
<1> QED
  BY <1>1, Basics DEF Family

\* wait_current_del takes just p out of the queue, if it is in it.
LEMMA ReadWokenQueue ==
    ASSUME IInv, NEW p \in Proc, ReadWoken(p)
    PROVE  /\ IsInjective(kbd_queue')
           /\ \A q : Waiting(q)' <=> Waiting(q) /\ q # p
<1>1. kbd_queue \in Seq(Proc) /\ IsInjective(kbd_queue)
  BY Basics
<1>2. CASE Waiting(p)
  <2>1. PICK i \in DOMAIN kbd_queue :
            kbd_queue[i] = p /\ kbd_queue' = RemoveAt(kbd_queue, i)
    BY <1>2 DEF ReadWoken
  <2> QED
    BY <1>1, <2>1, RemoveAtSet DEF Waiting
<1>3. CASE ~ Waiting(p)
  <2>1. UNCHANGED kbd_queue
    BY <1>3 DEF ReadWoken
  <2> QED
    BY <1>1, <1>3, <2>1 DEF Waiting
<1> QED
  BY <1>2, <1>3

\* wakeup_queue takes the first waiter out.
LEMMA IrqWakeQueue ==
    ASSUME IInv, IrqWake
    PROVE  /\ Head(kbd_queue) \in Proc /\ Waiting(Head(kbd_queue))
           /\ IsInjective(kbd_queue')
           /\ \A q : Waiting(q)' <=> Waiting(q) /\ q # Head(kbd_queue)
<1>1. /\ kbd_queue \in Seq(Proc) /\ kbd_queue # << >> /\ IsInjective(kbd_queue)
      /\ kbd_queue' = Tail(kbd_queue)
  BY Basics DEF IrqWake
<1>2. Head(kbd_queue) \in Proc
  BY <1>1, HeadTailProperties
<1> QED
  BY <1>1, <1>2, TailSet DEF Waiting

\* do_sleep arms a timer for a process that has none.
LEMMA SysSleepTimers ==
    ASSUME IInv, NEW p \in Proc, SysSleep(p)
    PROVE  /\ OneTimerEach'
           /\ \A q : Armed(q)' <=> Armed(q) \/ q = p
<1>1. PICK time \in 1 .. MaxSleep : add_timer(p, time)
  BY DEF SysSleep
<1>2. time \in Nat /\ ~ Armed(p)
  <2>1. Links /\ MaxSleep \in Nat
    BY Basics, ProcessAssumption
  <2>2. pc[p] = "user"
    BY DEF SysSleep, At
  <2> QED
    BY <2>1, <2>2 DEF Links
<1>3. timer_list \in Seq(Timer) /\ OneTimerEach
  BY Basics
<1> QED
  BY <1>1, <1>2, <1>3, AddTimerOwners

\* A step that wakes p and takes the current process from "user" or "notify"
\* on to l, or leaves it where it is.
LEMMA WakePlaces ==
    ASSUME IInv, Running, NEW p \in Proc,
           state[p] \notin {"PROC_ZOMBIE", "PROC_UNUSED"},
           state' = [state EXCEPT ![p] = "PROC_RUNNABLE"],
           wait_state' = [wait_state EXCEPT ![p] = "0"],
           UNCHANGED current,
           \A q \in Proc \ {p} : /\ Armed(q) => Armed(q)'
                                 /\ Waiting(q) => Waiting(q)',
           NEW l, pc' = [pc EXCEPT ![current] = l],
           \/ l = pc[current]
           \/ l = "trapret" /\ pc[current] = "user"
           \/ l = "reparent" /\ pc[current] = "notify"
    PROVE  Places'
<1>1. /\ current \in Proc
      /\ state \in [Proc -> ProcState] /\ wait_state \in [Proc -> WaitState]
      /\ pc \in [Proc -> Location]
      /\ Places /\ \A q \in Proc : Placed(q)
  BY Basics DEF Places
<1>2. ASSUME NEW q \in Proc
      PROVE  Placed(q)'
  <2>1. CASE q = p
    BY <1>1, <2>1 DEF Placed, Parked, Dead, Places
  <2>2. CASE q # p
    <3>1. state'[q] = state[q] /\ wait_state'[q] = wait_state[q]
      BY <1>1, <2>2
    <3>2. \/ pc'[q] = pc[q]
          \/ q = current /\ pc'[q] = "trapret" /\ pc[q] = "user"
          \/ q = current /\ pc'[q] = "reparent" /\ pc[q] = "notify"
      BY <1>1
    <3>3. Asleep(q) => Asleep(q)'
      BY <2>2, <3>1, <3>2 DEF Asleep
    <3> QED
      BY <1>1, <3>1, <3>2, <3>3 DEF Placed, Dead
  <2> QED
    BY <2>1, <2>2
<1>3. /\ pc'[current] \notin {"none", "returned"}
      /\ state'[current] = "PROC_SLEEPING" => pc'[current] \in {"wait", "sleep", "read"}
  BY <1>1 DEF Places, Placed, Asleep
<1>4. pc'[idleproc] = "idle" /\ state'[idleproc] = "PROC_RUNNABLE"
  BY <1>1, SchedAssumption DEF Places
<1>5. pc'[initproc] \in {"start", "scan", "wait", "woken", "loop", "halt", "exit"}
  BY <1>1, SchedAssumption DEF Places, Running
<1> QED
  BY <1>2, <1>3, <1>4, <1>5 DEF Places

\* A step that takes the current process, which is running, from one place in
\* the kernel to another.
LEMMA MovePlaces ==
    ASSUME IInv, Running, NEW p \in Proc, p = current,
           UNCHANGED <<current, state, wait_state>>,
           \A q \in Proc \ {p} : /\ Armed(q) => Armed(q)'
                                 /\ Waiting(q) => Waiting(q)',
           pc[p] \in {"user", "trapret", "scan", "woken", "slept", "reading",
                      "kbd"},
           NEW l, pc' = [pc EXCEPT ![p] = l],
           l \in {"user", "trapret", "preempt", "exit", "scan", "reading",
                  "loop", "halt"},
           p = initproc => l \in {"scan", "loop", "halt", "exit"}
    PROVE  Places'
<1>1. /\ state \in [Proc -> ProcState] /\ wait_state \in [Proc -> WaitState]
      /\ pc \in [Proc -> Location]
      /\ Places /\ \A q \in Proc : Placed(q)
  BY Basics DEF Places
<1>2. pc'[p] = l /\ \A q \in Proc \ {p} : pc'[q] = pc[q]
  BY <1>1
<1>3. state[p] = "PROC_RUNNABLE"
  BY <1>1 DEF Places, Placed, Dead, ProcState
<1>4. ASSUME NEW q \in Proc
      PROVE  Placed(q)'
  <2>1. CASE q = p
    BY <1>1, <1>2, <1>3, <2>1 DEF Placed, Dead
  <2>2. CASE q # p
    <3>1. Asleep(q) => Asleep(q)'
      BY <1>2, <2>2 DEF Asleep
    <3> QED
      BY <1>1, <1>2, <2>2, <3>1 DEF Placed
  <2> QED
    BY <2>1, <2>2
<1>5. pc'[idleproc] = "idle" /\ state'[idleproc] = "PROC_RUNNABLE"
  BY <1>1, <1>2, SchedAssumption DEF Places
<1>6. pc'[initproc] \in {"start", "scan", "wait", "woken", "loop", "halt", "exit"}
  BY <1>1, <1>2, SchedAssumption DEF Places, Running
<1> QED
  BY <1>2, <1>3, <1>4, <1>5, <1>6 DEF Places

\* No step takes a process to a place that does not go with its state: only
\* do_wait, do_sleep and dev_stdin_read put one to sleep, only do_exit makes
\* a zombie, and only a process that has called schedule() is off the CPU.
LEMMA PlacesStep == IInv /\ [Next]_vars => Places'
<1> SUFFICES ASSUME IInv, [Next]_vars
             PROVE  Places'
  OBVIOUS
<1> USE DEF At, Goto
<1>a. /\ current \in Proc
      /\ state \in [Proc -> ProcState] /\ wait_state \in [Proc -> WaitState]
      /\ pc \in [Proc -> Location]
      /\ exiting \in [Proc -> BOOLEAN]
      /\ Places /\ \A q \in Proc : Placed(q)
  BY Basics DEF Places
<1>1. ASSUME NEW p \in Proc, CallSchedule(p)
      PROVE  Places'
  <2>1. /\ state[current'] = "PROC_RUNNABLE" /\ current' \in Proc
        /\ UNCHANGED <<state, wait_state, timer_list, kbd_queue>>
    BY <1>1, Basics, ScheduleQueue DEF CallSchedule, schedule, stdinVars
  <2>2. PICK l \in DOMAIN Resume : /\ Running /\ current = p /\ pc[p] = l
                                   /\ pc' = [pc EXCEPT ![p] = Resume[l]]
    BY <1>1 DEF CallSchedule
  <2>3. \/ pc[p] = "preempt" /\ pc'[p] = "user"
        \/ pc[p] = "wait" /\ pc'[p] = "woken"
        \/ pc[p] = "sleep" /\ pc'[p] = "slept"
        \/ pc[p] = "read" /\ pc'[p] = "kbd"
        \/ pc[p] = "loop" /\ pc'[p] = "scan"
        \/ pc[p] = "idle" /\ pc'[p] = "idle"
        \/ pc[p] = "dead" /\ pc'[p] = "returned"
    BY <1>a, <2>2, ResumeValues
  <2>4. \A q \in Proc : q # p => pc'[q] = pc[q]
    BY <1>a, <2>2
  <2>5. ASSUME NEW q \in Proc
        PROVE  Placed(q)'
    <3>1. Asleep(q) => Asleep(q)'
      BY <2>1, <2>3, <2>4, SameLists DEF Asleep
    <3>2. pc'[q] \in Parked
      BY <1>a, <2>2, <2>3, <2>4 DEF Placed, Parked
    <3> QED
      BY <1>a, <2>1, <2>3, <2>4, <3>1, <3>2 DEF Placed, Dead
  <2>6. pc'[current'] \notin {"none", "returned"}
    BY <2>1, <2>5 DEF Placed, Dead
  <2>7. pc'[idleproc] = "idle" /\ state'[idleproc] = "PROC_RUNNABLE"
    BY <1>a, <2>1, <2>3, <2>4, SchedAssumption DEF Places
  <2>8. pc'[initproc] \in {"start", "scan", "wait", "woken", "loop", "halt", "exit"}
    BY <1>a, <2>2, <2>3, <2>4, SchedAssumption DEF Places, Running
  <2> QED
    BY <2>1, <2>5, <2>6, <2>7, <2>8 DEF Places
<1>2. ASSUME NEW p \in Proc, NEW c \in Proc, NewProcess(p, c), Running,
             current = p, NEW l,
             \/ pc[p] = "user" /\ l = "trapret"
             \/ pc[p] = "start" /\ l = "scan",
             pc' = [pc EXCEPT ![p] = l, ![c] = "user"]
      PROVE  Places'
  <2>1. /\ state[c] = "PROC_UNUSED" /\ UNCHANGED <<current, timer_list, kbd_queue>>
        /\ state' = [state EXCEPT ![c] = "PROC_RUNNABLE"]
        /\ wait_state' = [wait_state EXCEPT ![p] = "0"]
    BY <1>2 DEF NewProcess, Live, stdinVars
  <2>2. c # p /\ c # idleproc /\ c # initproc
    BY <1>a, <1>2, <2>1 DEF Places, Placed, Running
  <2>3. ASSUME NEW q \in Proc
        PROVE  Placed(q)'
    <3>1. CASE q = c
      BY <1>a, <1>2, <2>1, <2>2, <3>1 DEF Placed, Dead, Parked
    <3>2. CASE q = p
      BY <1>a, <1>2, <2>1, <2>2, <3>2 DEF Placed, Dead, Asleep
    <3>3. CASE q # p /\ q # c
      <4>1. /\ pc'[q] = pc[q] /\ state'[q] = state[q]
            /\ wait_state'[q] = wait_state[q]
        BY <1>a, <1>2, <2>1, <3>3
      <4>2. Asleep(q) => Asleep(q)'
        BY <2>1, <4>1, SameLists DEF Asleep
      <4> QED
        BY <1>a, <2>1, <4>1, <4>2 DEF Placed
    <3> QED
      BY <3>1, <3>2, <3>3
  <2>4. /\ pc'[current] \in {"trapret", "scan"} /\ state'[current] # "PROC_SLEEPING"
    BY <1>a, <1>2, <2>1, <2>2 DEF Placed, Asleep
  <2>5. pc'[idleproc] = "idle" /\ state'[idleproc] = "PROC_RUNNABLE"
    BY <1>a, <1>2, <2>1, <2>2, SchedAssumption DEF Places
  <2>6. pc'[initproc] \in {"start", "scan", "wait", "woken", "loop", "halt", "exit"}
    BY <1>a, <1>2, <2>1, <2>2, SchedAssumption DEF Places, Running
  <2> QED
    BY <2>1, <2>3, <2>4, <2>5, <2>6 DEF Places
<1>3. ASSUME NEW p \in Proc, Fork(p)
      PROVE  Places'
  BY <1>2, <1>3 DEF Fork
<1>4. ASSUME InitMain
      PROVE  Places'
  BY <1>2, <1>4, SchedAssumption DEF InitMain
\* The steps that only move the current process within the kernel.
<1>5. ASSUME NEW p \in Proc, TrapReturn(p) \/ OtherSyscall(p) \/ SysExit(p)
                             \/ SysWait(p) \/ WaitWoken(p) \/ SysRead(p)
                             \/ WaitNoChild(p)
      PROVE  Places'
  <2>1. /\ Running /\ current = p
        /\ UNCHANGED <<current, state, wait_state, timer_list, kbd_queue>>
    BY <1>5 DEF TrapReturn, OtherSyscall, SysExit, SysWait, WaitWoken, SysRead,
                WaitNoChild, schedVars, stdinVars
  <2>2. p = initproc => pc[p] \in {"start", "scan", "wait", "woken", "loop", "exit"}
    BY <1>a, <2>1 DEF Places, Running
  <2>3. PICK l \in {"user", "trapret", "preempt", "exit", "scan", "reading",
                    "loop", "halt"} :
           /\ pc' = [pc EXCEPT ![p] = l]
           /\ pc[p] \in {"user", "trapret", "scan", "woken", "slept", "reading",
                         "kbd"}
           /\ p = initproc => l \in {"scan", "loop", "halt", "exit"}
    BY <1>5, <2>2 DEF TrapReturn, OtherSyscall, SysExit, SysWait, WaitWoken,
                      SysRead, WaitNoChild, AfterNoChild
  <2> QED
    BY <2>1, <2>3, MovePlaces, SameLists
<1>6. ASSUME NEW p \in Proc, SleepReturn(p)
      PROVE  Places'
  <2>1. /\ Running /\ current = p
        /\ UNCHANGED <<current, state, wait_state, kbd_queue>>
        /\ pc[p] = "slept" /\ pc' = [pc EXCEPT ![p] = "trapret"]
    BY <1>6 DEF SleepReturn, stdinVars
  <2>2. \A q \in Proc \ {p} : Armed(q) => Armed(q)'
    BY <1>6, Basics, DelTimerOwners DEF SleepReturn
  <2>3. p # initproc
    BY <1>a, <2>1 DEF Places
  <2> QED
    BY <2>1, <2>2, <2>3, MovePlaces, SameLists
<1>7. ASSUME NEW p \in Proc, ReadWoken(p)
      PROVE  Places'
  <2>1. /\ Running /\ current = p
        /\ UNCHANGED <<current, state, wait_state, timer_list>>
        /\ pc[p] = "kbd"
        /\ \E l \in {"reading", "trapret"} : pc' = [pc EXCEPT ![p] = l]
    BY <1>7 DEF ReadWoken, schedVars
  <2>2. \A q \in Proc \ {p} : Waiting(q) => Waiting(q)'
    BY <1>7, ReadWokenQueue
  <2>3. p # initproc
    BY <1>a, <2>1 DEF Places
  <2> QED
    BY <2>1, <2>2, <2>3, MovePlaces, SameLists
<1>8. ASSUME NEW p \in Proc, ExitDone(p)
      PROVE  Places'
  <2>1. /\ current = p /\ Running /\ pc[p] = "reparent"
        /\ UNCHANGED <<current, state, wait_state, timer_list, kbd_queue>>
        /\ pc' = [pc EXCEPT ![p] = "dead"]
    BY <1>8 DEF ExitDone, schedVars, stdinVars
  <2>2. p # initproc /\ p # idleproc
    BY <1>a, <2>1 DEF Places
  <2>3. \A q \in Proc : Placed(q)'
    BY <1>a, <2>1, SameLists DEF Placed, Asleep, Dead
  <2> QED
    BY <1>a, <2>1, <2>2, <2>3, SchedAssumption DEF Places, Placed, Running
<1>9. ASSUME NEW p \in Proc, Exit(p)
      PROVE  Places'
  <2>1. /\ current = p /\ Running /\ pc[p] = "exit"
        /\ UNCHANGED <<current, wait_state, timer_list, kbd_queue>>
        /\ state' = [state EXCEPT ![p] = "PROC_ZOMBIE"]
        /\ pc' = [pc EXCEPT ![p] = "notify"]
        /\ p = initproc => panic'
    BY <1>9 DEF Exit, stdinVars, assert
  <2>2. p # idleproc /\ wait_state[p] = "0"
    BY <1>a, <2>1 DEF Places, Placed, Asleep
  <2>3. \A q \in Proc : Placed(q)'
    BY <1>a, <2>1, <2>2, SameLists DEF Placed, Asleep, Dead
  <2> QED
    BY <1>a, <2>1, <2>2, <2>3, SchedAssumption DEF Places, Running
<1>10. ASSUME NEW p \in Proc, ExitNotify(p)
       PROVE  Places'
  <2>1. /\ current = p /\ Running /\ pc[p] = "notify"
        /\ UNCHANGED <<current, timer_list, kbd_queue>>
        /\ pc' = [pc EXCEPT ![p] = "reparent"]
        /\ WakeWaiter(parent[p])
    BY <1>10 DEF ExitNotify, stdinVars
  <2>2. p # initproc /\ p # idleproc
    BY <1>a, <2>1 DEF Places, Running
  <2>3. CASE wait_state[parent[p]] = "WT_CHILD"
    <3>1. parent[p] \in Proc /\ wakeup_proc(parent[p])
      BY <2>1, <2>3, ParentType, Zenon DEF WakeWaiter
    <3>2. state[parent[p]] = "PROC_SLEEPING"
      BY <1>a, <2>3, <3>1 DEF Placed
    <3>3. /\ state' = [state EXCEPT ![parent[p]] = "PROC_RUNNABLE"]
          /\ wait_state' = [wait_state EXCEPT ![parent[p]] = "0"]
      BY <3>1, <3>2, Basics, WakeupEffect
    <3> QED
      BY <2>1, <3>1, <3>2, <3>3, WakePlaces, SameLists
  <2>4. CASE wait_state[parent[p]] # "WT_CHILD"
    <3>1. UNCHANGED <<state, wait_state>>
      BY <2>1, <2>4 DEF WakeWaiter
    <3>2. \A q \in Proc : Placed(q)'
      BY <1>a, <2>1, <3>1, SameLists DEF Placed, Asleep, Dead
    <3> QED
      BY <1>a, <2>1, <2>2, <3>1, <3>2, SchedAssumption DEF Places, Running
  <2> QED
    BY <2>3, <2>4
<1>b. pc = [pc EXCEPT ![current] = pc[current]]
  BY <1>a
<1>11. ASSUME NEW p \in Proc, ExitReparent(p)
       PROVE  Places'
  <2>1. /\ current = p /\ Running
        /\ UNCHANGED <<current, timer_list, kbd_queue, pc>>
    BY <1>11 DEF ExitReparent, stdinVars
  <2>2. \/ WakeWaiter(initproc)
        \/ UNCHANGED <<state, wait_state>>
    BY <1>11, Zenon DEF ExitReparent
  <2>3. CASE WakeWaiter(initproc) /\ wait_state[initproc] = "WT_CHILD"
    <3>1. wakeup_proc(initproc)
      BY <2>3, Zenon DEF WakeWaiter
    <3>2. state[initproc] = "PROC_SLEEPING"
      BY <1>a, <2>3, SchedAssumption DEF Placed
    <3>3. /\ state' = [state EXCEPT ![initproc] = "PROC_RUNNABLE"]
          /\ wait_state' = [wait_state EXCEPT ![initproc] = "0"]
      BY <3>1, <3>2, Basics, WakeupEffect, SchedAssumption
    <3> QED
      BY <1>b, <2>1, <3>2, <3>3, WakePlaces, SameLists, SchedAssumption
  <2>4. CASE UNCHANGED <<state, wait_state>>
    BY <1>a, <2>1, <2>4, SameLists, SchedAssumption
       DEF Places, Placed, Asleep, Running
  <2> QED
    BY <2>2, <2>3, <2>4 DEF WakeWaiter
<1>13. ASSUME NEW p \in Proc, WaitReap(p)
       PROVE  Places'
  <2>1. PICK z \in Proc :
           /\ Running /\ current = p /\ pc[p] = "scan"
           /\ state[z] = "PROC_ZOMBIE"
           /\ UNCHANGED <<current, wait_state, timer_list, kbd_queue>>
           /\ pc' = [pc EXCEPT ![p] = AfterReap(p), ![z] = "none"]
           /\ state' = [state EXCEPT ![z] = "PROC_UNUSED"]
    BY <1>13 DEF WaitReap, ZombieCandidates, Candidates, Children
  <2>2. z # p /\ z # idleproc /\ z # initproc /\ p # idleproc
    BY <1>a, <2>1, SchedAssumption DEF Places, Placed, Dead, Running
  <2>3. ASSUME NEW q \in Proc
        PROVE  Placed(q)'
    <3>1. CASE q = z
      BY <1>a, <2>1, <2>2, <3>1 DEF Placed, Dead, Parked
    <3>2. CASE q = p
      BY <1>a, <2>1, <2>2, <3>2 DEF Placed, Asleep, Dead, AfterReap
    <3>3. CASE q # p /\ q # z
      <4>1. /\ pc'[q] = pc[q] /\ state'[q] = state[q]
            /\ wait_state'[q] = wait_state[q]
        BY <1>a, <2>1, <3>3
      <4>2. Asleep(q) => Asleep(q)'
        BY <2>1, <4>1, SameLists DEF Asleep
      <4> QED
        BY <1>a, <2>1, <4>1, <4>2 DEF Placed
    <3> QED
      BY <3>1, <3>2, <3>3
  <2> QED
    BY <1>a, <2>1, <2>2, <2>3, SchedAssumption
       DEF Places, Placed, Asleep, Running, AfterReap
<1>14. ASSUME NEW p \in Proc, WaitSleep(p)
       PROVE  Places'
  <2>1. /\ Running /\ current = p /\ pc[p] = "scan"
        /\ UNCHANGED <<current, timer_list, kbd_queue>>
        /\ pc' = [pc EXCEPT ![p] = "wait"]
        /\ state' = [state EXCEPT ![p] = "PROC_SLEEPING"]
        /\ wait_state' = [wait_state EXCEPT ![p] = "WT_CHILD"]
    BY <1>14 DEF WaitSleep, stdinVars
  <2>2. p # idleproc
    BY <1>a, <2>1 DEF Places
  <2>3. \A q \in Proc : Placed(q)'
    BY <1>a, <2>1, SameLists DEF Placed, Asleep, Dead
  <2> QED
    BY <1>a, <2>1, <2>2, <2>3, SchedAssumption DEF Places, Running
<1>15. ASSUME NEW p \in Proc, SysSleep(p)
       PROVE  Places'
  <2>1. /\ Running /\ current = p /\ pc[p] = "user"
        /\ UNCHANGED <<current, kbd_queue>>
        /\ pc' = [pc EXCEPT ![p] = "sleep"]
        /\ state' = [state EXCEPT ![p] = "PROC_SLEEPING"]
        /\ wait_state' = [wait_state EXCEPT ![p] = "WT_TIMER"]
    BY <1>15 DEF SysSleep, stdinVars
  <2>2. \A q \in Proc : Armed(q)' <=> Armed(q) \/ q = p
    BY <1>15, SysSleepTimers
  <2>3. p # idleproc /\ p # initproc
    BY <1>a, <2>1 DEF Places, Running
  <2>4. \A q \in Proc : Placed(q)'
    BY <1>a, <2>1, <2>2, SameLists DEF Placed, Asleep, Dead
  <2> QED
    BY <1>a, <2>1, <2>3, <2>4, SchedAssumption DEF Places, Running
<1>16. ASSUME NEW p \in Proc, ReadLoop(p)
       PROVE  Places'
  <2>1. /\ Running /\ current = p /\ pc[p] = "reading"
        /\ UNCHANGED <<current, timer_list>>
    BY <1>16 DEF ReadLoop
  <2>2. p # idleproc /\ p # initproc
    BY <1>a, <2>1 DEF Places, Running
  <2>3. CASE /\ UNCHANGED <<state, wait_state, kbd_queue>>
             /\ pc' = [pc EXCEPT ![p] = "trapret"]
    BY <2>1, <2>2, <2>3, MovePlaces, SameLists
  <2>4. CASE /\ kbd_queue' = Append(kbd_queue, p)
             /\ pc' = [pc EXCEPT ![p] = "read"]
             /\ state' = [state EXCEPT ![p] = "PROC_SLEEPING"]
             /\ wait_state' = [wait_state EXCEPT ![p] = "WT_KBD"]
    <3>1. \A q \in Proc : Waiting(q)' <=> Waiting(q) \/ q = p
      BY <2>4, Basics, AppendSet DEF Waiting
    <3>2. \A q \in Proc : Placed(q)'
      BY <1>a, <2>1, <2>4, <3>1, SameLists DEF Placed, Asleep, Dead
    <3> QED
      BY <1>a, <2>1, <2>2, <2>4, <3>2, SchedAssumption DEF Places, Running
  <2> QED
    BY <1>16, <2>3, <2>4 DEF ReadLoop
<1>17. ASSUME NEW p \in Proc, SysKill(p)
       PROVE  Places'
  <2>1. PICK q \in Killable :
           /\ Live(q)
           /\ IF Interruptible(wait_state[q])
              THEN wakeup_proc(q) /\ assert(WakeupOK(q))
              ELSE UNCHANGED <<state, wait_state, run_list, time_slice, panic>>
    BY <1>17, Zenon DEF SysKill
  <2>2. /\ Running /\ current = p /\ pc[p] = "user"
        /\ UNCHANGED <<current, timer_list, kbd_queue>>
        /\ pc' = [pc EXCEPT ![p] = "trapret"]
    BY <1>17 DEF SysKill, stdinVars
  <2>3. CASE Interruptible(wait_state[q])
    <3>1. wakeup_proc(q) /\ q \in Proc
      BY <2>1, <2>3, ProcessAssumption, Zenon
    <3>2. state[q] = "PROC_SLEEPING"
      BY <1>a, <2>3, <3>1 DEF Placed, Interruptible
    <3>3. /\ state' = [state EXCEPT ![q] = "PROC_RUNNABLE"]
          /\ wait_state' = [wait_state EXCEPT ![q] = "0"]
      BY <3>1, <3>2, Basics, WakeupEffect
    <3> QED
      BY <2>2, <3>1, <3>2, <3>3, WakePlaces, SameLists
  <2>4. CASE ~ Interruptible(wait_state[q])
    <3>1. UNCHANGED <<state, wait_state>>
      BY <2>1, <2>4, Zenon
    <3>2. p # initproc
      BY <1>a, <2>2 DEF Places, Running
    <3> QED
      BY <2>2, <3>1, <3>2, MovePlaces, SameLists
  <2> QED
    BY <2>3, <2>4
<1>18. ASSUME UNCHANGED <<current, state, wait_state, pc, kbd_queue>>, Running,
              \A q \in Proc : Armed(q)' <=> Armed(q)
       PROVE  Places'
  BY <1>a, <1>18, SameLists, SchedAssumption DEF Places, Placed, Asleep, Running
<1>19. ASSUME IrqTimer
       PROVE  Places'
  <2>1. \A q \in Proc : Armed(q)' <=> Armed(q)
    BY <1>19, Basics, DecrementHeadOwners, SameLists DEF IrqTimer
  <2> QED
    BY <1>18, <1>19, <2>1 DEF IrqTimer, procVars, stdinVars
<1>20. ASSUME IrqTick \/ IrqChar
       PROVE  Places'
  BY <1>18, <1>20, SameLists DEF IrqTick, IrqChar, procVars, stdinVars, schedVars
<1>21. ASSUME IrqExpire
       PROVE  Places'
  <2> DEFINE p == timer_list[1].proc
  <2>1. /\ Running /\ wakeup_proc(p) /\ del_timer(p)
        /\ UNCHANGED <<current, pc, kbd_queue>>
    BY <1>21 DEF IrqExpire, procVars, stdinVars
  <2>2. p \in Proc /\ Armed(p)
    BY <1>21, Basics, HeadTimer DEF IrqExpire
  <2> HIDE DEF p
  <2>3. state[p] \notin {"PROC_ZOMBIE", "PROC_UNUSED"}
    BY <1>a, <2>2, Basics DEF Links, Placed, Dead
  <2>4. /\ state' = [state EXCEPT ![p] = "PROC_RUNNABLE"]
        /\ wait_state' = [wait_state EXCEPT ![p] = "0"]
    BY <1>a, <2>1, <2>2, Basics, WakeupEffect DEF Placed
  <2>5. \A q \in Proc \ {p} : Armed(q) => Armed(q)'
    BY <2>1, <2>2, Basics, DelTimerOwners
  <2> QED
    BY <1>b, <2>1, <2>2, <2>3, <2>4, <2>5, WakePlaces, SameLists
<1>22. ASSUME IrqWake
       PROVE  Places'
  <2> DEFINE p == Head(kbd_queue)
  <2>1. /\ Running /\ wakeup_proc(p)
        /\ UNCHANGED <<current, pc, timer_list>>
    BY <1>22 DEF IrqWake, procVars
  <2>2. /\ p \in Proc /\ Waiting(p)
        /\ \A q \in Proc : Waiting(q)' <=> Waiting(q) /\ q # p
    BY <1>22, IrqWakeQueue
  <2> HIDE DEF p
  <2>3. state[p] \notin {"PROC_ZOMBIE", "PROC_UNUSED"}
    BY <1>a, <2>2, Basics DEF Links, Placed, Dead
  <2>4. /\ state' = [state EXCEPT ![p] = "PROC_RUNNABLE"]
        /\ wait_state' = [wait_state EXCEPT ![p] = "0"]
    BY <1>a, <2>1, <2>2, Basics, WakeupEffect DEF Placed
  <2> QED
    BY <1>b, <2>1, <2>2, <2>3, <2>4, WakePlaces, SameLists
<1>23. ASSUME IrqReturn
       PROVE  Places'
  <2>1. Running /\ UNCHANGED <<current, state, wait_state, timer_list, kbd_queue>>
    BY <1>23 DEF IrqReturn, schedVars, stdinVars
  <2>2. CASE pc[current] = "user"
    <3>1. current # initproc /\ pc' = [pc EXCEPT ![current] = "trapret"]
      BY <1>a, <1>23, <2>1, <2>2 DEF IrqReturn, Places, Running
    <3> QED
      BY <1>a, <2>1, <2>2, <3>1, MovePlaces, SameLists
  <2>3. CASE pc[current] # "user"
    BY <1>18, <1>23, <2>1, <2>3, SameLists DEF IrqReturn
  <2> QED
    BY <2>2, <2>3
<1>24. ASSUME UNCHANGED vars
       PROVE  Places'
  BY <1>a, <1>24, SameLists
     DEF vars, schedVars, procVars, stdinVars, Places, Placed, Asleep
<1> QED
  BY <1>1, <1>3, <1>4, <1>5, <1>6, <1>7, <1>8, <1>9, <1>10, <1>11, <1>13,
     <1>14, <1>15, <1>16, <1>17, <1>19, <1>20, <1>21, <1>22, <1>23, <1>24, Zenon
     DEF Next, Syscall, Kernel, Irq, Halted

\* Every step keeps the run queue exact: wakeup_proc queues a process that was
\* in no queue, and schedule() takes the one it queues or picks.
LEMMA RunQueueStep == IInv /\ [Next]_vars => RunQueueExact'
<1> SUFFICES ASSUME IInv, [Next]_vars
             PROVE  RunQueueExact'
  OBVIOUS
<1> USE DEF At, Goto
<1>a. /\ current \in Proc /\ state \in [Proc -> ProcState]
      /\ SchedTypeOK /\ RunQueueExact /\ run_list \in Seq(Proc)
      /\ state[idleproc] = "PROC_RUNNABLE" /\ pc[idleproc] = "idle"
      /\ \A q \in Proc : q \in ToSet(run_list) <=>
              state[q] = "PROC_RUNNABLE" /\ q \notin {current, idleproc}
      /\ IsInjective(run_list)
      /\ Places /\ \A q \in Proc : Placed(q)
  BY Basics DEF RunQueueExact, Queued, Places
<1>1. ASSUME NEW p \in Proc, CallSchedule(p)
      PROVE  RunQueueExact'
  BY <1>a, <1>1, ScheduleQueue DEF CallSchedule
<1>2. ASSUME NEW p \in Proc, NEW c \in Proc, NewProcess(p, c), current = p
      PROVE  RunQueueExact'
  <2>1. /\ state[c] = "PROC_UNUSED" /\ UNCHANGED current /\ enqueue(c)
        /\ state' = [state EXCEPT ![c] = "PROC_RUNNABLE"]
    BY <1>2 DEF NewProcess, Live
  <2>2. c # p /\ c # idleproc
    BY <1>a, <1>2, <2>1 DEF Places, Placed
  <2>3. run_list' = Append(run_list, c) /\ c \notin ToSet(run_list)
    BY <1>a, <2>1, <2>2 DEF enqueue
  <2>4. ToSet(run_list') = ToSet(run_list) \cup {c} /\ IsInjective(run_list')
    BY <1>a, <2>3, AppendSet
  <2> QED
    BY <1>a, <1>2, <2>1, <2>2, <2>4 DEF RunQueueExact, Queued
<1>3. ASSUME (\E p \in Proc : Fork(p)) \/ InitMain
      PROVE  RunQueueExact'
  BY <1>2, <1>3, SchedAssumption DEF Fork, InitMain
\* The steps that touch neither the queue nor what should be in it.
<1>4. ASSUME UNCHANGED <<current, run_list>>,
             \/ UNCHANGED state
             \/ \E st \in ProcState \ {"PROC_RUNNABLE"} :
                    /\ state' = [state EXCEPT ![current] = st]
                    /\ current # idleproc
             \/ \E z \in Proc : /\ state' = [state EXCEPT ![z] = "PROC_UNUSED"]
                                /\ state[z] = "PROC_ZOMBIE"
      PROVE  RunQueueExact'
  BY <1>a, <1>4 DEF RunQueueExact, Queued
<1>5. ASSUME NEW p \in Proc,
             \/ TrapReturn(p) \/ OtherSyscall(p) \/ SysExit(p) \/ SysWait(p)
             \/ WaitWoken(p) \/ SysRead(p) \/ WaitNoChild(p) \/ SleepReturn(p)
             \/ ReadWoken(p) \/ ExitDone(p)
      PROVE  RunQueueExact'
  BY <1>4, <1>5 DEF TrapReturn, OtherSyscall, SysExit, SysWait, WaitWoken,
     SysRead, WaitNoChild, SleepReturn, ReadWoken, ExitDone, schedVars
<1>6. ASSUME NEW p \in Proc,
             Exit(p) \/ WaitSleep(p) \/ SysSleep(p) \/ ReadLoop(p)
      PROVE  RunQueueExact'
  <2>1. UNCHANGED <<current, run_list>> /\ current = p /\ pc[p] # "idle"
    BY <1>6 DEF Exit, WaitSleep, SysSleep, ReadLoop
  <2>2. \/ UNCHANGED state
        \/ \E st \in ProcState \ {"PROC_RUNNABLE"} :
                state' = [state EXCEPT ![p] = st]
    BY <1>6 DEF Exit, WaitSleep, SysSleep, ReadLoop, ProcState
  <2> QED
    BY <1>4, <1>a, <2>1, <2>2
<1>7. ASSUME NEW p \in Proc, WaitReap(p)
      PROVE  RunQueueExact'
  BY <1>4, <1>7 DEF WaitReap, ZombieCandidates, Candidates, Children
<1>8. ASSUME NEW p \in Proc, WakeWaiter(p), UNCHANGED current
      PROVE  RunQueueExact'
  <2>1. CASE wait_state[p] = "WT_CHILD"
    <3>1. wakeup_proc(p)
      BY <1>8, <2>1, Zenon DEF WakeWaiter
    <3> QED
      BY <1>a, <1>8, <3>1, WakeupQueue
  <2>2. CASE wait_state[p] # "WT_CHILD"
    BY <1>4, <1>8, <2>2 DEF WakeWaiter
  <2> QED
    BY <2>1, <2>2
<1>9. ASSUME NEW p \in Proc, ExitNotify(p)
      PROVE  RunQueueExact'
  BY <1>8, <1>9, ParentType DEF ExitNotify
<1>10. ASSUME NEW p \in Proc, ExitReparent(p)
       PROVE  RunQueueExact'
  <2>1. /\ UNCHANGED current
        /\ \/ WakeWaiter(initproc)
           \/ UNCHANGED <<state, run_list>>
    BY <1>10, Zenon DEF ExitReparent
  <2> QED
    BY <1>4, <1>8, <2>1, SchedAssumption
<1>11. ASSUME NEW p \in Proc, SysKill(p)
       PROVE  RunQueueExact'
  <2>1. PICK q \in Killable :
           IF Interruptible(wait_state[q])
           THEN wakeup_proc(q) /\ assert(WakeupOK(q))
           ELSE UNCHANGED <<state, wait_state, run_list, time_slice, panic>>
    BY <1>11, Zenon DEF SysKill
  <2>2. UNCHANGED current /\ q \in Proc
    BY <1>11, ProcessAssumption DEF SysKill
  <2>3. wakeup_proc(q) \/ UNCHANGED <<state, run_list>>
    BY <2>1, Zenon
  <2> QED
    BY <1>4, <1>a, <2>2, <2>3, WakeupQueue
<1>12. ASSUME IrqTimer \/ IrqTick \/ IrqChar \/ IrqReturn
       PROVE  RunQueueExact'
  BY <1>4, <1>12 DEF IrqTimer, IrqTick, IrqChar, IrqReturn, schedVars
<1>13. ASSUME IrqExpire
       PROVE  RunQueueExact'
  <2>1. wakeup_proc(timer_list[1].proc) /\ UNCHANGED current
    BY <1>13 DEF IrqExpire
  <2>2. timer_list[1].proc \in Proc
    BY <1>13, Basics, HeadTimer DEF IrqExpire
  <2> QED
    BY <1>a, <2>1, <2>2, WakeupQueue
<1>14. ASSUME IrqWake
       PROVE  RunQueueExact'
  <2>1. wakeup_proc(Head(kbd_queue)) /\ UNCHANGED current
    BY <1>14 DEF IrqWake
  <2>2. Head(kbd_queue) \in Proc
    BY <1>14, IrqWakeQueue
  <2> QED
    BY <1>a, <2>1, <2>2, WakeupQueue
<1>15. ASSUME UNCHANGED vars
       PROVE  RunQueueExact'
  BY <1>4, <1>15 DEF vars, schedVars
<1> QED
  BY <1>1, <1>3, <1>5, <1>6, <1>7, <1>9, <1>10, <1>11, <1>12, <1>13, <1>14, <1>15,
     Zenon DEF Next, Syscall, Kernel, Irq, Halted

\* A process leaves do_sleep or dev_stdin_read only with its timer or its wait
\* unlinked, whoever woke it.
LEMMA LinksStep == IInv /\ [Next]_vars => Links'
<1> SUFFICES ASSUME IInv, [Next]_vars
             PROVE  Links'
  OBVIOUS
<1> USE DEF At, Goto
<1>a. /\ current \in Proc /\ pc \in [Proc -> Location]
      /\ \A q \in Proc : /\ Armed(q) => pc[q] \in {"sleep", "slept"}
                         /\ Waiting(q) => pc[q] \in {"read", "kbd"}
      /\ OneTimerEach /\ kbd_queue \in Seq(Proc) /\ IsInjective(kbd_queue)
      /\ state \in [Proc -> ProcState]
      /\ \A q \in Proc : Placed(q)
  BY Basics DEF Links, Places
\* The steps that leave the lists alone and do not move a process that is in
\* one.
<1>1. ASSUME UNCHANGED <<timer_list, kbd_queue>>,
             \A q \in Proc : \/ pc'[q] = pc[q]
                             \/ pc[q] \notin {"sleep", "slept", "read", "kbd"}
                             \/ pc[q] = "sleep" /\ pc'[q] = "slept"
                             \/ pc[q] = "read" /\ pc'[q] = "kbd"
      PROVE  Links'
  BY <1>a, <1>1, SameLists DEF Links
<1>2. ASSUME NEW p \in Proc, CallSchedule(p)
      PROVE  Links'
  <2>1. PICK l \in DOMAIN Resume : pc[p] = l /\ pc' = [pc EXCEPT ![p] = Resume[l]]
    BY <1>2 DEF CallSchedule
  <2>2. UNCHANGED <<timer_list, kbd_queue>>
    BY <1>2 DEF CallSchedule, schedule, stdinVars
  <2> QED
    BY <1>1, <1>a, <2>1, <2>2, ResumeValues
<1>3. ASSUME NEW p \in Proc, Fork(p)
      PROVE  Links'
  <2>1. PICK c \in Proc : /\ state[c] = "PROC_UNUSED"
                          /\ pc' = [pc EXCEPT ![p] = "trapret", ![c] = "user"]
                          /\ UNCHANGED <<timer_list, kbd_queue>>
    BY <1>3 DEF Fork, NewProcess, Live, stdinVars
  <2>2. pc[p] = "user" /\ pc[c] = "none"
    BY <1>a, <1>3, <2>1 DEF Fork, Placed
  <2> QED
    BY <1>1, <1>a, <2>1, <2>2
<1>4. ASSUME InitMain
      PROVE  Links'
  <2>1. PICK c \in Proc : /\ state[c] = "PROC_UNUSED"
                          /\ pc' = [pc EXCEPT ![initproc] = "scan", ![c] = "user"]
                          /\ UNCHANGED <<timer_list, kbd_queue>>
    BY <1>4 DEF InitMain, NewProcess, Live, stdinVars
  <2>2. pc[initproc] = "start" /\ pc[c] = "none"
    BY <1>a, <1>4, <2>1 DEF InitMain, Placed
  <2> QED
    BY <1>1, <1>a, <2>1, <2>2, SchedAssumption
<1>5. ASSUME NEW p \in Proc,
             \/ TrapReturn(p) \/ OtherSyscall(p) \/ SysExit(p) \/ SysWait(p)
             \/ WaitWoken(p) \/ SysRead(p) \/ WaitNoChild(p) \/ Exit(p)
             \/ WaitSleep(p) \/ ExitDone(p) \/ ExitNotify(p) \/ SysKill(p)
      PROVE  Links'
  <2>1. /\ UNCHANGED <<timer_list, kbd_queue>>
        /\ pc[p] \notin {"sleep", "slept", "read", "kbd"}
        /\ \E l : pc' = [pc EXCEPT ![p] = l]
    BY <1>5 DEF TrapReturn, OtherSyscall, SysExit, SysWait, WaitWoken, SysRead,
       WaitNoChild, Exit, WaitSleep, ExitDone, ExitNotify, SysKill, schedVars,
       stdinVars
  <2> QED
    BY <1>1, <1>a, <2>1
<1>6. ASSUME NEW p \in Proc, ExitReparent(p)
      PROVE  Links'
  BY <1>1, <1>6 DEF ExitReparent, schedVars, procVars, stdinVars
<1>7. ASSUME NEW p \in Proc, WaitReap(p)
      PROVE  Links'
  <2>1. PICK z \in Proc :
           /\ pc[p] = "scan" /\ state[z] = "PROC_ZOMBIE"
           /\ UNCHANGED <<timer_list, kbd_queue>>
           /\ pc' = [pc EXCEPT ![p] = AfterReap(p), ![z] = "none"]
    BY <1>7 DEF WaitReap, ZombieCandidates, Candidates, Children
  <2>2. pc[z] \in Dead
    BY <1>a, <2>1 DEF Placed
  <2> QED
    BY <1>1, <1>a, <2>1, <2>2 DEF Dead
<1>8. ASSUME NEW p \in Proc, SysSleep(p)
      PROVE  Links'
  <2>1. pc[p] = "user" /\ pc' = [pc EXCEPT ![p] = "sleep"] /\ UNCHANGED kbd_queue
    BY <1>8 DEF SysSleep, stdinVars
  <2> QED
    BY <1>8, <1>a, <2>1, SysSleepTimers, SameLists DEF Links
<1>9. ASSUME NEW p \in Proc, SleepReturn(p)
      PROVE  Links'
  <2>1. /\ pc[p] = "slept" /\ pc' = [pc EXCEPT ![p] = "trapret"]
        /\ UNCHANGED kbd_queue
    BY <1>9 DEF SleepReturn, stdinVars
  <2>2. OneTimerEach' /\ \A q : Armed(q)' <=> Armed(q) /\ q # p
    BY <1>9, Basics, DelTimerOwners DEF SleepReturn
  <2> QED
    BY <1>a, <2>1, <2>2, SameLists DEF Links
<1>10. ASSUME NEW p \in Proc, ReadLoop(p)
       PROVE  Links'
  <2>1. /\ pc[p] = "reading" /\ UNCHANGED timer_list
        /\ \/ pc' = [pc EXCEPT ![p] = "trapret"] /\ UNCHANGED kbd_queue
           \/ /\ pc' = [pc EXCEPT ![p] = "read"]
              /\ kbd_queue' = Append(kbd_queue, p)
    BY <1>10 DEF ReadLoop
  <2>2. CASE UNCHANGED kbd_queue
    BY <1>1, <1>a, <2>1, <2>2
  <2>3. CASE /\ pc' = [pc EXCEPT ![p] = "read"]
             /\ kbd_queue' = Append(kbd_queue, p)
    <3>1. ~ Waiting(p)
      BY <1>a, <2>1
    <3>2. IsInjective(kbd_queue') /\ \A q : Waiting(q)' <=> Waiting(q) \/ q = p
      BY <1>a, <2>3, <3>1, AppendSet DEF Waiting
    <3> QED
      BY <1>a, <2>1, <2>3, <3>2, SameLists DEF Links
  <2> QED
    BY <2>1, <2>2, <2>3
<1>11. ASSUME NEW p \in Proc, ReadWoken(p)
       PROVE  Links'
  <2>1. /\ pc[p] = "kbd" /\ UNCHANGED timer_list
        /\ \E l : pc' = [pc EXCEPT ![p] = l]
    BY <1>11 DEF ReadWoken, schedVars
  <2> QED
    BY <1>11, <1>a, <2>1, ReadWokenQueue, SameLists DEF Links
<1>12. ASSUME IrqTimer
       PROVE  Links'
  <2>1. OneTimerEach' /\ \A q : Armed(q)' <=> Armed(q)
    BY <1>12, Basics, DecrementHeadOwners, SameLists DEF IrqTimer, OneTimerEach
  <2> QED
    BY <1>12, <1>a, <2>1, SameLists DEF Links, IrqTimer, procVars, stdinVars
<1>13. ASSUME IrqExpire
       PROVE  Links'
  <2>1. OneTimerEach' /\ \A q : Armed(q)' => Armed(q)
    BY <1>13, Basics, DelTimerOwners DEF IrqExpire
  <2> QED
    BY <1>13, <1>a, <2>1, SameLists DEF Links, IrqExpire, procVars, stdinVars
<1>14. ASSUME IrqWake
       PROVE  Links'
  BY <1>14, <1>a, IrqWakeQueue, SameLists DEF Links, IrqWake, procVars
<1>15. ASSUME IrqTick \/ IrqChar \/ UNCHANGED vars
       PROVE  Links'
  BY <1>1, <1>15 DEF IrqTick, IrqChar, vars, schedVars, procVars, stdinVars
<1>16. ASSUME IrqReturn
       PROVE  Links'
  BY <1>1, <1>16, <1>a DEF IrqReturn, schedVars, stdinVars
<1> QED
  BY <1>2, <1>3, <1>4, <1>5, <1>6, <1>7, <1>8, <1>9, <1>10, <1>11, <1>12, <1>13,
     <1>14, <1>15, <1>16, Zenon DEF Next, Syscall, Kernel, Irq, Halted

\* Every step leaves each process a live parent: do_exit hands its children
\* over before it gives up the CPU, and do_wait frees a zombie only when it
\* has no children left.
LEMMA FamilyStep == IInv /\ [Next]_vars => Family'
<1> SUFFICES ASSUME IInv, [Next]_vars
             PROVE  Family'
  OBVIOUS
<1> USE DEF At, Goto
<1>a. /\ current \in Proc /\ state \in [Proc -> ProcState]
      /\ pc \in [Proc -> Location] /\ parent \in [Proc -> Proc \cup {NoProc}]
      /\ wait_state \in [Proc -> WaitState]
      /\ Family /\ Places /\ SchedTypeOK
      /\ state[idleproc] = "PROC_RUNNABLE" /\ pc[idleproc] = "idle"
      /\ \A q \in Proc : Placed(q)
  BY Basics DEF Places
\* The steps that neither create nor destroy a process nor change a parent.
<1>1. ASSUME UNCHANGED parent,
             \A q \in Proc : /\ Live(q)' <=> Live(q)
                             /\ state'[q] = "PROC_ZOMBIE" =>
                                  \/ state[q] = "PROC_ZOMBIE" /\ pc'[q] = pc[q]
                                  \/ pc'[q] \in {"notify", "reparent"}
      PROVE  Family'
  BY <1>a, <1>1 DEF Family
\* Waking a process that sleeps is such a step.
<1>2. ASSUME NEW p \in Proc, wakeup_proc(p), state[p] # "PROC_ZOMBIE", Live(p),
             UNCHANGED parent,
             \A q \in Proc : pc'[q] = pc[q] \/ pc'[q] = "reparent"
                                            \/ state[q] # "PROC_ZOMBIE"
      PROVE  Family'
  <2>1. \/ UNCHANGED state
        \/ state' = [state EXCEPT ![p] = "PROC_RUNNABLE"]
    BY <1>2 DEF wakeup_proc
  <2> QED
    BY <1>1, <1>2, <1>a, <2>1 DEF Live
<1>3. ASSUME NEW p \in Proc, CallSchedule(p)
      PROVE  Family'
  <2>1. PICK l \in DOMAIN Resume : /\ pc[p] = l
                                   /\ pc' = [pc EXCEPT ![p] = Resume[l]]
    BY <1>3 DEF CallSchedule
  <2>2. UNCHANGED <<state, parent>>
    BY <1>3 DEF CallSchedule, schedule
  <2>3. CASE l = "dead"
    BY <1>a, <2>1, <2>2, <2>3 DEF Family, Live
  <2>4. CASE l # "dead"
    <3>1. state[p] # "PROC_ZOMBIE"
      BY <1>a, <2>1, <2>4, ResumeValues DEF Placed, Dead
    <3> QED
      BY <1>1, <1>a, <2>1, <2>2, <3>1 DEF Live
  <2> QED
    BY <2>3, <2>4
<1>4. ASSUME NEW p \in Proc, NEW c \in Proc, NewProcess(p, c), Live(p),
             state[p] # "PROC_ZOMBIE", NEW l,
             pc' = [pc EXCEPT ![p] = l, ![c] = "user"]
      PROVE  Family'
  <2>1. /\ state[c] = "PROC_UNUSED" /\ parent' = [parent EXCEPT ![c] = p]
        /\ state' = [state EXCEPT ![c] = "PROC_RUNNABLE"]
    BY <1>4 DEF NewProcess, Live
  <2>2. c # p /\ c # idleproc
    BY <1>a, <1>4, <2>1 DEF Live
  <2>3. parent'[idleproc] = NoProc
    BY <1>a, <2>1, <2>2 DEF Family
  <2>4. ASSUME NEW q \in Proc \ {idleproc}, Live(q)'
        PROVE  /\ parent'[q] \in Proc /\ Live(parent[q])'
               /\ state'[parent'[q]] = "PROC_ZOMBIE"
                     => pc'[parent'[q]] \in {"notify", "reparent"}
    <3>1. CASE q = c
      BY <1>a, <1>4, <2>1, <2>2, <3>1 DEF Live
    <3>2. CASE q # c
      BY <1>a, <1>4, <2>1, <2>2, <2>4, <3>2 DEF Family, Live
    <3> QED
      BY <3>1, <3>2
  <2> QED
    BY <2>3, <2>4 DEF Family
<1>5. ASSUME NEW p \in Proc, Fork(p)
      PROVE  Family'
  <2>1. Live(p) /\ state[p] # "PROC_ZOMBIE"
    BY <1>a, <1>5 DEF Fork, Placed, Dead, Live
  <2> QED
    BY <1>4, <1>5, <2>1 DEF Fork
<1>6. ASSUME InitMain
      PROVE  Family'
  <2>1. Live(initproc) /\ state[initproc] # "PROC_ZOMBIE"
    BY <1>a, <1>6, SchedAssumption DEF InitMain, Placed, Dead, Live
  <2> QED
    BY <1>4, <1>6, <2>1, SchedAssumption DEF InitMain
<1>7. ASSUME NEW p \in Proc,
             \/ TrapReturn(p) \/ OtherSyscall(p) \/ SysExit(p) \/ SysWait(p)
             \/ WaitWoken(p) \/ SysRead(p) \/ WaitNoChild(p) \/ SleepReturn(p)
             \/ ReadWoken(p) \/ WaitSleep(p) \/ SysSleep(p) \/ ReadLoop(p)
      PROVE  Family'
  <2>1. /\ UNCHANGED parent /\ pc[p] \notin Dead \cup {"none"}
        /\ \E l : pc' = [pc EXCEPT ![p] = l]
        /\ \/ UNCHANGED state
           \/ state' = [state EXCEPT ![p] = "PROC_SLEEPING"]
    <3>1. CASE \/ TrapReturn(p) \/ OtherSyscall(p) \/ SysExit(p) \/ SysWait(p)
               \/ WaitWoken(p) \/ SysRead(p) \/ WaitNoChild(p)
               \/ SleepReturn(p) \/ ReadWoken(p)
      BY <3>1 DEF TrapReturn, OtherSyscall, SysExit, SysWait, WaitWoken, SysRead,
         WaitNoChild, SleepReturn, ReadWoken, schedVars, Dead
    <3>2. CASE WaitSleep(p) \/ SysSleep(p) \/ ReadLoop(p)
      BY <3>2 DEF WaitSleep, SysSleep, ReadLoop, Dead
    <3> QED
      BY <1>7, <3>1, <3>2
  <2>2. state[p] \notin {"PROC_ZOMBIE", "PROC_UNUSED"}
    BY <1>a, <2>1 DEF Placed
  <2> QED
    BY <1>1, <1>a, <2>1, <2>2 DEF Live
<1>8. ASSUME NEW p \in Proc, Exit(p)
      PROVE  Family'
  <2>1. /\ UNCHANGED parent /\ pc[p] = "exit"
        /\ pc' = [pc EXCEPT ![p] = "notify"]
        /\ state' = [state EXCEPT ![p] = "PROC_ZOMBIE"]
    BY <1>8 DEF Exit
  <2>2. state[p] # "PROC_UNUSED"
    BY <1>a, <2>1 DEF Placed
  <2> QED
    BY <1>1, <1>a, <2>1, <2>2 DEF Live
<1>9. ASSUME NEW p \in Proc, ExitNotify(p)
      PROVE  Family'
  <2>1. /\ UNCHANGED parent /\ pc' = [pc EXCEPT ![p] = "reparent"]
        /\ WakeWaiter(parent[p]) /\ parent[p] \in Proc /\ Live(parent[p])
    BY <1>9, ParentType DEF ExitNotify
  <2>2. CASE wait_state[parent[p]] = "WT_CHILD"
    <3>1. wakeup_proc(parent[p])
      BY <2>1, <2>2, Zenon DEF WakeWaiter
    <3>2. state[parent[p]] # "PROC_ZOMBIE"
      BY <1>a, <2>1, <2>2 DEF Placed
    <3> QED
      BY <1>2, <1>a, <2>1, <3>1, <3>2
  <2>3. CASE wait_state[parent[p]] # "WT_CHILD"
    <3>1. UNCHANGED state
      BY <2>1, <2>3 DEF WakeWaiter
    <3> QED
      BY <1>1, <1>a, <2>1, <3>1 DEF Live
  <2> QED
    BY <2>2, <2>3
<1>10. Live(initproc) /\ (Running => state[initproc] # "PROC_ZOMBIE")
  BY <1>a, SchedAssumption DEF Places, Placed, Dead, Live, Running
<1>11. ASSUME NEW p \in Proc, ExitReparent(p)
       PROVE  Family'
  <2>1. PICK c \in Children(p) :
           /\ parent' = [parent EXCEPT ![c] = initproc]
           /\ WakeWaiter(initproc) \/ UNCHANGED state
    BY <1>11, Zenon DEF ExitReparent
  <2>2. /\ c \in Proc /\ c # idleproc /\ UNCHANGED pc
        /\ state[initproc] \notin {"PROC_ZOMBIE", "PROC_UNUSED"}
    BY <1>a, <1>10, <1>11, ProcessAssumption DEF Children, Family, ExitReparent, Live
  <2>3. \/ UNCHANGED state
        \/ state' = [state EXCEPT ![initproc] = "PROC_RUNNABLE"]
    BY <2>1 DEF WakeWaiter, wakeup_proc
  <2>4. \A q \in Proc : /\ Live(q)' <=> Live(q)
                        /\ state'[q] = "PROC_ZOMBIE" <=> state[q] = "PROC_ZOMBIE"
    BY <1>a, <2>2, <2>3 DEF Live
  <2>5. ASSUME NEW q \in Proc \ {idleproc}, Live(q)'
        PROVE  /\ parent'[q] \in Proc /\ Live(parent[q])'
               /\ state'[parent'[q]] = "PROC_ZOMBIE"
                     => pc'[parent'[q]] \in {"notify", "reparent"}
    <3>1. CASE q = c
      BY <1>a, <2>1, <2>2, <2>4, <3>1, SchedAssumption DEF Live
    <3>2. CASE q # c
      <4>1. parent'[q] = parent[q] /\ Live(q)
        BY <1>a, <2>1, <2>4, <2>5, <3>2
      <4> QED
        BY <1>a, <2>2, <2>4, <4>1 DEF Family, Live
    <3> QED
      BY <3>1, <3>2
  <2>6. parent'[idleproc] = NoProc
    BY <1>a, <2>1, <2>2, SchedAssumption DEF Family
  <2> QED
    BY <2>5, <2>6 DEF Family, Live
<1>12. ASSUME NEW p \in Proc, ExitDone(p)
       PROVE  Family'
  <2>1. /\ UNCHANGED <<state, parent>> /\ pc' = [pc EXCEPT ![p] = "dead"]
        /\ Children(p) = {}
    BY <1>12 DEF ExitDone, schedVars
  <2>2. \A q \in Proc : Live(q) => parent[q] # p
    BY <2>1 DEF Children
  <2> QED
    BY <1>a, <2>1, <2>2 DEF Family, Live
<1>14. ASSUME NEW p \in Proc, WaitReap(p)
       PROVE  Family'
  <2>1. PICK z \in Proc :
           /\ current = p /\ pc[p] = "scan" /\ state[z] = "PROC_ZOMBIE"
           /\ pc' = [pc EXCEPT ![p] = AfterReap(p), ![z] = "none"]
           /\ state' = [state EXCEPT ![z] = "PROC_UNUSED"]
           /\ parent' = [parent EXCEPT ![z] = NoProc]
    BY <1>14 DEF WaitReap, ZombieCandidates, Candidates, Children
  <2>2. z # p /\ z # idleproc /\ pc[z] \notin {"notify", "reparent"}
    BY <1>a, <2>1 DEF Placed, Dead, Parked
  <2>3. state[p] # "PROC_ZOMBIE"
    BY <1>a, <2>1 DEF Placed, Dead
  <2>4. \A q \in Proc \ {idleproc} : Live(q) => parent[q] # z
    BY <1>a, <2>1, <2>2 DEF Family
  <2>5. ASSUME NEW q \in Proc \ {idleproc}, Live(q)'
        PROVE  /\ parent'[q] \in Proc /\ Live(parent[q])'
               /\ state'[parent'[q]] = "PROC_ZOMBIE"
                     => pc'[parent'[q]] \in {"notify", "reparent"}
    <3>1. q # z /\ Live(q) /\ parent'[q] = parent[q]
      BY <1>a, <2>1, <2>5 DEF Live
    <3>2. parent[q] \in Proc /\ parent[q] # z /\ Live(parent[q])
      BY <1>a, <2>4, <3>1 DEF Family
    <3>3. state'[parent[q]] = state[parent[q]]
      BY <1>a, <2>1, <3>2
    <3>4. state[parent[q]] = "PROC_ZOMBIE" => pc'[parent[q]] = pc[parent[q]]
      BY <1>a, <2>1, <2>3, <3>2
    <3> QED
      BY <1>a, <3>1, <3>2, <3>3, <3>4 DEF Family, Live
  <2> QED
    BY <1>a, <2>1, <2>2, <2>5 DEF Family
<1>15. ASSUME NEW p \in Proc, SysKill(p)
       PROVE  Family'
  <2>1. PICK q \in Killable :
           /\ Live(q)
           /\ IF Interruptible(wait_state[q])
              THEN wakeup_proc(q) /\ assert(WakeupOK(q))
              ELSE UNCHANGED <<state, wait_state, run_list, time_slice, panic>>
    BY <1>15, Zenon DEF SysKill
  <2>2. /\ UNCHANGED parent /\ pc[p] = "user" /\ q \in Proc
        /\ pc' = [pc EXCEPT ![p] = "trapret"]
    BY <1>15, ProcessAssumption DEF SysKill
  <2>3. state[p] # "PROC_ZOMBIE"
    BY <1>a, <2>2 DEF Placed, Dead
  <2>4. CASE Interruptible(wait_state[q])
    <3>1. wakeup_proc(q)
      BY <2>1, <2>4, Zenon
    <3>2. state[q] # "PROC_ZOMBIE"
      BY <1>a, <2>2, <2>4 DEF Placed, Interruptible
    <3> QED
      BY <1>2, <1>a, <2>1, <2>2, <2>3, <3>1, <3>2
  <2>5. CASE ~ Interruptible(wait_state[q])
    <3>1. UNCHANGED state
      BY <2>1, <2>5, Zenon
    <3> QED
      BY <1>1, <1>a, <2>2, <2>3, <3>1 DEF Live
  <2> QED
    BY <2>4, <2>5
<1>16. ASSUME IrqTimer \/ IrqTick \/ IrqChar
       PROVE  Family'
  BY <1>1, <1>16 DEF IrqTimer, IrqTick, IrqChar, schedVars, procVars, Live
<1>17. ASSUME IrqExpire
       PROVE  Family'
  <2> DEFINE p == timer_list[1].proc
  <2>1. wakeup_proc(p) /\ UNCHANGED <<pc, parent>>
    BY <1>17 DEF IrqExpire, procVars
  <2>2. p \in Proc /\ Armed(p)
    BY <1>17, Basics, HeadTimer DEF IrqExpire
  <2> HIDE DEF p
  <2>3. state[p] \notin {"PROC_ZOMBIE", "PROC_UNUSED"}
    BY <1>a, <2>2, Basics DEF Links, Placed, Dead
  <2> QED
    BY <1>2, <2>1, <2>2, <2>3 DEF Live
<1>18. ASSUME IrqWake
       PROVE  Family'
  <2> DEFINE p == Head(kbd_queue)
  <2>1. wakeup_proc(p) /\ UNCHANGED <<pc, parent>>
    BY <1>18 DEF IrqWake, procVars
  <2>2. p \in Proc /\ Waiting(p)
    BY <1>18, IrqWakeQueue
  <2> HIDE DEF p
  <2>3. state[p] \notin {"PROC_ZOMBIE", "PROC_UNUSED"}
    BY <1>a, <2>2, Basics DEF Links, Placed, Dead
  <2> QED
    BY <1>2, <2>1, <2>2, <2>3 DEF Live
<1>19. ASSUME IrqReturn
       PROVE  Family'
  <2>1. /\ UNCHANGED <<state, parent>>
        /\ \/ UNCHANGED pc
           \/ pc[current] = "user" /\ pc' = [pc EXCEPT ![current] = "trapret"]
    BY <1>19 DEF IrqReturn, schedVars
  <2>2. pc[current] = "user" => state[current] # "PROC_ZOMBIE"
    BY <1>a DEF Placed, Dead
  <2> QED
    BY <1>1, <1>a, <2>1, <2>2 DEF Live
<1>20. ASSUME UNCHANGED vars
       PROVE  Family'
  BY <1>1, <1>20 DEF vars, schedVars, procVars, Live
<1> QED
  BY <1>3, <1>5, <1>6, <1>7, <1>8, <1>9, <1>11, <1>12, <1>14, <1>15, <1>16,
     <1>17, <1>18, <1>19, <1>20, Zenon DEF Next, Syscall, Kernel, Irq, Halted

----------------------------------------------------------------------------
(* The theorems *)

\* The invariant holds when proc_init is done.
LEMMA InitIInv == Init => IInv
<1> SUFFICES ASSUME Init
             PROVE  IInv
  OBVIOUS
<1> USE SchedAssumption, ProcessAssumption
<1>1. TypeOK
  <2>1. SchedTypeOK
    BY DEF Init, SchedTypeOK, TimerListTypeOK, ProcState, WaitState
  <2>2. pc \in [Proc -> Location]
    BY DEF Init, Location, Resume
  <2>3. /\ parent \in [Proc -> Proc \cup {NoProc}]
        /\ waited \in [Proc -> Proc] /\ nr_process \in Int
    BY DEF Init
  <2>4. exiting \in [Proc -> BOOLEAN] /\ panic \in BOOLEAN
    BY Zenon DEF Init
  <2>5. irq \in {"off", "timers", "char", "wake"}
    BY DEF Init
  <2>6. /\ buffered \in 0 .. STDIN_BUFSIZE /\ wanted \in [Proc -> 0 .. MaxRead]
        /\ kbd_queue \in Seq(Proc)
        /\ wakeup_flags \in [Proc -> {"WT_INTERRUPTED", "WT_KBD"}]
    BY DEF Init
  <2> QED
    BY <2>1, <2>2, <2>3, <2>4, <2>5, <2>6 DEF TypeOK
<1>2. Places
  BY DEF Init, Places, Placed, Asleep, Parked, Dead
<1>3. RunQueueExact
  BY DEF Init, RunQueueExact, Queued, ToSet, IsInjective
<1>4. Links
  BY DEF Init, Links, OneTimerEach, Owners, Armed, Waiting, ToSet, IsInjective
<1>5. Family
  BY DEF Init, Family, Live
<1> QED
  BY <1>1, <1>2, <1>3, <1>4, <1>5 DEF IInv

\* IInv is inductive.
THEOREM Invariance == Spec => []IInv
<1>1. IInv /\ [Next]_vars => IInv'
  BY TypeStep, PlacesStep, RunQueueStep, LinksStep, FamilyStep DEF IInv
<1> QED
  BY <1>1, InitIInv, PTL DEF Spec

\* Every variable keeps its type, for any number of processes.
THEOREM TypeCorrect == Spec => []TypeOK
<1>1. IInv => TypeOK
  BY DEF IInv
<1> QED
  BY <1>1, Invariance, PTL

\* The run queue is exact for any number of processes: wakeup_proc, schedule,
\* fork and the interrupt handler together never lose a runnable process and
\* never queue one twice.
THEOREM RunQueueAlwaysExact == Spec => []RunQueueExact
<1>1. IInv => RunQueueExact
  BY DEF IInv
<1> QED
  BY <1>1, Invariance, PTL

\* No timer and no wait survives the stack frame it lies in (do_sleep,
\* dev_stdin_read), for any number of processes.
THEOREM StackLinksAlwaysValid == Spec => []StackLinksValid
<1>1. IInv => StackLinksValid
  BY DEF IInv, Links, StackLinksValid
<1> QED
  BY <1>1, Invariance, PTL

\* Every process but idle has a parent that can still reap it or is about to
\* hand it to init (do_exit, do_wait), for any number of processes.
THEOREM ParentsAlwaysAlive == Spec => []ParentsAlive
<1>1. ASSUME IInv
      PROVE  ParentsAlive
  <2>1. /\ state \in [Proc -> ProcState] /\ current \in Proc
        /\ Family /\ Places /\ \A q \in Proc : Placed(q)
    BY <1>1, Basics DEF Places
  <2> QED
    BY <2>1 DEF ParentsAlive, Family, Placed, Parked, Live, ProcState
<1> QED
  BY <1>1, Invariance, PTL

----------------------------------------------------------------------------
(* How a step changes the states of processes.  Here begins the second     *)
(* part: what Process guarantees beyond IInv.                              *)

\* Everything a step can do to the state of a process q, with wait_state: a
\* process falls asleep or dies only by itself, and only while it runs; who
\* frees a zombie is its parent; all that others do to it is wake it.
Change(q) ==
    \/ state'[q] = state[q] /\ wait_state'[q] = wait_state[q]
    \/ /\ state[q] \in {"PROC_SLEEPING", "PROC_RUNNABLE"}
       /\ state'[q] = "PROC_RUNNABLE"
    \/ state[q] = "PROC_UNUSED" /\ state'[q] = "PROC_RUNNABLE"
    \/ /\ q = current /\ state[q] = "PROC_RUNNABLE" /\ state'[q] = "PROC_SLEEPING"
       /\ WaitSleep(q) \/ SysSleep(q) \/ ReadLoop(q)
    \/ /\ q = current /\ state[q] = "PROC_RUNNABLE" /\ state'[q] = "PROC_ZOMBIE"
       /\ pc[q] = "exit"
    \/ /\ state[q] = "PROC_ZOMBIE" /\ state'[q] = "PROC_UNUSED"
       /\ current = parent[q] /\ pc[current] = "scan"

\* wakeup_proc, of a process that sleeps or can run, changes no other.
LEMMA WakeupChange ==
    ASSUME IInv, NEW p \in Proc, wakeup_proc(p),
           state[p] \notin {"PROC_ZOMBIE", "PROC_UNUSED"}
    PROVE  /\ \A q \in Proc : Change(q)
           /\ state' = [state EXCEPT ![p] = "PROC_RUNNABLE"]
<1>1. /\ state \in [Proc -> ProcState] /\ wait_state \in [Proc -> WaitState]
      /\ SchedTypeOK /\ Placed(p)
  BY Basics DEF Places
<1>2. /\ state' = [state EXCEPT ![p] = "PROC_RUNNABLE"]
      /\ wait_state' = [wait_state EXCEPT ![p] = "0"]
  BY <1>1, WakeupEffect DEF Placed
<1> QED
  BY <1>1, <1>2 DEF Change, ProcState

\* A process that waits for something sleeps: it is neither dead nor free.
LEMMA WaitingSleeps ==
    ASSUME IInv, NEW p \in Proc, wait_state[p] # "0"
    PROVE  state[p] = "PROC_SLEEPING"
  BY Basics DEF Places, Placed

\* do_exit's wake-up of a parent, or of init, changes the state of nobody else.
LEMMA WakeWaiterChange ==
    ASSUME IInv, NEW p \in Proc, WakeWaiter(p)
    PROVE  /\ \A q \in Proc : Change(q)
           /\ wait_state[p] = "WT_CHILD" => state'[p] = "PROC_RUNNABLE"
           /\ \/ UNCHANGED <<state, wait_state>>
              \/ state' = [state EXCEPT ![p] = "PROC_RUNNABLE"]
<1>1. CASE wait_state[p] = "WT_CHILD"
  <2>1. wakeup_proc(p)
    BY <1>1, Zenon DEF WakeWaiter
  <2>2. state[p] = "PROC_SLEEPING" /\ state \in [Proc -> ProcState]
    BY <1>1, WaitingSleeps, Basics
  <2> QED
    BY <2>1, <2>2, WakeupChange
<1>2. CASE wait_state[p] # "WT_CHILD"
  BY <1>2 DEF WakeWaiter, Change
<1> QED
  BY <1>1, <1>2

\* The sleepers that the interrupt handler wakes are neither dead nor free.
LEMMA IrqChange ==
    ASSUME IInv, IrqExpire \/ IrqWake
    PROVE  /\ \A q \in Proc : Change(q)
           /\ \E p \in Proc : state' = [state EXCEPT ![p] = "PROC_RUNNABLE"]
           /\ \A q \in Proc : Live(q)' <=> Live(q)
<1>1. PICK p \in Proc : wakeup_proc(p) /\ (Armed(p) \/ Waiting(p))
  <2>1. CASE IrqExpire
    BY <2>1, Basics, HeadTimer DEF IrqExpire
  <2>2. CASE IrqWake
    BY <2>2, IrqWakeQueue DEF IrqWake
  <2> QED
    BY <2>1, <2>2
<1>2. state[p] \notin {"PROC_ZOMBIE", "PROC_UNUSED"} /\ state \in [Proc -> ProcState]
  BY <1>1, Basics DEF Links, Places, Placed, Dead
<1> QED
  BY <1>1, <1>2, WakeupChange DEF Live

\* kill changes the state of nobody, or wakes its victim.
LEMMA KillChange ==
    ASSUME IInv, NEW p \in Proc, SysKill(p)
    PROVE  /\ \A q \in Proc : Change(q)
           /\ \/ UNCHANGED <<state, wait_state>>
              \/ \E q \in Proc : state' = [state EXCEPT ![q] = "PROC_RUNNABLE"]
           /\ \A q \in Proc : Live(q)' <=> Live(q)
<1>1. PICK v \in Killable :
         IF Interruptible(wait_state[v])
         THEN wakeup_proc(v) /\ assert(WakeupOK(v))
         ELSE UNCHANGED <<state, wait_state, run_list, time_slice, panic>>
  BY Zenon DEF SysKill
<1>2. v \in Proc /\ state \in [Proc -> ProcState]
  BY ProcessAssumption, Basics
<1>3. CASE Interruptible(wait_state[v])
  <2>1. wakeup_proc(v)
    BY <1>1, <1>3, Zenon
  <2>2. state[v] = "PROC_SLEEPING"
    BY <1>2, <1>3, WaitingSleeps DEF Interruptible
  <2> QED
    BY <1>2, <2>1, <2>2, WakeupChange DEF Live
<1>4. CASE ~ Interruptible(wait_state[v])
  <2>1. UNCHANGED <<state, wait_state>>
    BY <1>1, <1>4, Zenon
  <2> QED
    BY <2>1 DEF Change, Live
<1> QED
  BY <1>3, <1>4

\* The steps after which every process has the state it had.
Quiet(p) ==
    \/ CallSchedule(p) \/ TrapReturn(p) \/ OtherSyscall(p) \/ SysExit(p)
    \/ SysWait(p) \/ SysRead(p) \/ ExitDone(p) \/ WaitNoChild(p)
    \/ WaitWoken(p) \/ SleepReturn(p) \/ ReadWoken(p)
    \/ IrqTimer \/ IrqTick \/ IrqChar \/ IrqReturn \/ UNCHANGED vars

\* Each step of the kernel is one of these.
LEMMA Steps ==
    ASSUME [Next]_vars
    PROVE  \E p \in Proc :
              \/ Quiet(p) \/ Fork(p) \/ (p = initproc /\ InitMain)
              \/ WaitSleep(p) \/ SysSleep(p) \/ ReadLoop(p)
              \/ Exit(p) \/ ExitNotify(p) \/ ExitReparent(p)
              \/ WaitReap(p) \/ SysKill(p) \/ IrqExpire \/ IrqWake
  BY SchedAssumption, Zenon DEF Next, Syscall, Kernel, Irq, Halted, Quiet

\* None of the Quiet steps changes a state or a parent.
LEMMA QuietStep ==
    ASSUME NEW p \in Proc, Quiet(p)
    PROVE  UNCHANGED <<state, wait_state, parent, nr_process>>
  BY DEF Quiet, CallSchedule, TrapReturn, OtherSyscall, SysExit, SysWait,
         SysRead, ExitDone, WaitNoChild, WaitWoken, SleepReturn, ReadWoken,
         IrqTimer, IrqTick, IrqChar, IrqReturn, schedule, vars, schedVars,
         procVars, stdinVars

\* A new process comes out of a free slot, and its maker is running.
LEMMA NewProcessStep ==
    ASSUME IInv, NEW p \in Proc, Fork(p) \/ (p = initproc /\ InitMain)
    PROVE  \E c \in Proc :
              /\ NewProcess(p, c) /\ c # p /\ c # idleproc /\ c # initproc
              /\ current = p /\ p # idleproc
              /\ state[p] = "PROC_RUNNABLE" /\ wait_state[p] = "0"
              /\ state[c] = "PROC_UNUSED" /\ pc[c] = "none"
              /\ pc' = [pc EXCEPT ![p] = IF p = initproc THEN "scan" ELSE "trapret",
                                  ![c] = "user"]
<1>1. pc \in [Proc -> Location] /\ state \in [Proc -> ProcState] /\ Places
  BY Basics
<1>2. \A q \in Proc : Placed(q)
  BY <1>1 DEF Places
<1>3. Running /\ current = p /\ pc[p] \in {"user", "start"}
  BY DEF Fork, InitMain, At
<1>4. p # idleproc /\ (p = initproc => pc[p] = "start")
  BY <1>1, <1>3 DEF Places, Running
<1>5. PICK c \in Proc :
         /\ NewProcess(p, c)
         /\ pc' = [pc EXCEPT ![p] = IF p = initproc THEN "scan" ELSE "trapret",
                             ![c] = "user"]
  BY <1>3, <1>4 DEF Fork, InitMain, At
<1>6. state[p] = "PROC_RUNNABLE" /\ wait_state[p] = "0"
  BY <1>1, <1>2, <1>3 DEF Places, Placed, Dead, ProcState
<1>7. state[c] = "PROC_UNUSED" /\ pc[c] = "none"
  BY <1>2, <1>5 DEF NewProcess, Live, Placed
<1>8. c # initproc /\ c # idleproc
  BY <1>1, <1>3, <1>7 DEF Places, Running
<1> QED
  BY <1>3, <1>4, <1>5, <1>6, <1>7, <1>8

\* do_wait frees a zombie that is its caller's child.
LEMMA WaitReapStep ==
    ASSUME IInv, NEW p \in Proc, WaitReap(p)
    PROVE  /\ current = p /\ pc[p] = "scan" /\ state[p] = "PROC_RUNNABLE"
           /\ UNCHANGED <<current, wait_state>>
           /\ \E z \in Proc :
                /\ state[z] = "PROC_ZOMBIE" /\ parent[z] = p /\ z # p
                /\ z \notin {idleproc, initproc} /\ pc[z] = "returned"
                /\ state' = [state EXCEPT ![z] = "PROC_UNUSED"]
                /\ parent' = [parent EXCEPT ![z] = NoProc]
                /\ waited' = [waited EXCEPT ![z] = idleproc]
                /\ exiting' = [exiting EXCEPT ![z] = FALSE]
                /\ pc' = [pc EXCEPT ![p] = AfterReap(p), ![z] = "none"]
                /\ assert(z \notin {idleproc, initproc})
<1>1. pc \in [Proc -> Location] /\ state \in [Proc -> ProcState] /\ Places
  BY Basics
<1>2. \A q \in Proc : Placed(q)
  BY <1>1 DEF Places
<1>3. Running /\ current = p /\ pc[p] = "scan" /\ UNCHANGED <<current, wait_state>>
  BY DEF WaitReap, At
<1>4. state[p] = "PROC_RUNNABLE"
  BY <1>1, <1>2, <1>3 DEF Places, Placed, Dead, ProcState
<1>5. PICK z \in Proc :
         /\ state[z] = "PROC_ZOMBIE" /\ parent[z] = p
         /\ state' = [state EXCEPT ![z] = "PROC_UNUSED"]
         /\ parent' = [parent EXCEPT ![z] = NoProc]
         /\ waited' = [waited EXCEPT ![z] = idleproc]
         /\ exiting' = [exiting EXCEPT ![z] = FALSE]
         /\ pc' = [pc EXCEPT ![p] = AfterReap(p), ![z] = "none"]
         /\ assert(z \notin {idleproc, initproc})
  BY DEF WaitReap, ZombieCandidates, Candidates, Children
<1>6. z # p /\ pc[z] = "returned"
  BY <1>2, <1>3, <1>4, <1>5 DEF Placed, Dead, Parked
<1>7. z \notin {idleproc, initproc}
  BY <1>1, <1>3, <1>5, <1>6 DEF Places, Running
<1> QED
  BY <1>3, <1>4, <1>5, <1>6, <1>7

\* do_exit hands a child to init, which is alive.
LEMMA ExitReparentStep ==
    ASSUME IInv, NEW p \in Proc, ExitReparent(p)
    PROVE  /\ current = p /\ pc[p] = "reparent" /\ state[p] = "PROC_ZOMBIE"
           /\ p \notin {idleproc, initproc}
           /\ UNCHANGED <<current, pc, waited, exiting, nr_process>>
           /\ \A q \in Proc : Change(q) /\ (Live(q)' <=> Live(q))
           /\ \/ UNCHANGED <<state, wait_state>>
              \/ state' = [state EXCEPT ![initproc] = "PROC_RUNNABLE"]
           /\ \E c \in Proc :
                /\ Live(c) /\ parent[c] = p /\ c # idleproc
                /\ parent' = [parent EXCEPT ![c] = initproc]
                /\ state[c] = "PROC_ZOMBIE" /\ wait_state[initproc] = "WT_CHILD"
                       => state'[initproc] = "PROC_RUNNABLE"
                /\ WakeWaiter(initproc) \/ UNCHANGED panic
<1>1. /\ pc \in [Proc -> Location] /\ state \in [Proc -> ProcState] /\ Places
      /\ Family
  BY Basics
<1>2. /\ Running /\ current = p /\ pc[p] = "reparent"
      /\ UNCHANGED <<current, pc, waited, exiting, nr_process>>
  BY DEF ExitReparent, At
<1>3. /\ p \notin {idleproc, initproc} /\ state[p] = "PROC_ZOMBIE"
      /\ state[initproc] \notin {"PROC_ZOMBIE", "PROC_UNUSED"}
  BY <1>1, <1>2, SchedAssumption DEF Places, Placed, Dead, Running
<1>4. PICK c \in Children(p) :
         /\ parent' = [parent EXCEPT ![c] = initproc]
         /\ IF state[c] = "PROC_ZOMBIE"
            THEN WakeWaiter(initproc)
            ELSE UNCHANGED <<state, wait_state, run_list, time_slice, panic>>
  BY Zenon DEF ExitReparent
<1>5. c \in Proc /\ Live(c) /\ parent[c] = p /\ c # idleproc
  BY <1>1, ProcessAssumption DEF Children, Family
<1>6. CASE state[c] = "PROC_ZOMBIE"
  <2>1. WakeWaiter(initproc)
    BY <1>4, <1>6, Zenon
  <2>2. /\ \A q \in Proc : Change(q)
        /\ wait_state[initproc] = "WT_CHILD" => state'[initproc] = "PROC_RUNNABLE"
        /\ \/ UNCHANGED <<state, wait_state>>
           \/ state' = [state EXCEPT ![initproc] = "PROC_RUNNABLE"]
    BY <2>1, WakeWaiterChange, SchedAssumption
  <2>3. \A q \in Proc : Live(q)' <=> Live(q)
    BY <1>1, <1>3, <2>2 DEF Live
  <2> QED
    BY <1>2, <1>3, <1>4, <1>5, <2>1, <2>2, <2>3
<1>7. CASE state[c] # "PROC_ZOMBIE"
  <2>1. UNCHANGED <<state, wait_state, panic>>
    BY <1>4, <1>7, Zenon
  <2>2. \A q \in Proc : Change(q) /\ (Live(q)' <=> Live(q))
    BY <2>1 DEF Change, Live
  <2> QED
    BY <1>2, <1>3, <1>4, <1>5, <1>7, <2>1, <2>2
<1> QED
  BY <1>6, <1>7

\* do_exit's wake-up of the parent.
LEMMA ExitNotifyStep ==
    ASSUME IInv, NEW p \in Proc, ExitNotify(p)
    PROVE  /\ current = p /\ pc[p] = "notify" /\ state[p] = "PROC_ZOMBIE"
           /\ parent[p] \in Proc /\ WakeWaiter(parent[p])
           /\ UNCHANGED <<current, parent, waited, exiting, nr_process>>
           /\ pc' = [pc EXCEPT ![p] = "reparent"]
           /\ \A q \in Proc : Change(q) /\ (Live(q)' <=> Live(q))
           /\ wait_state[parent[p]] = "WT_CHILD"
                  => state'[parent[p]] = "PROC_RUNNABLE"
<1>1. /\ current = p /\ pc[p] = "notify" /\ WakeWaiter(parent[p])
      /\ UNCHANGED <<current, parent, waited, exiting, nr_process>>
      /\ pc' = [pc EXCEPT ![p] = "reparent"]
  BY DEF ExitNotify, At, Goto
<1>2. state[p] = "PROC_ZOMBIE" /\ parent[p] \in Proc /\ Live(parent[p])
  BY <1>1, ParentType, Basics DEF Places, Placed, Dead
<1>3. state \in [Proc -> ProcState]
  BY Basics
<1>4. /\ \A q \in Proc : Change(q)
      /\ wait_state[parent[p]] = "WT_CHILD" => state'[parent[p]] = "PROC_RUNNABLE"
      /\ \/ UNCHANGED <<state, wait_state>>
         \/ state' = [state EXCEPT ![parent[p]] = "PROC_RUNNABLE"]
  BY <1>1, <1>2, WakeWaiterChange
<1>5. \A q \in Proc : Live(q)' <=> Live(q)
  BY <1>2, <1>3, <1>4 DEF Live
<1> QED
  BY <1>1, <1>2, <1>4, <1>5

\* Only a process that runs puts itself to sleep, and only do_exit makes it a
\* zombie.
LEMMA OwnStateStep ==
    ASSUME IInv, NEW p \in Proc,
           WaitSleep(p) \/ SysSleep(p) \/ ReadLoop(p) \/ Exit(p)
    PROVE  /\ current = p /\ state[p] = "PROC_RUNNABLE"
           /\ UNCHANGED <<current, parent, waited, exiting, nr_process>>
           /\ \E l : pc' = [pc EXCEPT ![p] = l]
           /\ \A q \in Proc : Change(q) /\ (Live(q)' <=> Live(q))
           /\ \A q \in Proc \ {p} : /\ state'[q] = state[q]
                                    /\ wait_state'[q] = wait_state[q]
<1>1. /\ pc \in [Proc -> Location] /\ state \in [Proc -> ProcState]
      /\ wait_state \in [Proc -> WaitState] /\ Places
      /\ \A q \in Proc : Placed(q)
  BY Basics DEF Places
<1>2. /\ current = p /\ pc[p] \in {"scan", "user", "reading", "exit"}
      /\ UNCHANGED <<current, parent, waited, exiting, nr_process>>
  BY DEF WaitSleep, SysSleep, ReadLoop, Exit, At
<1>3. state[p] = "PROC_RUNNABLE"
  BY <1>1, <1>2 DEF Places, Placed, Dead, ProcState
<1>4. CASE Exit(p)
  BY <1>1, <1>2, <1>3, <1>4 DEF Exit, At, Goto, Change, Live
<1>5. CASE WaitSleep(p) \/ SysSleep(p) \/ ReadLoop(p)
  <2>1. /\ \E l : pc' = [pc EXCEPT ![p] = l]
        /\ \/ UNCHANGED <<state, wait_state>>
           \/ /\ state' = [state EXCEPT ![p] = "PROC_SLEEPING"]
              /\ \E w : wait_state' = [wait_state EXCEPT ![p] = w]
    BY <1>5 DEF WaitSleep, SysSleep, ReadLoop, Goto
  <2> QED
    BY <1>1, <1>2, <1>3, <1>5, <2>1 DEF Change, Live
<1> QED
  BY <1>4, <1>5

\* No step changes a state in any other way.
LEMMA ChangeStep ==
    ASSUME IInv, [Next]_vars
    PROVE  \A q \in Proc : Change(q)
<1>1. PICK p \in Proc :
         \/ Quiet(p) \/ Fork(p) \/ (p = initproc /\ InitMain)
         \/ WaitSleep(p) \/ SysSleep(p) \/ ReadLoop(p)
         \/ Exit(p) \/ ExitNotify(p) \/ ExitReparent(p)
         \/ WaitReap(p) \/ SysKill(p) \/ IrqExpire \/ IrqWake
  BY Steps
<1>2. state \in [Proc -> ProcState] /\ wait_state \in [Proc -> WaitState]
  BY Basics
<1>3. CASE Quiet(p)
  BY <1>3, QuietStep DEF Change
<1>4. CASE Fork(p) \/ (p = initproc /\ InitMain)
  <2>1. PICK c \in Proc :
           /\ NewProcess(p, c) /\ state[c] = "PROC_UNUSED"
           /\ wait_state[p] = "0"
    BY <1>4, NewProcessStep
  <2>2. /\ state' = [state EXCEPT ![c] = "PROC_RUNNABLE"]
        /\ wait_state' = wait_state
    BY <1>2, <2>1 DEF NewProcess
  <2> QED
    BY <1>2, <2>1, <2>2 DEF Change
<1>5. CASE WaitSleep(p) \/ SysSleep(p) \/ ReadLoop(p) \/ Exit(p)
  BY <1>5, OwnStateStep
<1>6. CASE WaitReap(p)
  BY <1>2, <1>6, WaitReapStep DEF Change
<1> QED
  BY <1>1, <1>3, <1>4, <1>5, <1>6, ExitNotifyStep, ExitReparentStep,
     KillChange, IrqChange

\* A zombie stays one until its parent frees it from do_wait, for any number
\* of processes, whoever is killed, woken or handed over meanwhile.
THEOREM ZombiesAlwaysReapedByParent == Spec => ZombiesReapedByParent
<1> DEFINE Reaped == \A p \in Proc : state[p] = "PROC_ZOMBIE" =>
                         \/ state'[p] = "PROC_ZOMBIE"
                         \/ state'[p] = "PROC_UNUSED" /\ current = parent[p]
<1>1. IInv /\ [Next]_vars => [Reaped]_vars
  BY ChangeStep DEF Change
<1> QED
  BY <1>1, Invariance, PTL DEF Spec, ZombiesReapedByParent

----------------------------------------------------------------------------
(* No wake-up is lost *)

\* A reader sleeps over an empty ring, but while wakeup_queue is at work.
ReadersAwaited ==
    \A p \in Proc : state[p] = "PROC_SLEEPING" /\ wait_state[p] = "WT_KBD" =>
        buffered = 0 \/ irq = "wake"

\* The only zombie a parent can sleep over is one that has not told it yet.
Untold(z) == z = current /\ pc[z] = "notify"

ParentsAwaited ==
    \A p \in Proc : state[p] = "PROC_SLEEPING" /\ wait_state[p] = "WT_CHILD" =>
        /\ Candidates(p) # {}
        /\ \A z \in ZombieCandidates(p) : Untold(z)

WakersInv == ReadersAwaited /\ ParentsAwaited

\* Characters come with the interrupt that wakes the readers.
LEMMA ReadersStep ==
    ASSUME IInv, IInv', ReadersAwaited, [Next]_vars
    PROVE  ReadersAwaited'
<1> SUFFICES ASSUME NEW q \in Proc, state'[q] = "PROC_SLEEPING",
                    wait_state'[q] = "WT_KBD"
             PROVE  buffered' = 0 \/ irq' = "wake"
  BY DEF ReadersAwaited
<1>1. PICK p \in Proc :
         \/ Quiet(p) \/ Fork(p) \/ (p = initproc /\ InitMain)
         \/ WaitSleep(p) \/ SysSleep(p) \/ ReadLoop(p)
         \/ Exit(p) \/ ExitNotify(p) \/ ExitReparent(p)
         \/ WaitReap(p) \/ SysKill(p) \/ IrqExpire \/ IrqWake
  BY Steps
<1>2. buffered \in Nat /\ wanted[q] \in Nat
  <2>1. buffered \in 0 .. STDIN_BUFSIZE /\ wanted[q] \in 0 .. MaxRead
    BY DEF IInv, TypeOK
  <2> QED
    BY <2>1, ProcessAssumption
<1>3. \/ state[q] = "PROC_SLEEPING" /\ wait_state[q] = "WT_KBD"
      \/ state[q] = "PROC_RUNNABLE" /\ (WaitSleep(q) \/ SysSleep(q) \/ ReadLoop(q))
  <2>1. Change(q)
    BY ChangeStep
  <2> QED
    BY <2>1, Zenon DEF Change
<1>4. CASE ReadLoop(q) /\ state[q] # "PROC_SLEEPING"
  <2>1. PICK n \in 0 .. wanted[q] :
           /\ n <= buffered /\ (n < wanted[q] => n = buffered)
           /\ buffered' = buffered - n
           /\ n = wanted[q] => UNCHANGED state
    BY <1>4 DEF ReadLoop
  <2>2. n < wanted[q]
    BY <1>2, <1>4, <2>1
  <2> QED
    BY <1>2, <2>1, <2>2
<1>5. CASE WaitSleep(q) \/ SysSleep(q)
  <2>1. wait_state'[q] \in {"WT_CHILD", "WT_TIMER"}
    BY <1>5, Basics DEF WaitSleep, SysSleep
  <2> QED
    BY <2>1
<1>6. CASE state[q] = "PROC_SLEEPING" /\ ~ ReadLoop(q) /\ wait_state[q] = "WT_KBD"
  <2>1. buffered = 0 \/ irq = "wake"
    BY <1>6 DEF ReadersAwaited
  <2>2. CASE ReadLoop(p)
    <3>1. irq = "off" /\ \E n \in 0 .. wanted[p] : n <= buffered /\ buffered' = buffered - n
      BY <2>2 DEF ReadLoop, At
    <3>2. wanted[p] \in Nat
      BY ProcessAssumption DEF IInv, TypeOK
    <3> QED
      BY <2>1, <3>1, <3>2
  <2>3. CASE IrqTimer \/ IrqTick \/ IrqChar \/ IrqReturn
    <3>1. Waiting(q)
      BY <1>6, Basics DEF Places, Placed, Asleep
    <3>2. kbd_queue # << >>
      BY <3>1 DEF Waiting, ToSet
    <3> QED
      BY <2>1, <2>3, <3>2
         DEF IrqTimer, InterruptsOn, IrqTick, IrqChar, IrqReturn, stdinVars
  <2>4. CASE ~ (ReadLoop(p) \/ IrqTimer \/ IrqTick \/ IrqChar \/ IrqReturn)
    <3>1. UNCHANGED <<buffered, irq>>
      BY <1>1, <2>4 DEF Quiet, CallSchedule, TrapReturn, OtherSyscall, SysExit,
         SysWait, SysRead, ExitDone, WaitNoChild, WaitWoken, SleepReturn,
         ReadWoken, Fork, InitMain, NewProcess, WaitSleep, SysSleep, Exit,
         ExitNotify, ExitReparent, WaitReap, SysKill, IrqExpire, IrqWake, vars,
         stdinVars
    <3> QED
      BY <2>1, <3>1
  <2> QED
    BY <2>2, <2>3, <2>4
<1>7. state[q] = "PROC_SLEEPING" /\ ReadLoop(q) => FALSE
  BY OwnStateStep
<1> QED
  BY <1>3, <1>4, <1>5, <1>6, <1>7

\* A step that leaves the family as it is, and wakes nobody's parent.
LEMMA SameCandidates ==
    ASSUME NEW q \in Proc, UNCHANGED parent, waited'[q] = waited[q],
           \A c \in Proc : Live(c)' <=> Live(c)
    PROVE  Candidates(q)' = Candidates(q)
<1>1. Children(q)' = Children(q)
  BY DEF Children
<1> QED
  BY <1>1, Zenon DEF Candidates

\* None of the Quiet steps is taken by a process that still has to tell its
\* parent, and none changes what a sleeping parent waits for.
LEMMA QuietParents ==
    ASSUME IInv, NEW p \in Proc, Quiet(p), NEW q \in Proc,
           state[q] = "PROC_SLEEPING"
    PROVE  /\ waited'[q] = waited[q]
           /\ \A z : Untold(z) => Untold(z)'
<1>1. /\ pc \in [Proc -> Location] /\ current \in Proc /\ Places
      /\ waited \in [Proc -> Proc]
  BY Basics DEF TypeOK
<1>2. pc[q] # "user"
  BY <1>1 DEF Places, Placed, Asleep
<1>3. waited'[q] = waited[q]
  <2>1. CASE SysWait(p)
    <3>1. pc[p] = "user" /\ \E r \in Proc : waited' = [waited EXCEPT ![p] = r]
      BY <2>1 DEF SysWait, At
    <3> QED
      BY <1>1, <1>2, <3>1
  <2>2. CASE ~ SysWait(p)
    <3>1. UNCHANGED waited
      BY <2>2 DEF Quiet, CallSchedule, TrapReturn, OtherSyscall, SysExit,
         SysRead, ExitDone, WaitNoChild, WaitWoken, SleepReturn, ReadWoken,
         IrqTimer, IrqTick, IrqChar, IrqReturn, vars, procVars, stdinVars
    <3> QED
      BY <3>1
  <2> QED
    BY <2>1, <2>2
<1>4. ASSUME pc[current] = "notify"
      PROVE  UNCHANGED current /\ pc'[current] = "notify"
  <2>1. ~ CallSchedule(p)
    BY <1>4, ResumeValues DEF CallSchedule, At
  <2>2. ~ (\/ TrapReturn(p) \/ OtherSyscall(p) \/ SysExit(p) \/ SysWait(p)
           \/ SysRead(p) \/ ExitDone(p) \/ WaitNoChild(p) \/ WaitWoken(p)
           \/ SleepReturn(p) \/ ReadWoken(p))
    BY <1>4 DEF TrapReturn, OtherSyscall, SysExit, SysWait, SysRead, ExitDone,
       WaitNoChild, WaitWoken, SleepReturn, ReadWoken, At
  <2>3. CASE IrqTimer \/ IrqTick \/ IrqChar \/ IrqReturn \/ UNCHANGED vars
    BY <1>4, <2>3 DEF IrqTimer, IrqTick, IrqChar, IrqReturn, vars, procVars,
       schedVars
  <2> QED
    BY <2>1, <2>2, <2>3 DEF Quiet
<1> QED
  BY <1>3, <1>4 DEF Untold

\* A process that can run, or that has told its parent, is not one that still
\* has to.
LEMMA NobodyUntold ==
    ASSUME IInv, pc[current] # "notify"
    PROVE  \A z : ~ Untold(z)
  BY DEF Untold

\* do_wait looks for zombies and falls asleep in one piece, and everybody who
\* dies tells its parent: no parent sleeps over a zombie.
LEMMA ParentsStep ==
    ASSUME IInv, ParentsAwaited, [Next]_vars
    PROVE  ParentsAwaited'
<1> SUFFICES ASSUME NEW q \in Proc, state'[q] = "PROC_SLEEPING",
                    wait_state'[q] = "WT_CHILD"
             PROVE  /\ Candidates(q)' # {}
                    /\ \A z \in ZombieCandidates(q)' : Untold(z)'
  BY DEF ParentsAwaited
<1>1. PICK p \in Proc :
         \/ Quiet(p) \/ Fork(p) \/ (p = initproc /\ InitMain)
         \/ WaitSleep(p) \/ SysSleep(p) \/ ReadLoop(p)
         \/ Exit(p) \/ ExitNotify(p) \/ ExitReparent(p)
         \/ WaitReap(p) \/ SysKill(p) \/ IrqExpire \/ IrqWake
  BY Steps
<1>2. /\ state \in [Proc -> ProcState] /\ wait_state \in [Proc -> WaitState]
      /\ pc \in [Proc -> Location] /\ parent \in [Proc -> Proc \cup {NoProc}]
      /\ waited \in [Proc -> Proc] /\ current \in Proc
      /\ \A r \in Proc : Placed(r)
  BY Basics DEF Places, TypeOK
<1>3. \/ state[q] = "PROC_SLEEPING" /\ wait_state[q] = "WT_CHILD"
      \/ state[q] = "PROC_RUNNABLE" /\ (WaitSleep(q) \/ SysSleep(q) \/ ReadLoop(q))
  <2>1. Change(q)
    BY ChangeStep
  <2> QED
    BY <2>1, Zenon DEF Change
<1>4. CASE state[q] = "PROC_RUNNABLE" /\ (WaitSleep(q) \/ SysSleep(q) \/ ReadLoop(q))
  <2>1. WaitSleep(q)
    <3>1. CASE SysSleep(q)
      BY <1>2, <3>1 DEF SysSleep
    <3>2. CASE ReadLoop(q)
      <4>1. UNCHANGED state \/ wait_state' = [wait_state EXCEPT ![q] = "WT_KBD"]
        BY <3>2 DEF ReadLoop
      <4> QED
        BY <1>2, <1>4, <4>1
    <3> QED
      BY <1>4, <3>1, <3>2
  <2>2. /\ Candidates(q) # {} /\ ZombieCandidates(q) = {}
        /\ UNCHANGED waited /\ UNCHANGED parent
        /\ state' = [state EXCEPT ![q] = "PROC_SLEEPING"]
    BY <2>1 DEF WaitSleep
  <2>3. \A c \in Proc : Live(c)' <=> Live(c)
    BY <1>2, <1>4, <2>2 DEF Live
  <2>4. Candidates(q)' = Candidates(q)
    BY <2>2, <2>3, SameCandidates
  <2>5. ZombieCandidates(q)' = {}
    BY <1>2, <2>2, <2>4 DEF ZombieCandidates, Candidates, Children
  <2> QED
    BY <2>2, <2>4, <2>5
<1>5. CASE state[q] = "PROC_SLEEPING" /\ wait_state[q] = "WT_CHILD"
  <2>1. Candidates(q) # {} /\ \A z \in ZombieCandidates(q) : Untold(z)
    BY <1>5 DEF ParentsAwaited
  \* The steps that leave the family alone and let nobody die.
  <2>2. ASSUME UNCHANGED parent, waited'[q] = waited[q],
               \A c \in Proc : Live(c)' <=> Live(c),
               \A c \in Proc : state'[c] = "PROC_ZOMBIE" => state[c] = "PROC_ZOMBIE",
               \A z : Untold(z) => Untold(z)'
        PROVE  /\ Candidates(q)' # {}
               /\ \A z \in ZombieCandidates(q)' : Untold(z)'
    <3>1. Candidates(q)' = Candidates(q)
      BY <2>2, SameCandidates
    <3>2. ZombieCandidates(q)' \subseteq ZombieCandidates(q)
      BY <2>2, <3>1 DEF ZombieCandidates, Candidates, Children
    <3> QED
      BY <2>1, <2>2, <3>1, <3>2
  <2>3. CASE Quiet(p)
    <3>1. UNCHANGED <<state, parent>>
      BY <2>3, QuietStep
    <3> QED
      BY <1>5, <2>2, <2>3, <3>1, QuietParents DEF Live
  <2>4. CASE Fork(p) \/ (p = initproc /\ InitMain)
    <3>1. PICK c \in Proc :
             /\ NewProcess(p, c) /\ state[c] = "PROC_UNUSED"
             /\ current = p /\ state[p] = "PROC_RUNNABLE"
      BY <2>4, NewProcessStep
    <3>2. /\ parent' = [parent EXCEPT ![c] = p] /\ UNCHANGED waited
          /\ state' = [state EXCEPT ![c] = "PROC_RUNNABLE"]
      BY <3>1 DEF NewProcess
    <3>3. q # p /\ q # c
      BY <1>5, <3>1
    <3>4. Candidates(q)' = Candidates(q)
      BY <1>2, <3>1, <3>2, <3>3 DEF Candidates, Children, Live
    <3>5. ZombieCandidates(q)' = ZombieCandidates(q)
      BY <1>2, <3>1, <3>2, <3>4 DEF ZombieCandidates, Candidates, Children
    <3>6. pc[current] # "notify"
      BY <1>2, <3>1 DEF Placed, Dead
    <3> QED
      BY <2>1, <3>4, <3>5, <3>6, NobodyUntold
  <2>5. CASE WaitSleep(p) \/ SysSleep(p) \/ ReadLoop(p)
    <3>1. /\ UNCHANGED <<parent, waited>> /\ current = p /\ state[p] = "PROC_RUNNABLE"
          /\ \A c \in Proc : Live(c)' <=> Live(c)
          /\ \A c \in Proc : Change(c)
      BY <2>5, OwnStateStep
    <3>2. pc[current] \notin {"notify", "exit"}
      BY <2>5, <3>1 DEF WaitSleep, SysSleep, ReadLoop, At
    <3>3. \A c \in Proc : state'[c] = "PROC_ZOMBIE" => state[c] = "PROC_ZOMBIE"
      BY <3>1, <3>2 DEF Change
    <3> QED
      BY <2>2, <3>1, <3>2, <3>3, NobodyUntold
  <2>6. CASE Exit(p)
    <3>1. /\ UNCHANGED <<current, parent, waited>> /\ current = p
          /\ state[p] = "PROC_RUNNABLE" /\ pc[p] = "exit"
          /\ \A c \in Proc : Live(c)' <=> Live(c)
          /\ pc' = [pc EXCEPT ![p] = "notify"]
          /\ state' = [state EXCEPT ![p] = "PROC_ZOMBIE"]
      BY <2>6, OwnStateStep DEF Exit, At, Goto
    <3>2. Candidates(q)' = Candidates(q)
      BY <3>1, SameCandidates
    <3>3. ZombieCandidates(q) = {}
      BY <2>1, <3>1, NobodyUntold
    <3>4. ZombieCandidates(q)' \subseteq {p}
      BY <1>2, <3>1, <3>2, <3>3 DEF ZombieCandidates, Candidates, Children
    <3>5. Untold(p)'
      BY <1>2, <3>1 DEF Untold
    <3> QED
      BY <2>1, <3>2, <3>4, <3>5
  <2>7. CASE ExitNotify(p)
    <3>1. /\ UNCHANGED <<current, parent, waited>> /\ current = p
          /\ \A c \in Proc : Change(c) /\ (Live(c)' <=> Live(c))
          /\ wait_state[parent[p]] = "WT_CHILD"
                 => state'[parent[p]] = "PROC_RUNNABLE"
          /\ pc[p] = "notify"
      BY <2>7, ExitNotifyStep
    <3>2. Candidates(q)' = Candidates(q)
      BY <3>1, SameCandidates
    <3>3. parent[p] # q
      BY <1>5, <3>1
    <3>4. p \notin Candidates(q)
      BY <3>3 DEF Candidates, Children
    <3>5. ZombieCandidates(q) = {}
      BY <2>1, <3>1, <3>4 DEF ZombieCandidates, Untold
    <3>6. \A c \in Proc : state'[c] = "PROC_ZOMBIE" => state[c] = "PROC_ZOMBIE"
      BY <3>1 DEF Change
    <3>7. ZombieCandidates(q)' = {}
      BY <3>2, <3>5, <3>6 DEF ZombieCandidates, Candidates, Children
    <3> QED
      BY <2>1, <3>2, <3>7
  <2>8. CASE ExitReparent(p)
    <3>1. /\ current = p /\ pc[p] = "reparent" /\ state[p] = "PROC_ZOMBIE"
          /\ UNCHANGED <<current, pc, waited>>
          /\ \A c \in Proc : Change(c) /\ (Live(c)' <=> Live(c))
      BY <2>8, ExitReparentStep
    <3>2. PICK c \in Proc :
             /\ Live(c) /\ parent[c] = p
             /\ parent' = [parent EXCEPT ![c] = initproc]
             /\ state[c] = "PROC_ZOMBIE" /\ wait_state[initproc] = "WT_CHILD"
                    => state'[initproc] = "PROC_RUNNABLE"
      BY <2>8, ExitReparentStep
    <3>3. ZombieCandidates(q) = {}
      BY <2>1, <3>1, NobodyUntold
    <3>4. q # p
      BY <1>5, <3>1
    <3>5. Candidates(q) \subseteq Candidates(q)'
      BY <1>2, <3>1, <3>2, <3>4 DEF Candidates, Children
    <3>6. \A z \in Candidates(q)' : z \in Candidates(q) \/ (z = c /\ q = initproc)
      BY <1>2, <3>1, <3>2 DEF Candidates, Children
    <3>7. \A z \in Proc : state'[z] = "PROC_ZOMBIE" => state[z] = "PROC_ZOMBIE"
      BY <3>1 DEF Change
    <3>8. q = initproc => state[c] # "PROC_ZOMBIE"
      BY <1>5, <3>2
    <3>9. ZombieCandidates(q)' = {}
      BY <3>2, <3>3, <3>6, <3>7, <3>8 DEF ZombieCandidates, Candidates, Children
    <3> QED
      BY <2>1, <3>5, <3>9
  <2>9. CASE WaitReap(p)
    <3>1. /\ current = p /\ pc[p] = "scan" /\ state[p] = "PROC_RUNNABLE"
      BY <2>9, WaitReapStep
    <3>2. PICK z \in Proc :
             /\ state[z] = "PROC_ZOMBIE" /\ parent[z] = p /\ z # p
             /\ state' = [state EXCEPT ![z] = "PROC_UNUSED"]
             /\ parent' = [parent EXCEPT ![z] = NoProc]
             /\ waited' = [waited EXCEPT ![z] = idleproc]
      BY <2>9, WaitReapStep
    <3>3. q # p /\ q # z
      BY <1>5, <3>1, <3>2
    <3>4. Candidates(q)' = Candidates(q)
      BY <1>2, <3>2, <3>3 DEF Candidates, Children, Live
    <3>5. ZombieCandidates(q) = {}
      BY <2>1, <3>1, NobodyUntold
    <3>6. ZombieCandidates(q)' = {}
      BY <1>2, <3>2, <3>4, <3>5 DEF ZombieCandidates, Candidates, Children
    <3> QED
      BY <2>1, <3>4, <3>6
  <2>10. CASE SysKill(p)
    <3>1. /\ UNCHANGED <<current, parent, waited>> /\ current = p /\ pc[p] = "user"
      BY <2>10 DEF SysKill, At
    <3>2. \A c \in Proc : Change(c) /\ (Live(c)' <=> Live(c))
      BY <2>10, KillChange
    <3>3. \A c \in Proc : state'[c] = "PROC_ZOMBIE" => state[c] = "PROC_ZOMBIE"
      BY <3>1, <3>2 DEF Change
    <3> QED
      BY <2>2, <3>1, <3>2, <3>3, NobodyUntold
  <2>11. CASE IrqExpire \/ IrqWake
    <3>1. UNCHANGED <<current, parent, waited, pc>>
      BY <2>11 DEF IrqExpire, IrqWake, procVars
    <3>2. PICK r \in Proc : state' = [state EXCEPT ![r] = "PROC_RUNNABLE"]
      BY <2>11, IrqChange
    <3>3. \A c \in Proc : /\ state'[c] = "PROC_ZOMBIE" => state[c] = "PROC_ZOMBIE"
                          /\ Live(c)' <=> Live(c)
      BY <1>2, <2>11, <3>2, IrqChange
    <3> QED
      BY <2>2, <3>1, <3>3 DEF Untold
  <2> QED
    BY <1>1, <2>3, <2>4, <2>5, <2>6, <2>7, <2>8, <2>9, <2>10, <2>11
<1> QED
  BY <1>3, <1>4, <1>5

\* No wake-up is lost, for any number of processes: whatever order kills,
\* ticks, key presses and exits come in, every sleeper has somebody left who
\* will wake it.
THEOREM SleepersAlwaysHaveWakers == Spec => []SleepersHaveWakers
<1>1. Init => WakersInv
  BY DEF Init, WakersInv, ReadersAwaited, ParentsAwaited
<1>2. IInv /\ IInv' /\ WakersInv /\ [Next]_vars => WakersInv'
  BY ReadersStep, ParentsStep DEF WakersInv
<1>3. ASSUME IInv, WakersInv
      PROVE  SleepersHaveWakers
  <2>1. \A p \in Proc : Placed(p)
    BY <1>3, Basics DEF Places
  <2> QED
    BY <1>3, <2>1 DEF SleepersHaveWakers, WakersInv, ReadersAwaited,
       ParentsAwaited, Untold, Placed, Asleep
<1> QED
  BY <1>1, <1>2, <1>3, Invariance, PTL DEF Spec

----------------------------------------------------------------------------
(* No assertion fails *)

\* Following parents leads to init: among processes other than idle and init
\* there are none that have only each other.
Rooted ==
    /\ parent[initproc] = idleproc
    /\ \A q \in Proc : Live(q) /\ parent[q] = idleproc => q = initproc
    /\ \A S \in SUBSET (Proc \ {idleproc, initproc}) :
          S # {} /\ (\A q \in S : Live(q)) => \E q \in S : parent[q] \notin S

\* nr_process is the number of processes.
Processes == {q \in Proc : Live(q)}
Counted == IsFiniteSet(Processes) /\ nr_process = Cardinality(Processes)

\* Between two ticks the timer at the head has ticks left.
HeadReady == irq # "timers" => HeadOK

\* init is not killed, and waits for any child.
InitStays ==
    ~ exiting[initproc] /\ pc[initproc] # "exit" /\ waited[initproc] = idleproc

\* Fork, reparenting and wait keep the processes a tree.
LEMMA RootedStep ==
    ASSUME IInv, Rooted, [Next]_vars
    PROVE  Rooted'
<1>1. PICK p \in Proc :
         \/ Quiet(p) \/ Fork(p) \/ (p = initproc /\ InitMain)
         \/ WaitSleep(p) \/ SysSleep(p) \/ ReadLoop(p)
         \/ Exit(p) \/ ExitNotify(p) \/ ExitReparent(p)
         \/ WaitReap(p) \/ SysKill(p) \/ IrqExpire \/ IrqWake
  BY Steps
<1>2. /\ state \in [Proc -> ProcState] /\ parent \in [Proc -> Proc \cup {NoProc}]
      /\ Family /\ Live(initproc)
  BY Basics, SchedAssumption DEF Places, Placed, Live
<1>3. ASSUME UNCHANGED parent, \A q \in Proc : Live(q)' <=> Live(q)
      PROVE  Rooted'
  BY <1>3 DEF Rooted
<1>4. CASE Fork(p) \/ (p = initproc /\ InitMain)
  <2>1. PICK c \in Proc :
           /\ NewProcess(p, c) /\ c # p /\ c # idleproc /\ c # initproc
           /\ p # idleproc /\ state[c] = "PROC_UNUSED"
    BY <1>4, NewProcessStep
  <2>2. /\ parent' = [parent EXCEPT ![c] = p]
        /\ state' = [state EXCEPT ![c] = "PROC_RUNNABLE"]
    BY <2>1 DEF NewProcess
  <2>3. \A q \in Proc : q # c => (Live(q)' <=> Live(q)) /\ parent'[q] = parent[q]
    BY <1>2, <2>2 DEF Live
  <2>4. parent'[c] = p /\ ~ Live(c)
    BY <1>2, <2>1, <2>2 DEF Live
  <2>5. ASSUME NEW S \in SUBSET (Proc \ {idleproc, initproc}),
               S # {}, \A q \in S : Live(q)'
        PROVE  \E q \in S : parent'[q] \notin S
    <3>1. CASE S \ {c} = {}
      BY <2>1, <2>4, <2>5, <3>1
    <3>2. CASE S \ {c} # {}
      <4>1. PICK q \in S \ {c} : parent[q] \notin S \ {c}
        <5>1. \A q \in S \ {c} : Live(q)
          BY <2>3, <2>5
        <5> QED
          BY <3>2, <5>1 DEF Rooted
      <4>2. parent[q] # c
        BY <1>2, <2>3, <2>4, <2>5, <4>1 DEF Family
      <4> QED
        BY <2>3, <4>1, <4>2
    <3> QED
      BY <3>1, <3>2
  <2> QED
    BY <1>2, <2>1, <2>3, <2>4, <2>5, SchedAssumption DEF Rooted
<1>5. CASE ExitReparent(p)
  <2>1. p # idleproc /\ \A q \in Proc : Live(q)' <=> Live(q)
    BY <1>5, ExitReparentStep
  <2>2. PICK c \in Proc :
           /\ Live(c) /\ parent[c] = p /\ c # idleproc
           /\ parent' = [parent EXCEPT ![c] = initproc]
    BY <1>5, ExitReparentStep
  <2>3. c # initproc
    BY <2>1, <2>2 DEF Rooted
  <2>4. parent'[c] = initproc /\ \A q \in Proc : q # c => parent'[q] = parent[q]
    BY <1>2, <2>2
  <2>5. ASSUME NEW S \in SUBSET (Proc \ {idleproc, initproc}),
               S # {}, \A q \in S : Live(q)'
        PROVE  \E q \in S : parent'[q] \notin S
    <3>1. CASE c \in S
      BY <2>4, <3>1
    <3>2. CASE c \notin S
      <4>1. \A q \in S : Live(q)
        BY <2>1, <2>5
      <4>2. PICK q \in S : parent[q] \notin S
        BY <2>5, <4>1 DEF Rooted
      <4> QED
        BY <2>4, <3>2, <4>2
    <3> QED
      BY <3>1, <3>2
  <2> QED
    BY <2>1, <2>3, <2>4, <2>5, SchedAssumption DEF Rooted
<1>6. CASE WaitReap(p)
  <2>1. PICK z \in Proc :
           /\ z \notin {idleproc, initproc}
           /\ state' = [state EXCEPT ![z] = "PROC_UNUSED"]
           /\ parent' = [parent EXCEPT ![z] = NoProc]
    BY <1>6, WaitReapStep
  <2>2. ~ Live(z)' /\ \A q \in Proc : q # z => /\ Live(q)' <=> Live(q)
                                               /\ parent'[q] = parent[q]
    BY <1>2, <2>1 DEF Live
  <2>3. ASSUME NEW S \in SUBSET (Proc \ {idleproc, initproc}),
               S # {}, \A q \in S : Live(q)'
        PROVE  \E q \in S : parent'[q] \notin S
    <3>1. z \notin S /\ \A q \in S : Live(q)
      BY <2>2, <2>3
    <3>2. PICK q \in S : parent[q] \notin S
      BY <2>3, <3>1 DEF Rooted
    <3> QED
      BY <2>2, <3>1, <3>2
  <2> QED
    BY <2>1, <2>2, <2>3, SchedAssumption DEF Rooted
<1>7. CASE Quiet(p)
  BY <1>3, <1>7, QuietStep DEF Live
<1>8. CASE WaitSleep(p) \/ SysSleep(p) \/ ReadLoop(p) \/ Exit(p)
  BY <1>3, <1>8, OwnStateStep
<1>9. CASE ExitNotify(p)
  BY <1>3, <1>9, ExitNotifyStep
<1>10. CASE SysKill(p) \/ IrqExpire \/ IrqWake
  <2>1. UNCHANGED parent
    BY <1>10 DEF SysKill, IrqExpire, IrqWake, procVars
  <2> QED
    BY <1>3, <1>10, <2>1, KillChange, IrqChange
<1> QED
  BY <1>1, <1>4, <1>5, <1>6, <1>7, <1>8, <1>9, <1>10

\* nr_process follows the number of processes.
LEMMA CountedStep ==
    ASSUME IInv, Counted, [Next]_vars
    PROVE  Counted'
<1>1. PICK p \in Proc :
         \/ Quiet(p) \/ Fork(p) \/ (p = initproc /\ InitMain)
         \/ WaitSleep(p) \/ SysSleep(p) \/ ReadLoop(p)
         \/ Exit(p) \/ ExitNotify(p) \/ ExitReparent(p)
         \/ WaitReap(p) \/ SysKill(p) \/ IrqExpire \/ IrqWake
  BY Steps
<1>2. state \in [Proc -> ProcState]
  BY Basics
<1>3. ASSUME UNCHANGED nr_process, \A q \in Proc : Live(q)' <=> Live(q)
      PROVE  Counted'
  <2>1. Processes' = Processes
    BY <1>3 DEF Processes
  <2> QED
    BY <1>3, <2>1 DEF Counted
<1>4. CASE Fork(p) \/ (p = initproc /\ InitMain)
  <2>1. PICK c \in Proc : NewProcess(p, c) /\ state[c] = "PROC_UNUSED"
    BY <1>4, NewProcessStep
  <2>2. /\ nr_process' = nr_process + 1
        /\ state' = [state EXCEPT ![c] = "PROC_RUNNABLE"]
    BY <2>1 DEF NewProcess
  <2>3. Processes' = Processes \cup {c} /\ c \notin Processes
    BY <1>2, <2>1, <2>2 DEF Processes, Live
  <2> QED
    BY <2>2, <2>3, FS_AddElement DEF Counted
<1>5. CASE WaitReap(p)
  <2>1. PICK z \in Proc : /\ state[z] = "PROC_ZOMBIE"
                          /\ state' = [state EXCEPT ![z] = "PROC_UNUSED"]
    BY <1>5, WaitReapStep
  <2>2. nr_process' = nr_process - 1
    BY <1>5 DEF WaitReap
  <2>3. Processes' = Processes \ {z} /\ z \in Processes
    BY <1>2, <2>1 DEF Processes, Live
  <2> QED
    BY <2>2, <2>3, FS_RemoveElement DEF Counted
<1>6. CASE Quiet(p)
  BY <1>3, <1>6, QuietStep DEF Live
<1>7. CASE WaitSleep(p) \/ SysSleep(p) \/ ReadLoop(p) \/ Exit(p)
  BY <1>3, <1>7, OwnStateStep
<1>8. CASE ExitNotify(p) \/ ExitReparent(p)
  BY <1>3, <1>8, ExitNotifyStep, ExitReparentStep
<1>9. CASE SysKill(p) \/ IrqExpire \/ IrqWake
  <2>1. UNCHANGED nr_process
    BY <1>9 DEF SysKill, IrqExpire, IrqWake, procVars
  <2> QED
    BY <1>3, <1>9, <2>1, KillChange, IrqChange
<1> QED
  BY <1>1, <1>4, <1>5, <1>6, <1>7, <1>8, <1>9

\* The handler leaves no timer behind that has run out.
LEMMA HeadStep ==
    ASSUME IInv, HeadReady, [Next]_vars
    PROVE  HeadReady'
<1>1. PICK p \in Proc :
         \/ Quiet(p) \/ Fork(p) \/ (p = initproc /\ InitMain)
         \/ WaitSleep(p) \/ SysSleep(p) \/ ReadLoop(p)
         \/ Exit(p) \/ ExitNotify(p) \/ ExitReparent(p)
         \/ WaitReap(p) \/ SysKill(p) \/ IrqExpire \/ IrqWake
  BY Steps
<1>2. timer_list \in Seq(Timer)
  BY Basics
<1>3. CASE SysSleep(p)
  <2>1. PICK time \in 1 .. MaxSleep : add_timer(p, time)
    BY <1>3 DEF SysSleep
  <2>2. HeadOK /\ UNCHANGED irq /\ time \in Nat \ {0}
    BY <1>3, ProcessAssumption DEF HeadReady, SysSleep, At
  <2> QED
    BY <1>2, <2>1, <2>2, AddTimerHead DEF HeadReady
<1>4. CASE SleepReturn(p)
  <2>1. HeadOK /\ UNCHANGED irq /\ del_timer(p)
    BY <1>4 DEF HeadReady, SleepReturn, At
  <2> QED
    BY <1>2, <2>1, DelTimerHead DEF HeadReady
<1>5. CASE IrqTimer \/ IrqExpire
  BY <1>5 DEF HeadReady, IrqTimer, IrqExpire
<1>6. CASE IrqTick
  BY <1>6 DEF HeadReady, IrqTick, HeadExpired, HeadOK
<1>7. CASE IrqChar \/ IrqReturn
  BY <1>7 DEF HeadReady, IrqChar, IrqReturn, HeadOK, schedVars
<1>8. CASE ~ (SysSleep(p) \/ SleepReturn(p) \/ IrqTimer \/ IrqExpire
              \/ IrqTick \/ IrqChar \/ IrqReturn)
  <2>1. UNCHANGED <<timer_list, irq>>
    BY <1>1, <1>8 DEF Quiet, CallSchedule, schedule, TrapReturn, OtherSyscall,
       SysExit, SysWait, SysRead, ExitDone, WaitNoChild, WaitWoken, ReadWoken,
       Fork, InitMain, NewProcess, WaitSleep, ReadLoop, Exit, ExitNotify,
       ExitReparent, WaitReap, SysKill, IrqWake, vars, schedVars
  <2> QED
    BY <2>1 DEF HeadReady, HeadOK
<1> QED
  BY <1>3, <1>4, <1>5, <1>6, <1>7, <1>8

\* Nobody but do_kill makes init leave its loop.
LEMMA InitStaysStep ==
    ASSUME IInv, InitStays, [Next]_vars, initproc \notin Killable
    PROVE  InitStays'
<1>1. PICK p \in Proc :
         \/ Quiet(p) \/ Fork(p) \/ (p = initproc /\ InitMain)
         \/ WaitSleep(p) \/ SysSleep(p) \/ ReadLoop(p)
         \/ Exit(p) \/ ExitNotify(p) \/ ExitReparent(p)
         \/ WaitReap(p) \/ SysKill(p) \/ IrqExpire \/ IrqWake
  BY Steps
<1>2. /\ pc \in [Proc -> Location] /\ exiting \in [Proc -> BOOLEAN]
      /\ waited \in [Proc -> Proc] /\ Places /\ initproc \in Proc
  BY Basics, SchedAssumption DEF TypeOK
<1>3. ~ exiting'[initproc]
  <2>1. CASE SysKill(p)
    <3>1. PICK q \in Killable : exiting' = [exiting EXCEPT ![q] = TRUE]
      BY <2>1, Zenon DEF SysKill
    <3>2. q # initproc
      OBVIOUS
    <3> QED
      BY <1>2, <3>1, <3>2 DEF InitStays
  <2>2. CASE WaitReap(p)
    BY <1>2, <2>2, WaitReapStep DEF InitStays
  <2>3. CASE ~ (SysKill(p) \/ WaitReap(p))
    <3>1. UNCHANGED exiting
      BY <1>1, <2>3 DEF Quiet, CallSchedule, TrapReturn, OtherSyscall, SysExit,
         SysWait, SysRead, ExitDone, WaitNoChild, WaitWoken, SleepReturn,
         ReadWoken, Fork, InitMain, NewProcess, WaitSleep, SysSleep, ReadLoop,
         Exit, ExitNotify, ExitReparent, IrqTimer, IrqTick, IrqChar, IrqReturn,
         IrqExpire, IrqWake, vars, procVars
    <3> QED
      BY <3>1 DEF InitStays
  <2> QED
    BY <2>1, <2>2, <2>3
<1>4. waited'[initproc] = idleproc
  <2>1. CASE SysWait(p)
    <3>1. PICK r \in Proc : waited' = [waited EXCEPT ![p] = r]
      BY <2>1 DEF SysWait
    <3>2. p # initproc
      BY <1>2, <2>1 DEF SysWait, At, Places, Running
    <3> QED
      BY <1>2, <3>1, <3>2 DEF InitStays
  <2>2. CASE WaitReap(p)
    BY <1>2, <2>2, WaitReapStep DEF InitStays
  <2>3. CASE ~ (SysWait(p) \/ WaitReap(p))
    <3>1. UNCHANGED waited
      BY <1>1, <2>3 DEF Quiet, CallSchedule, TrapReturn, OtherSyscall, SysExit,
         SysRead, ExitDone, WaitNoChild, WaitWoken, SleepReturn,
         ReadWoken, Fork, InitMain, NewProcess, WaitSleep, SysSleep, ReadLoop,
         Exit, ExitNotify, ExitReparent, IrqTimer, IrqTick, IrqChar, IrqReturn,
         IrqExpire, IrqWake, SysKill, vars, procVars, stdinVars
    <3> QED
      BY <3>1 DEF InitStays
  <2> QED
    BY <2>1, <2>2, <2>3
<1>5. pc'[initproc] # "exit"
  <2>1. CASE SysExit(p) \/ TrapReturn(p)
    <3>1. p # initproc /\ \E l : pc' = [pc EXCEPT ![p] = l]
      BY <1>2, <2>1 DEF SysExit, TrapReturn, At, Goto, Places, Running
    <3> QED
      BY <1>2, <3>1 DEF InitStays
  <2>2. CASE WaitWoken(p)
    BY <1>2, <2>2 DEF WaitWoken, Goto, InitStays
  <2>3. CASE CallSchedule(p)
    <3>1. PICK l \in DOMAIN Resume : pc' = [pc EXCEPT ![p] = Resume[l]]
      BY <2>3 DEF CallSchedule, Goto
    <3>2. Resume[l] # "exit"
      BY ResumeValues
    <3> QED
      BY <1>2, <3>1, <3>2 DEF InitStays
  <2>4. CASE WaitReap(p)
    <3>1. PICK z \in Proc : pc' = [pc EXCEPT ![p] = AfterReap(p), ![z] = "none"]
      BY <2>4, WaitReapStep
    <3>2. AfterReap(p) # "exit"
      BY DEF AfterReap
    <3> QED
      BY <1>2, <3>1, <3>2 DEF InitStays
  <2>5. CASE Fork(p) \/ (p = initproc /\ InitMain)
    BY <1>2, <2>5, NewProcessStep DEF InitStays
  <2>6. CASE WaitNoChild(p)
    BY <1>2, <2>6 DEF WaitNoChild, Goto, AfterNoChild, InitStays
  <2>7. CASE ReadLoop(p)
    <3>1. \E l \in {"trapret", "read"} : pc' = [pc EXCEPT ![p] = l]
      BY <2>7 DEF ReadLoop, Goto
    <3> QED
      BY <1>2, <3>1 DEF InitStays
  <2>8. CASE ReadWoken(p)
    <3>1. \E l \in {"trapret", "reading"} : pc' = [pc EXCEPT ![p] = l]
      BY <2>8 DEF ReadWoken, Goto
    <3> QED
      BY <1>2, <3>1 DEF InitStays
  <2>9. CASE \/ OtherSyscall(p) \/ SysWait(p) \/ SysRead(p) \/ ExitDone(p)
             \/ SleepReturn(p) \/ WaitSleep(p) \/ SysSleep(p) \/ Exit(p)
             \/ ExitNotify(p) \/ SysKill(p)
    <3>1. \E l : pc' = [pc EXCEPT ![p] = l] /\ l # "exit"
      BY <2>9 DEF OtherSyscall, SysWait, SysRead, ExitDone, SleepReturn,
         WaitSleep, SysSleep, Exit, ExitNotify, SysKill, Goto
    <3> QED
      BY <1>2, <3>1 DEF InitStays
  <2>10. CASE IrqReturn
    BY <1>2, <2>10 DEF IrqReturn, Goto, InitStays
  <2>11. CASE \/ IrqTimer \/ IrqTick \/ IrqChar \/ UNCHANGED vars \/ IrqExpire
              \/ IrqWake \/ ExitReparent(p)
    <3>1. UNCHANGED pc
      BY <2>11 DEF IrqTimer, IrqTick, IrqChar, vars, IrqExpire, IrqWake,
         ExitReparent, procVars
    <3> QED
      BY <3>1 DEF InitStays
  <2> QED
    BY <1>1, <2>1, <2>2, <2>3, <2>4, <2>5, <2>6, <2>7, <2>8, <2>9, <2>10, <2>11
       DEF Quiet
<1> QED
  BY <1>3, <1>4, <1>5 DEF InitStays

AssertInv == Rooted /\ Counted /\ HeadReady /\ InitStays /\ NoPanic

\* A sleeper, and a process that can run, may be woken: if it has to be
\* queued it is not yet.
LEMMA WakeupAllowed ==
    ASSUME IInv, NEW p \in Proc, state[p] \notin {"PROC_ZOMBIE", "PROC_UNUSED"}
    PROVE  WakeupOK(p)
  BY Basics DEF WakeupOK, EnqueueOK, RunQueueExact

\* The wake-ups of do_exit pass the assertions.
LEMMA WakeWaiterAllowed ==
    ASSUME IInv, NoPanic, NEW p \in Proc, WakeWaiter(p)
    PROVE  NoPanic'
<1>1. CASE wait_state[p] = "WT_CHILD"
  <2>1. WakeupOK(p)
    BY <1>1, WaitingSleeps, WakeupAllowed
  <2>2. assert(WakeupOK(p))
    BY <1>1, Zenon DEF WakeWaiter
  <2> QED
    BY <2>1, <2>2 DEF assert, NoPanic
<1>2. CASE wait_state[p] # "WT_CHILD"
  BY <1>2 DEF WakeWaiter, NoPanic
<1> QED
  BY <1>1, <1>2

\* When init has no children nobody is left but idle and init.
LEMMA OnlyInitLeft ==
    ASSUME IInv, Rooted, Counted, Children(initproc) = {}
    PROVE  /\ Processes = {idleproc, initproc}
           /\ nr_process = 2
<1>1. /\ Family /\ initproc \in Proc /\ idleproc \in Proc /\ Live(initproc)
      /\ Live(idleproc) /\ idleproc # initproc
  BY Basics, SchedAssumption DEF Places, Placed, Live
<1>2. Processes = {idleproc, initproc}
  <2> DEFINE S == Processes \ {idleproc, initproc}
  <2>1. SUFFICES ASSUME S # {} PROVE FALSE
    BY <1>1 DEF Processes
  <2>2. S \in SUBSET (Proc \ {idleproc, initproc}) /\ \A q \in S : Live(q)
    BY DEF Processes
  <2>3. PICK q \in S : parent[q] \notin S
    BY <2>1, <2>2 DEF Rooted
  <2>4. q \in Proc /\ Live(q) /\ q \notin {idleproc, initproc}
    BY <2>2, <2>3
  <2>5. parent[q] \in Proc /\ Live(parent[q])
    BY <1>1, <2>4 DEF Family
  <2>6. parent[q] # initproc
    BY <2>4 DEF Children
  <2>7. parent[q] # idleproc
    BY <2>4 DEF Rooted
  <2> QED
    BY <2>3, <2>5, <2>6, <2>7 DEF Processes
<1>3. Cardinality({idleproc, initproc}) = 2
  <2>1. initproc \notin {idleproc}
    BY <1>1
  <2>2. IsFiniteSet({idleproc}) /\ Cardinality({idleproc}) = 1
    BY FS_Singleton
  <2>3. Cardinality({idleproc} \cup {initproc}) = 2
    BY <2>1, <2>2, FS_AddElement
  <2>4. {idleproc, initproc} = {idleproc} \cup {initproc}
    OBVIOUS
  <2> QED
    BY <2>3, <2>4
<1> QED
  BY <1>2, <1>3 DEF Counted

\* No step fails an assertion.
LEMMA NoPanicStep ==
    ASSUME IInv, IInv', AssertInv, [Next]_vars
    PROVE  NoPanic'
<1>1. PICK p \in Proc :
         \/ Quiet(p) \/ Fork(p) \/ (p = initproc /\ InitMain)
         \/ WaitSleep(p) \/ SysSleep(p) \/ ReadLoop(p)
         \/ Exit(p) \/ ExitNotify(p) \/ ExitReparent(p)
         \/ WaitReap(p) \/ SysKill(p) \/ IrqExpire \/ IrqWake
  BY Steps
<1>2. /\ pc \in [Proc -> Location] /\ Places /\ RunQueueExact /\ NoPanic
      /\ Rooted /\ Counted /\ HeadReady /\ InitStays /\ initproc \in Proc
      /\ current \in Proc /\ \A q \in Proc : Placed(q)
  BY Basics, SchedAssumption DEF AssertInv, Places
<1>3. CASE CallSchedule(p)
  <2>1. ScheduleOK
    BY <1>2 DEF ScheduleOK, Requeues, EnqueueOK, RunQueueExact
  <2>2. pc'[current'] # "returned"
    BY Zenon DEF IInv, Places
  <2> QED
    BY <1>3, <2>1, <2>2 DEF CallSchedule, assert, NoPanic
<1>4. CASE Fork(p) \/ (p = initproc /\ InitMain)
  <2>1. PICK c \in Proc : NewProcess(p, c) /\ state[c] = "PROC_UNUSED"
    BY <1>4, NewProcessStep
  <2>2. EnqueueOK(c)
    BY <1>2, <2>1 DEF EnqueueOK, RunQueueExact
  <2> QED
    BY <2>1, <2>2 DEF NewProcess, assert, NoPanic
<1>5. CASE Exit(p)
  <2>1. p \notin {idleproc, initproc}
    BY <1>2, <1>5 DEF Exit, At, InitStays, Places
  <2> QED
    BY <1>5, <2>1 DEF Exit, assert, NoPanic
<1>6. CASE ExitNotify(p)
  BY <1>2, <1>6, ExitNotifyStep, WakeWaiterAllowed
<1>7. CASE ExitReparent(p)
  <2>1. WakeWaiter(initproc) \/ UNCHANGED panic
    BY <1>7, ExitReparentStep
  <2> QED
    BY <1>2, <2>1, WakeWaiterAllowed DEF NoPanic
<1>8. CASE WaitReap(p)
  BY <1>8, WaitReapStep DEF assert, NoPanic
<1>9. CASE WaitNoChild(p)
  <2>1. CASE p = initproc
    <3>1. Candidates(initproc) = {} /\ waited[initproc] = idleproc
      BY <1>2, <1>9, <2>1 DEF WaitNoChild, InitStays
    <3>2. Children(initproc) = {}
      BY <3>1 DEF Candidates
    <3>3. nr_process = 2 /\ {q \in Proc : Live(q)} = {idleproc, initproc}
      BY <1>2, <3>2, OnlyInitLeft DEF Processes
    <3> QED
      BY <1>9, <3>3 DEF WaitNoChild, assert, NoPanic
  <2>2. CASE p # initproc
    BY <1>9, <2>2 DEF WaitNoChild, assert, NoPanic
  <2> QED
    BY <2>1, <2>2
<1>10. CASE SysKill(p)
  <2>1. PICK q \in Killable :
           IF Interruptible(wait_state[q])
           THEN wakeup_proc(q) /\ assert(WakeupOK(q))
           ELSE UNCHANGED <<state, wait_state, run_list, time_slice, panic>>
    BY <1>10, Zenon DEF SysKill
  <2>2. CASE Interruptible(wait_state[q])
    <3>1. assert(WakeupOK(q))
      BY <2>1, <2>2, Zenon
    <3>2. WakeupOK(q)
      BY <2>2, ProcessAssumption, WaitingSleeps, WakeupAllowed DEF Interruptible
    <3> QED
      BY <3>1, <3>2 DEF assert, NoPanic
  <2>3. CASE ~ Interruptible(wait_state[q])
    <3>1. UNCHANGED panic
      BY <2>1, <2>3, Zenon
    <3> QED
      BY <1>2, <3>1 DEF NoPanic
  <2> QED
    BY <2>2, <2>3
<1>11. CASE IrqTimer
  BY <1>2, <1>11 DEF IrqTimer, InterruptsOn, HeadReady, assert, NoPanic
<1>12. CASE IrqExpire
  <2> DEFINE q == timer_list[1].proc
  <2>1. assert(/\ wait_state[q] = "0" \/ Interruptible(wait_state[q])
               /\ WakeupOK(q))
    BY <1>12 DEF IrqExpire
  <2>2. q \in Proc /\ Armed(q)
    BY <1>12, Basics, HeadTimer DEF IrqExpire
  <2> HIDE DEF q
  <2>3. pc[q] \in {"sleep", "slept"}
    BY <2>2, Basics DEF Links
  <2>4. /\ state[q] \notin {"PROC_ZOMBIE", "PROC_UNUSED"}
        /\ wait_state[q] \in {"0", "WT_TIMER"}
    BY <1>2, <2>2, <2>3 DEF Placed, Dead, Asleep
  <2>5. WakeupOK(q)
    BY <2>2, <2>4, WakeupAllowed
  <2> QED
    BY <2>1, <2>4, <2>5 DEF assert, NoPanic, Interruptible
<1>13. CASE IrqWake
  <2> DEFINE q == Head(kbd_queue)
  <2>1. assert(WakeupOK(q))
    BY <1>13 DEF IrqWake
  <2>2. q \in Proc /\ Waiting(q)
    BY <1>13, IrqWakeQueue
  <2> HIDE DEF q
  <2>3. state[q] \notin {"PROC_ZOMBIE", "PROC_UNUSED"}
    BY <1>2, <2>2, Basics DEF Links, Placed, Dead
  <2> QED
    BY <2>1, <2>2, <2>3, WakeupAllowed DEF assert, NoPanic
<1>14. CASE ~ (\/ CallSchedule(p) \/ Fork(p) \/ (p = initproc /\ InitMain)
               \/ Exit(p) \/ ExitNotify(p) \/ ExitReparent(p) \/ WaitReap(p)
               \/ WaitNoChild(p) \/ SysKill(p) \/ IrqTimer \/ IrqExpire
               \/ IrqWake)
  <2>1. UNCHANGED panic
    BY <1>1, <1>14 DEF Quiet, TrapReturn, OtherSyscall, SysExit, SysWait,
       SysRead, ExitDone, WaitWoken, SleepReturn, ReadWoken, WaitSleep,
       SysSleep, ReadLoop, IrqTick, IrqChar, IrqReturn, vars
  <2> QED
    BY <1>2, <2>1 DEF NoPanic
<1> QED
  BY <1>3, <1>4, <1>5, <1>6, <1>7, <1>8, <1>9, <1>10, <1>11, <1>12, <1>13, <1>14

\* proc_init leaves two processes, init the child of idle.
LEMMA InitAssertInv == Init => AssertInv
<1> SUFFICES ASSUME Init
             PROVE  AssertInv
  OBVIOUS
<1>1. \A q \in Proc : Live(q) <=> q \in {idleproc, initproc}
  BY DEF Init, Live
<1>2. Rooted
  BY <1>1, SchedAssumption, ProcessAssumption DEF Init, Rooted
<1>3. Counted
  <2>1. Processes = {idleproc} \cup {initproc}
    BY <1>1, SchedAssumption DEF Processes
  <2>2. IsFiniteSet({idleproc}) /\ Cardinality({idleproc}) = 1
    BY FS_Singleton
  <2>3. initproc \notin {idleproc}
    BY SchedAssumption
  <2>4. IsFiniteSet(Processes) /\ Cardinality(Processes) = 2
    BY <2>1, <2>2, <2>3, FS_AddElement
  <2> QED
    BY <2>4 DEF Init, Counted
<1>4. HeadReady /\ NoPanic
  BY DEF Init, HeadReady, HeadOK, NoPanic
<1>5. InitStays
  BY SchedAssumption DEF Init, InitStays
<1> QED
  BY <1>2, <1>3, <1>4, <1>5 DEF AssertInv

\* The kernel's assertions hold for any number of processes, if programs do
\* not kill init: no zombie is woken, nothing is queued twice, the timers
\* never run late, the dead stay dead, and init is the last to stop.  (A kill
\* of init is accepted by do_kill, and ends in do_exit's panic.)
THEOREM KernelNeverPanics ==
    ASSUME initproc \notin Killable
    PROVE  Spec => []NoPanic
<1>1. IInv /\ IInv' /\ AssertInv /\ [Next]_vars => AssertInv'
  BY RootedStep, CountedStep, HeadStep, InitStaysStep, NoPanicStep DEF AssertInv
<1>2. AssertInv => NoPanic
  BY DEF AssertInv
<1> QED
  BY <1>1, <1>2, InitAssertInv, Invariance, PTL DEF Spec
=============================================================================
