-------------------------- MODULE SemaphoreProofs --------------------------
(***************************************************************************)
(* What the threads of Semaphore keep to whatever philosophers they are,   *)
(* for every number of them: Threads(S), where S is the set of semaphores, *)
(* and one lemma per step.  PhilSemaProofs adds what its philosophers do.  *)
(***************************************************************************)
EXTENDS Semaphore, SchedProofs

----------------------------------------------------------------------------
(* The invariant of the threads *)

InDown(i) == call[i] \in {"down", "downed"}
InSleep(i) == call[i] \in {"sleep", "slept"}
Asleep(p) == state[p] = "PROC_SLEEPING"

\* i waits in the queue of a semaphore.
Waits(i) == InDown(i) /\ Asleep(i)

ThreadTypes(S) ==
    /\ SchedTypeOK
    /\ value \in [S -> Nat]
    /\ sem_queue \in [S -> Seq(Phil)]
    /\ wakeup_flags \in [Phil -> {"WT_INTERRUPTED", "WT_KSEM"}]
    /\ call \in [Proc -> {"none", "down", "downed", "sleep", "slept", "wait",
                          "idle", "dead", "returned"}]
    /\ iter \in [Phil -> 0 .. TIMES]
    /\ reaped \in 0 .. N
    /\ irq \in BOOLEAN /\ panic \in BOOLEAN

\* How the state of a philosopher goes with the function it is in.  One that
\* is awake behind the schedule of down was woken by up.
Placed(i) ==
    /\ call[i] \notin {"wait", "idle"}
    /\ call[i] = "none" => state[i] = "PROC_RUNNABLE"
    /\ InDown(i) \/ InSleep(i) => state[i] \in {"PROC_RUNNABLE", "PROC_SLEEPING"}
    /\ call[i] \in {"dead", "returned"} => state[i] \in {"PROC_ZOMBIE", "PROC_UNUSED"}
    /\ InDown(i) /\ ~ Asleep(i) => wakeup_flags[i] = "WT_KSEM"
    /\ Waits(i) => wait_state[i] = "WT_KSEM"
    /\ InSleep(i) /\ Asleep(i) => wait_state[i] = "WT_TIMER"
    /\ ~ Asleep(i) => wait_state[i] = "0"
    /\ current = i => call[i] # "returned"
    /\ current = i /\ call[i] \in {"downed", "slept"} => ~ Asleep(i)

Places ==
    /\ \A i \in Phil : Placed(i)
    /\ call[idleproc] = "idle" /\ state[idleproc] = "PROC_RUNNABLE"
    /\ call[initproc] \in {"none", "wait"}
    /\ state[initproc] \in {"PROC_RUNNABLE", "PROC_SLEEPING"}
    /\ Asleep(initproc) => wait_state[initproc] = "WT_CHILD"
    /\ ~ Asleep(initproc) => wait_state[initproc] = "0"
    /\ current = initproc /\ call[initproc] = "none" => ~ Asleep(initproc)

\* The timers armed are those of the threads asleep in do_sleep.
TimersExact ==
    /\ OneTimerEach
    /\ \A p \in Proc : Armed(p) <=> p \in Phil /\ InSleep(p) /\ Asleep(p)
    /\ ~ irq => HeadOK

\* The queues hold the threads asleep in down, each one once.
QueuesExact(S) ==
    /\ \A x \in S : IsInjective(sem_queue[x])
    /\ \A x, y \in S, i \in Phil :
          i \in ToSet(sem_queue[x]) /\ i \in ToSet(sem_queue[y]) => x = y
    /\ \A i \in Phil : Waits(i) <=> \E x \in S : i \in ToSet(sem_queue[x])

Threads(S) ==
    /\ ThreadTypes(S) /\ Places /\ RunQueueExact
    /\ TimersExact /\ QueuesExact(S) /\ NoPanic

LEMMA Basics ==
    ASSUME NEW S, Threads(S)
    PROVE  /\ current \in Proc
           /\ state \in [Proc -> ProcState] /\ wait_state \in [Proc -> WaitState]
           /\ run_list \in Seq(Proc) /\ timer_list \in Seq(Timer)
           /\ OneTimerEach /\ SchedTypeOK /\ RunQueueExact /\ NoPanic
           /\ \A i \in Phil : i \in Proc /\ i \notin {idleproc, initproc} /\ Placed(i)
           /\ \A p \in Proc : p \in Phil \cup {idleproc, initproc}
           /\ idleproc \in Proc /\ initproc \in Proc /\ idleproc # initproc
           /\ state[idleproc] = "PROC_RUNNABLE" /\ call[idleproc] = "idle"
           /\ call \in [Proc -> {"none", "down", "downed", "sleep", "slept",
                                 "wait", "idle", "dead", "returned"}]
           /\ \A p \in Proc : call[p] \in {"none", "down", "downed", "sleep",
                                 "slept", "wait", "idle", "dead", "returned"}
  BY SchedAssumption, SemaphoreAssumption
     DEF Threads, ThreadTypes, SchedTypeOK, TimerListTypeOK, Places, TimersExact

----------------------------------------------------------------------------
(* Parts of a step *)

\* Nothing the invariant speaks of changes.
LEMMA SameThreads ==
    ASSUME NEW S, Threads(S),
           UNCHANGED <<schedVars, semVars, call, iter, reaped, irq, panic>>
    PROVE  /\ Threads(S)'
           /\ \A i : Waits(i)' <=> Waits(i)
  BY DEF Threads, ThreadTypes, Places, Placed, TimersExact, QueuesExact,
         RunQueueExact, NoPanic, Waits, InDown, InSleep, Asleep, schedVars,
         semVars, SchedTypeOK, TimerListTypeOK, OneTimerEach, Armed, HeadOK,
         Queued

LEMMA SameTimers ==
    ASSUME UNCHANGED timer_list
    PROVE  /\ OneTimerEach' <=> OneTimerEach
           /\ HeadOK' <=> HeadOK
           /\ \A p : Armed(p)' <=> Armed(p)
  BY DEF OneTimerEach, HeadOK, Armed

\* wakeup_proc, of a thread that sleeps: its asserts hold, and it is queued
\* unless it is about to call schedule.
LEMMA Woken ==
    ASSUME NEW S, Threads(S), NEW w \in Proc, Asleep(w), wakeup_proc(w),
           UNCHANGED current
    PROVE  /\ WakeupOK(w) /\ RunQueueExact'
           /\ state' = [state EXCEPT ![w] = "PROC_RUNNABLE"]
           /\ wait_state' = [wait_state EXCEPT ![w] = "0"]
           /\ state' \in [Proc -> ProcState]
           /\ wait_state' \in [Proc -> WaitState]
           /\ run_list' \in Seq(Proc)
           /\ time_slice' \in [Proc -> 0 .. MAX_TIME_SLICE]
<1>1. WakeupOK(w)
  BY Basics DEF WakeupOK, EnqueueOK, RunQueueExact, Asleep
<1>2. /\ state' = [state EXCEPT ![w] = "PROC_RUNNABLE"]
      /\ wait_state' = [wait_state EXCEPT ![w] = "0"]
  BY Basics, WakeupEffect DEF Asleep
<1> QED
  BY <1>1, <1>2, Basics, WakeupQueue, WakeupType

\* In a step that touches no timer the timers stay exact, if those asleep in
\* do_sleep stay the same.
LEMMA TimersKept ==
    ASSUME NEW S, Threads(S), UNCHANGED <<timer_list, irq>>,
           \A p \in Phil : (InSleep(p) /\ Asleep(p))' <=> InSleep(p) /\ Asleep(p)
    PROVE  TimersExact'
  BY SameTimers DEF Threads, TimersExact

\* The same for the queues of semaphores.
LEMMA QueuesKept ==
    ASSUME NEW S, Threads(S), UNCHANGED sem_queue,
           \A i \in Phil : Waits(i)' <=> Waits(i)
    PROVE  QueuesExact(S)'
  BY DEF Threads, QueuesExact

----------------------------------------------------------------------------
(* The steps that change neither semaphores nor who waits for one *)

\* schedule(), from wherever it is called.
LEMMA CallScheduleStep ==
    ASSUME NEW S, Threads(S), NEW p \in Proc, CallSchedule(p)
    PROVE  /\ Threads(S)' /\ UNCHANGED <<value, sem_queue, pc>>
           /\ \A i \in Phil : Waits(i)' <=> Waits(i)
<1>1. PICK f \in DOMAIN Resume : In(p, f) /\ Enter(p, Resume[f])
  BY DEF CallSchedule
<1>2. /\ current = p /\ call[p] = f /\ f \in {"down", "sleep", "wait", "idle", "dead"}
      /\ call' = [call EXCEPT ![p] = Resume[f]]
      /\ Resume["down"] = "downed" /\ Resume["sleep"] = "slept"
      /\ Resume["wait"] = "none" /\ Resume["idle"] = "idle"
      /\ Resume["dead"] = "returned"
  BY <1>1 DEF In, Enter, Resume
<1>3. /\ schedule /\ panic' = ~ (ScheduleOK /\ call'[current'] # "returned")
      /\ UNCHANGED <<value, sem_queue, wakeup_flags, pc, iter, reaped, irq>>
      /\ UNCHANGED <<state, wait_state, timer_list>>
  BY DEF CallSchedule, assert, semVars, schedule
<1>4. /\ RunQueueExact' /\ current' \in Proc /\ state[current'] = "PROC_RUNNABLE"
      /\ SchedTypeOK'
  BY <1>3, Basics, ScheduleQueue, ScheduleType
<1>5. \A i \in Phil : /\ InDown(i)' <=> InDown(i)
                      /\ InSleep(i)' <=> InSleep(i)
                      /\ Asleep(i)' <=> Asleep(i)
  BY <1>2, <1>3, Basics DEF InDown, InSleep, Asleep
<1>6. ThreadTypes(S)'
  BY <1>2, <1>3, <1>4, Basics DEF Threads, ThreadTypes
<1>7. ASSUME NEW i \in Phil
      PROVE  Placed(i)'
  <2>1. /\ i \in Proc /\ Placed(i) /\ i # idleproc /\ i # initproc
        /\ state'[i] = state[i] /\ wait_state'[i] = wait_state[i]
        /\ wakeup_flags'[i] = wakeup_flags[i]
    BY <1>3, Basics
  <2>2. call'[i] = IF i = p THEN Resume[f] ELSE call[i]
    BY <1>2, <2>1, Basics
  <2>3. current' = i => state[i] = "PROC_RUNNABLE"
    BY <1>4
  <2> QED
    BY <1>2, <1>5, <2>1, <2>2, <2>3 DEF Placed, InDown, InSleep, Waits, Asleep
<1>8. Places'
  <2>1. /\ call'[idleproc] = "idle"
        /\ call'[initproc] \in {"none", "wait"}
    BY <1>2, Basics DEF Threads, Places
  <2> QED
    BY <1>3, <1>4, <1>7, <2>1 DEF Threads, Places, Asleep
<1>9. NoPanic'
  <2>1. ScheduleOK
    BY Basics DEF ScheduleOK, Requeues, EnqueueOK, RunQueueExact
  <2>2. current' \in Phil => call'[current'] # "returned"
    BY <1>4, <1>7, <1>3 DEF Placed
  <2>3. current' \notin Phil => call'[current'] # "returned"
    BY <1>4, <1>8, Basics DEF Places
  <2> QED
    BY <1>3, <2>1, <2>2, <2>3 DEF NoPanic
<1>10. TimersExact'
  BY <1>3, <1>5, TimersKept
<1>11. QueuesExact(S)'
  BY <1>3, <1>5, QueuesKept DEF Waits
<1> QED
  BY <1>3, <1>4, <1>5, <1>6, <1>8, <1>9, <1>10, <1>11 DEF Threads, Waits

\* down after schedule(): up has taken the thread out of the queue already, and
\* has stored WT_KSEM.
LEMMA DownedStep ==
    ASSUME NEW S, Threads(S), NEW i \in Phil, Downed(i)
    PROVE  /\ Threads(S)' /\ UNCHANGED <<value, sem_queue, pc>>
           /\ \A j \in Phil : Waits(j)' <=> Waits(j)
<1>1. /\ current = i /\ call[i] = "downed"
      /\ call' = [call EXCEPT ![i] = "none"]
      /\ panic' = ~ (wakeup_flags[i] = "WT_KSEM")
      /\ UNCHANGED <<current, state, wait_state, need_resched, time_slice,
                     run_list, timer_list, value, wakeup_flags, pc, iter, reaped, irq>>
  BY DEF Downed, In, Enter, assert, schedVars
<1>2. /\ i \in Proc /\ Placed(i) /\ state[i] = "PROC_RUNNABLE"
      /\ i # idleproc /\ i # initproc
  BY <1>1, Basics DEF Placed, Asleep, InDown
<1>3. ~ Asleep(i) /\ InDown(i) /\ wakeup_flags[i] = "WT_KSEM"
  BY <1>1, <1>2 DEF Asleep, InDown, Placed
<1>4. UNCHANGED sem_queue
  <2>1. sem_queue \in [S -> Seq(Phil)]
    BY DEF Threads, ThreadTypes
  <2>2. \A x \in S : i \notin ToSet(sem_queue[x])
    BY <1>3 DEF Threads, QueuesExact, Waits
  <2>3. sem_queue' = [x \in S |-> sem_queue[x]]
    BY <2>1, <2>2 DEF Downed
  <2> QED
    BY <2>1, <2>3
<1>5. \A j \in Phil : /\ Waits(j)' <=> Waits(j)
                      /\ (InSleep(j) /\ Asleep(j))' <=> InSleep(j) /\ Asleep(j)
  BY <1>1, <1>2, <1>3, Basics DEF InDown, InSleep, Asleep, Waits
<1>6. ThreadTypes(S)'
  BY <1>1, <1>4, Basics DEF Threads, ThreadTypes, SchedTypeOK, TimerListTypeOK
<1>7. RunQueueExact'
  BY <1>1, Basics DEF RunQueueExact, Queued
<1>8. Places'
  BY <1>1, <1>2, <1>3, Basics
     DEF Threads, Places, Placed, InDown, InSleep, Waits, Asleep
<1>9. TimersExact' /\ QueuesExact(S)'
  BY <1>1, <1>4, <1>5, TimersKept, QueuesKept
<1> QED
  BY <1>1, <1>3, <1>4, <1>5, <1>6, <1>7, <1>8, <1>9 DEF Threads, NoPanic

\* do_sleep after schedule(): the tick has taken the timer out of the list already.
LEMMA SleptStep ==
    ASSUME NEW S, Threads(S), NEW i \in Phil, Slept(i)
    PROVE  /\ Threads(S)' /\ UNCHANGED <<value, sem_queue, pc>>
           /\ \A j \in Phil : Waits(j)' <=> Waits(j)
<1>1. /\ current = i /\ call[i] = "slept"
      /\ call' = [call EXCEPT ![i] = "none"] /\ del_timer(i)
      /\ UNCHANGED <<current, state, wait_state, need_resched, time_slice,
                     run_list, value, sem_queue, wakeup_flags, pc, iter, reaped,
                     irq, panic>>
  BY DEF Slept, In, Enter, semVars
<1>2. /\ i \in Proc /\ Placed(i) /\ ~ Asleep(i) /\ InSleep(i)
      /\ i # idleproc /\ i # initproc
  BY <1>1, Basics DEF Placed, InSleep
<1>3. UNCHANGED timer_list
  <2>1. ~ Armed(i)
    BY <1>2 DEF Threads, TimersExact
  <2> QED
    BY <1>1, <2>1 DEF del_timer
<1>4. state[i] = "PROC_RUNNABLE"
  BY <1>2 DEF Placed, Asleep
<1>5. \A j \in Phil : /\ Waits(j)' <=> Waits(j)
                      /\ (InSleep(j) /\ Asleep(j))' <=> InSleep(j) /\ Asleep(j)
  BY <1>1, <1>2, Basics DEF InDown, InSleep, Asleep, Waits
<1>6. ThreadTypes(S)'
  BY <1>1, <1>3, Basics DEF Threads, ThreadTypes, SchedTypeOK, TimerListTypeOK
<1>7. RunQueueExact'
  BY <1>1, Basics DEF RunQueueExact, Queued
<1>8. Places'
  BY <1>1, <1>2, <1>4, Basics
     DEF Threads, Places, Placed, InDown, InSleep, Waits, Asleep
<1>9. TimersExact' /\ QueuesExact(S)'
  BY <1>1, <1>3, <1>5, TimersKept, QueuesKept
<1> QED
  BY <1>1, <1>5, <1>6, <1>7, <1>8, <1>9 DEF Threads, NoPanic

\* init frees a philosopher that has returned, or goes to sleep.
LEMMA WaitPhilStep ==
    ASSUME NEW S, Threads(S), WaitPhil
    PROVE  /\ Threads(S)' /\ UNCHANGED <<value, sem_queue, pc>>
           /\ \A j \in Phil : Waits(j)' <=> Waits(j)
<1>1. /\ current = initproc /\ call[initproc] = "none" /\ reaped < N
      /\ UNCHANGED <<current, need_resched, time_slice, run_list, timer_list,
                     value, sem_queue, wakeup_flags, pc, iter, irq, panic>>
  BY DEF WaitPhil, In, Running, semVars
<1>2. reaped \in Phil /\ N \in Nat
  BY <1>1, SemaphoreAssumption DEF Threads, ThreadTypes, Phil
<1>3. CASE /\ state[reaped] = "PROC_ZOMBIE"
           /\ state' = [state EXCEPT ![reaped] = "PROC_UNUSED"]
           /\ reaped' = reaped + 1
           /\ UNCHANGED <<wait_state, call>>
  <2>1. \A j \in Phil : /\ Waits(j)' <=> Waits(j)
                        /\ (InSleep(j) /\ Asleep(j))' <=> InSleep(j) /\ Asleep(j)
    BY <1>2, <1>3, Basics DEF InDown, InSleep, Asleep, Waits
  <2>2. reaped' \in 0 .. N
    BY <1>1, <1>2, <1>3 DEF Phil
  <2>3. ThreadTypes(S)'
    BY <1>1, <1>3, <2>2, Basics
       DEF Threads, ThreadTypes, SchedTypeOK, TimerListTypeOK, ProcState
  <2>4. RunQueueExact'
    BY <1>1, <1>2, <1>3, Basics DEF RunQueueExact, Queued
  <2>5. Places'
    BY <1>1, <1>2, <1>3, Basics
       DEF Threads, Places, Placed, InDown, InSleep, Waits, Asleep
  <2>6. TimersExact' /\ QueuesExact(S)'
    BY <1>1, <2>1, TimersKept, QueuesKept
  <2> QED
    BY <1>1, <2>1, <2>3, <2>4, <2>5, <2>6 DEF Threads, NoPanic
<1>4. CASE /\ state' = [state EXCEPT ![initproc] = "PROC_SLEEPING"]
           /\ wait_state' = [wait_state EXCEPT ![initproc] = "WT_CHILD"]
           /\ Enter(initproc, "wait")
           /\ UNCHANGED reaped
  <2>1. \A j \in Phil : /\ Waits(j)' <=> Waits(j)
                        /\ (InSleep(j) /\ Asleep(j))' <=> InSleep(j) /\ Asleep(j)
    BY <1>4, Basics DEF InDown, InSleep, Asleep, Waits, Enter
  <2>2. ThreadTypes(S)'
    BY <1>1, <1>4, Basics
       DEF Threads, ThreadTypes, SchedTypeOK, TimerListTypeOK, ProcState, WaitState,
           Enter
  <2>3. RunQueueExact'
    BY <1>1, <1>4, Basics DEF RunQueueExact, Queued
  <2>4. Places'
    BY <1>1, <1>4, Basics
       DEF Threads, Places, Placed, InDown, InSleep, Waits, Asleep, Enter
  <2>5. TimersExact' /\ QueuesExact(S)'
    BY <1>1, <2>1, TimersKept, QueuesKept
  <2> QED
    BY <1>1, <2>1, <2>2, <2>3, <2>4, <2>5 DEF Threads, NoPanic
<1> QED
  BY <1>3, <1>4 DEF WaitPhil

\* The timer interrupt finds time left at the head: whoever expired was taken out.
LEMMA IrqTimerStep ==
    ASSUME NEW S, Threads(S), IrqTimer
    PROVE  /\ Threads(S)' /\ UNCHANGED <<value, sem_queue, pc>>
           /\ \A j \in Phil : Waits(j)' <=> Waits(j)
<1>1. /\ irq' = TRUE /\ HeadOK /\ decrement_head /\ panic' = FALSE
      /\ UNCHANGED <<current, state, wait_state, need_resched, time_slice,
                     run_list, value, sem_queue, wakeup_flags, pc, call, iter, reaped>>
  BY DEF Threads, TimersExact, IrqTimer, assert, semVars, threadVars
<1>2. /\ timer_list' \in Seq(Timer) /\ OneTimerEach'
      /\ \A q : Armed(q)' <=> Armed(q)
  BY <1>1, Basics, DecrementHeadOwners DEF OneTimerEach
<1>3. ThreadTypes(S)'
  BY <1>1, <1>2 DEF Threads, ThreadTypes, SchedTypeOK, TimerListTypeOK
<1>4. RunQueueExact' /\ Places' /\ QueuesExact(S)'
  BY <1>1 DEF Threads, RunQueueExact, Queued, Places, Placed, QueuesExact,
              InDown, InSleep, Waits, Asleep
<1>5. TimersExact'
  BY <1>1, <1>2 DEF Threads, TimersExact, InSleep, Asleep
<1> QED
  BY <1>1, <1>3, <1>4, <1>5 DEF Threads, NoPanic, Waits, InDown, Asleep

\* An expired timer wakes its owner, who sleeps in do_sleep and nowhere else.
LEMMA IrqExpireStep ==
    ASSUME NEW S, Threads(S), IrqExpire
    PROVE  /\ Threads(S)' /\ UNCHANGED <<value, sem_queue, pc>>
           /\ \A j \in Phil : Waits(j)' <=> Waits(j)
<1> DEFINE p == timer_list[1].proc
<1>1. /\ irq /\ wakeup_proc(p) /\ del_timer(p)
      /\ panic' = ~ (/\ wait_state[p] = "0" \/ Interruptible(wait_state[p])
                     /\ WakeupOK(p))
      /\ UNCHANGED <<current, need_resched, value, sem_queue, wakeup_flags, pc,
                     call, iter, reaped, irq>>
  BY DEF IrqExpire, assert, semVars, threadVars
<1>2. p \in Proc /\ Armed(p)
  BY Basics, HeadTimer DEF IrqExpire
<1> HIDE DEF p
<1>3. p \in Phil /\ InSleep(p) /\ Asleep(p)
  BY <1>2 DEF Threads, TimersExact
<1>4. wait_state[p] = "WT_TIMER"
  BY <1>3, Basics DEF Placed
<1>5. /\ WakeupOK(p) /\ RunQueueExact'
      /\ state' = [state EXCEPT ![p] = "PROC_RUNNABLE"]
      /\ wait_state' = [wait_state EXCEPT ![p] = "0"]
      /\ state' \in [Proc -> ProcState]
      /\ wait_state' \in [Proc -> WaitState]
      /\ run_list' \in Seq(Proc)
      /\ time_slice' \in [Proc -> 0 .. MAX_TIME_SLICE]
  BY <1>1, <1>2, <1>3, Woken
<1>6. /\ timer_list' \in Seq(Timer) /\ OneTimerEach'
      /\ \A q : Armed(q)' <=> Armed(q) /\ q # p
  BY <1>1, Basics, DelTimerOwners
<1>7. ThreadTypes(S)'
  BY <1>1, <1>5, <1>6 DEF Threads, ThreadTypes, SchedTypeOK, TimerListTypeOK
<1>8. \A j \in Phil : /\ Waits(j)' <=> Waits(j)
                      /\ InSleep(j)' <=> InSleep(j)
                      /\ Asleep(j)' <=> Asleep(j) /\ j # p
  BY <1>1, <1>3, <1>5, Basics DEF InDown, InSleep, Asleep, Waits
<1>9. Places'
  BY <1>1, <1>3, <1>5, Basics
     DEF Threads, Places, Placed, InDown, InSleep, Waits, Asleep
<1>10. TimersExact'
  BY <1>1, <1>6, <1>8 DEF Threads, TimersExact
<1>11. QueuesExact(S)'
  BY <1>1, <1>8, QueuesKept
<1>12. NoPanic'
  BY <1>1, <1>4, <1>5 DEF NoPanic, Interruptible
<1> QED
  BY <1>1, <1>5, <1>7, <1>8, <1>9, <1>10, <1>11, <1>12 DEF Threads

\* The interrupt ends when the head of the list has time left.
LEMMA IrqTickStep ==
    ASSUME NEW S, Threads(S), IrqTick
    PROVE  /\ Threads(S)' /\ UNCHANGED <<value, sem_queue, pc>>
           /\ \A j \in Phil : Waits(j)' <=> Waits(j)
<1>1. /\ ~ HeadExpired /\ irq' = FALSE /\ proc_tick
      /\ UNCHANGED <<current, state, wait_state, run_list, timer_list, value,
                     sem_queue, wakeup_flags, pc, call, iter, reaped, panic>>
  BY DEF IrqTick, semVars, threadVars
<1>2. HeadOK
  BY <1>1 DEF HeadOK, HeadExpired
<1>3. ThreadTypes(S)'
  BY <1>1, ProcTickType DEF Threads, ThreadTypes, SchedTypeOK, TimerListTypeOK
<1>4. RunQueueExact' /\ Places' /\ QueuesExact(S)'
  BY <1>1 DEF Threads, RunQueueExact, Queued, Places, Placed, QueuesExact,
              InDown, InSleep, Waits, Asleep
<1>5. TimersExact'
  BY <1>1, <1>2, SameTimers DEF Threads, TimersExact, InSleep, Asleep
<1> QED
  BY <1>1, <1>3, <1>4, <1>5 DEF Threads, NoPanic, Waits, InDown, Asleep

\* All of them: what a step of the kernel or of a thread outside of the code of the
\* philosophers leaves as it is.
LEMMA KernelStep ==
    ASSUME NEW S, Threads(S),
           \/ \E p \in Proc : Thread(p)
           \/ IrqTimer \/ Irq
           \/ UNCHANGED vars
    PROVE  /\ Threads(S)' /\ UNCHANGED <<value, sem_queue, pc>>
           /\ \A j \in Phil : Waits(j)' <=> Waits(j)
<1>1. CASE UNCHANGED vars
  <2>1. UNCHANGED <<schedVars, semVars, call, iter, reaped, irq, panic>>
        /\ UNCHANGED <<value, sem_queue, pc>>
    BY <1>1 DEF vars, threadVars, semVars
  <2> QED
    BY <2>1, SameThreads
<1> QED
  BY <1>1, CallScheduleStep, DownedStep, SleptStep, WaitPhilStep, IrqTimerStep,
     IrqExpireStep, IrqTickStep DEF Thread, Irq

----------------------------------------------------------------------------
(* The steps of a philosopher *)

\* Who is about to execute a statement is runnable and waits for nothing.
LEMMA AtStatement ==
    ASSUME NEW S, Threads(S), NEW i \in Phil, NEW l, At(i, l)
    PROVE  /\ current = i /\ call[i] = "none" /\ pc[i] = l /\ ~ irq
           /\ i \in Proc /\ i # idleproc /\ i # initproc
           /\ state[i] = "PROC_RUNNABLE" /\ wait_state[i] = "0"
           /\ ~ Waits(i) /\ ~ InSleep(i) /\ ~ Asleep(i)
           /\ \A x \in S : i \notin ToSet(sem_queue[x])
<1>1. current = i /\ call[i] = "none" /\ pc[i] = l /\ ~ irq
  BY DEF At, In
<1>2. i \in Proc /\ i # idleproc /\ i # initproc /\ Placed(i)
  BY Basics
<1>3. state[i] = "PROC_RUNNABLE" /\ ~ InDown(i) /\ ~ InSleep(i)
  BY <1>1, <1>2 DEF Placed, InDown, InSleep
<1>4. ~ Asleep(i) /\ ~ Waits(i) /\ wait_state[i] = "0"
  BY <1>2, <1>3 DEF Placed, Asleep, Waits
<1> QED
  BY <1>1, <1>2, <1>3, <1>4 DEF Threads, QueuesExact

\* do_sleep, up to its call of schedule.
LEMMA SleepStep ==
    ASSUME NEW S, Threads(S), NEW i \in Phil, NEW k, NEW l, At(i, k), Sleep(i, l),
           iter' \in [Phil -> 0 .. TIMES]
    PROVE  /\ Threads(S)' /\ UNCHANGED <<value, sem_queue>>
           /\ pc' = [pc EXCEPT ![i] = l]
           /\ \A j \in Phil : Waits(j)' <=> Waits(j)
<1>1. /\ pc' = [pc EXCEPT ![i] = l] /\ call' = [call EXCEPT ![i] = "sleep"]
      /\ add_timer(i, SLEEP_TIME)
      /\ state' = [state EXCEPT ![i] = "PROC_SLEEPING"]
      /\ wait_state' = [wait_state EXCEPT ![i] = "WT_TIMER"]
      /\ UNCHANGED <<current, need_resched, time_slice, run_list, value, sem_queue,
                     wakeup_flags, reaped, irq, panic>>
  BY DEF Sleep, Goto, Enter, semVars
<1>2. /\ current = i /\ i \in Proc /\ i # idleproc /\ i # initproc /\ ~ irq
      /\ ~ Waits(i) /\ ~ InSleep(i) /\ call[i] = "none"
  BY AtStatement
<1>3. ~ Armed(i) /\ HeadOK
  BY <1>2 DEF Threads, TimersExact
<1>4. SLEEP_TIME \in Nat \ {0}
  BY SemaphoreAssumption
<1>5. /\ timer_list' \in Seq(Timer) /\ OneTimerEach'
      /\ \A q : Armed(q)' <=> Armed(q) \/ q = i
  BY <1>1, <1>2, <1>3, <1>4, Basics, AddTimerOwners
<1>6. HeadOK'
  BY <1>1, <1>2, <1>3, <1>4, Basics, AddTimerHead
<1>7. ThreadTypes(S)'
  BY <1>1, <1>5, Basics
     DEF Threads, ThreadTypes, SchedTypeOK, TimerListTypeOK, ProcState, WaitState
<1>8. \A j \in Phil : /\ Waits(j)' <=> Waits(j)
                      /\ (InSleep(j) /\ Asleep(j))'
                            <=> (InSleep(j) /\ Asleep(j)) \/ j = i
  BY <1>1, <1>2, Basics DEF InDown, InSleep, Asleep, Waits
<1>9. RunQueueExact'
  BY <1>1, <1>2, Basics DEF RunQueueExact, Queued
<1>10. Places'
  BY <1>1, <1>2, Basics DEF Threads, Places, Placed, InDown, InSleep, Waits, Asleep
<1>11. TimersExact'
  BY <1>1, <1>5, <1>6, <1>8, Basics DEF Threads, TimersExact
<1>12. QueuesExact(S)'
  BY <1>1, <1>8, QueuesKept
<1> QED
  BY <1>1, <1>7, <1>8, <1>9, <1>10, <1>11, <1>12 DEF Threads, NoPanic

\* The last step of a philosopher, which wakes init if that waits.
LEMMA QuitStep ==
    ASSUME NEW S, Threads(S), NEW i \in Phil, NEW k, NEW l, Think(i, k, l),
           iter[i] = TIMES
    PROVE  /\ Threads(S)' /\ UNCHANGED <<value, sem_queue, pc>>
           /\ \A j \in Phil : Waits(j)' <=> Waits(j)
<1> DEFINE wake == wait_state[initproc] = "WT_CHILD"
<1>1. At(i, k) /\ ~ (iter[i] < TIMES)
  BY SemaphoreAssumption DEF Think
<1>2. /\ call' = [call EXCEPT ![i] = "dead"]
      /\ state' = [p \in Proc |->
                        CASE p = i -> "PROC_ZOMBIE"
                          [] p = initproc /\ wake -> "PROC_RUNNABLE"
                          [] OTHER -> state[p]]
      /\ wait_state' = [wait_state EXCEPT ![initproc] = "0"]
      /\ UNCHANGED <<current, need_resched, timer_list, value, sem_queue,
                     wakeup_flags, pc, iter, reaped, irq>>
  BY <1>1, Zenon DEF Think, Enter, semVars
<1>3. IF wake THEN enqueue(initproc) /\ assert(EnqueueOK(initproc))
              ELSE UNCHANGED <<run_list, time_slice, panic>>
  BY <1>1, Zenon DEF Think
<1>4. /\ current = i /\ i \in Proc /\ i # idleproc /\ i # initproc
      /\ ~ Waits(i) /\ ~ InSleep(i) /\ wait_state[i] = "0" /\ call[i] = "none"
  BY <1>1, AtStatement
<1>5. wake <=> Asleep(initproc)
  BY DEF Threads, Places
<1>6. state[initproc] \in {"PROC_RUNNABLE", "PROC_SLEEPING"}
  BY DEF Threads, Places
<1>7. /\ state'[i] = "PROC_ZOMBIE" /\ state'[initproc] = "PROC_RUNNABLE"
      /\ \A p \in Proc \ {i, initproc} : state'[p] = state[p]
      /\ state' \in [Proc -> ProcState]
  <2>1. state'[i] = "PROC_ZOMBIE"
    BY <1>2, <1>4
  <2>2. state'[initproc] = "PROC_RUNNABLE"
    BY <1>2, <1>4, <1>5, <1>6, Basics DEF Asleep
  <2>3. \A p \in Proc \ {i, initproc} : state'[p] = state[p]
    BY <1>2
  <2>4. state' \in [Proc -> ProcState]
    BY <1>2, Basics DEF ProcState
  <2> QED
    BY <2>1, <2>2, <2>3, <2>4
<1> HIDE DEF wake
<1>8. /\ wait_state' \in [Proc -> WaitState] /\ wait_state'[initproc] = "0"
      /\ \A p \in Proc \ {initproc} : wait_state'[p] = wait_state[p]
  BY <1>2, Basics DEF WaitState
<1>9. /\ run_list' \in Seq(Proc)
      /\ time_slice' \in [Proc -> 0 .. MAX_TIME_SLICE]
      /\ RunQueueExact' /\ NoPanic' /\ panic' \in BOOLEAN
  <2>1. CASE wake
    <3>1. initproc \notin ToSet(run_list)
      BY <1>5, <2>1, Basics DEF RunQueueExact, Queued, Asleep
    <3>2. enqueue(initproc) /\ panic' = ~ EnqueueOK(initproc)
      BY <1>3, <2>1 DEF assert
    <3>3. run_list' = Append(run_list, initproc)
      BY <3>2, Basics DEF enqueue
    <3>4. ToSet(run_list') = ToSet(run_list) \cup {initproc} /\ IsInjective(run_list')
      BY <3>1, <3>3, Basics, AppendSet DEF RunQueueExact
    <3>5. RunQueueExact'
      BY <1>2, <1>4, <1>7, <3>4, Basics DEF RunQueueExact, Queued
    <3>6. NoPanic' /\ panic' \in BOOLEAN
      BY <3>1, <3>2 DEF NoPanic, EnqueueOK, Queued
    <3> QED
      BY <3>2, <3>5, <3>6, Basics, EnqueueType
  <2>2. CASE ~ wake
    <3>1. UNCHANGED <<run_list, time_slice, panic>>
      BY <1>3, <2>2
    <3>2. state[initproc] = "PROC_RUNNABLE"
      BY <1>5, <1>6, <2>2 DEF Asleep
    <3>3. RunQueueExact'
      BY <1>2, <1>4, <1>7, <3>1, <3>2, Basics DEF RunQueueExact, Queued
    <3> QED
      BY <3>1, <3>3, Basics DEF NoPanic, SchedTypeOK, Threads, ThreadTypes
  <2> QED
    BY <2>1, <2>2
<1>10. ThreadTypes(S)'
  BY <1>2, <1>7, <1>8, <1>9, Basics
     DEF Threads, ThreadTypes, SchedTypeOK, TimerListTypeOK
<1>11. \A j \in Phil : /\ Waits(j)' <=> Waits(j)
                       /\ (InSleep(j) /\ Asleep(j))' <=> InSleep(j) /\ Asleep(j)
  BY <1>2, <1>4, <1>7, Basics DEF InDown, InSleep, Asleep, Waits
<1>12. ASSUME NEW j \in Phil
       PROVE  Placed(j)'
  BY <1>2, <1>4, <1>7, <1>8, Basics DEF Placed, InDown, InSleep, Waits, Asleep
<1>13. Places'
  BY <1>2, <1>4, <1>7, <1>8, <1>12, Basics DEF Threads, Places, Asleep
<1>14. TimersExact' /\ QueuesExact(S)'
  BY <1>2, <1>11, TimersKept, QueuesKept
<1> QED
  BY <1>2, <1>9, <1>10, <1>11, <1>13, <1>14 DEF Threads

\* A philosopher begins a round, or quits.
LEMMA ThinkStep ==
    ASSUME NEW S, Threads(S), NEW i \in Phil, NEW k, NEW l, Think(i, k, l)
    PROVE  /\ Threads(S)' /\ UNCHANGED <<value, sem_queue>>
           /\ \/ pc' = [pc EXCEPT ![i] = l]
              \/ UNCHANGED pc
           /\ \A j \in Phil : Waits(j)' <=> Waits(j)
<1>1. CASE iter[i] = TIMES
  BY <1>1, QuitStep
<1>2. CASE iter[i] # TIMES
  <2>1. /\ At(i, k) /\ Sleep(i, l) /\ iter[i] < TIMES
        /\ iter' = [iter EXCEPT ![i] = @ + 1]
    BY <1>2 DEF Think
  <2>2. iter' \in [Phil -> 0 .. TIMES]
    BY <2>1, SemaphoreAssumption DEF Threads, ThreadTypes
  <2> QED
    BY <2>1, <2>2, SleepStep
<1> QED
  BY <1>1, <1>2

----------------------------------------------------------------------------
(* up and down *)

\* What up leaves when nobody waits at x, and when w is the first who does.
Counted(x) == /\ sem_queue[x] = << >>
              /\ value' = [value EXCEPT ![x] = @ + 1]
              /\ UNCHANGED sem_queue
              /\ \A j \in Phil : Waits(j)' <=> Waits(j)

HandedTo(w, x) == /\ sem_queue[x] # << >> /\ w = Head(sem_queue[x])
                  /\ Waits(w) /\ w \in ToSet(sem_queue[x])
                  /\ sem_queue' = [sem_queue EXCEPT ![x] = Tail(@)]
                  /\ UNCHANGED value
                  /\ \A j \in Phil : Waits(j)' <=> Waits(j) /\ j # w

\* The first waiter of a queue, and what is left when it is taken out.
LEMMA FirstWaiter ==
    ASSUME NEW S, Threads(S), NEW x \in S, sem_queue[x] # << >>,
           sem_queue' = [sem_queue EXCEPT ![x] = Tail(@)]
    PROVE  /\ Head(sem_queue[x]) \in Phil /\ Waits(Head(sem_queue[x]))
           /\ Head(sem_queue[x]) \in ToSet(sem_queue[x])
           /\ sem_queue' \in [S -> Seq(Phil)]
           /\ \A y \in S : IsInjective(sem_queue[y])'
           /\ \A y \in S, j \in Phil :
                 j \in ToSet(sem_queue'[y]) <=>
                    j \in ToSet(sem_queue[y]) /\ j # Head(sem_queue[x])
<1> DEFINE w == Head(sem_queue[x])
<1>1. /\ sem_queue \in [S -> Seq(Phil)] /\ sem_queue[x] \in Seq(Phil)
      /\ \A y \in S : IsInjective(sem_queue[y])
      /\ \A y, z \in S, j \in Phil :
            j \in ToSet(sem_queue[y]) /\ j \in ToSet(sem_queue[z]) => y = z
      /\ \A j \in Phil : Waits(j) <=> \E y \in S : j \in ToSet(sem_queue[y])
  BY DEF Threads, ThreadTypes, QueuesExact
<1>2. /\ ToSet(Tail(sem_queue[x])) = ToSet(sem_queue[x]) \ {w}
      /\ IsInjective(Tail(sem_queue[x])) /\ w \in ToSet(sem_queue[x])
  BY <1>1, TailSet
<1>3. w \in Phil /\ Tail(sem_queue[x]) \in Seq(Phil)
  BY <1>1, HeadTailProperties
<1> HIDE DEF w
<1>4. Waits(w)
  BY <1>1, <1>2, <1>3
<1>5. /\ sem_queue'[x] = Tail(sem_queue[x])
      /\ \A y \in S : y # x => sem_queue'[y] = sem_queue[y]
      /\ sem_queue' \in [S -> Seq(Phil)]
  BY <1>1, <1>3
<1>6. ASSUME NEW y \in S, NEW j \in Phil
      PROVE  j \in ToSet(sem_queue'[y]) <=> j \in ToSet(sem_queue[y]) /\ j # w
  <2>1. CASE y = x
    BY <1>2, <1>5, <2>1
  <2>2. CASE y # x
    BY <1>1, <1>2, <1>3, <1>5, <2>2
  <2> QED
    BY <2>1, <2>2
<1>7. \A y \in S : IsInjective(sem_queue[y])'
  BY <1>1, <1>2, <1>5
<1> QED
  BY <1>2, <1>3, <1>4, <1>5, <1>6, <1>7 DEF w

\* up, as the statement k of i.
LEMMA UpStep ==
    ASSUME NEW S, Threads(S), NEW i \in Phil, NEW k, NEW l, NEW x \in S,
           At(i, k), Up(i, x, l)
    PROVE  /\ Threads(S)' /\ pc' = [pc EXCEPT ![i] = l]
           /\ \/ Counted(x)
              \/ \E w \in Phil \ {i} : HandedTo(w, x)
<1>1. /\ pc' = [pc EXCEPT ![i] = l]
      /\ UNCHANGED <<current, need_resched, timer_list, call, iter, reaped, irq>>
      /\ up(x)
  BY DEF Up, Goto
<1>2. CASE sem_queue[x] = << >>
  <2>1. /\ value' = [value EXCEPT ![x] = @ + 1]
        /\ UNCHANGED <<state, wait_state, run_list, time_slice, sem_queue,
                       wakeup_flags, panic>>
    BY <1>1, <1>2 DEF up
  <2>2. ThreadTypes(S)'
    BY <1>1, <2>1 DEF Threads, ThreadTypes, SchedTypeOK, TimerListTypeOK
  <2>3. RunQueueExact' /\ Places' /\ QueuesExact(S)' /\ NoPanic'
    BY <1>1, <2>1 DEF Threads, RunQueueExact, Queued, Places, Placed, QueuesExact,
                InDown, InSleep, Waits, Asleep, NoPanic
  <2>4. \A j \in Phil : /\ Waits(j)' <=> Waits(j)
                        /\ (InSleep(j) /\ Asleep(j))' <=> InSleep(j) /\ Asleep(j)
    BY <1>1, <2>1 DEF InDown, InSleep, Waits, Asleep
  <2>5. TimersExact'
    BY <1>1, <2>4, TimersKept
  <2>6. Counted(x)
    BY <1>2, <2>1, <2>4 DEF Counted
  <2> QED
    BY <1>1, <2>2, <2>3, <2>5, <2>6 DEF Threads
<1>3. CASE sem_queue[x] # << >>
  <2> DEFINE w == Head(sem_queue[x])
  <2>1. /\ sem_queue' = [sem_queue EXCEPT ![x] = Tail(@)]
        /\ wakeup_flags' = [wakeup_flags EXCEPT ![w] = "WT_KSEM"]
        /\ wakeup_proc(w)
        /\ panic' = ~ (wait_state[w] = "WT_KSEM" /\ WakeupOK(w))
        /\ UNCHANGED value
    BY <1>1, <1>3 DEF up, assert
  <2>2. /\ w \in Phil /\ Waits(w) /\ w \in ToSet(sem_queue[x])
        /\ sem_queue' \in [S -> Seq(Phil)]
        /\ \A y \in S : IsInjective(sem_queue[y])'
        /\ \A y \in S, j \in Phil :
              j \in ToSet(sem_queue'[y]) <=> j \in ToSet(sem_queue[y]) /\ j # w
    BY <1>3, <2>1, FirstWaiter
  <2>3. w = Head(sem_queue[x])
    OBVIOUS
  <2> HIDE DEF w
  <2>4. w \in Proc /\ Placed(w) /\ Asleep(w) /\ InDown(w) /\ w # i
        /\ w # idleproc /\ w # initproc
    BY <2>2, Basics, AtStatement DEF Waits
  <2>5. /\ WakeupOK(w) /\ RunQueueExact'
        /\ state' = [state EXCEPT ![w] = "PROC_RUNNABLE"]
        /\ wait_state' = [wait_state EXCEPT ![w] = "0"]
        /\ state' \in [Proc -> ProcState]
        /\ wait_state' \in [Proc -> WaitState]
        /\ run_list' \in Seq(Proc)
        /\ time_slice' \in [Proc -> 0 .. MAX_TIME_SLICE]
    BY <1>1, <2>1, <2>4, Woken
  <2>6. ThreadTypes(S)'
    BY <1>1, <2>1, <2>2, <2>5 DEF Threads, ThreadTypes, SchedTypeOK, TimerListTypeOK
  <2>7. \A j \in Phil : /\ Waits(j)' <=> Waits(j) /\ j # w
                        /\ (InSleep(j) /\ Asleep(j))' <=> InSleep(j) /\ Asleep(j)
    BY <1>1, <2>4, <2>5, Basics DEF InDown, InSleep, Asleep, Waits
  <2>8. wakeup_flags \in [Phil -> {"WT_INTERRUPTED", "WT_KSEM"}]
    BY DEF Threads, ThreadTypes
  <2>9. Places'
    <3>1. ASSUME NEW j \in Phil
          PROVE  Placed(j)'
      BY <1>1, <2>1, <2>2, <2>4, <2>5, <2>8, Basics
         DEF Placed, InDown, InSleep, Waits, Asleep
    <3> QED
      BY <1>1, <2>4, <2>5, <3>1, Basics DEF Threads, Places, Asleep
  <2>10. TimersExact'
    BY <1>1, <2>7, TimersKept
  <2>11. QueuesExact(S)'
    BY <2>2, <2>7 DEF Threads, QueuesExact
  <2>12. NoPanic'
    BY <2>1, <2>2, <2>4, <2>5 DEF NoPanic, Placed
  <2>13. HandedTo(w, x)
    BY <1>3, <2>1, <2>2, <2>3, <2>7 DEF HandedTo
  <2> QED
    BY <1>1, <2>2, <2>4, <2>5, <2>6, <2>9, <2>10, <2>11, <2>12, <2>13 DEF Threads
<1> QED
  BY <1>2, <1>3

\* What down leaves: a unit less, or one who waits more.
Taken(x) == /\ value[x] > 0
            /\ value' = [value EXCEPT ![x] = @ - 1]
            /\ UNCHANGED sem_queue
            /\ \A j \in Phil : Waits(j)' <=> Waits(j)

Enqueued(i, x) == /\ value[x] = 0
                  /\ UNCHANGED value
                  /\ sem_queue' = [sem_queue EXCEPT ![x] = Append(@, i)]
                  /\ \A j \in Phil : Waits(j)' <=> Waits(j) \/ j = i

\* down, up to its call of schedule, as the statement k of i.
LEMMA DownStep ==
    ASSUME NEW S, Threads(S), NEW i \in Phil, NEW k, NEW l, NEW x \in S,
           At(i, k), Down(i, x, l)
    PROVE  /\ Threads(S)' /\ pc' = [pc EXCEPT ![i] = l]
           /\ Taken(x) \/ Enqueued(i, x)
<1>1. /\ pc' = [pc EXCEPT ![i] = l]
      /\ UNCHANGED <<current, need_resched, time_slice, run_list, timer_list,
                     iter, reaped, irq, panic>>
      /\ down(i, x)
  BY DEF Down, Goto
<1>2. /\ current = i /\ call[i] = "none" /\ i \in Proc /\ i # idleproc /\ i # initproc
      /\ ~ Waits(i) /\ ~ InSleep(i) /\ \A y \in S : i \notin ToSet(sem_queue[y])
  BY AtStatement
<1>3. value \in [S -> Nat] /\ value[x] \in Nat /\ sem_queue \in [S -> Seq(Phil)]
  BY DEF Threads, ThreadTypes
<1>4. CASE value[x] > 0
  <2>1. /\ value' = [value EXCEPT ![x] = @ - 1]
        /\ UNCHANGED <<state, wait_state, sem_queue, wakeup_flags, call>>
    BY <1>1, <1>4 DEF down
  <2>2. value' \in [S -> Nat]
    BY <1>3, <1>4, <2>1
  <2>3. ThreadTypes(S)'
    BY <1>1, <2>1, <2>2 DEF Threads, ThreadTypes, SchedTypeOK, TimerListTypeOK
  <2>4. RunQueueExact' /\ Places' /\ QueuesExact(S)' /\ NoPanic'
    BY <1>1, <2>1 DEF Threads, RunQueueExact, Queued, Places, Placed, QueuesExact,
                InDown, InSleep, Waits, Asleep, NoPanic
  <2>5. \A j \in Phil : /\ Waits(j)' <=> Waits(j)
                        /\ (InSleep(j) /\ Asleep(j))' <=> InSleep(j) /\ Asleep(j)
    BY <1>1, <2>1 DEF InDown, InSleep, Waits, Asleep
  <2>6. TimersExact'
    BY <1>1, <2>5, TimersKept
  <2>7. Taken(x)
    BY <1>4, <2>1, <2>5 DEF Taken
  <2> QED
    BY <1>1, <2>3, <2>4, <2>6, <2>7 DEF Threads
<1>5. CASE ~ (value[x] > 0)
  <2>1. /\ wakeup_flags' = [wakeup_flags EXCEPT ![i] = "WT_INTERRUPTED"]
        /\ state' = [state EXCEPT ![i] = "PROC_SLEEPING"]
        /\ wait_state' = [wait_state EXCEPT ![i] = "WT_KSEM"]
        /\ sem_queue' = [sem_queue EXCEPT ![x] = Append(@, i)]
        /\ call' = [call EXCEPT ![i] = "down"]
        /\ UNCHANGED value
    BY <1>1, <1>5 DEF down, Enter
  <2>2. /\ ToSet(Append(sem_queue[x], i)) = ToSet(sem_queue[x]) \cup {i}
        /\ IsInjective(Append(sem_queue[x], i))
        /\ Append(sem_queue[x], i) \in Seq(Phil)
    BY <1>2, <1>3, AppendSet DEF Threads, QueuesExact
  <2>3. /\ sem_queue'[x] = Append(sem_queue[x], i)
        /\ \A y \in S : y # x => sem_queue'[y] = sem_queue[y]
        /\ sem_queue' \in [S -> Seq(Phil)]
    BY <1>3, <2>1, <2>2
  <2>4. \A y \in S, j \in Phil : j \in ToSet(sem_queue'[y]) <=>
              j \in ToSet(sem_queue[y]) \/ (j = i /\ y = x)
    BY <1>2, <2>2, <2>3
  <2>5. ThreadTypes(S)'
    BY <1>1, <2>1, <2>3, Basics
       DEF Threads, ThreadTypes, SchedTypeOK, TimerListTypeOK, ProcState, WaitState
  <2>6. \A j \in Phil : /\ Waits(j)' <=> Waits(j) \/ j = i
                        /\ (InSleep(j) /\ Asleep(j))' <=> InSleep(j) /\ Asleep(j)
    BY <1>1, <1>2, <2>1, Basics DEF InDown, InSleep, Asleep, Waits
  <2>7. RunQueueExact'
    BY <1>1, <1>2, <2>1, Basics DEF RunQueueExact, Queued
  <2>8. Places'
    BY <1>1, <1>2, <2>1, Basics
       DEF Threads, Places, Placed, InDown, InSleep, Waits, Asleep
  <2>9. TimersExact'
    BY <1>1, <2>6, TimersKept
  <2>10. QueuesExact(S)'
    <3>1. \A y \in S : IsInjective(sem_queue[y])'
      BY <2>2, <2>3 DEF Threads, QueuesExact
    <3>2. \A y, z \in S, j \in Phil :
             j \in ToSet(sem_queue[y])' /\ j \in ToSet(sem_queue[z])' => y = z
      BY <1>2, <2>4 DEF Threads, QueuesExact
    <3>3. \A j \in Phil : Waits(j)' <=> \E y \in S : j \in ToSet(sem_queue[y])'
      BY <2>4, <2>6 DEF Threads, QueuesExact
    <3> QED
      BY <3>1, <3>2, <3>3 DEF QueuesExact
  <2>11. Enqueued(i, x)
    BY <1>3, <1>5, <2>1, <2>6 DEF Enqueued
  <2> QED
    BY <1>1, <2>5, <2>7, <2>8, <2>9, <2>10, <2>11 DEF Threads, NoPanic
<1> QED
  BY <1>4, <1>5

----------------------------------------------------------------------------
(* The table *)

\* LEFT and RIGHT are the remainders they are meant to be: going left and going
\* right undo each other, and lead to somebody else.
LEMMA Neighbours ==
    \A i \in Phil : /\ Left(i) \in Phil /\ Right(i) \in Phil
                    /\ Left(i) # i /\ Right(i) # i
                    /\ Left(Right(i)) = i /\ Right(Left(i)) = i
<1>1. N \in Nat /\ N > 1
  BY SemaphoreAssumption
<1> SUFFICES ASSUME NEW i \in Phil
             PROVE  /\ Left(i) \in Phil /\ Right(i) \in Phil
                    /\ Left(i) # i /\ Right(i) # i
                    /\ Left(Right(i)) = i /\ Right(Left(i)) = i
  OBVIOUS
<1>2. ASSUME NEW j \in Phil
      PROVE  /\ Left(j) = IF j = 0 THEN N - 1 ELSE j - 1
             /\ Right(j) = IF j = N - 1 THEN 0 ELSE j + 1
  <2>1. j \in Int /\ 0 <= j /\ j <= N - 1
    BY <1>1 DEF Phil
  <2>2. Left(j) = IF j = 0 THEN N - 1 ELSE j - 1
    <3>1. CASE j = 0
      <4>1. (N - 1) % N = N - 1
        BY <1>1
      <4> QED
        BY <1>1, <3>1, <4>1 DEF Left
    <3>2. CASE j # 0
      <4>1. (j - 1 + N) % N = j - 1
        BY <1>1, <2>1, <3>2
      <4> QED
        BY <3>2, <4>1 DEF Left
    <3> QED
      BY <3>1, <3>2
  <2>3. Right(j) = IF j = N - 1 THEN 0 ELSE j + 1
    <3>1. CASE j = N - 1
      <4>1. N % N = 0
        BY <1>1
      <4> QED
        BY <1>1, <3>1, <4>1 DEF Right
    <3>2. CASE j # N - 1
      <4>1. (j + 1) % N = j + 1
        BY <1>1, <2>1, <3>2
      <4> QED
        BY <3>2, <4>1 DEF Right
    <3> QED
      BY <3>1, <3>2
  <2> QED
    BY <2>2, <2>3
<1>3. Left(i) \in Phil /\ Right(i) \in Phil /\ Left(i) # i /\ Right(i) # i
  BY <1>1, <1>2 DEF Phil
<1>4. Left(Right(i)) = i /\ Right(Left(i)) = i
  <2>1. /\ i \in 0 .. N - 1
        /\ Left(i) = IF i = 0 THEN N - 1 ELSE i - 1
        /\ Right(i) = IF i = N - 1 THEN 0 ELSE i + 1
        /\ Left(Right(i)) = IF Right(i) = 0 THEN N - 1 ELSE Right(i) - 1
        /\ Right(Left(i)) = IF Left(i) = N - 1 THEN 0 ELSE Left(i) + 1
    BY <1>2, <1>3 DEF Phil
  <2> QED
    BY <1>1, <2>1
<1> QED
  BY <1>3, <1>4

----------------------------------------------------------------------------
(* The initial state *)

LEMMA ThreadsInitially ==
    ASSUME NEW S, NEW first, ThreadsInit(first),
           value \in [S -> Nat], sem_queue = [x \in S |-> << >>]
    PROVE  /\ Threads(S) /\ pc = [i \in Phil |-> first]
           /\ \A i \in Phil : ~ Waits(i)
<1>1. /\ \A i \in Phil : i \in Proc /\ i \notin {idleproc, initproc}
      /\ \A p \in Proc : p \in Phil \cup {idleproc, initproc}
      /\ idleproc \in Proc /\ initproc \in Proc /\ idleproc # initproc
      /\ N \in Nat /\ N > 1 /\ MAX_TIME_SLICE \in Nat
  BY SchedAssumption, SemaphoreAssumption
<1>2. /\ run_list \in Seq(Proc) /\ IsInjective(run_list)
      /\ \A p \in Proc : p \in ToSet(run_list) <=> p \in Phil
  <2>1. run_list = [k \in 1 .. N |-> k - 1]
    BY DEF ThreadsInit
  <2>2. \A k \in 1 .. N : k - 1 \in Phil
    BY <1>1 DEF Phil
  <2>3. \A j \in Phil : j + 1 \in 1 .. N /\ (j + 1) - 1 = j
    BY <1>1 DEF Phil
  <2>4. \A k \in 1 .. N : k - 1 \in Proc
    BY <1>1, <2>2
  <2>5. run_list \in Seq(Proc)
    BY <1>1, <2>1, <2>4, IsASeq
  <2>6. IsInjective(run_list)
    BY <1>1, <2>1 DEF IsInjective
  <2>7. \A p \in ToSet(run_list) : p \in Phil
    BY <2>1, <2>2 DEF ToSet
  <2>8. \A j \in Phil : j \in ToSet(run_list)
    BY <2>1, <2>3 DEF ToSet
  <2> QED
    BY <2>5, <2>6, <2>7, <2>8
<1>3. timer_list \in Seq(Timer) /\ OneTimerEach /\ HeadOK /\ \A p : ~ Armed(p)
  BY DEF ThreadsInit, OneTimerEach, Owners, IsInjective, HeadOK, Armed
<1>4. ThreadTypes(S)
  <2>1. /\ current \in Proc
        /\ state \in [Proc -> ProcState] /\ wait_state \in [Proc -> WaitState]
    BY <1>1 DEF ThreadsInit, ProcState, WaitState
  <2>2. need_resched \in [Proc -> BOOLEAN]
    BY DEF ThreadsInit
  <2>3. time_slice \in [Proc -> 0 .. MAX_TIME_SLICE]
    BY <1>1 DEF ThreadsInit
  <2>4. SchedTypeOK
    BY <1>2, <1>3, <2>1, <2>2, <2>3 DEF SchedTypeOK, TimerListTypeOK
  <2>5. sem_queue \in [S -> Seq(Phil)]
    OBVIOUS
  <2>6. /\ wakeup_flags \in [Phil -> {"WT_INTERRUPTED", "WT_KSEM"}]
        /\ call \in [Proc -> {"none", "down", "downed", "sleep", "slept", "wait",
                              "idle", "dead", "returned"}]
    BY DEF ThreadsInit
  <2>7. iter \in [Phil -> 0 .. TIMES]
    <3>1. 0 \in 0 .. TIMES
      BY SemaphoreAssumption
    <3> QED
      BY <3>1 DEF ThreadsInit
  <2>8. reaped \in 0 .. N
    BY <1>1 DEF ThreadsInit
  <2>9. irq \in BOOLEAN /\ panic \in BOOLEAN
    BY DEF ThreadsInit
  <2> QED
    BY <2>4, <2>5, <2>6, <2>7, <2>8, <2>9 DEF ThreadTypes
<1>5. \A i \in Phil : ~ Waits(i) /\ ~ InSleep(i) /\ ~ Asleep(i)
  BY <1>1 DEF ThreadsInit, Waits, InDown, InSleep, Asleep
<1>6. RunQueueExact
  BY <1>1, <1>2 DEF ThreadsInit, RunQueueExact, Queued
<1>7. Places
  BY <1>1 DEF ThreadsInit, Places, Placed, InDown, InSleep, Waits, Asleep
<1>8. TimersExact
  BY <1>3, <1>5 DEF TimersExact
<1>9. QueuesExact(S)
  <2>1. ToSet(<< >>) = {} /\ IsInjective(<< >>)
    BY DEF ToSet, IsInjective
  <2> QED
    BY <1>5, <2>1 DEF QueuesExact
<1> QED
  BY <1>4, <1>5, <1>6, <1>7, <1>8, <1>9 DEF Threads, ThreadsInit, NoPanic
=============================================================================
