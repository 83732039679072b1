----------------------------- MODULE Semaphore -----------------------------
(***************************************************************************)
(* Semaphores (sync/sem.c over sync/wait.c) and the kernel threads that    *)
(* block on them, over the scheduler of Sched.                             *)
(*                                                                         *)
(* The threads are those of sync/check_sync.c: idle, init, which waits for *)
(* the others to finish, and the philosophers.  All are kernel threads:    *)
(* interrupts are enabled between any two steps, but the CPU changes hands *)
(* only where a thread itself calls schedule().  pc[p] is the statement    *)
(* thread p executes next, call[p] the kernel function it is inside of.    *)
(* PhilSema and PhilCondvar say what the philosophers do.                  *)
(***************************************************************************)
EXTENDS Sched

CONSTANTS
    N,              \* the number of philosophers
    TIMES,          \* how often each of them eats
    SLEEP_TIME      \* the ticks they think and eat for

Phil == 0 .. N - 1
Left(i) == (i - 1 + N) % N
Right(i) == (i + 1) % N

ASSUME SemaphoreAssumption ==
    /\ N \in Nat \ {0, 1} /\ TIMES \in Nat \ {0} /\ SLEEP_TIME \in Nat \ {0}
    /\ Proc = Phil \cup {idleproc, initproc} /\ {idleproc, initproc} \cap Phil = {}

VARIABLES
    value,          \* sem->value of every semaphore
    sem_queue,      \* sem->wait_queue of every semaphore, first waiter first
    wakeup_flags,   \* wait->wakeup_flags of a thread's wait
    pc,             \* the statement a thread executes next
    call,           \* the function of the kernel it is in, "none" if in none
    iter,           \* how often each philosopher has sat down to think
    reaped,         \* how many philosophers init has waited for
    irq,            \* a timer interrupt is running its expired timers
    panic           \* an assertion has failed

semVars == <<value, sem_queue, wakeup_flags>>
threadVars == <<pc, call, iter, reaped>>
vars == <<schedVars, semVars, threadVars, irq, panic>>

\* Where a thread is when schedule() has switched back to it.
Resume == [down |-> "downed", sleep |-> "slept", wait |-> "none",
           idle |-> "idle", dead |-> "returned"]

\* check_sync has created the philosophers, in this order, and starts to wait
\* for them.  It does so for each of its two parts, with the same threads to
\* begin with: idle and init.
ThreadsInit(first) ==
    /\ current = initproc
    /\ state = [p \in Proc |-> "PROC_RUNNABLE"]
    /\ wait_state = [p \in Proc |-> "0"]
    /\ need_resched = [p \in Proc |-> p = idleproc]
    /\ time_slice = [p \in Proc |-> IF p = idleproc THEN 0 ELSE MAX_TIME_SLICE]
    /\ run_list = [k \in 1 .. N |-> k - 1]
    /\ timer_list = << >>
    /\ wakeup_flags = [i \in Phil |-> "WT_INTERRUPTED"]
    /\ pc = [i \in Phil |-> first]
    /\ call = [p \in Proc |-> IF p = idleproc THEN "idle" ELSE "none"]
    /\ iter = [i \in Phil |-> 0]
    /\ reaped = 0
    /\ irq = FALSE
    /\ panic = FALSE

Running == ~ panic /\ reaped < N
In(p, f) == Running /\ ~ irq /\ current = p /\ call[p] = f
At(i, l) == In(i, "none") /\ pc[i] = l

Goto(i, l) == pc' = [pc EXCEPT ![i] = l]
Enter(p, f) == call' = [call EXCEPT ![p] = f]
assert(ok) == panic' = ~ ok

----------------------------------------------------------------------------
(* Semaphores *)

\* Deviation: up counts also when it wakes a waiter.
up_twice(s) ==
    /\ value' = [value EXCEPT ![s] = @ + 1]
    /\ IF sem_queue[s] = << >>
       THEN UNCHANGED <<state, wait_state, run_list, time_slice, sem_queue,
                        wakeup_flags, panic>>
       ELSE LET w == Head(sem_queue[s])
            IN  /\ sem_queue' = [sem_queue EXCEPT ![s] = Tail(@)]
                /\ wakeup_flags' = [wakeup_flags EXCEPT ![w] = "WT_KSEM"]
                /\ wakeup_proc(w)
                /\ assert(wait_state[w] = "WT_KSEM" /\ WakeupOK(w))

\* Deviation: wakeup_wait does not store why it wakes.
up_unflagged(s) ==
    IF sem_queue[s] = << >>
    THEN /\ value' = [value EXCEPT ![s] = @ + 1]
         /\ UNCHANGED <<state, wait_state, run_list, time_slice, sem_queue,
                        wakeup_flags, panic>>
    ELSE LET w == Head(sem_queue[s])
         IN  /\ sem_queue' = [sem_queue EXCEPT ![s] = Tail(@)]
             /\ wakeup_proc(w)
             /\ assert(wait_state[w] = "WT_KSEM" /\ WakeupOK(w))
             /\ UNCHANGED <<value, wakeup_flags>>

\* up: hand the unit to the first waiter, or count it.
up(s) ==
    IF sem_queue[s] = << >>
    THEN /\ value' = [value EXCEPT ![s] = @ + 1]
         /\ UNCHANGED <<state, wait_state, run_list, time_slice, sem_queue,
                        wakeup_flags, panic>>
    ELSE LET w == Head(sem_queue[s])
         IN  /\ sem_queue' = [sem_queue EXCEPT ![s] = Tail(@)]
             /\ wakeup_flags' = [wakeup_flags EXCEPT ![w] = "WT_KSEM"]
             /\ wakeup_proc(w)
             /\ assert(wait_state[w] = "WT_KSEM" /\ WakeupOK(w))
             /\ UNCHANGED value

\* down, up to its call of schedule.
down(i, s) ==
    IF value[s] > 0
    THEN /\ value' = [value EXCEPT ![s] = @ - 1]
         /\ UNCHANGED <<state, wait_state, sem_queue, wakeup_flags, call>>
    ELSE /\ wakeup_flags' = [wakeup_flags EXCEPT ![i] = "WT_INTERRUPTED"]
         /\ state' = [state EXCEPT ![i] = "PROC_SLEEPING"]
         /\ wait_state' = [wait_state EXCEPT ![i] = "WT_KSEM"]
         /\ sem_queue' = [sem_queue EXCEPT ![s] = Append(@, i)]
         /\ Enter(i, "down")
         /\ UNCHANGED value

\* After schedule: wait_current_del, which leaves a wait alone that is in no
\* queue, and the assert that a semaphore's waiter is woken by nothing but up.
Downed(i) ==
    /\ In(i, "downed") /\ Enter(i, "none")
    /\ sem_queue' = [s \in DOMAIN sem_queue |->
                        IF i \in ToSet(sem_queue[s]) THEN Remove(sem_queue[s], i)
                                                    ELSE sem_queue[s]]
    /\ assert(wakeup_flags[i] = "WT_KSEM")
    /\ UNCHANGED <<schedVars, value, wakeup_flags, pc, iter, reaped, irq>>

\* A statement of philosopher i that is a call of up or down, and goes on at l.
Up(i, s, l) ==
    /\ Goto(i, l) /\ up(s)
    /\ UNCHANGED <<current, need_resched, timer_list, call, iter, reaped, irq>>

Down(i, s, l) ==
    /\ Goto(i, l) /\ down(i, s)
    /\ UNCHANGED <<current, need_resched, time_slice, run_list, timer_list,
                   iter, reaped, irq, panic>>

----------------------------------------------------------------------------
(* The threads *)

\* schedule().  A dead thread must not come back from it (do_exit).
CallSchedule(p) ==
    /\ \E f \in DOMAIN Resume : In(p, f) /\ Enter(p, Resume[f])
    /\ p = idleproc => need_resched[idleproc]
    /\ schedule
    /\ assert(ScheduleOK /\ call'[current'] # "returned")
    /\ UNCHANGED <<semVars, pc, iter, reaped, irq>>

\* do_sleep(SLEEP_TIME).
Sleep(i, l) ==
    /\ Goto(i, l) /\ Enter(i, "sleep")
    /\ add_timer(i, SLEEP_TIME)
    /\ state' = [state EXCEPT ![i] = "PROC_SLEEPING"]
    /\ wait_state' = [wait_state EXCEPT ![i] = "WT_TIMER"]
    /\ UNCHANGED <<current, need_resched, time_slice, run_list, semVars,
                   reaped, irq, panic>>

Slept(i) ==
    /\ In(i, "slept") /\ Enter(i, "none")
    /\ del_timer(i)
    /\ UNCHANGED <<current, state, wait_state, need_resched, time_slice,
                   run_list, semVars, pc, iter, reaped, irq, panic>>

\* A philosopher begins its next round, or returns: kernel_thread_entry then
\* calls do_exit, which wakes init if it waits.
Think(i, think, next) ==
    /\ At(i, think)
    /\ \/ /\ iter[i] < TIMES
          /\ iter' = [iter EXCEPT ![i] = @ + 1]
          /\ Sleep(i, next)
       \/ /\ iter[i] = TIMES
          /\ Enter(i, "dead")
          /\ LET wake == wait_state[initproc] = "WT_CHILD"
             IN  /\ state' = [p \in Proc |->
                                CASE p = i -> "PROC_ZOMBIE"
                                  [] p = initproc /\ wake -> "PROC_RUNNABLE"
                                  [] OTHER -> state[p]]
                 /\ wait_state' = [wait_state EXCEPT ![initproc] = "0"]
                 /\ IF wake THEN enqueue(initproc) /\ assert(EnqueueOK(initproc))
                            ELSE UNCHANGED <<run_list, time_slice, panic>>
          /\ UNCHANGED <<current, need_resched, timer_list, semVars, pc, iter,
                         reaped, irq>>

\* check_sync's do_wait for philosopher number reaped: free it if it is dead,
\* else sleep until a child dies.
WaitPhil ==
    /\ In(initproc, "none")
    /\ IF state[reaped] = "PROC_ZOMBIE"
       THEN /\ state' = [state EXCEPT ![reaped] = "PROC_UNUSED"]
            /\ reaped' = reaped + 1
            /\ UNCHANGED <<wait_state, call>>
       ELSE /\ state' = [state EXCEPT ![initproc] = "PROC_SLEEPING"]
            /\ wait_state' = [wait_state EXCEPT ![initproc] = "WT_CHILD"]
            /\ Enter(initproc, "wait")
            /\ UNCHANGED reaped
    /\ UNCHANGED <<current, need_resched, time_slice, run_list, timer_list,
                   semVars, pc, iter, irq, panic>>

----------------------------------------------------------------------------
(* The timer interrupt *)

IrqTimer ==
    /\ Running /\ ~ irq /\ irq' = TRUE
    /\ assert(HeadOK)
    /\ IF HeadOK THEN decrement_head ELSE UNCHANGED timer_list
    /\ UNCHANGED <<current, state, wait_state, need_resched, time_slice,
                   run_list, semVars, threadVars>>

IrqExpire ==
    /\ Running /\ irq /\ HeadExpired
    /\ LET p == timer_list[1].proc
       IN  /\ wakeup_proc(p)
           /\ del_timer(p)
           /\ assert(/\ wait_state[p] = "0" \/ Interruptible(wait_state[p])
                     /\ WakeupOK(p))
    /\ UNCHANGED <<current, need_resched, semVars, threadVars, irq>>

IrqTick ==
    /\ Running /\ irq /\ ~ HeadExpired /\ irq' = FALSE
    /\ proc_tick
    /\ UNCHANGED <<current, state, wait_state, run_list, timer_list, semVars,
                   threadVars, panic>>

\* What every thread does in the kernel, whatever the philosophers do.
Thread(p) ==
    \/ CallSchedule(p)
    \/ p \in Phil /\ (Downed(p) \/ Slept(p))
    \/ p = initproc /\ WaitPhil

Irq == IrqExpire \/ IrqTick

\* All philosophers have returned, or the kernel has stopped.
Finished == ~ Running /\ UNCHANGED vars

----------------------------------------------------------------------------
(* Properties *)

\* No assertion fails: nothing but up wakes a thread blocked on a semaphore
\* (down's assert(flags == 0)), while ticks wake the sleepers of do_sleep.
NoPanic == ~ panic

\* check_sync gets all its threads back: nobody starves, and in the monitor
\* signallers and waiters do not wait for each other.
EverybodyQuits == <>(reaped = N)
=============================================================================
