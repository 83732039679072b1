------------------------------- MODULE Sched -------------------------------
(***************************************************************************)
(* The scheduler of the uCore kernel (labcodes/lab8/kern/schedule): the    *)
(* run queue of the round-robin class (default_sched.c), wakeup_proc and   *)
(* schedule (sched.c).  TimerList adds the sleeping timers.                *)
(*                                                                         *)
(* The module declares the scheduler's state and one action operator per   *)
(* function.  A module that models who calls them EXTENDS it.  Every        *)
(* function here runs between local_intr_save and local_intr_restore on a  *)
(* single CPU, so each of them is one atomic step.                         *)
(*                                                                         *)
(* Each assert of the C code is an operator whose name ends in "OK"; the   *)
(* callers record its failure.                                             *)
(***************************************************************************)
EXTENDS TimerList, FiniteSets

CONSTANTS           \* Proc: slots for proc_struct, a slot's identity is its pid
    idleproc,       \* pid 0, runs cpu_idle when nothing else is runnable
    initproc,       \* pid 1, runs init_main
    MAX_TIME_SLICE  \* rq->max_time_slice

ASSUME SchedAssumption ==
    /\ idleproc \in Proc /\ initproc \in Proc /\ idleproc # initproc
    /\ MAX_TIME_SLICE \in Nat \ {0}

VARIABLES
    current,        \* the process on the CPU
    state,          \* proc->state; PROC_UNUSED: no proc_struct in the slot
    wait_state,     \* proc->wait_state, 0 when the process waits for nothing
    need_resched,   \* proc->need_resched
    time_slice,     \* proc->time_slice
    run_list        \* rq->run_list, head first

schedVars == <<current, state, wait_state, need_resched, time_slice,
               run_list, timer_list>>

ProcState == {"PROC_UNUSED", "PROC_SLEEPING", "PROC_RUNNABLE", "PROC_ZOMBIE"}
WaitState == {"0", "WT_CHILD", "WT_TIMER", "WT_KBD", "WT_KSEM"}

\* The values of wait_state that have the WT_INTERRUPTED bit.
Interruptible(w) == w \in {"WT_CHILD", "WT_TIMER", "WT_KBD"}

\* p's run_link is in the run queue.
Queued(p) == p \in ToSet(run_list)

SchedTypeOK ==
    /\ current \in Proc
    /\ state \in [Proc -> ProcState]
    /\ wait_state \in [Proc -> WaitState]
    /\ need_resched \in [Proc -> BOOLEAN]
    /\ time_slice \in [Proc -> 0 .. MAX_TIME_SLICE]
    /\ run_list \in Seq(Proc)
    /\ TimerListTypeOK

----------------------------------------------------------------------------
(* The round-robin class *)

\* The slice of a process after RR_enqueue: refilled only when used up.
Refill(slice) == IF slice = 0 THEN MAX_TIME_SLICE ELSE slice

\* RR_enqueue's assert: proc->run_link is in no list.
EnqueueOK(p) == p = idleproc \/ ~ Queued(p)

\* sched_class_enqueue: the idle process is never queued.
enqueue(p) ==
    IF p = idleproc
    THEN UNCHANGED <<run_list, time_slice>>
    ELSE /\ run_list' = Append(run_list, p)
         /\ time_slice' = [time_slice EXCEPT ![p] = Refill(@)]

\* sched_class_proc_tick: the running process uses up one tick of its slice.
proc_tick ==
    IF current = idleproc
    THEN /\ need_resched' = [need_resched EXCEPT ![idleproc] = TRUE]
         /\ UNCHANGED time_slice
    ELSE LET left == IF time_slice[current] > 0
                     THEN time_slice[current] - 1 ELSE 0
         IN  /\ time_slice' = [time_slice EXCEPT ![current] = left]
             /\ need_resched' =
                    [need_resched EXCEPT ![current] = @ \/ left = 0]

----------------------------------------------------------------------------
(* wakeup_proc and schedule *)

\* wakeup_proc's own assert, and RR_enqueue's when it gets that far.
WakeupOK(p) ==
    /\ state[p] # "PROC_ZOMBIE"
    /\ state[p] # "PROC_RUNNABLE" /\ p # current => EnqueueOK(p)

\* Deviation: a runnable process is queued again.
wakeup_proc_again(p) ==
    /\ state' = [state EXCEPT ![p] = "PROC_RUNNABLE"]
    /\ wait_state' = [wait_state EXCEPT ![p] = "0"]
    /\ enqueue(p)

\* Waking a runnable process only prints a warning; waking the process that
\* is on the CPU (it was about to call schedule) does not queue it.
wakeup_proc(p) ==
    IF state[p] = "PROC_RUNNABLE"
    THEN UNCHANGED <<state, wait_state, run_list, time_slice>>
    ELSE /\ state' = [state EXCEPT ![p] = "PROC_RUNNABLE"]
         /\ wait_state' = [wait_state EXCEPT ![p] = "0"]
         /\ IF p = current
            THEN UNCHANGED <<run_list, time_slice>>
            ELSE enqueue(p)

Requeues == state[current] = "PROC_RUNNABLE" /\ current # idleproc

\* Deviation: the current process goes to the head of the queue.
ReadyQueue_head == IF Requeues THEN <<current>> \o run_list ELSE run_list

\* The queue as RR_pick_next sees it: a current process that can go on has
\* been put at the tail first.
ReadyQueue == IF Requeues THEN Append(run_list, current) ELSE run_list

ScheduleOK == Requeues => EnqueueOK(current)

schedule ==
    /\ need_resched' = [need_resched EXCEPT ![current] = FALSE]
    /\ time_slice' = IF Requeues
                     THEN [time_slice EXCEPT ![current] = Refill(@)]
                     ELSE time_slice
    /\ \/ /\ ReadyQueue = << >>
          /\ run_list' = << >>
          /\ current' = idleproc
       \/ /\ ReadyQueue # << >>
          /\ run_list' = Tail(ReadyQueue)
          /\ current' = Head(ReadyQueue)
    /\ UNCHANGED <<state, wait_state, timer_list>>

----------------------------------------------------------------------------
(* What the queue is *)

\* The run queue holds exactly the processes that could use the CPU and do
\* not have it, each once, whatever order wake-ups, kills and ticks come in
\* (wakeup_proc, schedule, RR_enqueue, RR_dequeue).
RunQueueExact ==
    /\ \A p \in Proc : Queued(p) <=> /\ state[p] = "PROC_RUNNABLE"
                                     /\ p \notin {current, idleproc}
    /\ IsInjective(run_list)
=============================================================================
