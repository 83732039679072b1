------------------------------ MODULE Schedule ------------------------------
(***************************************************************************)
(* sched.c with each of the scheduling classes: processes compute, yield,  *)
(* sleep and wake each other, and the clock ticks.  Timers are there in    *)
(* lab8 only, which runs round robin; the timer list implements Deadlines. *)
(***************************************************************************)
EXTENDS TimerList, Classes, FiniteSets

CONSTANTS
    idleproc,
    PRIORITIES,     \* what lab6_set_priority is called with,
    BURSTS,         \* and under SJF, which takes it for a burst
    MaxTicks        \* bound: the longest sleep

ASSUME ScheduleAssumption ==
    /\ idleproc \in Proc /\ MaxTicks \in Nat \ {0}
    /\ PRIORITIES \cup BURSTS \subseteq Nat \ {0}

VARIABLES
    sched_class,    \* the class sched_init has chosen
    rq,             \* the run queue, and what the class keeps in the proc_structs
    current, sleeping, need_resched,
    slept,          \* somebody has slept
    firing          \* run_timer_list is in its loop

vars == <<timer_list, sched_class, rq, current, sleeping, need_resched, slept, firing>>

User == Proc \ {idleproc}

\* The first process has forked the others, which have set their priorities.
Init ==
    /\ timer_list = << >> /\ firing = FALSE
    /\ sched_class \in Class
    /\ \E priority \in [User -> IF sched_class = "SJF" THEN BURSTS ELSE PRIORITIES],
          order \in {SetToSeq(User)} :
        LET none == [run_list |-> << >>, run_pool |-> << >>, proc_num |-> 0,
                     priority |-> priority, stride |-> [p \in User |-> 0],
                     time_slice |-> [p \in User |-> 0]]
            upto[i \in 0 .. Len(order)] ==
                IF i = 0 THEN none ELSE enqueue(sched_class, upto[i - 1], order[i])
        IN  rq = upto[Len(order)]
    /\ current = idleproc /\ sleeping = {} /\ need_resched = {idleproc}
    /\ slept = FALSE

----------------------------------------------------------------------------
(* sched.c *)

\* wakeup_proc(p).
Woken(p) ==
    /\ rq' = IF p \in sleeping /\ p # current THEN enqueue(sched_class, rq, p) ELSE rq
    /\ sleeping' = sleeping \ {p}

\* Deviation: the current process is not put back.
switch_lost(s, runnable) ==
    IF IsEmpty(sched_class, s) THEN [rq |-> s, next |-> idleproc]
    ELSE [rq |-> dequeue(sched_class, pick_next(sched_class, s)),
          next |-> First(sched_class, s)]

\* schedule, for a current process that can go on or not.
switch(s, runnable) ==
    LET t == IF runnable /\ current # idleproc THEN enqueue(sched_class, s, current) ELSE s
    IN  IF IsEmpty(sched_class, t) THEN [rq |-> t, next |-> idleproc]
        ELSE [rq |-> dequeue(sched_class, pick_next(sched_class, t)),
              next |-> First(sched_class, t)]

Switched(runnable) ==
    /\ rq' = switch(rq, runnable).rq
    /\ current' = switch(rq, runnable).next
    /\ need_resched' = need_resched \ {current}

\* trap, on its way back to user mode, and cpu_idle.
Resched ==
    /\ ~ firing /\ current \in need_resched
    /\ Switched(TRUE)
    /\ UNCHANGED <<timer_list, sched_class, sleeping, slept, firing>>

\* The current process makes a system call.
Calls(p) == ~ firing /\ p = current /\ p \in User \ need_resched /\ ~ Armed(p)

\* do_yield, and the schedule of trap that follows it.
Yield(p) ==
    /\ Calls(p)
    /\ Switched(TRUE)
    /\ UNCHANGED <<timer_list, sched_class, sleeping, slept, firing>>

\* do_sleep, up to schedule; without a timer do_wait.
Sleep(p) ==
    /\ Calls(p)
    /\ \/ sched_class = "RR" /\ \E ticks \in 1 .. MaxTicks : add_timer(p, ticks)
       \/ UNCHANGED timer_list
    /\ sleeping' = sleeping \cup {p} /\ slept' = TRUE
    /\ Switched(FALSE)
    /\ UNCHANGED <<sched_class, firing>>

\* do_sleep after schedule, whoever woke the process.
Slept(p) ==
    /\ ~ firing /\ p = current /\ Armed(p)
    /\ del_timer(p)
    /\ UNCHANGED <<sched_class, rq, current, sleeping, need_resched, slept, firing>>

\* do_kill wakes q before its time, or do_exit its parent.
Wake(p, q) ==
    /\ Calls(p) /\ q \in sleeping
    /\ Woken(q)
    /\ UNCHANGED <<timer_list, sched_class, current, need_resched, slept, firing>>

----------------------------------------------------------------------------
(* run_timer_list, called by the timer interrupt *)

\* A program has gone through schedule by the next tick, and cpu_idle has looked at
\* need_resched.
Tick ==
    /\ ~ firing /\ firing' = TRUE
    /\ current \notin need_resched
    /\ decrement_head
    /\ UNCHANGED <<sched_class, rq, current, sleeping, need_resched, slept>>

\* One round of its loop.
Expire ==
    /\ firing /\ HeadExpired
    /\ Woken(timer_list[1].proc)
    /\ del_timer(timer_list[1].proc)
    /\ UNCHANGED <<sched_class, current, need_resched, slept, firing>>

\* The loop ends, and sched_class_proc_tick charges the current process.
EndOfTick ==
    /\ firing /\ ~ HeadExpired /\ firing' = FALSE
    /\ IF current = idleproc
       THEN need_resched' = need_resched \cup {idleproc} /\ UNCHANGED rq
       ELSE LET t == proc_tick(sched_class, rq, current)
            IN  /\ rq' = t.s
                /\ need_resched' = need_resched \cup (IF t.resched THEN {current} ELSE {})
    /\ UNCHANGED <<timer_list, sched_class, current, sleeping, slept>>

Next ==
    \/ \E p \in User : Yield(p) \/ Sleep(p) \/ Slept(p) \/ \E q \in User : Wake(p, q)
    \/ Resched \/ Tick \/ Expire \/ EndOfTick

Spec == Init /\ [][Next]_vars

\* The clock ticks, its handler gets through, and so does the kernel.
Fairness ==
    /\ WF_vars(Tick) /\ WF_vars(Expire) /\ WF_vars(EndOfTick) /\ WF_vars(Resched)
    /\ WF_vars(\E p \in User : Slept(p))
FairSpec == Spec /\ Fairness

----------------------------------------------------------------------------
(* Properties *)

Queue == IF sched_class \in Stride THEN InHeap(rq.run_pool) ELSE ToSet(rq.run_list)

\* Whatever the class, it has the processes that can run, each of them once, and
\* proc_num of them: none is lost by a wake-up, a yield or the end of a slice.
QueueExact ==
    /\ Queue = User \ (sleeping \cup {current})
    /\ rq.proc_num = Cardinality(Queue)
    /\ rq.proc_num = HeapSize(rq.run_pool) + Len(rq.run_list)

\* Strides wrap around.  As long as nobody sleeps no two of them are further apart than
\* BIG_STRIDE, and so the sign of their difference tells which is behind: the first of
\* the pool is not ahead of any other (stride_pick_next).
StridesComparable ==
    sched_class \in Stride /\ ~ slept =>
        /\ \A p, q \in User : LET c == (rq.stride[p] - rq.stride[q]) % WIDTH
                              IN  c <= BIG_STRIDE(sched_class) \/ WIDTH - c <= BIG_STRIDE(sched_class)
        /\ \A p \in Queue : ~ Below(rq.stride[p], rq.stride[rq.run_pool[1]])

\* Under SJF a process waits for ever behind bursts that run out and start again at the
\* default if its own is above that (sjf_enqueue, sjf_proc_tick).
MayStarve(p) == sched_class = "SJF" /\ rq.priority[p] > DEFAULT_BURST

\* Every other process that can run gets the CPU, in each class: also when others sleep,
\* are woken and come back with old strides, and however short the bursts of others are.
QueuedRuns == \A p \in User : p \in Queue /\ ~ MayStarve(p) ~> current = p

\* The ticks the timer of p has left, as the list tells them.
TicksLeft(p) ==
    Elapsed[CHOOSE i \in DOMAIN timer_list : timer_list[i].proc = p]

D == INSTANCE Deadlines
        WITH left <- [p \in {q \in Proc : Armed(q)} |-> TicksLeft(p)]

\* The list implements the deadlines: whatever is inserted before or deleted
\* in front of a timer, it fires with the very tick it was armed for, and all
\* timers of a tick fire with it (add_timer, del_timer, run_timer_list).
ImplementsDeadlines == D!Spec

\* A timer fires, or its owner deletes it: one at the wrong end of the list would leave
\* a sleeper behind.
TimerGoes == \A p \in Proc : Armed(p) ~> ~ Armed(p)
=============================================================================
