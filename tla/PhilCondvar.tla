---------------------------- MODULE PhilCondvar ----------------------------
(***************************************************************************)
(* The monitor of sync/monitor.c, with the dining philosophers that use it *)
(* (sync/check_sync.c), the second part of check_sync.  It is a Hoare      *)
(* monitor: cond_signal gives the monitor to the thread it wakes and waits *)
(* on the semaphore next until it gets it back, and next_count tells       *)
(* whoever leaves that a signaller is waiting.                             *)
(***************************************************************************)
EXTENDS Semaphore

VARIABLES
    state_condvar,  \* what each philosopher says it is doing
    next_count,     \* mtp->next_count
    count           \* mtp->cv[i].count

monVars == <<state_condvar, next_count, count>>
allVars == <<vars, monVars>>

mutex == <<"mutex", 0>>
next == <<"next", 0>>
cv(i) == <<"cv", i>>
Sem == {mutex, next} \cup {cv(i) : i \in Phil}

\* The calls of phi_test_condvar: the place in its cond_signal where the
\* signaller waits on next, the place behind that, and where the caller of
\* phi_test_condvar goes on.
Signal == [test  |-> [blocked |-> "test.next", back |-> "test.back", then |-> "check"],
           left  |-> [blocked |-> "left.next", back |-> "left.back", then |-> "right"],
           right |-> [blocked |-> "right.next", back |-> "right.back", then |-> "leave"]]

Label == DOMAIN Signal
    \cup {Signal[l].blocked : l \in DOMAIN Signal}
    \cup {Signal[l].back : l \in DOMAIN Signal}
    \cup {"think", "take", "hungry", "check", "wait", "waited", "unlock",
          "eat", "put", "full", "leave"}

\* After monitor_init.
Init ==
    /\ ThreadsInit("think")
    /\ value = [x \in Sem |-> IF x = mutex THEN 1 ELSE 0]
    /\ sem_queue = [x \in Sem |-> << >>]
    /\ state_condvar = [i \in Phil |-> "THINKING"]
    /\ next_count = 0
    /\ count = [i \in Phil |-> 0]

\* A statement of i that touches neither semaphores nor the scheduler.
Step(i, l) ==
    /\ Goto(i, l)
    /\ UNCHANGED <<schedVars, semVars, call, iter, reaped, irq, panic>>

----------------------------------------------------------------------------
(* The monitor *)

\* cond_signal(&mtp->cv[j]), up to its down of next.
cond_signal(i, j, c) ==
    IF count[j] > 0
    THEN Up(i, cv(j), c.blocked) /\ next_count' = next_count + 1
    ELSE Step(i, c.then) /\ UNCHANGED next_count

\* Deviation: the signaller goes on without waiting for the monitor.
Signalling_mesa(i) ==
    \E l \in DOMAIN Signal :
        \/ At(i, Signal[l].blocked) /\ Step(i, Signal[l].back) /\ UNCHANGED monVars
        \/ /\ At(i, Signal[l].back) /\ Step(i, Signal[l].then)
           /\ next_count' = next_count - 1
           /\ UNCHANGED <<state_condvar, count>>

\* The rest of it.
Signalling(i) ==
    \E l \in DOMAIN Signal :
        \/ At(i, Signal[l].blocked) /\ Down(i, next, Signal[l].back) /\ UNCHANGED monVars
        \/ /\ At(i, Signal[l].back) /\ Step(i, Signal[l].then)
           /\ next_count' = next_count - 1
           /\ UNCHANGED <<state_condvar, count>>

\* Deviation: the mutex is opened also when a signaller waits for the monitor.
Release_mutex(i, l) == Up(i, mutex, l)

\* Leave the monitor, or wait in it: a signaller goes first.
Release(i, l) == Up(i, IF next_count > 0 THEN next ELSE mutex, l)

\* cond_wait(&mtp->cv[i]).
Waiting(i) ==
    \/ /\ At(i, "check") /\ state_condvar[i] = "HUNGRY"
       /\ Release(i, "wait")
       /\ count' = [count EXCEPT ![i] = @ + 1]
       /\ UNCHANGED <<state_condvar, next_count>>
    \/ At(i, "wait") /\ Down(i, cv(i), "waited") /\ UNCHANGED monVars
    \/ /\ At(i, "waited") /\ Step(i, "unlock")
       /\ count' = [count EXCEPT ![i] = @ - 1]
       /\ UNCHANGED <<state_condvar, next_count>>

----------------------------------------------------------------------------
(* The philosophers *)

SetState(i, phase, l) ==
    /\ state_condvar' = [state_condvar EXCEPT ![i] = phase]
    /\ Step(i, l)
    /\ UNCHANGED <<next_count, count>>

\* Deviation: the left neighbour is not looked at.
CanEat_right(i) == state_condvar[i] = "HUNGRY" /\ state_condvar[Right(i)] # "EATING"

CanEat(i) == /\ state_condvar[i] = "HUNGRY"
             /\ state_condvar[Left(i)] # "EATING" /\ state_condvar[Right(i)] # "EATING"

\* phi_test_condvar(j), called by i at l.
phi_test(i, l, j) ==
    /\ At(i, l)
    /\ \/ /\ CanEat(j)
          /\ state_condvar' = [state_condvar EXCEPT ![j] = "EATING"]
          /\ cond_signal(i, j, Signal[l])
          /\ UNCHANGED count
       \/ /\ ~ CanEat(j)
          /\ Step(i, Signal[l].then)
          /\ UNCHANGED monVars

ThinkOrQuit(i) == Think(i, "think", "take") /\ UNCHANGED monVars

\* phi_take_forks_condvar.  It tests once: who waits is woken to eat.
TakeForks(i) ==
    \/ At(i, "take") /\ Down(i, mutex, "hungry") /\ UNCHANGED monVars
    \/ At(i, "hungry") /\ SetState(i, "HUNGRY", "test")
    \/ phi_test(i, "test", i)
    \/ At(i, "check") /\ state_condvar[i] # "HUNGRY" /\ Step(i, "unlock") /\ UNCHANGED monVars
    \/ At(i, "unlock") /\ Release(i, "eat") /\ UNCHANGED monVars

Eat(i) == At(i, "eat") /\ Sleep(i, "put") /\ UNCHANGED <<iter, monVars>>

\* phi_put_forks_condvar.
PutForks(i) ==
    \/ At(i, "put") /\ Down(i, mutex, "full") /\ UNCHANGED monVars
    \/ At(i, "full") /\ SetState(i, "THINKING", "left")
    \/ phi_test(i, "left", Left(i))
    \/ phi_test(i, "right", Right(i))
    \/ At(i, "leave") /\ Release(i, "think") /\ UNCHANGED monVars

Philosopher(i) ==
    \/ ThinkOrQuit(i) \/ TakeForks(i) \/ Eat(i) \/ PutForks(i)
    \/ Waiting(i) \/ Signalling(i)

Cpu == \/ \E i \in Phil : Philosopher(i)
       \/ \E p \in Proc : Thread(p) /\ UNCHANGED monVars

Clock == IrqTimer /\ UNCHANGED monVars
Handler == Irq /\ UNCHANGED monVars
Returned == Finished /\ UNCHANGED monVars

Next == Cpu \/ Clock \/ Handler \/ Returned

Spec == Init /\ [][Next]_allVars

\* The CPU executes in spite of the interrupts, and the clock ticks.
Fairness == SF_allVars(Cpu) /\ SF_allVars(Clock) /\ WF_allVars(Handler)
FairSpec == Spec /\ Fairness

----------------------------------------------------------------------------
(* Properties *)

\* i is between the statement labelled l and the one before it, blocked in a
\* down or woken but not yet back.
Blocked(i) == call[i] \in {"down", "downed"}
HandedOver(i) == Blocked(i) /\ state[i] # "PROC_SLEEPING"

\* i runs inside of the monitor, or has been given it.
Active(i) ==
    \/ /\ pc[i] \in Label \ {"think", "take", "eat", "put", "wait"}
       /\ pc[i] \notin {Signal[l].blocked : l \in DOMAIN Signal}
       /\ Blocked(i) => HandedOver(i)

\* Between up(&cv->sem) and down(&mtp->next) the signaller still runs, but
\* the monitor belongs to the thread it has woken; between up(&mtp->mutex or
\* next) and down(&cv->sem) of cond_wait it belongs to whoever that up woke.
\* At every moment the monitor is held once: a thread is active in it, or one
\* of its semaphores has the unit that lets the next thread in.
MonitorHeldOnce ==
    Cardinality({i \in Phil : Active(i)}) + value[mutex] + value[next]
        + Quantify(Phil, LAMBDA i : value[cv(i)] = 1) = 1

\* next_count is the number of signallers that have given the monitor away
\* and not got it back: whoever leaves the monitor passes it to one of them
\* if there is one, and never to nobody.
NextCounted ==
    next_count = Quantify(Phil, LAMBDA i : \E l \in DOMAIN Signal :
                            pc[i] \in {Signal[l].blocked, Signal[l].back})

\* The monitor is held once at every moment of every hand-over, and next_count
\* tells how many signallers wait to get it back (cond_signal, cond_wait).
MonitorHeld == MonitorHeldOnce /\ NextCounted

\* The thread that cond_signal wakes finds what it waited for: the test in
\* phi_take_forks_condvar need not be repeated.
WokenMayEat ==
    \A i \in Phil : /\ pc[i] = "waited" /\ (~ Blocked(i) \/ HandedOver(i))
                          => state_condvar[i] = "EATING"
                    /\ pc[i] \in {"unlock", "eat"} => state_condvar[i] = "EATING"

T == INSTANCE Table WITH phase <- state_condvar

\* The monitor implements the table of check_sync.c: no two neighbours eat, and
\* who eats took both forks at once.
ImplementsTable == T!Spec
=============================================================================
