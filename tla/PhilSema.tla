----------------------------- MODULE PhilSema -----------------------------
(***************************************************************************)
(* The dining philosophers with semaphores (sync/check_sync.c): the first  *)
(* part of check_sync.                                                     *)
(***************************************************************************)
EXTENDS Semaphore

VARIABLE state_sema     \* what each philosopher says it is doing

allVars == <<vars, state_sema>>

mutex == <<"mutex", 0>>
s(i) == <<"s", i>>
Sem == {mutex} \cup {s(i) : i \in Phil}

Init ==
    /\ ThreadsInit("think")
    /\ value = [x \in Sem |-> IF x = mutex THEN 1 ELSE 0]
    /\ sem_queue = [x \in Sem |-> << >>]
    /\ state_sema = [i \in Phil |-> "THINKING"]

\* A statement that does nothing but set state_sema[i].
SetState(i, phase, l) ==
    /\ state_sema' = [state_sema EXCEPT ![i] = phase]
    /\ Goto(i, l)
    /\ UNCHANGED <<schedVars, semVars, call, iter, reaped, irq, panic>>

\* Deviation: the left neighbour is not looked at.
CanEat_right(i) == state_sema[i] = "HUNGRY" /\ state_sema[Right(i)] # "EATING"

CanEat(i) == /\ state_sema[i] = "HUNGRY"
             /\ state_sema[Left(i)] # "EATING" /\ state_sema[Right(i)] # "EATING"

\* phi_test_sema(j), called by i, which goes on at l.
phi_test(i, j, l) ==
    IF CanEat(j)
    THEN /\ state_sema' = [state_sema EXCEPT ![j] = "EATING"]
         /\ Up(i, s(j), l)
    ELSE /\ Goto(i, l)
         /\ UNCHANGED <<schedVars, semVars, call, iter, reaped, irq, panic,
                        state_sema>>

ThinkOrQuit(i) == Think(i, "think", "take") /\ UNCHANGED state_sema

\* phi_take_forks_sema.
TakeForks(i) ==
    \/ At(i, "take") /\ Down(i, mutex, "hungry") /\ UNCHANGED state_sema
    \/ At(i, "hungry") /\ SetState(i, "HUNGRY", "test")
    \/ At(i, "test") /\ phi_test(i, i, "unlock")
    \/ At(i, "unlock") /\ Up(i, mutex, "forks") /\ UNCHANGED state_sema
    \/ At(i, "forks") /\ Down(i, s(i), "eat") /\ UNCHANGED state_sema

Eat(i) ==
    /\ At(i, "eat") /\ Sleep(i, "put")
    /\ UNCHANGED <<iter, state_sema>>

\* Deviation: the left neighbour is not told.
PutForks_right(i) ==
    \/ At(i, "put") /\ Down(i, mutex, "full") /\ UNCHANGED state_sema
    \/ At(i, "full") /\ SetState(i, "THINKING", "right")
    \/ At(i, "right") /\ phi_test(i, Right(i), "done")
    \/ At(i, "done") /\ Up(i, mutex, "think") /\ UNCHANGED state_sema

\* phi_put_forks_sema.
PutForks(i) ==
    \/ At(i, "put") /\ Down(i, mutex, "full") /\ UNCHANGED state_sema
    \/ At(i, "full") /\ SetState(i, "THINKING", "left")
    \/ At(i, "left") /\ phi_test(i, Left(i), "right")
    \/ At(i, "right") /\ phi_test(i, Right(i), "done")
    \/ At(i, "done") /\ Up(i, mutex, "think") /\ UNCHANGED state_sema

Philosopher(i) == ThinkOrQuit(i) \/ TakeForks(i) \/ Eat(i) \/ PutForks(i)

Cpu == \/ \E i \in Phil : Philosopher(i)
       \/ \E p \in Proc : Thread(p) /\ UNCHANGED state_sema

Clock == IrqTimer /\ UNCHANGED state_sema
Handler == Irq /\ UNCHANGED state_sema
Returned == Finished /\ UNCHANGED state_sema

Next == Cpu \/ Clock \/ Handler \/ Returned

Spec == Init /\ [][Next]_allVars

\* The CPU executes in spite of the interrupts, and the clock ticks.
Fairness == SF_allVars(Cpu) /\ SF_allVars(Clock) /\ WF_allVars(Handler)
FairSpec == Spec /\ Fairness

----------------------------------------------------------------------------
(* Properties *)

\* s[i] hands out exactly the permissions that state_sema records (up and down
\* in check_sync.c): a philosopher marked EATING has its unit waiting, is being
\* woken with it, or has it.
UnitsMatch ==
    \A i \in Phil :
        /\ value[s(i)] = IF state_sema[i] = "EATING" /\ pc[i] \in {"unlock", "forks"}
                         THEN 1 ELSE 0
        /\ sem_queue[s(i)] = IF state_sema[i] = "HUNGRY" /\ pc[i] = "eat"
                             THEN <<i>> ELSE << >>

\* A philosopher that could eat does not wait (phi_put_forks_sema): outside of
\* the critical section whoever is blocked on s[i] has a neighbour that eats.
BlockedForAReason ==
    value[mutex] = 1 => \A i \in Phil : ~ CanEat(i)

T == INSTANCE Table WITH phase <- state_sema

\* The semaphores implement the table of check_sync.c: no two neighbours eat,
\* and who eats took both forks at once.
ImplementsTable == T!Spec
=============================================================================
