------------------------------- MODULE Table -------------------------------
(***************************************************************************)
(* The dining table check_sync.c is about, without semaphores or monitor:  *)
(* a philosopher becomes hungry, gets both forks at once when neither      *)
(* neighbour has one, and puts them back.                                  *)
(***************************************************************************)
EXTENDS Integers

CONSTANT N          \* the number of philosophers

VARIABLE phase      \* what each of them is doing

Phil == 0 .. N - 1
Left(i) == (i - 1 + N) % N
Right(i) == (i + 1) % N

Init == phase = [i \in Phil |-> "THINKING"]

Hungry(i) ==
    /\ phase[i] = "THINKING"
    /\ phase' = [phase EXCEPT ![i] = "HUNGRY"]

Eat(i) ==
    /\ phase[i] = "HUNGRY"
    /\ phase[Left(i)] # "EATING" /\ phase[Right(i)] # "EATING"
    /\ phase' = [phase EXCEPT ![i] = "EATING"]

Think(i) ==
    /\ phase[i] = "EATING"
    /\ phase' = [phase EXCEPT ![i] = "THINKING"]

Next == \E i \in Phil : Hungry(i) \/ Eat(i) \/ Think(i)

Spec == Init /\ [][Next]_phase
=============================================================================
