---------------------------- MODULE ProcessInv ----------------------------
(***************************************************************************)
(* The inductive invariant of Process.  ProcessProofs proves it.           *)
(***************************************************************************)
EXTENDS Process, SchedProofs

----------------------------------------------------------------------------
(* The inductive invariant *)

\* Where a process that is not current can be: behind a call of schedule, or
\* where a new process starts.
Parked == {"none", "start", "idle", "scan", "user", "woken", "slept", "kbd",
           "returned"}

Dead == {"notify", "reparent", "dead", "returned"}

\* A sleeper is in the function that put it to sleep, and in its list.
Asleep(p) ==
    \/ wait_state[p] = "WT_CHILD" /\ pc[p] \in {"wait", "woken"}
    \/ wait_state[p] = "WT_TIMER" /\ pc[p] \in {"sleep", "slept"} /\ Armed(p)
    \/ wait_state[p] = "WT_KBD" /\ pc[p] \in {"read", "kbd"} /\ Waiting(p)

\* How state, wait_state and the place in the code go together.
Placed(p) ==
    /\ pc[p] = "none" <=> state[p] = "PROC_UNUSED"
    /\ pc[p] \in Dead <=> state[p] = "PROC_ZOMBIE"
    /\ state[p] = "PROC_SLEEPING" => Asleep(p)
    /\ state[p] # "PROC_SLEEPING" => wait_state[p] = "0"
    /\ p # current => pc[p] \in Parked

Places ==
    /\ \A p \in Proc : Placed(p)
    /\ pc[current] \notin {"none", "returned"}
    /\ state[current] = "PROC_SLEEPING" => pc[current] \in {"wait", "sleep", "read"}
    /\ pc[idleproc] = "idle" /\ state[idleproc] = "PROC_RUNNABLE"
    /\ \/ pc[initproc] \in {"start", "scan", "wait", "woken", "loop", "halt",
                             "exit"}
       \/ panic /\ pc[initproc] = "notify"

\* Each timer and each wait belongs to a process that is still in the
\* function whose stack frame holds it, and is in its list once.
Links ==
    /\ \A p \in Proc : /\ Armed(p) => pc[p] \in {"sleep", "slept"}
                       /\ Waiting(p) => pc[p] \in {"read", "kbd"}
    /\ OneTimerEach
    /\ IsInjective(kbd_queue)

\* A live process has a live parent.  A dead parent still has its loop over
\* the children to do.
Family ==
    /\ parent[idleproc] = NoProc
    /\ \A p \in Proc \ {idleproc} : Live(p) =>
          /\ parent[p] \in Proc /\ Live(parent[p])
          /\ state[parent[p]] = "PROC_ZOMBIE" => pc[parent[p]] \in {"notify", "reparent"}

IInv == TypeOK /\ Places /\ RunQueueExact /\ Links /\ Family
=============================================================================
