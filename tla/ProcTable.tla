----------------------------- MODULE ProcTable -----------------------------
(***************************************************************************)
(* The table of processes (process/proc.c): the pids that get_pid gives    *)
(* out, the list get_pid searches, and the links through which a process   *)
(* finds its children.  Process has a set of children where this module    *)
(* has the pointers cptr, yptr and optr.                                   *)
(*                                                                         *)
(* do_fork, do_exit and do_wait change the table with interrupts disabled  *)
(* and do not sleep in the middle, so one of them ends before the next     *)
(* begins.  The loops of get_pid and do_exit make one step per iteration.  *)
(***************************************************************************)
EXTENDS Integers, Sequences, FiniteSets, SequencesExt

CONSTANTS Proc, idleproc, initproc, NULL, MAX_PROCESS, MAX_PID

ASSUME ProcTableAssumption ==
    /\ {idleproc, initproc} \subseteq Proc /\ idleproc # initproc /\ NULL \notin Proc
    /\ IsFiniteSet(Proc)    \* alloc_proc's memory is finite
    /\ MAX_PROCESS \in Nat /\ MAX_PID \in Nat
    /\ MAX_PROCESS \geq 2
    /\ MAX_PID > MAX_PROCESS            \* static_assert in get_pid

VARIABLES
    state,          \* of a proc_struct: "free" memory, "live" or "zombie"
    pid, parent,
    cptr,           \* a process's youngest child
    yptr, optr,     \* the next younger and the next older child of its parent
    proc_list,      \* all processes but idle, the last linked first
    nr_process,
    last_pid, next_safe,    \* get_pid's: no pid lies strictly between them
    new,            \* the process get_pid is to find a pid for
    le,             \* where its loop is in proc_list
    exiting         \* the process whose children do_exit hands to init

links == <<parent, cptr, yptr, optr>>
pids == <<pid, last_pid, next_safe, new, le>>
vars == <<state, links, proc_list, nr_process, pids, exiting>>

Link == [Proc -> Proc \cup {NULL}]
Listed == ToSet(proc_list)

TypeOK ==
    /\ state \in [Proc -> {"free", "live", "zombie"}]
    /\ pid \in [Proc -> -1 .. MAX_PID - 1]
    /\ parent \in Link /\ cptr \in Link /\ yptr \in Link /\ optr \in Link
    /\ proc_list \in Seq(Proc)
    /\ nr_process \in 1 .. MAX_PROCESS
    /\ last_pid \in 1 .. MAX_PID - 1 /\ next_safe \in 1 .. MAX_PID
    /\ new \in Proc \cup {NULL} /\ exiting \in Proc \cup {NULL}
    /\ le \in 1 .. Len(proc_list) + 1

\* proc_init has made idle by hand and forked init, whose pid was the first.
Init ==
    /\ state = [p \in Proc |-> IF p \in {idleproc, initproc} THEN "live" ELSE "free"]
    /\ pid = [p \in Proc |-> CASE p = idleproc -> 0 [] p = initproc -> 1 [] OTHER -> -1]
    /\ parent = [p \in Proc |-> IF p = initproc THEN idleproc ELSE NULL]
    /\ cptr = [p \in Proc |-> IF p = idleproc THEN initproc ELSE NULL]
    /\ yptr = [p \in Proc |-> NULL] /\ optr = [p \in Proc |-> NULL]
    /\ proc_list = <<initproc>> /\ nr_process = 2
    /\ last_pid = 1 /\ next_safe = MAX_PID
    /\ new = NULL /\ le = 1 /\ exiting = NULL

Quiet == new = NULL /\ exiting = NULL

----------------------------------------------------------------------------
(* fork *)

\* Deviation: pids wrap around one too late.
get_pid_late ==
    LET n == last_pid + 1
    IN  \/ /\ n > MAX_PID
           /\ last_pid' = 1 /\ next_safe' = MAX_PID /\ le' = 1
        \/ /\ next_safe <= n /\ n <= MAX_PID
           /\ last_pid' = n /\ next_safe' = MAX_PID /\ le' = 1
        \/ /\ n < next_safe /\ n <= MAX_PID
           /\ last_pid' = n /\ le' = Len(proc_list) + 1 /\ UNCHANGED next_safe

\* get_pid up to its loop, which it may leave out.
get_pid ==
    LET n == last_pid + 1
    IN  \/ /\ n >= MAX_PID
           /\ last_pid' = 1 /\ next_safe' = MAX_PID /\ le' = 1
        \/ /\ next_safe <= n /\ n < MAX_PID
           /\ last_pid' = n /\ next_safe' = MAX_PID /\ le' = 1
        \/ /\ n < next_safe /\ n < MAX_PID
           /\ last_pid' = n /\ le' = Len(proc_list) + 1 /\ UNCHANGED next_safe

\* do_fork by p, with c the memory alloc_proc gets.
Fork(p, c) ==
    /\ Quiet /\ state[p] = "live" /\ state[c] = "free"
    /\ nr_process < MAX_PROCESS
    /\ pid' = [pid EXCEPT ![c] = -1]
    /\ parent' = [parent EXCEPT ![c] = p]
    /\ cptr' = [cptr EXCEPT ![c] = NULL]
    /\ yptr' = [yptr EXCEPT ![c] = NULL]
    /\ optr' = [optr EXCEPT ![c] = NULL]
    /\ new' = c
    /\ get_pid
    /\ UNCHANGED <<state, proc_list, nr_process, exiting>>

\* Deviation: a pid above last_pid that is in use does not lower next_safe.
LoopBody_unsafe(q) ==
    IF q = last_pid
    THEN IF last_pid + 1 >= next_safe
         THEN /\ last_pid' = IF last_pid + 1 >= MAX_PID THEN 1 ELSE last_pid + 1
              /\ next_safe' = MAX_PID /\ le' = 1
         ELSE last_pid' = last_pid + 1 /\ le' = le + 1 /\ UNCHANGED next_safe
    ELSE le' = le + 1 /\ UNCHANGED <<last_pid, next_safe>>

\* Deviation: the loop starts anew but keeps the pid that is in use.
LoopBody_stuck(q) ==
    IF q = last_pid
    THEN next_safe' = MAX_PID /\ le' = 1 /\ UNCHANGED last_pid
    ELSE /\ le' = le + 1 /\ UNCHANGED last_pid
         /\ next_safe' = IF last_pid < q /\ q < next_safe THEN q ELSE next_safe

\* get_pid's loop at a process with pid q.
LoopBody(q) ==
    IF q = last_pid
    THEN IF last_pid + 1 >= next_safe
         THEN /\ last_pid' = IF last_pid + 1 >= MAX_PID THEN 1 ELSE last_pid + 1
              /\ next_safe' = MAX_PID /\ le' = 1
         ELSE last_pid' = last_pid + 1 /\ le' = le + 1 /\ UNCHANGED next_safe
    ELSE /\ le' = le + 1 /\ UNCHANGED last_pid
         /\ next_safe' = IF last_pid < q /\ q < next_safe THEN q ELSE next_safe

Scan ==
    /\ new # NULL /\ le <= Len(proc_list)
    /\ LoopBody(pid[proc_list[le]])
    /\ UNCHANGED <<state, links, proc_list, nr_process, pid, new, exiting>>

set_links(c) ==
    LET p == parent[c]
        o == cptr[p]
    IN  /\ proc_list' = InsertAt(proc_list, 1, c)
        /\ optr' = [optr EXCEPT ![c] = o]
        /\ yptr' = [q \in Proc |-> CASE q = c -> NULL [] q = o -> c [] OTHER -> yptr[q]]
        /\ cptr' = [cptr EXCEPT ![p] = c]
        /\ nr_process' = nr_process + 1

\* The rest of do_fork.
ForkDone ==
    /\ new # NULL /\ le > Len(proc_list)
    /\ pid' = [pid EXCEPT ![new] = last_pid]
    /\ set_links(new)
    /\ state' = [state EXCEPT ![new] = "live"]
    /\ new' = NULL /\ le' = 1
    /\ UNCHANGED <<parent, last_pid, next_safe, exiting>>

----------------------------------------------------------------------------
(* exit and wait *)

\* do_exit, up to the loop over the children.
Exit(p) ==
    /\ Quiet /\ state[p] = "live" /\ p \notin {idleproc, initproc}
    /\ state' = [state EXCEPT ![p] = "zombie"]
    /\ exiting' = p
    /\ UNCHANGED <<links, proc_list, nr_process, pids>>

\* One iteration of that loop: the youngest child becomes init's youngest.
Reparent ==
    /\ exiting # NULL /\ cptr[exiting] # NULL
    /\ LET c == cptr[exiting]
       IN  /\ yptr' = [q \in Proc |-> CASE q = c -> NULL
                                        [] q = cptr[initproc] -> c
                                        [] OTHER -> yptr[q]]
           /\ optr' = [optr EXCEPT ![c] = cptr[initproc]]
           /\ parent' = [parent EXCEPT ![c] = initproc]
           /\ cptr' = [cptr EXCEPT ![exiting] = optr[c], ![initproc] = c]
    /\ UNCHANGED <<state, proc_list, nr_process, pids, exiting>>

ExitDone ==
    /\ exiting # NULL /\ cptr[exiting] = NULL
    /\ exiting' = NULL
    /\ UNCHANGED <<state, links, proc_list, nr_process, pids>>

\* The n-th process of the walk cptr, optr, optr, ... that do_wait makes.
Walk(p) ==
    LET w[n \in 0 .. Cardinality(Proc)] ==
            IF n = 0 THEN cptr[p]
            ELSE IF w[n - 1] = NULL THEN NULL ELSE optr[w[n - 1]]
    IN  w

\* Where do_wait(0) ends its walk: at the first zombie.
FirstZombie(p, z) ==
    \E n \in 0 .. Cardinality(Proc) :
        /\ Walk(p)[n] = z
        /\ \A m \in 0 .. n - 1 : state[Walk(p)[m]] # "zombie"

\* find_proc: the hash chain of a pid has its processes in proc_list's order.
find_proc(n) ==
    LET found == {i \in DOMAIN proc_list : pid[proc_list[i]] = n}
    IN  IF found = {} THEN NULL
        ELSE proc_list[CHOOSE i \in found : \A j \in found : i <= j]

\* Deviation: the older sibling keeps pointing to c.
remove_links_old(c) ==
    LET o == optr[c]
        y == yptr[c]
    IN  /\ \E i \in DOMAIN proc_list :
            proc_list[i] = c /\ proc_list' = RemoveAt(proc_list, i)
        /\ optr' = [q \in Proc |-> IF q = y THEN o ELSE optr[q]]
        /\ cptr' = IF y = NULL THEN [cptr EXCEPT ![parent[c]] = o] ELSE cptr
        /\ nr_process' = nr_process - 1
        /\ UNCHANGED yptr

remove_links(c) ==
    LET o == optr[c]
        y == yptr[c]
    IN  /\ \E i \in DOMAIN proc_list :
            proc_list[i] = c /\ proc_list' = RemoveAt(proc_list, i)
        /\ yptr' = [q \in Proc |-> IF q = o THEN y ELSE yptr[q]]
        /\ optr' = [q \in Proc |-> IF q = y THEN o ELSE optr[q]]
        /\ cptr' = IF y = NULL THEN [cptr EXCEPT ![parent[c]] = o] ELSE cptr
        /\ nr_process' = nr_process - 1

\* do_wait frees z, which it found on its walk or by its pid.
Reap(p, z) ==
    /\ Quiet /\ state[p] = "live" /\ state[z] = "zombie"
    /\ \/ FirstZombie(p, z)
       \/ find_proc(pid[z]) = z /\ parent[z] = p
    /\ remove_links(z)
    /\ state' = [state EXCEPT ![z] = "free"]
    /\ UNCHANGED <<parent, pids, exiting>>

Next ==
    \/ \E p, c \in Proc : Fork(p, c)
    \/ Scan \/ ForkDone
    \/ \E p \in Proc : Exit(p)
    \/ Reparent \/ ExitDone
    \/ \E p, z \in Proc : Reap(p, z)

Spec == Init /\ [][Next]_vars

\* do_fork and do_exit are not interrupted: their loops go on.
FairSpec == Spec /\ WF_vars(Scan \/ ForkDone) /\ WF_vars(Reparent \/ ExitDone)

----------------------------------------------------------------------------
(* Properties *)

\* get_pid - "alloc a unique pid": no two processes, zombies included, have the
\* same pid, however often the pids have wrapped around, and none has idle's.
PidsUnique ==
    \A p, q \in Listed : pid[p] > 0 /\ (pid[p] = pid[q] => p = q)

Children(p) == {c \in Listed : parent[c] = p}

\* The walk of do_wait meets every child once and nothing else, and ends.
WalkExact ==
    \A p \in Listed \cup {idleproc} :
        LET w == Walk(p)
            k == Cardinality(Children(p))
        IN  /\ {w[n] : n \in 0 .. k - 1} = Children(p)
            /\ w[k] = NULL

\* Neighbours in a parent's list of children agree about each other.  Only the
\* children do_exit still has to hand over do not: the youngest of them points
\* to a sibling that is gone, until its turn comes.
LinksAgree ==
    \A c \in {q \in Listed : parent[q] # exiting} :
        /\ optr[c] # NULL => yptr[optr[c]] = c /\ parent[optr[c]] = parent[c]
        /\ yptr[c] # NULL => optr[yptr[c]] = c /\ parent[yptr[c]] = parent[c]
        /\ yptr[c] = NULL <=> cptr[parent[c]] = c

\* The three views of a list of children agree in every state of every loop: do_wait
\* finds each child once, and the neighbours agree (set_links, remove_links, do_exit).
ChildrenExact == WalkExact /\ LinksAgree

\* get_pid finds a pid although its loop can start over: there are more pids
\* than processes.
PidFound == new # NULL ~> new = NULL
=============================================================================
