------------------------------ MODULE Process ------------------------------
(***************************************************************************)
(* The life of processes in the uCore kernel of labcodes/lab8: fork, exit, *)
(* wait, kill, sleep and yield (process/proc.c), blocking reads of the     *)
(* keyboard (fs/devs/dev_stdin.c), the timer interrupt and the return from *)
(* a trap (trap/trap.c), over the scheduler of Sched.                      *)
(*                                                                         *)
(* There is one CPU.  Only the process "current" takes steps, and the CPU  *)
(* changes hands in schedule() alone.  A user process runs its system      *)
(* calls with interrupts disabled; idle and init are kernel threads and    *)
(* can be interrupted between any two of their steps, but an interrupt     *)
(* taken in kernel mode never reschedules.  pc[p] is the place in the code *)
(* where process p goes on when it is (again) current, irq the place in    *)
(* the interrupt handler that is running on top of it.                     *)
(***************************************************************************)
EXTENDS Sched

CONSTANTS
    MAX_PROCESS,    \* limit on nr_process
    STDIN_BUFSIZE,  \* size of the keyboard ring
    MaxSleep,       \* bound: the longest sleep a program asks for, in ticks
    MaxRead,        \* bound: the longest read of the keyboard, in characters
    Killable        \* the processes programs send a kill to

NoProc == "NULL"    \* no parent

ASSUME ProcessAssumption ==
    /\ NoProc \notin Proc
    /\ MAX_PROCESS \in Nat /\ STDIN_BUFSIZE \in Nat \ {0}
    /\ MaxSleep \in Nat /\ MaxRead \in Nat
    /\ Killable \subseteq Proc \ {idleproc}

VARIABLES
    pc,             \* where each process goes on
    parent,         \* proc->parent, NoProc for idle and for free slots
    exiting,        \* the PF_EXITING bit of proc->flags
    waited,         \* do_wait's pid argument; idleproc's pid, 0, is "any"
    nr_process,     \* number of processes, idle included
    buffered,       \* characters in the keyboard ring: p_wpos - p_rpos
    wanted,         \* characters a dev_stdin_read still has to deliver
    kbd_queue,      \* the keyboard's wait queue, first waiter first
    wakeup_flags,   \* wait->wakeup_flags of a process's wait
    irq,            \* place in the interrupt handler, or "off"
    panic           \* an assertion has failed, the kernel has stopped

procVars == <<pc, parent, exiting, waited, nr_process>>
stdinVars == <<buffered, wanted, kbd_queue, wakeup_flags>>
vars == <<schedVars, procVars, stdinVars, irq, panic>>

\* Where schedule() is called, and where the process goes on afterwards.
Resume == [preempt |-> "user", wait |-> "woken", sleep |-> "slept",
           read |-> "kbd", loop |-> "scan", idle |-> "idle",
           dead |-> "returned"]

Location == DOMAIN Resume \cup
    {"user", "trapret", "scan", "woken", "slept", "reading", "kbd",
     "exit", "notify", "reparent", "returned", "start", "halt", "none"}

Live(p) == state[p] # "PROC_UNUSED"
Children(p) == {c \in Proc : Live(c) /\ parent[c] = p}

\* p's wait is linked into the keyboard's wait queue (wait_in_queue).
Waiting(p) == p \in ToSet(kbd_queue)

TypeOK ==
    /\ SchedTypeOK
    /\ pc \in [Proc -> Location]
    /\ parent \in [Proc -> Proc \cup {NoProc}]
    /\ exiting \in [Proc -> BOOLEAN]
    /\ waited \in [Proc -> Proc]
    /\ nr_process \in Int
    /\ buffered \in 0 .. STDIN_BUFSIZE
    /\ wanted \in [Proc -> 0 .. MaxRead]
    /\ kbd_queue \in Seq(Proc)
    /\ wakeup_flags \in [Proc -> {"WT_INTERRUPTED", "WT_KBD"}]
    /\ irq \in {"off", "timers", "char", "wake"}
    /\ panic \in BOOLEAN

\* After proc_init: idle runs, init_main is queued behind it.
Init ==
    /\ current = idleproc
    /\ state = [p \in Proc |-> IF p \in {idleproc, initproc}
                               THEN "PROC_RUNNABLE" ELSE "PROC_UNUSED"]
    /\ wait_state = [p \in Proc |-> "0"]
    /\ need_resched = [p \in Proc |-> p = idleproc]
    /\ time_slice = [p \in Proc |-> IF p = initproc THEN MAX_TIME_SLICE ELSE 0]
    /\ run_list = <<initproc>>
    /\ timer_list = << >>
    /\ pc = [p \in Proc |-> CASE p = idleproc -> "idle"
                              [] p = initproc -> "start"
                              [] OTHER -> "none"]
    /\ parent = [p \in Proc |-> IF p = initproc THEN idleproc ELSE NoProc]
    /\ exiting = [p \in Proc |-> FALSE]
    /\ waited = [p \in Proc |-> idleproc]
    /\ nr_process = 2
    /\ buffered = 0
    /\ wanted = [p \in Proc |-> 0]
    /\ kbd_queue = << >>
    /\ wakeup_flags = [p \in Proc |-> "WT_INTERRUPTED"]
    /\ irq = "off"
    /\ panic = FALSE

----------------------------------------------------------------------------
(* Steps of the current process *)

\* The kernel has not stopped, and no interrupt handler is running.
Running == ~ panic /\ pc[initproc] # "halt"
At(p, l) == Running /\ irq = "off" /\ current = p /\ pc[p] = l

Goto(p, l) == pc' = [pc EXCEPT ![p] = l]
\* An assert, or a condition for a call of panic.
assert(ok) == panic' = ~ ok

\* A call of schedule().  cpu_idle makes it when a tick has asked for it.
\* A dead process must not come back: panic("do_exit will not return!!").
CallSchedule(p) ==
    /\ \E l \in DOMAIN Resume : At(p, l) /\ Goto(p, Resume[l])
    /\ p = idleproc => need_resched[idleproc]
    /\ schedule
    /\ assert(ScheduleOK /\ pc'[current'] # "returned")
    /\ UNCHANGED <<parent, exiting, waited, nr_process, stdinVars, irq>>

\* trap, on the way back to user mode.
TrapReturn(p) ==
    /\ At(p, "trapret")
    /\ Goto(p, CASE exiting[p] -> "exit"
                 [] ~ exiting[p] /\ need_resched[p] -> "preempt"
                 [] OTHER -> "user")
    /\ UNCHANGED <<schedVars, parent, exiting, waited, nr_process, stdinVars,
                   irq, panic>>

----------------------------------------------------------------------------
(* do_fork *)

\* alloc_proc, set_links and wakeup_proc for a child c in a free slot, whose
\* fields are all zero.  The child starts in user mode (forkret).
NewProcess(p, c) ==
    /\ ~ Live(c) /\ nr_process < MAX_PROCESS
    /\ state' = [state EXCEPT ![c] = "PROC_RUNNABLE"]
    /\ wait_state' = [wait_state EXCEPT ![p] = "0"]
    /\ enqueue(c)
    /\ parent' = [parent EXCEPT ![c] = p]
    /\ nr_process' = nr_process + 1
    /\ assert(EnqueueOK(c))
    /\ UNCHANGED <<current, need_resched, timer_list, exiting, waited,
                   stdinVars, irq>>

Fork(p) ==
    /\ At(p, "user")
    /\ \E c \in Proc :
        /\ NewProcess(p, c)
        /\ pc' = [pc EXCEPT ![p] = "trapret", ![c] = "user"]

\* init_main: create user_main, then wait for children.
InitMain ==
    /\ At(initproc, "start")
    /\ \E c \in Proc :
        /\ NewProcess(initproc, c)
        /\ pc' = [pc EXCEPT ![initproc] = "scan", ![c] = "user"]

\* The system calls that change nothing here: a fork that fails because the
\* table is full or memory is out, a sleep of 0, and all the other services.
\* yield asks for a reschedule.
OtherSyscall(p) ==
    /\ At(p, "user") /\ Goto(p, "trapret")
    /\ \E yield \in BOOLEAN :
        need_resched' = [need_resched EXCEPT ![p] = @ \/ yield]
    /\ UNCHANGED <<current, state, wait_state, time_slice, run_list,
                   timer_list, parent, exiting, waited, nr_process,
                   stdinVars, irq, panic>>

----------------------------------------------------------------------------
(* do_exit *)

SysExit(p) ==
    /\ At(p, "user") /\ Goto(p, "exit")
    /\ UNCHANGED <<schedVars, parent, exiting, waited, nr_process, stdinVars,
                   irq, panic>>

\* Neither idle nor init may get here.
Exit(p) ==
    /\ At(p, "exit") /\ Goto(p, "notify")
    /\ state' = [state EXCEPT ![p] = "PROC_ZOMBIE"]
    /\ assert(p \notin {idleproc, initproc})
    /\ UNCHANGED <<current, wait_state, need_resched, time_slice, run_list,
                   timer_list, parent, exiting, waited, nr_process,
                   stdinVars, irq>>

\* Deviation: nobody is told.
WakeWaiter_silent(q) ==
    UNCHANGED <<state, wait_state, run_list, time_slice, panic>>

\* Wake q if it sleeps in do_wait.
WakeWaiter(q) ==
    IF wait_state[q] = "WT_CHILD"
    THEN wakeup_proc(q) /\ assert(WakeupOK(q))
    ELSE UNCHANGED <<state, wait_state, run_list, time_slice, panic>>

ExitNotify(p) ==
    /\ At(p, "notify") /\ Goto(p, "reparent")
    /\ WakeWaiter(parent[p])
    /\ UNCHANGED <<current, need_resched, timer_list, parent, exiting, waited,
                   nr_process, stdinVars, irq>>

\* One round of the loop that gives the children to init.
ExitReparent(p) ==
    /\ At(p, "reparent") /\ UNCHANGED pc
    /\ \E c \in Children(p) :
        /\ parent' = [parent EXCEPT ![c] = initproc]
        /\ IF state[c] = "PROC_ZOMBIE"
           THEN WakeWaiter(initproc)
           ELSE UNCHANGED <<state, wait_state, run_list, time_slice, panic>>
    /\ UNCHANGED <<current, need_resched, timer_list, exiting, waited,
                   nr_process, stdinVars, irq>>

\* Deviation: the loop is left before the last child has been handed over.
ExitDone_early(p) ==
    /\ At(p, "reparent") /\ Goto(p, "dead")
    /\ UNCHANGED <<schedVars, parent, exiting, waited, nr_process, stdinVars,
                   irq, panic>>

ExitDone(p) ==
    /\ At(p, "reparent") /\ Children(p) = {} /\ Goto(p, "dead")
    /\ UNCHANGED <<schedVars, parent, exiting, waited, nr_process, stdinVars,
                   irq, panic>>

----------------------------------------------------------------------------
(* do_wait *)

SysWait(p) ==
    /\ At(p, "user") /\ Goto(p, "scan")
    /\ \E pid \in Proc : waited' = [waited EXCEPT ![p] = pid]
    /\ UNCHANGED <<schedVars, parent, exiting, nr_process, stdinVars, irq,
                   panic>>

\* Deviation: do_wait does not ask whose child it is.
Candidates_anybody(p) ==
    {c \in Proc \ {idleproc, initproc} :
        Live(c) /\ c # p /\ waited[p] \in {idleproc, c}}

\* The children p is waiting for.
Candidates(p) == {c \in Children(p) : waited[p] \in {idleproc, c}}
ZombieCandidates(p) == {c \in Candidates(p) : state[c] = "PROC_ZOMBIE"}

\* Where a process goes on after do_wait: init goes round its loop, or leaves
\* it when do_wait reports that there is no child.
AfterReap(p) == IF p = initproc THEN "loop" ELSE "trapret"
AfterNoChild(p) == IF p = initproc THEN "halt" ELSE "trapret"

\* found: unhash, remove_links, free the kernel stack and the proc_struct.
\* What the slot held is gone with them.
WaitReap(p) ==
    /\ At(p, "scan")
    /\ \E z \in ZombieCandidates(p) :
        /\ pc' = [pc EXCEPT ![p] = AfterReap(p), ![z] = "none"]
        /\ state' = [state EXCEPT ![z] = "PROC_UNUSED"]
        /\ need_resched' = [need_resched EXCEPT ![z] = FALSE]
        /\ time_slice' = [time_slice EXCEPT ![z] = 0]
        /\ parent' = [parent EXCEPT ![z] = NoProc]
        /\ exiting' = [exiting EXCEPT ![z] = FALSE]
        /\ waited' = [waited EXCEPT ![z] = idleproc]
        /\ wanted' = [wanted EXCEPT ![z] = 0]
        /\ wakeup_flags' = [wakeup_flags EXCEPT ![z] = "WT_INTERRUPTED"]
        /\ assert(z \notin {idleproc, initproc})
    /\ nr_process' = nr_process - 1
    /\ UNCHANGED <<current, wait_state, run_list, timer_list, buffered,
                   kbd_queue, irq>>

WaitSleep(p) ==
    /\ At(p, "scan") /\ Goto(p, "wait")
    /\ Candidates(p) # {} /\ ZombieCandidates(p) = {}
    /\ state' = [state EXCEPT ![p] = "PROC_SLEEPING"]
    /\ wait_state' = [wait_state EXCEPT ![p] = "WT_CHILD"]
    /\ UNCHANGED <<current, need_resched, time_slice, run_list, timer_list,
                   parent, exiting, waited, nr_process, stdinVars, irq, panic>>

\* -E_BAD_PROC.  In init_main it ends the loop; init then asserts that only
\* idle and init are left.
WaitNoChild(p) ==
    /\ At(p, "scan") /\ Candidates(p) = {} /\ Goto(p, AfterNoChild(p))
    /\ assert(p = initproc => /\ nr_process = 2
                              /\ {q \in Proc : Live(q)} = {idleproc, initproc})
    /\ UNCHANGED <<schedVars, parent, exiting, waited, nr_process, stdinVars,
                   irq>>

WaitWoken(p) ==
    /\ At(p, "woken") /\ Goto(p, IF exiting[p] THEN "exit" ELSE "scan")
    /\ UNCHANGED <<schedVars, parent, exiting, waited, nr_process, stdinVars,
                   irq, panic>>

----------------------------------------------------------------------------
(* do_kill *)

\* Killing a process that is already exiting is refused and wakes nobody.
SysKill(p) ==
    /\ At(p, "user") /\ Goto(p, "trapret")
    /\ \E q \in {k \in Killable : Live(k) /\ ~ exiting[k]} :
        /\ exiting' = [exiting EXCEPT ![q] = TRUE]
        /\ IF Interruptible(wait_state[q])
           THEN wakeup_proc(q) /\ assert(WakeupOK(q))
           ELSE UNCHANGED <<state, wait_state, run_list, time_slice, panic>>
    /\ UNCHANGED <<current, need_resched, timer_list, parent, waited,
                   nr_process, stdinVars, irq>>

----------------------------------------------------------------------------
(* do_sleep *)

SysSleep(p) ==
    /\ At(p, "user") /\ Goto(p, "sleep")
    /\ \E time \in 1 .. MaxSleep : add_timer(p, time)
    /\ state' = [state EXCEPT ![p] = "PROC_SLEEPING"]
    /\ wait_state' = [wait_state EXCEPT ![p] = "WT_TIMER"]
    /\ UNCHANGED <<current, need_resched, time_slice, run_list, parent,
                   exiting, waited, nr_process, stdinVars, irq, panic>>

\* After schedule: take the timer, which is on this stack, out of the list.
SleepReturn(p) ==
    /\ At(p, "slept") /\ Goto(p, "trapret")
    /\ del_timer(p)
    /\ UNCHANGED <<current, state, wait_state, need_resched, time_slice,
                   run_list, parent, exiting, waited, nr_process, stdinVars,
                   irq, panic>>

----------------------------------------------------------------------------
(* dev_stdin_read *)

SysRead(p) ==
    /\ At(p, "user") /\ Goto(p, "reading")
    /\ \E len \in 1 .. MaxRead : wanted' = [wanted EXCEPT ![p] = len]
    /\ UNCHANGED <<schedVars, parent, exiting, waited, nr_process, buffered,
                   kbd_queue, wakeup_flags, irq, panic>>

\* Copy what there is.  If it is not enough, wait_current_set.
ReadLoop(p) ==
    /\ At(p, "reading")
    /\ \E n \in 0 .. wanted[p] :
        /\ n <= buffered
        /\ n < wanted[p] => n = buffered
        /\ buffered' = buffered - n
        /\ wanted' = [wanted EXCEPT ![p] = @ - n]
        /\ IF n = wanted[p]
           THEN /\ Goto(p, "trapret")
                /\ UNCHANGED <<state, wait_state, kbd_queue, wakeup_flags>>
           ELSE /\ Goto(p, "read")
                /\ state' = [state EXCEPT ![p] = "PROC_SLEEPING"]
                /\ wait_state' = [wait_state EXCEPT ![p] = "WT_KBD"]
                /\ kbd_queue' = Append(kbd_queue, p)
                /\ wakeup_flags' =
                       [wakeup_flags EXCEPT ![p] = "WT_INTERRUPTED"]
    /\ UNCHANGED <<current, need_resched, time_slice, run_list, timer_list,
                   parent, exiting, waited, nr_process, irq, panic>>

\* Deviation: the wait stays in the queue.
ReadWoken_linked(p) ==
    /\ At(p, "kbd")
    /\ Goto(p, IF wakeup_flags[p] = "WT_KBD" THEN "reading" ELSE "trapret")
    /\ UNCHANGED <<schedVars, parent, exiting, waited, nr_process, stdinVars,
                   irq, panic>>

\* wait_current_del, then try again if a key was the reason.
ReadWoken(p) ==
    /\ At(p, "kbd")
    /\ Goto(p, IF wakeup_flags[p] = "WT_KBD" THEN "reading" ELSE "trapret")
    /\ IF Waiting(p)
       THEN \E i \in DOMAIN kbd_queue :
               kbd_queue[i] = p /\ kbd_queue' = RemoveAt(kbd_queue, i)
       ELSE UNCHANGED kbd_queue
    /\ UNCHANGED <<schedVars, parent, exiting, waited, nr_process, buffered,
                   wanted, wakeup_flags, irq, panic>>

----------------------------------------------------------------------------
(* The timer interrupt *)

InterruptsOn == irq = "off" /\
    (pc[current] = "user" \/ current \in {idleproc, initproc})

IrqTimer ==
    /\ Running /\ InterruptsOn
    /\ irq' = "timers"
    /\ assert(HeadOK)
    /\ IF HeadOK THEN decrement_head ELSE UNCHANGED timer_list
    /\ UNCHANGED <<current, state, wait_state, need_resched, time_slice,
                   run_list, procVars, stdinVars>>

\* One round of run_timer_list's loop: wake the sleeper, drop its timer.
IrqExpire ==
    /\ Running /\ irq = "timers" /\ HeadExpired
    /\ LET p == timer_list[1].proc
       IN  /\ wakeup_proc(p)
           /\ del_timer(p)
           /\ assert(/\ wait_state[p] = "0" \/ Interruptible(wait_state[p])
                     /\ WakeupOK(p))
    /\ UNCHANGED <<current, need_resched, procVars, stdinVars, irq>>

IrqTick ==
    /\ Running /\ irq = "timers" /\ ~ HeadExpired
    /\ irq' = "char"
    /\ proc_tick
    /\ UNCHANGED <<current, state, wait_state, run_list, timer_list,
                   procVars, stdinVars, panic>>

\* Deviation: the limit of the ring is not looked at.
IrqChar_full ==
    /\ Running /\ irq = "char"
    /\ irq' = "wake"
    /\ buffered' = buffered + 1
    /\ UNCHANGED <<schedVars, procVars, wanted, kbd_queue, wakeup_flags,
                   panic>>

\* dev_stdin_write of a character: a full ring keeps its length.
IrqChar ==
    /\ Running /\ irq = "char"
    /\ irq' = "wake"
    /\ buffered' = IF buffered < STDIN_BUFSIZE THEN buffered + 1 ELSE buffered
    /\ UNCHANGED <<schedVars, procVars, wanted, kbd_queue, wakeup_flags,
                   panic>>

\* One round of wakeup_queue.
IrqWake ==
    /\ Running /\ irq = "wake" /\ kbd_queue # << >>
    /\ LET p == Head(kbd_queue)
       IN  /\ wakeup_proc(p)
           /\ wakeup_flags' = [wakeup_flags EXCEPT ![p] = "WT_KBD"]
           /\ assert(WakeupOK(p))
    /\ kbd_queue' = Tail(kbd_queue)
    /\ UNCHANGED <<current, need_resched, timer_list, procVars, buffered,
                   wanted, irq>>

\* No key was pressed, or all readers are awake.  Back in user mode, trap
\* goes on with the checks of TrapReturn.
IrqReturn ==
    /\ Running
    /\ \/ irq = "char"
       \/ irq = "wake" /\ kbd_queue = << >>
    /\ irq' = "off"
    /\ IF pc[current] = "user" THEN Goto(current, "trapret") ELSE UNCHANGED pc
    /\ UNCHANGED <<schedVars, parent, exiting, waited, nr_process, stdinVars,
                   panic>>

----------------------------------------------------------------------------

Syscall(p) ==
    \/ Fork(p) \/ OtherSyscall(p) \/ SysExit(p) \/ SysWait(p) \/ SysKill(p)
    \/ SysSleep(p) \/ SysRead(p)

\* The steps of the kernel on behalf of p, which nothing holds up.
Kernel(p) ==
    \/ CallSchedule(p) \/ TrapReturn(p)
    \/ Exit(p) \/ ExitNotify(p) \/ ExitReparent(p) \/ ExitDone(p)
    \/ WaitReap(p) \/ WaitSleep(p) \/ WaitNoChild(p) \/ WaitWoken(p)
    \/ SleepReturn(p) \/ ReadLoop(p) \/ ReadWoken(p)

Irq == IrqExpire \/ IrqTick \/ IrqChar \/ IrqWake \/ IrqReturn

\* After "all user-mode processes have quit" init returns, and the kernel
\* stops.
Halted == ~ Running /\ UNCHANGED vars

Next ==
    \/ InitMain
    \/ \E p \in Proc : Syscall(p) \/ Kernel(p)
    \/ IrqTimer \/ Irq
    \/ Halted

Spec == Init /\ [][Next]_vars

\* The CPU executes, between two interrupts and in spite of them: a tick is
\* long compared with a step.  The timer interrupt stays pending while
\* interrupts are disabled, so it is taken if they are enabled again and
\* again.  Nothing obliges a program to make a system call, or anybody to
\* press a key.
Cpu == InitMain \/ \E p \in Proc : Kernel(p)
Fairness == SF_vars(Cpu) /\ SF_vars(IrqTimer) /\ WF_vars(Irq)
FairSpec == Spec /\ Fairness

----------------------------------------------------------------------------
(* Properties *)

\* No assertion of the scheduler, of the wait queues or of process control
\* fails: a zombie is never woken (wakeup_proc), nothing is queued twice
\* (RR_enqueue), the timer at the head has ticks left (run_timer_list), a
\* dead process never comes back from its last schedule (do_exit), and init
\* stops only when it is alone with idle (init_main).
NoPanic == ~ panic

\* The timer of do_sleep and the wait of dev_stdin_read are variables on the
\* sleeper's kernel stack.  While one of them is linked into a list its
\* owner has not left that function: no list points into a dead stack frame,
\* even when a kill, a tick and a key press race to wake the sleeper.
StackLinksValid ==
    \A p \in Proc :
        /\ Armed(p) => pc[p] \in {"sleep", "slept"}
        /\ Waiting(p) => pc[p] \in {"read", "kbd"}

\* No lost wake-up: somebody is left who will wake each sleeper.  A sleeper
\* in do_sleep has a timer, a reader is in the keyboard's queue and the ring
\* is empty, and a parent in do_wait has a child and none that is dead
\* already, but for the one whose do_exit is about to notify it.
SleepersHaveWakers ==
    \A p \in Proc : state[p] = "PROC_SLEEPING" =>
        \/ wait_state[p] = "WT_TIMER" /\ Armed(p)
        \/ /\ wait_state[p] = "WT_KBD"
           /\ Waiting(p)
           /\ buffered = 0 \/ irq = "wake"
        \/ /\ wait_state[p] = "WT_CHILD"
           /\ Candidates(p) # {}
           /\ \A z \in ZombieCandidates(p) : z = current /\ pc[z] = "notify"

\* Every process has a parent that can still reap it.  Only while its parent
\* is in the loop of do_exit that hands the children to init can the parent
\* be dead (do_exit, do_wait).
ParentsAlive ==
    \A p \in Proc \ {idleproc} : Live(p) =>
        /\ parent[p] \in Proc
        /\ \/ state[parent[p]] \in {"PROC_RUNNABLE", "PROC_SLEEPING"}
           \/ parent[p] = current /\ pc[current] \in {"notify", "reparent"}

\* A zombie stays one until its parent reaps it from do_wait.
ZombiesReapedByParent ==
    [][\A p \in Proc : state[p] = "PROC_ZOMBIE" =>
          \/ state'[p] = "PROC_ZOMBIE"
          \/ state'[p] = "PROC_UNUSED" /\ current = parent[p]]_vars

\* init collects the dead: when it has a zombie child it is woken if it sleeps, gets
\* the CPU in spite of the others, and its loop goes round (do_exit, do_wait, schedule).
InitReaps == Live(initproc) /\ (\E z \in Children(initproc) :
                                   state[z] = "PROC_ZOMBIE")
             ~> pc[initproc] = "loop"

\* A killed process dies ("kill process with pid by set this process's flags
\* with PF_EXITING", do_kill).
KilledDies ==
    \A p \in Proc : exiting[p]
                    ~> state[p] \notin {"PROC_RUNNABLE", "PROC_SLEEPING"}
=============================================================================
