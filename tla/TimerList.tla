----------------------------- MODULE TimerList -----------------------------
(***************************************************************************)
(* The timer list of sched.c.  A timer lives on the kernel stack of the    *)
(* process that sleeps on it and is linked into one global list, sorted by *)
(* expiry.  Each timer's expires counts from the expiry of the timer       *)
(* before it, so that a clock tick touches the head only, and every        *)
(* insertion and deletion has to correct its successor.                    *)
(*                                                                         *)
(* The actions here are shared by Sched, where the kernel calls them, and  *)
(* by Schedule, which shows what the list implements.                        *)
(***************************************************************************)
EXTENDS Integers, Sequences, SequencesExt

CONSTANT Proc       \* the processes that can sleep on a timer

VARIABLE timer_list \* the armed timers, head first

Timer == [proc : Proc, expires : Nat]

TimerListTypeOK == timer_list \in Seq(Timer)

Armed(p) == \E i \in DOMAIN timer_list : timer_list[i].proc = p

\* Elapsed[i]: ticks from now until the i-th timer expires.
Elapsed ==
    LET ticks[i \in 0 .. Len(timer_list)] ==
            IF i = 0 THEN 0 ELSE ticks[i - 1] + timer_list[i].expires
    IN  ticks

\* The list with the expiry of its i-th timer, if it has one, moved by d.
Shifted(tl, i, d) ==
    IF i \in DOMAIN tl THEN [tl EXCEPT ![i].expires = @ + d] ELSE tl

\* add_timer: walk the list, subtracting, up to the first timer that expires
\* strictly later; link the timer before it and shorten that one.
add_timer(p, ticks) ==
    \E i \in 1 .. Len(timer_list) + 1, left \in 0 .. ticks :
        /\ left = IF i = 1 THEN ticks ELSE ticks - Elapsed[i - 1]
        /\ i \in DOMAIN timer_list => left < timer_list[i].expires
        /\ timer_list' = InsertAt(Shifted(timer_list, i, -left), i,
                                  [proc |-> p, expires |-> left])

\* Deviation: the timer stays linked.
del_timer_forgotten(p) == UNCHANGED timer_list

\* Deviation: what the deleted timer had left is lost.
del_timer_bare(p) ==
    IF Armed(p)
    THEN \E i \in DOMAIN timer_list :
            timer_list[i].proc = p /\ timer_list' = RemoveAt(timer_list, i)
    ELSE UNCHANGED timer_list

\* del_timer: the successor inherits what the deleted timer had left.  A
\* timer that is in no list is left alone.
del_timer(p) ==
    IF Armed(p)
    THEN \E i \in DOMAIN timer_list :
            /\ timer_list[i].proc = p
            /\ timer_list' = RemoveAt(Shifted(timer_list, i + 1,
                                              timer_list[i].expires), i)
    ELSE UNCHANGED timer_list

\* The head has run out: run_timer_list goes on with it.
HeadExpired == timer_list # << >> /\ timer_list[1].expires = 0

\* run_timer_list's assert before it decrements.
HeadOK == timer_list = << >> \/ timer_list[1].expires # 0

\* run_timer_list's decrement: one tick less until the head, and so until
\* every timer.
decrement_head == timer_list' = Shifted(timer_list, 1, -1)
=============================================================================
