------------------------------ MODULE Classes -------------------------------
(***************************************************************************)
(* The scheduling classes: round robin, FIFO, shortest job first and       *)
(* stride of lab6, and the stride class of lab8 (kern/schedule).  The      *)
(* fields of run_queue and of the proc_structs that a class changes are    *)
(* one record s.  A skew heap is <<>>, or its first process with the heaps *)
(* left and right of it.                                                   *)
(***************************************************************************)
EXTENDS Integers, Sequences, SequencesExt

CONSTANTS
    WIDTH,              \* 2^32: strides are unsigned integers
    MAX_TIME_SLICE,
    DEFAULT_BURST       \* what sjf_enqueue takes for a burst that is not set

ASSUME ClassesAssumption ==
    /\ WIDTH \in Nat /\ WIDTH % 4 = 0 /\ WIDTH > 0
    /\ {MAX_TIME_SLICE, DEFAULT_BURST} \subseteq Nat \ {0}

Class == {"RR", "FIFO", "SJF", "stride", "stride of lab8"}
Stride == {"stride", "stride of lab8"}

\* 0x7FFFFFFF and 1 << 30.
BIG_STRIDE(class) == IF class = "stride" THEN (WIDTH \div 2) - 1 ELSE WIDTH \div 4

\* Deviation: strides are compared as they are.
Below_unsigned(x, y) == x < y

\* proc_stride_comp_f: the sign of the difference as a signed integer.
Below(x, y) == LET c == (x - y) % WIDTH IN c >= WIDTH \div 2

----------------------------------------------------------------------------
(* libs/skew_heap.h *)

RECURSIVE skew_heap_merge(_, _, _)
skew_heap_merge(a, b, stride) ==
    CASE a = <<>> -> b
      [] a # <<>> /\ b = <<>> -> a
      [] OTHER -> IF Below(stride[a[1]], stride[b[1]])
                  THEN <<a[1], skew_heap_merge(a[3], b, stride), a[2]>>
                  ELSE <<b[1], skew_heap_merge(a, b[3], stride), b[2]>>

RECURSIVE InHeap(_)
InHeap(h) == IF h = <<>> THEN {} ELSE {h[1]} \cup InHeap(h[2]) \cup InHeap(h[3])

RECURSIVE HeapSize(_)
HeapSize(h) == IF h = <<>> THEN 0 ELSE 1 + HeapSize(h[2]) + HeapSize(h[3])

----------------------------------------------------------------------------
(* enqueue *)

Refilled(s, p) ==
    [s EXCEPT !.time_slice[p] = IF @ = 0 \/ @ > MAX_TIME_SLICE THEN MAX_TIME_SLICE ELSE @]

\* RR_enqueue, and fifo_enqueue, which leaves the slice alone.
RR_enqueue(s, p) == [Refilled(s, p) EXCEPT !.run_list = Append(@, p)]
fifo_enqueue(s, p) == [s EXCEPT !.run_list = Append(@, p)]

\* Deviation: an equal burst goes first.
sjf_enqueue_first(s, p) ==
    LET burst == IF s.priority[p] = 0 THEN DEFAULT_BURST ELSE s.priority[p]
        later == SelectInSeq(s.run_list, LAMBDA q : burst <= s.priority[q])
    IN  [s EXCEPT !.priority[p] = burst,
                  !.run_list = InsertAt(@, IF later = 0 THEN Len(@) + 1 ELSE later, p)]

\* Before the first process with a longer burst.
sjf_enqueue(s, p) ==
    LET burst == IF s.priority[p] = 0 THEN DEFAULT_BURST ELSE s.priority[p]
        later == SelectInSeq(s.run_list, LAMBDA q : burst < s.priority[q])
    IN  [s EXCEPT !.priority[p] = burst,
                  !.run_list = InsertAt(@, IF later = 0 THEN Len(@) + 1 ELSE later, p)]

Inserted(s, p) ==
    [Refilled(s, p) EXCEPT !.run_pool = skew_heap_merge(@, <<p, <<>>, <<>>>>, s.stride)]

\* The first thing stride_enqueue of lab6 does: a process that is behind the first of
\* the pool is given the stride of that one.
CaughtUp(s, p) ==
    IF s.run_pool # <<>> /\ Below(s.stride[p], s.stride[s.run_pool[1]])
    THEN [s EXCEPT !.stride[p] = s.stride[s.run_pool[1]]] ELSE s

enqueue(class, s, p) ==
    [CASE class = "RR" -> RR_enqueue(s, p)
       [] class = "FIFO" -> fifo_enqueue(s, p)
       [] class = "SJF" -> sjf_enqueue(s, p)
       [] class = "stride" -> Inserted(CaughtUp(s, p), p)
       [] class = "stride of lab8" -> Inserted(s, p)
     EXCEPT !.proc_num = @ + 1]

----------------------------------------------------------------------------
(* pick_next, dequeue and proc_tick *)

IsEmpty(class, s) == IF class \in Stride THEN s.run_pool = <<>> ELSE s.run_list = <<>>

First(class, s) == IF class \in Stride THEN s.run_pool[1] ELSE s.run_list[1]

\* The state that pick_next leaves when it returns First.
pick_next(class, s) ==
    LET p == First(class, s)
        inc == IF s.priority[p] = 0 THEN BIG_STRIDE(class)
               ELSE BIG_STRIDE(class) \div s.priority[p]
    IN  IF class \in Stride THEN [s EXCEPT !.stride[p] = (@ + inc) % WIDTH] ELSE s

\* First is taken out; sched.c asks for no other.
dequeue(class, s) ==
    [IF class \in Stride
     THEN [s EXCEPT !.run_pool = skew_heap_merge(@[2], @[3], s.stride)]
     ELSE [s EXCEPT !.run_list = Tail(@)]
     EXCEPT !.proc_num = @ - 1]

\* What a tick changes of p, and whether p must give up the CPU.
proc_tick(class, s, p) ==
    CASE class = "FIFO" -> [s |-> s, resched |-> TRUE]
      [] class = "SJF" -> [s |-> [s EXCEPT !.priority[p] = (@ - 1) % WIDTH], resched |-> TRUE]
      [] OTHER ->
            LET t == [s EXCEPT !.time_slice[p] = IF @ > 0 THEN @ - 1 ELSE 0]
            IN  [s |-> t, resched |-> t.time_slice[p] = 0]
=============================================================================
