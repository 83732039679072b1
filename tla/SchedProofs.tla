---------------------------- MODULE SchedProofs ----------------------------
(***************************************************************************)
(* What the operations of TimerList and Sched do, for every list of timers *)
(* and every run queue: to the list and the set of processes that own a    *)
(* timer in it, to its head, and to the run queue.                         *)
(***************************************************************************)
EXTENDS Sched, Integers, Sequences, SequencesExt, SequenceTheorems, TLAPS

----------------------------------------------------------------------------
(* What inserting into and removing from a list does, element by element *)

\* InsertAt puts e at place i and moves the rest up by one (list_add_before).
LEMMA InsertAtElements ==
    ASSUME NEW S, NEW s \in Seq(S), NEW e \in S,
           NEW i \in Int, 1 <= i, i <= Len(s) + 1
    PROVE  /\ InsertAt(s, i, e) \in Seq(S)
           /\ Len(InsertAt(s, i, e)) = Len(s) + 1
           /\ \A j \in 1 .. i - 1 : InsertAt(s, i, e)[j] = s[j]
           /\ InsertAt(s, i, e)[i] = e
           /\ \A j \in i + 1 .. Len(s) + 1 : InsertAt(s, i, e)[j] = s[j - 1]
<1> DEFINE a == SubSeq(s, 1, i - 1)  b == SubSeq(s, i, Len(s))
           c == a \o <<e>>
<1>1. /\ a \in Seq(S) /\ Len(a) = i - 1
      /\ \A j \in 1 .. i - 1 : a[j] = s[j]
  BY SubSeqProperties
<1>2. /\ b \in Seq(S) /\ Len(b) = Len(s) - i + 1
      /\ \A j \in 1 .. Len(s) - i + 1 : b[j] = s[i + j - 1]
  BY SubSeqProperties
<1> HIDE DEF a, b
<1>3. /\ c \in Seq(S) /\ Len(c) = i
      /\ \A j \in 1 .. i : c[j] = IF j < i THEN s[j] ELSE e
  BY <1>1
<1> HIDE DEF c
<1>4. /\ c \o b \in Seq(S) /\ Len(c \o b) = Len(c) + Len(b)
      /\ \A j \in 1 .. Len(c) + Len(b) :
            (c \o b)[j] = IF j <= Len(c) THEN c[j] ELSE b[j - Len(c)]
  BY <1>2, <1>3, ConcatProperties
<1>5. InsertAt(s, i, e) = c \o b
  BY DEF InsertAt, a, b, c
<1> QED
  BY <1>2, <1>3, <1>4, <1>5

\* RemoveAt drops the i-th element and moves the rest down (list_del_init).
LEMMA RemoveAtElements ==
    ASSUME NEW S, NEW s \in Seq(S), NEW i \in Int, 1 <= i, i <= Len(s)
    PROVE  /\ RemoveAt(s, i) \in Seq(S)
           /\ Len(RemoveAt(s, i)) = Len(s) - 1
           /\ \A j \in 1 .. i - 1 : RemoveAt(s, i)[j] = s[j]
           /\ \A j \in i .. Len(s) - 1 : RemoveAt(s, i)[j] = s[j + 1]
<1> DEFINE a == SubSeq(s, 1, i - 1)  b == SubSeq(s, i + 1, Len(s))
<1>1. /\ a \in Seq(S) /\ Len(a) = i - 1
      /\ \A j \in 1 .. i - 1 : a[j] = s[j]
  BY SubSeqProperties
<1>2. /\ b \in Seq(S) /\ Len(b) = Len(s) - i
      /\ \A j \in 1 .. Len(s) - i : b[j] = s[i + j]
  BY SubSeqProperties
<1> HIDE DEF a, b
<1>3. /\ a \o b \in Seq(S) /\ Len(a \o b) = Len(a) + Len(b)
      /\ \A j \in 1 .. Len(a) + Len(b) :
            (a \o b)[j] = IF j <= Len(a) THEN a[j] ELSE b[j - Len(a)]
  BY <1>1, <1>2, ConcatProperties
<1>4. RemoveAt(s, i) = a \o b
  BY DEF RemoveAt, a, b
<1>5. \A j \in 1 .. i - 1 : (a \o b)[j] = s[j]
  BY <1>1, <1>2, <1>3
<1>6. ASSUME NEW j \in i .. Len(s) - 1
      PROVE  (a \o b)[j] = s[j + 1]
  <2>1. j - (i - 1) \in 1 .. Len(s) - i /\ i + (j - (i - 1)) = j + 1
    BY <1>2
  <2>2. (a \o b)[j] = b[j - (i - 1)]
    BY <1>1, <1>2, <1>3
  <2> QED
    BY <1>2, <2>1, <2>2
<1>7. a \o b \in Seq(S) /\ Len(a \o b) = Len(s) - 1
  BY <1>1, <1>2, <1>3
<1> QED
  BY <1>4, <1>5, <1>6, <1>7

\* Adding at the tail (list_add_before the head) adds to the elements and
\* keeps a list without repetitions one, if the element is new.
LEMMA AppendSet ==
    ASSUME NEW S, NEW s \in Seq(S), NEW e \in S
    PROVE  /\ ToSet(Append(s, e)) = ToSet(s) \cup {e}
           /\ IsInjective(s) /\ e \notin ToSet(s) => IsInjective(Append(s, e))
<1>1. /\ DOMAIN s = 1 .. Len(s)
      /\ DOMAIN Append(s, e) = 1 .. Len(s) + 1
      /\ \A i \in 1 .. Len(s) : Append(s, e)[i] = s[i]
      /\ Append(s, e)[Len(s) + 1] = e
  BY AppendProperties, LenProperties
<1>2. 1 .. Len(s) + 1 = (1 .. Len(s)) \cup {Len(s) + 1}
  BY LenProperties
<1> QED
  BY <1>1, <1>2 DEF ToSet, IsInjective

\* Without repetitions, dropping the first element takes just it away.
LEMMA TailSet ==
    ASSUME NEW S, NEW s \in Seq(S), s # << >>, IsInjective(s)
    PROVE  /\ ToSet(Tail(s)) = ToSet(s) \ {Head(s)}
           /\ IsInjective(Tail(s))
           /\ Head(s) \in ToSet(s)
<1>1. /\ DOMAIN s = 1 .. Len(s) /\ Len(s) \in Nat \ {0}
      /\ DOMAIN Tail(s) = 1 .. Len(s) - 1
      /\ \A i \in 1 .. Len(s) - 1 : Tail(s)[i] = s[i + 1]
      /\ Head(s) = s[1]
  BY HeadTailProperties, LenProperties, EmptySeq
<1>2. \A i \in 2 .. Len(s) : i - 1 \in 1 .. Len(s) - 1 /\ s[i] = Tail(s)[i - 1]
  BY <1>1
<1>3. \A i \in 1 .. Len(s) : i = 1 \/ i \in 2 .. Len(s)
  BY <1>1
<1>4. ASSUME NEW x \in ToSet(Tail(s))
      PROVE  x \in ToSet(s) \ {Head(s)}
  <2>1. PICK i \in 1 .. Len(s) - 1 : x = Tail(s)[i]
    BY <1>1 DEF ToSet
  <2> QED
    BY <1>1, <2>1 DEF ToSet, IsInjective
<1>5. ASSUME NEW x \in ToSet(s) \ {Head(s)}
      PROVE  x \in ToSet(Tail(s))
  <2>1. PICK i \in 1 .. Len(s) : x = s[i]
    BY <1>1 DEF ToSet
  <2> QED
    BY <1>1, <1>2, <1>3, <2>1 DEF ToSet
<1>6. IsInjective(Tail(s))
  BY <1>1 DEF IsInjective
<1>7. Head(s) \in ToSet(s)
  BY <1>1 DEF ToSet
<1> QED
  BY <1>4, <1>5, <1>6, <1>7

\* The same for an element in the middle.
LEMMA RemoveAtSet ==
    ASSUME NEW S, NEW s \in Seq(S), NEW i \in DOMAIN s, IsInjective(s)
    PROVE  /\ RemoveAt(s, i) \in Seq(S)
           /\ ToSet(RemoveAt(s, i)) = ToSet(s) \ {s[i]}
           /\ IsInjective(RemoveAt(s, i))
<1> DEFINE r == RemoveAt(s, i)
<1>0. DOMAIN s = 1 .. Len(s) /\ Len(s) \in Nat /\ i \in 1 .. Len(s)
  BY LenProperties
<1>1. /\ r \in Seq(S) /\ Len(r) = Len(s) - 1
      /\ \A j \in 1 .. i - 1 : r[j] = s[j]
      /\ \A j \in i .. Len(s) - 1 : r[j] = s[j + 1]
  <2>1. i \in Int /\ 1 <= i /\ i <= Len(s)
    BY <1>0
  <2> QED
    BY <2>1, RemoveAtElements
<1>2. DOMAIN r = 1 .. Len(s) - 1
  BY <1>1, LenProperties
<1> HIDE DEF r
<1>3. ASSUME NEW x \in ToSet(r)
      PROVE  x \in ToSet(s) \ {s[i]}
  <2>1. PICK j \in 1 .. Len(s) - 1 : x = r[j]
    BY <1>2 DEF ToSet
  <2>2. PICK k \in DOMAIN s : k # i /\ x = s[k]
    <3>1. CASE j < i
      BY <1>0, <1>1, <2>1, <3>1
    <3>2. CASE j >= i
      <4>1. j + 1 \in DOMAIN s /\ j + 1 # i /\ x = s[j + 1]
        BY <1>0, <1>1, <2>1, <3>2
      <4> QED
        BY <4>1
    <3> QED
      BY <1>0, <3>1, <3>2
  <2> QED
    BY <2>2 DEF ToSet, IsInjective
<1>4. ASSUME NEW x \in ToSet(s) \ {s[i]}
      PROVE  x \in ToSet(r)
  <2>1. PICK j \in 1 .. Len(s) : x = s[j]
    BY <1>0 DEF ToSet
  <2>2. CASE j < i
    <3>1. j \in DOMAIN r /\ r[j] = x
      BY <1>0, <1>1, <1>2, <2>1, <2>2
    <3> QED
      BY <3>1 DEF ToSet
  <2>3. CASE j > i
    <3>1. j - 1 \in DOMAIN r /\ r[j - 1] = x
      BY <1>0, <1>1, <1>2, <2>1, <2>3
    <3> QED
      BY <3>1 DEF ToSet
  <2> QED
    BY <1>0, <2>1, <2>2, <2>3
<1>5. ASSUME NEW j \in DOMAIN r, NEW k \in DOMAIN r, r[j] = r[k]
      PROVE  j = k
  <2> DEFINE old(m) == IF m < i THEN m ELSE m + 1
  <2>1. ASSUME NEW m \in 1 .. Len(s) - 1
        PROVE  old(m) \in 1 .. Len(s) /\ r[m] = s[old(m)]
    <3>1. CASE m < i
      BY <1>0, <1>1, <3>1
    <3>2. CASE m >= i
      <4>1. old(m) = m + 1 /\ m \in i .. Len(s) - 1 /\ m + 1 \in 1 .. Len(s)
        BY <1>0, <3>2
      <4> QED
        BY <1>1, <4>1
    <3> QED
      BY <1>0, <3>1, <3>2
  <2>2. old(j) = old(k)
    BY <1>0, <1>2, <1>5, <2>1 DEF IsInjective
  <2> QED
    BY <1>0, <1>2, <2>2
<1> QED
  BY <1>1, <1>3, <1>4, <1>5 DEF r, IsInjective

\* Inserting a new element in the middle.
LEMMA InsertAtSet ==
    ASSUME NEW S, NEW s \in Seq(S), NEW e \in S,
           NEW i \in Int, 1 <= i, i <= Len(s) + 1,
           IsInjective(s), e \notin ToSet(s)
    PROVE  /\ InsertAt(s, i, e) \in Seq(S)
           /\ ToSet(InsertAt(s, i, e)) = ToSet(s) \cup {e}
           /\ IsInjective(InsertAt(s, i, e))
<1> DEFINE r == InsertAt(s, i, e)
<1>0. DOMAIN s = 1 .. Len(s) /\ Len(s) \in Nat
  BY LenProperties
<1>1. /\ r \in Seq(S) /\ Len(r) = Len(s) + 1
      /\ \A j \in 1 .. i - 1 : r[j] = s[j]
      /\ r[i] = e
      /\ \A j \in i + 1 .. Len(s) + 1 : r[j] = s[j - 1]
  BY InsertAtElements
<1>2. DOMAIN r = 1 .. Len(s) + 1
  BY <1>1, LenProperties
<1> HIDE DEF r
<1>3. ASSUME NEW x \in ToSet(r)
      PROVE  x \in ToSet(s) \cup {e}
  <2>1. PICK j \in 1 .. Len(s) + 1 : x = r[j]
    BY <1>2 DEF ToSet
  <2>2. CASE j < i
    <3>1. j \in DOMAIN s /\ x = s[j]
      BY <1>0, <1>1, <2>1, <2>2
    <3> QED
      BY <3>1 DEF ToSet
  <2>3. CASE j > i
    <3>1. j - 1 \in DOMAIN s /\ x = s[j - 1]
      BY <1>0, <1>1, <2>1, <2>3
    <3> QED
      BY <3>1 DEF ToSet
  <2> QED
    BY <1>1, <2>1, <2>2, <2>3
<1>4. ASSUME NEW x \in ToSet(s) \cup {e}
      PROVE  x \in ToSet(r)
  <2>1. CASE x = e
    <3>1. i \in DOMAIN r /\ r[i] = x
      BY <1>0, <1>1, <1>2, <2>1
    <3> QED
      BY <3>1 DEF ToSet
  <2>2. CASE x \in ToSet(s)
    <3>1. PICK j \in DOMAIN s : x = s[j]
      BY <2>2 DEF ToSet
    <3>2. CASE j < i
      <4>1. j \in DOMAIN r /\ r[j] = x
        BY <1>0, <1>1, <1>2, <3>1, <3>2
      <4> QED
        BY <4>1 DEF ToSet
    <3>3. CASE j >= i
      <4>1. j + 1 \in DOMAIN r /\ r[j + 1] = x
        BY <1>0, <1>1, <1>2, <3>1, <3>3
      <4> QED
        BY <4>1 DEF ToSet
    <3> QED
      BY <1>0, <3>2, <3>3
  <2> QED
    BY <2>1, <2>2
<1>5. ASSUME NEW j \in DOMAIN r, NEW k \in DOMAIN r, r[j] = r[k]
      PROVE  j = k
  <2>1. \A m \in DOMAIN s : s[m] # e
    BY DEF ToSet
  <2> DEFINE old(m) == IF m < i THEN m ELSE m - 1
  <2>2. \A m \in DOMAIN r : m # i => old(m) \in DOMAIN s /\ r[m] = s[old(m)]
    BY <1>0, <1>1, <1>2
  <2>3. r[i] = e
    BY <1>0, <1>1
  <2>4. CASE j = i \/ k = i
    BY <1>5, <2>1, <2>2, <2>3, <2>4
  <2>5. CASE j # i /\ k # i
    <3>1. old(j) = old(k)
      BY <1>5, <2>2, <2>5 DEF IsInjective
    <3> QED
      BY <3>1, <2>5, <1>2
  <2> QED
    BY <2>4, <2>5
<1> QED
  BY <1>1, <1>3, <1>4, <1>5 DEF r, IsInjective

----------------------------------------------------------------------------
(* The timers and the run queue *)

\* The owners of the timers, in the order of the list.
Owners(tl) == [i \in DOMAIN tl |-> tl[i].proc]

\* No process has two timers in the list.
OneTimerEach == IsInjective(Owners(timer_list))

\* The owners of a timer list are a sequence of processes.
LEMMA OwnersType ==
    ASSUME NEW tl \in Seq(Timer)
    PROVE  Owners(tl) \in Seq(Proc) /\ Len(Owners(tl)) = Len(tl)
<1>1. \A i \in 1 .. Len(tl) : tl[i] \in Timer
  OBVIOUS
<1> QED
  BY <1>1 DEF Owners, Timer

\* A process is armed (del_timer's list_empty test) when it owns a timer.
LEMMA ArmedOwners ==
    ASSUME timer_list \in Seq(Timer)
    PROVE  \A p : Armed(p) <=> p \in ToSet(Owners(timer_list))
  BY DEF Armed, Owners, ToSet

\* Moving an expiry changes neither the length of the list nor its owners.
LEMMA ShiftedElements ==
    ASSUME NEW tl \in Seq(Timer), NEW i \in Int, NEW d \in Int,
           i \in DOMAIN tl => tl[i].expires + d \in Nat
    PROVE  /\ Shifted(tl, i, d) \in Seq(Timer)
           /\ Len(Shifted(tl, i, d)) = Len(tl)
           /\ Owners(Shifted(tl, i, d)) = Owners(tl)
<1>1. CASE i \in DOMAIN tl
  <2>1. tl[i] \in Timer
    BY <1>1
  <2> DEFINE t == [tl[i] EXCEPT !.expires = @ + d]
  <2>2. t \in Timer /\ t.proc = tl[i].proc
    BY <1>1, <2>1 DEF Timer
  <2>3. Shifted(tl, i, d) = [tl EXCEPT ![i] = t]
    BY <1>1, Zenon DEF Shifted
  <2> HIDE DEF t
  <2> QED
    BY <1>1, <2>2, <2>3, ExceptSeq DEF Owners
<1>2. CASE i \notin DOMAIN tl
  BY <1>2 DEF Shifted
<1> QED
  BY <1>1, <1>2

\* add_timer links one timer of p and leaves a timer list: what is taken from
\* the successor was there.
LEMMA AddTimer ==
    ASSUME timer_list \in Seq(Timer), NEW p \in Proc, NEW ticks \in Nat,
           add_timer(p, ticks)
    PROVE  /\ timer_list' \in Seq(Timer)
           /\ \E i \in 1 .. Len(timer_list) + 1 :
                Owners(timer_list') = InsertAt(Owners(timer_list), i, p)
<1>1. PICK i \in 1 .. Len(timer_list) + 1, left \in 0 .. ticks :
          /\ i \in DOMAIN timer_list => left < timer_list[i].expires
          /\ timer_list' = InsertAt(Shifted(timer_list, i, -left), i,
                                    [proc |-> p, expires |-> left])
  BY DEF add_timer
<1> DEFINE tl == Shifted(timer_list, i, -left)
           new == [proc |-> p, expires |-> left]
<1>2. i \in DOMAIN timer_list => timer_list[i].expires + (-left) \in Nat
  <2>1. i \in DOMAIN timer_list => timer_list[i] \in Timer
    OBVIOUS
  <2> QED
    BY <1>1, <2>1 DEF Timer
<1>3. /\ tl \in Seq(Timer) /\ Len(tl) = Len(timer_list)
      /\ Owners(tl) = Owners(timer_list)
  <2>1. i \in Int /\ -left \in Int
    OBVIOUS
  <2> QED
    BY <1>2, <2>1, ShiftedElements, Zenon
<1>4. new \in Timer /\ new.proc = p
  BY DEF Timer
<1>5. timer_list' = InsertAt(tl, i, new)
  BY <1>1
<1> HIDE DEF tl, new
<1>6. /\ timer_list' \in Seq(Timer)
      /\ Len(timer_list') = Len(tl) + 1
      /\ \A j \in 1 .. i - 1 : timer_list'[j] = tl[j]
      /\ timer_list'[i] = new
      /\ \A j \in i + 1 .. Len(tl) + 1 : timer_list'[j] = tl[j - 1]
  <2>1. i \in Int /\ 1 <= i /\ i <= Len(tl) + 1
    BY <1>3
  <2>2. tl \in Seq(Timer) /\ new \in Timer
    BY <1>3, <1>4
  <2>3. /\ InsertAt(tl, i, new) \in Seq(Timer)
        /\ Len(InsertAt(tl, i, new)) = Len(tl) + 1
        /\ \A j \in 1 .. i - 1 : InsertAt(tl, i, new)[j] = tl[j]
        /\ InsertAt(tl, i, new)[i] = new
        /\ \A j \in i + 1 .. Len(tl) + 1 : InsertAt(tl, i, new)[j] = tl[j - 1]
    BY <2>1, <2>2, InsertAtElements
  <2> QED
    BY <1>5, <2>3, Zenon
<1> DEFINE o == Owners(tl)  r == InsertAt(o, i, p)
<1>7. /\ o \in Seq(Proc) /\ Len(o) = Len(tl)
      /\ \A j \in 1 .. Len(tl) : o[j] = tl[j].proc
  <2>1. o \in Seq(Proc) /\ Len(o) = Len(tl)
    BY <1>3, OwnersType
  <2>2. DOMAIN tl = 1 .. Len(tl)
    BY <1>3, LenProperties
  <2> QED
    BY <2>1, <2>2 DEF Owners
<1> HIDE DEF o
<1>8. /\ r \in Seq(Proc)
      /\ Len(r) = Len(o) + 1
      /\ \A j \in 1 .. i - 1 : r[j] = o[j]
      /\ r[i] = p
      /\ \A j \in i + 1 .. Len(o) + 1 : r[j] = o[j - 1]
  <2>1. i \in Int /\ 1 <= i /\ i <= Len(o) + 1
    BY <1>3, <1>7
  <2>2. o \in Seq(Proc)
    BY <1>7
  <2> QED
    BY <2>1, <2>2, InsertAtElements
<1> HIDE DEF r
<1>9. Owners(timer_list') = r
  <2>1. /\ Owners(timer_list') \in Seq(Proc)
        /\ Len(Owners(timer_list')) = Len(r)
    BY <1>6, <1>7, <1>8, OwnersType
  <2>2. ASSUME NEW j \in 1 .. Len(r)
        PROVE  Owners(timer_list')[j] = r[j]
    <3>1. Owners(timer_list')[j] = timer_list'[j].proc
      BY <1>6, <1>7, <1>8, LenProperties DEF Owners
    <3>2. CASE j < i
      <4>1. j \in 1 .. i - 1 /\ j \in 1 .. Len(tl)
        BY <1>3, <1>7, <1>8, <3>2
      <4>2. timer_list'[j] = tl[j] /\ r[j] = o[j]
        BY <1>6, <1>8, <4>1
      <4> QED
        BY <1>7, <3>1, <4>1, <4>2
    <3>3. CASE j = i
      BY <1>3, <1>4, <1>6, <1>7, <1>8, <3>1, <3>3
    <3>4. CASE j > i
      <4>1. j - 1 \in 1 .. Len(tl) /\ j \in i + 1 .. Len(tl) + 1
        BY <1>3, <1>7, <1>8, <3>4
      <4>2. timer_list'[j] = tl[j - 1] /\ r[j] = o[j - 1]
        BY <1>6, <1>7, <1>8, <4>1
      <4> QED
        BY <1>7, <3>1, <4>1, <4>2
    <3> QED
      BY <3>2, <3>3, <3>4
  <2> QED
    BY <1>8, <2>1, <2>2, SeqEqual
<1> QED
  BY <1>3, <1>6, <1>9 DEF r, o

\* del_timer unlinks one timer of p and leaves a timer list: what is added to
\* the successor was not negative.
LEMMA DelTimer ==
    ASSUME timer_list \in Seq(Timer), NEW p, Armed(p), del_timer(p)
    PROVE  /\ timer_list' \in Seq(Timer)
           /\ \E i \in DOMAIN Owners(timer_list) :
                /\ Owners(timer_list)[i] = p
                /\ Owners(timer_list') = RemoveAt(Owners(timer_list), i)
<1>1. PICK i \in DOMAIN timer_list :
          /\ timer_list[i].proc = p
          /\ timer_list' = RemoveAt(Shifted(timer_list, i + 1,
                                            timer_list[i].expires), i)
  BY DEF del_timer
<1> DEFINE e == timer_list[i].expires  tl == Shifted(timer_list, i + 1, e)
<1>2. e \in Nat
  <2>1. timer_list[i] \in Timer
    OBVIOUS
  <2> QED
    BY <2>1 DEF Timer
<1>3. /\ tl \in Seq(Timer) /\ Len(tl) = Len(timer_list)
      /\ Owners(tl) = Owners(timer_list)
  <2> HIDE DEF e
  <2>1. i + 1 \in DOMAIN timer_list => timer_list[i + 1].expires + e \in Nat
    <3>1. i + 1 \in DOMAIN timer_list => timer_list[i + 1] \in Timer
      OBVIOUS
    <3> QED
      BY <1>2, <3>1 DEF Timer
  <2>2. i + 1 \in Int /\ e \in Int
    BY <1>2
  <2> QED
    BY <2>1, <2>2, ShiftedElements, Zenon
<1>4. timer_list' = RemoveAt(tl, i) /\ i \in Int /\ 1 <= i /\ i <= Len(tl)
  BY <1>1, <1>3
<1> HIDE DEF tl, e
<1>5. /\ timer_list' \in Seq(Timer)
      /\ Len(timer_list') = Len(tl) - 1
      /\ \A j \in 1 .. i - 1 : timer_list'[j] = tl[j]
      /\ \A j \in i .. Len(tl) - 1 : timer_list'[j] = tl[j + 1]
  BY <1>3, <1>4, RemoveAtElements
<1> DEFINE o == Owners(tl)  r == RemoveAt(o, i)
<1>6. /\ o \in Seq(Proc) /\ Len(o) = Len(tl)
      /\ \A j \in 1 .. Len(tl) : o[j] = tl[j].proc
  <2>1. o \in Seq(Proc) /\ Len(o) = Len(tl)
    BY <1>3, OwnersType
  <2>2. DOMAIN tl = 1 .. Len(tl)
    BY <1>3, LenProperties
  <2> QED
    BY <2>1, <2>2 DEF Owners
<1> HIDE DEF o
<1>7. /\ r \in Seq(Proc)
      /\ Len(r) = Len(o) - 1
      /\ \A j \in 1 .. i - 1 : r[j] = o[j]
      /\ \A j \in i .. Len(o) - 1 : r[j] = o[j + 1]
  <2>1. i \in Int /\ 1 <= i /\ i <= Len(o)
    BY <1>4, <1>6
  <2> QED
    BY <1>6, <2>1, RemoveAtElements
<1> HIDE DEF r
<1>8. Owners(timer_list') = r
  <2>1. /\ Owners(timer_list') \in Seq(Proc)
        /\ Len(Owners(timer_list')) = Len(r)
    BY <1>5, <1>6, <1>7, OwnersType
  <2>2. ASSUME NEW j \in 1 .. Len(r)
        PROVE  Owners(timer_list')[j] = r[j]
    <3>1. Owners(timer_list')[j] = timer_list'[j].proc
      BY <1>5, <1>6, <1>7, LenProperties DEF Owners
    <3>2. CASE j < i
      <4>1. j \in 1 .. Len(tl) /\ j \in 1 .. i - 1
        BY <1>4, <1>6, <1>7, <3>2
      <4> QED
        BY <1>5, <1>6, <1>7, <3>1, <4>1
    <3>3. CASE j >= i
      <4>1. j + 1 \in 1 .. Len(tl) /\ j \in i .. Len(tl) - 1
        BY <1>4, <1>6, <1>7, <3>3
      <4> QED
        BY <1>5, <1>6, <1>7, <3>1, <4>1
    <3> QED
      BY <1>4, <3>2, <3>3
  <2> QED
    BY <1>7, <2>1, <2>2, SeqEqual
<1>9. i \in DOMAIN Owners(timer_list) /\ Owners(timer_list)[i] = p
  BY <1>1 DEF Owners
<1> QED
  BY <1>3, <1>5, <1>8, <1>9 DEF r, o

----------------------------------------------------------------------------
(* The same, for the set of owners *)

\* Arming a timer for a process that has none adds just this process.
LEMMA AddTimerOwners ==
    ASSUME timer_list \in Seq(Timer), OneTimerEach,
           NEW p \in Proc, NEW ticks \in Nat, ~ Armed(p), add_timer(p, ticks)
    PROVE  /\ timer_list' \in Seq(Timer) /\ OneTimerEach'
           /\ \A q : Armed(q)' <=> Armed(q) \/ q = p
<1>1. /\ timer_list' \in Seq(Timer)
      /\ \E i \in 1 .. Len(timer_list) + 1 :
            Owners(timer_list') = InsertAt(Owners(timer_list), i, p)
  BY AddTimer
<1>2. PICK i \in 1 .. Len(timer_list) + 1 :
            Owners(timer_list') = InsertAt(Owners(timer_list), i, p)
  BY <1>1
<1> DEFINE o == Owners(timer_list)
<1>3. o \in Seq(Proc) /\ i \in Int /\ 1 <= i /\ i <= Len(o) + 1
  BY OwnersType
<1>4. IsInjective(o) /\ p \notin ToSet(o)
  BY ArmedOwners DEF OneTimerEach
<1> HIDE DEF o
<1>5. /\ ToSet(InsertAt(o, i, p)) = ToSet(o) \cup {p}
      /\ IsInjective(InsertAt(o, i, p))
  BY <1>3, <1>4, InsertAtSet
<1>6. \A q : Armed(q)' <=> q \in ToSet(Owners(timer_list'))
  BY <1>1, ArmedOwners DEF Armed, Owners, ToSet
<1> QED
  BY <1>1, <1>2, <1>5, <1>6, ArmedOwners DEF o, OneTimerEach

\* Deleting a timer takes just its owner away.
LEMMA DelTimerOwners ==
    ASSUME timer_list \in Seq(Timer), OneTimerEach, NEW p, del_timer(p)
    PROVE  /\ timer_list' \in Seq(Timer) /\ OneTimerEach'
           /\ \A q : Armed(q)' <=> Armed(q) /\ q # p
<1>1. CASE ~ Armed(p)
  <2>1. timer_list' = timer_list
    BY <1>1 DEF del_timer
  <2> QED
    BY <1>1, <2>1 DEF OneTimerEach, Armed
<1>2. CASE Armed(p)
  <2>1. /\ timer_list' \in Seq(Timer)
        /\ \E i \in DOMAIN Owners(timer_list) :
             /\ Owners(timer_list)[i] = p
             /\ Owners(timer_list') = RemoveAt(Owners(timer_list), i)
    BY <1>2, DelTimer
  <2> DEFINE o == Owners(timer_list)
  <2>2. PICK i \in DOMAIN o : o[i] = p /\ Owners(timer_list') = RemoveAt(o, i)
    BY <2>1
  <2>3. o \in Seq(Proc) /\ IsInjective(o)
    BY OwnersType DEF OneTimerEach
  <2> HIDE DEF o
  <2>4. /\ ToSet(RemoveAt(o, i)) = ToSet(o) \ {p}
        /\ IsInjective(RemoveAt(o, i))
    BY <2>2, <2>3, RemoveAtSet
  <2>5. \A q : Armed(q)' <=> q \in ToSet(Owners(timer_list'))
    BY <2>1 DEF Armed, Owners, ToSet
  <2> QED
    BY <2>1, <2>2, <2>4, <2>5, ArmedOwners DEF o, OneTimerEach
<1> QED
  BY <1>1, <1>2

\* A tick leaves the owners alone.
LEMMA DecrementHeadOwners ==
    ASSUME timer_list \in Seq(Timer), HeadOK, decrement_head
    PROVE  /\ timer_list' \in Seq(Timer)
           /\ Owners(timer_list') = Owners(timer_list)
           /\ \A q : Armed(q)' <=> Armed(q)
<1>1. 1 \in DOMAIN timer_list => timer_list[1].expires + (-1) \in Nat
  <2>1. 1 \in DOMAIN timer_list => timer_list[1] \in Timer
    OBVIOUS
  <2> QED
    BY <2>1 DEF HeadOK, Timer
<1>2. /\ timer_list' \in Seq(Timer)
      /\ Owners(timer_list') = Owners(timer_list)
  <2>1. 1 \in Int /\ -1 \in Int
    OBVIOUS
  <2> QED
    BY <1>1, <2>1, ShiftedElements, Zenon DEF decrement_head
<1>3. \A q : Armed(q)' <=> q \in ToSet(Owners(timer_list'))
  BY <1>2 DEF Armed, Owners, ToSet
<1> QED
  BY <1>2, <1>3, ArmedOwners

\* A timer that is not due is put where it is not due: the head of the list
\* keeps ticks left.
LEMMA AddTimerHead ==
    ASSUME timer_list \in Seq(Timer), HeadOK, NEW p \in Proc,
           NEW ticks \in Nat \ {0}, add_timer(p, ticks)
    PROVE  HeadOK'
<1>1. PICK i \in 1 .. Len(timer_list) + 1, left \in 0 .. ticks :
          /\ left = IF i = 1 THEN ticks ELSE ticks - Elapsed[i - 1]
          /\ i \in DOMAIN timer_list => left < timer_list[i].expires
          /\ timer_list' = InsertAt(Shifted(timer_list, i, -left), i,
                                    [proc |-> p, expires |-> left])
  BY DEF add_timer
<1> DEFINE tl == Shifted(timer_list, i, -left)
           new == [proc |-> p, expires |-> left]
<1>2. i \in DOMAIN timer_list => timer_list[i].expires + (-left) \in Nat
  <2>1. i \in DOMAIN timer_list => timer_list[i] \in Timer
    OBVIOUS
  <2> QED
    BY <1>1, <2>1 DEF Timer
<1>3. tl \in Seq(Timer) /\ Len(tl) = Len(timer_list)
  <2>1. i \in Int /\ -left \in Int
    OBVIOUS
  <2> QED
    BY <1>2, <2>1, ShiftedElements, Zenon
<1>4. new \in Timer
  BY DEF Timer
<1>a. timer_list' = InsertAt(tl, i, new)
  BY <1>1
<1>b. /\ new.expires = left
      /\ i # 1 => tl[1] = timer_list[1] /\ timer_list # << >>
  BY DEF Shifted
<1> HIDE DEF tl, new
<1>5. /\ i = 1 => timer_list'[1] = new
      /\ i # 1 => timer_list'[1] = tl[1]
  <2>1. i \in Int /\ 1 <= i /\ i <= Len(tl) + 1
    BY <1>3
  <2>2. tl \in Seq(Timer) /\ new \in Timer
    BY <1>3, <1>4
  <2>3. /\ \A j \in 1 .. i - 1 : InsertAt(tl, i, new)[j] = tl[j]
        /\ InsertAt(tl, i, new)[i] = new
    BY <2>1, <2>2, InsertAtElements
  <2> QED
    BY <1>a, <2>1, <2>3
<1>6. CASE i = 1
  BY <1>1, <1>b, <1>5, <1>6 DEF HeadOK
<1>7. CASE i # 1
  BY <1>b, <1>5, <1>7 DEF HeadOK
<1> QED
  BY <1>6, <1>7

\* The successor of a deleted head has the ticks of both.
LEMMA DelTimerHead ==
    ASSUME timer_list \in Seq(Timer), HeadOK, NEW p, del_timer(p)
    PROVE  HeadOK'
<1>1. CASE ~ Armed(p)
  BY <1>1 DEF del_timer, HeadOK
<1>2. CASE Armed(p)
  <2>1. PICK i \in DOMAIN timer_list :
            timer_list' = RemoveAt(Shifted(timer_list, i + 1,
                                           timer_list[i].expires), i)
    BY <1>2 DEF del_timer
  <2> DEFINE tl == Shifted(timer_list, i + 1, timer_list[i].expires)
  <2>2. /\ DOMAIN timer_list = 1 .. Len(timer_list) /\ Len(timer_list) \in Nat
        /\ i \in 1 .. Len(timer_list) /\ timer_list[i] \in Timer
        /\ i + 1 \in DOMAIN timer_list => timer_list[i + 1] \in Timer
    BY LenProperties
  <2>3. tl \in Seq(Timer) /\ Len(tl) = Len(timer_list)
    <3>1. /\ i + 1 \in Int /\ timer_list[i].expires \in Int
          /\ i + 1 \in DOMAIN timer_list =>
                timer_list[i + 1].expires + timer_list[i].expires \in Nat
      BY <2>2 DEF Timer
    <3> QED
      BY <3>1, ShiftedElements, Zenon
  <2>4. /\ timer_list' \in Seq(Timer) /\ Len(timer_list') = Len(tl) - 1
        /\ \A j \in 1 .. i - 1 : timer_list'[j] = tl[j]
        /\ \A j \in i .. Len(tl) - 1 : timer_list'[j] = tl[j + 1]
    <3>1. i \in Int /\ 1 <= i /\ i <= Len(tl) /\ timer_list' = RemoveAt(tl, i)
      BY <2>1, <2>2, <2>3
    <3> HIDE DEF tl
    <3> QED
      BY <2>3, <3>1, RemoveAtElements
  <2>5. CASE i = 1
    <3>1. CASE Len(timer_list) = 1
      <4>1. Len(timer_list') = 0
        BY <2>3, <2>4, <3>1
      <4> QED
        BY <2>4, <4>1 DEF HeadOK
    <3>2. CASE Len(timer_list) # 1
      <4>1. timer_list'[1] = tl[2] /\ 2 \in DOMAIN timer_list
        BY <2>2, <2>3, <2>4, <2>5, <3>2
      <4>2. tl[2].expires = timer_list[2].expires + timer_list[1].expires
        BY <2>2, <2>5, <4>1 DEF Shifted, Timer
      <4>3. timer_list[1].expires # 0 /\ timer_list[1].expires \in Nat
        BY <2>2, <2>5 DEF HeadOK, Timer
      <4>4. timer_list[2].expires \in Nat
        BY <2>2, <2>5, <4>1 DEF Timer
      <4> QED
        BY <4>1, <4>2, <4>3, <4>4 DEF HeadOK
    <3> QED
      BY <3>1, <3>2
  <2>6. CASE i # 1
    <3>1. timer_list'[1] = tl[1] /\ tl[1] = timer_list[1] /\ timer_list # << >>
      <4>1. timer_list'[1] = tl[1] /\ timer_list # << >>
        BY <2>2, <2>3, <2>4, <2>6
      <4>2. i + 1 # 1
        BY <2>2
      <4> QED
        BY <2>2, <4>1, <4>2 DEF Shifted
    <3> QED
      BY <3>1 DEF HeadOK
  <2> QED
    BY <2>5, <2>6
<1> QED
  BY <1>1, <1>2

\* The head of the timer list belongs to a process, which is armed.
LEMMA HeadTimer ==
    ASSUME timer_list \in Seq(Timer), HeadExpired
    PROVE  timer_list[1].proc \in Proc /\ Armed(timer_list[1].proc)
<1>1. 1 \in DOMAIN timer_list /\ timer_list[1] \in Timer
  BY DEF HeadExpired
<1> QED
  BY <1>1 DEF Timer, Armed

----------------------------------------------------------------------------
(* What the functions of the scheduler do *)

\* sched_class_enqueue keeps the queue and the slices in their ranges.
LEMMA EnqueueType ==
    ASSUME SchedTypeOK, NEW p \in Proc, enqueue(p)
    PROVE  /\ run_list' \in Seq(Proc)
           /\ time_slice' \in [Proc -> 0 .. MAX_TIME_SLICE]
<1>1. run_list' \in Seq(Proc)
  <2>1. run_list \in Seq(Proc)
    BY DEF SchedTypeOK
  <2> QED
    BY <2>1 DEF enqueue
<1>2. time_slice' \in [Proc -> 0 .. MAX_TIME_SLICE]
  <2>1. Refill(time_slice[p]) \in 0 .. MAX_TIME_SLICE
    BY SchedAssumption DEF SchedTypeOK, Refill
  <2> QED
    BY <2>1 DEF SchedTypeOK, enqueue
<1> QED
  BY <1>1, <1>2

\* wakeup_proc keeps the scheduler's state in its ranges.
LEMMA WakeupType ==
    ASSUME SchedTypeOK, NEW p \in Proc, wakeup_proc(p)
    PROVE  /\ state' \in [Proc -> ProcState]
           /\ wait_state' \in [Proc -> WaitState]
           /\ run_list' \in Seq(Proc)
           /\ time_slice' \in [Proc -> 0 .. MAX_TIME_SLICE]
  BY EnqueueType DEF SchedTypeOK, wakeup_proc, ProcState, WaitState

\* schedule() does, and whom it picks is a process.
LEMMA ScheduleType ==
    ASSUME SchedTypeOK, schedule
    PROVE  SchedTypeOK'
<1>1. ReadyQueue \in Seq(Proc)
  BY DEF SchedTypeOK, ReadyQueue
<1>2. /\ run_list' \in Seq(Proc)
      /\ current' \in Proc
  BY <1>1, SchedAssumption, HeadTailProperties DEF schedule
<1>3. time_slice' \in [Proc -> 0 .. MAX_TIME_SLICE]
  BY SchedAssumption DEF schedule, SchedTypeOK, Refill
<1> QED
  BY <1>2, <1>3 DEF schedule, SchedTypeOK, TimerListTypeOK

\* sched_class_proc_tick does: a slice never becomes negative.
LEMMA ProcTickType ==
    ASSUME SchedTypeOK, proc_tick
    PROVE  /\ need_resched' \in [Proc -> BOOLEAN]
           /\ time_slice' \in [Proc -> 0 .. MAX_TIME_SLICE]
<1> DEFINE left == IF time_slice[current] > 0
                   THEN time_slice[current] - 1 ELSE 0
<1>1. left \in 0 .. MAX_TIME_SLICE
  BY SchedAssumption DEF SchedTypeOK
<1> QED
  BY <1>1, SchedAssumption DEF SchedTypeOK, proc_tick

\* wakeup_proc makes p runnable and waiting for nothing, whether it had to or
\* not.
LEMMA WakeupEffect ==
    ASSUME SchedTypeOK, NEW p \in Proc, wakeup_proc(p),
           state[p] # "PROC_SLEEPING" => wait_state[p] = "0"
    PROVE  /\ state' = [state EXCEPT ![p] = "PROC_RUNNABLE"]
           /\ wait_state' = [wait_state EXCEPT ![p] = "0"]
<1>1. state \in [Proc -> ProcState] /\ wait_state \in [Proc -> WaitState]
  BY DEF SchedTypeOK
<1> QED
  BY <1>1 DEF wakeup_proc

\* wakeup_proc keeps the run queue exact: a process that already could run is
\* in it or is current.
LEMMA WakeupQueue ==
    ASSUME SchedTypeOK, RunQueueExact, NEW p \in Proc, wakeup_proc(p),
           state[idleproc] = "PROC_RUNNABLE", UNCHANGED current
    PROVE  RunQueueExact'
<1>1. state \in [Proc -> ProcState] /\ run_list \in Seq(Proc)
  BY DEF SchedTypeOK
<1>2. /\ \A q \in Proc : q \in ToSet(run_list) <=>
              state[q] = "PROC_RUNNABLE" /\ q \notin {current, idleproc}
      /\ IsInjective(run_list)
  BY DEF RunQueueExact, Queued
<1>3. CASE state[p] = "PROC_RUNNABLE"
  BY <1>2, <1>3 DEF wakeup_proc, RunQueueExact, Queued
<1>4. CASE state[p] # "PROC_RUNNABLE" /\ p = current
  BY <1>1, <1>2, <1>4 DEF wakeup_proc, RunQueueExact, Queued
<1>5. CASE state[p] # "PROC_RUNNABLE" /\ p # current
  <2>1. run_list' = Append(run_list, p)
    BY <1>5 DEF wakeup_proc, enqueue
  <2>2. ToSet(run_list') = ToSet(run_list) \cup {p} /\ IsInjective(run_list')
    BY <1>1, <1>2, <1>5, <2>1, AppendSet
  <2>3. state' = [state EXCEPT ![p] = "PROC_RUNNABLE"]
    BY <1>5 DEF wakeup_proc
  <2> QED
    BY <1>1, <1>2, <1>5, <2>2, <2>3 DEF RunQueueExact, Queued
<1> QED
  BY <1>3, <1>4, <1>5

\* schedule keeps the run queue exact and picks a process that can run.
LEMMA ScheduleQueue ==
    ASSUME SchedTypeOK, RunQueueExact, schedule,
           state[idleproc] = "PROC_RUNNABLE"
    PROVE  /\ RunQueueExact'
           /\ current' \in Proc
           /\ state[current'] = "PROC_RUNNABLE"
<1>1. state \in [Proc -> ProcState] /\ run_list \in Seq(Proc) /\ current \in Proc
  BY DEF SchedTypeOK
<1>2. /\ \A q \in Proc : q \in ToSet(run_list) <=>
              state[q] = "PROC_RUNNABLE" /\ q \notin {current, idleproc}
      /\ IsInjective(run_list)
  BY DEF RunQueueExact, Queued
<1>3. /\ ReadyQueue \in Seq(Proc) /\ IsInjective(ReadyQueue)
      /\ \A q \in Proc : q \in ToSet(ReadyQueue) <=>
              state[q] = "PROC_RUNNABLE" /\ q # idleproc
  <2>1. CASE Requeues
    <3>1. ReadyQueue = Append(run_list, current)
      BY <2>1 DEF ReadyQueue
    <3>2. state[current] = "PROC_RUNNABLE" /\ current # idleproc
      BY <2>1 DEF Requeues
    <3>3. /\ ToSet(ReadyQueue) = ToSet(run_list) \cup {current}
          /\ IsInjective(ReadyQueue)
      BY <1>1, <1>2, <3>1, AppendSet
    <3> QED
      BY <1>1, <1>2, <3>1, <3>2, <3>3
  <2>2. CASE ~ Requeues
    <3>1. ReadyQueue = run_list
      BY <2>2 DEF ReadyQueue
    <3>2. ~ (state[current] = "PROC_RUNNABLE" /\ current # idleproc)
      BY <2>2 DEF Requeues
    <3> QED
      BY <1>1, <1>2, <3>1, <3>2
  <2> QED
    BY <2>1, <2>2
<1>4. UNCHANGED state
  BY DEF schedule
<1>5. CASE ReadyQueue = << >>
  <2>1. run_list' = << >> /\ current' = idleproc
    BY <1>5 DEF schedule
  <2>2. ToSet(<< >>) = {} /\ IsInjective(<< >>)
    BY DEF ToSet, IsInjective
  <2> QED
    BY <1>3, <1>4, <1>5, <2>1, <2>2, SchedAssumption DEF RunQueueExact, Queued
<1>6. CASE ReadyQueue # << >>
  <2>1. run_list' = Tail(ReadyQueue) /\ current' = Head(ReadyQueue)
    BY <1>6 DEF schedule
  <2>2. /\ ToSet(run_list') = ToSet(ReadyQueue) \ {current'}
        /\ IsInjective(run_list')
        /\ current' \in ToSet(ReadyQueue)
    BY <1>3, <1>6, <2>1, TailSet
  <2>3. current' \in Proc
    BY <1>3, <1>6, <2>1, HeadTailProperties
  <2> QED
    BY <1>3, <1>4, <2>2, <2>3 DEF RunQueueExact, Queued
<1> QED
  BY <1>5, <1>6
=============================================================================
