-------------------------- MODULE ProcTableProofs --------------------------
(***************************************************************************)
(* get_pid gives out unique pids, for every number of processes and pids.  *)
(*                                                                         *)
(* The invariant says what last_pid and next_safe mean: between two calls  *)
(* no pid in use lies strictly between them, so that counting up to        *)
(* next_safe needs no search; in the middle of the loop the same holds for *)
(* the processes the loop has passed, and none of them has last_pid.       *)
(*                                                                         *)
(* do_wait's walk meets every child once.  The invariant numbers the       *)
(* children of a process by their age, so that a link leads one number up  *)
(* or down.                                                                *)
(***************************************************************************)
EXTENDS ProcTable, SequencesExt, SequenceTheorems, FiniteSetTheorems,
        FunctionTheorems, WellFoundedInduction, TLAPS

----------------------------------------------------------------------------
(* What inserting into and removing from proc_list does, element by element *)

\* InsertAt puts e at place i and moves the rest up by one (list_add).
LEMMA InsertAtElements ==
    ASSUME NEW S, NEW s \in Seq(S), NEW e \in S,
           NEW i \in Int, 1 <= i, i <= Len(s) + 1
    PROVE  /\ InsertAt(s, i, e) \in Seq(S)
           /\ Len(InsertAt(s, i, e)) = Len(s) + 1
           /\ \A j \in 1 .. i - 1 : InsertAt(s, i, e)[j] = s[j]
           /\ InsertAt(s, i, e)[i] = e
           /\ \A j \in i + 1 .. Len(s) + 1 : InsertAt(s, i, e)[j] = s[j - 1]
<1> DEFINE a == SubSeq(s, 1, i - 1)  b == SubSeq(s, i, Len(s))
           c == a \o <<e>>
<1>1. /\ a \in Seq(S) /\ Len(a) = i - 1
      /\ \A j \in 1 .. i - 1 : a[j] = s[j]
  BY SubSeqProperties
<1>2. /\ b \in Seq(S) /\ Len(b) = Len(s) - i + 1
      /\ \A j \in 1 .. Len(s) - i + 1 : b[j] = s[i + j - 1]
  BY SubSeqProperties
<1> HIDE DEF a, b
<1>3. /\ c \in Seq(S) /\ Len(c) = i
      /\ \A j \in 1 .. i : c[j] = IF j < i THEN s[j] ELSE e
  BY <1>1
<1> HIDE DEF c
<1>4. /\ c \o b \in Seq(S) /\ Len(c \o b) = Len(c) + Len(b)
      /\ \A j \in 1 .. Len(c) + Len(b) :
            (c \o b)[j] = IF j <= Len(c) THEN c[j] ELSE b[j - Len(c)]
  BY <1>2, <1>3, ConcatProperties
<1>5. InsertAt(s, i, e) = c \o b
  BY DEF InsertAt, a, b, c
<1> QED
  BY <1>2, <1>3, <1>4, <1>5

\* RemoveAt drops the i-th element and moves the rest down (list_del).
LEMMA RemoveAtElements ==
    ASSUME NEW S, NEW s \in Seq(S), NEW i \in Int, 1 <= i, i <= Len(s)
    PROVE  /\ RemoveAt(s, i) \in Seq(S)
           /\ Len(RemoveAt(s, i)) = Len(s) - 1
           /\ \A j \in 1 .. i - 1 : RemoveAt(s, i)[j] = s[j]
           /\ \A j \in i .. Len(s) - 1 : RemoveAt(s, i)[j] = s[j + 1]
<1> DEFINE a == SubSeq(s, 1, i - 1)  b == SubSeq(s, i + 1, Len(s))
<1>1. /\ a \in Seq(S) /\ Len(a) = i - 1
      /\ \A j \in 1 .. i - 1 : a[j] = s[j]
  BY SubSeqProperties
<1>2. /\ b \in Seq(S) /\ Len(b) = Len(s) - i
      /\ \A j \in 1 .. Len(s) - i : b[j] = s[i + j]
  BY SubSeqProperties
<1> HIDE DEF a, b
<1>3. /\ a \o b \in Seq(S) /\ Len(a \o b) = Len(a) + Len(b)
      /\ \A j \in 1 .. Len(a) + Len(b) :
            (a \o b)[j] = IF j <= Len(a) THEN a[j] ELSE b[j - Len(a)]
  BY <1>1, <1>2, ConcatProperties
<1>4. RemoveAt(s, i) = a \o b
  BY DEF RemoveAt, a, b
<1>5. \A j \in 1 .. i - 1 : (a \o b)[j] = s[j]
  BY <1>1, <1>2, <1>3
<1>6. ASSUME NEW j \in i .. Len(s) - 1
      PROVE  (a \o b)[j] = s[j + 1]
  <2>1. j - (i - 1) \in 1 .. Len(s) - i /\ i + (j - (i - 1)) = j + 1
    BY <1>2
  <2>2. (a \o b)[j] = b[j - (i - 1)]
    BY <1>1, <1>2, <1>3
  <2> QED
    BY <1>2, <2>1, <2>2
<1>7. a \o b \in Seq(S) /\ Len(a \o b) = Len(s) - 1
  BY <1>1, <1>2, <1>3
<1> QED
  BY <1>4, <1>5, <1>6, <1>7

\* Without repetitions, RemoveAt takes just the i-th element away.
LEMMA RemoveAtSet ==
    ASSUME NEW S, NEW s \in Seq(S), NEW i \in DOMAIN s, IsInjective(s)
    PROVE  /\ RemoveAt(s, i) \in Seq(S)
           /\ ToSet(RemoveAt(s, i)) = ToSet(s) \ {s[i]}
           /\ IsInjective(RemoveAt(s, i))
<1> DEFINE r == RemoveAt(s, i)
<1>0. DOMAIN s = 1 .. Len(s) /\ Len(s) \in Nat /\ i \in 1 .. Len(s)
  BY LenProperties
<1>1. /\ r \in Seq(S) /\ Len(r) = Len(s) - 1
      /\ \A j \in 1 .. i - 1 : r[j] = s[j]
      /\ \A j \in i .. Len(s) - 1 : r[j] = s[j + 1]
  <2>1. i \in Int /\ 1 <= i /\ i <= Len(s)
    BY <1>0
  <2> QED
    BY <2>1, RemoveAtElements
<1>2. DOMAIN r = 1 .. Len(s) - 1
  BY <1>1, LenProperties
<1> HIDE DEF r
<1>3. ASSUME NEW x \in ToSet(r)
      PROVE  x \in ToSet(s) \ {s[i]}
  <2>1. PICK j \in 1 .. Len(s) - 1 : x = r[j]
    BY <1>2 DEF ToSet
  <2>2. PICK k \in DOMAIN s : k # i /\ x = s[k]
    <3>1. CASE j < i
      BY <1>0, <1>1, <2>1, <3>1
    <3>2. CASE j >= i
      <4>1. j + 1 \in DOMAIN s /\ j + 1 # i /\ x = s[j + 1]
        BY <1>0, <1>1, <2>1, <3>2
      <4> QED
        BY <4>1
    <3> QED
      BY <1>0, <3>1, <3>2
  <2> QED
    BY <2>2 DEF ToSet, IsInjective
<1>4. ASSUME NEW x \in ToSet(s) \ {s[i]}
      PROVE  x \in ToSet(r)
  <2>1. PICK j \in 1 .. Len(s) : x = s[j]
    BY <1>0 DEF ToSet
  <2>2. CASE j < i
    <3>1. j \in DOMAIN r /\ r[j] = x
      BY <1>0, <1>1, <1>2, <2>1, <2>2
    <3> QED
      BY <3>1 DEF ToSet
  <2>3. CASE j > i
    <3>1. j - 1 \in DOMAIN r /\ r[j - 1] = x
      BY <1>0, <1>1, <1>2, <2>1, <2>3
    <3> QED
      BY <3>1 DEF ToSet
  <2> QED
    BY <1>0, <2>1, <2>2, <2>3
<1>5. ASSUME NEW j \in DOMAIN r, NEW k \in DOMAIN r, r[j] = r[k]
      PROVE  j = k
  <2> DEFINE old(m) == IF m < i THEN m ELSE m + 1
  <2>1. ASSUME NEW m \in 1 .. Len(s) - 1
        PROVE  old(m) \in 1 .. Len(s) /\ r[m] = s[old(m)]
    <3>1. CASE m < i
      BY <1>0, <1>1, <3>1
    <3>2. CASE m >= i
      <4>1. old(m) = m + 1 /\ m \in i .. Len(s) - 1 /\ m + 1 \in 1 .. Len(s)
        BY <1>0, <3>2
      <4> QED
        BY <1>1, <4>1
    <3> QED
      BY <1>0, <3>1, <3>2
  <2>2. old(j) = old(k)
    BY <1>0, <1>2, <1>5, <2>1 DEF IsInjective
  <2> QED
    BY <1>0, <1>2, <2>2
<1> QED
  BY <1>1, <1>3, <1>4, <1>5 DEF r, IsInjective

\* InsertAt adds just e, and keeps a list without repetitions one.
LEMMA InsertAtSet ==
    ASSUME NEW S, NEW s \in Seq(S), NEW e \in S,
           NEW i \in Int, 1 <= i, i <= Len(s) + 1,
           IsInjective(s), e \notin ToSet(s)
    PROVE  /\ InsertAt(s, i, e) \in Seq(S)
           /\ ToSet(InsertAt(s, i, e)) = ToSet(s) \cup {e}
           /\ IsInjective(InsertAt(s, i, e))
<1> DEFINE r == InsertAt(s, i, e)
<1>0. DOMAIN s = 1 .. Len(s) /\ Len(s) \in Nat
  BY LenProperties
<1>1. /\ r \in Seq(S) /\ Len(r) = Len(s) + 1
      /\ \A j \in 1 .. i - 1 : r[j] = s[j]
      /\ r[i] = e
      /\ \A j \in i + 1 .. Len(s) + 1 : r[j] = s[j - 1]
  BY InsertAtElements
<1>2. DOMAIN r = 1 .. Len(s) + 1
  BY <1>1, LenProperties
<1> HIDE DEF r
<1>3. ASSUME NEW x \in ToSet(r)
      PROVE  x \in ToSet(s) \cup {e}
  <2>1. PICK j \in 1 .. Len(s) + 1 : x = r[j]
    BY <1>2 DEF ToSet
  <2>2. CASE j < i
    <3>1. j \in DOMAIN s /\ x = s[j]
      BY <1>0, <1>1, <2>1, <2>2
    <3> QED
      BY <3>1 DEF ToSet
  <2>3. CASE j > i
    <3>1. j - 1 \in DOMAIN s /\ x = s[j - 1]
      BY <1>0, <1>1, <2>1, <2>3
    <3> QED
      BY <3>1 DEF ToSet
  <2> QED
    BY <1>1, <2>1, <2>2, <2>3
<1>4. ASSUME NEW x \in ToSet(s) \cup {e}
      PROVE  x \in ToSet(r)
  <2>1. CASE x = e
    <3>1. i \in DOMAIN r /\ r[i] = x
      BY <1>0, <1>1, <1>2, <2>1
    <3> QED
      BY <3>1 DEF ToSet
  <2>2. CASE x \in ToSet(s)
    <3>1. PICK j \in DOMAIN s : x = s[j]
      BY <2>2 DEF ToSet
    <3>2. CASE j < i
      <4>1. j \in DOMAIN r /\ r[j] = x
        BY <1>0, <1>1, <1>2, <3>1, <3>2
      <4> QED
        BY <4>1 DEF ToSet
    <3>3. CASE j >= i
      <4>1. j + 1 \in DOMAIN r /\ r[j + 1] = x
        BY <1>0, <1>1, <1>2, <3>1, <3>3
      <4> QED
        BY <4>1 DEF ToSet
    <3> QED
      BY <1>0, <3>2, <3>3
  <2> QED
    BY <2>1, <2>2
<1>5. ASSUME NEW j \in DOMAIN r, NEW k \in DOMAIN r, r[j] = r[k]
      PROVE  j = k
  <2>1. \A m \in DOMAIN s : s[m] # e
    BY DEF ToSet
  <2> DEFINE old(m) == IF m < i THEN m ELSE m - 1
  <2>2. \A m \in DOMAIN r : m # i => old(m) \in DOMAIN s /\ r[m] = s[old(m)]
    BY <1>0, <1>1, <1>2
  <2>3. r[i] = e
    BY <1>0, <1>1
  <2>4. CASE j = i \/ k = i
    BY <1>5, <2>1, <2>2, <2>3, <2>4
  <2>5. CASE j # i /\ k # i
    <3>1. old(j) = old(k)
      BY <1>5, <2>2, <2>5 DEF IsInjective
    <3> QED
      BY <3>1, <2>5, <1>2
  <2> QED
    BY <2>4, <2>5
<1> QED
  BY <1>1, <1>3, <1>4, <1>5 DEF r, IsInjective

----------------------------------------------------------------------------
(* The invariants *)

\* Who is in proc_list, and how many.
ListExact ==
    /\ IsInjective(proc_list)
    /\ \A p \in Proc : p \in Listed <=> state[p] # "free" /\ p # idleproc
    /\ state[idleproc] = "live"
    /\ nr_process = Len(proc_list) + 1

\* fork excludes the others, and its process is not in the list yet.
Forking ==
    /\ new = NULL => le = 1
    /\ new # NULL => /\ exiting = NULL
                     /\ state[new] = "free" /\ parent[new] \in Proc
                     /\ nr_process < MAX_PROCESS

\* No pid in use lies between last_pid and next_safe.
SafeRange ==
    /\ last_pid < next_safe
    /\ new = NULL =>
        \A p \in Listed : ~ (last_pid < pid[p] /\ pid[p] < next_safe)

\* The same halfway through the loop.
Passed ==
    new # NULL =>
        \A i \in 1 .. le - 1 :
            /\ pid[proc_list[i]] # last_pid
            /\ ~ (last_pid < pid[proc_list[i]] /\ pid[proc_list[i]] < next_safe)

IInv == TypeOK /\ ListExact /\ Forking /\ SafeRange /\ Passed /\ PidsUnique

\* proc_list by its indices.
LEMMA ListIndices ==
    ASSUME TypeOK
    PROVE  /\ DOMAIN proc_list = 1 .. Len(proc_list) /\ Len(proc_list) \in Nat
           /\ \A i \in 1 .. Len(proc_list) :
                proc_list[i] \in Proc /\ proc_list[i] \in Listed
           /\ Listed \subseteq Proc
<1>1. proc_list \in Seq(Proc)
  BY DEF TypeOK
<1>2. DOMAIN proc_list = 1 .. Len(proc_list) /\ Len(proc_list) \in Nat
  BY <1>1, LenProperties
<1>3. \A i \in 1 .. Len(proc_list) : proc_list[i] \in Proc
  BY <1>1, ElementOfSeq
<1> QED
  BY <1>2, <1>3 DEF Listed, ToSet

\* proc_init's table.
LEMMA InitIInv == Init => IInv
<1> SUFFICES ASSUME Init PROVE IInv
  OBVIOUS
<1>1. /\ proc_list = <<initproc>> /\ initproc \in Proc /\ idleproc \in Proc
      /\ initproc # idleproc
      /\ MAX_PID \in Nat /\ MAX_PROCESS \in Nat /\ MAX_PID > MAX_PROCESS
      /\ MAX_PROCESS >= 2
  BY ProcTableAssumption DEF Init
<1>2. /\ proc_list \in Seq(Proc) /\ Len(proc_list) = 1 /\ DOMAIN proc_list = {1}
      /\ proc_list[1] = initproc
  BY <1>1
<1>3. Listed = {initproc}
  BY <1>2 DEF Listed, ToSet
<1>4. TypeOK
  BY <1>1, <1>2, ProcTableAssumption DEF Init, TypeOK, Link
<1>5. ListExact
  BY <1>1, <1>2, <1>3 DEF Init, ListExact, IsInjective
<1>6. Forking /\ SafeRange /\ Passed
  BY <1>1, <1>3 DEF Init, Forking, SafeRange, Passed
<1>7. PidsUnique
  BY <1>1, <1>3 DEF Init, PidsUnique
<1> QED
  BY <1>4, <1>5, <1>6, <1>7 DEF IInv

----------------------------------------------------------------------------
\* do_fork begins: get_pid either searches from the start of the list, or its
\* next number lies in the safe range and no process has it.
LEMMA ForkStep ==
    ASSUME IInv, NEW p \in Proc, NEW c \in Proc, Fork(p, c)
    PROVE  IInv'
<1>1. /\ TypeOK /\ ListExact /\ SafeRange /\ PidsUnique
      /\ MAX_PID \in Nat /\ NULL \notin Proc
  BY ProcTableAssumption DEF IInv
<1>2. /\ new = NULL /\ exiting = NULL /\ state[c] = "free" /\ new' = c
      /\ nr_process < MAX_PROCESS
      /\ pid' = [pid EXCEPT ![c] = -1]
      /\ UNCHANGED <<state, proc_list, nr_process, exiting>>
      /\ get_pid
  BY DEF Fork, Quiet
<1>3. /\ last_pid \in 1 .. MAX_PID - 1 /\ next_safe \in 1 .. MAX_PID
      /\ le \in 1 .. Len(proc_list) + 1 /\ Len(proc_list) \in Nat
      /\ pid \in [Proc -> -1 .. MAX_PID - 1]
  BY <1>1, ListIndices DEF TypeOK
<1>4. Listed' = Listed /\ c \notin Listed
  BY <1>1, <1>2 DEF Listed, ListExact
<1>5. /\ last_pid' \in 1 .. MAX_PID - 1 /\ next_safe' \in 1 .. MAX_PID
      /\ last_pid' < next_safe'
      /\ \/ le' = 1
         \/ /\ le' = Len(proc_list) + 1 /\ next_safe' = next_safe
            /\ last_pid' = last_pid + 1 /\ last_pid + 1 < next_safe
  BY <1>2, <1>3, <1>1 DEF get_pid
<1>6. TypeOK'
  <2>1. pid' \in [Proc -> -1 .. MAX_PID - 1]
    BY <1>1, <1>2, <1>3
  <2>2. le' \in 1 .. Len(proc_list') + 1
    BY <1>2, <1>3, <1>5
  <2>3. /\ parent' \in Link /\ cptr' \in Link /\ yptr' \in Link /\ optr' \in Link
    BY <1>1 DEF Fork, TypeOK, Link
  <2> QED
    BY <1>1, <1>2, <1>5, <2>1, <2>2, <2>3 DEF TypeOK
<1>7. ListExact' /\ Forking'
  <2>1. parent'[c] = p
    BY <1>1 DEF Fork, TypeOK, Link
  <2>2. c \in Proc /\ c # NULL
    BY <1>1
  <2> QED
    BY <1>1, <1>2, <1>4, <2>1, <2>2 DEF ListExact, Forking
<1>8. SafeRange'
  BY <1>1, <1>2, <1>5 DEF SafeRange
<1>9. PidsUnique'
  <2>1. \A q \in Listed : q \in Proc /\ pid'[q] = pid[q]
    BY <1>1, <1>2, <1>3, <1>4, ListIndices
  <2> QED
    BY <1>1, <1>4, <2>1 DEF PidsUnique
<1>10. Passed'
  <2>1. CASE le' = 1
    BY <2>1 DEF Passed
  <2>2. CASE le' # 1
    <3>1. /\ le' = Len(proc_list) + 1 /\ next_safe' = next_safe
          /\ last_pid' = last_pid + 1 /\ last_pid + 1 < next_safe
      BY <1>5, <2>2
    <3>2. ASSUME NEW i \in 1 .. le' - 1
          PROVE  /\ pid'[proc_list'[i]] # last_pid'
                 /\ ~ (last_pid' < pid'[proc_list'[i]] /\ pid'[proc_list'[i]] < next_safe')
      <4>1. i \in 1 .. Len(proc_list)
        BY <3>1, <3>2, <1>3
      <4>2. proc_list[i] \in Proc /\ proc_list[i] \in Listed /\ proc_list[i] # c
        BY <1>1, <1>4, <4>1, ListIndices
      <4>3. pid'[proc_list'[i]] = pid[proc_list[i]] /\ pid[proc_list[i]] \in Int
        BY <1>2, <1>3, <4>2
      <4>4. ~ (last_pid < pid[proc_list[i]] /\ pid[proc_list[i]] < next_safe)
        BY <1>1, <1>2, <4>2 DEF SafeRange
      <4> QED
        BY <1>3, <3>1, <4>3, <4>4
    <3> QED
      BY <3>2 DEF Passed
  <2> QED
    BY <2>1, <2>2
<1> QED
  BY <1>6, <1>7, <1>8, <1>9, <1>10 DEF IInv

\* One iteration of get_pid's loop.
LEMMA ScanStep ==
    ASSUME IInv, Scan
    PROVE  IInv'
<1>1. /\ TypeOK /\ ListExact /\ SafeRange /\ PidsUnique /\ Forking /\ Passed
      /\ MAX_PID \in Nat /\ NULL \notin Proc /\ MAX_PID > 2
  BY ProcTableAssumption DEF IInv
<1> DEFINE q == pid[proc_list[le]]
<1>2. /\ new # NULL /\ le <= Len(proc_list) /\ LoopBody(q)
      /\ UNCHANGED <<state, links, proc_list, nr_process, pid, new, exiting>>
  BY DEF Scan
<1>3. /\ last_pid \in 1 .. MAX_PID - 1 /\ next_safe \in 1 .. MAX_PID
      /\ le \in 1 .. Len(proc_list) + 1 /\ Len(proc_list) \in Nat
      /\ last_pid < next_safe
      /\ pid \in [Proc -> -1 .. MAX_PID - 1]
      /\ le \in 1 .. Len(proc_list)
      /\ \A i \in 1 .. Len(proc_list) : pid[proc_list[i]] \in -1 .. MAX_PID - 1
  BY <1>1, <1>2, ListIndices DEF TypeOK, SafeRange
<1>4. q \in -1 .. MAX_PID - 1
  BY <1>3
<1> HIDE DEF q
<1>5. /\ last_pid' \in 1 .. MAX_PID - 1 /\ next_safe' \in 1 .. MAX_PID
      /\ last_pid' < next_safe'
      /\ \/ le' = 1
         \/ /\ le' = le + 1 /\ last_pid' >= last_pid /\ next_safe' <= next_safe
            /\ q # last_pid' /\ ~ (last_pid' < q /\ q < next_safe')
  BY <1>1, <1>2, <1>3, <1>4 DEF LoopBody
<1>6. Listed' = Listed
  BY <1>2 DEF Listed
<1>7. TypeOK'
  <2>1. le' \in 1 .. Len(proc_list') + 1
    BY <1>2, <1>3, <1>5
  <2> QED
    BY <1>1, <1>2, <1>5, <2>1 DEF TypeOK, links
<1>8. ListExact' /\ Forking' /\ SafeRange' /\ PidsUnique'
  BY <1>1, <1>2, <1>5, <1>6 DEF ListExact, Forking, SafeRange, PidsUnique, links
<1>9. Passed'
  <2>1. CASE le' = 1
    BY <2>1 DEF Passed
  <2>2. CASE le' # 1
    <3>1. /\ le' = le + 1 /\ last_pid' >= last_pid /\ next_safe' <= next_safe
          /\ q # last_pid' /\ ~ (last_pid' < q /\ q < next_safe')
      BY <1>5, <2>2
    <3>2. ASSUME NEW i \in 1 .. le' - 1
          PROVE  /\ pid[proc_list[i]] # last_pid'
                 /\ ~ (last_pid' < pid[proc_list[i]] /\ pid[proc_list[i]] < next_safe')
      <4>1. CASE i = le
        BY <3>1, <4>1 DEF q
      <4>2. CASE i # le
        <5>1. i \in 1 .. le - 1 /\ i \in 1 .. Len(proc_list)
          BY <1>3, <3>1, <3>2, <4>2
        <5>2. /\ pid[proc_list[i]] # last_pid
              /\ ~ (last_pid < pid[proc_list[i]] /\ pid[proc_list[i]] < next_safe)
          BY <1>1, <1>2, <5>1 DEF Passed
        <5>3. pid[proc_list[i]] \in Int
          BY <1>3, <5>1
        <5>4. last_pid' < next_safe' /\ last_pid' \in Int /\ next_safe' \in Int
          BY <1>5
        <5> QED
          BY <1>3, <3>1, <5>2, <5>3, <5>4
      <4> QED
        BY <4>1, <4>2
    <3> QED
      BY <1>2, <3>2 DEF Passed
  <2> QED
    BY <2>1, <2>2
<1> QED
  BY <1>7, <1>8, <1>9 DEF IInv

\* The rest of do_fork: the pid that is handed out is nobody's, and everybody
\* else's pid stays out of the safe range behind it.
LEMMA ForkDoneStep ==
    ASSUME IInv, ForkDone
    PROVE  IInv'
<1>1. /\ TypeOK /\ ListExact /\ SafeRange /\ PidsUnique /\ Forking /\ Passed
      /\ MAX_PID \in Nat /\ MAX_PROCESS \in Nat /\ NULL \notin Proc
      /\ idleproc \in Proc
  BY ProcTableAssumption DEF IInv
<1>2. /\ new # NULL /\ le > Len(proc_list) /\ set_links(new)
      /\ pid' = [pid EXCEPT ![new] = last_pid]
      /\ state' = [state EXCEPT ![new] = "live"]
      /\ new' = NULL /\ le' = 1
      /\ UNCHANGED <<parent, last_pid, next_safe, exiting>>
  BY DEF ForkDone
<1>3. /\ last_pid \in 1 .. MAX_PID - 1 /\ next_safe \in 1 .. MAX_PID
      /\ le \in 1 .. Len(proc_list) + 1 /\ Len(proc_list) \in Nat
      /\ DOMAIN proc_list = 1 .. Len(proc_list)
      /\ last_pid < next_safe
      /\ pid \in [Proc -> -1 .. MAX_PID - 1]
      /\ state \in [Proc -> {"free", "live", "zombie"}]
      /\ new \in Proc /\ state[new] = "free" /\ exiting = NULL
      /\ nr_process \in 1 .. MAX_PROCESS /\ nr_process < MAX_PROCESS
      /\ proc_list \in Seq(Proc)
      /\ nr_process = Len(proc_list) + 1
      /\ Listed \subseteq Proc
  BY <1>1, <1>2, ListIndices DEF TypeOK, SafeRange, Forking, ListExact
<1>4. new \notin Listed /\ new # idleproc
  BY <1>1, <1>3 DEF ListExact
<1>5. /\ proc_list' = InsertAt(proc_list, 1, new) /\ nr_process' = nr_process + 1
      /\ IsInjective(proc_list) /\ new \notin ToSet(proc_list)
  BY <1>1, <1>2, <1>4 DEF set_links, ListExact, Listed
<1>6. /\ proc_list' \in Seq(Proc) /\ Len(proc_list') = Len(proc_list) + 1
      /\ IsInjective(proc_list') /\ Listed' = Listed \cup {new}
  <2>1. 1 \in Int /\ 1 <= 1 /\ 1 <= Len(proc_list) + 1
    BY <1>3
  <2>2. /\ InsertAt(proc_list, 1, new) \in Seq(Proc)
        /\ Len(InsertAt(proc_list, 1, new)) = Len(proc_list) + 1
    <3>1. PICK k \in Int : k = 1
      OBVIOUS
    <3>2. 1 <= k /\ k <= Len(proc_list) + 1
      BY <1>3, <3>1
    <3>3. Len(InsertAt(proc_list, k, new)) = Len(proc_list) + 1
      BY <1>3, <3>2, InsertAtElements
    <3>4. InsertAt(proc_list, k, new) \in Seq(Proc)
      BY <1>3, <3>2, InsertAtElements
    <3> QED
      BY <3>1, <3>3, <3>4
  <2>3. /\ ToSet(InsertAt(proc_list, 1, new)) = ToSet(proc_list) \cup {new}
        /\ IsInjective(InsertAt(proc_list, 1, new))
    BY <1>3, <1>5, <2>1, InsertAtSet
  <2> QED
    BY <1>5, <2>2, <2>3 DEF Listed
<1>7. \A p \in Listed : /\ pid[p] # last_pid
                        /\ ~ (last_pid < pid[p] /\ pid[p] < next_safe)
  <2>1. TAKE p \in Listed
  <2>2. PICK i \in 1 .. Len(proc_list) : proc_list[i] = p
    BY <1>3 DEF Listed, ToSet
  <2>3. i \in 1 .. le - 1
    BY <1>2, <1>3, <2>2
  <2> QED
    BY <1>1, <1>2, <2>2, <2>3 DEF Passed
<1>8. TypeOK'
  <2>1. /\ parent' \in Link /\ cptr' \in Link /\ yptr' \in Link /\ optr' \in Link
    <3>1. /\ parent \in Link /\ cptr \in Link /\ yptr \in Link /\ optr \in Link
      BY <1>1 DEF TypeOK
    <3>2. parent[new] \in Proc
      BY <1>1, <1>2 DEF Forking
    <3>3. /\ optr' = [optr EXCEPT ![new] = cptr[parent[new]]]
          /\ yptr' = [x \in Proc |-> CASE x = new -> NULL
                                       [] x = cptr[parent[new]] -> new
                                       [] OTHER -> yptr[x]]
          /\ cptr' = [cptr EXCEPT ![parent[new]] = new]
      BY <1>2 DEF set_links
    <3>4. optr' \in Link
      BY <1>3, <3>1, <3>2, <3>3 DEF Link
    <3>5. yptr' \in Link /\ cptr' \in Link
      BY <1>3, <3>1, <3>3 DEF Link
    <3> QED
      BY <1>2, <3>1, <3>4, <3>5
  <2>2. /\ pid' \in [Proc -> -1 .. MAX_PID - 1]
        /\ state' \in [Proc -> {"free", "live", "zombie"}]
        /\ nr_process' \in 1 .. MAX_PROCESS
        /\ le' \in 1 .. Len(proc_list') + 1
    BY <1>1, <1>2, <1>3, <1>5, <1>6
  <2> QED
    BY <1>2, <1>3, <1>6, <2>1, <2>2 DEF TypeOK
<1>9. ListExact'
  <2>1. \A p \in Proc : p \in Listed' <=> state'[p] # "free" /\ p # idleproc
    BY <1>1, <1>2, <1>3, <1>4, <1>6 DEF ListExact
  <2>2. state'[idleproc] = "live"
    BY <1>1, <1>2, <1>3, <1>4 DEF ListExact
  <2> QED
    BY <1>3, <1>5, <1>6, <2>1, <2>2 DEF ListExact
<1>10. \A p \in Listed : pid'[p] = pid[p] /\ pid[p] \in Int
  BY <1>2, <1>3, <1>4
<1>11. pid'[new] = last_pid
  BY <1>2, <1>3
<1>12. PidsUnique'
  BY <1>1, <1>3, <1>6, <1>7, <1>10, <1>11 DEF PidsUnique
<1>13. SafeRange'
  BY <1>2, <1>3, <1>6, <1>7, <1>10, <1>11 DEF SafeRange
<1>14. Forking' /\ Passed'
  BY <1>2 DEF Forking, Passed
<1> QED
  BY <1>8, <1>9, <1>12, <1>13, <1>14 DEF IInv

\* do_wait frees a zombie.
LEMMA ReapStep ==
    ASSUME IInv, NEW p \in Proc, NEW z \in Proc, Reap(p, z)
    PROVE  IInv'
<1>1. /\ TypeOK /\ ListExact /\ SafeRange /\ PidsUnique
      /\ MAX_PID \in Nat /\ MAX_PROCESS \in Nat /\ NULL \notin Proc
      /\ idleproc \in Proc
  BY ProcTableAssumption DEF IInv
<1>2. /\ new = NULL /\ exiting = NULL /\ state[z] = "zombie" /\ remove_links(z)
      /\ state' = [state EXCEPT ![z] = "free"]
      /\ UNCHANGED <<parent, pids, exiting>>
  BY DEF Reap, Quiet
<1>3. PICK i \in DOMAIN proc_list :
        /\ proc_list[i] = z /\ proc_list' = RemoveAt(proc_list, i)
  BY <1>2 DEF remove_links
<1>4. /\ DOMAIN proc_list = 1 .. Len(proc_list) /\ Len(proc_list) \in Nat
      /\ proc_list \in Seq(Proc) /\ Listed \subseteq Proc
      /\ IsInjective(proc_list)
      /\ nr_process = Len(proc_list) + 1 /\ nr_process' = nr_process - 1
      /\ nr_process \in 1 .. MAX_PROCESS
      /\ state \in [Proc -> {"free", "live", "zombie"}]
  BY <1>1, <1>2, ListIndices DEF TypeOK, ListExact, remove_links
<1>5. /\ proc_list' \in Seq(Proc) /\ Len(proc_list') = Len(proc_list) - 1
      /\ IsInjective(proc_list') /\ Listed' = Listed \ {z}
  <2>1. i \in Int /\ 1 <= i /\ i <= Len(proc_list)
    BY <1>4
  <2>2. Len(RemoveAt(proc_list, i)) = Len(proc_list) - 1
    BY <1>4, <2>1, RemoveAtElements
  <2>3. /\ RemoveAt(proc_list, i) \in Seq(Proc)
        /\ ToSet(RemoveAt(proc_list, i)) = ToSet(proc_list) \ {z}
        /\ IsInjective(RemoveAt(proc_list, i))
    BY <1>3, <1>4, RemoveAtSet
  <2> QED
    BY <1>3, <2>2, <2>3 DEF Listed
<1>6. TypeOK'
  <2>1. /\ cptr' \in Link /\ yptr' \in Link /\ optr' \in Link
    <3>1. /\ cptr \in Link /\ yptr \in Link /\ optr \in Link
      BY <1>1 DEF TypeOK
    <3>2. /\ yptr' = [q \in Proc |-> IF q = optr[z] THEN yptr[z] ELSE yptr[q]]
          /\ optr' = [q \in Proc |-> IF q = yptr[z] THEN optr[z] ELSE optr[q]]
          /\ cptr' = IF yptr[z] = NULL THEN [cptr EXCEPT ![parent[z]] = optr[z]]
                                       ELSE cptr
      BY <1>2 DEF remove_links
    <3> QED
      BY <3>1, <3>2 DEF Link
  <2>2. /\ state' \in [Proc -> {"free", "live", "zombie"}]
        /\ nr_process' \in 1 .. MAX_PROCESS
    <3>1. Len(proc_list') \in Nat
      BY <1>5, LenProperties
    <3> QED
      BY <1>1, <1>2, <1>4, <1>5, <3>1
  <2>3. le' \in 1 .. Len(proc_list') + 1
    <3>1. le' = 1 /\ Len(proc_list') \in Nat
      BY <1>2, <1>5, LenProperties DEF IInv, Forking, pids
    <3> QED
      BY <3>1
  <2> QED
    BY <1>1, <1>2, <1>5, <2>1, <2>2, <2>3 DEF TypeOK, pids
<1>7. ListExact'
  <2>1. \A q \in Proc : q \in Listed' <=> state'[q] # "free" /\ q # idleproc
    BY <1>1, <1>2, <1>4, <1>5 DEF ListExact
  <2>2. state'[idleproc] = "live"
    BY <1>1, <1>2, <1>4 DEF ListExact
  <2> QED
    BY <1>4, <1>5, <2>1, <2>2 DEF ListExact
<1>8. Forking' /\ Passed'
  BY <1>2 DEF IInv, Forking, Passed, pids
<1>9. SafeRange' /\ PidsUnique'
  BY <1>1, <1>2, <1>5 DEF SafeRange, PidsUnique, pids
<1> QED
  BY <1>6, <1>7, <1>8, <1>9 DEF IInv

\* The steps of do_exit leave pids and list alone.
LEMMA ExitStep ==
    ASSUME IInv, NEW p \in Proc, Exit(p) \/ Reparent \/ ExitDone
    PROVE  IInv'
<1>1. /\ TypeOK /\ ListExact /\ SafeRange /\ PidsUnique /\ Forking
      /\ NULL \notin Proc /\ initproc \in Proc
  BY ProcTableAssumption DEF IInv
<1>2. /\ UNCHANGED <<proc_list, nr_process, pids>>
      /\ new = NULL
  BY <1>1 DEF Exit, Quiet, Reparent, ExitDone, Forking
<1>3. state' \in [Proc -> {"free", "live", "zombie"}]
      /\ \A q \in Proc : /\ state'[q] = "free" <=> state[q] = "free"
                         /\ q = idleproc => state'[q] = state[q]
  <2>1. state \in [Proc -> {"free", "live", "zombie"}]
    BY <1>1 DEF TypeOK
  <2>2. CASE Exit(p)
    BY <2>1, <2>2 DEF Exit
  <2>3. CASE Reparent \/ ExitDone
    BY <2>1, <2>3 DEF Reparent, ExitDone
  <2> QED
    BY <2>2, <2>3
<1>4. exiting' \in Proc \cup {NULL}
  BY <1>1 DEF Exit, Reparent, ExitDone, TypeOK
<1>5. /\ parent' \in Link /\ cptr' \in Link /\ yptr' \in Link /\ optr' \in Link
  <2>1. /\ parent \in Link /\ cptr \in Link /\ yptr \in Link /\ optr \in Link
        /\ exiting \in Proc \cup {NULL}
    BY <1>1 DEF TypeOK
  <2>2. CASE Reparent
    <3>1. /\ exiting \in Proc /\ cptr[exiting] \in Proc
      BY <2>1, <2>2 DEF Reparent, Link
    <3>2. /\ yptr' = [q \in Proc |-> CASE q = cptr[exiting] -> NULL
                                       [] q = cptr[initproc] -> cptr[exiting]
                                       [] OTHER -> yptr[q]]
          /\ optr' = [optr EXCEPT ![cptr[exiting]] = cptr[initproc]]
          /\ parent' = [parent EXCEPT ![cptr[exiting]] = initproc]
          /\ cptr' = [cptr EXCEPT ![exiting] = optr[cptr[exiting]],
                                  ![initproc] = cptr[exiting]]
      BY <2>2 DEF Reparent
    <3>3. yptr' \in Link
      BY <2>1, <3>1, <3>2 DEF Link
    <3>4. parent' \in Link /\ optr' \in Link /\ cptr' \in Link
      BY <1>1, <2>1, <3>1, <3>2 DEF Link
    <3> QED
      BY <3>3, <3>4
  <2>3. CASE Exit(p) \/ ExitDone
    BY <2>1, <2>3 DEF Exit, ExitDone, links
  <2> QED
    BY <2>2, <2>3
<1>6. Listed' = Listed
  BY <1>2 DEF Listed
<1>7. TypeOK'
  BY <1>1, <1>2, <1>3, <1>4, <1>5 DEF TypeOK, pids
<1>8. ListExact'
  BY <1>1, <1>2, <1>3, <1>6, ProcTableAssumption DEF ListExact
<1>9. Forking' /\ Passed' /\ SafeRange' /\ PidsUnique'
  BY <1>1, <1>2, <1>6 DEF Forking, Passed, SafeRange, PidsUnique, pids
<1> QED
  BY <1>7, <1>8, <1>9 DEF IInv

\* Every step keeps the invariant.
LEMMA NextIInv == IInv /\ [Next]_vars => IInv'
<1> SUFFICES ASSUME IInv, [Next]_vars PROVE IInv'
  OBVIOUS
<1>1. ASSUME NEW p \in Proc, NEW c \in Proc, Fork(p, c)
      PROVE  IInv'
  BY <1>1, ForkStep
<1>2. CASE Scan
  BY <1>2, ScanStep
<1>3. CASE ForkDone
  BY <1>3, ForkDoneStep
<1>4. ASSUME NEW p \in Proc, Exit(p)
      PROVE  IInv'
  BY <1>4, ExitStep
<1>5. CASE Reparent \/ ExitDone
  BY <1>5, ExitStep, ProcTableAssumption
<1>6. ASSUME NEW p \in Proc, NEW z \in Proc, Reap(p, z)
      PROVE  IInv'
  BY <1>6, ReapStep
<1>7. CASE UNCHANGED vars
  BY <1>7 DEF vars, links, pids, IInv, TypeOK, ListExact, Forking, SafeRange,
              Passed, PidsUnique, Listed
<1> QED
  BY <1>1, <1>2, <1>3, <1>4, <1>5, <1>6, <1>7 DEF Next

----------------------------------------------------------------------------
(* The lists of children *)

\* d numbers the children of every process, the oldest with 0: optr and yptr
\* lead one number down and up, cptr to the largest.  The youngest child that
\* do_exit still has to hand over points to a sibling that is gone.
Ordered(d) ==
    /\ \A c \in Listed :
          IF optr[c] = NULL THEN d[c] = 0
          ELSE /\ optr[c] \in Listed /\ parent[optr[c]] = parent[c]
               /\ d[c] = d[optr[c]] + 1
    /\ \A c \in Listed :
          IF cptr[parent[c]] = c THEN parent[c] # exiting => yptr[c] = NULL
          ELSE /\ yptr[c] \in Listed /\ parent[yptr[c]] = parent[c]
               /\ d[yptr[c]] = d[c] + 1
    /\ \A b, c \in Listed : parent[b] = parent[c] /\ d[b] = d[c] => b = c
    /\ \A p \in Listed \cup {idleproc} : cptr[p] # NULL => cptr[p] \in Listed /\ parent[cptr[p]] = p
    /\ \A c \in Listed : cptr[parent[c]] # NULL /\ d[c] <= d[cptr[parent[c]]]

\* Who has children: no zombie once do_exit is done, nobody who is not listed,
\* and a process that fork works on has a live parent.
Family ==
    /\ \A c \in Listed : parent[c] \in Listed \cup {idleproc}
    /\ state[initproc] = "live" /\ parent[initproc] = idleproc
    /\ exiting # NULL => /\ exiting \in Proc \ {idleproc, initproc}
                         /\ state[exiting] = "zombie" /\ new = NULL
    /\ new # NULL => /\ parent[new] \in Proc /\ state[parent[new]] = "live"
                     /\ cptr[new] = NULL
    /\ \A p \in Proc : state[p] = "zombie" /\ p # exiting => cptr[p] = NULL

Kin == Family /\ \E d \in [Proc -> Nat] : Ordered(d)

\* The number of a child that becomes p's youngest.
Youngest(d, p) == IF cptr[p] = NULL THEN 0 ELSE d[cptr[p]] + 1

\* A set of naturals has a least element.
LEMMA LeastNat ==
    ASSUME NEW S, S \subseteq Nat, S # {}
    PROVE  \E n \in S : \A m \in S : n <= m
<1> DEFINE R == {ss \in Nat \X Nat : ss[1] < ss[2]}
<1>1. IsWellFoundedOn(R, Nat)
  BY NatLessThanWellFounded DEF OpToRel
<1> HIDE DEF R
<1>2. \E n \in S : \A m \in S : <<m, n>> \notin R
  BY <1>1, WFMin, Zenon
<1>3. \A m, n \in Nat : m < n => <<m, n>> \in R
  BY DEF R
<1> QED
  <2>1. PICK n \in S : \A m \in S : <<m, n>> \notin R
    BY <1>2
  <2>2. ASSUME NEW m \in S PROVE n <= m
    <3>1. m \in Nat /\ n \in Nat /\ <<m, n>> \notin R
      BY <2>1
    <3>2. ~ (m < n)
      BY <1>3, <3>1
    <3> QED
      BY <3>1, <3>2
  <2> QED
    BY <2>1, <2>2

\* The walk of do_wait, when the children have numbers.
LEMMA WalkNumbered ==
    ASSUME TypeOK, NEW d \in [Proc -> Nat], Ordered(d),
           NEW p \in Listed \cup {idleproc}
    PROVE  LET w == Walk(p)
               k == Cardinality(Children(p))
           IN  /\ {w[n] : n \in 0 .. k - 1} = Children(p)
               /\ w[k] = NULL
<1> DEFINE N == Cardinality(Proc)
           K == IF cptr[p] = NULL THEN 0 ELSE d[cptr[p]] + 1
<1>1. /\ NULL \notin Proc /\ Listed \subseteq Proc /\ IsFiniteSet(Proc)
      /\ N \in Nat /\ Children(p) \subseteq Proc
      /\ \A c \in Children(p) : c \in Listed /\ c \in Proc /\ parent[c] = p
  BY ProcTableAssumption, ListIndices, FS_CardinalityType DEF Children
<1>2. K \in Nat /\ (cptr[p] # NULL => cptr[p] \in Children(p) /\ d[cptr[p]] = K - 1)
  BY <1>1 DEF Ordered, Children
<1>3. \A c \in Children(p) : d[c] \in 0 .. K - 1
  <2>1. ASSUME NEW c \in Children(p)
        PROVE  d[c] \in 0 .. K - 1
    <3>1. cptr[p] # NULL /\ d[c] <= d[cptr[p]] /\ d[c] \in Nat
      BY <1>1 DEF Ordered
    <3> QED
      BY <1>2, <3>1
  <2> QED
    BY <2>1
<1> HIDE DEF N, K
\* There is a child for every number.
<1>4. \A n \in 0 .. K - 1 : \E c \in Children(p) : d[c] = K - 1 - n
  <2> DEFINE Gap == {n \in 0 .. K - 1 : ~ \E c \in Children(p) : d[c] = K - 1 - n}
  <2>1. SUFFICES ASSUME Gap # {} PROVE FALSE
    OBVIOUS
  <2>2. Gap \subseteq Nat
    BY <1>2
  <2>3. PICK n \in Gap : \A m \in Gap : n <= m
    BY <2>1, <2>2, LeastNat
  <2>4. n # 0
    <3>1. CASE n = 0
      <4>1. K # 0
        BY <1>2, <2>3, <3>1
      <4>2. cptr[p] # NULL
        BY <4>1 DEF K
      <4> QED
        BY <1>2, <2>3, <3>1, <4>2
    <3> QED
      BY <3>1
  <2>5. n - 1 \in 0 .. K - 1 /\ n - 1 \notin Gap
    BY <1>2, <2>3, <2>4
  <2>6. PICK c \in Children(p) : d[c] = K - 1 - (n - 1)
    BY <2>5
  <2>7. d[c] = K - n /\ d[c] # 0
    BY <1>2, <2>3, <2>5, <2>6
  <2>8. optr[c] \in Children(p) /\ d[c] = d[optr[c]] + 1
    BY <1>1, <2>7 DEF Ordered, Children
  <2>9. d[optr[c]] \in Nat
    BY <1>1, <2>8
  <2>10. d[optr[c]] = K - 1 - n
    BY <1>2, <2>3, <2>7, <2>8, <2>9
  <2> QED
    BY <2>3, <2>8, <2>10
<1> DEFINE child(n) == CHOOSE c \in Children(p) : d[c] = K - 1 - n
           g == [n \in 0 .. N |-> IF n < K THEN child(n) ELSE NULL]
<1>5. \A n \in 0 .. K - 1 : child(n) \in Children(p) /\ d[child(n)] = K - 1 - n
  BY <1>4
<1>6. \A c \in Children(p) : \A n \in 0 .. K - 1 : d[c] = K - 1 - n => c = child(n)
  BY <1>1, <1>5 DEF Ordered
<1> HIDE DEF child
\* The numbers count the children.
<1>7. Cardinality(Children(p)) = K /\ K <= N
  <2> DEFINE f == [i \in 1 .. K |-> child(i - 1)]
  <2>1. \A i \in 1 .. K : i - 1 \in 0 .. K - 1 /\ f[i] \in Children(p) /\ d[f[i]] = K - i
    BY <1>2, <1>5
  <2>2. f \in [1 .. K -> Children(p)]
    BY <2>1
  <2>3. \A i, j \in 1 .. K : f[i] = f[j] => i = j
    BY <1>2, <2>1
  <2>4. ASSUME NEW c \in Children(p)
        PROVE  \E i \in 1 .. K : f[i] = c
    <3>1. d[c] \in 0 .. K - 1
      BY <1>3
    <3>2. K - d[c] \in 1 .. K /\ (K - d[c]) - 1 = K - 1 - d[c] /\ K - 1 - d[c] \in 0 .. K - 1
      BY <1>2, <3>1
    <3>3. d[c] = K - 1 - (K - 1 - d[c])
      BY <1>2, <3>1
    <3>4. c = child(K - 1 - d[c])
      BY <1>6, <3>2, <3>3
    <3> QED
      BY <3>2, <3>4
  <2> HIDE DEF f
  <2>5. f \in Bijection(1 .. K, Children(p))
    BY <2>2, <2>3, <2>4, Fun_IsBij
  <2>6. Cardinality(Children(p)) = K
    BY <1>2, <2>5, FS_CountingElements DEF ExistsBijection
  <2>7. Cardinality(Children(p)) <= Cardinality(Proc)
    BY <1>1, FS_Subset
  <2> QED
    BY <2>6, <2>7 DEF N
<1>8. N \in Nat /\ K \in 0 .. N
  BY <1>1, <1>2, <1>7
<1>9. \A n \in 0 .. N : g[n] = IF n = 0 THEN cptr[p]
                               ELSE IF g[n - 1] = NULL THEN NULL ELSE optr[g[n - 1]]
  <2>1. \A n \in 0 .. N : g[n] = IF n < K THEN child(n) ELSE NULL
    OBVIOUS
  <2> HIDE DEF g
  <2>2. \A n \in 0 .. K - 1 : g[n] = child(n) /\ g[n] \in Children(p) /\ g[n] # NULL
    <3>1. \A n \in 0 .. K - 1 : n \in 0 .. N /\ n < K
      BY <1>8
    <3> QED
      BY <1>1, <1>5, <2>1, <3>1
  <2>3. \A n \in K .. N : g[n] = NULL
    BY <1>8, <2>1
  <2>4. g[0] = cptr[p]
    <3>1. CASE K = 0
      <4>1. cptr[p] = NULL
        BY <1>1, <1>2, <3>1 DEF K
      <4> QED
        BY <1>8, <2>3, <3>1, <4>1
    <3>2. CASE K # 0
      <4>1. cptr[p] # NULL
        BY <3>2 DEF K
      <4>2. 0 \in 0 .. K - 1 /\ d[cptr[p]] = K - 1 - 0 /\ cptr[p] \in Children(p)
        BY <1>2, <1>8, <3>2, <4>1
      <4> QED
        BY <1>6, <2>2, <4>2
    <3> QED
      BY <3>1, <3>2
  <2>5. ASSUME NEW n \in 1 .. N
        PROVE  g[n] = IF g[n - 1] = NULL THEN NULL ELSE optr[g[n - 1]]
    <3>1. CASE n - 1 \in 0 .. K - 1
      <4> DEFINE c == g[n - 1]
      <4>1. c \in Children(p) /\ d[c] = K - 1 - (n - 1) /\ c # NULL
        BY <1>5, <2>2, <3>1
      <4> HIDE DEF c
      <4>2. CASE n = K
        <5>1. d[c] = 0
          BY <1>8, <4>1, <4>2
        <5>2. \A e \in Listed : optr[e] \in Listed => d[optr[e]] \in Nat
          BY <1>1
        <5>3. optr[c] = NULL
          <6>1. c \in Listed
            BY <1>1, <4>1
          <6>2. optr[c] # NULL => optr[c] \in Listed /\ d[c] = d[optr[c]] + 1
            BY <6>1 DEF Ordered
          <6> QED
            BY <5>1, <5>2, <6>1, <6>2
        <5>4. g[n] = NULL
          BY <1>8, <2>3, <4>2
        <5> QED
          BY <4>1, <5>3, <5>4 DEF c
      <4>3. CASE n # K
        <5>1. n \in 0 .. K - 1 /\ d[c] = K - n /\ K - n # 0
          BY <1>8, <3>1, <4>1, <4>3
        <5>2. c \in Listed /\ parent[c] = p
          BY <1>1, <4>1
        <5>3. /\ optr[c] \in Listed /\ parent[optr[c]] = parent[c]
              /\ d[c] = d[optr[c]] + 1
          BY <5>1, <5>2 DEF Ordered
        <5>4. optr[c] \in Children(p) /\ d[optr[c]] \in Nat
          BY <1>1, <5>2, <5>3 DEF Children
        <5>5. d[optr[c]] = K - 1 - n
          BY <1>8, <5>1, <5>3, <5>4
        <5>6. g[n] = optr[c]
          BY <1>6, <2>2, <5>1, <5>4, <5>5
        <5> QED
          BY <4>1, <5>6 DEF c
      <4> QED
        BY <4>2, <4>3
    <3>2. CASE n - 1 \notin 0 .. K - 1
      <4>1. n - 1 \in K .. N /\ n \in K .. N
        BY <1>8, <3>2
      <4> QED
        BY <2>3, <4>1
    <3> QED
      BY <3>1, <3>2
  <2>6. ASSUME NEW n \in 0 .. N
        PROVE  g[n] = IF n = 0 THEN cptr[p]
                      ELSE IF g[n - 1] = NULL THEN NULL ELSE optr[g[n - 1]]
    <3>1. n = 0 \/ n \in 1 .. N
      BY <1>8
    <3>2. CASE n = 0
      BY <2>4, <3>2
    <3>3. CASE n \in 1 .. N
      <4>1. n # 0
        BY <3>3
      <4> QED
        BY <2>5, <3>3, <4>1
    <3> QED
      BY <3>1, <3>2, <3>3
  <2> QED
    BY <2>6
\* Walk's equation has one solution.
<1> DEFINE Next_(f, n) == IF n = 0 THEN cptr[p]
                          ELSE IF f[n - 1] = NULL THEN NULL ELSE optr[f[n - 1]]
           w == Walk(p)
<1>10. w = [n \in 0 .. N |-> Next_(w, n)]
  <2> DEFINE Solves(f) == f = [n \in 0 .. N |-> Next_(f, n)]
  <2>1. Solves(g)
    <3>1. g = [n \in 0 .. N |-> g[n]]
      OBVIOUS
    <3> HIDE DEF g
    <3> QED
      BY <1>9, <3>1
  <2>2. w = CHOOSE f : Solves(f)
    BY DEF Walk, N
  <2> HIDE DEF w, Solves, g
  <2>3. Solves(w)
    BY <2>1, <2>2
  <2> QED
    BY <2>3 DEF Solves
<1>11. \A n \in 0 .. N : g[n] = IF n < K THEN child(n) ELSE NULL
  OBVIOUS
<1> HIDE DEF g, w
<1>12. \A n \in 0 .. N : w[n] = g[n]
  <2> DEFINE Gap == {n \in 0 .. N : w[n] # g[n]}
  <2>1. SUFFICES ASSUME Gap # {} PROVE FALSE
    OBVIOUS
  <2>2. PICK n \in Gap : \A m \in Gap : n <= m
    <3>1. Gap \subseteq Nat
      BY <1>8
    <3> QED
      BY <2>1, <3>1, LeastNat
  <2>3. w[n] = Next_(w, n) /\ g[n] = Next_(g, n) /\ n \in 0 .. N
    BY <1>9, <1>10, <2>2
  <2>4. n # 0 => n - 1 \in 0 .. N /\ n - 1 \notin Gap
    BY <1>8, <2>2
  <2>5. n # 0 => w[n - 1] = g[n - 1]
    BY <2>4
  <2>6. w[n] = g[n]
    BY <2>3, <2>5
  <2> QED
    BY <2>2, <2>6
<1>13. \A n \in 0 .. K - 1 : w[n] = child(n)
  <2>1. \A n \in 0 .. K - 1 : n \in 0 .. N /\ n < K
    BY <1>8
  <2> QED
    BY <1>11, <1>12, <2>1
<1>14. w[K] = NULL
  BY <1>8, <1>11, <1>12
<1>15. {w[n] : n \in 0 .. K - 1} = Children(p)
  <2>1. \A n \in 0 .. K - 1 : w[n] \in Children(p)
    BY <1>5, <1>13
  <2>2. ASSUME NEW c \in Children(p)
        PROVE  \E n \in 0 .. K - 1 : w[n] = c
    <3>1. d[c] \in 0 .. K - 1
      BY <1>3
    <3>2. K - 1 - d[c] \in 0 .. K - 1 /\ d[c] = K - 1 - (K - 1 - d[c])
      BY <1>8, <3>1
    <3> QED
      BY <1>6, <1>13, <3>2
  <2> QED
    BY <2>1, <2>2
<1> QED
  BY <1>7, <1>14, <1>15 DEF w

\* What the steps need to know of a table.
LEMMA TableFacts ==
    ASSUME IInv
    PROVE  /\ NULL \notin Proc /\ idleproc \in Proc /\ initproc \in Proc
           /\ idleproc # initproc /\ Listed \subseteq Proc
           /\ \A p \in Proc : p \in Listed <=> state[p] # "free" /\ p # idleproc
           /\ idleproc \notin Listed
           /\ state \in [Proc -> {"free", "live", "zombie"}] /\ state[idleproc] = "live"
           /\ parent \in Link /\ cptr \in Link /\ yptr \in Link /\ optr \in Link
           /\ new \in Proc \cup {NULL} /\ exiting \in Proc \cup {NULL}
           /\ new # NULL => state[new] = "free" /\ exiting = NULL
  BY ProcTableAssumption, ListIndices DEF IInv, TypeOK, ListExact, Forking

\* Ordered looks only at the processes of the table and idle.
LEMMA OrderedKept ==
    ASSUME Family, NEW d, Ordered(d), Listed' = Listed,
           \A q \in Listed \cup {idleproc} :
              /\ parent'[q] = parent[q] /\ cptr'[q] = cptr[q]
              /\ yptr'[q] = yptr[q] /\ optr'[q] = optr[q],
           \A c \in Listed : parent[c] # exiting' => parent[c] # exiting
    PROVE  Ordered(d)'
<1>1. \A c \in Listed : cptr'[parent'[c]] = cptr[parent[c]]
  BY DEF Family
<1>2. (\A c \in Listed :
          IF optr[c] = NULL THEN d[c] = 0
          ELSE /\ optr[c] \in Listed /\ parent[optr[c]] = parent[c]
               /\ d[c] = d[optr[c]] + 1)'
  BY DEF Ordered
<1>3. ASSUME NEW c \in Listed
      PROVE  (IF cptr[parent[c]] = c THEN parent[c] # exiting => yptr[c] = NULL
              ELSE /\ yptr[c] \in Listed /\ parent[yptr[c]] = parent[c]
                   /\ d[yptr[c]] = d[c] + 1)'
  <2>1. IF cptr[parent[c]] = c THEN parent[c] # exiting => yptr[c] = NULL
        ELSE /\ yptr[c] \in Listed /\ parent[yptr[c]] = parent[c]
             /\ d[yptr[c]] = d[c] + 1
    BY DEF Ordered
  <2>2. /\ cptr'[parent'[c]] = cptr[parent[c]] /\ parent'[c] = parent[c]
        /\ yptr'[c] = yptr[c] /\ (parent[c] # exiting' => parent[c] # exiting)
    BY <1>1
  <2>3. yptr[c] \in Listed => parent'[yptr[c]] = parent[yptr[c]]
    OBVIOUS
  <2> QED
    BY <2>1, <2>2, <2>3
<1>4. (\A b, c \in Listed : parent[b] = parent[c] /\ d[b] = d[c] => b = c)'
  BY DEF Ordered
<1>5. (\A p \in Listed \cup {idleproc} :
          cptr[p] # NULL => cptr[p] \in Listed /\ parent[cptr[p]] = p)'
  BY DEF Ordered
<1>6. (\A c \in Listed : cptr[parent[c]] # NULL /\ d[c] <= d[cptr[parent[c]]])'
  BY <1>1 DEF Ordered
<1> QED
  BY <1>2, <1>3, <1>4, <1>5, <1>6 DEF Ordered

\* init is the only child.
LEMMA KinInit == Init => Kin
<1> SUFFICES ASSUME Init PROVE Kin
  OBVIOUS
<1>1. /\ initproc \in Proc /\ idleproc \in Proc /\ initproc # idleproc /\ NULL \notin Proc
  BY ProcTableAssumption
<1>2. Listed = {initproc}
  <2>1. proc_list = <<initproc>> /\ Len(proc_list) = 1 /\ DOMAIN proc_list = {1}
    BY <1>1 DEF Init
  <2> QED
    BY <2>1 DEF Listed, ToSet
<1>3. Family
  BY <1>1, <1>2 DEF Init, Family
<1> DEFINE e == [q \in Proc |-> 0]
<1>4. e \in [Proc -> Nat] /\ e[initproc] = 0
  BY <1>1
<1>5. Ordered(e)
  <2> HIDE DEF e
  <2>1. /\ parent[initproc] = idleproc /\ cptr[idleproc] = initproc
        /\ cptr[initproc] = NULL /\ optr[initproc] = NULL /\ yptr[initproc] = NULL
    BY <1>1 DEF Init
  <2> QED
    BY <1>1, <1>2, <1>4, <2>1 DEF Ordered
<1> QED
  BY <1>3, <1>4, <1>5 DEF Kin

\* do_fork begins: a process that is not listed changes.
LEMMA KinFork ==
    ASSUME IInv, Kin, NEW p \in Proc, NEW c \in Proc, Fork(p, c)
    PROVE  Kin'
<1>1. /\ new = NULL /\ exiting = NULL /\ state[p] = "live" /\ state[c] = "free"
      /\ parent' = [parent EXCEPT ![c] = p]
      /\ cptr' = [cptr EXCEPT ![c] = NULL]
      /\ yptr' = [yptr EXCEPT ![c] = NULL]
      /\ optr' = [optr EXCEPT ![c] = NULL]
      /\ new' = c
      /\ UNCHANGED <<state, proc_list, exiting>>
  BY DEF Fork, Quiet
<1>2. Listed' = Listed
  BY <1>1 DEF Listed
<1>3. c \notin Listed /\ c # idleproc
  BY <1>1, TableFacts
<1>4. \A q \in Proc : q # c => /\ parent'[q] = parent[q] /\ cptr'[q] = cptr[q]
                               /\ yptr'[q] = yptr[q] /\ optr'[q] = optr[q]
  BY <1>1, TableFacts DEF Link
<1>5. parent'[c] = p /\ cptr'[c] = NULL
  BY <1>1, TableFacts DEF Link
<1>6. Family'
  BY <1>1, <1>2, <1>3, <1>4, <1>5, TableFacts DEF Kin, Family
<1>7. PICK d \in [Proc -> Nat] : Ordered(d)
  BY DEF Kin
<1>8. Ordered(d)'
  <2>1. \A q \in Listed \cup {idleproc} :
              /\ parent'[q] = parent[q] /\ cptr'[q] = cptr[q]
              /\ yptr'[q] = yptr[q] /\ optr'[q] = optr[q]
    BY <1>3, <1>4, TableFacts
  <2> QED
    BY <1>1, <1>2, <1>7, <2>1, OrderedKept DEF Kin
<1> QED
  BY <1>6, <1>8 DEF Kin

\* do_exit begins and ends: its children may be out of step from then on, and
\* when it ends it has none.
LEMMA KinExit ==
    ASSUME IInv, Kin, NEW p \in Proc, Exit(p) \/ ExitDone
    PROVE  Kin'
<1>1. UNCHANGED <<links, proc_list, new>> /\ Listed' = Listed
  BY DEF Exit, ExitDone, pids, Listed
<1>2. PICK d \in [Proc -> Nat] : Ordered(d)
  BY DEF Kin
<1>3. Family'
  <2>1. CASE Exit(p)
    <3>1. /\ exiting = NULL /\ new = NULL /\ exiting' = p /\ p \notin {idleproc, initproc}
          /\ state' = [state EXCEPT ![p] = "zombie"]
      BY <2>1 DEF Exit, Quiet
    <3>2. state'[p] = "zombie" /\ \A q \in Proc : q # p => state'[q] = state[q]
      BY <3>1, TableFacts
    <3> QED
      BY <1>1, <3>1, <3>2, TableFacts DEF Kin, Family, links
  <2>2. CASE ExitDone
    BY <1>1, <2>2, TableFacts DEF ExitDone, Kin, Family, links
  <2> QED
    BY <2>1, <2>2
<1>4. \A c \in Listed : parent[c] # exiting' => parent[c] # exiting
  <2>1. CASE Exit(p)
    BY <2>1, TableFacts DEF Exit, Quiet, Kin, Family
  <2>2. CASE ExitDone
    BY <1>2, <2>2 DEF ExitDone, Ordered
  <2> QED
    BY <2>1, <2>2
<1>5. Ordered(d)'
  BY <1>1, <1>2, <1>4, OrderedKept DEF Kin, links
<1> QED
  BY <1>3, <1>5 DEF Kin

\* Who is listed after a step.
LEMMA ListedNext ==
    ASSUME IInv'
    PROVE  /\ Listed' \subseteq Proc
           /\ \A q \in Proc : q \in Listed' <=> state'[q] # "free" /\ q # idleproc
<1>1. proc_list' \in Seq(Proc)
  BY DEF IInv, TypeOK
<1>2. \A i \in DOMAIN proc_list' : proc_list'[i] \in Proc
  BY <1>1, ElementOfSeq, LenProperties
<1> QED
  BY <1>2 DEF IInv, ListExact, Listed, ToSet

\* set_links: the new process is its parent's youngest child.
LEMMA KinForkDone ==
    ASSUME IInv, IInv', Kin, ForkDone
    PROVE  Kin'
<1> DEFINE p == parent[new]  o == cptr[p]
<1>1. /\ new # NULL /\ new' = NULL
      /\ state' = [state EXCEPT ![new] = "live"]
      /\ optr' = [optr EXCEPT ![new] = o]
      /\ yptr' = [q \in Proc |-> CASE q = new -> NULL [] q = o -> new [] OTHER -> yptr[q]]
      /\ cptr' = [cptr EXCEPT ![p] = new]
      /\ UNCHANGED <<parent, exiting>>
  BY DEF ForkDone, set_links
<1>2. /\ new \in Proc /\ state[new] = "free" /\ exiting = NULL
      /\ new \notin Listed /\ new # idleproc /\ NULL \notin Proc /\ idleproc \in Proc
      /\ Listed \subseteq Proc /\ initproc \in Proc
  BY <1>1, TableFacts
<1>3. p \in Listed \cup {idleproc} /\ p \in Proc /\ state[p] = "live" /\ cptr[new] = NULL
  BY <1>1, <1>2, TableFacts DEF Kin, Family
<1>4. state'[new] = "live" /\ \A q \in Proc : q # new => state'[q] = state[q]
  BY <1>1, <1>2, TableFacts
<1>5. Listed' = Listed \cup {new}
  <2>1. Listed' \subseteq Proc
    BY ListedNext
  <2>2. \A q \in Proc : q \in Listed' <=> state'[q] # "free" /\ q # idleproc
    BY ListedNext
  <2>3. \A q \in Proc : q \in Listed <=> state[q] # "free" /\ q # idleproc
    BY TableFacts
  <2> QED
    BY <1>2, <1>4, <2>1, <2>2, <2>3
<1>6. /\ \A c \in Listed : parent[c] \in Listed \cup {idleproc} /\ parent[c] # new
      /\ p # new /\ o # new
  BY <1>2, <1>3 DEF Kin, Family, Ordered
<1>7. /\ optr'[new] = o /\ yptr'[new] = NULL /\ cptr'[p] = new
      /\ o # NULL => o \in Listed /\ parent[o] = p /\ yptr'[o] = new
      /\ \A q \in Proc : /\ q # new => optr'[q] = optr[q]
                         /\ q # new /\ q # o => yptr'[q] = yptr[q]
                         /\ q # p => cptr'[q] = cptr[q]
  <2>1. optr \in [Proc -> Proc \cup {NULL}] /\ cptr \in [Proc -> Proc \cup {NULL}]
    BY TableFacts DEF Link
  <2>2. o # NULL => o \in Listed /\ parent[o] = p
    BY <1>3 DEF Kin, Ordered
  <2>3. optr'[new] = o /\ \A q \in Proc : q # new => optr'[q] = optr[q]
    BY <1>1, <1>2, <2>1
  <2>4. cptr'[p] = new /\ \A q \in Proc : q # p => cptr'[q] = cptr[q]
    BY <1>1, <1>3, <2>1
  <2>5. /\ yptr'[new] = NULL /\ (o # NULL => yptr'[o] = new)
        /\ \A q \in Proc : q # new /\ q # o => yptr'[q] = yptr[q]
    BY <1>1, <1>2, <1>6, <2>2
  <2> QED
    BY <2>2, <2>3, <2>4, <2>5
<1> HIDE DEF o
<1>8. Family'
  <2>1. exiting' = NULL /\ new' = NULL
    BY <1>1, <1>2
  <2>2. \A c \in Listed' : parent'[c] \in Listed' \cup {idleproc}
    BY <1>1, <1>3, <1>5, <1>6
  <2>3. state'[initproc] = "live" /\ parent'[initproc] = idleproc
    BY <1>1, <1>2, <1>4 DEF Kin, Family
  <2>4. \A q \in Proc : state'[q] = "zombie" /\ q # exiting' => cptr'[q] = NULL
    BY <1>1, <1>3, <1>4, <1>7, <2>1 DEF Kin, Family
  <2> QED
    BY <2>1, <2>2, <2>3, <2>4 DEF Family
<1>9. PICK d \in [Proc -> Nat] : Ordered(d)
  BY DEF Kin
<1> DEFINE e == [q \in Proc |-> IF q = new THEN Youngest(d, p) ELSE d[q]]
<1>10. Youngest(d, p) \in Nat /\ (IF o = NULL THEN Youngest(d, p) = 0 ELSE Youngest(d, p) = d[o] + 1)
  BY <1>2, <1>7, <1>9 DEF Youngest, o
<1>11. /\ e \in [Proc -> Nat] /\ \A q \in Proc : q # new => e[q] = d[q]
       /\ IF o = NULL THEN e[new] = 0 ELSE e[new] = d[o] + 1
  BY <1>2, <1>10
<1> HIDE DEF e
<1>12. \A q \in Listed : q \in Proc /\ q # new /\ e[q] = d[q] /\ d[q] \in Nat
  BY <1>2, <1>9, <1>11
<1>13. PICK f \in [Proc -> Nat] : f = e
  BY <1>11
<1> HIDE DEF p
<1>14. ASSUME NEW c \in Listed'
       PROVE  (IF optr[c] = NULL THEN f[c] = 0
               ELSE /\ optr[c] \in Listed /\ parent[optr[c]] = parent[c]
                    /\ f[c] = f[optr[c]] + 1)'
  <2>1. CASE c = new
    <3>1. optr'[c] = o /\ parent'[c] = p
      BY <1>1, <1>7, <2>1 DEF p
    <3>2. CASE o = NULL
      BY <1>11, <1>13, <2>1, <3>1, <3>2
    <3>3. CASE o # NULL
      <4>1. o \in Listed' /\ parent'[o] = p /\ e[o] = d[o]
        BY <1>1, <1>5, <1>7, <1>12, <3>3
      <4> QED
        BY <1>11, <1>13, <2>1, <3>1, <3>3, <4>1
    <3> QED
      BY <3>2, <3>3
  <2>2. CASE c # new
    <3>1. c \in Listed /\ optr'[c] = optr[c] /\ e[c] = d[c] /\ parent'[c] = parent[c]
      BY <1>1, <1>2, <1>5, <1>7, <1>12, <2>2
    <3>2. IF optr[c] = NULL THEN d[c] = 0
          ELSE /\ optr[c] \in Listed /\ parent[optr[c]] = parent[c]
               /\ d[c] = d[optr[c]] + 1
      BY <1>9, <3>1 DEF Ordered
    <3> QED
      BY <1>1, <1>5, <1>12, <1>13, <3>1, <3>2
  <2> QED
    BY <2>1, <2>2
<1>15. ASSUME NEW c \in Listed'
       PROVE  (IF cptr[parent[c]] = c THEN parent[c] # exiting => yptr[c] = NULL
               ELSE /\ yptr[c] \in Listed /\ parent[yptr[c]] = parent[c]
                    /\ f[yptr[c]] = f[c] + 1)'
  <2>1. CASE c = new
    <3>1. cptr'[parent'[c]] = c /\ yptr'[c] = NULL
      BY <1>1, <1>7, <2>1 DEF p
    <3> QED
      BY <3>1
  <2>2. CASE c # new
    <3>1. c \in Listed /\ c \in Proc /\ e[c] = d[c] /\ parent'[c] = parent[c]
          /\ parent[c] \in Proc
      BY <1>1, <1>2, <1>5, <1>6, <1>12, <2>2
    <3>2. IF cptr[parent[c]] = c THEN parent[c] # exiting => yptr[c] = NULL
          ELSE /\ yptr[c] \in Listed /\ parent[yptr[c]] = parent[c]
               /\ d[yptr[c]] = d[c] + 1
      BY <1>9, <3>1 DEF Ordered
    <3>3. CASE c = o
      <4>1. parent[c] = p /\ yptr'[c] = new /\ o # NULL
        BY <1>2, <1>7, <3>1, <3>3
      <4>2. cptr'[parent'[c]] # c /\ parent'[new] = p /\ e[new] = d[c] + 1
        BY <1>1, <1>7, <1>11, <2>2, <3>1, <3>3, <4>1 DEF p
      <4> QED
        BY <1>5, <1>13, <3>1, <4>1, <4>2
    <3>4. CASE c # o /\ parent[c] = p
      <4>1. cptr[parent[c]] # c
        BY <3>4 DEF o
      <4>2. cptr'[parent'[c]] # c /\ yptr'[c] = yptr[c]
        BY <1>7, <2>2, <3>1, <3>4
      <4> QED
        BY <1>1, <1>5, <1>12, <1>13, <3>1, <3>2, <4>1, <4>2
    <3>5. CASE c # o /\ parent[c] # p
      <4>1. cptr'[parent'[c]] = cptr[parent[c]] /\ yptr'[c] = yptr[c]
        BY <1>7, <2>2, <3>1, <3>5
      <4>2. yptr[c] \in Listed => parent'[yptr[c]] = parent[yptr[c]] /\ e[yptr[c]] = d[yptr[c]]
        BY <1>1, <1>12
      <4> QED
        BY <1>1, <1>5, <1>13, <3>1, <3>2, <4>1, <4>2
    <3> QED
      BY <3>3, <3>4, <3>5
  <2> QED
    BY <2>1, <2>2
<1>16. ASSUME NEW b \in Listed', NEW c \in Listed', parent'[b] = parent'[c], f[b] = f[c]
       PROVE  b = c
  <2>1. ASSUME NEW q \in Listed, parent[q] = p
        PROVE  e[q] # e[new]
    <3>1. o # NULL /\ d[q] <= d[o] /\ o \in Listed
      BY <1>7, <1>9, <2>1 DEF Ordered, o
    <3>2. d[q] \in Nat /\ d[o] \in Nat /\ e[q] = d[q] /\ e[new] = d[o] + 1
      BY <1>11, <1>12, <2>1, <3>1
    <3> QED
      BY <3>1, <3>2
  <2>2. parent[new] = p
    BY DEF p
  <2>3. CASE b # new /\ c # new
    BY <1>1, <1>5, <1>9, <1>12, <1>13, <1>16, <2>3 DEF Ordered
  <2>4. CASE b = new \/ c = new
    BY <1>1, <1>5, <1>13, <1>16, <2>1, <2>2, <2>4
  <2> QED
    BY <2>3, <2>4
<1>17. ASSUME NEW q \in Listed' \cup {idleproc}, cptr'[q] # NULL
       PROVE  (cptr[q] \in Listed /\ parent[cptr[q]] = q)'
  <2>1. CASE q = p
    BY <1>1, <1>5, <1>7, <2>1 DEF p
  <2>2. CASE q # p
    <3>1. q \in Proc /\ cptr'[q] = cptr[q]
      BY <1>2, <1>5, <1>7, <2>2
    <3>2. q # new /\ q \in Listed \cup {idleproc}
      BY <1>3, <1>5, <1>17, <3>1
    <3> QED
      BY <1>1, <1>5, <1>9, <1>17, <3>1, <3>2 DEF Ordered
  <2> QED
    BY <2>1, <2>2
<1>18. ASSUME NEW c \in Listed'
       PROVE  (cptr[parent[c]] # NULL /\ f[c] <= f[cptr[parent[c]]])'
  <2>1. e[new] \in Nat /\ new # NULL
    BY <1>1, <1>2, <1>11
  <2>2. CASE parent[c] = p
    <3>1. cptr'[parent'[c]] = new
      BY <1>1, <1>7, <2>2
    <3>2. e[c] <= e[new]
      <4>1. CASE c = new
        BY <2>1, <4>1
      <4>2. CASE c # new
        <5>1. c \in Listed /\ o # NULL /\ d[c] <= d[o] /\ o \in Listed
          BY <1>5, <1>7, <1>9, <2>2, <4>2 DEF Ordered, o
        <5>2. d[c] \in Nat /\ d[o] \in Nat /\ e[c] = d[c] /\ e[new] = d[o] + 1
          BY <1>11, <1>12, <5>1
        <5> QED
          BY <5>1, <5>2
      <4> QED
        BY <4>1, <4>2
    <3> QED
      BY <1>13, <2>1, <3>1, <3>2
  <2>3. CASE parent[c] # p
    <3>1. c \in Listed /\ parent[c] \in Listed \cup {idleproc} /\ parent[c] \in Proc
      BY <1>2, <1>5, <1>6, <2>3 DEF p
    <3>2. cptr'[parent'[c]] = cptr[parent[c]] /\ cptr[parent[c]] \in Listed \cup {NULL}
      BY <1>1, <1>7, <1>9, <2>3, <3>1 DEF Ordered
    <3>3. cptr[parent[c]] # NULL /\ d[c] <= d[cptr[parent[c]]]
      BY <1>9, <3>1 DEF Ordered
    <3> QED
      BY <1>12, <1>13, <3>1, <3>2, <3>3
  <2> QED
    BY <2>2, <2>3
<1>19. Ordered(f)'
  BY <1>14, <1>15, <1>16, <1>17, <1>18 DEF Ordered
<1> QED
  BY <1>8, <1>19 DEF Kin

\* do_exit hands its youngest child to init.
LEMMA KinReparent ==
    ASSUME IInv, Kin, Reparent
    PROVE  Kin'
<1> DEFINE x == exiting  c == cptr[x]  y == cptr[initproc]  o == optr[c]
<1>1. /\ x # NULL /\ c # NULL
      /\ yptr' = [q \in Proc |-> CASE q = c -> NULL [] q = y -> c [] OTHER -> yptr[q]]
      /\ optr' = [optr EXCEPT ![c] = y]
      /\ parent' = [parent EXCEPT ![c] = initproc]
      /\ cptr' = [cptr EXCEPT ![x] = o, ![initproc] = c]
      /\ UNCHANGED <<state, proc_list, new, exiting>>
  BY DEF Reparent, pids
<1>2. /\ x \in Proc /\ x # initproc /\ x # idleproc /\ state[x] = "zombie" /\ x \in Listed
      /\ NULL \notin Proc /\ idleproc \in Proc /\ initproc \in Proc /\ idleproc # initproc
      /\ Listed \subseteq Proc /\ Listed' = Listed /\ initproc \in Listed
      /\ parent[initproc] = idleproc /\ new = NULL
  BY <1>1, TableFacts DEF Kin, Family, Listed
<1>3. PICK d \in [Proc -> Nat] : Ordered(d)
  BY DEF Kin
<1>4. /\ c \in Listed /\ parent[c] = x /\ c \in Proc /\ c # initproc
      /\ y # NULL => y \in Listed /\ parent[y] = initproc
      /\ y # c
  BY <1>1, <1>2, <1>3 DEF Ordered
<1>5. \A q \in Listed : q \in Proc /\ d[q] \in Nat /\ parent[q] \in Listed \cup {idleproc}
                        /\ parent[q] \in Proc
  BY <1>2, <1>3 DEF Kin, Family
<1>6. \A q \in Listed :
        /\ IF optr[q] = NULL THEN d[q] = 0
           ELSE /\ optr[q] \in Listed /\ parent[optr[q]] = parent[q]
                /\ d[q] = d[optr[q]] + 1
        /\ IF cptr[parent[q]] = q THEN parent[q] # x => yptr[q] = NULL
           ELSE /\ yptr[q] \in Listed /\ parent[yptr[q]] = parent[q]
                /\ d[yptr[q]] = d[q] + 1
        /\ cptr[parent[q]] # NULL /\ d[q] <= d[cptr[parent[q]]]
  BY <1>3 DEF Ordered
<1>7. \A p \in Listed \cup {idleproc} : cptr[p] # NULL => cptr[p] \in Listed /\ parent[cptr[p]] = p
  BY <1>3 DEF Ordered
<1>8. \A b, q \in Listed : parent[b] = parent[q] /\ d[b] = d[q] => b = q
  BY <1>3 DEF Ordered
\* The youngest child of x is nobody's older sibling.
<1>9. /\ \A q \in Listed : optr[q] # c
      /\ o # NULL => o \in Listed /\ parent[o] = x /\ d[c] = d[o] + 1
      /\ o = NULL => d[c] = 0
      /\ o # c
  <2>1. ASSUME NEW q \in Listed, optr[q] = c
        PROVE  FALSE
    <3>1. parent[q] = x /\ d[q] = d[c] + 1 /\ d[q] <= d[c]
      BY <1>1, <1>4, <1>6, <2>1
    <3> QED
      BY <1>4, <1>5, <3>1
  <2> QED
    BY <1>4, <1>6, <2>1
<1>10. /\ optr'[c] = y /\ yptr'[c] = NULL /\ cptr'[x] = o /\ cptr'[initproc] = c
       /\ parent'[c] = initproc
       /\ y # NULL => yptr'[y] = c
       /\ \A q \in Proc : /\ q # c => optr'[q] = optr[q] /\ parent'[q] = parent[q]
                          /\ q # c /\ q # y => yptr'[q] = yptr[q]
                          /\ q # x /\ q # initproc => cptr'[q] = cptr[q]
  <2>1. /\ optr \in [Proc -> Proc \cup {NULL}] /\ cptr \in [Proc -> Proc \cup {NULL}]
        /\ parent \in [Proc -> Proc \cup {NULL}]
    BY TableFacts DEF Link
  <2>2. y # NULL => y \in Proc
    BY <1>2, <1>4
  <2> HIDE DEF o, y, c, x
  <2>3. /\ optr'[c] = y /\ parent'[c] = initproc
        /\ \A q \in Proc : q # c => optr'[q] = optr[q] /\ parent'[q] = parent[q]
    BY <1>1, <1>4, <2>1
  <2>4. /\ cptr'[x] = o /\ cptr'[initproc] = c
        /\ \A q \in Proc : q # x /\ q # initproc => cptr'[q] = cptr[q]
    BY <1>1, <1>2, <2>1
  <2>5. yptr'[c] = NULL /\ (y # NULL => yptr'[y] = c)
    BY <1>1, <1>4, <2>2
  <2>6. \A q \in Proc : q # c /\ q # y => yptr'[q] = yptr[q]
    BY <1>1
  <2> QED
    BY <2>3, <2>4, <2>5, <2>6
<1> DEFINE e == [q \in Proc |-> IF q = c THEN Youngest(d, initproc) ELSE d[q]]
<1>11. /\ e \in [Proc -> Nat] /\ \A q \in Listed : q # c => e[q] = d[q]
       /\ IF y = NULL THEN e[c] = 0 ELSE e[c] = d[y] + 1
  <2>1. Youngest(d, initproc) \in Nat
    BY <1>4, <1>5 DEF Youngest
  <2> QED
    BY <1>3, <1>4, <1>5, <2>1 DEF Youngest
<1>12. PICK f \in [Proc -> Nat] : f = e
  BY <1>11
<1> HIDE DEF e, o, y, c, x
<1>13. Family'
  <2>1. \A q \in Listed' : parent'[q] \in Listed' \cup {idleproc}
    BY <1>2, <1>5, <1>10
  <2>2. parent'[initproc] = idleproc
    BY <1>2, <1>4, <1>10
  <2>3. \A q \in Proc : state'[q] = "zombie" /\ q # exiting' => cptr'[q] = NULL
    BY <1>1, <1>10 DEF Kin, Family, x
  <2>4. exiting' = exiting /\ state' = state /\ new' = NULL
    BY <1>1, <1>2
  <2> QED
    BY <2>1, <2>2, <2>3, <2>4 DEF Kin, Family
<1>14. ASSUME NEW q \in Listed
       PROVE  (IF optr[q] = NULL THEN f[q] = 0
               ELSE /\ optr[q] \in Listed /\ parent[optr[q]] = parent[q]
                    /\ f[q] = f[optr[q]] + 1)'
  <2>1. CASE q = c
    <3>1. CASE y = NULL
      BY <1>10, <1>11, <1>12, <2>1, <3>1
    <3>2. CASE y # NULL
      <4>1. y \in Listed /\ parent'[y] = initproc /\ e[y] = d[y]
        BY <1>4, <1>5, <1>10, <1>11, <3>2
      <4> QED
        BY <1>2, <1>10, <1>11, <1>12, <2>1, <3>2, <4>1
    <3> QED
      BY <3>1, <3>2
  <2>2. CASE q # c
    <3>1. optr'[q] = optr[q] /\ parent'[q] = parent[q] /\ e[q] = d[q] /\ optr[q] # c
      BY <1>5, <1>9, <1>10, <1>11, <2>2
    <3>2. CASE optr[q] = NULL
      BY <1>6, <1>12, <3>1, <3>2
    <3>3. CASE optr[q] # NULL
      <4>1. /\ optr[q] \in Listed /\ parent[optr[q]] = parent[q]
            /\ d[q] = d[optr[q]] + 1
        BY <1>6, <3>3
      <4>2. parent'[optr[q]] = parent[optr[q]] /\ e[optr[q]] = d[optr[q]]
        BY <1>5, <1>10, <1>11, <3>1, <4>1
      <4> QED
        BY <1>2, <1>12, <3>1, <3>3, <4>1, <4>2
    <3> QED
      BY <3>2, <3>3
  <2> QED
    BY <2>1, <2>2
<1>15. ASSUME NEW q \in Listed
       PROVE  (IF cptr[parent[q]] = q THEN parent[q] # exiting => yptr[q] = NULL
               ELSE /\ yptr[q] \in Listed /\ parent[yptr[q]] = parent[q]
                    /\ f[yptr[q]] = f[q] + 1)'
  <2>1. CASE q = c
    BY <1>10, <2>1
  <2>2. CASE q = y
    <3>1. /\ parent'[q] = initproc /\ cptr'[initproc] = c /\ q # c /\ yptr'[q] = c
          /\ parent'[c] = initproc /\ e[c] = d[q] + 1 /\ e[q] = d[q]
      BY <1>2, <1>4, <1>5, <1>10, <1>11, <2>2
    <3> QED
      BY <1>2, <1>4, <1>12, <3>1
  <2>3. CASE q # c /\ q # y
    <3>1. /\ parent'[q] = parent[q] /\ yptr'[q] = yptr[q] /\ e[q] = d[q]
          /\ exiting' = x
      BY <1>1, <1>5, <1>10, <1>11, <2>3 DEF x
    \* If q keeps an younger sibling it is not c.
    <3>2. ASSUME cptr[parent[q]] # q, yptr[q] # c, cptr'[parent[q]] # q
          PROVE  (IF cptr[parent[q]] = q THEN parent[q] # exiting => yptr[q] = NULL
                  ELSE /\ yptr[q] \in Listed /\ parent[yptr[q]] = parent[q]
                       /\ f[yptr[q]] = f[q] + 1)'
      <4>1. /\ yptr[q] \in Listed /\ parent[yptr[q]] = parent[q]
            /\ d[yptr[q]] = d[q] + 1
        BY <1>6, <3>2
      <4>2. parent'[yptr[q]] = parent[yptr[q]] /\ e[yptr[q]] = d[yptr[q]]
        BY <1>5, <1>10, <1>11, <3>2, <4>1
      <4> QED
        BY <1>2, <1>12, <3>1, <3>2, <4>1, <4>2
    <3>3. CASE parent[q] = initproc
      <4>1. cptr[parent[q]] # q
        BY <2>3, <3>3 DEF y
      <4>2. yptr[q] # c
        BY <1>2, <1>4, <1>6, <3>3, <4>1
      <4>3. cptr'[parent[q]] # q
        BY <1>10, <2>3, <3>3
      <4> QED
        BY <3>2, <4>1, <4>2, <4>3
    <3>4. CASE parent[q] = x
      <4>1. CASE q = o
        BY <1>10, <3>1, <3>4, <4>1
      <4>2. CASE q # o
        <5>1. cptr[parent[q]] # q
          BY <2>3, <3>4 DEF c
        <5>2. yptr[q] # c
          <6>1. SUFFICES ASSUME yptr[q] = c PROVE FALSE
            OBVIOUS
          <6>2. d[c] = d[q] + 1 /\ d[q] \in Nat
            BY <1>5, <1>6, <5>1, <6>1
          <6>3. o # NULL
            BY <1>9, <6>2
          <6>4. d[o] = d[q] /\ parent[o] = parent[q] /\ o \in Listed
            BY <1>5, <1>9, <3>4, <6>2, <6>3
          <6> QED
            BY <1>8, <4>2, <6>4
        <5>3. cptr'[parent[q]] # q
          BY <1>10, <3>4, <4>2
        <5> QED
          BY <3>2, <5>1, <5>2, <5>3
      <4> QED
        BY <4>1, <4>2
    <3>5. CASE parent[q] # initproc /\ parent[q] # x
      <4>1. cptr'[parent[q]] = cptr[parent[q]]
        BY <1>5, <1>10, <3>5
      <4>2. CASE cptr[parent[q]] = q
        BY <1>6, <3>1, <3>5, <4>1, <4>2
      <4>3. CASE cptr[parent[q]] # q
        <5>1. yptr[q] # c
          BY <1>4, <1>6, <3>5, <4>3
        <5> QED
          BY <3>2, <4>1, <4>3, <5>1
      <4> QED
        BY <4>2, <4>3
    <3> QED
      BY <3>3, <3>4, <3>5
  <2> QED
    BY <2>1, <2>2, <2>3
\* c gets the largest number among init's children.
<1>16. ASSUME NEW q \in Listed, q # c, parent[q] = initproc
       PROVE  e[q] < e[c]
  <2>1. y # NULL /\ d[q] <= d[y] /\ y \in Listed
    BY <1>4, <1>6, <1>16 DEF y
  <2>2. d[q] \in Nat /\ d[y] \in Nat /\ e[q] = d[q] /\ e[c] = d[y] + 1
    BY <1>5, <1>11, <1>16, <2>1
  <2> QED
    BY <2>1, <2>2
<1>17. ASSUME NEW b \in Listed, NEW q \in Listed, parent'[b] = parent'[q], f[b] = f[q]
       PROVE  b = q
  <2>1. \A r \in Listed : r # c => e[r] \in Nat /\ e[r] = d[r] /\ parent'[r] = parent[r]
    BY <1>5, <1>10, <1>11
  <2>2. \A r \in Listed : r # c /\ parent'[r] = initproc => e[r] # e[c]
    <3>1. e[c] \in Nat
      BY <1>4, <1>11
    <3> QED
      BY <1>16, <2>1, <3>1
  <2>3. CASE b # c /\ q # c
    BY <1>8, <1>12, <1>17, <2>1, <2>3
  <2>4. CASE b = c \/ q = c
    BY <1>10, <1>12, <1>17, <2>2, <2>4
  <2> QED
    BY <2>3, <2>4
<1>18. ASSUME NEW q \in Listed \cup {idleproc}, cptr'[q] # NULL
       PROVE  (cptr[q] \in Listed /\ parent[cptr[q]] = q)'
  <2>1. CASE q = x
    <3>1. cptr'[q] = o /\ o # NULL /\ o \in Listed /\ parent[o] = x /\ o # c
      BY <1>9, <1>10, <1>18, <2>1
    <3> QED
      BY <1>2, <1>10, <1>5, <2>1, <3>1
  <2>2. CASE q = initproc
    BY <1>2, <1>4, <1>10, <2>2
  <2>3. CASE q # x /\ q # initproc
    <3>1. cptr'[q] = cptr[q] /\ cptr[q] \in Listed /\ parent[cptr[q]] = q
      BY <1>2, <1>7, <1>10, <1>18, <2>3
    <3>2. cptr[q] # c
      BY <1>4, <2>3, <3>1
    <3> QED
      BY <1>2, <1>5, <1>10, <3>1, <3>2
  <2> QED
    BY <2>1, <2>2, <2>3
<1>19. ASSUME NEW q \in Listed
       PROVE  (cptr[parent[q]] # NULL /\ f[q] <= f[cptr[parent[q]]])'
  <2>1. c # NULL /\ e[c] \in Nat
    BY <1>1, <1>4, <1>11
  <2>2. CASE q = c
    BY <1>10, <1>12, <2>1, <2>2
  <2>3. CASE q # c
    <3>1. parent'[q] = parent[q] /\ e[q] = d[q] /\ d[q] \in Nat
      BY <1>5, <1>10, <1>11, <2>3
    <3>2. CASE parent[q] = initproc
      <4>1. e[q] < e[c] /\ e[q] \in Nat
        BY <1>16, <2>3, <3>1, <3>2
      <4>2. e[q] <= e[c]
        BY <2>1, <4>1
      <4> QED
        BY <1>10, <1>12, <2>1, <3>1, <3>2, <4>2
    <3>3. CASE parent[q] = x
      <4>1. d[q] <= d[c] /\ d[q] # d[c] /\ d[c] \in Nat
        BY <1>4, <1>5, <1>6, <1>8, <2>3, <3>3 DEF c
      <4>2. o # NULL
        BY <1>9, <3>1, <4>1
      <4>3. o \in Listed /\ d[c] = d[o] + 1 /\ d[o] \in Nat /\ e[o] = d[o]
        BY <1>5, <1>9, <1>11, <4>2
      <4>4. d[q] <= d[o]
        BY <3>1, <4>1, <4>3
      <4> QED
        BY <1>10, <1>12, <3>1, <3>3, <4>2, <4>3, <4>4
    <3>4. CASE parent[q] # initproc /\ parent[q] # x
      <4>1. cptr'[parent[q]] = cptr[parent[q]] /\ cptr[parent[q]] # NULL
            /\ d[q] <= d[cptr[parent[q]]]
        BY <1>5, <1>6, <1>10, <3>4
      <4>2. cptr[parent[q]] \in Listed /\ parent[cptr[parent[q]]] = parent[q]
        BY <1>5, <1>7, <4>1
      <4>3. e[cptr[parent[q]]] = d[cptr[parent[q]]]
        BY <1>4, <1>11, <3>4, <4>2
      <4> QED
        BY <1>12, <3>1, <4>1, <4>3
    <3> QED
      BY <3>2, <3>3, <3>4
  <2> QED
    BY <2>2, <2>3
<1>20. Ordered(f)'
  BY <1>2, <1>14, <1>15, <1>17, <1>18, <1>19 DEF Ordered
<1> QED
  BY <1>13, <1>20 DEF Kin

\* remove_links: the younger siblings of z move up by one.
LEMMA KinReap ==
    ASSUME IInv, IInv', Kin, NEW self \in Proc, NEW z \in Proc, Reap(self, z)
    PROVE  Kin'
<1> DEFINE p == parent[z]  o == optr[z]  y == yptr[z]
<1>1. /\ new = NULL /\ exiting = NULL /\ state[z] = "zombie"
      /\ state' = [state EXCEPT ![z] = "free"]
      /\ yptr' = [q \in Proc |-> IF q = o THEN y ELSE yptr[q]]
      /\ optr' = [q \in Proc |-> IF q = y THEN o ELSE optr[q]]
      /\ cptr' = IF y = NULL THEN [cptr EXCEPT ![p] = o] ELSE cptr
      /\ UNCHANGED <<parent, new, exiting>>
  BY DEF Reap, Quiet, pids, remove_links
<1>2. /\ NULL \notin Proc /\ idleproc \in Proc /\ initproc \in Proc /\ Listed \subseteq Proc
      /\ z \in Listed /\ z # initproc /\ z # idleproc /\ cptr[z] = NULL
  BY <1>1, TableFacts DEF Kin, Family
<1>3. Listed' = Listed \ {z}
  <2>1. state'[z] = "free" /\ \A q \in Proc : q # z => state'[q] = state[q]
    BY <1>1, TableFacts
  <2>2. \A q \in Proc : q \in Listed' <=> state'[q] # "free" /\ q # idleproc
    BY ListedNext
  <2>3. \A q \in Proc : q \in Listed <=> state[q] # "free" /\ q # idleproc
    BY TableFacts
  <2>4. Listed' \subseteq Proc
    BY ListedNext
  <2> QED
    BY <1>2, <2>1, <2>2, <2>3, <2>4
<1>4. PICK d \in [Proc -> Nat] : Ordered(d)
  BY DEF Kin
<1>5. \A q \in Listed : q \in Proc /\ d[q] \in Nat /\ parent[q] \in Listed \cup {idleproc}
                        /\ parent[q] \in Proc
  BY <1>2, <1>4 DEF Kin, Family
<1>6. \A q \in Listed :
        /\ IF optr[q] = NULL THEN d[q] = 0
           ELSE /\ optr[q] \in Listed /\ parent[optr[q]] = parent[q]
                /\ d[q] = d[optr[q]] + 1
        /\ IF cptr[parent[q]] = q THEN yptr[q] = NULL
           ELSE /\ yptr[q] \in Listed /\ parent[yptr[q]] = parent[q]
                /\ d[yptr[q]] = d[q] + 1
        /\ cptr[parent[q]] # NULL /\ d[q] <= d[cptr[parent[q]]]
  BY <1>1, <1>2, <1>4, <1>5 DEF Ordered
<1>7. \A q \in Listed \cup {idleproc} : cptr[q] # NULL => cptr[q] \in Listed /\ parent[cptr[q]] = q
  BY <1>4 DEF Ordered
<1>8. \A b, q \in Listed : parent[b] = parent[q] /\ d[b] = d[q] => b = q
  BY <1>4 DEF Ordered
<1>9. /\ p \in Listed \cup {idleproc} /\ p \in Proc /\ p # z
      /\ y = NULL <=> cptr[p] = z
      /\ y # NULL => y \in Listed /\ parent[y] = p /\ d[y] = d[z] + 1
      /\ o # NULL => o \in Listed /\ parent[o] = p /\ d[z] = d[o] + 1
      /\ o = NULL => d[z] = 0
      /\ o # z /\ y # z
  <2>1. p \in Listed \cup {idleproc} /\ p \in Proc /\ cptr[p] # NULL
    BY <1>2, <1>5, <1>6
  <2>2. /\ y = NULL <=> cptr[p] = z
        /\ y # NULL => y \in Listed /\ parent[y] = p /\ d[y] = d[z] + 1
    BY <1>2, <1>6
  <2>3. /\ o # NULL => o \in Listed /\ parent[o] = p /\ d[z] = d[o] + 1
        /\ o = NULL => d[z] = 0
    BY <1>2, <1>6
  <2>4. d[z] \in Nat
    BY <1>2, <1>5
  <2> QED
    BY <1>2, <2>1, <2>2, <2>3, <2>4
<1>10. \A q \in Listed : parent[q] # z
  BY <1>2, <1>6
<1>11. /\ \A q \in Proc : /\ yptr'[q] = IF q = o THEN y ELSE yptr[q]
                          /\ optr'[q] = IF q = y THEN o ELSE optr[q]
                          /\ q # p => cptr'[q] = cptr[q]
                          /\ parent'[q] = parent[q]
       /\ y = NULL => cptr'[p] = o
       /\ y # NULL => cptr'[p] = cptr[p]
  <2>1. cptr \in [Proc -> Proc \cup {NULL}]
    BY TableFacts DEF Link
  <2> HIDE DEF p, o, y
  <2>2. /\ \A q \in Proc : q # p => cptr'[q] = cptr[q]
        /\ y = NULL => cptr'[p] = o
        /\ y # NULL => cptr'[p] = cptr[p]
    BY <1>1, <1>9, <2>1
  <2> QED
    BY <1>1, <2>2
<1> DEFINE e == [q \in Proc |-> IF q \in Listed /\ parent[q] = p /\ d[z] < d[q]
                                THEN d[q] - 1 ELSE d[q]]
<1> HIDE DEF p, o, y
\* The younger siblings of z count one less.
<1>12. /\ e \in [Proc -> Nat]
       /\ \A q \in Listed : parent[q] # p => e[q] = d[q]
       /\ \A q \in Listed : parent[q] = p /\ d[q] < d[z] => e[q] = d[q]
       /\ \A q \in Listed : parent[q] = p /\ d[z] < d[q] => e[q] = d[q] - 1
       /\ \A q \in Listed : parent[q] = p /\ q # z => d[q] < d[z] \/ d[z] < d[q]
  <2>1. \A q \in Listed : d[z] < d[q] => d[q] - 1 \in Nat
    BY <1>2, <1>5
  <2>2. e \in [Proc -> Nat]
    BY <1>4, <2>1
  <2>3. \A q \in Listed : e[q] = IF parent[q] = p /\ d[z] < d[q] THEN d[q] - 1 ELSE d[q]
    BY <1>5
  <2>4. \A q \in Listed : d[q] < d[z] => ~ (d[z] < d[q])
    BY <1>2, <1>5
  <2>5. \A q \in Listed : parent[q] = p /\ q # z => d[q] # d[z]
    BY <1>2, <1>8 DEF p
  <2>6. \A q \in Listed : d[q] # d[z] => d[q] < d[z] \/ d[z] < d[q]
    BY <1>2, <1>5
  <2> HIDE DEF e
  <2> QED
    BY <2>2, <2>3, <2>4, <2>5, <2>6
<1> HIDE DEF e
<1>13. PICK f \in [Proc -> Nat] : f = e
  BY <1>12
\* A sibling one above another one stays one above.
<1>14. ASSUME NEW a \in Listed \ {z}, NEW b \in Listed \ {z},
              parent[a] = parent[b], d[b] = d[a] + 1
       PROVE  e[b] = e[a] + 1
  <2>1. d[a] \in Nat /\ d[b] \in Nat /\ d[z] \in Nat
    BY <1>2, <1>5
  <2>2. CASE parent[a] = p
    <3>1. CASE d[a] < d[z]
      <4>1. ~ (d[z] < d[b])
        BY <1>14, <2>1, <3>1
      <4>2. d[b] < d[z]
        BY <1>12, <1>14, <2>2, <4>1
      <4> QED
        BY <1>12, <1>14, <2>2, <3>1, <4>2
    <3>2. CASE d[z] < d[a]
      <4>1. d[z] < d[b]
        BY <1>14, <2>1, <3>2
      <4>2. e[a] = d[a] - 1 /\ e[b] = d[b] - 1
        BY <1>12, <1>14, <2>2, <3>2, <4>1
      <4> QED
        BY <1>14, <2>1, <4>2
    <3> QED
      BY <1>12, <2>2, <3>1, <3>2
  <2>3. CASE parent[a] # p
    BY <1>12, <1>14, <2>3
  <2> QED
    BY <2>2, <2>3
\* The order of two siblings stays, and so they keep apart.
<1>15. ASSUME NEW a \in Listed \ {z}, NEW b \in Listed \ {z},
              parent[a] = parent[b], d[a] < d[b]
       PROVE  e[a] < e[b]
  <2>1. d[a] \in Nat /\ d[b] \in Nat /\ d[z] \in Nat
    BY <1>2, <1>5
  <2>2. CASE parent[a] = p
    <3>1. CASE d[b] < d[z]
      <4>1. d[a] < d[z]
        BY <1>15, <2>1, <3>1
      <4> QED
        BY <1>12, <1>15, <2>2, <3>1, <4>1
    <3>2. CASE d[z] < d[b]
      <4>1. e[b] = d[b] - 1
        BY <1>12, <1>15, <2>2, <3>2
      <4>2. CASE d[a] < d[z]
        <5>1. e[a] = d[a]
          BY <1>12, <2>2, <4>2
        <5> QED
          BY <2>1, <3>2, <4>1, <4>2, <5>1
      <4>3. CASE d[z] < d[a]
        <5>1. e[a] = d[a] - 1
          BY <1>12, <2>2, <4>3
        <5> QED
          BY <1>15, <2>1, <4>1, <5>1
      <4> QED
        BY <1>12, <2>2, <4>2, <4>3
    <3> QED
      BY <1>12, <1>15, <2>2, <3>1, <3>2
  <2>3. CASE parent[a] # p
    BY <1>12, <1>15, <2>3
  <2> QED
    BY <2>2, <2>3
<1>16. Family'
  <2>1. \A q \in Listed' : parent'[q] \in Listed' \cup {idleproc}
    BY <1>3, <1>5, <1>10, <1>11
  <2>2. new' = NULL /\ exiting' = NULL /\ parent'[initproc] = idleproc
    BY <1>1 DEF Kin, Family
  <2>3. \A q \in Proc : q # z => state'[q] = state[q]
    BY <1>1, TableFacts
  <2>4. state'[initproc] = "live"
    BY <1>2, <2>3 DEF Kin, Family
  <2>5. ASSUME NEW q \in Proc, state'[q] = "zombie"
        PROVE  cptr'[q] = NULL
    <3>1. q # z
      BY <1>1, <2>5, TableFacts
    <3>2. cptr[q] = NULL
      BY <1>1, <1>2, <2>3, <2>5, <3>1 DEF Kin, Family
    <3>3. q # p
      BY <1>2, <1>6, <3>2 DEF p
    <3> QED
      BY <1>11, <3>2, <3>3
  <2> QED
    BY <2>1, <2>2, <2>4, <2>5 DEF Family
<1>17. ASSUME NEW q \in Listed'
       PROVE  (IF optr[q] = NULL THEN f[q] = 0
               ELSE /\ optr[q] \in Listed /\ parent[optr[q]] = parent[q]
                    /\ f[q] = f[optr[q]] + 1)'
  <2>1. q \in Listed \ {z} /\ q \in Proc /\ parent'[q] = parent[q]
    BY <1>3, <1>5, <1>11
  <2>2. CASE q = y
    <3>1. /\ optr'[q] = o /\ y # NULL /\ parent[q] = p /\ d[q] = d[z] + 1
          /\ d[z] \in Nat
      BY <1>2, <1>5, <1>9, <1>11, <2>1, <2>2
    <3>2. e[q] = d[z]
      <4>1. d[z] < d[q]
        BY <3>1
      <4>2. e[q] = d[q] - 1
        BY <1>12, <2>1, <3>1, <4>1
      <4> QED
        BY <3>1, <4>2
    <3>3. CASE o = NULL
      BY <1>9, <1>13, <3>1, <3>2, <3>3
    <3>4. CASE o # NULL
      <4>1. /\ o \in Listed \ {z} /\ o \in Proc /\ parent[o] = p /\ d[z] = d[o] + 1
            /\ d[o] \in Nat
        BY <1>5, <1>9, <3>4
      <4>2. e[o] = d[o]
        <5>1. d[o] < d[z]
          BY <4>1
        <5> QED
          BY <1>12, <4>1, <5>1
      <4> QED
        BY <1>3, <1>11, <1>13, <2>1, <3>1, <3>2, <3>4, <4>1, <4>2
    <3> QED
      BY <3>3, <3>4
  <2>3. CASE q # y
    <3>1. optr'[q] = optr[q]
      BY <1>11, <2>1, <2>3
    <3>2. CASE optr[q] = NULL
      <4>1. d[q] = 0 /\ d[z] \in Nat /\ ~ (d[z] < d[q])
        BY <1>2, <1>5, <1>6, <2>1, <3>2
      <4>2. e[q] = 0
        BY <1>12, <2>1, <4>1
      <4> QED
        BY <1>13, <3>1, <3>2, <4>2
    <3>3. CASE optr[q] # NULL
      <4>1. /\ optr[q] \in Listed /\ parent[optr[q]] = parent[q]
            /\ d[q] = d[optr[q]] + 1
        BY <1>6, <2>1, <3>3
      <4>2. optr[q] # z
        <5>1. SUFFICES ASSUME optr[q] = z PROVE FALSE
          OBVIOUS
        <5>2. parent[q] = p /\ d[q] = d[z] + 1 /\ d[z] \in Nat /\ d[q] <= d[cptr[p]]
          BY <1>2, <1>5, <1>6, <2>1, <4>1, <5>1 DEF p
        <5>3. cptr[p] # z
          BY <5>2
        <5>4. y \in Listed /\ parent[y] = p /\ d[y] = d[q]
          BY <1>9, <5>2, <5>3
        <5> QED
          BY <1>8, <2>1, <2>3, <5>2, <5>4
      <4>3. e[q] = e[optr[q]] + 1
        BY <1>14, <2>1, <4>1, <4>2
      <4> QED
        BY <1>3, <1>5, <1>11, <1>13, <2>1, <3>1, <3>3, <4>1, <4>2, <4>3
    <3> QED
      BY <3>2, <3>3
  <2> QED
    BY <2>2, <2>3
<1>18. ASSUME NEW q \in Listed'
       PROVE  (IF cptr[parent[q]] = q THEN parent[q] # exiting => yptr[q] = NULL
               ELSE /\ yptr[q] \in Listed /\ parent[yptr[q]] = parent[q]
                    /\ f[yptr[q]] = f[q] + 1)'
  <2>1. q \in Listed \ {z} /\ q \in Proc /\ parent'[q] = parent[q] /\ parent[q] \in Proc
    BY <1>3, <1>5, <1>11
  <2>2. CASE q = o
    <3>1. /\ yptr'[q] = y /\ parent[q] = p /\ d[z] = d[q] + 1 /\ d[q] \in Nat /\ d[z] \in Nat
      BY <1>2, <1>5, <1>9, <1>11, <2>1, <2>2
    <3>2. CASE y = NULL
      BY <1>11, <2>1, <2>2, <3>1, <3>2
    <3>3. CASE y # NULL
      <4>1. cptr'[p] # q
        <5>1. cptr'[p] = cptr[p] /\ d[z] <= d[cptr[p]]
          BY <1>2, <1>6, <1>11, <3>3 DEF p
        <5> QED
          BY <3>1, <5>1
      <4>2. y \in Listed \ {z} /\ parent'[y] = p /\ y \in Proc /\ d[y] = d[z] + 1 /\ parent[y] = p
        BY <1>5, <1>9, <1>11, <3>3
      <4>3. e[y] = d[y] - 1 /\ e[q] = d[q]
        <5>1. d[q] < d[z] /\ d[z] < d[y]
          BY <3>1, <4>2
        <5> QED
          BY <1>12, <2>1, <3>1, <4>2, <5>1
      <4>4. e[y] = e[q] + 1
        BY <3>1, <4>2, <4>3
      <4> QED
        BY <1>3, <1>13, <2>1, <3>1, <4>1, <4>2, <4>4
    <3> QED
      BY <3>2, <3>3
  <2>3. CASE q # o
    <3>1. yptr'[q] = yptr[q]
      BY <1>11, <2>1, <2>3
    <3>2. CASE cptr[parent[q]] = q
      <4>1. cptr'[parent[q]] = q
        BY <1>9, <1>11, <2>1, <3>2
      <4> QED
        BY <1>6, <2>1, <3>1, <3>2, <4>1
    <3>3. CASE cptr[parent[q]] # q
      <4>1. /\ yptr[q] \in Listed /\ parent[yptr[q]] = parent[q]
            /\ d[yptr[q]] = d[q] + 1
        BY <1>6, <2>1, <3>3
      <4>2. yptr[q] # z
        <5>1. SUFFICES ASSUME yptr[q] = z PROVE FALSE
          OBVIOUS
        <5>2. d[z] = d[q] + 1 /\ d[q] \in Nat /\ parent[q] = p
          BY <1>5, <2>1, <4>1, <5>1 DEF p
        <5>3. o # NULL
          BY <1>9, <5>2
        <5>4. o \in Listed /\ parent[o] = p /\ d[o] = d[q]
          BY <1>5, <1>9, <5>2, <5>3
        <5> QED
          BY <1>8, <2>1, <2>3, <5>2, <5>4
      <4>3. cptr'[parent[q]] # q
        BY <1>11, <2>1, <2>3, <3>3
      <4>4. e[yptr[q]] = e[q] + 1
        BY <1>14, <2>1, <4>1, <4>2
      <4> QED
        BY <1>3, <1>5, <1>11, <1>13, <2>1, <3>1, <4>1, <4>2, <4>3, <4>4
    <3> QED
      BY <3>2, <3>3
  <2> QED
    BY <2>2, <2>3
<1>19. ASSUME NEW b \in Listed', NEW q \in Listed', parent'[b] = parent'[q], f[b] = f[q]
       PROVE  b = q
  <2>1. /\ b \in Listed \ {z} /\ q \in Listed \ {z} /\ parent[b] = parent[q]
        /\ d[b] \in Nat /\ d[q] \in Nat
    BY <1>3, <1>5, <1>11, <1>19
  <2>2. e[b] = e[q] /\ e[b] \in Nat
    BY <1>5, <1>13, <1>19, <2>1
  <2>3. ~ (d[b] < d[q]) /\ ~ (d[q] < d[b])
    <3>1. ~ (e[b] < e[q]) /\ ~ (e[q] < e[b])
      BY <2>2
    <3> QED
      BY <1>15, <2>1, <3>1
  <2>4. d[b] = d[q]
    BY <2>1, <2>3
  <2> QED
    BY <1>8, <2>1, <2>4
<1>20. ASSUME NEW q \in Listed' \cup {idleproc}, cptr'[q] # NULL
       PROVE  (cptr[q] \in Listed /\ parent[cptr[q]] = q)'
  <2>1. q \in Listed \cup {idleproc} /\ q \in Proc
    BY <1>2, <1>3
  <2>2. CASE q = p /\ y = NULL
    <3>1. cptr'[q] = o /\ o # NULL /\ o \in Listed /\ o # z /\ parent[o] = q /\ o \in Proc
      BY <1>5, <1>9, <1>11, <1>20, <2>2
    <3> QED
      BY <1>3, <1>11, <3>1
  <2>3. CASE ~ (q = p /\ y = NULL)
    <3>1. cptr'[q] = cptr[q] /\ cptr[q] \in Listed /\ parent[cptr[q]] = q
      BY <1>7, <1>11, <1>20, <2>1, <2>3
    <3>2. cptr[q] # z
      BY <1>9, <2>3, <3>1 DEF p
    <3> QED
      BY <1>3, <1>5, <1>11, <3>1, <3>2
  <2> QED
    BY <2>2, <2>3
<1>21. ASSUME NEW q \in Listed'
       PROVE  (cptr[parent[q]] # NULL /\ f[q] <= f[cptr[parent[q]]])'
  <2>1. /\ q \in Listed \ {z} /\ q \in Proc /\ parent'[q] = parent[q] /\ parent[q] \in Proc
        /\ d[q] \in Nat /\ e[q] \in Nat
    BY <1>3, <1>5, <1>11, <1>12
  <2>2. cptr[parent[q]] # NULL /\ d[q] <= d[cptr[parent[q]]]
    BY <1>6, <2>1
  <2>3. CASE parent[q] = p /\ y = NULL
    <3>1. d[q] < d[z] /\ cptr'[parent[q]] = o /\ d[z] \in Nat
      <4>1. d[q] <= d[z] /\ d[z] \in Nat
        BY <1>2, <1>5, <1>9, <2>2, <2>3
      <4>2. ~ (d[z] < d[q])
        BY <2>1, <4>1
      <4>3. d[q] < d[z]
        BY <1>12, <2>1, <2>3, <4>2
      <4> QED
        BY <1>11, <2>3, <4>1, <4>3
    <3>2. o # NULL
      BY <1>9, <2>1, <3>1
    <3>3. o \in Listed \ {z} /\ parent[o] = p /\ d[z] = d[o] + 1 /\ d[o] \in Nat
      BY <1>5, <1>9, <3>2
    <3>4. e[q] = d[q] /\ e[o] = d[o]
      <4>1. d[o] < d[z]
        BY <3>3
      <4> QED
        BY <1>12, <2>1, <2>3, <3>1, <3>3, <4>1
    <3>5. e[q] <= e[o]
      BY <2>1, <3>1, <3>3, <3>4
    <3> QED
      BY <1>13, <2>1, <3>1, <3>2, <3>5
  <2>4. CASE ~ (parent[q] = p /\ y = NULL)
    <3> DEFINE r == cptr[parent[q]]
    <3>1. r \in Listed /\ parent[r] = parent[q] /\ cptr'[parent[q]] = r
      BY <1>5, <1>7, <1>11, <2>1, <2>2, <2>4
    <3>2. r # z
      BY <1>9, <2>4, <3>1 DEF p
    <3>3. d[q] <= d[r] /\ d[r] \in Nat /\ e[r] \in Nat /\ r # NULL
      BY <1>5, <1>12, <2>2, <3>1
    <3> HIDE DEF r
    <3>4. e[q] <= e[r]
      <4>1. CASE d[q] < d[r]
        <5>1. e[q] < e[r]
          BY <1>15, <2>1, <3>1, <3>2, <4>1
        <5> QED
          BY <2>1, <3>3, <5>1
      <4>2. CASE ~ (d[q] < d[r])
        <5>1. d[q] = d[r]
          BY <2>1, <3>3, <4>2
        <5>2. q = r
          BY <1>8, <2>1, <3>1, <5>1
        <5> QED
          BY <3>3, <5>2
      <4> QED
        BY <4>1, <4>2
    <3> QED
      BY <1>13, <2>1, <3>1, <3>3, <3>4
  <2> QED
    BY <2>3, <2>4
<1>22. Ordered(f)'
  BY <1>17, <1>18, <1>19, <1>20, <1>21 DEF Ordered
<1> QED
  BY <1>16, <1>22 DEF Kin

\* get_pid's loop has nothing to do with the links.
LEMMA KinSame ==
    ASSUME IInv, Kin, Scan \/ UNCHANGED vars
    PROVE  Kin'
<1>1. UNCHANGED <<links, proc_list, state, new, exiting>> /\ Listed' = Listed
  BY DEF Scan, vars, pids, Listed
<1>2. PICK d \in [Proc -> Nat] : Ordered(d)
  BY DEF Kin
<1>3. Family'
  BY <1>1 DEF Kin, Family, links
<1>4. Ordered(d)'
  BY <1>1, <1>2, OrderedKept DEF Kin, links
<1> QED
  BY <1>3, <1>4 DEF Kin

\* Every step keeps both invariants.
LEMMA NextKin == IInv /\ Kin /\ [Next]_vars => IInv' /\ Kin'
<1> SUFFICES ASSUME IInv, Kin, [Next]_vars PROVE IInv' /\ Kin'
  OBVIOUS
<1>1. IInv'
  BY NextIInv
<1>2. ASSUME NEW p \in Proc, NEW c \in Proc, Fork(p, c)
      PROVE  Kin'
  BY <1>2, KinFork
<1>3. CASE Scan \/ UNCHANGED vars
  BY <1>1, <1>3, KinSame
<1>4. CASE ForkDone
  BY <1>1, <1>4, KinForkDone
<1>5. ASSUME NEW p \in Proc, Exit(p)
      PROVE  Kin'
  BY <1>5, KinExit
<1>6. CASE ExitDone
  BY <1>1, <1>6, KinExit, ProcTableAssumption
<1>7. CASE Reparent
  BY <1>1, <1>7, KinReparent
<1>8. ASSUME NEW p \in Proc, NEW z \in Proc, Reap(p, z)
      PROVE  Kin'
  BY <1>1, <1>8, KinReap
<1> QED
  BY <1>1, <1>2, <1>3, <1>4, <1>5, <1>6, <1>7, <1>8 DEF Next

\* The numbers explain what the neighbours say of each other.
LEMMA OrderedAgrees ==
    ASSUME IInv, Family, NEW d \in [Proc -> Nat], Ordered(d)
    PROVE  LinksAgree
<1>1. NULL \notin Proc /\ Listed \subseteq Proc
  BY TableFacts
<1>2. \A q \in Listed : q \in Proc /\ d[q] \in Nat /\ q # NULL
  BY <1>1
<1> SUFFICES ASSUME NEW c \in Listed, parent[c] # exiting
             PROVE  /\ optr[c] # NULL => yptr[optr[c]] = c /\ parent[optr[c]] = parent[c]
                    /\ yptr[c] # NULL => optr[yptr[c]] = c /\ parent[yptr[c]] = parent[c]
                    /\ yptr[c] = NULL <=> cptr[parent[c]] = c
  BY DEF LinksAgree
<1>3. ASSUME optr[c] # NULL
      PROVE  yptr[optr[c]] = c /\ parent[optr[c]] = parent[c]
  <2> DEFINE o == optr[c]
  <2>1. /\ o \in Listed /\ parent[o] = parent[c] /\ d[c] = d[o] + 1
        /\ d[c] <= d[cptr[parent[o]]]
    BY <1>3 DEF Ordered
  <2>2. cptr[parent[o]] # o
    BY <1>2, <2>1
  <2>3. yptr[o] \in Listed /\ parent[yptr[o]] = parent[c] /\ d[yptr[o]] = d[c]
    BY <2>1, <2>2 DEF Ordered
  <2> QED
    BY <2>1, <2>3 DEF Ordered
<1>4. ASSUME yptr[c] # NULL
      PROVE  optr[yptr[c]] = c /\ parent[yptr[c]] = parent[c]
  <2> DEFINE y == yptr[c]
  <2>1. y \in Listed /\ parent[y] = parent[c] /\ d[y] = d[c] + 1
    BY <1>4 DEF Ordered
  <2>2. optr[y] \in Listed /\ parent[optr[y]] = parent[y] /\ d[y] = d[optr[y]] + 1
    BY <1>2, <2>1 DEF Ordered
  <2>3. d[optr[y]] = d[c]
    BY <1>2, <2>1, <2>2
  <2> QED
    BY <2>1, <2>2, <2>3 DEF Ordered
<1>5. yptr[c] = NULL <=> cptr[parent[c]] = c
  BY <1>2 DEF Ordered
<1> QED
  BY <1>3, <1>4, <1>5

----------------------------------------------------------------------------
(* The theorems *)

\* The table's variables keep their types; in particular the number of
\* processes keeps to do_fork's limit and every pid is below MAX_PID.
THEOREM TableTypeCorrect == Spec => []TypeOK
<1>1. IInv => TypeOK
  BY DEF IInv
<1> QED
  BY <1>1, InitIInv, NextIInv, PTL DEF Spec

\* get_pid: no two processes of the table ever have the same pid.
THEOREM PidsAlwaysUnique == Spec => []PidsUnique
<1>1. IInv => PidsUnique
  BY DEF IInv
<1> QED
  BY <1>1, InitIInv, NextIInv, PTL DEF Spec

\* do_wait's walk meets every child once and ends, and a child's neighbours
\* agree with it, in every state of the loops of do_fork, do_exit and do_wait.
THEOREM ChildrenAlwaysExact == Spec => []ChildrenExact
<1>1. ASSUME IInv, Kin PROVE ChildrenExact
  <2>1. PICK d \in [Proc -> Nat] : Ordered(d)
    BY <1>1 DEF Kin
  <2>2. LinksAgree
    BY <1>1, <2>1, OrderedAgrees DEF Kin
  <2>3. WalkExact
    BY <1>1, <2>1, WalkNumbered DEF IInv, WalkExact
  <2> QED
    BY <2>2, <2>3 DEF ChildrenExact
<1>2. IInv /\ Kin => ChildrenExact
  BY <1>1
<1>3. Init => IInv /\ Kin
  BY InitIInv, KinInit
<1> QED
  BY <1>2, <1>3, NextKin, PTL DEF Spec
=============================================================================
