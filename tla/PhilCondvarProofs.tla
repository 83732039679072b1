------------------------- MODULE PhilCondvarProofs -------------------------
(***************************************************************************)
(* Proofs about PhilCondvar, for every number of philosophers and of       *)
(* rounds: the monitor is held once through every hand-over, who waited    *)
(* in it finds what it waited for, no assertion fails, and the monitor     *)
(* implements Table.                                                       *)
(***************************************************************************)
EXTENDS PhilCondvar, SemaphoreProofs, FiniteSetTheorems

----------------------------------------------------------------------------
(* The inductive invariant *)

\* Behind the down(&mtp->next) of cond_signal, and all that have not got back
\* from it.
Backs == {"test.back", "left.back", "right.back"}
Signallers == {"test.next", "left.next", "right.next"} \cup Backs

\* The statements of the monitor, after the downs that lead to them.
Inside == {"hungry", "test", "check", "waited", "unlock", "full", "left",
           "right", "leave"} \cup Backs

\* Where a philosopher can be: nobody is signalled before it waits, so the
\* cond_signal of a philosopher's test of itself does nothing.
Reached == {"think", "take", "wait", "eat", "put", "left.next", "right.next"}
           \cup (Inside \ {"test.back"})

\* The semaphore the down before statement l is for.
Door(i, l) == IF l = "waited" THEN cv(i) ELSE IF l \in Backs THEN next ELSE mutex

\* i has the monitor, be it that it has just been given to i.
Holds(i) == pc[i] \in Inside /\ ~ Waits(i)

\* One philosopher has the monitor, or one semaphore has it for the next.
Token ==
    /\ \A x \in Sem : value[x] \in {0, 1}
    /\ \A i, j \in Phil : Holds(i) /\ Holds(j) => i = j
    /\ \A x, y \in Sem : value[x] = 1 /\ value[y] = 1 => x = y
    /\ \A i \in Phil, x \in Sem : Holds(i) => value[x] = 0
    /\ (\E i \in Phil : Holds(i)) \/ (\E x \in Sem : value[x] = 1)

\* Who waits has called a down of the monitor, and is in that queue.
Located ==
    \A i \in Phil :
        /\ Waits(i) => pc[i] \in {"hungry", "full", "waited"} \cup Backs
        /\ \A x \in Sem : i \in ToSet(sem_queue[x]) => x = Door(i, pc[i])

\* What state_condvar[i] is at each statement of i.  Only whoever waits in the
\* monitor is made to eat by another one.
Phase(i) ==
    /\ pc[i] \in {"think", "take", "hungry", "left", "left.next", "left.back",
                  "right", "right.next", "right.back", "leave"}
          => state_condvar[i] = "THINKING"
    /\ pc[i] = "test" => state_condvar[i] = "HUNGRY"
    /\ pc[i] = "check" => state_condvar[i] \in {"HUNGRY", "EATING"}
    /\ pc[i] = "wait" =>
          state_condvar[i] = IF value[cv(i)] = 1 THEN "EATING" ELSE "HUNGRY"
    /\ pc[i] = "waited" => state_condvar[i] = IF Waits(i) THEN "HUNGRY" ELSE "EATING"
    /\ pc[i] \in {"unlock", "eat", "put", "full"} => state_condvar[i] = "EATING"
    /\ pc[i] # "wait" => value[cv(i)] = 0

Phases ==
    /\ pc \in [Phil -> Reached]
    /\ state_condvar \in [Phil -> {"THINKING", "HUNGRY", "EATING"}]
    /\ \A i \in Phil : Phase(i)

\* A condition counts who is in cond_wait, next_count who is in cond_signal.
CountOf(l) == IF l \in {"wait", "waited"} THEN 1 ELSE 0
Counts == count = [i \in Phil |-> CountOf(pc[i])]
NextCount == next_count = Cardinality({i \in Phil : pc[i] \in Signallers})

CondInv == Threads(Sem) /\ Phases /\ Token /\ Located /\ Counts /\ NextCount

----------------------------------------------------------------------------
(* Semaphores, labels, neighbours *)

LEMMA Semaphores ==
    /\ mutex \in Sem /\ next \in Sem /\ mutex # next
    /\ \A i \in Phil : cv(i) \in Sem /\ cv(i) # mutex /\ cv(i) # next
    /\ \A i, j \in Phil : cv(i) = cv(j) => i = j
    /\ \A i \in Phil : \A l : Door(i, l) \in Sem
    /\ \A x \in Sem : x = mutex \/ x = next \/ \E i \in Phil : x = cv(i)
  BY DEF mutex, next, cv, Sem, Door

\* Signal, spelled out.
LEMMA Signals ==
    /\ DOMAIN Signal = {"test", "left", "right"}
    /\ /\ Signal["test"].blocked = "test.next" /\ Signal["test"].back = "test.back"
       /\ Signal["test"].then = "check"
    /\ /\ Signal["left"].blocked = "left.next" /\ Signal["left"].back = "left.back"
       /\ Signal["left"].then = "right"
    /\ /\ Signal["right"].blocked = "right.next" /\ Signal["right"].back = "right.back"
       /\ Signal["right"].then = "leave"
  BY DEF Signal

LEMMA Labels ==
    /\ Label = Reached \cup {"test.next", "test.back"}
    /\ {Signal[l].blocked : l \in DOMAIN Signal} = {"test.next", "left.next", "right.next"}
    /\ {Signal[l].back : l \in DOMAIN Signal} = Backs
<1>1. {Signal[l].blocked : l \in DOMAIN Signal} = {"test.next", "left.next", "right.next"}
  BY Signals
<1>2. {Signal[l].back : l \in DOMAIN Signal} = Backs
  BY Signals DEF Backs
<1>3. Label = Reached \cup {"test.next", "test.back"}
  BY <1>1, <1>2, Signals DEF Label, Reached, Inside, Backs
<1> QED
  BY <1>1, <1>2, <1>3

\* Active is Holds.
LEMMA ActiveHolds == \A i \in Phil : Active(i) <=> Holds(i)
<1>1. Label \ {"think", "take", "eat", "put", "wait"}
        = Inside \cup {"test.next", "left.next", "right.next"}
  BY Labels DEF Reached, Inside, Backs
<1>2. Inside \cap {"test.next", "left.next", "right.next"} = {}
  BY DEF Inside, Backs
<1>3. \A i \in Phil : (Blocked(i) => HandedOver(i)) <=> ~ Waits(i)
  BY DEF Blocked, HandedOver, Waits, InDown, Asleep
<1> QED
  BY <1>1, <1>2, <1>3, Labels DEF Active, Holds

LEMMA Types ==
    ASSUME CondInv
    PROVE  /\ value \in [Sem -> Nat] /\ sem_queue \in [Sem -> Seq(Phil)]
           /\ pc \in [Phil -> Reached]
           /\ state_condvar \in [Phil -> {"THINKING", "HUNGRY", "EATING"}]
  BY DEF CondInv, Threads, ThreadTypes, Phases

\* Who executes a statement waits for nothing; if the statement is one of the
\* monitor, everything else is outside.
LEMMA AtPlace ==
    ASSUME CondInv, NEW i \in Phil, NEW k, At(i, k)
    PROVE  /\ pc[i] = k /\ ~ Waits(i) /\ k \in Reached
           /\ \A x \in Sem : i \notin ToSet(sem_queue[x])
           /\ k \in Inside => /\ Holds(i) /\ \A x \in Sem : value[x] = 0
                             /\ \A j \in Phil : Holds(j) => j = i
<1>1. /\ pc[i] = k /\ ~ Waits(i)
      /\ \A x \in Sem : i \notin ToSet(sem_queue[x])
  BY AtStatement DEF CondInv
<1> QED
  BY <1>1, Types DEF CondInv, Holds, Token

----------------------------------------------------------------------------
(* The monitor passes from hand to hand *)

\* A statement that neither enters the monitor nor leaves it.
LEMMA MoveKeeps ==
    ASSUME CondInv, NEW i \in Phil, NEW k, NEW l, At(i, k),
           k \in Inside <=> l \in Inside,
           UNCHANGED <<value, sem_queue>>,
           \A j \in Phil : Waits(j)' <=> Waits(j),
           pc' = [pc EXCEPT ![i] = l] \/ UNCHANGED pc
    PROVE  Token' /\ Located'
<1>1. /\ pc[i] = k /\ ~ Waits(i) /\ pc \in [Phil -> Reached]
      /\ \A x \in Sem : i \notin ToSet(sem_queue[x])
  BY AtPlace, Types
<1>2. /\ pc'[i] = l \/ pc'[i] = k
      /\ \A j \in Phil \ {i} : pc'[j] = pc[j]
  BY <1>1
<1>3. \A j \in Phil : Holds(j)' <=> Holds(j)
  BY <1>1, <1>2 DEF Holds
<1>4. Token'
  BY <1>3 DEF CondInv, Token
<1>5. Located'
  BY <1>1, <1>2 DEF CondInv, Located
<1> QED
  BY <1>4, <1>5

\* down takes the monitor from the semaphore, or waits for it.
LEMMA DownKeeps ==
    ASSUME CondInv, NEW i \in Phil, NEW k, NEW l, At(i, k), Down(i, Door(i, l), l),
           k \notin Inside, l \in {"hungry", "full", "waited"} \cup Backs
    PROVE  /\ Threads(Sem)' /\ Token' /\ Located' /\ pc' = [pc EXCEPT ![i] = l]
           /\ Taken(Door(i, l)) \/ Enqueued(i, Door(i, l))
<1> DEFINE x == Door(i, l)
<1>1. /\ pc \in [Phil -> Reached] /\ pc[i] = k /\ ~ Waits(i)
      /\ value \in [Sem -> Nat] /\ sem_queue \in [Sem -> Seq(Phil)]
      /\ x \in Sem /\ l \in Inside /\ x = Door(i, l)
      /\ \A y \in Sem : i \notin ToSet(sem_queue[y])
  BY Types, AtPlace, Semaphores DEF Inside
<1>2. /\ Threads(Sem)' /\ pc' = [pc EXCEPT ![i] = l]
      /\ Taken(x) \/ Enqueued(i, x)
  BY <1>1, DownStep DEF CondInv
<1> HIDE DEF x
<1>3. /\ pc'[i] = l
      /\ \A j \in Phil \ {i} : pc'[j] = pc[j]
  BY <1>1, <1>2
<1>4. ~ Holds(i) /\ value[x] \in {0, 1}
  BY <1>1 DEF Holds, CondInv, Token
<1>5. CASE Taken(x)
  <2>1. /\ value[x] = 1 /\ value'[x] = 0 /\ UNCHANGED sem_queue
        /\ \A y \in Sem \ {x} : value'[y] = value[y]
        /\ \A j \in Phil : Waits(j)' <=> Waits(j)
    BY <1>1, <1>4, <1>5 DEF Taken
  <2>2. /\ \A j \in Phil : ~ Holds(j)
        /\ \A y \in Sem : value'[y] = 0
    BY <1>1, <2>1 DEF CondInv, Token
  <2>3. \A j \in Phil : Holds(j)' <=> j = i
    BY <1>1, <1>3, <2>1, <2>2 DEF Holds
  <2>4. Token'
    BY <2>2, <2>3 DEF Token
  <2>5. Located'
    <3>1. Located
      BY DEF CondInv
    <3> QED
      BY <1>1, <1>3, <2>1, <3>1 DEF Located
  <2> QED
    BY <1>1, <1>2, <2>4, <2>5
<1>6. CASE Enqueued(i, x)
  <2>1. /\ UNCHANGED value
        /\ sem_queue' = [sem_queue EXCEPT ![x] = Append(@, i)]
        /\ \A j \in Phil : Waits(j)' <=> Waits(j) \/ j = i
    BY <1>6 DEF Enqueued
  <2>2. \A j \in Phil : Holds(j)' <=> Holds(j)
    BY <1>3, <1>4, <2>1 DEF Holds
  <2>3. Token'
    BY <2>1, <2>2 DEF CondInv, Token
  <2>4. \A y \in Sem, j \in Phil : j \in ToSet(sem_queue'[y]) =>
            j \in ToSet(sem_queue[y]) \/ (j = i /\ y = x)
    <3>1. ToSet(Append(sem_queue[x], i)) = ToSet(sem_queue[x]) \cup {i}
      BY <1>1, AppendSet
    <3> QED
      BY <1>1, <2>1, <3>1
  <2>5. ASSUME NEW j \in Phil
        PROVE  /\ Waits(j)' => pc'[j] \in {"hungry", "full", "waited"} \cup Backs
               /\ \A y \in Sem : j \in ToSet(sem_queue'[y]) => y = Door(j, pc'[j])
    <3>1. CASE j = i
      BY <1>1, <1>3, <2>4, <3>1
    <3>2. CASE j # i
      <4>1. pc'[j] = pc[j] /\ (Waits(j)' => Waits(j))
        BY <1>3, <2>1, <3>2
      <4> QED
        BY <2>4, <3>2, <4>1 DEF CondInv, Located
    <3> QED
      BY <3>1, <3>2
  <2>6. Located'
    BY <2>5 DEF Located
  <2> QED
    BY <1>1, <1>2, <2>3, <2>6
<1> QED
  BY <1>1, <1>2, <1>5, <1>6

\* up gives the monitor to the first who waits for it, or leaves it to the
\* semaphore.
LEMMA UpKeeps ==
    ASSUME CondInv, NEW i \in Phil, NEW x \in Sem, NEW k, NEW l, At(i, k), Up(i, x, l),
           k \in Inside, l \notin Inside
    PROVE  /\ Threads(Sem)' /\ Token' /\ Located' /\ pc' = [pc EXCEPT ![i] = l]
           /\ \/ Counted(x)
              \/ \E w \in Phil \ {i} : HandedTo(w, x) /\ x = Door(w, pc[w])
<1>1. /\ pc \in [Phil -> Reached] /\ pc[i] = k /\ ~ Waits(i)
      /\ value \in [Sem -> Nat] /\ sem_queue \in [Sem -> Seq(Phil)]
      /\ \A y \in Sem : i \notin ToSet(sem_queue[y])
      /\ \A y \in Sem : value[y] = 0
      /\ Holds(i) /\ \A j \in Phil : Holds(j) => j = i
  BY Types, AtPlace
<1>2. /\ Threads(Sem)' /\ pc' = [pc EXCEPT ![i] = l]
      /\ Counted(x) \/ \E w \in Phil \ {i} : HandedTo(w, x)
  BY UpStep DEF CondInv
<1>3. /\ pc'[i] = l
      /\ \A j \in Phil \ {i} : pc'[j] = pc[j]
  BY <1>1, <1>2
<1>4. CASE Counted(x)
  <2>1. /\ value'[x] = 1 /\ UNCHANGED sem_queue
        /\ \A y \in Sem \ {x} : value'[y] = 0
        /\ \A j \in Phil : Waits(j)' <=> Waits(j)
    BY <1>1, <1>4 DEF Counted
  <2>2. \A j \in Phil : ~ Holds(j)'
    BY <1>1, <1>3, <2>1 DEF Holds
  <2>3. Token'
    BY <2>1, <2>2 DEF Token
  <2>4. Located'
    BY <1>1, <1>3, <2>1 DEF CondInv, Located
  <2> QED
    BY <1>2, <1>4, <2>3, <2>4
<1>5. ASSUME NEW w \in Phil \ {i}, HandedTo(w, x)
      PROVE  Token' /\ Located' /\ x = Door(w, pc[w])
  <2>1. /\ UNCHANGED value /\ Waits(w) /\ w \in ToSet(sem_queue[x])
        /\ sem_queue[x] # << >>
        /\ sem_queue' = [sem_queue EXCEPT ![x] = Tail(@)]
        /\ \A j \in Phil : Waits(j)' <=> Waits(j) /\ j # w
    BY <1>5 DEF HandedTo
  <2>2. x = Door(w, pc[w]) /\ pc[w] \in Inside
    BY <2>1 DEF CondInv, Located, Inside
  <2>3. \A j \in Phil : Holds(j)' <=> j = w
    BY <1>1, <1>3, <2>1, <2>2 DEF Holds
  <2>4. Token'
    BY <1>1, <2>1, <2>3 DEF Token
  <2>5. \A y \in Sem, j \in Phil :
            j \in ToSet(sem_queue'[y]) => j \in ToSet(sem_queue[y])
    <3>1. Threads(Sem)
      BY DEF CondInv
    <3>2. \A y \in Sem, j \in Phil :
              j \in ToSet(sem_queue'[y]) <=>
                 j \in ToSet(sem_queue[y]) /\ j # Head(sem_queue[x])
      BY ONLY <2>1, <3>1, FirstWaiter, x \in Sem
    <3> QED
      BY ONLY <3>2
  <2>6. Located'
    BY <1>1, <1>3, <2>1, <2>5 DEF CondInv, Located
  <2> QED
    BY <2>2, <2>4, <2>6
<1> QED
  BY <1>2, <1>4, <1>5

----------------------------------------------------------------------------
(* What the statements do to conditions and phases *)

\* Whoever is not touched stays in its phase.
PhaseSame(h) ==
    /\ pc'[h] = pc[h] /\ state_condvar'[h] = state_condvar[h]
    /\ value'[cv(h)] = value[cv(h)]
    /\ pc[h] = "waited" /\ Waits(h)' => Waits(h)
    /\ pc[h] = "waited" /\ Waits(h) => Waits(h)'

LEMMA PhasesKept ==
    ASSUME CondInv, NEW i \in Phil, NEW j \in Phil,
           pc' \in [Phil -> Reached],
           state_condvar' \in [Phil -> {"THINKING", "HUNGRY", "EATING"}],
           \A h \in Phil : h # i /\ h # j => PhaseSame(h),
           Phase(i)' /\ Phase(j)'
    PROVE  Phases'
<1>1. ASSUME NEW h \in Phil, PhaseSame(h)
      PROVE  Phase(h)'
  <2>1. Phase(h)
    BY DEF CondInv, Phases
  <2> QED
    BY <1>1, <2>1 DEF Phase, PhaseSame
<1> QED
  BY <1>1 DEF Phases

LEMMA PhasesSame ==
    ASSUME CondInv, UNCHANGED <<pc, state_condvar, value>>,
           \A j \in Phil : Waits(j)' <=> Waits(j)
    PROVE  Phases'
  BY DEF CondInv, Phases, Phase

LEMMA CountsKept ==
    ASSUME CondInv, NEW i \in Phil, NEW l, pc' = [pc EXCEPT ![i] = l],
           count' = [count EXCEPT ![i] = CountOf(l)]
    PROVE  Counts'
  BY Types DEF CondInv, Counts

\* A statement of i neither begins nor ends a cond_signal.
LEMMA CountsSame ==
    ASSUME CondInv, NEW i \in Phil, NEW l, pc' = [pc EXCEPT ![i] = l],
           CountOf(l) = CountOf(pc[i]), UNCHANGED count
    PROVE  Counts'
  BY Types DEF CondInv, Counts

LEMMA PhilFinite == IsFiniteSet(Phil)
  BY SemaphoreAssumption, FS_Interval DEF Phil

\* next_count follows those who begin to wait in cond_signal, or are back.
LEMMA NextCountKept ==
    ASSUME CondInv, NEW i \in Phil, NEW l, pc' = [pc EXCEPT ![i] = l],
           \/ /\ pc[i] \in Signallers <=> l \in Signallers
              /\ UNCHANGED next_count
           \/ /\ pc[i] \notin Signallers /\ l \in Signallers
              /\ next_count' = next_count + 1
           \/ /\ pc[i] \in Signallers /\ l \notin Signallers
              /\ next_count' = next_count - 1
    PROVE  NextCount'
<1> DEFINE A == {j \in Phil : pc[j] \in Signallers}
           B == {j \in Phil : pc'[j] \in Signallers}
<1>1. /\ pc'[i] = l
      /\ \A j \in Phil \ {i} : pc'[j] = pc[j]
  BY Types
<1>2. IsFiniteSet(A) /\ Cardinality(A) \in Nat /\ next_count = Cardinality(A)
  BY PhilFinite, FS_Subset, FS_CardinalityType DEF CondInv, NextCount
<1>3. CASE pc[i] \in Signallers <=> l \in Signallers
  <2>1. A = B
    BY <1>1, <1>3
  <2> QED
    BY <1>2, <1>3, <2>1 DEF NextCount
<1>4. CASE pc[i] \notin Signallers /\ l \in Signallers
  <2>1. B = A \cup {i} /\ i \notin A
    BY <1>1, <1>4
  <2>2. Cardinality(B) = Cardinality(A) + 1
    BY <1>2, <2>1, FS_AddElement
  <2> QED
    BY <1>2, <1>4, <2>2 DEF NextCount
<1>5. CASE pc[i] \in Signallers /\ l \notin Signallers
  <2>1. B = A \ {i} /\ i \in A
    BY <1>1, <1>5
  <2>2. Cardinality(B) = Cardinality(A) - 1
    BY <1>2, <2>1, FS_RemoveElement
  <2> QED
    BY <1>2, <1>5, <2>2 DEF NextCount
<1> QED
  BY <1>3, <1>4, <1>5

----------------------------------------------------------------------------
(* The invariant is kept *)

\* Steps of the kernel, and of threads in it.
LEMMA KernelKeeps ==
    ASSUME CondInv, UNCHANGED monVars,
           \/ \E p \in Proc : Thread(p)
           \/ IrqTimer \/ Irq
           \/ UNCHANGED vars
    PROVE  CondInv'
<1>1. /\ Threads(Sem)' /\ UNCHANGED <<value, sem_queue, pc>>
      /\ \A j \in Phil : Waits(j)' <=> Waits(j)
  BY KernelStep DEF CondInv
<1>2. UNCHANGED <<state_condvar, next_count, count>>
  BY DEF monVars
<1>3. Token' /\ Located'
  BY <1>1 DEF CondInv, Token, Holds, Located
<1>4. Phases'
  BY <1>1, <1>2, PhasesSame
<1>5. Counts' /\ NextCount'
  BY <1>1, <1>2 DEF CondInv, Counts, NextCount
<1> QED
  BY <1>1, <1>3, <1>4, <1>5 DEF CondInv

\* The sleeps, and the end.
LEMMA SleepKeeps ==
    ASSUME CondInv, Threads(Sem)', NEW i \in Phil, NEW k, NEW l, At(i, k),
           \/ k = "think" /\ l = "take"
           \/ k = "eat" /\ l = "put",
           pc' = [pc EXCEPT ![i] = l] \/ UNCHANGED pc,
           UNCHANGED <<value, sem_queue, monVars>>,
           \A j \in Phil : Waits(j)' <=> Waits(j)
    PROVE  CondInv'
<1>1. /\ pc[i] = k /\ pc \in [Phil -> Reached]
      /\ k \notin Inside /\ l \notin Inside /\ l \in Reached
      /\ k \notin Signallers /\ l \notin Signallers
      /\ CountOf(l) = CountOf(k)
  BY AtPlace, Types DEF Inside, Backs, Signallers, Reached, CountOf
<1>2. UNCHANGED <<state_condvar, next_count, count>>
  BY DEF monVars
<1>3. CASE UNCHANGED pc
  <2>1. Token' /\ Located'
    BY <1>3 DEF CondInv, Token, Holds, Located
  <2>2. Phases'
    BY <1>2, <1>3, PhasesSame
  <2>3. Counts' /\ NextCount'
    BY <1>2, <1>3 DEF CondInv, Counts, NextCount
  <2> QED
    BY <2>1, <2>2, <2>3 DEF CondInv
<1>4. CASE pc' = [pc EXCEPT ![i] = l]
  <2>1. Token' /\ Located'
    BY <1>1, <1>4, MoveKeeps
  <2>2. Phase(i)'
    <3>1. Phase(i) /\ pc'[i] = l
      BY <1>1, <1>4 DEF CondInv, Phases
    <3> QED
      BY <1>1, <1>2, <3>1 DEF Phase
  <2>3. /\ pc' \in [Phil -> Reached]
        /\ \A h \in Phil \ {i} : pc'[h] = pc[h]
    BY <1>1, <1>4
  <2>4. Phases'
    <3>1. \A h \in Phil : h # i => PhaseSame(h)
      BY <1>2, <2>3 DEF PhaseSame
    <3> QED
      BY <1>2, <2>2, <2>3, <3>1, Types, PhasesKept
  <2>5. Counts' /\ NextCount'
    BY <1>1, <1>2, <1>4, CountsSame, NextCountKept
  <2> QED
    BY <2>1, <2>4, <2>5 DEF CondInv
<1> QED
  BY <1>3, <1>4

\* The downs: of the mutex, of next in cond_signal, of the condition in cond_wait.
LEMMA DownsKeep ==
    ASSUME CondInv, NEW i \in Phil, NEW k, NEW l, At(i, k), Down(i, Door(i, l), l),
           UNCHANGED monVars,
           \/ k = "take" /\ l = "hungry"
           \/ k = "put" /\ l = "full"
           \/ k = "wait" /\ l = "waited"
           \/ k = "left.next" /\ l = "left.back"
           \/ k = "right.next" /\ l = "right.back"
    PROVE  CondInv'
<1>1. /\ pc[i] = k /\ ~ Waits(i) /\ pc \in [Phil -> Reached]
      /\ value \in [Sem -> Nat] /\ sem_queue \in [Sem -> Seq(Phil)]
      /\ k \notin Inside /\ l \in {"hungry", "full", "waited"} \cup Backs
      /\ l \in Reached /\ (k \in Signallers <=> l \in Signallers)
      /\ CountOf(l) = CountOf(k)
  BY AtPlace, Types DEF Inside, Backs, Signallers, Reached, CountOf
<1>2. UNCHANGED <<state_condvar, next_count, count>>
  BY DEF monVars
<1>3. /\ Threads(Sem)' /\ Token' /\ Located' /\ pc' = [pc EXCEPT ![i] = l]
      /\ Taken(Door(i, l)) \/ Enqueued(i, Door(i, l))
  BY <1>1, DownKeeps
<1>4. /\ pc' \in [Phil -> Reached] /\ pc'[i] = l
      /\ \A h \in Phil \ {i} : pc'[h] = pc[h]
  BY <1>1, <1>3
<1>5. \A h \in Phil \ {i} : /\ Waits(h)' <=> Waits(h)
                           /\ value'[cv(h)] = value[cv(h)]
  BY <1>1, <1>3, Semaphores DEF Taken, Enqueued, Door
<1>6. Phase(i) /\ value[cv(i)] \in {0, 1}
  BY Semaphores DEF CondInv, Phases, Token
<1>7. Phase(i)'
  <2>1. CASE k = "wait"
    <3>1. Door(i, l) = cv(i) /\ l = "waited"
      BY <1>1, <2>1 DEF Door
    <3>2. CASE Taken(cv(i))
      <4>1. value[cv(i)] = 1 /\ value'[cv(i)] = 0 /\ ~ Waits(i)'
        BY <1>1, <1>6, <3>2, Semaphores DEF Taken
      <4> QED
        BY <1>1, <1>2, <1>4, <1>6, <2>1, <3>1, <4>1 DEF Phase
    <3>3. CASE Enqueued(i, cv(i))
      <4>1. value[cv(i)] = 0 /\ value'[cv(i)] = 0 /\ Waits(i)'
        BY <3>3 DEF Enqueued
      <4> QED
        BY <1>1, <1>2, <1>4, <1>6, <2>1, <3>1, <4>1 DEF Phase
    <3> QED
      BY <1>3, <3>1, <3>2, <3>3
  <2>2. CASE k # "wait"
    <3>1. Door(i, l) \in {mutex, next}
      BY <2>2 DEF Door
    <3>2. value'[cv(i)] = value[cv(i)]
      BY <1>1, <1>3, <3>1, Semaphores DEF Taken, Enqueued
    <3> QED
      BY <1>1, <1>2, <1>4, <1>6, <2>2, <3>2 DEF Phase
  <2> QED
    BY <2>1, <2>2
<1>8. Phases'
  <2>1. \A h \in Phil : h # i => PhaseSame(h)
    BY <1>2, <1>4, <1>5 DEF PhaseSame
  <2> QED
    BY <1>2, <1>4, <1>7, <2>1, Types, PhasesKept
<1>9. Counts' /\ NextCount'
  BY <1>1, <1>2, <1>3, CountsSame, NextCountKept
<1> QED
  BY <1>3, <1>8, <1>9 DEF CondInv

\* To leave the monitor, and to wait in it: up(next) or up(mutex).
LEMMA ReleaseKeeps ==
    ASSUME CondInv, NEW i \in Phil, NEW k, NEW l, At(i, k), Release(i, l),
           UNCHANGED <<state_condvar, next_count>>, Counts',
           \/ k = "check" /\ l = "wait" /\ state_condvar[i] = "HUNGRY"
           \/ k = "unlock" /\ l = "eat"
           \/ k = "leave" /\ l = "think"
    PROVE  CondInv'
<1> DEFINE x == IF next_count > 0 THEN next ELSE mutex
<1>1. x \in {next, mutex} /\ x \in Sem /\ Up(i, x, l)
  BY Semaphores DEF Release
<1> HIDE DEF x
<1>2. /\ pc[i] = k /\ pc \in [Phil -> Reached] /\ value \in [Sem -> Nat]
      /\ k \in Inside /\ l \notin Inside /\ l \in Reached
      /\ k \notin Signallers /\ l \notin Signallers
  BY AtPlace, Types DEF Inside, Backs, Signallers, Reached
<1>3. /\ Threads(Sem)' /\ Token' /\ Located' /\ pc' = [pc EXCEPT ![i] = l]
      /\ \/ Counted(x)
         \/ \E w \in Phil \ {i} : HandedTo(w, x) /\ x = Door(w, pc[w])
  BY <1>1, <1>2, UpKeeps
<1>4. /\ pc' \in [Phil -> Reached] /\ pc'[i] = l
      /\ \A h \in Phil \ {i} : pc'[h] = pc[h]
  BY <1>2, <1>3
<1>5. /\ \A h \in Phil : value'[cv(h)] = value[cv(h)]
      /\ \A h \in Phil : pc[h] = "waited" /\ Waits(h)' => Waits(h)
      /\ \A h \in Phil : pc[h] = "waited" /\ Waits(h) => Waits(h)'
  <2>1. CASE Counted(x)
    BY <1>1, <1>2, <2>1, Semaphores DEF Counted
  <2>2. ASSUME NEW w \in Phil, HandedTo(w, x), x = Door(w, pc[w])
        PROVE  /\ \A h \in Phil : value'[cv(h)] = value[cv(h)]
               /\ \A h \in Phil : pc[h] = "waited" /\ Waits(h)' => Waits(h)
               /\ \A h \in Phil : pc[h] = "waited" /\ Waits(h) => Waits(h)'
    <3>1. pc[w] # "waited"
      BY <1>1, <2>2, Semaphores DEF Door
    <3> QED
      BY <2>2, <3>1 DEF HandedTo
  <2> QED
    BY <1>3, <2>1, <2>2
<1>6. Phase(i)'
  <2>1. Phase(i)
    BY DEF CondInv, Phases
  <2> QED
    BY <1>2, <1>4, <1>5, <2>1 DEF Phase
<1>7. Phases'
  <2>1. \A h \in Phil : h # i => PhaseSame(h)
    BY <1>4, <1>5 DEF PhaseSame
  <2> QED
    BY <1>4, <1>6, <2>1, Types, PhasesKept
<1>8. NextCount'
  BY <1>2, <1>3, NextCountKept
<1> QED
  BY <1>3, <1>7, <1>8 DEF CondInv

\* The statements inside of the monitor that have no semaphore in them.
LEMMA StepsKeep ==
    ASSUME CondInv, NEW i \in Phil, NEW k, NEW l, NEW phase, At(i, k), Step(i, l),
           state_condvar' = [state_condvar EXCEPT ![i] = phase],
           \/ /\ \/ k = "hungry" /\ l = "test" /\ phase = "HUNGRY"
                 \/ k = "full" /\ l = "left" /\ phase = "THINKING"
                 \/ k = "test" /\ l = "check" /\ phase \in {"HUNGRY", "EATING"}
                 \/ k = "check" /\ l = "unlock" /\ phase = "EATING"
                 \/ k = "left" /\ l = "right" /\ phase = "THINKING"
                 \/ k = "right" /\ l = "leave" /\ phase = "THINKING"
              /\ UNCHANGED <<next_count, count>>
           \/ /\ k = "waited" /\ l = "unlock" /\ phase = "EATING"
              /\ count' = [count EXCEPT ![i] = @ - 1] /\ UNCHANGED next_count
           \/ /\ \/ k = "left.back" /\ l = "right"
                 \/ k = "right.back" /\ l = "leave"
              /\ phase = "THINKING"
              /\ next_count' = next_count - 1 /\ UNCHANGED count
    PROVE  CondInv'
<1>1. /\ pc[i] = k /\ ~ Waits(i) /\ pc \in [Phil -> Reached]
      /\ state_condvar \in [Phil -> {"THINKING", "HUNGRY", "EATING"}]
      /\ k \in Inside /\ l \in Inside /\ l \in Reached
  BY AtPlace, Types DEF Inside, Backs, Reached
<1>2. /\ Threads(Sem)' /\ pc' = [pc EXCEPT ![i] = l]
      /\ UNCHANGED <<value, sem_queue>>
      /\ \A j \in Phil : Waits(j)' <=> Waits(j)
  <2>1. UNCHANGED <<schedVars, semVars, call, iter, reaped, irq, panic>>
    BY DEF Step
  <2> QED
    BY <2>1, SameThreads DEF Step, Goto, semVars, CondInv
<1>3. Token' /\ Located'
  BY <1>1, <1>2, MoveKeeps
<1>4. /\ pc' \in [Phil -> Reached] /\ pc'[i] = l /\ state_condvar'[i] = phase
      /\ state_condvar' \in [Phil -> {"THINKING", "HUNGRY", "EATING"}]
      /\ \A h \in Phil \ {i} : pc'[h] = pc[h] /\ state_condvar'[h] = state_condvar[h]
  BY <1>1, <1>2
<1>5. Phase(i)'
  <2>1. value[cv(i)] = 0
    BY <1>1 DEF CondInv, Phases, Phase
  <2> QED
    BY <1>1, <1>2, <1>4, <2>1 DEF Phase
<1>6. Phases'
  <2>1. \A h \in Phil : h # i => PhaseSame(h)
    BY <1>2, <1>4 DEF PhaseSame
  <2> QED
    BY <1>4, <1>5, <2>1, PhasesKept
<1>7. Counts'
  <2>1. count[i] = CountOf(k)
    BY <1>1 DEF CondInv, Counts
  <2>2. CASE k = "waited"
    <3>1. CountOf(l) = 0 /\ CountOf(k) = 1 /\ count' = [count EXCEPT ![i] = @ - 1]
      BY <2>2 DEF CountOf
    <3>2. count' = [count EXCEPT ![i] = CountOf(l)]
      BY <2>1, <3>1
    <3> QED
      BY <1>2, <3>2, CountsKept
  <2>3. CASE k # "waited"
    <3>1. UNCHANGED count
      BY <2>3
    <3>2. CountOf(l) = 0 /\ CountOf(k) = 0
      BY <2>3 DEF CountOf
    <3> QED
      BY <1>1, <1>2, <3>1, <3>2, CountsSame
  <2> QED
    BY <2>2, <2>3
<1>8. NextCount'
  BY <1>1, <1>2, NextCountKept DEF Signallers, Backs
<1> QED
  BY <1>2, <1>3, <1>6, <1>7, <1>8 DEF CondInv

\* Who is inside and finds another one able to eat finds it in cond_wait.
LEMMA HungryWaits ==
    ASSUME CondInv, NEW i \in Phil, Holds(i), NEW j \in Phil \ {i}, CanEat(j)
    PROVE  /\ \/ pc[j] = "wait" /\ value[cv(j)] = 0
              \/ pc[j] = "waited" /\ Waits(j)
           /\ count[j] = 1
<1>1. /\ ~ Holds(j) /\ Phase(j) /\ state_condvar[j] = "HUNGRY" /\ pc[j] \in Reached
      /\ Waits(j) => pc[j] \in {"hungry", "full", "waited"} \cup Backs
      /\ value[cv(j)] \in {0, 1}
  BY Types, Semaphores DEF CondInv, Token, Phases, Located, CanEat
<1>2. pc[j] \in {"test", "check", "wait", "waited"}
  BY <1>1 DEF Phase, Reached, Inside, Backs
<1>3. pc[j] \notin {"test", "check"}
  BY <1>1 DEF Holds, Inside, Backs
<1>4. \/ pc[j] = "wait" /\ value[cv(j)] = 0
      \/ pc[j] = "waited" /\ Waits(j)
  BY <1>1, <1>2, <1>3 DEF Phase
<1> QED
  BY <1>4 DEF CondInv, Counts, CountOf

\* cond_signal up to its down(next): the monitor, and a plate to eat from, are
\* given to whoever is in cond_wait.
LEMMA SignalKeeps ==
    ASSUME CondInv, NEW i \in Phil, NEW j \in Phil \ {i}, NEW k, NEW l, At(i, k),
           \/ k = "left" /\ l = "left.next"
           \/ k = "right" /\ l = "right.next",
           CanEat(j), Up(i, cv(j), l),
           state_condvar' = [state_condvar EXCEPT ![j] = "EATING"],
           NextCount', UNCHANGED count
    PROVE  CondInv'
<1>1. /\ pc[i] = k /\ ~ Waits(i) /\ pc \in [Phil -> Reached] /\ Holds(i)
      /\ value \in [Sem -> Nat]
      /\ state_condvar \in [Phil -> {"THINKING", "HUNGRY", "EATING"}]
      /\ k \in Inside /\ l \notin Inside /\ l \in Reached
      /\ k \notin Signallers /\ l \in Signallers
      /\ CountOf(l) = CountOf(k)
  BY AtPlace, Types DEF Inside, Backs, Reached, Signallers, CountOf
<1>2. /\ Threads(Sem)' /\ Token' /\ Located' /\ pc' = [pc EXCEPT ![i] = l]
      /\ \/ Counted(cv(j))
         \/ \E w \in Phil \ {i} : HandedTo(w, cv(j)) /\ cv(j) = Door(w, pc[w])
  BY <1>1, UpKeeps, Semaphores
<1>3. /\ pc' \in [Phil -> Reached] /\ pc'[i] = l
      /\ state_condvar' \in [Phil -> {"THINKING", "HUNGRY", "EATING"}]
      /\ state_condvar'[j] = "EATING"
      /\ \A h \in Phil \ {i} : pc'[h] = pc[h]
      /\ \A h \in Phil \ {j} : state_condvar'[h] = state_condvar[h]
  BY <1>1, <1>2
<1>4. /\ \/ pc[j] = "wait" /\ value[cv(j)] = 0
         \/ pc[j] = "waited" /\ Waits(j)
      /\ pc[j] = "wait" => ~ Waits(j)
  BY <1>1, HungryWaits DEF CondInv, Located, Backs
<1>5. \A w \in Phil : cv(j) = Door(w, pc[w]) => w = j /\ pc[w] = "waited"
  BY Semaphores DEF Door
<1>6. /\ \A h \in Phil \ {j} : value'[cv(h)] = value[cv(h)]
      /\ \A h \in Phil \ {j} : Waits(h)' => Waits(h)
      /\ \A h \in Phil \ {j} : Waits(h) => Waits(h)'
      /\ pc[j] = "wait" => value'[cv(j)] = 1
      /\ pc[j] = "waited" => value'[cv(j)] = value[cv(j)] /\ ~ Waits(j)'
  <2>1. CASE pc[j] = "wait"
    <3>1. Counted(cv(j))
      BY <1>2, <1>5, <2>1
    <3> QED
      BY <1>1, <1>4, <2>1, <3>1, Semaphores DEF Counted
  <2>2. CASE pc[j] = "waited"
    <3>1. Waits(j)
      BY <1>4, <2>2
    <3>2. \E x \in Sem : j \in ToSet(sem_queue[x])
      BY <3>1 DEF CondInv, Threads, QueuesExact
    <3>3. j \in ToSet(sem_queue[cv(j)])
      BY <2>2, <3>2 DEF CondInv, Located, Door
    <3>4. sem_queue[cv(j)] # << >>
      BY <3>3 DEF ToSet
    <3>5. HandedTo(j, cv(j))
      BY <1>2, <1>5, <3>4 DEF Counted
    <3> QED
      BY <2>2, <3>5 DEF HandedTo
  <2> QED
    BY <1>4, <2>1, <2>2
<1>7. Phase(j)'
  <2>1. pc[j] = "waited" => value[cv(j)] = 0
    BY DEF CondInv, Phases, Phase
  <2> QED
    BY <1>3, <1>4, <1>6, <2>1 DEF Phase
<1>8. Phase(i)'
  <2>1. Phase(i) /\ value'[cv(i)] = value[cv(i)] /\ state_condvar'[i] = state_condvar[i]
    BY <1>3, <1>6 DEF CondInv, Phases
  <2>2. state_condvar[i] = "THINKING" /\ value[cv(i)] = 0
    BY <1>1, <2>1 DEF Phase
  <2>3. state_condvar'[i] = "THINKING" /\ value'[cv(i)] = 0
    BY <2>1, <2>2
  <2> QED
    BY <1>3, <2>3 DEF Phase
<1>9. Phases'
  <2>1. ASSUME NEW h \in Phil, h # i, h # j
        PROVE  PhaseSame(h)
    <3>1. pc'[h] = pc[h] /\ state_condvar'[h] = state_condvar[h]
      BY <1>3, <2>1
    <3>2. value'[cv(h)] = value[cv(h)]
      BY <1>6, <2>1
    <3>3. (Waits(h)' => Waits(h)) /\ (Waits(h) => Waits(h)')
      BY <1>6, <2>1
    <3> QED
      BY <3>1, <3>2, <3>3 DEF PhaseSame
  <2> QED
    BY <1>3, <1>7, <1>8, <2>1, PhasesKept
<1>10. Counts'
  BY <1>1, <1>2, CountsSame
<1> QED
  BY <1>2, <1>9, <1>10 DEF CondInv

\* phi_test_condvar(j), whatever its answer.  Who tests itself is in no
\* cond_wait: its cond_signal does nothing.
LEMMA TestKeeps ==
    ASSUME CondInv, NEW i \in Phil, NEW j \in Phil, NEW k, phi_test(i, k, j),
           \/ k = "test" /\ j = i
           \/ k = "left" /\ j = Left(i)
           \/ k = "right" /\ j = Right(i)
    PROVE  CondInv'
<1>1. /\ At(i, k) /\ pc[i] = k /\ Holds(i) /\ Phase(i)
      /\ pc \in [Phil -> Reached]
      /\ state_condvar \in [Phil -> {"THINKING", "HUNGRY", "EATING"}]
  BY AtPlace, Types DEF phi_test, Inside, CondInv, Phases
<1>2. CASE ~ CanEat(j)
  <2>1. Step(i, Signal[k].then) /\ UNCHANGED <<state_condvar, next_count, count>>
    BY <1>2 DEF phi_test, monVars
  <2>2. /\ k = "test" => Signal[k].then = "check" /\ state_condvar[i] = "HUNGRY"
        /\ k = "left" => Signal[k].then = "right" /\ state_condvar[i] = "THINKING"
        /\ k = "right" => Signal[k].then = "leave" /\ state_condvar[i] = "THINKING"
    BY <1>1, Signals DEF Phase
  <2>3. state_condvar' = [state_condvar EXCEPT ![i] = state_condvar[i]]
    BY <1>1, <2>1
  <2> QED
    BY <1>1, <2>1, <2>2, <2>3, StepsKeep
<1>3. CASE CanEat(j) /\ j = i
  <2>1. k = "test"
    BY <1>3, Neighbours
  <2>2. count[i] = 0
    BY <1>1, <2>1 DEF CondInv, Counts, CountOf
  <2>3. /\ state_condvar' = [state_condvar EXCEPT ![i] = "EATING"]
        /\ cond_signal(i, i, Signal["test"]) /\ UNCHANGED count
    BY <1>3, <2>1 DEF phi_test
  <2>4. Step(i, "check") /\ UNCHANGED next_count
    BY <2>2, <2>3, Signals DEF cond_signal
  <2> QED
    BY <1>1, <2>1, <2>3, <2>4, StepsKeep
<1>4. CASE CanEat(j) /\ j # i
  <2>1. k \in {"left", "right"}
    BY <1>4
  <2>2. count[j] = 1
    BY <1>1, <1>4, HungryWaits
  <2>3. /\ state_condvar' = [state_condvar EXCEPT ![j] = "EATING"]
        /\ cond_signal(i, j, Signal[k]) /\ UNCHANGED count
    BY <1>4 DEF phi_test
  <2> DEFINE l == IF k = "left" THEN "left.next" ELSE "right.next"
  <2>4. Signal[k].blocked = l
    BY <2>1, Signals
  <2>5. Up(i, cv(j), l) /\ next_count' = next_count + 1
    BY <2>2, <2>3, <2>4 DEF cond_signal
  <2>6. pc' = [pc EXCEPT ![i] = l]
    BY <2>5 DEF Up, Goto
  <2>7. k \notin Signallers /\ l \in Signallers
    BY <2>1 DEF Signallers, Backs
  <2>8. NextCount'
    BY <1>1, <2>5, <2>6, <2>7, NextCountKept
  <2>9. \/ k = "left" /\ l = "left.next"
        \/ k = "right" /\ l = "right.next"
    BY <2>1
  <2> HIDE DEF l
  <2> QED
    BY <1>1, <1>4, <2>3, <2>5, <2>8, <2>9, SignalKeeps
<1> QED
  BY <1>2, <1>3, <1>4

\* The rest of cond_signal: the signaller waits for the monitor, and has it again.
LEMMA SignallingKeeps ==
    ASSUME CondInv, NEW i \in Phil, Signalling(i)
    PROVE  CondInv'
<1>1. PICK c \in DOMAIN Signal :
         \/ At(i, Signal[c].blocked) /\ Down(i, next, Signal[c].back) /\ UNCHANGED monVars
         \/ /\ At(i, Signal[c].back) /\ Step(i, Signal[c].then)
            /\ next_count' = next_count - 1
            /\ UNCHANGED <<state_condvar, count>>
  BY DEF Signalling
<1>2. c \in {"test", "left", "right"}
  BY Signals
<1>3. CASE At(i, Signal[c].blocked) /\ Down(i, next, Signal[c].back) /\ UNCHANGED monVars
  <2>1. Signal[c].blocked \in Reached
    BY <1>3, AtPlace
  <2>2. c # "test"
    BY <2>1, Signals DEF Reached, Inside, Backs
  <2>3. /\ c = "left" => Signal[c].blocked = "left.next" /\ Signal[c].back = "left.back"
        /\ c = "right" => Signal[c].blocked = "right.next" /\ Signal[c].back = "right.back"
    BY Signals
  <2>4. Door(i, Signal[c].back) = next
    BY <1>2, <2>2, <2>3 DEF Door, Backs
  <2> QED
    BY <1>2, <1>3, <2>2, <2>3, <2>4, DownsKeep
<1>4. CASE /\ At(i, Signal[c].back) /\ Step(i, Signal[c].then)
           /\ next_count' = next_count - 1
           /\ UNCHANGED <<state_condvar, count>>
  <2>1. Signal[c].back \in Reached /\ pc[i] = Signal[c].back
    BY <1>4, AtPlace
  <2>2. c # "test"
    BY <2>1, Signals DEF Reached, Inside, Backs
  <2>3. /\ c = "left" => Signal[c].back = "left.back" /\ Signal[c].then = "right"
        /\ c = "right" => Signal[c].back = "right.back" /\ Signal[c].then = "leave"
    BY Signals
  <2>4. state_condvar[i] = "THINKING"
    BY <1>2, <2>1, <2>2, <2>3 DEF CondInv, Phases, Phase
  <2>5. state_condvar' = [state_condvar EXCEPT ![i] = "THINKING"]
    BY <1>4, <2>4, Types
  <2> QED
    BY <1>2, <1>4, <2>2, <2>3, <2>5, StepsKeep
<1> QED
  BY <1>1, <1>3, <1>4

\* cond_wait.
LEMMA WaitingKeeps ==
    ASSUME CondInv, NEW i \in Phil, Waiting(i)
    PROVE  CondInv'
<1>1. CASE /\ At(i, "check") /\ state_condvar[i] = "HUNGRY"
           /\ Release(i, "wait")
           /\ count' = [count EXCEPT ![i] = @ + 1]
           /\ UNCHANGED <<state_condvar, next_count>>
  <2>1. pc[i] = "check" /\ pc' = [pc EXCEPT ![i] = "wait"]
    BY <1>1, AtPlace DEF Release, Up, Goto
  <2>2. count[i] + 1 = CountOf("wait")
    BY <2>1 DEF CondInv, Counts, CountOf
  <2>3. count' = [count EXCEPT ![i] = count[i] + 1]
    BY <1>1
  <2>4. count' = [count EXCEPT ![i] = CountOf("wait")]
    BY <2>2, <2>3
  <2>5. Counts'
    BY <2>1, <2>4, CountsKept
  <2> QED
    BY <1>1, <2>5, ReleaseKeeps
<1>2. CASE At(i, "wait") /\ Down(i, cv(i), "waited") /\ UNCHANGED monVars
  <2>1. Door(i, "waited") = cv(i)
    BY DEF Door
  <2> QED
    BY <1>2, <2>1, DownsKeep
<1>3. CASE /\ At(i, "waited") /\ Step(i, "unlock")
           /\ count' = [count EXCEPT ![i] = @ - 1]
           /\ UNCHANGED <<state_condvar, next_count>>
  <2>1. state_condvar[i] = "EATING"
    BY <1>3, AtPlace DEF CondInv, Phases, Phase
  <2>2. state_condvar' = [state_condvar EXCEPT ![i] = "EATING"]
    BY <1>3, <2>1, Types
  <2> QED
    BY <1>3, <2>2, StepsKeep
<1> QED
  BY <1>1, <1>2, <1>3 DEF Waiting

\* phi_take_forks_condvar.
LEMMA TakeForksKeeps ==
    ASSUME CondInv, NEW i \in Phil, TakeForks(i)
    PROVE  CondInv'
<1>1. CASE At(i, "take") /\ Down(i, mutex, "hungry") /\ UNCHANGED monVars
  <2>1. Door(i, "hungry") = mutex
    BY DEF Door, Backs
  <2> QED
    BY <1>1, <2>1, DownsKeep
<1>2. CASE At(i, "hungry") /\ SetState(i, "HUNGRY", "test")
  BY <1>2, StepsKeep DEF SetState
<1>3. CASE phi_test(i, "test", i)
  BY <1>3, TestKeeps
<1>4. CASE /\ At(i, "check") /\ state_condvar[i] # "HUNGRY" /\ Step(i, "unlock")
           /\ UNCHANGED monVars
  <2>1. state_condvar[i] = "EATING" /\ UNCHANGED <<state_condvar, next_count, count>>
    BY <1>4, AtPlace DEF CondInv, Phases, Phase, monVars
  <2>2. state_condvar' = [state_condvar EXCEPT ![i] = "EATING"]
    BY <2>1, Types
  <2> QED
    BY <1>4, <2>1, <2>2, StepsKeep
<1>5. CASE At(i, "unlock") /\ Release(i, "eat") /\ UNCHANGED monVars
  <2>1. /\ pc[i] = "unlock" /\ pc' = [pc EXCEPT ![i] = "eat"]
        /\ UNCHANGED <<state_condvar, next_count, count>>
    BY <1>5, AtPlace DEF Release, Up, Goto, monVars
  <2>2. CountOf("eat") = CountOf(pc[i])
    BY <2>1 DEF CountOf
  <2>3. Counts'
    BY <2>1, <2>2, CountsSame
  <2> QED
    BY <1>5, <2>1, <2>3, ReleaseKeeps
<1> QED
  BY <1>1, <1>2, <1>3, <1>4, <1>5 DEF TakeForks

\* phi_put_forks_condvar.
LEMMA PutForksKeeps ==
    ASSUME CondInv, NEW i \in Phil, PutForks(i)
    PROVE  CondInv'
<1>1. CASE At(i, "put") /\ Down(i, mutex, "full") /\ UNCHANGED monVars
  <2>1. Door(i, "full") = mutex
    BY DEF Door, Backs
  <2> QED
    BY <1>1, <2>1, DownsKeep
<1>2. CASE At(i, "full") /\ SetState(i, "THINKING", "left")
  BY <1>2, StepsKeep DEF SetState
<1>3. CASE phi_test(i, "left", Left(i)) \/ phi_test(i, "right", Right(i))
  BY <1>3, TestKeeps, Neighbours
<1>4. CASE At(i, "leave") /\ Release(i, "think") /\ UNCHANGED monVars
  <2>1. /\ pc[i] = "leave" /\ pc' = [pc EXCEPT ![i] = "think"]
        /\ UNCHANGED <<state_condvar, next_count, count>>
    BY <1>4, AtPlace DEF Release, Up, Goto, monVars
  <2>2. CountOf("think") = CountOf(pc[i])
    BY <2>1 DEF CountOf
  <2>3. Counts'
    BY <2>1, <2>2, CountsSame
  <2> QED
    BY <1>4, <2>1, <2>3, ReleaseKeeps
<1> QED
  BY <1>1, <1>2, <1>3, <1>4 DEF PutForks

\* Every statement of a philosopher.
LEMMA PhilosopherKeeps ==
    ASSUME CondInv, NEW i \in Phil, Philosopher(i)
    PROVE  CondInv'
<1>1. CASE ThinkOrQuit(i)
  <2>1. At(i, "think") /\ Think(i, "think", "take") /\ UNCHANGED monVars
    BY <1>1 DEF ThinkOrQuit, Think
  <2>2. /\ Threads(Sem)' /\ UNCHANGED <<value, sem_queue>>
        /\ pc' = [pc EXCEPT ![i] = "take"] \/ UNCHANGED pc
        /\ \A j \in Phil : Waits(j)' <=> Waits(j)
    BY <2>1, ThinkStep DEF CondInv
  <2> QED
    BY <2>1, <2>2, SleepKeeps
<1>2. CASE Eat(i)
  <2>1. At(i, "eat") /\ Sleep(i, "put") /\ UNCHANGED <<iter, monVars>>
    BY <1>2 DEF Eat
  <2>2. iter' \in [Phil -> 0 .. TIMES]
    BY <2>1 DEF CondInv, Threads, ThreadTypes
  <2>3. /\ Threads(Sem)' /\ UNCHANGED <<value, sem_queue>>
        /\ pc' = [pc EXCEPT ![i] = "put"]
        /\ \A j \in Phil : Waits(j)' <=> Waits(j)
    BY <2>1, <2>2, SleepStep DEF CondInv
  <2> QED
    BY <2>1, <2>3, SleepKeeps
<1> QED
  BY <1>1, <1>2, TakeForksKeeps, PutForksKeeps, WaitingKeeps, SignallingKeeps
     DEF Philosopher

----------------------------------------------------------------------------
(* The theorems *)

LEMMA CondInvInitially == Init => CondInv
<1> SUFFICES ASSUME Init PROVE CondInv
  OBVIOUS
<1>1. /\ value = [x \in Sem |-> IF x = mutex THEN 1 ELSE 0]
      /\ sem_queue = [x \in Sem |-> << >>]
      /\ state_condvar = [i \in Phil |-> "THINKING"]
      /\ next_count = 0 /\ count = [i \in Phil |-> 0]
      /\ ThreadsInit("think")
  BY DEF Init
<1>2. /\ value \in [Sem -> Nat] /\ value[mutex] = 1
      /\ \A x \in Sem \ {mutex} : value[x] = 0
      /\ \A x \in Sem : ToSet(sem_queue[x]) = {}
  BY <1>1, Semaphores DEF ToSet
<1>3. /\ Threads(Sem) /\ pc = [i \in Phil |-> "think"]
      /\ \A i \in Phil : ~ Waits(i)
  BY <1>1, <1>2, ThreadsInitially
<1>4. \A i \in Phil : /\ pc[i] = "think" /\ state_condvar[i] = "THINKING"
                     /\ ~ Holds(i) /\ value[cv(i)] = 0
  BY <1>1, <1>2, <1>3, Semaphores DEF Holds, Inside, Backs
<1>5. Phases
  BY <1>1, <1>3, <1>4 DEF Phases, Phase, Reached
<1>6. Token
  BY <1>2, <1>4, Semaphores DEF Token
<1>7. Located
  BY <1>2, <1>3 DEF Located
<1>8. Counts
  <2>1. CountOf("think") = 0
    BY DEF CountOf
  <2> QED
    BY <1>1, <1>3, <2>1 DEF Counts
<1>9. NextCount
  <2>1. {i \in Phil : pc[i] \in Signallers} = {}
    BY <1>4 DEF Signallers, Backs
  <2> QED
    BY <1>1, <2>1, FS_EmptySet DEF NextCount
<1> QED
  BY <1>3, <1>5, <1>6, <1>7, <1>8, <1>9 DEF CondInv

LEMMA CondInvKept == CondInv /\ [Next]_allVars => CondInv'
<1> SUFFICES ASSUME CondInv, [Next]_allVars
             PROVE  CondInv'
  OBVIOUS
<1>1. ASSUME NEW i \in Phil, Philosopher(i)
      PROVE  CondInv'
  BY <1>1, PhilosopherKeeps
<1>2. ASSUME NEW p \in Proc, Thread(p), UNCHANGED monVars
      PROVE  CondInv'
  BY <1>2, KernelKeeps
<1>3. CASE Clock \/ Handler
  BY <1>3, KernelKeeps DEF Clock, Handler
<1>4. CASE Returned \/ UNCHANGED allVars
  BY <1>4, KernelKeeps DEF Returned, Finished, allVars
<1> QED
  BY <1>1, <1>2, <1>3, <1>4 DEF Next, Cpu

LEMMA CondInvariance == Spec => []CondInv
  BY CondInvInitially, CondInvKept, PTL DEF Spec

\* Every hand-over of cond_signal, cond_wait and of those who leave (monitor.c) gives
\* the monitor to one thread: it is never held twice and never lost, and next_count
\* tells how many signallers still have to get it back.
THEOREM MonitorAlwaysHeldOnce == Spec => []MonitorHeld
<1>1. CondInv => MonitorHeldOnce
  <2> SUFFICES ASSUME CondInv PROVE MonitorHeldOnce
    OBVIOUS
  <2> DEFINE A == {i \in Phil : Active(i)}
             C == {i \in Phil : value[cv(i)] = 1}
  <2>1. /\ \A x \in Sem : value[x] \in {0, 1}
        /\ \A i, j \in Phil : Active(i) /\ Active(j) => i = j
        /\ \A x, y \in Sem : value[x] = 1 /\ value[y] = 1 => x = y
        /\ \A i \in Phil, x \in Sem : Active(i) => value[x] = 0
        /\ (\E i \in Phil : Active(i)) \/ (\E x \in Sem : value[x] = 1)
    BY ActiveHolds DEF CondInv, Token
  <2>2. MonitorHeldOnce <=> Cardinality(A) + value[mutex] + value[next] + Cardinality(C) = 1
    BY DEF MonitorHeldOnce, Quantify
  <2>3. ASSUME NEW i \in Phil, Active(i)
        PROVE  Cardinality(A) = 1 /\ Cardinality(C) = 0
               /\ value[mutex] = 0 /\ value[next] = 0
    <3>1. A = {i} /\ C = {}
      BY <2>1, <2>3, Semaphores
    <3> QED
      BY <2>1, <2>3, <3>1, FS_Singleton, FS_EmptySet, Semaphores
  <2>4. ASSUME NEW x \in Sem, value[x] = 1
        PROVE  /\ Cardinality(A) = 0
               /\ value[mutex] = IF x = mutex THEN 1 ELSE 0
               /\ value[next] = IF x = next THEN 1 ELSE 0
               /\ Cardinality(C) = IF x \in {mutex, next} THEN 0 ELSE 1
    <3>1. A = {} /\ Cardinality(A) = 0
      BY <2>1, <2>4, FS_EmptySet
    <3>2. /\ value[mutex] = IF x = mutex THEN 1 ELSE 0
          /\ value[next] = IF x = next THEN 1 ELSE 0
      BY <2>1, <2>4, Semaphores
    <3>3. CASE x \in {mutex, next}
      <4>1. C = {}
        BY <2>1, <2>4, <3>3, Semaphores
      <4> QED
        BY <3>1, <3>2, <3>3, <4>1, FS_EmptySet
    <3>4. CASE x \notin {mutex, next}
      <4>1. PICK i \in Phil : x = cv(i)
        BY <3>4, Semaphores
      <4>2. C = {i}
        BY <2>1, <2>4, <4>1, Semaphores
      <4> QED
        BY <3>1, <3>2, <3>4, <4>2, FS_Singleton
    <3> QED
      BY <3>3, <3>4
  <2> HIDE DEF A, C
  <2>5. CASE \E i \in Phil : Active(i)
    BY <2>2, <2>3, <2>5
  <2>6. CASE \E x \in Sem : value[x] = 1
    BY <2>2, <2>4, <2>6, Semaphores
  <2> QED
    BY <2>1, <2>5, <2>6
<1>2. CondInv => NextCounted
  <2> SUFFICES ASSUME CondInv PROVE NextCounted
    OBVIOUS
  <2>1. \A x : (\E l \in DOMAIN Signal : x \in {Signal[l].blocked, Signal[l].back})
                  <=> x \in Signallers \cup {"test.next", "test.back"}
    BY Signals DEF Signallers, Backs
  <2>2. {i \in Phil : \E l \in DOMAIN Signal : pc[i] \in {Signal[l].blocked, Signal[l].back}}
          = {i \in Phil : pc[i] \in Signallers}
    BY <2>1 DEF Signallers, Backs
  <2> QED
    BY <2>2 DEF CondInv, NextCount, NextCounted, Quantify
<1> QED
  BY <1>1, <1>2, CondInvariance, PTL DEF MonitorHeld

\* Who was woken in cond_wait may eat: nobody took its forks between the signal and its
\* return, so phi_take_forks_condvar can do without a loop around cond_wait.
THEOREM WokenAlwaysMayEat == Spec => []WokenMayEat
<1>1. CondInv => WokenMayEat
  <2> SUFFICES ASSUME CondInv, NEW i \in Phil
               PROVE  /\ pc[i] = "waited" /\ (~ Blocked(i) \/ HandedOver(i))
                            => state_condvar[i] = "EATING"
                      /\ pc[i] \in {"unlock", "eat"} => state_condvar[i] = "EATING"
    BY DEF WokenMayEat
  <2>1. ~ Blocked(i) \/ HandedOver(i) => ~ Waits(i)
    BY DEF Blocked, HandedOver, Waits, InDown, Asleep
  <2> QED
    BY <2>1 DEF CondInv, Phases, Phase
<1> QED
  BY <1>1, CondInvariance, PTL

\* No assertion of sem.c, wait.c and sched.c fails under the monitor either.
THEOREM MonitorNeverPanics == Spec => []NoPanic
<1>1. CondInv => NoPanic
  BY DEF CondInv, Threads
<1> QED
  BY <1>1, CondInvariance, PTL

\* Every step of the philosophers with the monitor (check_sync.c) is one of the table's,
\* or changes nothing there.
THEOREM MonitorImplementsTable == Spec => ImplementsTable
<1>1. Init => T!Init
  BY DEF Init, T!Init, T!Phil, Phil
<1>2. CondInv /\ [Next]_allVars => [T!Next]_state_condvar
  <2> SUFFICES ASSUME CondInv, [Next]_allVars, state_condvar' # state_condvar
               PROVE  T!Next
    OBVIOUS
  <2>1. PICK i \in Phil : Philosopher(i)
    BY DEF Next, Cpu, Clock, Handler, Returned, Finished, allVars, monVars
  <2>2. ASSUME NEW j \in Phil, NEW l, phi_test(i, l, j)
        PROVE  T!Eat(j)
    <3>1. CanEat(j) /\ state_condvar' = [state_condvar EXCEPT ![j] = "EATING"]
      BY <2>2 DEF phi_test, monVars
    <3> QED
      BY <3>1 DEF CanEat, T!Eat, T!Left, T!Right, Left, Right
  <2>3. \A j \in Phil : T!Hungry(j) \/ T!Eat(j) \/ T!Think(j) => T!Next
    BY DEF T!Next, T!Phil, Phil
  <2>4. CASE ThinkOrQuit(i) \/ Eat(i) \/ Waiting(i) \/ Signalling(i)
    BY <2>4 DEF ThinkOrQuit, Eat, Waiting, Signalling, monVars
  <2>5. CASE TakeForks(i)
    <3>1. CASE At(i, "hungry") /\ SetState(i, "HUNGRY", "test")
      <4>1. state_condvar[i] = "THINKING"
        BY <3>1, AtPlace DEF CondInv, Phases, Phase
      <4>2. T!Hungry(i)
        BY <3>1, <4>1 DEF SetState, T!Hungry
      <4> QED
        BY <2>3, <4>2
    <3>2. CASE phi_test(i, "test", i)
      BY <2>2, <2>3, <3>2
    <3> QED
      BY <2>5, <3>1, <3>2 DEF TakeForks, monVars
  <2>6. CASE PutForks(i)
    <3>1. CASE At(i, "full") /\ SetState(i, "THINKING", "left")
      <4>1. state_condvar[i] = "EATING"
        BY <3>1, AtPlace DEF CondInv, Phases, Phase
      <4>2. T!Think(i)
        BY <3>1, <4>1 DEF SetState, T!Think
      <4> QED
        BY <2>3, <4>2
    <3>2. CASE phi_test(i, "left", Left(i)) \/ phi_test(i, "right", Right(i))
      BY <2>2, <2>3, <3>2, Neighbours
    <3> QED
      BY <2>6, <3>1, <3>2 DEF PutForks, monVars
  <2> QED
    BY <2>1, <2>4, <2>5, <2>6 DEF Philosopher
<1> QED
  BY <1>1, <1>2, CondInvariance, PTL DEF Spec, ImplementsTable, T!Spec
=============================================================================
