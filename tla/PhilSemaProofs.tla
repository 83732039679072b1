--------------------------- MODULE PhilSemaProofs ---------------------------
(***************************************************************************)
(* Proofs about PhilSema, for every number of philosophers and of rounds:  *)
(* no assertion fails, permissions are handed over exactly, nobody who     *)
(* could eat is left waiting, and the semaphores implement Table.          *)
(***************************************************************************)
EXTENDS PhilSema, SemaphoreProofs

----------------------------------------------------------------------------
(* The inductive invariant *)

Label == {"think", "take", "hungry", "test", "unlock", "forks", "eat", "put",
          "full", "left", "right", "done"}

\* The statements behind down(&mutex), up to and with up(&mutex).
Critical == {"hungry", "test", "unlock", "full", "left", "right", "done"}

\* i has the mutex, be it that up has just given it to i.
Inside(i) == pc[i] \in Critical /\ ~ Waits(i)

\* One philosopher is inside, or the mutex is free.
Mutex ==
    /\ \A i, j \in Phil : Inside(i) /\ Inside(j) => i = j
    /\ value[mutex] \in {0, 1}
    /\ value[mutex] = 1 => /\ sem_queue[mutex] = << >>
                           /\ \A i \in Phil : ~ Inside(i)
    /\ value[mutex] = 0 => \E i \in Phil : Inside(i)

\* Who waits has called down of the mutex or of its own semaphore.
Located ==
    \A i \in Phil :
        /\ Waits(i) => pc[i] \in {"hungry", "full", "eat"}
        /\ \A x \in Sem : i \in ToSet(sem_queue[x]) =>
              x = IF pc[i] = "eat" THEN s(i) ELSE mutex

\* What state_sema[i] is at each statement of i.
Phase(i) ==
    /\ pc[i] \in {"think", "take", "hungry", "left", "right", "done"}
          => state_sema[i] = "THINKING"
    /\ pc[i] = "test" => state_sema[i] = "HUNGRY"
    /\ pc[i] \in {"unlock", "forks"} => state_sema[i] \in {"HUNGRY", "EATING"}
    /\ pc[i] = "eat" => state_sema[i] = IF Waits(i) THEN "HUNGRY" ELSE "EATING"
    /\ pc[i] \in {"put", "full"} => state_sema[i] = "EATING"

Phases ==
    /\ pc \in [Phil -> Label]
    /\ state_sema \in [Phil -> {"THINKING", "HUNGRY", "EATING"}]
    /\ \A i \in Phil : Phase(i)

\* The philosopher inside is going to test i.
Pending(i) ==
    \E h \in Phil :
        /\ Inside(h)
        /\ \/ pc[h] = "test" /\ i = h
           \/ pc[h] = "left" /\ (i = Left(h) \/ i = Right(h))
           \/ pc[h] = "right" /\ i = Right(h)

Served == \A i \in Phil : CanEat(i) => Pending(i)

SemaInv == Threads(Sem) /\ Phases /\ Mutex /\ Located /\ UnitsMatch /\ Served

----------------------------------------------------------------------------
(* The table and the semaphores *)

\* The mutex and the s[i] are different semaphores.
LEMMA Semaphores ==
    /\ mutex \in Sem /\ \A i \in Phil : s(i) \in Sem /\ s(i) # mutex
    /\ \A i, j \in Phil : s(i) = s(j) => i = j
    /\ \A x \in Sem : x = mutex \/ \E i \in Phil : x = s(i)
  BY DEF mutex, s, Sem

\* Who executes a statement waits for nothing; if it is in the critical section
\* nobody else is.
LEMMA AtPlace ==
    ASSUME SemaInv, NEW i \in Phil, NEW k, At(i, k)
    PROVE  /\ pc[i] = k /\ ~ Waits(i)
           /\ \A x \in Sem : i \notin ToSet(sem_queue[x])
           /\ k \in Critical => /\ Inside(i) /\ value[mutex] = 0
                               /\ \A j \in Phil : Inside(j) => j = i
<1>1. /\ pc[i] = k /\ ~ Waits(i)
      /\ \A x \in Sem : i \notin ToSet(sem_queue[x])
  BY AtStatement DEF SemaInv
<1> QED
  BY <1>1 DEF SemaInv, Inside, Mutex

LEMMA Types ==
    ASSUME SemaInv
    PROVE  /\ value \in [Sem -> Nat] /\ sem_queue \in [Sem -> Seq(Phil)]
           /\ pc \in [Phil -> Label]
           /\ state_sema \in [Phil -> {"THINKING", "HUNGRY", "EATING"}]
  BY DEF SemaInv, Threads, ThreadTypes, Phases

----------------------------------------------------------------------------
(* The invariant is kept *)

\* Steps of the kernel, and of threads in it.
LEMMA KernelKeeps ==
    ASSUME SemaInv, UNCHANGED state_sema,
           \/ \E p \in Proc : Thread(p)
           \/ IrqTimer \/ Irq
           \/ UNCHANGED vars
    PROVE  SemaInv'
<1>1. /\ Threads(Sem)' /\ UNCHANGED <<value, sem_queue, pc>>
      /\ \A j \in Phil : Waits(j)' <=> Waits(j)
  BY KernelStep DEF SemaInv
<1>2. Phases' /\ Mutex' /\ Located' /\ UnitsMatch'
  BY <1>1 DEF SemaInv, Phases, Phase, Mutex, Inside, Located, UnitsMatch
<1>3. Served'
  BY <1>1 DEF SemaInv, Served, CanEat, Pending, Inside
<1> QED
  BY <1>1, <1>2, <1>3 DEF SemaInv

\* From a statement outside of the critical section to another one, with neither
\* semaphores nor state_sema in it: the sleeps, and the end.
LEMMA OutsideKeeps ==
    ASSUME SemaInv, Threads(Sem)', NEW i \in Phil, NEW k, NEW l, At(i, k),
           \/ k = "think" /\ l = "take"
           \/ k = "eat" /\ l = "put",
           pc' = [pc EXCEPT ![i] = l] \/ UNCHANGED pc,
           UNCHANGED <<value, sem_queue, state_sema>>,
           \A j \in Phil : Waits(j)' <=> Waits(j)
    PROVE  SemaInv'
<1>1. /\ pc \in [Phil -> Label] /\ pc[i] = k /\ ~ Waits(i)
      /\ l \in Label /\ k \notin Critical /\ l \notin Critical
      /\ \A x \in Sem : i \notin ToSet(sem_queue[x])
  BY Types, AtPlace DEF Critical, Label
<1>2. /\ pc' \in [Phil -> Label]
      /\ pc'[i] = l \/ pc'[i] = k
      /\ \A j \in Phil \ {i} : pc'[j] = pc[j]
  BY <1>1
<1>3. \A j \in Phil : Inside(j)' <=> Inside(j)
  BY <1>1, <1>2 DEF Inside
<1>4. state_sema[i] = (IF k = "think" THEN "THINKING" ELSE "EATING") /\ Phase(i)
  BY <1>1 DEF SemaInv, Phases, Phase
<1>5. Phases'
  <2>1. \A j \in Phil : Phase(j)'
    BY <1>1, <1>2, <1>4 DEF SemaInv, Phases, Phase
  <2> QED
    BY <1>2, <2>1 DEF SemaInv, Phases
<1>6. Mutex'
  BY <1>3 DEF SemaInv, Mutex
<1>7. Located'
  BY <1>1, <1>2 DEF SemaInv, Located
<1>8. UnitsMatch'
  BY <1>1, <1>2, <1>4 DEF SemaInv, UnitsMatch
<1>9. Served'
  <2>1. \A h \in Phil : Inside(h) => h # i
    BY <1>1 DEF Inside
  <2> QED
    BY <1>2, <1>3, <2>1 DEF SemaInv, Served, CanEat, Pending
<1> QED
  BY <1>5, <1>6, <1>7, <1>8, <1>9 DEF SemaInv

\* down(&mutex).
LEMMA DownMutexKeeps ==
    ASSUME SemaInv, NEW i \in Phil, NEW k, NEW l, At(i, k), Down(i, mutex, l),
           \/ k = "take" /\ l = "hungry"
           \/ k = "put" /\ l = "full",
           UNCHANGED state_sema
    PROVE  SemaInv'
<1>1. /\ pc \in [Phil -> Label] /\ pc[i] = k /\ ~ Waits(i)
      /\ value \in [Sem -> Nat] /\ sem_queue \in [Sem -> Seq(Phil)]
      /\ l \in Label /\ k \notin Critical /\ l \in Critical
      /\ \A x \in Sem : i \notin ToSet(sem_queue[x])
  BY Types, AtPlace DEF Critical, Label
<1>2. /\ Threads(Sem)' /\ pc' = [pc EXCEPT ![i] = l]
      /\ Taken(mutex) \/ Enqueued(i, mutex)
  BY DownStep, Semaphores DEF SemaInv
<1>3. /\ pc' \in [Phil -> Label] /\ pc'[i] = l
      /\ \A j \in Phil \ {i} : pc'[j] = pc[j]
  BY <1>1, <1>2
<1>4. ~ Inside(i)
  BY <1>1 DEF Inside
<1>5. /\ \A j \in Phil \ {i} : Waits(j)' <=> Waits(j)
      /\ \A j \in Phil : /\ value'[s(j)] = value[s(j)]
                         /\ sem_queue'[s(j)] = sem_queue[s(j)]
  BY <1>1, <1>2, Semaphores DEF Taken, Enqueued
<1>6. Phases'
  <2>1. Phase(i) => Phase(i)'
    BY <1>1, <1>3 DEF Phase
  <2>2. \A j \in Phil \ {i} : Phase(j) => Phase(j)'
    BY <1>3, <1>5 DEF Phase
  <2> QED
    BY <1>3, <2>1, <2>2 DEF SemaInv, Phases
<1>7. UnitsMatch'
  BY <1>1, <1>3, <1>5 DEF SemaInv, UnitsMatch
<1>8. CASE Taken(mutex)
  <2>1. /\ value[mutex] = 1 /\ value'[mutex] = 0 /\ UNCHANGED sem_queue
        /\ \A j \in Phil : Waits(j)' <=> Waits(j)
    BY <1>1, <1>8, Semaphores DEF Taken, SemaInv, Mutex
  <2>2. \A j \in Phil : ~ Inside(j)
    BY <2>1 DEF SemaInv, Mutex
  <2>3. \A j \in Phil : Inside(j)' <=> j = i
    BY <1>1, <1>3, <2>1, <2>2 DEF Inside
  <2>4. Mutex'
    BY <2>1, <2>3 DEF Mutex
  <2>5. Located'
    BY <1>1, <1>3, <2>1 DEF SemaInv, Located
  <2>6. Served'
    <3>1. \A j \in Phil : ~ CanEat(j)
      BY <2>2 DEF SemaInv, Served, Pending
    <3> QED
      BY <3>1 DEF Served, CanEat
  <2> QED
    BY <1>2, <1>6, <1>7, <2>4, <2>5, <2>6 DEF SemaInv
<1>9. CASE Enqueued(i, mutex)
  <2>1. /\ value[mutex] = 0 /\ UNCHANGED value /\ Waits(i)'
        /\ sem_queue' = [sem_queue EXCEPT ![mutex] = Append(@, i)]
    BY <1>9 DEF Enqueued
  <2>2. \A j \in Phil : Inside(j)' <=> Inside(j)
    BY <1>3, <1>4, <1>5, <2>1 DEF Inside
  <2>3. Mutex'
    BY <2>1, <2>2 DEF SemaInv, Mutex
  <2>4. \A x \in Sem, j \in Phil : j \in ToSet(sem_queue'[x]) =>
            j \in ToSet(sem_queue[x]) \/ (j = i /\ x = mutex)
    <3>1. sem_queue[mutex] \in Seq(Phil)
      BY <1>1, Semaphores
    <3>2. ToSet(Append(sem_queue[mutex], i)) = ToSet(sem_queue[mutex]) \cup {i}
      BY <3>1, AppendSet
    <3> QED
      BY <1>1, <2>1, <3>2, Semaphores
  <2>5. Located'
    BY <1>1, <1>3, <1>5, <2>1, <2>4 DEF SemaInv, Located
  <2>6. Served'
    <3>1. \A h \in Phil : Inside(h) => h # i
      BY <1>4
    <3> QED
      BY <1>3, <2>2, <3>1 DEF SemaInv, Served, CanEat, Pending
  <2> QED
    BY <1>2, <1>6, <1>7, <2>3, <2>5, <2>6 DEF SemaInv
<1> QED
  BY <1>2, <1>8, <1>9

\* up(&mutex): it is free, or given to the first who waits for it.
LEMMA UpMutexKeeps ==
    ASSUME SemaInv, NEW i \in Phil, NEW k, NEW l, At(i, k), Up(i, mutex, l),
           \/ k = "unlock" /\ l = "forks"
           \/ k = "done" /\ l = "think",
           UNCHANGED state_sema
    PROVE  SemaInv'
<1>1. /\ pc \in [Phil -> Label] /\ pc[i] = k /\ ~ Waits(i)
      /\ value \in [Sem -> Nat] /\ sem_queue \in [Sem -> Seq(Phil)]
      /\ l \in Label /\ k \in Critical /\ l \notin Critical
      /\ \A x \in Sem : i \notin ToSet(sem_queue[x])
      /\ Inside(i) /\ value[mutex] = 0 /\ \A j \in Phil : Inside(j) => j = i
  BY Types, AtPlace DEF Critical, Label
<1>2. /\ Threads(Sem)' /\ pc' = [pc EXCEPT ![i] = l]
      /\ Counted(mutex) \/ \E w \in Phil \ {i} : HandedTo(w, mutex)
  BY UpStep, Semaphores DEF SemaInv
<1>3. /\ pc' \in [Phil -> Label] /\ pc'[i] = l
      /\ \A j \in Phil \ {i} : pc'[j] = pc[j]
  BY <1>1, <1>2
<1>4. /\ \A j \in Phil : Waits(j)' => Waits(j)
      /\ \A j \in Phil : /\ value'[s(j)] = value[s(j)]
                         /\ sem_queue'[s(j)] = sem_queue[s(j)]
  BY <1>1, <1>2, Semaphores DEF Counted, HandedTo
<1>5. \A j \in Phil : pc[j] = "eat" => (Waits(j)' <=> Waits(j))
  <2>1. \A w \in Phil : HandedTo(w, mutex) => pc[w] # "eat"
    BY Semaphores DEF HandedTo, SemaInv, Located
  <2> QED
    BY <1>2, <2>1 DEF Counted, HandedTo
<1>6. Phases'
  <2>1. Phase(i) => Phase(i)'
    BY <1>1, <1>3 DEF Phase
  <2>2. \A j \in Phil \ {i} : Phase(j) => Phase(j)'
    BY <1>3, <1>5 DEF Phase
  <2> QED
    BY <1>3, <2>1, <2>2 DEF SemaInv, Phases
<1>7. UnitsMatch'
  BY <1>1, <1>3, <1>4 DEF SemaInv, UnitsMatch
<1>8. Served'
  <2>1. \A j \in Phil : ~ Pending(j)
    BY <1>1 DEF Pending
  <2>2. \A j \in Phil : ~ CanEat(j)
    BY <2>1 DEF SemaInv, Served
  <2> QED
    BY <2>2 DEF Served, CanEat
<1>9. CASE Counted(mutex)
  <2>1. /\ value'[mutex] = 1 /\ sem_queue[mutex] = << >> /\ UNCHANGED sem_queue
        /\ \A j \in Phil : Waits(j)' <=> Waits(j)
    BY <1>1, <1>9, Semaphores DEF Counted
  <2>2. \A j \in Phil : ~ Inside(j)'
    BY <1>1, <1>3, <2>1 DEF Inside
  <2>3. Mutex'
    BY <2>1, <2>2 DEF Mutex
  <2>4. Located'
    BY <1>1, <1>3, <2>1 DEF SemaInv, Located
  <2> QED
    BY <1>2, <1>6, <1>7, <1>8, <2>3, <2>4 DEF SemaInv
<1>10. ASSUME NEW w \in Phil \ {i}, HandedTo(w, mutex)
       PROVE  SemaInv'
  <2>1. /\ UNCHANGED value /\ Waits(w) /\ w \in ToSet(sem_queue[mutex])
        /\ sem_queue' = [sem_queue EXCEPT ![mutex] = Tail(@)]
        /\ \A j \in Phil : Waits(j)' <=> Waits(j) /\ j # w
    BY <1>10 DEF HandedTo
  <2>2. pc[w] \in {"hungry", "full"}
    BY <2>1, Semaphores DEF SemaInv, Located
  <2>3. \A j \in Phil : Inside(j)' <=> j = w
    BY <1>1, <1>3, <2>1, <2>2 DEF Inside, Critical
  <2>4. Mutex'
    BY <1>1, <2>1, <2>3 DEF Mutex
  <2>5. \A x \in Sem, j \in Phil :
            j \in ToSet(sem_queue'[x]) => j \in ToSet(sem_queue[x])
    <3>1. sem_queue[mutex] # << >> /\ mutex \in Sem /\ Threads(Sem)
      BY <1>10, Semaphores DEF HandedTo, SemaInv
    <3>2. \A x \in Sem, j \in Phil :
              j \in ToSet(sem_queue'[x]) <=>
                 j \in ToSet(sem_queue[x]) /\ j # Head(sem_queue[mutex])
      BY ONLY <2>1, <3>1, FirstWaiter
    <3> QED
      BY ONLY <3>2
  <2>6. Located'
    <3>1. Located
      BY DEF SemaInv
    <3>2. /\ ~ Waits(i)'
          /\ \A x \in Sem : i \notin ToSet(sem_queue'[x])
      BY <1>1, <2>1, <2>5
    <3>3. \A j \in Phil \ {i} : pc'[j] = pc[j] /\ (Waits(j)' => Waits(j))
      BY <1>3, <1>4
    <3> QED
      BY <2>5, <3>1, <3>2, <3>3 DEF Located
  <2> QED
    BY <1>2, <1>6, <1>7, <1>8, <2>4, <2>6 DEF SemaInv
<1> QED
  BY <1>2, <1>9, <1>10

\* down(&s[i]): the permission is there, or the philosopher waits for it.
LEMMA DownForksKeeps ==
    ASSUME SemaInv, NEW i \in Phil, At(i, "forks"), Down(i, s(i), "eat"),
           UNCHANGED state_sema
    PROVE  SemaInv'
<1>1. /\ pc \in [Phil -> Label] /\ pc[i] = "forks" /\ ~ Waits(i)
      /\ value \in [Sem -> Nat] /\ sem_queue \in [Sem -> Seq(Phil)]
      /\ s(i) \in Sem /\ s(i) # mutex
      /\ \A x \in Sem : i \notin ToSet(sem_queue[x])
  BY Types, AtPlace, Semaphores
<1>2. /\ Threads(Sem)' /\ pc' = [pc EXCEPT ![i] = "eat"]
      /\ Taken(s(i)) \/ Enqueued(i, s(i))
  BY <1>1, DownStep DEF SemaInv
<1>3. /\ pc' \in [Phil -> Label] /\ pc'[i] = "eat"
      /\ \A j \in Phil \ {i} : pc'[j] = pc[j]
  BY <1>1, <1>2 DEF Label
<1>4. /\ \A j \in Phil \ {i} : Waits(j)' <=> Waits(j)
      /\ \A j \in Phil \ {i} : /\ value'[s(j)] = value[s(j)]
                              /\ sem_queue'[s(j)] = sem_queue[s(j)]
      /\ value'[mutex] = value[mutex] /\ sem_queue'[mutex] = sem_queue[mutex]
  BY <1>1, <1>2, Semaphores DEF Taken, Enqueued
<1>5. \A j \in Phil : Inside(j)' <=> Inside(j)
  BY <1>1, <1>3, <1>4 DEF Inside, Critical
<1>6. Mutex'
  BY <1>4, <1>5 DEF SemaInv, Mutex
<1>7. Served'
  <2>1. \A h \in Phil : Inside(h) => h # i
    BY <1>1 DEF Inside, Critical
  <2> QED
    BY <1>3, <1>5, <2>1 DEF SemaInv, Served, CanEat, Pending
<1>8. /\ value[s(i)] = (IF state_sema[i] = "EATING" THEN 1 ELSE 0)
      /\ sem_queue[s(i)] = << >> /\ state_sema[i] \in {"HUNGRY", "EATING"}
  BY <1>1 DEF SemaInv, UnitsMatch, Phases, Phase
<1>9. /\ Waits(i)' <=> state_sema[i] = "HUNGRY"
      /\ value'[s(i)] = 0
      /\ sem_queue'[s(i)] = IF state_sema[i] = "HUNGRY" THEN <<i>> ELSE << >>
  <2>1. CASE Taken(s(i))
    BY <1>1, <1>8, <2>1 DEF Taken
  <2>2. CASE Enqueued(i, s(i))
    BY <1>1, <1>8, <2>2 DEF Enqueued
  <2> QED
    BY <1>2, <2>1, <2>2
<1>10. Phases'
  <2>1. Phase(i)'
    BY <1>3, <1>8, <1>9 DEF Phase
  <2>2. \A j \in Phil \ {i} : Phase(j) => Phase(j)'
    BY <1>3, <1>4 DEF Phase
  <2> QED
    BY <1>3, <2>1, <2>2 DEF SemaInv, Phases
<1>11. UnitsMatch'
  BY <1>3, <1>4, <1>9 DEF SemaInv, UnitsMatch
<1>12. Located'
  <2>1. ToSet(<<i>>) = {i} /\ ToSet(<< >>) = {}
    BY DEF ToSet
  <2>2. \A x \in Sem, j \in Phil : j \in ToSet(sem_queue'[x]) =>
            j \in ToSet(sem_queue[x]) \/ (j = i /\ x = s(i))
    BY <1>4, <1>9, <2>1, Semaphores
  <2>3. Located
    BY DEF SemaInv
  <2>4. \A j \in Phil : j # i => pc'[j] = pc[j] /\ (Waits(j)' => Waits(j))
    BY <1>3, <1>4
  <2>5. pc'[i] = "eat" /\ pc[i] = "forks"
    BY <1>1, <1>3, <1>4
  <2>6. \A x \in Sem : i \notin ToSet(sem_queue[x])
    BY <1>1, <2>3, <2>5 DEF Located, SemaInv, Threads
  <2> QED
    BY <1>1, <2>2, <2>3, <2>4, <2>5, <2>6 DEF Located
<1> QED
  BY <1>2, <1>6, <1>7, <1>10, <1>11, <1>12 DEF SemaInv

\* A philosopher inside says that it is hungry, or that it has eaten: it is about to
\* test whoever may eat now.
LEMMA SetStateKeeps ==
    ASSUME SemaInv, NEW i \in Phil, NEW k, NEW l, NEW phase, At(i, k),
           SetState(i, phase, l),
           \/ k = "hungry" /\ l = "test" /\ phase = "HUNGRY"
           \/ k = "full" /\ l = "left" /\ phase = "THINKING"
    PROVE  SemaInv'
<1>1. /\ pc \in [Phil -> Label] /\ pc[i] = k /\ ~ Waits(i)
      /\ state_sema \in [Phil -> {"THINKING", "HUNGRY", "EATING"}]
      /\ l \in Label /\ k \in Critical /\ l \in Critical
      /\ \A x \in Sem : i \notin ToSet(sem_queue[x])
      /\ Inside(i) /\ \A j \in Phil : Inside(j) => j = i
  BY Types, AtPlace DEF Critical, Label
<1>2. /\ state_sema' = [state_sema EXCEPT ![i] = phase]
      /\ pc' = [pc EXCEPT ![i] = l] /\ UNCHANGED <<value, sem_queue>>
      /\ Threads(Sem)' /\ \A j \in Phil : Waits(j)' <=> Waits(j)
  <2>1. UNCHANGED <<schedVars, semVars, call, iter, reaped, irq, panic>>
    BY DEF SetState
  <2> QED
    BY <2>1, SameThreads DEF SetState, Goto, semVars, SemaInv
<1>3. /\ pc' \in [Phil -> Label] /\ pc'[i] = l
      /\ \A j \in Phil \ {i} : pc'[j] = pc[j]
      /\ state_sema' \in [Phil -> {"THINKING", "HUNGRY", "EATING"}]
      /\ state_sema'[i] = phase
      /\ \A j \in Phil \ {i} : state_sema'[j] = state_sema[j]
  BY <1>1, <1>2
<1>4. \A j \in Phil : Inside(j)' <=> Inside(j)
  BY <1>1, <1>2, <1>3 DEF Inside
<1>5. Phases'
  <2>1. Phase(i)'
    BY <1>1, <1>3 DEF Phase
  <2>2. \A j \in Phil \ {i} : Phase(j) => Phase(j)'
    BY <1>2, <1>3 DEF Phase
  <2> QED
    BY <1>3, <2>1, <2>2 DEF SemaInv, Phases
<1>6. Mutex'
  BY <1>2, <1>4 DEF SemaInv, Mutex
<1>7. Located'
  BY <1>1, <1>2, <1>3 DEF SemaInv, Located
<1>8. UnitsMatch'
  BY <1>1, <1>2, <1>3 DEF SemaInv, UnitsMatch
<1>9. Served'
  <2>1. \A j \in Phil : ~ Pending(j)
    BY <1>1 DEF Pending
  <2>2. \A j \in Phil : ~ CanEat(j)
    BY <2>1 DEF SemaInv, Served
  <2>3. Inside(i)'
    BY <1>1, <1>4
  <2>4. ASSUME NEW j \in Phil, CanEat(j)'
        PROVE  Pending(j)'
    <3>1. CASE k = "hungry"
      <4>1. state_sema[i] = "THINKING"
        BY <1>1, <3>1 DEF SemaInv, Phases, Phase
      <4>2. j = i
        BY <1>1, <1>3, <2>2, <2>4, <3>1, <4>1, Neighbours DEF CanEat
      <4> QED
        BY <1>1, <1>3, <2>3, <3>1, <4>2 DEF Pending
    <3>2. CASE k = "full"
      <4>1. i = Left(j) \/ i = Right(j)
        BY <1>1, <1>3, <2>2, <2>4, <3>2, Neighbours DEF CanEat
      <4>2. j = Right(i) \/ j = Left(i)
        BY <4>1, Neighbours
      <4> QED
        BY <1>1, <1>3, <2>3, <3>2, <4>2 DEF Pending
    <3> QED
      BY <3>1, <3>2
  <2> QED
    BY <2>4 DEF Served
<1> QED
  BY <1>2, <1>5, <1>6, <1>7, <1>8, <1>9 DEF SemaInv

\* phi_test_sema(j), when j cannot eat.
LEMMA TestFailsKeeps ==
    ASSUME SemaInv, NEW i \in Phil, NEW j \in Phil, NEW k, NEW l, At(i, k),
           phi_test(i, j, l), ~ CanEat(j),
           \/ k = "test" /\ j = i /\ l = "unlock"
           \/ k = "left" /\ j = Left(i) /\ l = "right"
           \/ k = "right" /\ j = Right(i) /\ l = "done"
    PROVE  SemaInv'
<1>1. /\ pc \in [Phil -> Label] /\ pc[i] = k /\ ~ Waits(i)
      /\ l \in Label /\ k \in Critical /\ l \in Critical
      /\ \A x \in Sem : i \notin ToSet(sem_queue[x])
      /\ Inside(i) /\ \A h \in Phil : Inside(h) => h = i
  BY Types, AtPlace DEF Critical, Label
<1>2. /\ pc' = [pc EXCEPT ![i] = l] /\ UNCHANGED <<value, sem_queue, state_sema>>
      /\ Threads(Sem)' /\ \A h \in Phil : Waits(h)' <=> Waits(h)
  <2>1. UNCHANGED <<schedVars, semVars, call, iter, reaped, irq, panic>>
    BY DEF phi_test
  <2> QED
    BY <2>1, SameThreads DEF phi_test, Goto, semVars, SemaInv
<1>3. /\ pc' \in [Phil -> Label] /\ pc'[i] = l
      /\ \A h \in Phil \ {i} : pc'[h] = pc[h]
  BY <1>1, <1>2
<1>4. \A h \in Phil : Inside(h)' <=> Inside(h)
  BY <1>1, <1>2, <1>3 DEF Inside
<1>5. Phases'
  <2>1. Phase(i) => Phase(i)'
    BY <1>1, <1>2, <1>3 DEF Phase
  <2>2. \A h \in Phil \ {i} : Phase(h) => Phase(h)'
    BY <1>2, <1>3 DEF Phase
  <2> QED
    BY <1>2, <1>3, <2>1, <2>2 DEF SemaInv, Phases
<1>6. Mutex'
  BY <1>2, <1>4 DEF SemaInv, Mutex
<1>7. Located'
  BY <1>1, <1>2, <1>3 DEF SemaInv, Located
<1>8. UnitsMatch'
  <2>1. k = "test" => state_sema[i] = "HUNGRY"
    BY <1>1 DEF SemaInv, Phases, Phase
  <2> QED
    BY <1>1, <1>2, <1>3, <2>1 DEF SemaInv, UnitsMatch
<1>9. Served'
  <2>1. Inside(i)'
    BY <1>1, <1>4
  <2>2. ASSUME NEW h \in Phil, CanEat(h)
        PROVE  k = "left" /\ h = Right(i)
    <3>1. Pending(h)
      BY <2>2 DEF SemaInv, Served
    <3> QED
      BY <1>1, <2>2, <3>1 DEF Pending
  <2> QED
    BY <1>2, <1>3, <2>1, <2>2 DEF Served, CanEat, Pending
<1> QED
  BY <1>2, <1>5, <1>6, <1>7, <1>8, <1>9 DEF SemaInv

\* phi_test_sema(j), when j can eat: its permission is counted, or given to it
\* if it waits for it already.
LEMMA TestGrantsKeeps ==
    ASSUME SemaInv, NEW i \in Phil, NEW j \in Phil, NEW k, NEW l, At(i, k),
           phi_test(i, j, l), CanEat(j),
           \/ k = "test" /\ j = i /\ l = "unlock"
           \/ k = "left" /\ j = Left(i) /\ l = "right"
           \/ k = "right" /\ j = Right(i) /\ l = "done"
    PROVE  SemaInv'
<1>1. /\ pc \in [Phil -> Label] /\ pc[i] = k /\ ~ Waits(i)
      /\ state_sema \in [Phil -> {"THINKING", "HUNGRY", "EATING"}]
      /\ value \in [Sem -> Nat] /\ sem_queue \in [Sem -> Seq(Phil)]
      /\ l \in Label /\ k \in Critical /\ l \in Critical
      /\ \A x \in Sem : i \notin ToSet(sem_queue[x])
      /\ Inside(i) /\ \A h \in Phil : Inside(h) => h = i
  BY Types, AtPlace DEF Critical, Label
<1>2. /\ s(j) \in Sem /\ s(j) # mutex
      /\ \A h \in Phil : s(h) = s(j) => h = j
  BY Semaphores
<1>3. state_sema' = [state_sema EXCEPT ![j] = "EATING"] /\ Up(i, s(j), l)
  BY DEF phi_test
<1>4. /\ Threads(Sem)' /\ pc' = [pc EXCEPT ![i] = l]
      /\ Counted(s(j)) \/ \E w \in Phil \ {i} : HandedTo(w, s(j))
  BY <1>2, <1>3, UpStep DEF SemaInv
<1>5. /\ pc' \in [Phil -> Label] /\ pc'[i] = l
      /\ \A h \in Phil \ {i} : pc'[h] = pc[h]
      /\ state_sema' \in [Phil -> {"THINKING", "HUNGRY", "EATING"}]
      /\ state_sema'[j] = "EATING"
      /\ \A h \in Phil \ {j} : state_sema'[h] = state_sema[h]
  BY <1>1, <1>3, <1>4
<1>6. state_sema[j] = "HUNGRY" /\ pc[j] \in Label
  BY <1>1 DEF CanEat
\* j is at its own test, on the way to its forks, or waits for them.
<1>7. \/ j = i /\ k = "test"
      \/ j # i /\ pc[j] \in {"forks", "eat"} /\ k # "test"
  <2>1. j # i => k # "test" /\ ~ Inside(j)
    BY <1>1
  <2>2. j = i => k = "test"
    BY Neighbours
  <2>3. Phase(j) /\ (Waits(j) => pc[j] \in {"hungry", "full", "eat"})
    BY DEF SemaInv, Phases, Located
  <2>4. j # i => pc[j] \notin {"test", "unlock"}
    BY <2>1, <2>3 DEF Inside, Critical
  <2>5. pc[j] \in {"test", "unlock", "forks", "eat"}
    BY <1>6, <2>3 DEF Phase, Label
  <2> QED
    BY <2>1, <2>2, <2>4, <2>5
<1>8. /\ value[s(j)] = 0
      /\ sem_queue[s(j)] = IF pc[j] = "eat" THEN <<j>> ELSE << >>
  BY <1>6 DEF SemaInv, UnitsMatch
\* What up does, in both cases.
<1>9. /\ value' = [value EXCEPT ![s(j)] = IF pc[j] = "eat" THEN 0 ELSE 1]
      /\ sem_queue' = [sem_queue EXCEPT ![s(j)] = << >>]
      /\ \A h \in Phil : Waits(h)' <=> Waits(h) /\ ~ (h = j /\ pc[j] = "eat")
  <2>1. CASE pc[j] = "eat"
    <3>1. sem_queue[s(j)] = <<j>> /\ sem_queue[s(j)] # << >>
      BY <1>8, <2>1
    <3>2. PICK w \in Phil \ {i} : HandedTo(w, s(j))
      BY <1>4, <3>1 DEF Counted
    <3>3. Head(<<j>>) = j /\ Tail(<<j>>) = << >>
      OBVIOUS
    <3>4. w = j /\ sem_queue' = [sem_queue EXCEPT ![s(j)] = << >>]
      BY <1>1, <1>2, <3>1, <3>2, <3>3 DEF HandedTo
    <3>5. /\ UNCHANGED value
          /\ \A h \in Phil : Waits(h)' <=> Waits(h) /\ h # j
      BY <3>2, <3>4 DEF HandedTo
    <3>6. value' = [value EXCEPT ![s(j)] = 0]
      BY <1>1, <1>2, <1>8, <3>5
    <3> QED
      BY <2>1, <3>4, <3>5, <3>6
  <2>2. CASE pc[j] # "eat"
    <3>1. sem_queue[s(j)] = << >>
      BY <1>8, <2>2
    <3>2. Counted(s(j))
      BY <1>4, <3>1 DEF HandedTo
    <3>3. /\ UNCHANGED sem_queue
          /\ \A h \in Phil : Waits(h)' <=> Waits(h)
          /\ value' = [value EXCEPT ![s(j)] = @ + 1]
      BY <3>2 DEF Counted
    <3>4. sem_queue' = [sem_queue EXCEPT ![s(j)] = << >>]
      BY <1>1, <1>2, <3>1, <3>3
    <3>5. value' = [value EXCEPT ![s(j)] = 1]
      BY <1>1, <1>2, <1>8, <3>3
    <3> QED
      BY <2>2, <3>3, <3>4, <3>5
  <2> QED
    BY <2>1, <2>2
<1>10. /\ value'[mutex] = value[mutex] /\ sem_queue'[mutex] = sem_queue[mutex]
       /\ \A h \in Phil \ {j} : /\ value'[s(h)] = value[s(h)]
                               /\ sem_queue'[s(h)] = sem_queue[s(h)]
       /\ value'[s(j)] = (IF pc[j] = "eat" THEN 0 ELSE 1) /\ sem_queue'[s(j)] = << >>
  BY <1>1, <1>2, <1>9, Semaphores
<1>11. \A h \in Phil : Inside(h)' <=> Inside(h)
  BY <1>1, <1>5, <1>9 DEF Inside, Critical
<1>12. Phases'
  <2>1. ASSUME NEW h \in Phil
        PROVE  Phase(h)'
    <3>1. CASE h = j
      BY <1>1, <1>5, <1>7, <1>9, <3>1 DEF Phase
    <3>2. CASE h # j
      <4>1. Phase(h) /\ state_sema'[h] = state_sema[h] /\ (Waits(h)' <=> Waits(h))
        BY <1>5, <1>9, <3>2 DEF SemaInv, Phases
      <4> QED
        BY <1>1, <1>5, <3>2, <4>1 DEF Phase
    <3> QED
      BY <3>1, <3>2
  <2> QED
    BY <1>5, <2>1 DEF Phases
<1>13. Mutex'
  BY <1>10, <1>11 DEF SemaInv, Mutex
<1>14. Located'
  <2>1. ToSet(<< >>) = {}
    BY DEF ToSet
  <2>2. \A x \in Sem, h \in Phil :
            h \in ToSet(sem_queue'[x]) => h \in ToSet(sem_queue[x])
    BY <1>10, <2>1, Semaphores
  <2>3. \A h \in Phil : Waits(h)' => Waits(h)
    BY <1>9
  <2>4. ASSUME NEW h \in Phil
        PROVE  /\ Waits(h)' => pc'[h] \in {"hungry", "full", "eat"}
               /\ \A x \in Sem : h \in ToSet(sem_queue'[x]) =>
                     x = IF pc'[h] = "eat" THEN s(h) ELSE mutex
    <3>1. CASE h = i
      BY <1>1, <2>2, <2>3, <3>1
    <3>2. CASE h # i
      <4>1. pc'[h] = pc[h]
        BY <1>5, <3>2
      <4> QED
        BY <2>2, <2>3, <4>1 DEF SemaInv, Located
    <3> QED
      BY <3>1, <3>2
  <2> QED
    BY <2>4 DEF Located
<1>15. UnitsMatch'
  <2>1. ASSUME NEW h \in Phil
        PROVE  /\ value'[s(h)] = IF /\ state_sema'[h] = "EATING"
                                   /\ pc'[h] \in {"unlock", "forks"}
                                THEN 1 ELSE 0
               /\ sem_queue'[s(h)] = IF state_sema'[h] = "HUNGRY" /\ pc'[h] = "eat"
                                     THEN <<h>> ELSE << >>
    <3>1. CASE h = j
      BY <1>1, <1>5, <1>7, <1>10, <3>1
    <3>2. CASE h # j
      <4>1. h = i => k # "test" /\ l \notin {"unlock", "forks", "eat"}
        BY <1>7, <3>2
      <4> QED
        BY <1>1, <1>5, <1>10, <3>2, <4>1 DEF SemaInv, UnitsMatch
    <3> QED
      BY <3>1, <3>2
  <2> QED
    BY <2>1 DEF UnitsMatch
<1>16. Served'
  <2>1. Inside(i)'
    BY <1>1, <1>11
  <2>2. ASSUME NEW h \in Phil, CanEat(h)'
        PROVE  CanEat(h) /\ h # j
    BY <1>5, <1>6, <2>2, Neighbours DEF CanEat
  <2>3. ASSUME NEW h \in Phil, CanEat(h)'
        PROVE  k = "left" /\ h = Right(i)
    <3>1. Pending(h) /\ h # j
      BY <2>2, <2>3 DEF SemaInv, Served
    <3> QED
      BY <1>1, <3>1 DEF Pending
  <2> QED
    BY <1>5, <2>1, <2>3 DEF Served, Pending
<1> QED
  BY <1>4, <1>12, <1>13, <1>14, <1>15, <1>16 DEF SemaInv

----------------------------------------------------------------------------
(* The theorems *)

LEMMA SemaInvInitially == Init => SemaInv
<1> SUFFICES ASSUME Init PROVE SemaInv
  OBVIOUS
<1>1. /\ value = [x \in Sem |-> IF x = mutex THEN 1 ELSE 0]
      /\ sem_queue = [x \in Sem |-> << >>]
      /\ state_sema = [i \in Phil |-> "THINKING"]
      /\ ThreadsInit("think")
  BY DEF Init
<1>2. /\ value \in [Sem -> Nat] /\ value[mutex] = 1 /\ sem_queue[mutex] = << >>
      /\ \A i \in Phil : value[s(i)] = 0 /\ sem_queue[s(i)] = << >>
      /\ \A x \in Sem : ToSet(sem_queue[x]) = {}
  BY <1>1, Semaphores DEF ToSet
<1>3. /\ Threads(Sem) /\ pc = [i \in Phil |-> "think"]
      /\ \A i \in Phil : ~ Waits(i)
  BY <1>1, <1>2, ThreadsInitially
<1>4. \A i \in Phil : pc[i] = "think" /\ state_sema[i] = "THINKING" /\ ~ Inside(i)
  BY <1>1, <1>3 DEF Inside, Critical
<1>5. Phases
  BY <1>1, <1>3, <1>4 DEF Phases, Phase, Label
<1>6. Mutex /\ Located
  BY <1>2, <1>3, <1>4 DEF Mutex, Located
<1>7. UnitsMatch /\ Served
  BY <1>2, <1>4 DEF UnitsMatch, Served, CanEat
<1> QED
  BY <1>3, <1>5, <1>6, <1>7 DEF SemaInv

\* phi_test_sema(j), whatever its answer.
LEMMA TestKeeps ==
    ASSUME SemaInv, NEW i \in Phil, NEW j \in Phil, NEW k, NEW l, At(i, k),
           phi_test(i, j, l),
           \/ k = "test" /\ j = i /\ l = "unlock"
           \/ k = "left" /\ j = Left(i) /\ l = "right"
           \/ k = "right" /\ j = Right(i) /\ l = "done"
    PROVE  SemaInv'
  BY TestFailsKeeps, TestGrantsKeeps

\* Every statement of a philosopher.
LEMMA PhilosopherKeeps ==
    ASSUME SemaInv, NEW i \in Phil, Philosopher(i)
    PROVE  SemaInv'
<1>1. CASE ThinkOrQuit(i)
  <2>1. At(i, "think") /\ Think(i, "think", "take") /\ UNCHANGED state_sema
    BY <1>1 DEF ThinkOrQuit, Think
  <2>2. /\ Threads(Sem)' /\ UNCHANGED <<value, sem_queue>>
        /\ pc' = [pc EXCEPT ![i] = "take"] \/ UNCHANGED pc
        /\ \A j \in Phil : Waits(j)' <=> Waits(j)
    BY <2>1, ThinkStep DEF SemaInv
  <2> QED
    BY <2>1, <2>2, OutsideKeeps
<1>2. CASE TakeForks(i)
  <2>1. CASE At(i, "take") /\ Down(i, mutex, "hungry") /\ UNCHANGED state_sema
    BY <2>1, DownMutexKeeps
  <2>2. CASE At(i, "hungry") /\ SetState(i, "HUNGRY", "test")
    BY <2>2, SetStateKeeps
  <2>3. CASE At(i, "test") /\ phi_test(i, i, "unlock")
    BY <2>3, TestKeeps
  <2>4. CASE At(i, "unlock") /\ Up(i, mutex, "forks") /\ UNCHANGED state_sema
    BY <2>4, UpMutexKeeps
  <2>5. CASE At(i, "forks") /\ Down(i, s(i), "eat") /\ UNCHANGED state_sema
    BY <2>5, DownForksKeeps
  <2> QED
    BY <1>2, <2>1, <2>2, <2>3, <2>4, <2>5 DEF TakeForks
<1>3. CASE Eat(i)
  <2>1. At(i, "eat") /\ Sleep(i, "put") /\ UNCHANGED <<iter, state_sema>>
    BY <1>3 DEF Eat
  <2>2. iter' \in [Phil -> 0 .. TIMES]
    BY <2>1 DEF SemaInv, Threads, ThreadTypes
  <2>3. /\ Threads(Sem)' /\ UNCHANGED <<value, sem_queue>>
        /\ pc' = [pc EXCEPT ![i] = "put"]
        /\ \A j \in Phil : Waits(j)' <=> Waits(j)
    BY <2>1, <2>2, SleepStep DEF SemaInv
  <2> QED
    BY <2>1, <2>3, OutsideKeeps
<1>4. CASE PutForks(i)
  <2>1. CASE At(i, "put") /\ Down(i, mutex, "full") /\ UNCHANGED state_sema
    BY <2>1, DownMutexKeeps
  <2>2. CASE At(i, "full") /\ SetState(i, "THINKING", "left")
    BY <2>2, SetStateKeeps
  <2>3. CASE At(i, "left") /\ phi_test(i, Left(i), "right")
    BY <2>3, TestKeeps, Neighbours
  <2>4. CASE At(i, "right") /\ phi_test(i, Right(i), "done")
    BY <2>4, TestKeeps, Neighbours
  <2>5. CASE At(i, "done") /\ Up(i, mutex, "think") /\ UNCHANGED state_sema
    BY <2>5, UpMutexKeeps
  <2> QED
    BY <1>4, <2>1, <2>2, <2>3, <2>4, <2>5 DEF PutForks
<1> QED
  BY <1>1, <1>2, <1>3, <1>4 DEF Philosopher

LEMMA SemaInvKept == SemaInv /\ [Next]_allVars => SemaInv'
<1> SUFFICES ASSUME SemaInv, [Next]_allVars
             PROVE  SemaInv'
  OBVIOUS
<1>1. ASSUME NEW i \in Phil, Philosopher(i)
      PROVE  SemaInv'
  BY <1>1, PhilosopherKeeps
<1>2. ASSUME NEW p \in Proc, Thread(p), UNCHANGED state_sema
      PROVE  SemaInv'
  BY <1>2, KernelKeeps
<1>3. CASE Clock \/ Handler
  BY <1>3, KernelKeeps DEF Clock, Handler
<1>4. CASE Returned \/ UNCHANGED allVars
  BY <1>4, KernelKeeps DEF Returned, Finished, allVars
<1> QED
  BY <1>1, <1>2, <1>3, <1>4 DEF Next, Cpu

LEMMA SemaInvariance == Spec => []SemaInv
  BY SemaInvInitially, SemaInvKept, PTL DEF Spec

\* s[i] holds exactly the permission that state_sema[i] speaks of, be it counted
\* in value or handed to the waiter (up and down of sem.c, phi_test_sema): none is
\* lost between the two, none is given twice.
THEOREM PermissionsAlwaysMatch == Spec => []UnitsMatch
<1>1. SemaInv => UnitsMatch
  BY DEF SemaInv
<1> QED
  BY <1>1, SemaInvariance, PTL

\* While the mutex is free nobody waits who could eat (phi_put_forks_sema tests both
\* neighbours before its up(&mutex)).
THEOREM NobodyWaitsWithoutReason == Spec => []BlockedForAReason
<1>1. SemaInv => BlockedForAReason
  BY DEF SemaInv, Mutex, Served, Pending, BlockedForAReason
<1> QED
  BY <1>1, SemaInvariance, PTL

\* No assertion fails: down's assert(flags == 0) after its schedule, wakeup_proc's and
\* wakeup_wait's, those of the timer list and of the run queue (sem.c, wait.c, sched.c).
THEOREM SemaphoresNeverPanic == Spec => []NoPanic
<1>1. SemaInv => NoPanic
  BY DEF SemaInv, Threads
<1> QED
  BY <1>1, SemaInvariance, PTL

\* Every step of the philosophers (check_sync.c) is one of the table's, or changes
\* nothing there: neighbours never eat at the same time.
THEOREM SemaphoresImplementTable == Spec => ImplementsTable
<1>1. Init => T!Init
  BY DEF Init, T!Init, T!Phil, Phil
<1>2. SemaInv /\ [Next]_allVars => [T!Next]_state_sema
  <2> SUFFICES ASSUME SemaInv, [Next]_allVars, state_sema' # state_sema
               PROVE  T!Next
    OBVIOUS
  <2>1. PICK i \in Phil : Philosopher(i)
    BY DEF Next, Cpu, Clock, Handler, Returned, Finished, allVars
  <2>2. ASSUME NEW j \in Phil, NEW l, phi_test(i, j, l)
        PROVE  T!Eat(j)
    <3>1. CanEat(j) /\ state_sema' = [state_sema EXCEPT ![j] = "EATING"]
      BY <2>2 DEF phi_test
    <3> QED
      BY <3>1 DEF CanEat, T!Eat, T!Left, T!Right, Left, Right
  <2>3. \A j \in Phil : T!Hungry(j) \/ T!Eat(j) \/ T!Think(j) => T!Next
    BY DEF T!Next, T!Phil, Phil
  <2>4. CASE ThinkOrQuit(i) \/ Eat(i)
    BY <2>4 DEF ThinkOrQuit, Eat
  <2>5. CASE TakeForks(i)
    <3>1. CASE At(i, "hungry") /\ SetState(i, "HUNGRY", "test")
      <4>1. state_sema[i] = "THINKING"
        BY <3>1, AtPlace DEF SemaInv, Phases, Phase
      <4>2. T!Hungry(i)
        BY <3>1, <4>1 DEF SetState, T!Hungry
      <4> QED
        BY <2>3, <4>2
    <3>2. CASE At(i, "test") /\ phi_test(i, i, "unlock")
      BY <2>2, <2>3, <3>2
    <3> QED
      BY <2>5, <3>1, <3>2 DEF TakeForks
  <2>6. CASE PutForks(i)
    <3>1. CASE At(i, "full") /\ SetState(i, "THINKING", "left")
      <4>1. state_sema[i] = "EATING"
        BY <3>1, AtPlace DEF SemaInv, Phases, Phase
      <4>2. T!Think(i)
        BY <3>1, <4>1 DEF SetState, T!Think
      <4> QED
        BY <2>3, <4>2
    <3>2. CASE \/ phi_test(i, Left(i), "right")
               \/ phi_test(i, Right(i), "done")
      BY <2>2, <2>3, <3>2, Neighbours
    <3> QED
      BY <2>6, <3>1, <3>2 DEF PutForks
  <2> QED
    BY <2>1, <2>4, <2>5, <2>6 DEF Philosopher
<1> QED
  BY <1>1, <1>2, SemaInvariance, PTL DEF Spec, ImplementsTable, T!Spec

\* What the table is for: nobody eats beside somebody who eats (check_sync.c), for any
\* number of philosophers.
THEOREM NeighboursNeverEatTogether ==
    Spec => [](\A i \in Phil : state_sema[i] = "EATING" => state_sema[Right(i)] # "EATING")
<1> DEFINE Apart ==
        /\ state_sema \in [Phil -> {"THINKING", "HUNGRY", "EATING"}]
        /\ \A i \in Phil : state_sema[i] = "EATING" => state_sema[Right(i)] # "EATING"
<1>1. T!Init => Apart
  BY Neighbours DEF T!Init, T!Phil, Phil
<1>2. Apart /\ [T!Next]_state_sema => Apart'
  <2> SUFFICES ASSUME Apart, T!Next
               PROVE  Apart'
    OBVIOUS
  <2>1. PICK j \in Phil : T!Hungry(j) \/ T!Eat(j) \/ T!Think(j)
    BY DEF T!Next, T!Phil, Phil
  <2>2. CASE T!Hungry(j) \/ T!Think(j)
    BY <2>2, Neighbours DEF T!Hungry, T!Think
  <2>3. CASE T!Eat(j)
    <3>1. /\ state_sema' = [state_sema EXCEPT ![j] = "EATING"]
          /\ state_sema[Left(j)] # "EATING" /\ state_sema[Right(j)] # "EATING"
      BY <2>3 DEF T!Eat, T!Left, T!Right, Left, Right
    <3>2. ASSUME NEW i \in Phil, state_sema'[i] = "EATING"
          PROVE  state_sema'[Right(i)] # "EATING"
      <4>1. CASE i = j
        BY <3>1, <4>1, Neighbours
      <4>2. CASE Right(i) = j
        BY <3>1, <3>2, <4>2, Neighbours
      <4>3. CASE i # j /\ Right(i) # j
        BY <3>1, <3>2, <4>3, Neighbours
      <4> QED
        BY <4>1, <4>2, <4>3
    <3> QED
      BY <3>1, <3>2
  <2> QED
    BY <2>1, <2>2, <2>3
<1>3. Apart => \A i \in Phil : state_sema[i] = "EATING" => state_sema[Right(i)] # "EATING"
  OBVIOUS
<1> QED
  BY <1>1, <1>2, <1>3, SemaphoresImplementTable, PTL DEF ImplementsTable, T!Spec
=============================================================================
