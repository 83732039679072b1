-------------------------- MODULE ResourcesProofs ---------------------------
(***************************************************************************)
(* Theorems about Resources, for any processes, files and failures.  The   *)
(* functions of mem and of fs get a lemma each that says what they change;  *)
(* a system call changes only what one process owns (OnlyOf, OnlyFiles), so *)
(* that its action needs no look at the others.                            *)
(***************************************************************************)
EXTENDS Resources, TLAPS, FiniteSetTheorems, NaturalsInduction, WellFoundedInduction

----------------------------------------------------------------------------
(* The mm_struct of one process *)

\* x is m but for the mm_struct of p, which is v in it.
OnlyMms(x, m, p, v) ==
    /\ x \in Mem
    /\ x.mms = [m.mms EXCEPT ![p] = v]
    /\ x.kstack = m.kstack /\ x.mm = m.mm /\ x.pgdir = m.pgdir
    /\ x.satp = m.satp /\ x.panic = m.panic

\* An mm_struct, by its fields.
MmStruct(n, d, v) == [mm_count |-> n, pgdir |-> d, mapped |-> v]

\* Assigning a field of an mm_struct leaves the others as they are.
LEMMA MmFields ==
    ASSUME NEW r \in Mm, NEW x
    PROVE  /\ [r EXCEPT !.mm_count = x] = MmStruct(x, r.pgdir, r.mapped)
           /\ [r EXCEPT !.pgdir = x] = MmStruct(r.mm_count, x, r.mapped)
           /\ [r EXCEPT !.mapped = x] = MmStruct(r.mm_count, r.pgdir, x)
  BY DEF Mm, MmStruct

\* An mm_struct made of a count and two flags is one, with these fields.
LEMMA MmType ==
    ASSUME NEW n \in Nat, NEW d \in BOOLEAN, NEW v \in BOOLEAN
    PROVE  /\ MmStruct(n, d, v) \in Mm
           /\ MmStruct(n, d, v).mm_count = n /\ MmStruct(n, d, v).pgdir = d
           /\ MmStruct(n, d, v).mapped = v
  BY DEF Mm, MmStruct

\* Writing the mm_struct of p changes nothing else in mem.
LEMMA SetMms ==
    ASSUME NEW m \in Mem, NEW p \in Proc, NEW v \in Mm \cup {NULL}
    PROVE  OnlyMms([m EXCEPT !.mms[p] = v], m, p, v) /\ m.mms[p] \in Mm \cup {NULL}
  BY DEF OnlyMms, Mem

\* mm_create leaves p with an mm_struct of count 0 that has nothing.
LEMMA MmCreate ==
    ASSUME NEW m \in Mem, NEW p \in Proc
    PROVE  OnlyMms(mm_create(m, p), m, p, MmStruct(0, FALSE, FALSE))
  BY MmType, SetMms DEF mm_create, MmStruct

\* setup_pgdir gives the mm_struct of p its page directory.
LEMMA SetupPgdir ==
    ASSUME NEW m \in Mem, NEW p \in Proc, m.mms[p] \in Mm
    PROVE  OnlyMms(setup_pgdir(m, p), m, p, MmStruct(m.mms[p].mm_count, TRUE, m.mms[p].mapped))
<1>. DEFINE x == [m.mms[p] EXCEPT !.pgdir = TRUE]
<1>1. x = MmStruct(m.mms[p].mm_count, TRUE, m.mms[p].mapped)
  BY MmFields
<1>2. m.mms[p].mm_count \in Nat /\ m.mms[p].mapped \in BOOLEAN
  BY DEF Mm
<1>3. x \in Mm
  <2>1. MmStruct(m.mms[p].mm_count, TRUE, m.mms[p].mapped) \in Mm
    BY <1>2 DEF MmStruct, Mm
  <2> QED
    BY <1>1, <2>1
<1>4. setup_pgdir(m, p) = [m EXCEPT !.mms[p] = x]
  BY DEF setup_pgdir
<1> HIDE DEF x
<1>5. OnlyMms([m EXCEPT !.mms[p] = x], m, p, x)
  BY <1>3, SetMms
<1> QED
  BY <1>1, <1>4, <1>5

\* mm_map, and what is read into the area, makes the mm_struct of p mapped.
LEMMA MmMap ==
    ASSUME NEW m \in Mem, NEW p \in Proc, m.mms[p] \in Mm
    PROVE  OnlyMms(mm_map(m, p), m, p, MmStruct(m.mms[p].mm_count, m.mms[p].pgdir, TRUE))
<1>. DEFINE x == [m.mms[p] EXCEPT !.mapped = TRUE]
<1>1. x = MmStruct(m.mms[p].mm_count, m.mms[p].pgdir, TRUE)
  BY MmFields
<1>2. m.mms[p].mm_count \in Nat /\ m.mms[p].pgdir \in BOOLEAN
  BY DEF Mm
<1>3. x \in Mm
  <2>1. MmStruct(m.mms[p].mm_count, m.mms[p].pgdir, TRUE) \in Mm
    BY <1>2 DEF MmStruct, Mm
  <2> QED
    BY <1>1, <2>1
<1>4. mm_map(m, p) = [m EXCEPT !.mms[p] = x]
  BY DEF mm_map
<1> HIDE DEF x
<1>5. OnlyMms([m EXCEPT !.mms[p] = x], m, p, x)
  BY <1>3, SetMms
<1> QED
  BY <1>1, <1>4, <1>5

\* put_pgdir frees the page directory of p.
LEMMA PutPgdir ==
    ASSUME NEW m \in Mem, NEW p \in Proc, m.mms[p] \in Mm
    PROVE  OnlyMms(put_pgdir(m, p), m, p, MmStruct(m.mms[p].mm_count, FALSE, m.mms[p].mapped))
<1>. DEFINE x == [m.mms[p] EXCEPT !.pgdir = FALSE]
<1>1. x = MmStruct(m.mms[p].mm_count, FALSE, m.mms[p].mapped)
  BY MmFields
<1>2. m.mms[p].mm_count \in Nat /\ m.mms[p].mapped \in BOOLEAN
  BY DEF Mm
<1>3. x \in Mm
  <2>1. MmStruct(m.mms[p].mm_count, FALSE, m.mms[p].mapped) \in Mm
    BY <1>2 DEF MmStruct, Mm
  <2> QED
    BY <1>1, <2>1
<1>4. put_pgdir(m, p) = [m EXCEPT !.mms[p] = x]
  BY DEF put_pgdir
<1> HIDE DEF x
<1>5. OnlyMms([m EXCEPT !.mms[p] = x], m, p, x)
  BY <1>3, SetMms
<1> QED
  BY <1>1, <1>4, <1>5

\* The assert mm_count(mm) == 0 does not fail where the count is 0.
LEMMA SetMmsPanic ==
    ASSUME NEW m \in Mem, NEW p \in Proc, NEW v \in Mm \cup {NULL}, NEW b,
           m.mms[p].mm_count = 0, ~m.panic, b = (m.panic \/ m.mms[p].mm_count # 0)
    PROVE  OnlyMms([m EXCEPT !.mms[p] = v, !.panic = b], m, p, v)
<1>1. b = FALSE /\ m.panic = FALSE
  BY DEF Mem
<1>2. OnlyMms([m EXCEPT !.mms[p] = v, !.panic = FALSE], m, p, v)
  BY <1>1 DEF OnlyMms, Mem
<1> QED
  BY <1>1, <1>2

\* exit_mmap of an unused mm_struct unmaps it, and its assert holds.
LEMMA ExitMmap ==
    ASSUME NEW m \in Mem, NEW p \in Proc, m.mms[p] \in Mm, m.mms[p].mm_count = 0,
           ~m.panic
    PROVE  OnlyMms(exit_mmap(m, p), m, p, MmStruct(0, m.mms[p].pgdir, FALSE))
<1>. DEFINE x == [m.mms[p] EXCEPT !.mapped = FALSE]
            b == m.panic \/ m.mms[p].mm_count # 0
<1>1. x = MmStruct(0, m.mms[p].pgdir, FALSE)
  BY MmFields
<1>2. m.mms[p].pgdir \in BOOLEAN
  BY DEF Mm
<1>3. x \in Mm
  <2>1. MmStruct(0, m.mms[p].pgdir, FALSE) \in Mm
    BY <1>2 DEF MmStruct, Mm
  <2> QED
    BY <1>1, <2>1
<1>4. exit_mmap(m, p) = [m EXCEPT !.mms[p] = x, !.panic = b]
  BY DEF exit_mmap
<1>5. OnlyMms([m EXCEPT !.mms[p] = x, !.panic = b], m, p, x)
  BY <1>3, SetMmsPanic
<1> QED
  BY <1>1, <1>4, <1>5

\* mm_destroy of an unused mm_struct frees it, and its assert holds.
LEMMA MmDestroy ==
    ASSUME NEW m \in Mem, NEW p \in Proc, m.mms[p].mm_count = 0, ~m.panic
    PROVE  OnlyMms(mm_destroy(m, p), m, p, NULL)
<1>. DEFINE b == m.panic \/ m.mms[p].mm_count # 0
<1>1. mm_destroy(m, p) = [m EXCEPT !.mms[p] = NULL, !.panic = b]
  BY DEF mm_destroy
<1>2. OnlyMms([m EXCEPT !.mms[p] = NULL, !.panic = b], m, p, NULL)
  BY SetMmsPanic
<1> QED
  BY <1>1, <1>2

\* Of two writes of the mm_struct of p the second is what is left.
LEMMA OnlyTwice ==
    ASSUME NEW m \in Mem, NEW p \in Proc, NEW x, NEW y, NEW v, NEW w,
           OnlyMms(x, m, p, v), OnlyMms(y, x, p, w)
    PROVE  OnlyMms(y, m, p, w) /\ x.mms[p] = v /\ x \in Mem
  BY DEF OnlyMms, Mem

\* exit_mmap, put_pgdir and mm_destroy of an unused mm_struct leave nothing of it:
\* the label bad_cleanup_mmap, and the end of do_exit.
LEMMA Cleanup ==
    ASSUME NEW m \in Mem, NEW p \in Proc, m.mms[p] \in Mm, m.mms[p].mm_count = 0,
           ~m.panic
    PROVE  OnlyMms(bad_cleanup_mmap(m, p), m, p, NULL)
<1>. DEFINE a == exit_mmap(m, p)
            b == put_pgdir(a, p)
<1>1. m.mms[p].pgdir \in BOOLEAN
  BY DEF Mm
<1>2. OnlyMms(a, m, p, MmStruct(0, m.mms[p].pgdir, FALSE))
  BY ExitMmap
<1>3. a \in Mem /\ a.mms[p] = MmStruct(0, m.mms[p].pgdir, FALSE) /\ ~a.panic
  BY <1>2 DEF OnlyMms, Mem
<1>4. a.mms[p] \in Mm /\ a.mms[p].mm_count = 0 /\ a.mms[p].mapped = FALSE
  <2>1. /\ MmStruct(0, m.mms[p].pgdir, FALSE) \in Mm
        /\ MmStruct(0, m.mms[p].pgdir, FALSE).mm_count = 0
        /\ MmStruct(0, m.mms[p].pgdir, FALSE).mapped = FALSE
    BY <1>1 DEF MmStruct, Mm
  <2> QED
    BY <1>3, <2>1
<1> HIDE DEF a
<1>5. OnlyMms(b, a, p, MmStruct(0, FALSE, FALSE))
  BY <1>3, <1>4, PutPgdir
<1> HIDE DEF b
<1>6. b \in Mem /\ b.mms[p] = MmStruct(0, FALSE, FALSE) /\ ~b.panic
  BY <1>3, <1>5 DEF OnlyMms, Mem
<1>6a. OnlyMms(b, m, p, MmStruct(0, FALSE, FALSE))
  <2>. DEFINE v == MmStruct(0, m.mms[p].pgdir, FALSE)
              w == MmStruct(0, FALSE, FALSE)
  <2>1. OnlyMms(a, m, p, v) /\ OnlyMms(b, a, p, w)
    BY <1>2, <1>5
  <2> HIDE DEF v, w
  <2>2. OnlyMms(b, m, p, w)
    BY <2>1, OnlyTwice
  <2> QED
    BY <2>2 DEF w
<1>7. b.mms[p].mm_count = 0
  BY <1>6 DEF MmStruct
<1>8. OnlyMms(mm_destroy(b, p), b, p, NULL)
  BY <1>6, <1>7, MmDestroy
<1>9. OnlyMms(mm_destroy(b, p), m, p, NULL)
  <2>. DEFINE v == MmStruct(0, FALSE, FALSE)
              c == mm_destroy(b, p)
  <2>1. OnlyMms(b, m, p, v) /\ OnlyMms(c, b, p, NULL)
    BY <1>6a, <1>8
  <2> HIDE DEF v, c
  <2>2. OnlyMms(c, m, p, NULL)
    BY <2>1, OnlyTwice
  <2> QED
    BY <2>2 DEF c
<1> QED
  BY <1>9 DEF bad_cleanup_mmap, a, b

\* What copy_mm and load_icode have made when everything is mapped.
LEMMA MmMade ==
    ASSUME NEW m \in Mem, NEW p \in Proc
    PROVE  OnlyMms(mm_map(setup_pgdir(mm_create(m, p), p), p), m, p, MmStruct(0, TRUE, TRUE))
<1>. DEFINE a == mm_create(m, p)
            b == setup_pgdir(a, p)
<1>1. OnlyMms(a, m, p, MmStruct(0, FALSE, FALSE))
  BY MmCreate
<1>2. a \in Mem /\ a.mms[p] = MmStruct(0, FALSE, FALSE)
  BY <1>1, OnlyTwice DEF OnlyMms, Mem
<1>3. a.mms[p] \in Mm /\ a.mms[p].mm_count = 0 /\ a.mms[p].mapped = FALSE
  <2>1. /\ MmStruct(0, FALSE, FALSE) \in Mm /\ MmStruct(0, FALSE, FALSE).mm_count = 0
        /\ MmStruct(0, FALSE, FALSE).mapped = FALSE
    BY DEF MmStruct, Mm
  <2> QED
    BY <1>2, <2>1
<1>4. OnlyMms(b, a, p, MmStruct(0, TRUE, FALSE))
  BY <1>2, <1>3, SetupPgdir
<1>5. OnlyMms(b, m, p, MmStruct(0, TRUE, FALSE)) /\ b \in Mem
  BY <1>1, <1>2, <1>4, OnlyTwice DEF OnlyMms
<1>6. b.mms[p] = MmStruct(0, TRUE, FALSE)
  BY <1>5 DEF OnlyMms, Mem
<1>7. b.mms[p] \in Mm /\ b.mms[p].mm_count = 0 /\ b.mms[p].pgdir = TRUE
  <2>1. /\ MmStruct(0, TRUE, FALSE) \in Mm /\ MmStruct(0, TRUE, FALSE).mm_count = 0
        /\ MmStruct(0, TRUE, FALSE).pgdir = TRUE
    BY DEF MmStruct, Mm
  <2> QED
    BY <1>6, <2>1
<1>8. OnlyMms(mm_map(b, p), b, p, MmStruct(0, TRUE, TRUE))
  BY <1>5, <1>7, MmMap
<1>. DEFINE c == mm_map(b, p)
            v == MmStruct(0, TRUE, FALSE)
            w == MmStruct(0, TRUE, TRUE)
<1>9. OnlyMms(b, m, p, v) /\ OnlyMms(c, b, p, w)
  BY <1>5, <1>8
<1> HIDE DEF a, b, c, v, w
<1>10. OnlyMms(c, m, p, w)
  BY <1>9, OnlyTwice
<1> QED
  BY <1>10 DEF a, b, c, w

----------------------------------------------------------------------------
(* Steps, as far as the address spaces go *)

\* The mm of a live process.
InUse == MmStruct(1, TRUE, TRUE)

\* x is m but for what p owns in it; no assert has failed on the way.
OnlyOf(x, m, p) ==
    /\ x \in Mem /\ ~x.panic
    /\ \A q \in Proc \ {p} :
        x.mms[q] = m.mms[q] /\ (q \in x.mm <=> q \in m.mm) /\ (q \in x.pgdir <=> q \in m.pgdir)

\* good_mm puts the mm that was made in use, by p alone.
LEMMA GoodMm ==
    ASSUME NEW m \in Mem, NEW p \in Proc, m.mms[p] = MmStruct(0, TRUE, TRUE), ~m.panic
    PROVE  LET x == good_mm(m, p)
           IN  /\ OnlyOf(x, m, p) /\ x.mms[p] = InUse
               /\ p \in x.mm /\ p \in x.pgdir
               /\ x.satp = m.satp /\ x.kstack = m.kstack
<1>. DEFINE r == [m.mms[p] EXCEPT !.mm_count = @ + 1]
<1>1. m.mms[p] \in Mm /\ m.mms[p].mm_count + 1 = 1
  BY DEF MmStruct, Mm
<1>2. r = InUse
  <2>1. r = MmStruct(m.mms[p].mm_count + 1, m.mms[p].pgdir, m.mms[p].mapped)
    BY <1>1, MmFields
  <2>2. m.mms[p].pgdir = TRUE /\ m.mms[p].mapped = TRUE
    BY DEF MmStruct
  <2> QED
    BY <1>1, <2>1, <2>2 DEF InUse
<1>3. InUse \in Mm
  BY DEF InUse, MmStruct, Mm
<1>4. good_mm(m, p) = [m EXCEPT !.mms[p] = r, !.mm = @ \cup {p}, !.pgdir = @ \cup {p}]
  BY DEF good_mm
<1> HIDE DEF r
<1>5. good_mm(m, p) = [m EXCEPT !.mms[p] = InUse, !.mm = @ \cup {p}, !.pgdir = @ \cup {p}]
  BY <1>2, <1>4
<1> DEFINE x == good_mm(m, p)
<1>6. /\ x \in Mem /\ x.mms = [m.mms EXCEPT ![p] = InUse]
      /\ x.mm = m.mm \cup {p} /\ x.pgdir = m.pgdir \cup {p}
      /\ x.satp = m.satp /\ x.kstack = m.kstack /\ x.panic = m.panic
  <2> DEFINE f == [m.mms EXCEPT ![p] = InUse]
             g == m.mm \cup {p}
             h == m.pgdir \cup {p}
  <2>1. f \in [Proc -> Mm \cup {NULL}] /\ g \in SUBSET Proc /\ h \in SUBSET Proc
    BY <1>3 DEF Mem
  <2>2. x = [m EXCEPT !.mms = f, !.mm = g, !.pgdir = h]
    BY <1>5 DEF Mem
  <2> HIDE DEF x, f, g, h
  <2>3. /\ x \in Mem /\ x.mms = f /\ x.mm = g /\ x.pgdir = h
        /\ x.satp = m.satp /\ x.kstack = m.kstack /\ x.panic = m.panic
    BY <2>1, <2>2 DEF Mem
  <2> QED
    BY <2>3 DEF f, g, h
<1> HIDE DEF x
<1>7. x.mms[p] = InUse /\ \A q \in Proc \ {p} : x.mms[q] = m.mms[q]
  BY <1>6 DEF Mem
<1>8. OnlyOf(x, m, p)
  BY <1>6, <1>7 DEF OnlyOf
<1> QED
  BY <1>6, <1>7, <1>8 DEF x

\* do_exit and do_execve of a p that is the only user of its mm leave no mm, with
\* boot_pgdir in satp; the asserts on the way hold.
LEMMA DropMm ==
    ASSUME NEW m \in Mem, NEW p \in Proc, p \in m.mm, m.mms[p] = InUse, ~m.panic
    PROVE  LET x == drop_mm(m, p)
           IN  /\ OnlyOf(x, m, p) /\ x.mms[p] = NULL /\ p \notin x.mm
               /\ x.satp = NULL /\ x.kstack = m.kstack
<1>. DEFINE r == [m.mms[p] EXCEPT !.mm_count = @ - 1]
            left == [lsatp(m, NULL) EXCEPT !.mms[p].mm_count = @ - 1, !.mm = @ \ {p}]
            y == [m EXCEPT !.satp = NULL, !.mms[p] = MmStruct(0, TRUE, TRUE), !.mm = @ \ {p}]
<1>1. m.mms[p] \in Mm /\ m.mms[p].mm_count - 1 = 0
  BY DEF InUse, MmStruct, Mm
<1>2. r = MmStruct(0, TRUE, TRUE)
  <2>1. r = MmStruct(m.mms[p].mm_count - 1, m.mms[p].pgdir, m.mms[p].mapped)
    BY <1>1, MmFields
  <2>2. m.mms[p].pgdir = TRUE /\ m.mms[p].mapped = TRUE
    BY DEF InUse, MmStruct
  <2> QED
    BY <1>1, <2>1, <2>2
<1>3. MmStruct(0, TRUE, TRUE) \in Mm /\ MmStruct(0, TRUE, TRUE).mm_count = 0
  BY DEF MmStruct, Mm
<1>4. left = y
  <2>1. lsatp(m, NULL) \in Mem /\ lsatp(m, NULL) = [m EXCEPT !.satp = NULL]
    BY DEF lsatp, Mem
  <2>2. lsatp(m, NULL).mms = m.mms /\ lsatp(m, NULL).mm = m.mm
    BY <2>1 DEF Mem
  <2> DEFINE z == lsatp(m, NULL)
             rz == [z.mms[p] EXCEPT !.mm_count = @ - 1]
  <2>3. left = [z EXCEPT !.mms[p] = rz, !.mm = @ \ {p}]
    OBVIOUS
  <2>4. rz = MmStruct(0, TRUE, TRUE)
    BY <1>2, <2>2
  <2> HIDE DEF z, rz
  <2>5. left = [z EXCEPT !.mms[p] = MmStruct(0, TRUE, TRUE), !.mm = @ \ {p}]
    BY <2>3, <2>4
  <2> QED
    BY <2>1, <2>5 DEF Mem, z
<1>5. /\ y \in Mem /\ y.mms[p] = MmStruct(0, TRUE, TRUE) /\ ~y.panic
      /\ OnlyOf(y, m, p) /\ p \notin y.mm /\ y.satp = NULL /\ y.kstack = m.kstack
  BY <1>3 DEF OnlyOf, Mem
<1>6. drop_mm(m, p) = bad_cleanup_mmap(left, p)
  BY <1>3, <1>4, <1>5 DEF drop_mm
<1> HIDE DEF left, y
<1>7. OnlyMms(bad_cleanup_mmap(y, p), y, p, NULL)
  BY <1>3, <1>5, Cleanup
<1> QED
  BY <1>4, <1>5, <1>6, <1>7 DEF OnlyMms, OnlyOf, Mem

\* load_icode into a p without an mm puts one in use, and in satp, or undoes what it
\* has made - unless the memory for uargv is refused (see the README).
LEMMA LoadIcode ==
    ASSUME NEW m \in Mem, NEW p \in Proc, p \notin m.mm, ~m.panic, NEW at,
           at # "load_uargv"
    PROVE  LET x == load_icode(m, p, at)
           IN  /\ OnlyOf(x, m, p) /\ x.kstack = m.kstack
               /\ \/ /\ at \in ExecFails /\ p \notin x.mm /\ x.satp = m.satp
                     /\ x.mms[p] \in {m.mms[p], NULL}
                  \/ /\ p \in x.mm /\ p \in x.pgdir /\ x.satp = p /\ x.mms[p] = InUse
<1>. DEFINE x == load_icode(m, p, at)
            created == mm_create(m, p)
            mapped == mm_map(setup_pgdir(created, p), p)
            good == good_mm(mapped, p)
<1>1. /\ OnlyMms(created, m, p, MmStruct(0, FALSE, FALSE))
      /\ OnlyMms(mapped, m, p, MmStruct(0, TRUE, TRUE))
  BY MmCreate, MmMade
<1>2. /\ created \in Mem /\ created.mms[p] = MmStruct(0, FALSE, FALSE) /\ ~created.panic
      /\ mapped \in Mem /\ mapped.mms[p] = MmStruct(0, TRUE, TRUE) /\ ~mapped.panic
  BY <1>1 DEF OnlyMms, Mem
<1>3. created.mms[p].mm_count = 0 /\ mapped.mms[p].mm_count = 0 /\ mapped.mms[p] \in Mm
  BY <1>2 DEF MmStruct, Mm
<1>4. /\ OnlyOf(good, mapped, p) /\ good.mms[p] = InUse
      /\ p \in good.mm /\ p \in good.pgdir
      /\ good.satp = mapped.satp /\ good.kstack = mapped.kstack
  <2> HIDE DEF mapped
  <2> QED
    BY <1>2, GoodMm
<1>5. /\ OnlyMms(mm_destroy(created, p), created, p, NULL)
      /\ OnlyMms(bad_cleanup_mmap(mapped, p), mapped, p, NULL)
  <2> HIDE DEF created, mapped
  <2> QED
    BY <1>2, <1>3, MmDestroy, Cleanup
<1>6. x = CASE at = "load_mm" -> m
            [] at = "load_pgdir" -> mm_destroy(created, p)
            [] at = "load_elf" -> bad_cleanup_mmap(mapped, p)
            [] OTHER -> lsatp(good, p)
  BY DEF load_icode
<1> HIDE DEF x, created, mapped, good
<1>7. CASE at = "load_mm"
  <2>1. x = m
    BY <1>6, <1>7
  <2> QED
    BY <1>7, <2>1 DEF OnlyOf, Mem, ExecFails, x
<1>8. CASE at = "load_pgdir"
  <2>1. x = mm_destroy(created, p)
    BY <1>6, <1>8
  <2> QED
    BY <1>1, <1>5, <1>8, <2>1 DEF OnlyOf, OnlyMms, Mem, ExecFails, x
<1>9. CASE at = "load_elf"
  <2>1. x = bad_cleanup_mmap(mapped, p)
    BY <1>6, <1>9
  <2> QED
    BY <1>1, <1>5, <1>9, <2>1 DEF OnlyOf, OnlyMms, Mem, ExecFails, x
<1>10. CASE at \notin {"load_mm", "load_pgdir", "load_elf"}
  <2>1. x = lsatp(good, p)
    BY <1>6, <1>10
  <2>2. good \in Mem
    BY <1>4 DEF OnlyOf
  <2>3. /\ x \in Mem /\ x.mms = good.mms /\ x.mm = good.mm /\ x.pgdir = good.pgdir
        /\ x.satp = p /\ x.kstack = good.kstack /\ x.panic = good.panic
    BY <2>1, <2>2 DEF lsatp, Mem
  <2>4. OnlyOf(x, m, p) /\ x.kstack = m.kstack
    BY <1>1, <1>4, <2>3 DEF OnlyOf, OnlyMms, Mem
  <2> QED
    BY <1>4, <2>3, <2>4 DEF x
<1> QED
  BY <1>7, <1>8, <1>9, <1>10 DEF x

\* copy_mm into a new process puts an mm in use or undoes what it has made.
LEMMA CopyMm ==
    ASSUME NEW m \in Mem, NEW c \in Proc, c \notin m.mm, ~m.panic, NEW at
    PROVE  LET x == copy_mm(m, c, at)
           IN  /\ OnlyOf(x, m, c) /\ x.kstack = m.kstack /\ x.satp = m.satp
               /\ at \notin ForkFails =>
                    c \in x.mm /\ c \in x.pgdir /\ x.mms[c] = InUse
               /\ at \in ForkFails \ {"files_create"} => x.mms[c] \in {m.mms[c], NULL}
<1>. DEFINE x == copy_mm(m, c, at)
            created == mm_create(m, c)
            mapped == mm_map(setup_pgdir(created, c), c)
            good == good_mm(mapped, c)
<1>1. /\ OnlyMms(created, m, c, MmStruct(0, FALSE, FALSE))
      /\ OnlyMms(mapped, m, c, MmStruct(0, TRUE, TRUE))
  BY MmCreate, MmMade
<1>2. /\ created \in Mem /\ created.mms[c] = MmStruct(0, FALSE, FALSE) /\ ~created.panic
      /\ mapped \in Mem /\ mapped.mms[c] = MmStruct(0, TRUE, TRUE) /\ ~mapped.panic
  BY <1>1 DEF OnlyMms, Mem
<1>3. created.mms[c].mm_count = 0 /\ mapped.mms[c].mm_count = 0 /\ mapped.mms[c] \in Mm
  BY <1>2 DEF MmStruct, Mm
<1>4. /\ OnlyOf(good, mapped, c) /\ good.mms[c] = InUse
      /\ c \in good.mm /\ c \in good.pgdir
      /\ good.satp = mapped.satp /\ good.kstack = mapped.kstack
  <2> HIDE DEF mapped
  <2> QED
    BY <1>2, GoodMm
<1>5. /\ OnlyMms(mm_destroy(created, c), created, c, NULL)
      /\ OnlyMms(bad_cleanup_mmap(mapped, c), mapped, c, NULL)
  <2> HIDE DEF created, mapped
  <2> QED
    BY <1>2, <1>3, MmDestroy, Cleanup
<1>6. x = CASE at = "mm_create" -> m
            [] at = "setup_pgdir" -> mm_destroy(created, c)
            [] at = "dup_mmap" -> bad_cleanup_mmap(mapped, c)
            [] OTHER -> good
  BY DEF copy_mm
<1> HIDE DEF x, created, mapped, good
<1>7. CASE at = "mm_create"
  <2>1. x = m
    BY <1>6, <1>7
  <2> QED
    BY <1>7, <2>1 DEF OnlyOf, Mem, ForkFails, x
<1>8. CASE at = "setup_pgdir"
  <2>1. x = mm_destroy(created, c)
    BY <1>6, <1>8
  <2> QED
    BY <1>1, <1>5, <1>8, <2>1 DEF OnlyOf, OnlyMms, Mem, ForkFails, x
<1>9. CASE at = "dup_mmap"
  <2>1. x = bad_cleanup_mmap(mapped, c)
    BY <1>6, <1>9
  <2> QED
    BY <1>1, <1>5, <1>9, <2>1 DEF OnlyOf, OnlyMms, Mem, ForkFails, x
<1>10. CASE at \notin {"mm_create", "setup_pgdir", "dup_mmap"}
  <2>1. x = good
    BY <1>6, <1>10
  <2>2. OnlyOf(x, m, c) /\ x.kstack = m.kstack /\ x.satp = m.satp
    BY <1>1, <1>4, <2>1 DEF OnlyOf, OnlyMms, Mem
  <2> QED
    BY <1>4, <1>10, <2>1, <2>2 DEF x, ForkFails
<1> QED
  BY <1>7, <1>8, <1>9, <1>10 DEF x

----------------------------------------------------------------------------
(* The invariant *)

\* Who is live has an mm, of which it is the only user; satp is nobody's or that of one
\* of them, and of current where current has one.
MemInv ==
    /\ mem \in Mem /\ ~mem.panic
    /\ state \in [Proc -> {"free", "live", "zombie"}]
    /\ current \in Proc \cup {NULL}
    /\ \A p \in Proc : p \in mem.mm <=> state[p] = "live"
    /\ \A p \in mem.mm : p \in mem.pgdir /\ mem.mms[p] = InUse
    /\ mem.satp = NULL \/ mem.satp \in mem.mm
    /\ current \in mem.mm => mem.satp = current

\* The first program runs in its own address space.
LEMMA InitMemInv ==
    ASSUME Init
    PROVE  MemInv
<1>. DEFINE m0(p) == [mms |-> [q \in Proc |-> NULL], kstack |-> {p}, mm |-> {},
                      pgdir |-> {}, satp |-> NULL, panic |-> FALSE]
<1>1. PICK p \in Proc :
        /\ state = [q \in Proc |-> IF q = p THEN "live" ELSE "free"]
        /\ current = p /\ mem = load_icode(m0(p), p, "done")
  BY DEF Init
<1>2. m0(p) \in Mem /\ m0(p).mm = {} /\ ~m0(p).panic
  BY DEF Mem
<1> HIDE DEF m0
<1>3. "done" \notin ExecFails
  BY DEF ExecFails
<1>4. /\ OnlyOf(mem, m0(p), p) /\ p \in mem.mm /\ p \in mem.pgdir /\ mem.satp = p
      /\ mem.mms[p] = InUse
  BY <1>1, <1>2, <1>3, LoadIcode
<1>5. mem \in Mem /\ ~mem.panic /\ \A q \in Proc \ {p} : q \notin mem.mm
  BY <1>2, <1>4 DEF OnlyOf
<1>6. mem.mm \subseteq Proc
  BY <1>5 DEF Mem
<1> QED
  BY <1>1, <1>4, <1>5, <1>6 DEF MemInv

\* The invariant needs a look only at the process p that a step is about.
LEMMA OwnStep ==
    ASSUME MemInv, NEW p \in Proc, NEW x, OnlyOf(x, mem, p), mem' = x,
           state' \in [Proc -> {"free", "live", "zombie"}],
           \A q \in Proc \ {p} : state'[q] = state[q],
           p \in x.mm <=> state'[p] = "live",
           p \in x.mm => p \in x.pgdir /\ x.mms[p] = InUse,
           current' = current,
           x.satp = NULL \/ x.satp \in x.mm,
           current \in x.mm => x.satp = current
    PROVE  MemInv'
<1>1. mem.mm \subseteq Proc /\ x.mm \subseteq Proc /\ x \in Mem /\ ~x.panic
  BY DEF MemInv, OnlyOf, Mem
<1>2. \A q \in Proc : q \in x.mm <=> state'[q] = "live"
  BY DEF OnlyOf, MemInv
<1>3. \A q \in x.mm : q \in x.pgdir /\ x.mms[q] = InUse
  BY <1>1 DEF OnlyOf, MemInv
<1> QED
  BY <1>1, <1>2, <1>3 DEF MemInv

\* Two steps about p make one.
LEMMA OnlyOfTwice ==
    ASSUME NEW x, NEW y, NEW m, NEW p, OnlyOf(x, m, p), OnlyOf(y, x, p)
    PROVE  OnlyOf(y, m, p)
  BY DEF OnlyOf

\* do_exit, from an m in which p has its mm, or none and satp is clear: p is a
\* zombie without an mm.
LEMMA ExitStep ==
    ASSUME MemInv, NEW p \in Proc, current = p, NEW m, NEW s, OnlyOf(m, mem, p),
           exit_from(m, s, p), current' = current,
           IF p \in m.mm THEN m.mms[p] = InUse ELSE m.satp = NULL
    PROVE  /\ MemInv' /\ mem'.mms[p] = (IF p \in m.mm THEN NULL ELSE m.mms[p])
           /\ mem'.kstack = m.kstack /\ OnlyOf(mem', mem, p)
<1>1. m \in Mem /\ ~m.panic
  BY DEF OnlyOf
<1>2. /\ OnlyOf(mem', m, p) /\ p \notin mem'.mm /\ mem'.satp = NULL
      /\ mem'.mms[p] = (IF p \in m.mm THEN NULL ELSE m.mms[p])
      /\ mem'.kstack = m.kstack
  <2>1. mem' = drop_mm(m, p)
    BY DEF exit_from
  <2>2. CASE p \in m.mm
    BY <1>1, <2>1, <2>2, DropMm
  <2>3. CASE p \notin m.mm
    <3>1. mem' = m
      BY <2>1, <2>3 DEF drop_mm
    <3> QED
      BY <1>1, <2>3, <3>1 DEF OnlyOf
  <2> QED
    BY <2>2, <2>3
<1>3. OnlyOf(mem', mem, p)
  BY <1>2, OnlyOfTwice
<1>4. /\ state' \in [Proc -> {"free", "live", "zombie"}] /\ state'[p] = "zombie"
      /\ \A q \in Proc \ {p} : state'[q] = state[q]
  BY DEF exit_from, MemInv
<1> QED
  BY <1>2, <1>3, <1>4, OwnStep

\* Who makes a system call has an address space of its own.
LEMMA RunningOwns ==
    ASSUME MemInv, NEW p \in Proc, Running(p)
    PROVE  /\ current = p /\ p \in mem.mm /\ mem.mms[p] = InUse /\ OnlyOf(mem, mem, p)
           /\ mem \in Mem /\ ~mem.panic
  BY DEF MemInv, Running, OnlyOf

\* do_execve: p runs in the new address space or is a zombie without one.
LEMMA ExecStep ==
    ASSUME MemInv, NEW p \in Proc, NEW n \in File, NEW at, Exec(p, n, at),
           at # "load_uargv"
    PROVE  /\ MemInv' /\ mem'.kstack = mem.kstack /\ OnlyOf(mem', mem, p)
           /\ state'[p] = "zombie" => mem'.mms[p] = NULL
<1>. DEFINE d == drop_mm(mem, p)
            loaded == load_icode(d, p, at)
            closed == files_closeall(fs, p)
            opened == file_open(closed, p, n)
<1>1. Running(p) /\ current' = current
  BY DEF Exec
<1>2. /\ current = p /\ p \in mem.mm /\ mem.mms[p] = InUse /\ OnlyOf(mem, mem, p)
      /\ mem \in Mem /\ ~mem.panic
  BY <1>1, RunningOwns
<1>3. /\ OnlyOf(d, mem, p) /\ d.mms[p] = NULL /\ p \notin d.mm /\ d.satp = NULL
      /\ d.kstack = mem.kstack /\ d \in Mem /\ ~d.panic
  <2>1. /\ OnlyOf(d, mem, p) /\ d.mms[p] = NULL /\ p \notin d.mm /\ d.satp = NULL
        /\ d.kstack = mem.kstack
    BY <1>2, DropMm
  <2> QED
    BY <2>1 DEF OnlyOf
<1>4. \/ at = "open" /\ exit_from(mem, closed, p)
      \/ at \in ExecFails \ {"open"} /\ (loaded.panic \/ exit_from(loaded, opened, p))
      \/ at \notin ExecFails /\ mem' = loaded /\ UNCHANGED state
  BY DEF Exec, ExecFails
<1> HIDE DEF d
<1>5. /\ OnlyOf(loaded, d, p) /\ loaded.kstack = d.kstack
      /\ \/ /\ at \in ExecFails /\ p \notin loaded.mm /\ loaded.satp = d.satp
            /\ loaded.mms[p] \in {d.mms[p], NULL}
         \/ /\ p \in loaded.mm /\ p \in loaded.pgdir /\ loaded.satp = p
            /\ loaded.mms[p] = InUse
  BY <1>3, LoadIcode
<1>6. OnlyOf(loaded, mem, p) /\ ~loaded.panic
  BY <1>3, <1>5, OnlyOfTwice DEF OnlyOf
<1> HIDE DEF loaded, closed, opened
<1>7. CASE at = "open" /\ exit_from(mem, closed, p)
  BY <1>1, <1>2, <1>7, ExitStep
<1>8. CASE at \in ExecFails \ {"open"} /\ exit_from(loaded, opened, p)
  <2>1. IF p \in loaded.mm THEN loaded.mms[p] = InUse ELSE loaded.satp = NULL
    BY <1>3, <1>5
  <2>2. /\ MemInv' /\ mem'.mms[p] = (IF p \in loaded.mm THEN NULL ELSE loaded.mms[p])
        /\ mem'.kstack = loaded.kstack /\ OnlyOf(mem', mem, p)
    BY <1>1, <1>2, <1>6, <1>8, <2>1, ExitStep
  <2> QED
    BY <1>3, <1>5, <2>2
<1>9. CASE at \notin ExecFails /\ mem' = loaded /\ UNCHANGED state
  <2>1. state[p] = "live" /\ state' = state /\ state \in [Proc -> {"free", "live", "zombie"}]
    BY <1>1, <1>9 DEF Running, MemInv
  <2>2. MemInv'
    BY <1>1, <1>2, <1>5, <1>6, <1>9, <2>1, OwnStep
  <2> QED
    BY <1>3, <1>5, <1>6, <1>9, <2>1, <2>2
<1> QED
  BY <1>4, <1>6, <1>7, <1>8, <1>9

\* do_fork: the child has an address space of its own, or after a failure, except
\* that of files_create, neither an mm nor a stack.
LEMMA ForkStep ==
    ASSUME MemInv, NEW p \in Proc, NEW c \in Proc, NEW at, Fork(p, c, at)
    PROVE  /\ MemInv' /\ OnlyOf(mem', mem, c) /\ mem'.kstack \ {c} = mem.kstack \ {c}
           /\ at \in ForkFails => c \notin mem'.kstack
           /\ at \in ForkFails \ {"files_create"} => mem'.mms[c] \in {mem.mms[c], NULL}
<1>. DEFINE k == setup_kstack(mem, c)
            copied == copy_mm(k, c, at)
            gone == kfree_proc(put_kstack(copied, c), c)
<1>1. state[c] = "free" /\ current' = current
  BY DEF Fork, Unused
<1>2. mem \in Mem /\ ~mem.panic /\ c \notin mem.mm /\ current # c
  BY <1>1 DEF MemInv, Fork, Running
<1>3. /\ k \in Mem /\ ~k.panic /\ c \notin k.mm /\ k.satp = mem.satp /\ OnlyOf(k, mem, c)
      /\ k.mms = mem.mms /\ k.kstack \ {c} = mem.kstack \ {c}
  BY <1>2 DEF setup_kstack, Mem, OnlyOf
<1> HIDE DEF k
<1>4. /\ OnlyOf(copied, k, c) /\ copied.satp = k.satp /\ copied.kstack = k.kstack
      /\ at \in ForkFails \ {"files_create"} => copied.mms[c] \in {k.mms[c], NULL}
      /\ at \notin ForkFails => c \in copied.mm /\ c \in copied.pgdir /\ copied.mms[c] = InUse
  BY <1>3, CopyMm
<1> HIDE DEF copied
<1>5. OnlyOf(copied, mem, c) /\ copied \in Mem /\ ~copied.panic /\ copied.satp = mem.satp
  BY <1>3, <1>4, OnlyOfTwice DEF OnlyOf
<1>6. /\ mem.satp = NULL \/ (mem.satp \in mem.mm /\ mem.satp # c)
      /\ current \in mem.mm => mem.satp = current
  BY <1>2 DEF MemInv
<1>7. mem.mm \subseteq Proc /\ NULL \notin Proc
  BY <1>2, FilesAssumption DEF Mem
<1>8. CASE at \in ForkFails
  <2>1. mem' = gone /\ state' = state
    BY <1>8 DEF Fork, copied, gone, k
  <2>2. /\ OnlyOf(gone, copied, c) /\ c \notin gone.mm /\ gone.satp = copied.satp
        /\ gone.kstack = copied.kstack \ {c} /\ gone.mms = copied.mms
    BY <1>5 DEF kfree_proc, put_kstack, Mem, OnlyOf
  <2> HIDE DEF gone
  <2>3. OnlyOf(gone, mem, c)
    BY <1>5, <2>2, OnlyOfTwice
  <2>4. gone.satp = NULL \/ gone.satp \in gone.mm
    BY <1>5, <1>6, <1>7, <2>2, <2>3 DEF OnlyOf
  <2>5. current \in gone.mm => gone.satp = current
    BY <1>2, <1>5, <1>6, <2>2, <2>3 DEF OnlyOf, MemInv, Mem
  <2>6. MemInv'
    BY <1>1, <2>1, <2>2, <2>3, <2>4, <2>5, OwnStep DEF MemInv
  <2> QED
    BY <1>3, <1>4, <2>1, <2>2, <2>3, <2>6
<1>9. CASE at \notin ForkFails
  <2>1. mem' = copied /\ state' = [state EXCEPT ![c] = "live"]
    BY <1>9 DEF Fork, copied, k
  <2>2. /\ state' \in [Proc -> {"free", "live", "zombie"}] /\ state'[c] = "live"
        /\ \A q \in Proc \ {c} : state'[q] = state[q]
    BY <2>1 DEF MemInv
  <2>3. copied.satp = NULL \/ copied.satp \in copied.mm
    BY <1>5, <1>6, <1>7 DEF OnlyOf
  <2>4. current \in copied.mm => copied.satp = current
    BY <1>2, <1>5, <1>6 DEF OnlyOf, Mem
  <2>5. MemInv'
    BY <1>1, <1>4, <1>5, <1>9, <2>1, <2>2, <2>3, <2>4, OwnStep
  <2> QED
    BY <1>3, <1>4, <1>5, <1>9, <2>1, <2>5
<1> QED
  BY <1>8, <1>9

\* do_exit of a running p.
LEMMA ExitKeeps ==
    ASSUME MemInv, NEW p \in Proc, Exit(p)
    PROVE  MemInv' /\ mem'.mms[p] = NULL /\ mem'.kstack = mem.kstack /\ OnlyOf(mem', mem, p)
<1>1. Running(p) /\ current' = current /\ exit_from(mem, fs, p)
  BY DEF Exit
<1>2. current = p /\ p \in mem.mm /\ mem.mms[p] = InUse /\ OnlyOf(mem, mem, p)
  BY <1>1, RunningOwns
<1> QED
  BY <1>1, <1>2, ExitStep

\* do_wait frees the stack of the zombie and touches no address space.
LEMMA ReapStep ==
    ASSUME MemInv, NEW z \in Proc, Reap(z)
    PROVE  /\ MemInv' /\ mem'.mms = mem.mms
           /\ mem'.kstack = mem.kstack \ {z} /\ OnlyOf(mem', mem, z)
<1>. DEFINE x == kfree_proc(put_kstack(mem, z), z)
<1>1. /\ state[z] = "zombie" /\ mem' = x /\ state' = [state EXCEPT ![z] = "free"]
      /\ current' = current
  BY DEF Reap
<1>2. mem \in Mem /\ ~mem.panic /\ z \notin mem.mm
  BY <1>1 DEF MemInv
<1>3. /\ OnlyOf(x, mem, z) /\ x.mm = mem.mm /\ x.satp = mem.satp
      /\ x.mms = mem.mms /\ x.kstack = mem.kstack \ {z}
  BY <1>2 DEF kfree_proc, put_kstack, Mem, OnlyOf
<1> HIDE DEF x
<1>4. /\ state' \in [Proc -> {"free", "live", "zombie"}] /\ state'[z] = "free"
      /\ \A q \in Proc \ {z} : state'[q] = state[q]
  BY <1>1 DEF MemInv
<1>5. /\ x.satp = NULL \/ x.satp \in x.mm
      /\ current \in x.mm => x.satp = current
  BY <1>3 DEF MemInv
<1>6. MemInv'
  BY <1>1, <1>2, <1>3, <1>4, <1>5, OwnStep
<1> QED
  BY <1>1, <1>3, <1>6

\* proc_run loads the page directory of the process it switches to.
LEMMA RunStep ==
    ASSUME MemInv, NEW q \in Proc \cup {NULL}, proc_run(q)
    PROVE  MemInv' /\ mem'.mms = mem.mms /\ mem'.kstack = mem.kstack
<1>. DEFINE d == IF q \in mem.pgdir THEN q ELSE NULL
<1>1. /\ q \in {NULL} \cup {p \in Proc : state[p] = "live"}
      /\ current' = q /\ mem' = lsatp(mem, d) /\ state' = state
  BY DEF proc_run
<1>2. mem \in Mem /\ mem.pgdir \subseteq Proc /\ mem.mm \subseteq Proc /\ NULL \notin Proc
  BY FilesAssumption DEF MemInv, Mem
<1>3. q = NULL \/ (q \in mem.mm /\ q \in mem.pgdir)
  BY <1>1, <1>2 DEF MemInv
<1>4. d = q /\ d \in Proc \cup {NULL}
  BY <1>2, <1>3
<1> HIDE DEF d
<1>5. /\ mem' \in Mem /\ mem'.mms = mem.mms /\ mem'.mm = mem.mm /\ mem'.pgdir = mem.pgdir
      /\ mem'.satp = d /\ mem'.panic = mem.panic /\ mem'.kstack = mem.kstack
  BY <1>1, <1>2, <1>4 DEF lsatp, Mem
<1> QED
  BY <1>1, <1>2, <1>3, <1>4, <1>5 DEF MemInv

\* An mm in use has a page directory.
LEMMA InUseValid ==
    InUse # NULL /\ InUse.pgdir
<1>1. InUse \in Mm /\ InUse.pgdir = TRUE
  BY DEF InUse, MmStruct, Mm
<1> QED
  BY <1>1, ResourcesAssumption

\* Every step keeps the invariant: by the lemma of its action.
LEMMA MemInvStep ==
    ASSUME "load_uargv" \notin FAILS, MemInv, [Next]_vars
    PROVE  MemInv'
<1>1. CASE UNCHANGED <<state, current, mem>>
  BY <1>1 DEF MemInv
<1>2. ASSUME NEW p \in Proc, NEW c \in Proc, NEW at, Fork(p, c, at)
      PROVE  MemInv'
  BY <1>2, ForkStep
<1>3. ASSUME NEW p \in Proc, NEW n \in File, NEW at \in {"done"} \cup (FAILS \cap ExecFails),
             Exec(p, n, at)
      PROVE  MemInv'
  BY <1>3, ExecStep
<1>4. ASSUME NEW p \in Proc, Exit(p) \/ Reap(p)
      PROVE  MemInv'
  BY <1>4, ExitKeeps, ReapStep
<1>5. ASSUME NEW p \in Proc, SysFile(p)
      PROVE  UNCHANGED <<state, current, mem>>
  BY <1>5 DEF SysFile
<1>6. ASSUME NEW q \in Proc \cup {NULL}, proc_run(q)
      PROVE  MemInv'
  BY <1>6, RunStep
<1>7. UNCHANGED vars => UNCHANGED <<state, current, mem>>
  BY DEF vars
<1> QED
  BY <1>1, <1>2, <1>3, <1>4, <1>5, <1>6, <1>7 DEF Next

\* Every mm of the invariant is in use, so it has its page directory.
LEMMA MemInvImplies ==
    ASSUME MemInv
    PROVE  AddressSpacesValid /\ ~mem.panic
<1>1. \A p \in mem.mm : HasPgdir(p)
  BY InUseValid DEF MemInv, HasPgdir
<1>2. mem.pgdir \subseteq Proc
  BY DEF MemInv, Mem
<1> QED
  BY <1>1, <1>2 DEF MemInv, AddressSpacesValid

\* The page directory in satp exists, current with an mm runs in its own, every live
\* process has one to switch to, and the asserts of exit_mmap, mm_destroy and
\* load_icode hold: exec, exit and fork load boot_pgdir before they free, whatever
\* fails and whoever runs next - if only the memory for uargv is not refused.
THEOREM AddressSpacesAlwaysValid ==
    ASSUME "load_uargv" \notin FAILS
    PROVE  Spec => [](AddressSpacesValid /\ ~mem.panic)
<1>1. Init => MemInv
  BY InitMemInv
<1>2. MemInv /\ [Next]_vars => MemInv'
  BY MemInvStep
<1>3. MemInv => AddressSpacesValid /\ ~mem.panic
  BY MemInvImplies
<1> QED
  BY <1>1, <1>2, <1>3, PTL DEF Spec
----------------------------------------------------------------------------
(* The files_structs *)

\* s has the fields of fs, and a files for every process.
Shape(s) ==
    /\ s \in [files : {s.files}, ref_count : {s.ref_count},
              open_count : {s.open_count}, lost : {s.lost}, panic : {s.panic}]
    /\ s.files \in [Proc -> {s.files[q] : q \in Proc}]

\* x is s but for the files_struct of p, and the counts.
OnlyFiles(x, s, p) ==
    Shape(x) /\ \A q \in Proc \ {p} : x.files[q] = s.files[q]

\* Writing the files_struct of p leaves those of the others.
LEMMA SetFiles ==
    ASSUME NEW s, Shape(s), NEW p \in Proc, NEW v
    PROVE  LET x == [s EXCEPT !.files[p] = v]
           IN  OnlyFiles(x, s, p) /\ x.files[p] = v
<1> DEFINE x == [s EXCEPT !.files[p] = v]
<1>1. x = [files |-> [s.files EXCEPT ![p] = v], ref_count |-> s.ref_count,
           open_count |-> s.open_count, lost |-> s.lost, panic |-> s.panic]
  BY DEF Shape
<1>2. x.files = [s.files EXCEPT ![p] = v] /\ x \in [files : {x.files}, ref_count : {x.ref_count},
              open_count : {x.open_count}, lost : {x.lost}, panic : {x.panic}]
  BY <1>1
<1> HIDE DEF x
<1>3. x.files[p] = v /\ \A q \in Proc \ {p} : x.files[q] = s.files[q]
  BY <1>2 DEF Shape
<1>4. x.files \in [Proc -> {x.files[q] : q \in Proc}]
  BY <1>2, <1>3 DEF Shape
<1> QED
  BY <1>2, <1>3, <1>4 DEF OnlyFiles, Shape, x

\* Writing a count, or the flag of the asserts, leaves every files_struct.
LEMMA SetCounts ==
    ASSUME NEW s, Shape(s), NEW p, NEW v
    PROVE  /\ LET x == [s EXCEPT !.ref_count = v] IN OnlyFiles(x, s, p) /\ x.files = s.files
           /\ LET x == [s EXCEPT !.open_count = v] IN OnlyFiles(x, s, p) /\ x.files = s.files
           /\ LET x == [s EXCEPT !.panic = v] IN OnlyFiles(x, s, p) /\ x.files = s.files
           /\ LET x == [s EXCEPT !.lost = v] IN OnlyFiles(x, s, p) /\ x.files = s.files
<1>1. ASSUME NEW x, x.files = s.files,
             x \in [files : {x.files}, ref_count : {x.ref_count}, open_count : {x.open_count},
                    lost : {x.lost}, panic : {x.panic}]
      PROVE  OnlyFiles(x, s, p)
  BY <1>1 DEF OnlyFiles, Shape
<1>2. LET x == [s EXCEPT !.ref_count = v] IN OnlyFiles(x, s, p) /\ x.files = s.files
  BY <1>1 DEF Shape
<1>3. LET x == [s EXCEPT !.open_count = v] IN OnlyFiles(x, s, p) /\ x.files = s.files
  BY <1>1 DEF Shape
<1>4. LET x == [s EXCEPT !.panic = v] IN OnlyFiles(x, s, p) /\ x.files = s.files
  BY <1>1 DEF Shape
<1>5. LET x == [s EXCEPT !.lost = v] IN OnlyFiles(x, s, p) /\ x.files = s.files
  BY <1>1 DEF Shape
<1> QED
  BY <1>2, <1>3, <1>4, <1>5

\* So does writing both counts.
LEMMA SetBothCounts ==
    ASSUME NEW s, Shape(s), NEW p, NEW v, NEW w
    PROVE  LET x == [s EXCEPT !.ref_count = v, !.open_count = w]
           IN  OnlyFiles(x, s, p) /\ x.files = s.files
<1> DEFINE x == [s EXCEPT !.ref_count = v, !.open_count = w]
<1>1. x.files = s.files /\ x \in [files : {x.files}, ref_count : {x.ref_count},
            open_count : {x.open_count}, lost : {x.lost}, panic : {x.panic}]
  BY DEF Shape
<1> QED
  BY <1>1 DEF OnlyFiles, Shape

\* Two steps about the files of p make one.
LEMMA OnlyFilesTwice ==
    ASSUME NEW x, NEW y, NEW s, NEW p, OnlyFiles(x, s, p), OnlyFiles(y, x, p)
    PROVE  OnlyFiles(y, s, p) /\ Shape(x)
  BY DEF OnlyFiles

\* inode_ref_inc touches no files_struct.
LEMMA RefInc ==
    ASSUME NEW s, Shape(s), NEW p, NEW n
    PROVE  OnlyFiles(ref_inc(s, n), s, p) /\ ref_inc(s, n).files = s.files
<1> DEFINE v == [s.ref_count EXCEPT ![n] = @ + 1]
<1>1. ref_inc(s, n) = [s EXCEPT !.ref_count = v]
  BY DEF ref_inc, Shape
<1> HIDE DEF v
<1>2. LET x == [s EXCEPT !.ref_count = v] IN OnlyFiles(x, s, p) /\ x.files = s.files
  BY SetCounts
<1> QED
  BY <1>1, <1>2

\* Nor does an open of the inode.
LEMMA NodeOpen ==
    ASSUME NEW s, Shape(s), NEW p, NEW n
    PROVE  OnlyFiles(node_open(s, n), s, p) /\ node_open(s, n).files = s.files
<1> DEFINE y == ref_inc(s, n)
           v == [y.open_count EXCEPT ![n] = @ + 1]
<1>1. OnlyFiles(y, s, p) /\ y.files = s.files
  BY RefInc
<1>2. node_open(s, n) = [y EXCEPT !.open_count[n] = @ + 1]
  BY DEF node_open
<1> HIDE DEF y
<1>3. [y EXCEPT !.open_count[n] = @ + 1] = [y EXCEPT !.open_count = v]
  BY <1>1 DEF OnlyFiles, Shape
<1> HIDE DEF v
<1>4. LET x == [y EXCEPT !.open_count = v] IN OnlyFiles(x, y, p) /\ x.files = y.files
  BY <1>1, SetCounts DEF OnlyFiles
<1> QED
  BY <1>1, <1>2, <1>3, <1>4, OnlyFilesTwice

\* Nor does vfs_close.
LEMMA VfsClose ==
    ASSUME NEW s, Shape(s), NEW p, NEW q, NEW fds
    PROVE  OnlyFiles(vfs_close(s, q, fds), s, p)
<1> DEFINE v == [n \in Node |-> s.ref_count[n] - Uses(s, q, fds, n)]
           w == [n \in Node |-> s.open_count[n] - Uses(s, q, fds, n)]
<1>1. vfs_close(s, q, fds) = [s EXCEPT !.ref_count = v, !.open_count = w]
  BY DEF vfs_close
<1> HIDE DEF v, w
<1>2. LET x == [s EXCEPT !.ref_count = v, !.open_count = w]
      IN  OnlyFiles(x, s, p) /\ x.files = s.files
  BY SetBothCounts
<1> QED
  BY <1>1, <1>2

\* Closing descriptors of p touches no files_struct but that of p.
LEMMA FdArrayClose ==
    ASSUME NEW s, Shape(s), NEW p \in Proc, NEW fds
    PROVE  OnlyFiles(fd_array_close(s, p, fds), s, p)
<1> DEFINE last == {fd \in fds : s.files[p][fd].open_count = 1}
           y == vfs_close(s, p, last)
           v == [fd \in Fd |->
                    CASE fd \in last -> file_none
                      [] fd \in fds \ last ->
                            [s.files[p][fd] EXCEPT !.status = "FD_CLOSED", !.open_count = @ - 1]
                      [] OTHER -> s.files[p][fd]]
<1>1. OnlyFiles(y, s, p)
  BY VfsClose
<1>2. fd_array_close(s, p, fds) = [y EXCEPT !.files[p] = v]
  BY DEF fd_array_close
<1> HIDE DEF y, v
<1>3. OnlyFiles([y EXCEPT !.files[p] = v], y, p)
  BY <1>1, SetFiles DEF OnlyFiles
<1> QED
  BY <1>1, <1>2, <1>3, OnlyFilesTwice

\* Nor does giving p a descriptor.
LEMMA FileOpen ==
    ASSUME NEW s, Shape(s), NEW p \in Proc, NEW fd, NEW n
    PROVE  OnlyFiles(fd_array_open(s, p, fd, n), s, p)
<1> DEFINE y == node_open(s, n)
           r == [status |-> "FD_OPENED", open_count |-> 1, node |-> n]
           v == [y.files[p] EXCEPT ![fd] = r]
<1>1. OnlyFiles(y, s, p)
  BY NodeOpen
<1>2. fd_array_open(s, p, fd, n) = [y EXCEPT !.files[p][fd] = r]
  BY DEF fd_array_open
<1> HIDE DEF y, r
<1>3. [y EXCEPT !.files[p][fd] = r] = [y EXCEPT !.files[p] = v]
  BY <1>1 DEF OnlyFiles, Shape
<1> HIDE DEF v
<1>4. OnlyFiles([y EXCEPT !.files[p] = v], y, p)
  BY <1>1, SetFiles DEF OnlyFiles
<1> QED
  BY <1>1, <1>2, <1>3, <1>4, OnlyFilesTwice

\* put_files leaves p without a files_struct and the others alone.
LEMMA PutFiles ==
    ASSUME NEW s, Shape(s), NEW p \in Proc
    PROVE  OnlyFiles(put_files(s, p), s, p) /\ put_files(s, p).files[p] = NULL
<1> DEFINE y == fd_array_close(s, p, WithStatus(s, p, "FD_OPENED"))
           b == WithStatus(y, p, "FD_NONE") # Fd
           v == [y.ref_count EXCEPT ![root] = @ - 1]
           z == [y EXCEPT !.files[p] = NULL]
           u == [z EXCEPT !.ref_count = v]
<1>1. OnlyFiles(y, s, p)
  BY FdArrayClose
<1>2. put_files(s, p) = [y EXCEPT !.files[p] = NULL, !.ref_count[root] = @ - 1, !.panic = b]
  BY DEF put_files
<1> HIDE DEF y, b
<1>3. [y EXCEPT !.files[p] = NULL, !.ref_count[root] = @ - 1, !.panic = b] = [u EXCEPT !.panic = b]
  BY <1>1 DEF OnlyFiles, Shape
<1>4. OnlyFiles(z, y, p) /\ z.files[p] = NULL
  BY <1>1, SetFiles DEF OnlyFiles
<1> HIDE DEF z, v
<1>5. OnlyFiles(u, z, p) /\ u.files = z.files
  BY <1>4, SetCounts DEF OnlyFiles
<1> HIDE DEF u
<1>6. LET x == [u EXCEPT !.panic = b] IN OnlyFiles(x, u, p) /\ x.files = u.files
  BY <1>5, SetCounts DEF OnlyFiles
<1>7. OnlyFiles([u EXCEPT !.panic = b], s, p)
  BY <1>1, <1>4, <1>5, <1>6, OnlyFilesTwice
<1> QED
  BY <1>2, <1>3, <1>4, <1>5, <1>6, <1>7

\* copy_files touches no files_struct but that of the new process.
LEMMA CopyFiles ==
    ASSUME NEW s, Shape(s), NEW p, NEW c \in Proc
    PROVE  OnlyFiles(copy_files(s, p, c), s, c)
<1> DEFINE opened == WithStatus(s, p, "FD_OPENED")
           f == [fd \in Fd |->
                    IF fd \in opened THEN [s.files[p][fd] EXCEPT !.open_count = 1]
                    ELSE file_none]
           v == [n \in Node |-> s.ref_count[n] + Uses(s, p, opened, n)
                                + (IF n = root THEN 1 ELSE 0)]
           w == [n \in Node |-> s.open_count[n] + Uses(s, p, opened, n)]
           z == [s EXCEPT !.files[c] = f]
<1>1. copy_files(s, p, c) = [s EXCEPT !.files[c] = f, !.ref_count = v, !.open_count = w]
  BY DEF copy_files
<1>2. OnlyFiles(z, s, c)
  <2> HIDE DEF f
  <2> QED
    BY SetFiles
<1> HIDE DEF f, v, w
<1>3. [s EXCEPT !.files[c] = f, !.ref_count = v, !.open_count = w]
        = [z EXCEPT !.ref_count = v, !.open_count = w]
  BY DEF Shape
<1> HIDE DEF z
<1>4. LET x == [z EXCEPT !.ref_count = v, !.open_count = w]
      IN  OnlyFiles(x, z, c) /\ x.files = z.files
  <2>1. Shape(z)
    BY <1>2 DEF OnlyFiles
  <2> QED
    BY <2>1, SetBothCounts
<1> QED
  BY <1>1, <1>2, <1>3, <1>4, OnlyFilesTwice

\* A file call of p touches no files_struct but that of p.
LEMMA SysFileKeeps ==
    ASSUME Shape(fs), NEW p \in Proc, SysFile(p)
    PROVE  OnlyFiles(fs', fs, p)
<1>1. ASSUME NEW n, NEW at, Open(p, n, at)
      PROVE  OnlyFiles(fs', fs, p)
  <2>1. OnlyFiles(file_open(fs, p, n), fs, p)
    BY FileOpen DEF file_open
  <2>2. OnlyFiles([fs EXCEPT !.panic = TRUE], fs, p)
    BY SetCounts
  <2> QED
    BY <1>1, <2>1, <2>2 DEF Open
<1>2. ASSUME NEW n, OpenExists(p, n)
      PROVE  OnlyFiles(fs', fs, p)
  <2> DEFINE y == ref_inc(fs, n)
             v == [y.lost EXCEPT ![n] = @ + 1]
  <2>1. OnlyFiles(y, fs, p)
    BY RefInc
  <2>2. fs' = [y EXCEPT !.lost[n] = @ + 1]
    BY <1>2 DEF OpenExists
  <2> HIDE DEF y
  <2>3. fs' = [y EXCEPT !.lost = v]
    BY <2>1, <2>2 DEF OnlyFiles, Shape
  <2> HIDE DEF v
  <2>4. OnlyFiles([y EXCEPT !.lost = v], y, p)
    BY <2>1, SetCounts DEF OnlyFiles
  <2> QED
    BY <2>1, <2>3, <2>4, OnlyFilesTwice
<1>3. ASSUME NEW fd, Close(p, fd)
      PROVE  OnlyFiles(fs', fs, p)
  BY <1>3, FdArrayClose DEF Close
<1>4. ASSUME NEW fd1, NEW fd2, Dup(p, fd1, fd2)
      PROVE  OnlyFiles(fs', fs, p)
  BY <1>4, FileOpen DEF Dup
<1>5. ASSUME NEW s, NEW fd, NEW r, Shape(s)
      PROVE  OnlyFiles([s EXCEPT !.files[p][fd] = r], s, p)
  <2> DEFINE v == [s.files[p] EXCEPT ![fd] = r]
  <2>1. [s EXCEPT !.files[p][fd] = r] = [s EXCEPT !.files[p] = v]
    BY <1>5 DEF Shape
  <2> HIDE DEF v
  <2> QED
    BY <1>5, <2>1, SetFiles
<1>6. ASSUME NEW fd, ReadSleep(p, fd)
      PROVE  OnlyFiles(fs', fs, p)
  <2> DEFINE r == [fs.files[p][fd] EXCEPT !.open_count = @ + 1]
  <2>1. fs' = [fs EXCEPT !.files[p][fd] = r]
    BY <1>6 DEF ReadSleep
  <2> HIDE DEF r
  <2> QED
    BY <1>5, <2>1
<1>7. ASSUME ReadDone(p)
      PROVE  OnlyFiles(fs', fs, p)
  <2> DEFINE fd == reading[p]
             y == vfs_close(fs, p, {fd})
             r == [fs.files[p][fd] EXCEPT !.open_count = @ - 1]
  <2>1. fs' = [y EXCEPT !.files[p][fd] = file_none] \/ fs' = [fs EXCEPT !.files[p][fd] = r]
    BY <1>7 DEF ReadDone
  <2>2. OnlyFiles(y, fs, p)
    BY VfsClose
  <2> HIDE DEF y, r
  <2>3. OnlyFiles([y EXCEPT !.files[p][fd] = file_none], y, p)
    BY <1>5, <2>2 DEF OnlyFiles
  <2>4. OnlyFiles([fs EXCEPT !.files[p][fd] = r], fs, p)
    BY <1>5
  <2> QED
    BY <2>1, <2>2, <2>3, <2>4, OnlyFilesTwice
<1> QED
  BY <1>1, <1>2, <1>3, <1>4, <1>6, <1>7 DEF SysFile, FilesNext

----------------------------------------------------------------------------
(* Nothing is lost *)

\* Who is not live has neither mm nor files_struct, and who is free no stack.
LostInv ==
    /\ Shape(fs)
    /\ \A q \in Proc : state[q] # "live" => mem.mms[q] = NULL /\ fs.files[q] = NULL
    /\ \A q \in Proc : state[q] = "free" => q \notin mem.kstack

\* Who sleeps in a read is live.
ReadInv ==
    /\ reading \in [Proc -> Fd \cup {NULL}]
    /\ \A q \in Proc : reading[q] # NULL => state[q] = "live"

\* Only a live process sleeps in a read: exec, exit and fork are calls of a process
\* that does not, and who is reaped was a zombie.
LEMMA ReadInvStep ==
    ASSUME MemInv, ReadInv, [Next]_vars
    PROVE  ReadInv'
<1>. state \in [Proc -> {"free", "live", "zombie"}]
  BY DEF MemInv
<1>1. ASSUME NEW p \in Proc, NEW c \in Proc, NEW at, Fork(p, c, at)
      PROVE  ReadInv'
  BY <1>1 DEF Fork, ReadInv
<1>2. ASSUME NEW p \in Proc, NEW m, NEW s, exit_from(m, s, p), Running(p), reading' = reading
      PROVE  ReadInv'
  BY <1>2 DEF exit_from, ReadInv, Running
<1>3. ASSUME NEW p \in Proc, NEW n, NEW at, Exec(p, n, at)
      PROVE  ReadInv'
  <2>1. /\ Running(p) /\ reading' = reading
        /\ (\E m, s : exit_from(m, s, p)) \/ state' = state
    BY <1>3 DEF Exec, ExecFails
  <2> QED
    BY <1>2, <2>1 DEF ReadInv
<1>4. ASSUME NEW p \in Proc, Exit(p)
      PROVE  ReadInv'
  BY <1>2, <1>4 DEF Exit
<1>5. ASSUME NEW z \in Proc, Reap(z)
      PROVE  ReadInv'
  BY <1>5 DEF Reap, ReadInv
<1>6. ASSUME NEW p \in Proc, SysFile(p)
      PROVE  ReadInv'
  <2>1. state' = state /\ (Running(p) \/ ReadDone(p))
    BY <1>6 DEF SysFile
  <2>2. CASE ReadDone(p)
    BY <2>1, <2>2 DEF ReadDone, ReadInv
  <2>3. CASE Running(p) /\ \E at : FilesNext(p, at)
    <3>1. \/ reading' = reading
          \/ \E fd \in Fd : reading' = [reading EXCEPT ![p] = fd]
      BY <2>3 DEF FilesNext, Open, OpenExists, Close, Dup, ReadSleep
    <3> QED
      BY <2>1, <2>3, <3>1 DEF ReadInv, Running
  <2> QED
    BY <1>6, <2>2, <2>3 DEF SysFile
<1>7. ASSUME NEW q, proc_run(q)
      PROVE  ReadInv'
  BY <1>7 DEF proc_run, ReadInv
<1>8. CASE UNCHANGED vars
  BY <1>8 DEF vars, filesVars, ReadInv
<1> QED
  BY <1>1, <1>3, <1>4, <1>5, <1>6, <1>7, <1>8 DEF Next

\* The proc_structs not in use own nothing.
LEMMA InitLostInv ==
    ASSUME Init
    PROVE  LostInv
<1>. DEFINE m0(p) == [mms |-> [q \in Proc |-> NULL], kstack |-> {p}, mm |-> {},
                      pgdir |-> {}, satp |-> NULL, panic |-> FALSE]
            s0(p) == [files |-> [q \in Proc |-> IF q = p THEN files_create ELSE NULL],
                      ref_count |-> [i \in Node |-> Kept(i) + (IF i = root THEN 1 ELSE 0)],
                      open_count |-> [i \in Node |-> 0], lost |-> [i \in Node |-> 0],
                      panic |-> FALSE]
<1>1. PICK p \in Proc, n \in File :
        /\ state = [q \in Proc |-> IF q = p THEN "live" ELSE "free"]
        /\ mem = load_icode(m0(p), p, "done")
        /\ fs = file_open(s0(p), p, n)
  BY DEF Init
<1>2. /\ m0(p) \in Mem /\ m0(p).mm = {} /\ ~m0(p).panic /\ m0(p).kstack = {p}
      /\ \A q \in Proc : m0(p).mms[q] = NULL
  BY DEF Mem
<1>3. Shape(s0(p)) /\ \A q \in Proc \ {p} : s0(p).files[q] = NULL
  BY DEF Shape
<1> HIDE DEF m0, s0
<1>4. OnlyOf(mem, m0(p), p) /\ mem.kstack = m0(p).kstack
  BY <1>1, <1>2, LoadIcode
<1>5. OnlyFiles(fs, s0(p), p)
  BY <1>1, <1>3, FileOpen DEF file_open
<1> QED
  BY <1>1, <1>2, <1>3, <1>4, <1>5 DEF LostInv, OnlyOf, OnlyFiles

\* The invariant needs a look only at the process p that a step is about.
LEMMA LostStep ==
    ASSUME LostInv, NEW p \in Proc, OnlyOf(mem', mem, p), OnlyFiles(fs', fs, p),
           mem'.kstack \ {p} = mem.kstack \ {p},
           \A q \in Proc \ {p} : state'[q] = state[q],
           state'[p] # "live" => mem'.mms[p] = NULL /\ fs'.files[p] = NULL,
           state'[p] = "free" => p \notin mem'.kstack
    PROVE  LostInv'
  BY DEF LostInv, OnlyOf, OnlyFiles

\* A step that touches no file.
LEMMA FilesSame ==
    ASSUME LostInv, NEW p, fs' = fs
    PROVE  OnlyFiles(fs', fs, p)
  BY DEF LostInv, OnlyFiles

\* do_exit of a p that has its mm, from an s that differs from fs in the files of p
\* at most, puts back the files_struct.
LEMMA ExitFiles ==
    ASSUME NEW p \in Proc, p \in mem.mm, state \in [Proc -> {"free", "live", "zombie"}],
           NEW s, OnlyFiles(s, fs, p), exit_from(mem, s, p)
    PROVE  /\ OnlyFiles(fs', fs, p) /\ fs'.files[p] = NULL /\ state'[p] = "zombie"
           /\ \A q \in Proc \ {p} : state'[q] = state[q]
<1>1. fs' = put_files(s, p) /\ state' = [state EXCEPT ![p] = "zombie"]
  BY DEF exit_from
<1>2. OnlyFiles(fs', s, p) /\ fs'.files[p] = NULL
  BY <1>1, PutFiles DEF OnlyFiles
<1> QED
  BY <1>1, <1>2, OnlyFilesTwice

\* The failures that may come are those whose effects the code undoes.
FailuresUndone == FAILS \cap {"files_create", "load_mm", "load_pgdir", "load_elf", "load_uargv"} = {}

\* Every step keeps the invariant, where the failures are those the code undoes.
LEMMA LostInvStep ==
    ASSUME FailuresUndone, MemInv, ReadInv, LostInv, [Next]_vars
    PROVE  LostInv'
<1>. state \in [Proc -> {"free", "live", "zombie"}] /\ Shape(fs)
  BY DEF MemInv, LostInv
<1>1. ASSUME NEW p \in Proc, NEW c \in Proc, NEW at \in {"done"} \cup (FAILS \cap ForkFails),
             Fork(p, c, at)
      PROVE  LostInv'
  <2>1. /\ OnlyOf(mem', mem, c) /\ mem'.kstack \ {c} = mem.kstack \ {c}
        /\ at \in ForkFails => c \notin mem'.kstack
        /\ at \in ForkFails \ {"files_create"} => mem'.mms[c] \in {mem.mms[c], NULL}
    BY <1>1, ForkStep
  <2>2. state[c] = "free"
    BY <1>1 DEF Fork, Unused
  <2>3. CASE at \in ForkFails
    <3>1. at # "files_create"
      BY <1>1, <2>3 DEF FailuresUndone, ForkFails
    <3>2. fs' = fs /\ state' = state
      BY <1>1, <2>3 DEF Fork
    <3>3. mem.mms[c] = NULL /\ fs.files[c] = NULL
      BY <2>2 DEF LostInv
    <3> QED
      BY <2>1, <2>3, <3>1, <3>2, <3>3, LostStep, FilesSame
  <2>4. CASE at \notin ForkFails
    <3>1. fs' = copy_files(fs, p, c) /\ state' = [state EXCEPT ![c] = "live"]
      BY <1>1, <2>4 DEF Fork
    <3>2. OnlyFiles(fs', fs, c)
      BY <3>1, CopyFiles
    <3> QED
      BY <2>1, <3>1, <3>2, LostStep
  <2> QED
    BY <2>3, <2>4
<1>2. ASSUME NEW p \in Proc, NEW n \in File, NEW at \in {"done"} \cup (FAILS \cap ExecFails),
             Exec(p, n, at)
      PROVE  LostInv'
  <2> DEFINE closed == files_closeall(fs, p)
             opened == file_open(closed, p, n)
  <2>1. at \in {"done", "open"}
    BY <1>2 DEF FailuresUndone, ExecFails
  <2>2. /\ MemInv' /\ mem'.kstack = mem.kstack /\ OnlyOf(mem', mem, p)
        /\ state'[p] = "zombie" => mem'.mms[p] = NULL
    BY <1>2, <2>1, ExecStep
  <2>3. OnlyFiles(closed, fs, p)
    BY FdArrayClose DEF files_closeall
  <2> HIDE DEF closed
  <2>4. OnlyFiles(opened, fs, p)
    <3>1. OnlyFiles(opened, closed, p)
      BY <2>3, FileOpen DEF file_open, OnlyFiles
    <3> QED
      BY <2>3, <3>1, OnlyFilesTwice
  <2>5. Running(p) /\ p \in mem.mm
    BY <1>2, RunningOwns DEF Exec
  <2>6. CASE at = "open"
    <3>1. exit_from(mem, closed, p)
      BY <1>2, <2>6 DEF Exec, closed
    <3> QED
      BY <2>2, <2>3, <2>5, <3>1, ExitFiles, LostStep
  <2>7. CASE at = "done"
    <3>1. fs' = opened /\ state' = state
      BY <1>2, <2>7 DEF Exec, opened, closed, ExecFails
    <3>2. state[p] = "live"
      BY <2>5 DEF Running
    <3> QED
      BY <2>2, <2>4, <3>1, <3>2, LostStep
  <2> QED
    BY <2>1, <2>6, <2>7
<1>3. ASSUME NEW p \in Proc, Exit(p)
      PROVE  LostInv'
  <2>1. mem'.mms[p] = NULL /\ mem'.kstack = mem.kstack /\ OnlyOf(mem', mem, p)
    BY <1>3, ExitKeeps
  <2>2. p \in mem.mm /\ exit_from(mem, fs, p) /\ OnlyFiles(fs, fs, p)
    BY <1>3, RunningOwns DEF Exit, OnlyFiles
  <2> QED
    BY <2>1, <2>2, ExitFiles, LostStep
<1>4. ASSUME NEW z \in Proc, Reap(z)
      PROVE  LostInv'
  <2>1. mem'.mms = mem.mms /\ mem'.kstack = mem.kstack \ {z} /\ OnlyOf(mem', mem, z)
    BY <1>4, ReapStep
  <2>2. state[z] = "zombie" /\ state' = [state EXCEPT ![z] = "free"] /\ fs' = fs
    BY <1>4 DEF Reap
  <2>3. mem'.mms[z] = NULL /\ fs'.files[z] = NULL
    BY <2>1, <2>2 DEF LostInv
  <2> QED
    BY <2>1, <2>2, <2>3, LostStep, FilesSame
<1>5. ASSUME NEW p \in Proc, SysFile(p)
      PROVE  LostInv'
  <2>1. OnlyFiles(fs', fs, p) /\ mem' = mem /\ state' = state
    BY <1>5, SysFileKeeps DEF SysFile
  <2>2. state[p] = "live"
    BY <1>5 DEF SysFile, Running, ReadDone, ReadInv
  <2> QED
    BY <2>1, <2>2 DEF LostInv, OnlyFiles
<1>6. ASSUME NEW q \in Proc \cup {NULL}, proc_run(q)
      PROVE  LostInv'
  <2>1. mem'.mms = mem.mms /\ mem'.kstack = mem.kstack /\ fs' = fs /\ state' = state
    BY <1>6, RunStep DEF proc_run
  <2> QED
    BY <2>1 DEF LostInv
<1>7. CASE UNCHANGED vars
  BY <1>7 DEF vars, filesVars, LostInv
<1> QED
  BY <1>1, <1>2, <1>3, <1>4, <1>5, <1>6, <1>7 DEF Next

\* Of a proc_struct that is free again no mm, files_struct or stack is left, where the
\* failures are among mm_create, setup_pgdir and dup_mmap in do_fork and the open in
\* do_execve; the unfinished labels of do_fork and do_exit cover no more.
THEOREM NothingEverLost ==
    ASSUME FailuresUndone
    PROVE  Spec => []NothingLost
<1>1. Init => MemInv /\ ReadInv /\ LostInv
  BY InitMemInv, InitLostInv DEF Init, ReadInv
<1>2. MemInv /\ ReadInv /\ LostInv /\ [Next]_vars => (MemInv /\ ReadInv /\ LostInv)'
  BY MemInvStep, ReadInvStep, LostInvStep DEF FailuresUndone
<1>3. MemInv /\ ReadInv /\ LostInv => NothingLost
  BY DEF LostInv, NothingLost
<1> QED
  BY <1>1, <1>2, <1>3, PTL DEF Spec

----------------------------------------------------------------------------
(* The counts of the inodes *)

\* A descriptor as the model leaves it between system calls: free, or open once, or
\* twice while it is being read.
Slot == {file_none} \cup [status : {"FD_OPENED"}, open_count : {1, 2}, node : Node]

FsState == [files : [Proc -> [Fd -> Slot] \cup {NULL}], ref_count : [Node -> Int],
            open_count : [Node -> Int], lost : [Node -> Int], panic : BOOLEAN]

\* The descriptors of the files_struct f, or of none, that refer to n; whether f is one.
Held(f, n) == IF f = NULL THEN {} ELSE {fd \in Fd : f[fd].node = n}
One(f) == IF f = NULL THEN 0 ELSE 1

\* CountsExact of the state s.
Counted(s) ==
    \A n \in Node :
        /\ s.open_count[n] = Cardinality(Users(s, n))
        /\ s.ref_count[n] = Kept(n) + s.lost[n] + Cardinality(Users(s, n))
                            + (IF n = root THEN Cardinality(Structs(s)) ELSE 0)

\* A slot is free or open, and which of them its status and its node tell.
LEMMA SlotFacts ==
    /\ file_none \in Slot /\ file_none.node = NULL /\ NULL \notin Node
    /\ \A n \in Node, k \in {1, 2} :
        LET d == [status |-> "FD_OPENED", open_count |-> k, node |-> n]
        IN  d \in Slot /\ d.node = n /\ d # file_none /\ d.open_count = k
    /\ \A d \in Slot :
        /\ d.status = "FD_NONE" <=> d = file_none
        /\ d.status = "FD_OPENED" <=> d # file_none
        /\ d.node \in Node <=> d # file_none
        /\ d.node \in Node \cup {NULL} /\ d.open_count \in {0, 1, 2}
        /\ d # file_none => d.open_count \in {1, 2}
        /\ d \in Desc
<1>1. NULL \notin Node
  BY FilesAssumption DEF Node
<1>2. /\ file_none.status = "FD_NONE" /\ file_none.node = NULL /\ file_none.open_count = 0
      /\ file_none \in Slot /\ file_none \in Desc
  BY DEF file_none, Slot, Desc
<1>3. ASSUME NEW d \in [status : {"FD_OPENED"}, open_count : {1, 2}, node : Node]
      PROVE  /\ d.status = "FD_OPENED" /\ d.open_count \in {1, 2} /\ d.node \in Node
             /\ d \in Desc /\ d # file_none
  BY <1>2 DEF Desc
<1>4. ASSUME NEW n \in Node, NEW k \in {1, 2}
      PROVE  LET d == [status |-> "FD_OPENED", open_count |-> k, node |-> n]
             IN  d \in Slot /\ d.node = n /\ d # file_none /\ d.open_count = k
  BY <1>2 DEF Slot
<1>5. ASSUME NEW d \in Slot
      PROVE  /\ d.status = "FD_NONE" <=> d = file_none
             /\ d.status = "FD_OPENED" <=> d # file_none
             /\ d.node \in Node <=> d # file_none
             /\ d.node \in Node \cup {NULL} /\ d.open_count \in {0, 1, 2}
             /\ d # file_none => d.open_count \in {1, 2}
             /\ d \in Desc
  <2>1. CASE d = file_none
    BY <1>1, <1>2, <2>1
  <2>2. CASE d \in [status : {"FD_OPENED"}, open_count : {1, 2}, node : Node]
    BY <1>3, <2>2
  <2> QED
    BY <2>1, <2>2 DEF Slot
<1> QED
  BY <1>1, <1>2, <1>4, <1>5

\* What the assumption says of descriptors: they are finitely many, and a files_struct
\* is not NULL.
LEMMA FdFacts ==
    /\ IsFiniteSet(Fd) /\ 0 \in Fd /\ 1 \in Fd /\ 2 \in Fd /\ Fd \subseteq Nat
    /\ \A f \in [Fd -> Slot] : f # NULL
    /\ \A n : \A f \in [Fd -> Slot] \cup {NULL} : IsFiniteSet(Held(f, n))
    /\ \A n : \A f \in [Fd -> Slot] \cup {NULL} : Cardinality(Held(f, n)) \in Nat
<1>1. IsFiniteSet(Fd) /\ 0 \in Fd /\ 1 \in Fd /\ 2 \in Fd /\ Fd \subseteq Nat
  <2>1. NENTRY \in Nat /\ NENTRY > 2
    BY FilesAssumption
  <2>2. IsFiniteSet(0 .. NENTRY - 1)
    BY <2>1, FS_Interval
  <2> QED
    BY <2>1, <2>2 DEF Fd
<1>2. \A f \in [Fd -> Slot] : f # NULL
  <2>1. Slot \subseteq Desc
    BY SlotFacts
  <2>2. \A f \in [Fd -> Slot] : f \in [Fd -> Desc]
    BY <2>1
  <2> QED
    BY <2>2, FilesAssumption
<1>3. ASSUME NEW f \in [Fd -> Slot] \cup {NULL}, NEW n
      PROVE  IsFiniteSet(Held(f, n)) /\ Cardinality(Held(f, n)) \in Nat
  <2>1. Held(f, n) \in SUBSET Fd
    BY DEF Held
  <2>2. IsFiniteSet(Held(f, n))
    BY <1>1, <2>1, FS_Subset
  <2> QED
    BY <2>2, FS_CardinalityType
<1> QED
  BY <1>1, <1>2, <1>3

\* The users of n are those of the files_struct of p and those of the others.
LEMMA UsersSplit ==
    ASSUME NEW s \in FsState, NEW p \in Proc, NEW n
    PROVE  LET others == {x \in Users(s, n) : x[1] # p}
           IN  /\ IsFiniteSet(others) /\ Cardinality(others) \in Nat
               /\ Cardinality(Users(s, n)) = Cardinality(others) + Cardinality(Held(s.files[p], n))
<1> DEFINE others == {x \in Users(s, n) : x[1] # p}
           own == {x \in Users(s, n) : x[1] = p}
           h == Held(s.files[p], n)
<1>1. IsFiniteSet(Users(s, n))
  <2>1. Structs(s) \in SUBSET Proc /\ IsFiniteSet(Proc)
    BY FilesAssumption DEF Structs
  <2>2. IsFiniteSet(Structs(s))
    BY <2>1, FS_Subset
  <2>3. IsFiniteSet(Structs(s) \X Fd)
    BY <2>2, FdFacts, FS_Product
  <2>4. Users(s, n) \in SUBSET (Structs(s) \X Fd)
    BY DEF Users
  <2> QED
    BY <2>3, <2>4, FS_Subset
<1>2. IsFiniteSet(others) /\ IsFiniteSet(own) /\ Cardinality(others) \in Nat
  <2>1. others \in SUBSET Users(s, n) /\ own \in SUBSET Users(s, n)
    OBVIOUS
  <2>2. IsFiniteSet(others) /\ IsFiniteSet(own)
    BY <1>1, <2>1, FS_Subset
  <2> QED
    BY <2>2, FS_CardinalityType
<1>3. Cardinality(Users(s, n)) = Cardinality(others) + Cardinality(own)
  <2>1. Users(s, n) = others \cup own /\ others \cap own = {}
    OBVIOUS
  <2> HIDE DEF others, own
  <2>2. /\ Cardinality(others \cup own) =
            Cardinality(others) + Cardinality(own) - Cardinality(others \cap own)
    BY <1>2, FS_Union
  <2>3. Cardinality({}) = 0 /\ Cardinality(own) \in Nat
    BY <1>2, FS_EmptySet, FS_CardinalityType
  <2>4. Cardinality(others \cap own) = 0
    BY <2>1, <2>3
  <2>5. Cardinality(Users(s, n)) = Cardinality(others \cup own)
    BY <2>1
  <2> QED
    BY <1>2, <2>2, <2>3, <2>4, <2>5
<1>4. Cardinality(own) = Cardinality(h)
  <2> DEFINE g == [x \in own |-> x[2]]
  <2>1. own = {x \in {p} \X Fd : s.files[p] # NULL /\ s.files[p][x[2]].node = n}
    BY DEF Users, Structs
  <2>2. g \in [own -> h]
    BY <2>1 DEF Held
  <2>3. \A x, y \in own : g[x] = g[y] => x = y
    BY <2>1
  <2>4. \A fd \in h : <<p, fd>> \in own /\ g[<<p, fd>>] = fd
    <3>1. ASSUME NEW fd \in h
          PROVE  <<p, fd>> \in own
      BY <2>1, <3>1 DEF Held
    <3> QED
      BY <3>1
  <2> HIDE DEF own, h, g
  <2>5. g \in Bijection(own, h)
    BY <2>2, <2>3, <2>4 DEF Bijection, Injection, Surjection, IsInjective
  <2>6. ExistsBijection(own, h)
    BY <2>5 DEF ExistsBijection
  <2> QED
    BY <1>2, <2>6, FS_Bijection
<1> QED
  BY <1>2, <1>3, <1>4

\* x is s but that p has the files_struct g, or none, and that the counts have
\* followed.
Change(x, s, p, g) ==
    /\ x \in FsState /\ x.lost = s.lost /\ x.files = [s.files EXCEPT ![p] = g]
    /\ \A n \in Node :
        LET d == Cardinality(Held(g, n)) - Cardinality(Held(s.files[p], n))
        IN  /\ x.open_count[n] = s.open_count[n] + d
            /\ x.ref_count[n] = s.ref_count[n] + d
                    + (IF n = root THEN One(g) - One(s.files[p]) ELSE 0)

\* If only the files_struct of p changes, and the counts follow, they stay exact.
LEMMA ChangeCounted ==
    ASSUME NEW s \in FsState, NEW p \in Proc, NEW x, NEW g \in [Fd -> Slot] \cup {NULL},
           Change(x, s, p, g), Counted(s)
    PROVE  Counted(x)
<1>1. /\ x \in FsState /\ x.files[p] = g /\ \A q \in Proc \ {p} : x.files[q] = s.files[q]
      /\ x.lost = s.lost
  BY DEF Change, FsState
<1>2. ASSUME NEW n \in Node
      PROVE  Cardinality(Users(x, n)) = Cardinality(Users(s, n))
                + Cardinality(Held(g, n)) - Cardinality(Held(s.files[p], n))
  <2> DEFINE a == {u \in Users(s, n) : u[1] # p}
             b == {u \in Users(x, n) : u[1] # p}
  <2>1. a = b
    BY <1>1 DEF Users, Structs
  <2>2. /\ Cardinality(Users(s, n)) = Cardinality(a) + Cardinality(Held(s.files[p], n))
        /\ Cardinality(Users(x, n)) = Cardinality(b) + Cardinality(Held(g, n))
        /\ Cardinality(a) \in Nat
    BY <1>1, UsersSplit
  <2>3. Cardinality(Held(s.files[p], n)) \in Nat /\ Cardinality(Held(g, n)) \in Nat
    BY FdFacts DEF FsState
  <2> HIDE DEF a, b
  <2> QED
    BY <2>1, <2>2, <2>3
<1>3. Cardinality(Structs(x)) = Cardinality(Structs(s)) + One(g) - One(s.files[p])
  <2>1. IsFiniteSet(Structs(s)) /\ Cardinality(Structs(s)) \in Nat
    <3>1. Structs(s) \in SUBSET Proc /\ IsFiniteSet(Proc)
      BY FilesAssumption DEF Structs
    <3> QED
      BY <3>1, FS_Subset, FS_CardinalityType
  <2>2. Structs(x) = IF g = NULL THEN Structs(s) \ {p} ELSE Structs(s) \cup {p}
    BY <1>1 DEF Structs
  <2>3. p \in Structs(s) <=> s.files[p] # NULL
    BY DEF Structs
  <2>4. /\ Cardinality(Structs(s) \cup {p}) =
            IF p \in Structs(s) THEN Cardinality(Structs(s)) ELSE Cardinality(Structs(s)) + 1
        /\ Cardinality(Structs(s) \ {p}) =
            IF p \in Structs(s) THEN Cardinality(Structs(s)) - 1 ELSE Cardinality(Structs(s))
    BY <2>1, FS_AddElement, FS_RemoveElement
  <2> QED
    BY <2>1, <2>2, <2>3, <2>4 DEF One
<1>4. ASSUME NEW n \in Node
      PROVE  /\ x.open_count[n] = Cardinality(Users(x, n))
             /\ x.ref_count[n] = Kept(n) + x.lost[n] + Cardinality(Users(x, n))
                                 + (IF n = root THEN Cardinality(Structs(x)) ELSE 0)
  <2> DEFINE u == Cardinality(Users(s, n))
             v == Cardinality(Held(g, n))
             w == Cardinality(Held(s.files[p], n))
             k == Cardinality(Structs(s))
  <2>1. /\ s.open_count[n] = u
        /\ s.ref_count[n] = Kept(n) + s.lost[n] + u + (IF n = root THEN k ELSE 0)
    BY DEF Counted
  <2>2. /\ x.open_count[n] = s.open_count[n] + (v - w)
        /\ x.ref_count[n] = s.ref_count[n] + (v - w)
                            + (IF n = root THEN One(g) - One(s.files[p]) ELSE 0)
    BY DEF Change
  <2>3. Cardinality(Users(x, n)) = u + v - w
    BY <1>2
  <2>4. v \in Nat /\ w \in Nat
    BY FdFacts DEF FsState
  <2>5. u \in Int /\ s.lost[n] \in Int
    <3>1. s.open_count[n] \in Int /\ s.lost[n] \in Int
      BY DEF FsState
    <3> QED
      BY <2>1, <3>1
  <2>6. k \in Nat /\ One(g) \in Int /\ One(s.files[p]) \in Int /\ Kept(n) \in Int
    <3>1. Structs(s) \in SUBSET Proc /\ IsFiniteSet(Proc)
      BY FilesAssumption DEF Structs
    <3>2. IsFiniteSet(Structs(s))
      BY <3>1, FS_Subset
    <3> QED
      BY <3>2, FS_CardinalityType DEF One, Kept
  <2>7. x.lost[n] = s.lost[n]
    BY <1>1
  <2> HIDE DEF u, v, w, k
  <2> QED
    BY <1>3, <2>1, <2>2, <2>3, <2>4, <2>5, <2>6, <2>7 DEF k
<1> QED
  BY <1>4 DEF Counted

\* A descriptor that was free and is given the inode n counts for n.
LEMMA HeldOpen ==
    ASSUME NEW f \in [Fd -> Slot], NEW fd \in Fd, f[fd] = file_none,
           NEW n \in Node, NEW d \in Slot, d.node = n
    PROVE  LET g == [f EXCEPT ![fd] = d]
           IN  /\ g \in [Fd -> Slot]
               /\ \A m \in Node : Cardinality(Held(g, m))
                                    = Cardinality(Held(f, m)) + (IF m = n THEN 1 ELSE 0)
<1> DEFINE g == [f EXCEPT ![fd] = d]
<1>1. g \in [Fd -> Slot] /\ g # NULL /\ f # NULL
  <2>1. g \in [Fd -> Slot]
    OBVIOUS
  <2> QED
    BY <2>1, FdFacts
<1>2. ASSUME NEW m \in Node
      PROVE  Cardinality(Held(g, m)) = Cardinality(Held(f, m)) + (IF m = n THEN 1 ELSE 0)
  <2>1. fd \notin Held(f, m)
    BY SlotFacts DEF Held
  <2>2. Held(g, m) = IF m = n THEN Held(f, m) \cup {fd} ELSE Held(f, m)
    <3>1. Held(f, m) = {e \in Fd : f[e].node = m} /\ Held(g, m) = {e \in Fd : g[e].node = m}
      BY <1>1 DEF Held
    <3>2. g[fd].node = n /\ \A e \in Fd \ {fd} : g[e] = f[e]
      OBVIOUS
    <3> HIDE DEF g
    <3> QED
      BY <2>1, <3>1, <3>2
  <2>3. IsFiniteSet(Held(f, m)) /\ Cardinality(Held(f, m)) \in Nat
    BY FdFacts
  <2>4. Cardinality(Held(f, m) \cup {fd}) = Cardinality(Held(f, m)) + 1
    BY <2>1, <2>3, FS_AddElement
  <2> QED
    BY <2>2, <2>3, <2>4
<1> QED
  BY <1>1, <1>2

\* Descriptors that are given back count no more.
LEMMA HeldClose ==
    ASSUME NEW f \in [Fd -> Slot], NEW fds \in SUBSET Fd
    PROVE  LET g == [fd \in Fd |-> IF fd \in fds THEN file_none ELSE f[fd]]
           IN  /\ g \in [Fd -> Slot]
               /\ \A m \in Node :
                    LET u == Cardinality({fd \in fds : f[fd].node = m})
                    IN  u \in Nat /\ Cardinality(Held(g, m)) = Cardinality(Held(f, m)) - u
<1> DEFINE g == [fd \in Fd |-> IF fd \in fds THEN file_none ELSE f[fd]]
<1>1. g \in [Fd -> Slot] /\ g # NULL /\ f # NULL
  <2>1. g \in [Fd -> Slot]
    BY SlotFacts
  <2> QED
    BY <2>1, FdFacts
<1>2. ASSUME NEW m \in Node
      PROVE  LET u == Cardinality({fd \in fds : f[fd].node = m})
             IN  u \in Nat /\ Cardinality(Held(g, m)) = Cardinality(Held(f, m)) - u
  <2> DEFINE U == {fd \in fds : f[fd].node = m}
  <2>1. Held(g, m) = Held(f, m) \ U /\ Held(f, m) \cap U = U
    BY <1>1, SlotFacts DEF Held
  <2>2. IsFiniteSet(Held(f, m)) /\ Cardinality(Held(f, m)) \in Nat
    BY FdFacts
  <2>3. IsFiniteSet(U)
    <3>1. U \in SUBSET Fd
      OBVIOUS
    <3> QED
      BY <3>1, FdFacts, FS_Subset
  <2> HIDE DEF U
  <2>4. Cardinality(Held(f, m) \ U) = Cardinality(Held(f, m)) - Cardinality(Held(f, m) \cap U)
    BY <2>2, FS_Difference
  <2>5. Cardinality(U) \in Nat
    BY <2>3, FS_CardinalityType
  <2>6. Cardinality(Held(f, m) \cap U) = Cardinality(U)
    BY <2>1
  <2>7. Cardinality(Held(g, m)) = Cardinality(Held(f, m)) - Cardinality(U)
    BY <2>1, <2>4, <2>6
  <2> QED
    BY <2>5, <2>7 DEF U
<1> QED
  BY <1>1, <1>2

\* A state of the files, by its fields.
FsRec(f, r, o, l, b) == [files |-> f, ref_count |-> r, open_count |-> o, lost |-> l, panic |-> b]

\* Its fields.
LEMMA FsFields ==
    ASSUME NEW s \in FsState
    PROVE  /\ s = FsRec(s.files, s.ref_count, s.open_count, s.lost, s.panic)
           /\ s.files \in [Proc -> [Fd -> Slot] \cup {NULL}] /\ s.ref_count \in [Node -> Int]
           /\ s.open_count \in [Node -> Int] /\ s.lost \in [Node -> Int] /\ s.panic \in BOOLEAN
  BY DEF FsRec, FsState

\* Fields of these types make one.
LEMMA FsMake ==
    ASSUME NEW f \in [Proc -> [Fd -> Slot] \cup {NULL}], NEW r \in [Node -> Int],
           NEW o \in [Node -> Int], NEW l \in [Node -> Int], NEW b \in BOOLEAN,
           NEW x, x = FsRec(f, r, o, l, b)
    PROVE  /\ x \in FsState /\ x.files = f /\ x.ref_count = r /\ x.open_count = o
           /\ x.lost = l /\ x.panic = b
  BY DEF FsRec, FsState

\* fd_array_open of a free descriptor of p.
LEMMA OpenChange ==
    ASSUME NEW s \in FsState, NEW p \in Proc, s.files[p] # NULL,
           NEW fd \in Fd, s.files[p][fd] = file_none, NEW n \in Node
    PROVE  LET x == fd_array_open(s, p, fd, n)
               d == [status |-> "FD_OPENED", open_count |-> 1, node |-> n]
           IN  Change(x, s, p, [s.files[p] EXCEPT ![fd] = d]) /\ x.panic = s.panic
<1> DEFINE x == fd_array_open(s, p, fd, n)
           d == [status |-> "FD_OPENED", open_count |-> 1, node |-> n]
           f == s.files[p]
           g == [f EXCEPT ![fd] = d]
           F == [s.files EXCEPT ![p] = g]
           R == [s.ref_count EXCEPT ![n] = @ + 1]
           O == [s.open_count EXCEPT ![n] = @ + 1]
<1>1. /\ s = FsRec(s.files, s.ref_count, s.open_count, s.lost, s.panic)
      /\ s.files \in [Proc -> [Fd -> Slot] \cup {NULL}] /\ s.ref_count \in [Node -> Int]
      /\ s.open_count \in [Node -> Int] /\ s.lost \in [Node -> Int] /\ s.panic \in BOOLEAN
  BY FsFields
<1>2. f \in [Fd -> Slot] /\ f # NULL
  BY <1>1
<1>3. d \in Slot /\ d.node = n
  BY SlotFacts
<1>4. /\ g \in [Fd -> Slot] /\ g # NULL
      /\ \A m \in Node : Cardinality(Held(g, m)) = Cardinality(Held(f, m)) + (IF m = n THEN 1 ELSE 0)
  <2> HIDE DEF d, f
  <2>1. /\ g \in [Fd -> Slot]
        /\ \A m \in Node : Cardinality(Held(g, m)) = Cardinality(Held(f, m)) + (IF m = n THEN 1 ELSE 0)
    BY <1>2, <1>3, HeldOpen DEF f
  <2> QED
    BY <2>1, FdFacts
<1>5. /\ F \in [Proc -> [Fd -> Slot] \cup {NULL}] /\ R \in [Node -> Int] /\ O \in [Node -> Int]
      /\ \A m \in Node : R[m] = s.ref_count[m] + (IF m = n THEN 1 ELSE 0)
      /\ \A m \in Node : O[m] = s.open_count[m] + (IF m = n THEN 1 ELSE 0)
  <2>1. F \in [Proc -> [Fd -> Slot] \cup {NULL}]
    BY <1>1, <1>4
  <2>2. R \in [Node -> Int] /\ \A m \in Node : R[m] = s.ref_count[m] + (IF m = n THEN 1 ELSE 0)
    BY <1>1
  <2>3. O \in [Node -> Int] /\ \A m \in Node : O[m] = s.open_count[m] + (IF m = n THEN 1 ELSE 0)
    BY <1>1
  <2> QED
    BY <2>1, <2>2, <2>3
<1>6. x = FsRec(F, R, O, s.lost, s.panic)
  <2>1. ref_inc(s, n) = FsRec(s.files, R, s.open_count, s.lost, s.panic)
    BY <1>1 DEF ref_inc, FsRec
  <2>2. node_open(s, n) = FsRec(s.files, R, O, s.lost, s.panic)
    BY <2>1 DEF node_open, FsRec
  <2> HIDE DEF R, O, d
  <2>3. x = [FsRec(s.files, R, O, s.lost, s.panic) EXCEPT !.files[p][fd] = d]
    BY <2>2 DEF fd_array_open, d
  <2> QED
    BY <2>3 DEF FsRec
<1> HIDE DEF x, F, R, O, g, f
<1>7. /\ x \in FsState /\ x.files = F /\ x.ref_count = R /\ x.open_count = O
      /\ x.lost = s.lost /\ x.panic = s.panic
  <2>1. /\ F \in [Proc -> [Fd -> Slot] \cup {NULL}] /\ R \in [Node -> Int]
        /\ O \in [Node -> Int] /\ s.lost \in [Node -> Int] /\ s.panic \in BOOLEAN
    BY <1>1, <1>5, <1>6
  <2> QED
    BY ONLY <1>5, <1>6, <2>1, FsMake
<1>8. ASSUME NEW m \in Node
      PROVE  LET e == Cardinality(Held(g, m)) - Cardinality(Held(f, m))
             IN  /\ x.open_count[m] = s.open_count[m] + e
                 /\ x.ref_count[m] = s.ref_count[m] + e
                        + (IF m = root THEN One(g) - One(f) ELSE 0)
  <2>1. Cardinality(Held(f, m)) \in Nat
    BY <1>2, FdFacts
  <2>2. One(g) = 1 /\ One(f) = 1
    BY <1>2, <1>4 DEF One
  <2>3. s.ref_count[m] \in Int /\ s.open_count[m] \in Int
    BY <1>1
  <2> QED
    BY <1>4, <1>5, <1>7, <2>1, <2>2, <2>3
<1> QED
  BY <1>7, <1>8 DEF Change, F, g, f, x

\* vfs_close counts down for each descriptor.
LEMMA CloseCounts ==
    ASSUME NEW s \in FsState, NEW p, NEW fds,
           \A m \in Node : Uses(s, p, fds, m) \in Nat
    PROVE  LET x == vfs_close(s, p, fds)
               R == [m \in Node |-> s.ref_count[m] - Uses(s, p, fds, m)]
               O == [m \in Node |-> s.open_count[m] - Uses(s, p, fds, m)]
           IN  /\ x = FsRec(s.files, R, O, s.lost, s.panic)
               /\ R \in [Node -> Int] /\ O \in [Node -> Int]
<1> DEFINE R == [m \in Node |-> s.ref_count[m] - Uses(s, p, fds, m)]
           O == [m \in Node |-> s.open_count[m] - Uses(s, p, fds, m)]
<1>1. /\ s = FsRec(s.files, s.ref_count, s.open_count, s.lost, s.panic)
      /\ s.ref_count \in [Node -> Int] /\ s.open_count \in [Node -> Int]
  BY FsFields
<1>2. R \in [Node -> Int] /\ O \in [Node -> Int]
  BY <1>1
<1>3. vfs_close(s, p, fds) = [s EXCEPT !.ref_count = R, !.open_count = O]
  BY DEF vfs_close
<1> HIDE DEF R, O
<1>4. vfs_close(s, p, fds) = FsRec(s.files, R, O, s.lost, s.panic)
  BY <1>1, <1>3 DEF FsRec
<1> QED
  BY <1>2, <1>4 DEF R, O

\* fd_array_close of descriptors that are open once gives them back.
LEMMA CloseChange ==
    ASSUME NEW s \in FsState, NEW p \in Proc, s.files[p] # NULL, NEW fds \in SUBSET Fd,
           \A fd \in fds : s.files[p][fd].open_count = 1
    PROVE  LET x == fd_array_close(s, p, fds)
           IN  /\ Change(x, s, p, [fd \in Fd |-> IF fd \in fds THEN file_none ELSE s.files[p][fd]])
               /\ x.panic = s.panic
<1> DEFINE x == fd_array_close(s, p, fds)
           f == s.files[p]
           g == [fd \in Fd |-> IF fd \in fds THEN file_none ELSE f[fd]]
           F == [s.files EXCEPT ![p] = g]
           R == [m \in Node |-> s.ref_count[m] - Uses(s, p, fds, m)]
           O == [m \in Node |-> s.open_count[m] - Uses(s, p, fds, m)]
<1>1. /\ s = FsRec(s.files, s.ref_count, s.open_count, s.lost, s.panic)
      /\ s.files \in [Proc -> [Fd -> Slot] \cup {NULL}] /\ s.ref_count \in [Node -> Int]
      /\ s.open_count \in [Node -> Int] /\ s.lost \in [Node -> Int] /\ s.panic \in BOOLEAN
  BY FsFields
<1>2. f \in [Fd -> Slot] /\ f # NULL
  BY <1>1
<1>3. /\ g \in [Fd -> Slot] /\ g # NULL
      /\ \A m \in Node : Uses(s, p, fds, m) \in Nat /\
            Cardinality(Held(g, m)) = Cardinality(Held(f, m)) - Uses(s, p, fds, m)
  <2> HIDE DEF f
  <2>1. /\ g \in [Fd -> Slot]
        /\ \A m \in Node :
             LET u == Cardinality({fd \in fds : f[fd].node = m})
             IN  u \in Nat /\ Cardinality(Held(g, m)) = Cardinality(Held(f, m)) - u
    BY <1>2, HeldClose
  <2> QED
    BY <2>1, FdFacts DEF Uses, f
<1>4. /\ vfs_close(s, p, fds) = FsRec(s.files, R, O, s.lost, s.panic)
      /\ R \in [Node -> Int] /\ O \in [Node -> Int]
  BY <1>3, CloseCounts
<1>5. x = FsRec(F, R, O, s.lost, s.panic)
  <2> DEFINE last == {fd \in fds : s.files[p][fd].open_count = 1}
             y == vfs_close(s, p, last)
             h == [fd \in Fd |->
                    CASE fd \in last -> file_none
                      [] fd \in fds \ last ->
                            [s.files[p][fd] EXCEPT !.status = "FD_CLOSED", !.open_count = @ - 1]
                      [] OTHER -> s.files[p][fd]]
  <2>1. last = fds
    OBVIOUS
  <2>2. x = [y EXCEPT !.files[p] = h]
    <3>1. DOMAIN y.files = Proc /\ y = FsRec(y.files, y.ref_count, y.open_count, y.lost, y.panic)
      <4>1. y = FsRec(s.files, R, O, s.lost, s.panic)
        BY <1>4, <2>1
      <4> HIDE DEF y, R, O
      <4>2. y.files = s.files /\ y = FsRec(y.files, y.ref_count, y.open_count, y.lost, y.panic)
        BY <4>1 DEF FsRec
      <4> QED
        BY <1>1, <4>2
    <3> QED
      BY <3>1 DEF fd_array_close, FsRec
  <2>3. y = FsRec(s.files, R, O, s.lost, s.panic)
    BY <1>4, <2>1
  <2> HIDE DEF y, R, O, last
  <2>4. y.files = s.files
    BY <2>3 DEF FsRec
  <2>5. h = g
    BY <2>1, <2>4
  <2> HIDE DEF h, g
  <2> QED
    BY <2>2, <2>3, <2>5 DEF FsRec
<1>6. F \in [Proc -> [Fd -> Slot] \cup {NULL}]
  BY <1>1, <1>3
<1> HIDE DEF F, g
<1>7. /\ x \in FsState /\ x.files = F /\ x.ref_count = R /\ x.open_count = O
      /\ x.lost = s.lost /\ x.panic = s.panic
  <2> HIDE DEF x, R, O
  <2> QED
    BY <1>1, <1>4, <1>5, <1>6, FsMake
<1>8. ASSUME NEW m \in Node
      PROVE  LET e == Cardinality(Held(g, m)) - Cardinality(Held(f, m))
             IN  /\ x.open_count[m] = s.open_count[m] + e
                 /\ x.ref_count[m] = s.ref_count[m] + e
                        + (IF m = root THEN One(g) - One(f) ELSE 0)
  <2>1. Cardinality(Held(f, m)) \in Nat
    BY <1>2, FdFacts
  <2>2. One(g) = 1 /\ One(f) = 1
    BY <1>2, <1>3 DEF One
  <2>3. s.ref_count[m] \in Int /\ s.open_count[m] \in Int
    BY <1>1
  <2>4. /\ x.ref_count[m] = s.ref_count[m] - Uses(s, p, fds, m)
        /\ x.open_count[m] = s.open_count[m] - Uses(s, p, fds, m)
    BY <1>7
  <2> HIDE DEF x
  <2> QED
    BY <1>3, <2>1, <2>2, <2>3, <2>4
<1> QED
  BY <1>7, <1>8 DEF Change, F, g, f, x

\* put_files of a process that reads nothing gives everything back, the directory
\* too, and finds no descriptor that stays.
LEMMA PutChange ==
    ASSUME NEW s \in FsState, NEW p \in Proc, s.files[p] # NULL,
           \A fd \in Fd : s.files[p][fd] # file_none => s.files[p][fd].open_count = 1
    PROVE  LET x == put_files(s, p) IN Change(x, s, p, NULL) /\ x.panic = FALSE
<1> DEFINE x == put_files(s, p)
           fds == WithStatus(s, p, "FD_OPENED")
           f == s.files[p]
           g == [fd \in Fd |-> IF fd \in fds THEN file_none ELSE f[fd]]
           y == fd_array_close(s, p, fds)
           b == WithStatus(y, p, "FD_NONE") # Fd
           F == [y.files EXCEPT ![p] = NULL]
           R == [y.ref_count EXCEPT ![root] = @ - 1]
<1>1. f \in [Fd -> Slot] /\ f # NULL /\ s.files \in [Proc -> [Fd -> Slot] \cup {NULL}]
  BY FsFields
<1>2. /\ fds \in SUBSET Fd /\ \A fd \in fds : f[fd].open_count = 1
      /\ \A fd \in Fd \ fds : f[fd] = file_none
  BY <1>1, SlotFacts DEF WithStatus
<1>3. Change(y, s, p, g)
  <2> HIDE DEF fds
  <2> QED
    BY <1>2, CloseChange
<1>4. g = [fd \in Fd |-> file_none]
  BY <1>2
<1> HIDE DEF g, y, fds
<1>5. /\ y.files \in [Proc -> [Fd -> Slot] \cup {NULL}] /\ y.ref_count \in [Node -> Int]
      /\ y.open_count \in [Node -> Int] /\ y.lost \in [Node -> Int] /\ y.panic \in BOOLEAN
      /\ y = FsRec(y.files, y.ref_count, y.open_count, y.lost, y.panic)
  BY <1>3, FsFields DEF Change
<1>6. /\ y.files = [s.files EXCEPT ![p] = g] /\ y.files[p] = g /\ y.lost = s.lost
  BY <1>1, <1>3 DEF Change
<1>7. b = FALSE
  <2>1. WithStatus(y, p, "FD_NONE") = Fd
    BY <1>4, <1>6 DEF WithStatus, file_none
  <2> QED
    BY <2>1
<1> HIDE DEF b
<1>8. x = FsRec(F, R, y.open_count, y.lost, b)
  <2>1. x = [y EXCEPT !.files[p] = NULL, !.ref_count[root] = @ - 1, !.panic = b]
    BY DEF put_files, y, fds, b
  <2>2. x = [FsRec(y.files, y.ref_count, y.open_count, y.lost, y.panic)
                EXCEPT !.files[p] = NULL, !.ref_count[root] = @ - 1, !.panic = b]
    BY <1>5, <2>1
  <2> HIDE DEF x
  <2> QED
    BY <2>2 DEF FsRec
<1>9. /\ F \in [Proc -> [Fd -> Slot] \cup {NULL}] /\ R \in [Node -> Int]
      /\ F = [s.files EXCEPT ![p] = NULL]
      /\ \A m \in Node : R[m] = y.ref_count[m] - (IF m = root THEN 1 ELSE 0)
  <2>1. F \in [Proc -> [Fd -> Slot] \cup {NULL}] /\ F = [s.files EXCEPT ![p] = NULL]
    BY <1>1, <1>5, <1>6
  <2>2. R \in [Node -> Int] /\ \A m \in Node : R[m] = y.ref_count[m] - (IF m = root THEN 1 ELSE 0)
    BY <1>5 DEF Node
  <2> QED
    BY <2>1, <2>2
<1> HIDE DEF x, F, R
<1>10. /\ x \in FsState /\ x.files = F /\ x.ref_count = R /\ x.open_count = y.open_count
       /\ x.lost = y.lost /\ x.panic = b
  <2>1. /\ F \in [Proc -> [Fd -> Slot] \cup {NULL}] /\ R \in [Node -> Int]
        /\ y.open_count \in [Node -> Int] /\ y.lost \in [Node -> Int] /\ b \in BOOLEAN
    BY <1>5, <1>7, <1>9
  <2> QED
    BY ONLY <1>8, <2>1, FsMake
<1>11. g \in [Fd -> Slot] /\ g # NULL /\ \A m \in Node : Held(g, m) = {}
  <2>1. g \in [Fd -> Slot]
    BY <1>4, SlotFacts
  <2> QED
    BY <1>4, <2>1, SlotFacts, FdFacts DEF Held
<1>12. ASSUME NEW m \in Node
       PROVE  LET e == Cardinality(Held(NULL, m)) - Cardinality(Held(f, m))
              IN  /\ x.open_count[m] = s.open_count[m] + e
                  /\ x.ref_count[m] = s.ref_count[m] + e
                         + (IF m = root THEN One(NULL) - One(f) ELSE 0)
  <2>1. Cardinality(Held(f, m)) \in Nat
    BY <1>1, FdFacts
  <2>2. One(g) = 1 /\ One(f) = 1 /\ One(NULL) = 0
    BY <1>1, <1>11 DEF One
  <2>3. Cardinality(Held(NULL, m)) = 0 /\ Cardinality(Held(g, m)) = 0
    BY <1>11, FS_EmptySet DEF Held
  <2>4. /\ y.open_count[m] = s.open_count[m] + (0 - Cardinality(Held(f, m)))
        /\ y.ref_count[m] = s.ref_count[m] + (0 - Cardinality(Held(f, m)))
                            + (IF m = root THEN 1 - 1 ELSE 0)
    BY <1>3, <2>2, <2>3 DEF Change
  <2>5. s.ref_count[m] \in Int /\ s.open_count[m] \in Int
    BY FsFields
  <2> QED
    BY <1>9, <1>10, <2>1, <2>2, <2>3, <2>4, <2>5
<1> QED
  BY <1>6, <1>7, <1>9, <1>10, <1>12 DEF Change, f, x

\* copy_files of a process that reads nothing, into one without a files_struct.
LEMMA CopyChange ==
    ASSUME NEW s \in FsState, NEW p \in Proc, NEW c \in Proc,
           s.files[p] # NULL, s.files[c] = NULL,
           \A fd \in Fd : s.files[p][fd] # file_none => s.files[p][fd].open_count = 1
    PROVE  LET x == copy_files(s, p, c) IN Change(x, s, c, s.files[p]) /\ x.panic = s.panic
<1> DEFINE x == copy_files(s, p, c)
           fds == WithStatus(s, p, "FD_OPENED")
           f == s.files[p]
           u(n) == Uses(s, p, fds, n)
           g == [fd \in Fd |-> IF fd \in fds THEN [f[fd] EXCEPT !.open_count = 1] ELSE file_none]
           F == [s.files EXCEPT ![c] = g]
           R == [n \in Node |-> s.ref_count[n] + u(n) + (IF n = root THEN 1 ELSE 0)]
           O == [n \in Node |-> s.open_count[n] + u(n)]
<1>1. /\ f \in [Fd -> Slot] /\ f # NULL /\ s.files \in [Proc -> [Fd -> Slot] \cup {NULL}]
      /\ s.ref_count \in [Node -> Int] /\ s.open_count \in [Node -> Int]
      /\ s.lost \in [Node -> Int] /\ s.panic \in BOOLEAN
      /\ s = FsRec(s.files, s.ref_count, s.open_count, s.lost, s.panic)
  BY FsFields
<1>2. fds \in SUBSET Fd /\ \A fd \in Fd : fd \in fds <=> f[fd] # file_none
  BY <1>1, SlotFacts DEF WithStatus
<1>3. g = f
  <2>1. ASSUME NEW fd \in fds PROVE [f[fd] EXCEPT !.open_count = 1] = f[fd]
    <3>1. f[fd] \in [status : {"FD_OPENED"}, open_count : {1, 2}, node : Node]
      BY <1>1, <1>2 DEF Slot
    <3>2. f[fd].open_count = 1
      BY <1>2
    <3> QED
      BY <3>1, <3>2
  <2> HIDE DEF fds, f
  <2> QED
    BY <1>1, <1>2, <2>1
<1>4. \A n \in Node : u(n) = Cardinality(Held(f, n)) /\ u(n) \in Nat
  <2>1. ASSUME NEW n \in Node
        PROVE  {fd \in fds : f[fd].node = n} = Held(f, n)
    BY <1>1, <1>2, SlotFacts DEF Held
  <2>2. \A n \in Node : u(n) = Cardinality({fd \in fds : f[fd].node = n})
    BY DEF Uses
  <2>3. \A n \in Node : Cardinality(Held(f, n)) \in Nat
    BY <1>1, FdFacts
  <2> HIDE DEF u
  <2> QED
    BY <2>1, <2>2, <2>3
<1>5. x = FsRec(F, R, O, s.lost, s.panic)
  <2>1. x = [s EXCEPT !.files[c] = g, !.ref_count = R, !.open_count = O]
    BY DEF copy_files
  <2> HIDE DEF x, g, R, O
  <2>2. x = [FsRec(s.files, s.ref_count, s.open_count, s.lost, s.panic)
                EXCEPT !.files[c] = g, !.ref_count = R, !.open_count = O]
    BY <1>1, <2>1
  <2> QED
    BY <2>2 DEF FsRec
<1> HIDE DEF u, fds
<1>6. /\ F \in [Proc -> [Fd -> Slot] \cup {NULL}] /\ R \in [Node -> Int] /\ O \in [Node -> Int]
      /\ F = [s.files EXCEPT ![c] = f]
      /\ \A n \in Node : R[n] = s.ref_count[n] + u(n) + (IF n = root THEN 1 ELSE 0)
      /\ \A n \in Node : O[n] = s.open_count[n] + u(n)
  <2>1. F \in [Proc -> [Fd -> Slot] \cup {NULL}] /\ F = [s.files EXCEPT ![c] = f]
    <3> HIDE DEF g
    <3> QED
      BY <1>1, <1>3
  <2>2. R \in [Node -> Int] /\ O \in [Node -> Int]
    BY <1>1, <1>4
  <2> QED
    BY <2>1, <2>2
<1> HIDE DEF x, g, F, R, O
<1>7. /\ x \in FsState /\ x.files = F /\ x.ref_count = R /\ x.open_count = O
      /\ x.lost = s.lost /\ x.panic = s.panic
  <2>1. /\ F \in [Proc -> [Fd -> Slot] \cup {NULL}] /\ R \in [Node -> Int]
        /\ O \in [Node -> Int] /\ s.lost \in [Node -> Int] /\ s.panic \in BOOLEAN
    BY <1>1, <1>5, <1>6
  <2> QED
    BY ONLY <1>5, <1>6, <2>1, FsMake
<1>8. ASSUME NEW m \in Node
      PROVE  LET e == Cardinality(Held(f, m)) - Cardinality(Held(s.files[c], m))
             IN  /\ x.open_count[m] = s.open_count[m] + e
                 /\ x.ref_count[m] = s.ref_count[m] + e
                        + (IF m = root THEN One(f) - One(s.files[c]) ELSE 0)
  <2>1. One(f) = 1 /\ One(s.files[c]) = 0
    BY <1>1 DEF One
  <2>2. Cardinality(Held(s.files[c], m)) = 0
    BY FS_EmptySet DEF Held
  <2>3. s.ref_count[m] \in Int /\ s.open_count[m] \in Int /\ u(m) \in Nat
    BY <1>1, <1>4
  <2>4. u(m) = Cardinality(Held(f, m))
    BY <1>4
  <2> QED
    BY <1>6, <1>7, <2>1, <2>2, <2>3, <2>4
<1> QED
  BY <1>6, <1>7, <1>8 DEF Change, x

\* A descriptor that keeps its inode changes no count.
LEMMA SlotChange ==
    ASSUME NEW s \in FsState, NEW p \in Proc, s.files[p] # NULL, NEW fd \in Fd,
           NEW d \in Slot, d.node = s.files[p][fd].node
    PROVE  LET x == [s EXCEPT !.files[p][fd] = d]
           IN  Change(x, s, p, [s.files[p] EXCEPT ![fd] = d]) /\ x.panic = s.panic
<1> DEFINE x == [s EXCEPT !.files[p][fd] = d]
           f == s.files[p]
           g == [f EXCEPT ![fd] = d]
           F == [s.files EXCEPT ![p] = g]
<1>1. /\ f \in [Fd -> Slot] /\ f # NULL /\ s.files \in [Proc -> [Fd -> Slot] \cup {NULL}]
      /\ s.ref_count \in [Node -> Int] /\ s.open_count \in [Node -> Int]
      /\ s.lost \in [Node -> Int] /\ s.panic \in BOOLEAN
      /\ s = FsRec(s.files, s.ref_count, s.open_count, s.lost, s.panic)
  BY FsFields
<1>2. g \in [Fd -> Slot] /\ g # NULL
  <2>1. g \in [Fd -> Slot]
    BY <1>1
  <2> QED
    BY <2>1, FdFacts
<1>3. \A m \in Node : Held(g, m) = Held(f, m)
  <2>1. g[fd].node = f[fd].node /\ \A e \in Fd \ {fd} : g[e] = f[e]
    BY <1>1
  <2> HIDE DEF g, f
  <2> QED
    BY <1>1, <1>2, <2>1 DEF Held
<1>4. x = FsRec(F, s.ref_count, s.open_count, s.lost, s.panic)
  <2>1. x = [FsRec(s.files, s.ref_count, s.open_count, s.lost, s.panic) EXCEPT !.files[p][fd] = d]
    BY <1>1
  <2> HIDE DEF x
  <2> QED
    BY <2>1 DEF FsRec
<1>5. F \in [Proc -> [Fd -> Slot] \cup {NULL}]
  BY <1>1, <1>2
<1> HIDE DEF x, g, F
<1>6. /\ x \in FsState /\ x.files = F /\ x.ref_count = s.ref_count /\ x.open_count = s.open_count
      /\ x.lost = s.lost /\ x.panic = s.panic
  BY <1>1, <1>4, <1>5, FsMake
<1>7. ASSUME NEW m \in Node
      PROVE  LET e == Cardinality(Held(g, m)) - Cardinality(Held(f, m))
             IN  /\ x.open_count[m] = s.open_count[m] + e
                 /\ x.ref_count[m] = s.ref_count[m] + e
                        + (IF m = root THEN One(g) - One(f) ELSE 0)
  <2>1. One(f) = 1 /\ One(g) = 1 /\ Cardinality(Held(f, m)) \in Nat
    BY <1>1, <1>2, FdFacts DEF One
  <2>2. s.ref_count[m] \in Int /\ s.open_count[m] \in Int
    BY <1>1
  <2> QED
    BY <1>3, <1>6, <2>1, <2>2
<1> QED
  BY <1>6, <1>7 DEF Change, F, g, f, x

\* Of two changes of p's files_struct the second is what is left.
LEMMA ChangeTwice ==
    ASSUME NEW s \in FsState, NEW p \in Proc, NEW x, NEW y,
           NEW g \in [Fd -> Slot] \cup {NULL}, NEW h \in [Fd -> Slot] \cup {NULL},
           Change(x, s, p, g), Change(y, x, p, h)
    PROVE  Change(y, s, p, h)
<1>1. /\ x.files = [s.files EXCEPT ![p] = g] /\ y.files = [x.files EXCEPT ![p] = h]
      /\ s.files \in [Proc -> [Fd -> Slot] \cup {NULL}]
      /\ x \in FsState /\ y \in FsState /\ y.lost = x.lost /\ x.lost = s.lost
  BY FsFields DEF Change
<1>2. x.files[p] = g /\ y.files = [s.files EXCEPT ![p] = h]
  BY <1>1
<1>3. ASSUME NEW m \in Node
      PROVE  LET d == Cardinality(Held(h, m)) - Cardinality(Held(s.files[p], m))
             IN  /\ y.open_count[m] = s.open_count[m] + d
                 /\ y.ref_count[m] = s.ref_count[m] + d
                         + (IF m = root THEN One(h) - One(s.files[p]) ELSE 0)
  <2> DEFINE a == Cardinality(Held(s.files[p], m))
             b == Cardinality(Held(g, m))
             c == Cardinality(Held(h, m))
  <2>1. a \in Nat /\ b \in Nat /\ c \in Nat
    BY <1>1, FdFacts
  <2>2. /\ x.open_count[m] = s.open_count[m] + (b - a)
        /\ x.ref_count[m] = s.ref_count[m] + (b - a)
                            + (IF m = root THEN One(g) - One(s.files[p]) ELSE 0)
    BY DEF Change
  <2>3. /\ y.open_count[m] = x.open_count[m] + (c - b)
        /\ y.ref_count[m] = x.ref_count[m] + (c - b)
                            + (IF m = root THEN One(h) - One(g) ELSE 0)
    BY <1>2 DEF Change
  <2>4. /\ One(g) \in Int /\ One(h) \in Int /\ One(s.files[p]) \in Int
        /\ s.ref_count[m] \in Int /\ s.open_count[m] \in Int
    BY FsFields DEF One
  <2> HIDE DEF a, b, c
  <2> QED
    BY <2>1, <2>2, <2>3, <2>4 DEF a, c
<1> QED
  BY <1>1, <1>2, <1>3 DEF Change

\* A set of numbers that is not empty has a least element.
LEMMA LeastNat ==
    ASSUME NEW S, S \subseteq Nat, S # {}
    PROVE  \E n \in S : \A m \in S : n <= m
<1> DEFINE R == {ss \in Nat \X Nat : ss[1] < ss[2]}
<1>1. IsWellFoundedOn(R, Nat)
  BY NatLessThanWellFounded DEF OpToRel
<1> HIDE DEF R
<1>2. \E n \in S : \A m \in S : <<m, n>> \notin R
  BY <1>1, WFMin, Zenon
<1>3. \A m, n \in Nat : m < n => <<m, n>> \in R
  BY DEF R
<1> QED
  <2>1. PICK n \in S : \A m \in S : <<m, n>> \notin R
    BY <1>2
  <2>2. ASSUME NEW m \in S PROVE n <= m
    <3>1. m \in Nat /\ n \in Nat /\ <<m, n>> \notin R
      BY <2>1
    <3>2. ~ (m < n)
      BY <1>3, <3>1
    <3> QED
      BY <3>1, <3>2
  <2> QED
    BY <2>1, <2>2

\* The first free descriptor is free.
LEMMA FirstFree ==
    ASSUME NEW s, NEW p, WithStatus(s, p, "FD_NONE") # {}
    PROVE  Min(WithStatus(s, p, "FD_NONE")) \in WithStatus(s, p, "FD_NONE")
<1> DEFINE S == WithStatus(s, p, "FD_NONE")
<1>1. S \subseteq Nat
  BY FdFacts DEF WithStatus
<1> HIDE DEF S
<1>2. \E x \in S : \A y \in S : x <= y
  BY <1>1, LeastNat DEF S
<1> QED
  BY <1>2 DEF Min, S

\* file_open by p, which has a free descriptor.
LEMMA FileOpenChange ==
    ASSUME NEW s \in FsState, NEW p \in Proc, s.files[p] # NULL,
           WithStatus(s, p, "FD_NONE") # {}, NEW n \in Node
    PROVE  \E fd \in Fd :
              /\ s.files[p][fd] = file_none
              /\ Change(file_open(s, p, n), s, p, [s.files[p] EXCEPT ![fd] =
                        [status |-> "FD_OPENED", open_count |-> 1, node |-> n]])
              /\ file_open(s, p, n).panic = s.panic
<1> DEFINE fd == Min(WithStatus(s, p, "FD_NONE"))
<1>1. fd \in WithStatus(s, p, "FD_NONE")
  BY FirstFree
<1>2. file_open(s, p, n) = fd_array_open(s, p, fd, n)
  BY DEF file_open
<1> HIDE DEF fd
<1>3. s.files[p] \in [Fd -> Slot]
  BY FsFields
<1>4. fd \in Fd /\ s.files[p][fd] = file_none
  BY <1>1, <1>3, SlotFacts DEF WithStatus
<1>5. /\ Change(fd_array_open(s, p, fd, n), s, p, [s.files[p] EXCEPT ![fd] =
                        [status |-> "FD_OPENED", open_count |-> 1, node |-> n]])
      /\ fd_array_open(s, p, fd, n).panic = s.panic
  BY <1>4, OpenChange
<1> QED
  BY <1>2, <1>4, <1>5

----------------------------------------------------------------------------
(* The counts stay exact *)

\* In the files_struct f of a process that reads r, a descriptor is open twice if it is
\* r, and once otherwise.
OpenOnce(f, r) ==
    f # NULL => \A fd \in Fd : f[fd] # file_none => f[fd].open_count = (IF r = fd THEN 2 ELSE 1)

\* Who is live has a files_struct; who reads is live and reads what is open.
FilesInv ==
    /\ fs \in FsState /\ Counted(fs)
    /\ state \in [Proc -> {"free", "live", "zombie"}]
    /\ reading \in [Proc -> Fd \cup {NULL}]
    /\ \A p \in Proc : state[p] = "live" => fs.files[p] # NULL
    /\ \A p \in Proc : OpenOnce(fs.files[p], reading[p])
    /\ \A p \in Proc : reading[p] # NULL => /\ state[p] = "live"
                                            /\ fs.files[p][reading[p]] # file_none

\* The invariant needs a look only at the process p that a step is about.
LEMMA FilesStep ==
    ASSUME FilesInv, NEW p \in Proc, NEW g \in [Fd -> Slot] \cup {NULL},
           Change(fs', fs, p, g),
           state' \in [Proc -> {"free", "live", "zombie"}],
           reading' \in [Proc -> Fd \cup {NULL}],
           \A q \in Proc \ {p} : state'[q] = state[q] /\ reading'[q] = reading[q],
           state'[p] = "live" => g # NULL,
           OpenOnce(g, reading'[p]),
           reading'[p] # NULL => state'[p] = "live" /\ g[reading'[p]] # file_none
    PROVE  FilesInv'
<1>1. fs \in FsState /\ Counted(fs)
  BY DEF FilesInv
<1>2. fs' \in FsState /\ fs'.files = [fs.files EXCEPT ![p] = g]
  BY DEF Change
<1>3. Counted(fs')
  BY <1>1, ChangeCounted
<1>4. fs'.files[p] = g /\ \A q \in Proc \ {p} : fs'.files[q] = fs.files[q]
  BY <1>1, <1>2, FsFields
<1>5. /\ \A q \in Proc : state'[q] = "live" => fs'.files[q] # NULL
      /\ \A q \in Proc : reading'[q] # NULL => /\ state'[q] = "live"
                                               /\ fs'.files[q][reading'[q]] # file_none
  BY <1>4 DEF FilesInv
<1>6. \A q \in Proc : OpenOnce(fs'.files[q], reading'[q])
  BY <1>4 DEF FilesInv
<1>7. Counted(fs)'
  BY <1>3 DEF Counted, Users, Structs, Kept
<1> QED
  BY <1>2, <1>5, <1>6, <1>7 DEF FilesInv

\* A step that touches no file keeps the counts exact.
LEMMA CountedSame ==
    ASSUME FilesInv, fs' = fs
    PROVE  Counted(fs)'
<1>1. Counted(fs)
  BY DEF FilesInv
<1> QED
  BY <1>1 DEF Counted, Users, Structs, Kept

\* What a process that runs has: nothing of it is open twice.
LEMMA RunningFiles ==
    ASSUME FilesInv, NEW p \in Proc, Running(p)
    PROVE  /\ state[p] = "live" /\ reading[p] = NULL /\ fs \in FsState
           /\ fs.files[p] \in [Fd -> Slot] /\ fs.files[p] # NULL
           /\ \A fd \in Fd : fs.files[p][fd] # file_none => fs.files[p][fd].open_count = 1
<1>1. state[p] = "live" /\ reading[p] = NULL /\ fs \in FsState /\ fs.files[p] # NULL
  BY DEF Running, FilesInv
<1>2. fs.files[p] \in [Fd -> Slot]
  BY <1>1, FsFields
<1>3. \A fd \in Fd : reading[p] # fd
  BY <1>1, FilesAssumption
<1> QED
  BY <1>1, <1>2, <1>3 DEF FilesInv, OpenOnce

\* The first program has opened one file.
LEMMA InitFilesInv ==
    ASSUME Init
    PROVE  FilesInv /\ fs.panic = FALSE
<1> DEFINE f0(p) == [q \in Proc |-> IF q = p THEN files_create ELSE NULL]
           r0 == [i \in Node |-> Kept(i) + (IF i = root THEN 1 ELSE 0)]
           o0 == [i \in Node |-> 0]
<1>1. PICK p \in Proc, n \in File :
        /\ state = [q \in Proc |-> IF q = p THEN "live" ELSE "free"]
        /\ fs = file_open(FsRec(f0(p), r0, o0, o0, FALSE), p, n)
        /\ reading = [q \in Proc |-> NULL]
  BY DEF Init, FsRec
<1> DEFINE s == FsRec(f0(p), r0, o0, o0, FALSE)
<1>2. /\ files_create \in [Fd -> Slot] /\ files_create # NULL
      /\ \A fd \in Fd : files_create[fd] = file_none
  <2>1. files_create \in [Fd -> Slot] /\ \A fd \in Fd : files_create[fd] = file_none
    BY SlotFacts DEF files_create
  <2> QED
    BY <2>1, FdFacts
<1>3. f0(p) \in [Proc -> [Fd -> Slot] \cup {NULL}] /\ r0 \in [Node -> Int] /\ o0 \in [Node -> Int]
  BY <1>2 DEF Kept
<1>4. /\ s \in FsState /\ s.files = f0(p) /\ s.ref_count = r0 /\ s.open_count = o0
      /\ s.lost = o0 /\ s.panic = FALSE
  <2> DEFINE b == FALSE
             F == f0(p)
  <2>1. s = FsRec(F, r0, o0, o0, b) /\ b \in BOOLEAN
    OBVIOUS
  <2> HIDE DEF f0, r0, o0, s, b, F
  <2>2. F \in [Proc -> [Fd -> Slot] \cup {NULL}]
    BY <1>3 DEF F
  <2>3. /\ s \in FsState /\ s.files = F /\ s.ref_count = r0 /\ s.open_count = o0
        /\ s.lost = o0 /\ s.panic = b
    BY <1>3, <2>1, <2>2, FsMake
  <2> QED
    BY <2>3 DEF b, F
<1> HIDE DEF s
<1>5. Counted(s)
  <2>1. Structs(s) = {p}
    BY <1>2, <1>4 DEF Structs
  <2>2. ASSUME NEW m \in Node PROVE Users(s, m) = {}
    <3>1. \A x \in {p} \X Fd : s.files[x[1]][x[2]] = file_none
      BY <1>2, <1>4
    <3> QED
      BY <2>1, <3>1, SlotFacts DEF Users
  <2>3. Cardinality({p}) = 1 /\ Cardinality({}) = 0
    BY FS_Singleton, FS_EmptySet
  <2>4. \A m \in Node : Kept(m) \in Nat
    BY DEF Kept
  <2>5. ASSUME NEW m \in Node
        PROVE  /\ s.open_count[m] = Cardinality(Users(s, m))
               /\ s.ref_count[m] = Kept(m) + s.lost[m] + Cardinality(Users(s, m))
                                   + (IF m = root THEN Cardinality(Structs(s)) ELSE 0)
    <3>1. /\ s.open_count[m] = 0 /\ s.lost[m] = 0
          /\ s.ref_count[m] = Kept(m) + (IF m = root THEN 1 ELSE 0)
      BY <1>4
    <3>2. Cardinality(Users(s, m)) = 0 /\ Cardinality(Structs(s)) = 1 /\ Kept(m) \in Nat
      BY <2>1, <2>2, <2>3, <2>4
    <3> QED
      BY <3>1, <3>2
  <2> QED
    BY <2>5 DEF Counted
<1>6. s.files[p] = files_create /\ \A q \in Proc \ {p} : s.files[q] = NULL
  BY <1>4
<1>7. WithStatus(s, p, "FD_NONE") # {} /\ n \in Node
  <2>1. 0 \in WithStatus(s, p, "FD_NONE")
    BY <1>2, <1>6, FdFacts, SlotFacts DEF WithStatus
  <2> QED
    BY <2>1 DEF Node
<1> DEFINE d == [status |-> "FD_OPENED", open_count |-> 1, node |-> n]
<1>8. PICK fd \in Fd :
            /\ Change(file_open(s, p, n), s, p, [s.files[p] EXCEPT ![fd] = d])
            /\ file_open(s, p, n).panic = s.panic
  BY <1>2, <1>4, <1>6, <1>7, FileOpenChange
<1> DEFINE g == [files_create EXCEPT ![fd] = d]
<1>9. g \in [Fd -> Slot] /\ g # NULL /\ OpenOnce(g, NULL)
  <2>1. d \in Slot /\ d.open_count = 1
    BY <1>7, SlotFacts
  <2> HIDE DEF d
  <2>2. g \in [Fd -> Slot]
    BY <1>2, <2>1
  <2>3. OpenOnce(g, NULL)
    BY <1>2, <2>1, FilesAssumption DEF OpenOnce
  <2> QED
    BY <2>2, <2>3, FdFacts
<1>10. Change(fs, s, p, g) /\ fs.panic = FALSE
  BY <1>1, <1>4, <1>6, <1>8 DEF s
<1> HIDE DEF g, d
<1>11. Counted(fs) /\ fs \in FsState /\ fs.files = [s.files EXCEPT ![p] = g]
  BY <1>4, <1>5, <1>9, <1>10, ChangeCounted DEF Change
<1>12. fs.files[p] = g /\ \A q \in Proc \ {p} : fs.files[q] = NULL
  BY <1>3, <1>4, <1>6, <1>11
<1>13. \A q \in Proc : OpenOnce(fs.files[q], reading[q])
  BY <1>1, <1>9, <1>12 DEF OpenOnce
<1> QED
  BY <1>1, <1>9, <1>10, <1>11, <1>12, <1>13 DEF FilesInv

\* A file call of p; only an open with O_CREAT of what does not exist fails an assert.
LEMMA SysFileCounted ==
    ASSUME FilesInv, NEW p \in Proc, SysFile(p)
    PROVE  /\ FilesInv'
           /\ "vop_create" \notin FAILS => fs'.panic = fs.panic
<1>1. state' = state /\ state \in [Proc -> {"free", "live", "zombie"}]
      /\ reading \in [Proc -> Fd \cup {NULL}] /\ NULL \notin Fd /\ fs \in FsState
  BY FilesAssumption DEF SysFile, FilesInv
<1> DEFINE f == fs.files[p]
<1>2. ASSUME Running(p), NEW fd \in Fd, f[fd] = file_none, NEW n \in Node, reading' = reading,
             Change(fs', fs, p, [f EXCEPT ![fd] =
                        [status |-> "FD_OPENED", open_count |-> 1, node |-> n]])
      PROVE  FilesInv'
  <2> DEFINE d == [status |-> "FD_OPENED", open_count |-> 1, node |-> n]
             g == [f EXCEPT ![fd] = d]
  <2>1. /\ state[p] = "live" /\ reading[p] = NULL /\ f \in [Fd -> Slot]
        /\ \A e \in Fd : f[e] # file_none => f[e].open_count = 1
    BY <1>2, RunningFiles
  <2>2. d \in Slot /\ d.open_count = 1
    BY SlotFacts
  <2> HIDE DEF d, f
  <2>3. g \in [Fd -> Slot]
    BY <2>1, <2>2
  <2>4. OpenOnce(g, NULL)
    BY <1>1, <2>1, <2>2 DEF OpenOnce
  <2>5. g # NULL
    BY <2>3, FdFacts
  <2>6. Change(fs', fs, p, g)
    BY <1>2 DEF d, f
  <2> HIDE DEF g
  <2> QED
    BY <1>1, <1>2, <2>1, <2>3, <2>4, <2>5, <2>6, FilesStep
<1>3. ASSUME Running(p), NEW n \in Node, NEW at \in {"done"} \cup (FAILS \cap CallFails),
             Open(p, n, at)
      PROVE  FilesInv' /\ ("vop_create" \notin FAILS => fs'.panic = fs.panic)
  <2>1. WithStatus(fs, p, "FD_NONE") # {} /\ reading' = reading
    BY <1>3 DEF Open
  <2>2. CASE at = "vop_create"
    <3>1. fs' = [fs EXCEPT !.panic = TRUE] /\ at \in FAILS
      BY <1>3, <2>2 DEF Open
    <3>2. /\ fs' \in FsState /\ fs'.files = fs.files /\ fs'.ref_count = fs.ref_count
          /\ fs'.open_count = fs.open_count /\ fs'.lost = fs.lost
      BY <1>1, <3>1 DEF FsState
    <3>3. Counted(fs)'
      BY <3>2 DEF FilesInv, Counted, Users, Structs, Kept
    <3> QED
      BY <1>1, <2>1, <2>2, <3>1, <3>2, <3>3 DEF FilesInv
  <2>3. CASE at # "vop_create"
    <3>1. fs' = file_open(fs, p, n)
      BY <1>3, <2>3 DEF Open
    <3>2. f # NULL
      BY <1>3, RunningFiles
    <3>3. PICK fd \in Fd :
              /\ f[fd] = file_none /\ fs'.panic = fs.panic
              /\ Change(fs', fs, p, [f EXCEPT ![fd] =
                        [status |-> "FD_OPENED", open_count |-> 1, node |-> n]])
      BY <1>1, <2>1, <3>1, <3>2, FileOpenChange
    <3> QED
      BY <1>2, <1>3, <2>1, <3>3
  <2> QED
    BY <2>2, <2>3
<1>4. ASSUME Running(p), NEW n \in Node, OpenExists(p, n)
      PROVE  FilesInv' /\ fs'.panic = fs.panic
  <2> DEFINE R == [fs.ref_count EXCEPT ![n] = @ + 1]
             L == [fs.lost EXCEPT ![n] = @ + 1]
  <2>1. fs' = [ref_inc(fs, n) EXCEPT !.lost[n] = @ + 1] /\ reading' = reading
    BY <1>4 DEF OpenExists
  <2>2. /\ fs.files \in [Proc -> [Fd -> Slot] \cup {NULL}] /\ fs.ref_count \in [Node -> Int]
        /\ fs.open_count \in [Node -> Int] /\ fs.lost \in [Node -> Int] /\ fs.panic \in BOOLEAN
        /\ fs = FsRec(fs.files, fs.ref_count, fs.open_count, fs.lost, fs.panic)
    BY <1>1, FsFields
  <2>3. fs' = FsRec(fs.files, R, fs.open_count, L, fs.panic)
    <3>1. ref_inc(fs, n) = FsRec(fs.files, R, fs.open_count, fs.lost, fs.panic)
      BY <2>2 DEF ref_inc, FsRec
    <3> HIDE DEF R
    <3>2. fs' = [FsRec(fs.files, R, fs.open_count, fs.lost, fs.panic) EXCEPT !.lost[n] = @ + 1]
      BY <2>1, <3>1
    <3> QED
      BY <3>2 DEF FsRec
  <2>4. R \in [Node -> Int] /\ L \in [Node -> Int]
    BY <2>2
  <2>5. \A m \in Node : /\ R[m] = fs.ref_count[m] + (IF m = n THEN 1 ELSE 0)
                        /\ L[m] = fs.lost[m] + (IF m = n THEN 1 ELSE 0)
    BY <2>2
  <2> HIDE DEF R, L
  <2>6. /\ fs' \in FsState /\ fs'.files = fs.files /\ fs'.ref_count = R
        /\ fs'.open_count = fs.open_count /\ fs'.lost = L /\ fs'.panic = fs.panic
    BY <2>2, <2>3, <2>4, FsMake
  <2>7. ASSUME NEW m \in Node
        PROVE  /\ fs'.open_count[m] = Cardinality(Users(fs, m))
               /\ fs'.ref_count[m] = Kept(m) + fs'.lost[m] + Cardinality(Users(fs, m))
                                     + (IF m = root THEN Cardinality(Structs(fs)) ELSE 0)
    <3> DEFINE u == Cardinality(Users(fs, m))
               k == Cardinality(Structs(fs))
    <3>1. /\ fs.open_count[m] = u
          /\ fs.ref_count[m] = Kept(m) + fs.lost[m] + u + (IF m = root THEN k ELSE 0)
      BY DEF FilesInv, Counted
    <3>2. u \in Int /\ fs.lost[m] \in Int /\ Kept(m) \in Int
      BY <2>2, <3>1 DEF Kept
    <3>3. k \in Nat
      <4>1. Structs(fs) \in SUBSET Proc /\ IsFiniteSet(Proc)
        BY FilesAssumption DEF Structs
      <4>2. IsFiniteSet(Structs(fs))
        BY <4>1, FS_Subset
      <4> QED
        BY <4>2, FS_CardinalityType
    <3> HIDE DEF u, k
    <3> QED
      BY <2>5, <2>6, <3>1, <3>2, <3>3 DEF u, k
  <2>8. (\A m \in Node : Users(fs, m)' = Users(fs, m)) /\ Structs(fs)' = Structs(fs)
    BY <2>6 DEF Users, Structs
  <2>9. Counted(fs)'
    BY <2>7, <2>8 DEF Counted, Kept
  <2> QED
    BY <1>1, <2>1, <2>6, <2>9 DEF FilesInv
<1>5. ASSUME Running(p), NEW fd \in Fd, Close(p, fd)
      PROVE  FilesInv' /\ fs'.panic = fs.panic
  <2> DEFINE g == [e \in Fd |-> IF e \in {fd} THEN file_none ELSE f[e]]
  <2>1. /\ state[p] = "live" /\ reading[p] = NULL /\ f \in [Fd -> Slot] /\ f # NULL
        /\ \A e \in Fd : f[e] # file_none => f[e].open_count = 1
    BY <1>5, RunningFiles
  <2>2. fs' = fd_array_close(fs, p, {fd}) /\ reading' = reading /\ f[fd].status = "FD_OPENED"
    BY <1>5 DEF Close, WithStatus
  <2>3. f[fd].open_count = 1
    BY <2>1, <2>2, SlotFacts
  <2>4. Change(fs', fs, p, g) /\ fs'.panic = fs.panic
    <3>1. \A e \in {fd} : fs.files[p][e].open_count = 1
      BY <2>3
    <3>2. {fd} \in SUBSET Fd
      OBVIOUS
    <3> DEFINE S == {fd}
    <3> HIDE DEF S
    <3>3. Change(fd_array_close(fs, p, S), fs, p, [e \in Fd |-> IF e \in S THEN file_none ELSE fs.files[p][e]])
          /\ fd_array_close(fs, p, S).panic = fs.panic
      BY <1>1, <2>1, <3>1, <3>2, CloseChange DEF S
    <3> QED
      BY <2>2, <3>3 DEF S
  <2> HIDE DEF f
  <2>5. g \in [Fd -> Slot]
    BY <2>1, SlotFacts
  <2>6. OpenOnce(g, NULL)
    BY <1>1, <2>1 DEF OpenOnce
  <2>7. g # NULL
    BY <2>5, FdFacts
  <2> HIDE DEF g
  <2> QED
    BY <1>1, <2>1, <2>2, <2>4, <2>5, <2>6, <2>7, FilesStep
<1>6. ASSUME Running(p), NEW fd1 \in Fd, NEW fd2 \in Fd, Dup(p, fd1, fd2)
      PROVE  FilesInv' /\ fs'.panic = fs.panic
  <2> DEFINE n == f[fd1].node
  <2>1. f \in [Fd -> Slot] /\ f # NULL
    BY <1>6, RunningFiles
  <2>2. /\ fs' = fd_array_open(fs, p, fd2, n) /\ reading' = reading
        /\ f[fd1].status = "FD_OPENED" /\ f[fd2].status = "FD_NONE"
    BY <1>6 DEF Dup, WithStatus
  <2>3. n \in Node /\ f[fd2] = file_none
    BY <2>1, <2>2, SlotFacts
  <2> HIDE DEF n
  <2>4. /\ Change(fs', fs, p, [f EXCEPT ![fd2] =
                        [status |-> "FD_OPENED", open_count |-> 1, node |-> n]])
        /\ fs'.panic = fs.panic
    BY <1>1, <2>1, <2>2, <2>3, OpenChange
  <2> QED
    BY <1>2, <1>6, <2>2, <2>3, <2>4
<1>7. ASSUME NEW fd \in Fd, NEW k \in {1, 2}, f \in [Fd -> Slot], f # NULL, f[fd] # file_none
      PROVE  LET d == [f[fd] EXCEPT !.open_count = k]
             IN  d \in Slot /\ d.node = f[fd].node /\ d.open_count = k /\ d # file_none
  <2>1. f[fd] \in [status : {"FD_OPENED"}, open_count : {1, 2}, node : Node]
    BY <1>7 DEF Slot
  <2>2. [f[fd] EXCEPT !.open_count = k]
            = [status |-> "FD_OPENED", open_count |-> k, node |-> f[fd].node]
    BY <2>1
  <2>3. f[fd].node \in Node
    BY <2>1
  <2> DEFINE d == [f[fd] EXCEPT !.open_count = k]
             e == [status |-> "FD_OPENED", open_count |-> k, node |-> f[fd].node]
  <2>4. e \in Slot /\ e.node = f[fd].node /\ e.open_count = k /\ e # file_none
    BY <2>3, SlotFacts
  <2>5. d = e
    BY <2>2
  <2> HIDE DEF d, e
  <2>6. d \in Slot /\ d.node = f[fd].node /\ d.open_count = k /\ d # file_none
    BY <2>4, <2>5
  <2> QED
    BY <2>6 DEF d
<1>8. ASSUME Running(p), NEW fd \in Fd, ReadSleep(p, fd)
      PROVE  FilesInv' /\ fs'.panic = fs.panic
  <2> DEFINE d == [f[fd] EXCEPT !.open_count = 2]
             g == [f EXCEPT ![fd] = d]
  <2>1. /\ state[p] = "live" /\ reading[p] = NULL /\ f \in [Fd -> Slot] /\ f # NULL
        /\ \A e \in Fd : f[e] # file_none => f[e].open_count = 1
    BY <1>8, RunningFiles
  <2>2. /\ fs' = [fs EXCEPT !.files[p][fd].open_count = @ + 1]
        /\ reading' = [reading EXCEPT ![p] = fd] /\ f[fd].status = "FD_OPENED"
    BY <1>8 DEF ReadSleep, WithStatus
  <2>3. f[fd] # file_none /\ f[fd].open_count = 1
    BY <2>1, <2>2, SlotFacts
  <2>4. d \in Slot /\ d.node = f[fd].node /\ d.open_count = 2
    BY <1>7, <2>1, <2>3
  <2>5. fs' = [fs EXCEPT !.files[p][fd] = d]
    <3> DEFINE e == [fs.files[p][fd] EXCEPT !.open_count = @ + 1]
    <3>1. fs' = [fs EXCEPT !.files[p][fd] = e]
      BY <2>2
    <3>2. e = d
      BY <2>3
    <3> HIDE DEF e, d
    <3> QED
      BY <3>1, <3>2
  <2> HIDE DEF d
  <2>6. Change(fs', fs, p, g) /\ fs'.panic = fs.panic
    BY <1>1, <2>1, <2>4, <2>5, SlotChange
  <2> HIDE DEF f
  <2>7. g \in [Fd -> Slot] /\ g[fd] = d
    BY <2>1, <2>4
  <2>8. OpenOnce(g, fd) /\ g[fd] # file_none
    <3>1. d # file_none
      BY <2>4, SlotFacts DEF file_none
    <3> QED
      BY <2>1, <2>4, <2>7, <3>1 DEF OpenOnce
  <2>9. g # NULL
    BY <2>7, FdFacts
  <2>10. reading' \in [Proc -> Fd \cup {NULL}] /\ reading'[p] = fd
         /\ \A q \in Proc \ {p} : reading'[q] = reading[q]
    BY <1>1, <2>2
  <2> HIDE DEF g
  <2> QED
    BY <1>1, <2>1, <2>6, <2>7, <2>8, <2>9, <2>10, FilesStep
<1>9. ASSUME ReadDone(p)
      PROVE  FilesInv' /\ fs'.panic = fs.panic
  <2> DEFINE fd == reading[p]
             d == [f[fd] EXCEPT !.open_count = 1]
             g == [f EXCEPT ![fd] = d]
  <2>1. fd \in Fd /\ state[p] = "live" /\ f[fd] # file_none /\ f # NULL
        /\ reading' = [reading EXCEPT ![p] = NULL]
    BY <1>1, <1>9 DEF ReadDone, FilesInv
  <2>2. f \in [Fd -> Slot]
    BY <1>1, <2>1, FsFields
  <2>3. /\ f[fd].open_count = 2
        /\ \A e \in Fd \ {fd} : f[e] # file_none => f[e].open_count = 1
    BY <2>1 DEF FilesInv, OpenOnce
  <2>4. d \in Slot /\ d.node = f[fd].node /\ d.open_count = 1
    BY <1>7, <2>1, <2>2
  <2>5. fs' = [fs EXCEPT !.files[p][fd] = d]
    <3> DEFINE e == [fs.files[p][fd] EXCEPT !.open_count = @ - 1]
    <3>1. fs' = [fs EXCEPT !.files[p][fd] = e]
      BY <1>9, <2>3 DEF ReadDone
    <3>2. e = d
      BY <2>3
    <3> HIDE DEF e, d
    <3> QED
      BY <3>1, <3>2
  <2> HIDE DEF d, fd
  <2>6. Change(fs', fs, p, g) /\ fs'.panic = fs.panic
    BY <1>1, <2>1, <2>4, <2>5, SlotChange
  <2> HIDE DEF f
  <2>7. g \in [Fd -> Slot] /\ g[fd] = d
    BY <2>1, <2>2, <2>4
  <2>8. OpenOnce(g, NULL)
    BY <1>1, <2>1, <2>2, <2>3, <2>4, <2>7 DEF OpenOnce
  <2>9. g # NULL
    BY <2>7, FdFacts
  <2>10. reading' \in [Proc -> Fd \cup {NULL}] /\ reading'[p] = NULL
         /\ \A q \in Proc \ {p} : reading'[q] = reading[q]
    BY <1>1, <2>1
  <2> HIDE DEF g
  <2> QED
    BY <1>1, <2>1, <2>6, <2>7, <2>8, <2>9, <2>10, FilesStep
<1> QED
  BY <1>3, <1>4, <1>5, <1>6, <1>8, <1>9 DEF SysFile, FilesNext

\* do_exit of p, which reads nothing and has the files_struct g by now, puts it back or
\* keeps it; no descriptor stays.
LEMMA ExitCounted ==
    ASSUME FilesInv, NEW p \in Proc, reading[p] = NULL, NEW m, NEW s, NEW g \in [Fd -> Slot],
           Change(s, fs, p, g), s.panic = fs.panic, OpenOnce(g, NULL),
           exit_from(m, s, p), reading' = reading
    PROVE  FilesInv' /\ (~fs.panic => ~fs'.panic)
<1>1. /\ fs' = (IF p \in m.mm THEN put_files(s, p) ELSE s)
      /\ state' = [state EXCEPT ![p] = "zombie"]
  BY DEF exit_from
<1>2. /\ state' \in [Proc -> {"free", "live", "zombie"}] /\ state'[p] = "zombie"
      /\ \A q \in Proc \ {p} : state'[q] = state[q] /\ reading'[q] = reading[q]
      /\ reading' \in [Proc -> Fd \cup {NULL}] /\ reading'[p] = NULL
  BY <1>1 DEF FilesInv
<1>3. s \in FsState /\ fs \in FsState /\ s.files[p] = g /\ g # NULL
  <2>1. s \in FsState /\ fs \in FsState /\ s.files = [fs.files EXCEPT ![p] = g]
    BY DEF Change, FilesInv
  <2> QED
    BY <2>1, FsFields, FdFacts
<1>4. CASE p \in m.mm
  <2>1. fs' = put_files(s, p)
    BY <1>1, <1>4
  <2>2. \A fd \in Fd : s.files[p][fd] # file_none => s.files[p][fd].open_count = 1
    BY <1>3, FilesAssumption DEF OpenOnce
  <2>3. Change(fs', s, p, NULL) /\ fs'.panic = FALSE
    BY <1>3, <2>1, <2>2, PutChange
  <2>4. Change(fs', fs, p, NULL)
    BY <1>3, <2>3, ChangeTwice
  <2>5. OpenOnce(NULL, NULL)
    BY DEF OpenOnce
  <2>6. FilesInv'
    BY <1>2, <2>4, <2>5, FilesStep
  <2> QED
    BY <2>3, <2>6
<1>5. CASE p \notin m.mm
  <2>1. fs' = s
    BY <1>1, <1>5
  <2>2. FilesInv'
    BY <1>2, <1>3, <2>1, FilesStep
  <2> QED
    BY <2>1, <2>2
<1> QED
  BY <1>4, <1>5

\* do_execve: all but stdin and stdout are closed, and the program is opened.
LEMMA ExecCounted ==
    ASSUME FilesInv, NEW p \in Proc, NEW n \in File, NEW at, Exec(p, n, at)
    PROVE  FilesInv' /\ (~fs.panic => ~fs'.panic)
<1> DEFINE f == fs.files[p]
           fds == WithStatus(fs, p, "FD_OPENED") \ {0, 1}
           closed == files_closeall(fs, p)
           opened == file_open(closed, p, n)
           g == [e \in Fd |-> IF e \in fds THEN file_none ELSE f[e]]
<1>1. /\ state[p] = "live" /\ reading[p] = NULL /\ f \in [Fd -> Slot] /\ f # NULL /\ fs \in FsState
      /\ \A fd \in Fd : f[fd] # file_none => f[fd].open_count = 1
  BY RunningFiles DEF Exec
<1>2. \/ \E m : exit_from(m, closed, p) \/ exit_from(m, opened, p)
      \/ fs' = opened /\ UNCHANGED state
  BY DEF Exec, ExecFails
<1>3. reading' = reading
  BY DEF Exec
<1>4. fds \in SUBSET Fd /\ \A fd \in fds : f[fd].open_count = 1
  <2>1. \A fd \in fds : f[fd] # file_none
    BY <1>1, SlotFacts DEF WithStatus
  <2> QED
    BY <1>1, <2>1 DEF WithStatus
<1>5. Change(closed, fs, p, g) /\ closed.panic = fs.panic
  <2>1. closed = fd_array_close(fs, p, fds)
    BY DEF files_closeall
  <2> HIDE DEF fds, closed
  <2> QED
    BY <1>1, <1>4, <2>1, CloseChange
<1> HIDE DEF closed
<1>6. g \in [Fd -> Slot] /\ OpenOnce(g, NULL) /\ g # NULL /\ g[2] = file_none
  <2>1. g[2] = file_none
    <3>1. 2 \in Fd /\ f[2] \in Slot
      BY <1>1, FdFacts
    <3>2. 2 \in fds \/ f[2] = file_none
      BY <3>1, SlotFacts DEF WithStatus
    <3> HIDE DEF fds, f
    <3> QED
      BY <3>1, <3>2
  <2> HIDE DEF fds, f
  <2>2. g \in [Fd -> Slot]
    BY <1>1, SlotFacts
  <2>3. OpenOnce(g, NULL)
    BY <1>1, FilesAssumption DEF OpenOnce
  <2> QED
    BY <2>1, <2>2, <2>3, FdFacts
<1> HIDE DEF g, f, fds
<1>7. closed \in FsState /\ closed.files[p] = g
  <2>1. closed \in FsState /\ closed.files = [fs.files EXCEPT ![p] = g]
    BY <1>5 DEF Change
  <2> QED
    BY <1>1, <2>1, FsFields
<1>8. WithStatus(closed, p, "FD_NONE") # {} /\ n \in Node
  <2>1. 2 \in WithStatus(closed, p, "FD_NONE")
    BY <1>6, <1>7, SlotFacts, FdFacts DEF WithStatus
  <2> QED
    BY <2>1 DEF Node
<1> DEFINE d == [status |-> "FD_OPENED", open_count |-> 1, node |-> n]
<1>9. PICK fd \in Fd :
        /\ Change(opened, closed, p, [closed.files[p] EXCEPT ![fd] = d])
        /\ opened.panic = closed.panic
  BY <1>6, <1>7, <1>8, FileOpenChange
<1> DEFINE h == [g EXCEPT ![fd] = d]
<1>10. d \in Slot /\ d.open_count = 1
  BY <1>8, SlotFacts
<1> HIDE DEF d, opened
<1>11. h \in [Fd -> Slot] /\ OpenOnce(h, NULL) /\ h # NULL
  <2>1. h \in [Fd -> Slot]
    BY <1>6, <1>10
  <2>2. OpenOnce(h, NULL)
    BY <1>6, <1>10, FilesAssumption DEF OpenOnce
  <2> QED
    BY <2>1, <2>2, FdFacts
<1>12. Change(opened, closed, p, h) /\ opened.panic = closed.panic
  BY <1>7, <1>9
<1> HIDE DEF h
<1>13. Change(opened, fs, p, h) /\ opened.panic = fs.panic
  BY <1>1, <1>5, <1>6, <1>11, <1>12, ChangeTwice
<1>14. ASSUME NEW m, exit_from(m, closed, p)
       PROVE  FilesInv' /\ (~fs.panic => ~fs'.panic)
  BY <1>1, <1>3, <1>5, <1>6, <1>14, ExitCounted
<1>15. ASSUME NEW m, exit_from(m, opened, p)
       PROVE  FilesInv' /\ (~fs.panic => ~fs'.panic)
  BY <1>1, <1>3, <1>11, <1>13, <1>15, ExitCounted
<1>16. CASE fs' = opened /\ UNCHANGED state
  <2>1. /\ state' \in [Proc -> {"free", "live", "zombie"}]
        /\ reading' \in [Proc -> Fd \cup {NULL}] /\ reading'[p] = NULL
        /\ \A q \in Proc \ {p} : state'[q] = state[q] /\ reading'[q] = reading[q]
    BY <1>1, <1>3, <1>16 DEF FilesInv
  <2>2. FilesInv'
    BY <1>11, <1>13, <1>16, <2>1, FilesStep
  <2> QED
    BY <1>13, <1>16, <2>2
<1> QED
  BY <1>2, <1>14, <1>15, <1>16

\* do_fork: the child has a files_struct with the same descriptors, or nothing.
LEMMA ForkCounted ==
    ASSUME FilesInv, NEW p \in Proc, NEW c \in Proc, NEW at, Fork(p, c, at)
    PROVE  FilesInv' /\ fs'.panic = fs.panic
<1> DEFINE f == fs.files[p]
<1>1. /\ reading' = reading /\ state[c] = "free" /\ fs.files[c] = NULL
  BY DEF Fork, Unused
<1>2. /\ fs \in FsState /\ f \in [Fd -> Slot] /\ f # NULL
      /\ \A fd \in Fd : f[fd] # file_none => f[fd].open_count = 1
  BY RunningFiles DEF Fork
<1>3. CASE fs' = fs /\ state' = state
  <2>1. Counted(fs)'
    BY <1>3, CountedSame
  <2> QED
    BY <1>1, <1>3, <2>1 DEF FilesInv
<1>4. CASE fs' = copy_files(fs, p, c) /\ state' = [state EXCEPT ![c] = "live"]
  <2>1. Change(fs', fs, c, f) /\ fs'.panic = fs.panic
    BY <1>1, <1>2, <1>4, CopyChange
  <2>2. reading[c] = NULL
    BY <1>1 DEF FilesInv
  <2>3. /\ state' \in [Proc -> {"free", "live", "zombie"}]
        /\ reading' \in [Proc -> Fd \cup {NULL}] /\ reading'[c] = NULL
        /\ \A q \in Proc \ {c} : state'[q] = state[q] /\ reading'[q] = reading[q]
    BY <1>1, <1>4, <2>2 DEF FilesInv
  <2>4. OpenOnce(f, NULL)
    BY <1>2, FilesAssumption DEF OpenOnce
  <2> HIDE DEF f
  <2>5. FilesInv'
    BY <1>2, <2>1, <2>3, <2>4, FilesStep
  <2> QED
    BY <2>1, <2>5
<1> QED
  BY <1>3, <1>4 DEF Fork

\* Every step keeps the invariant; an assert of the files fails only in an open that
\* would create a file.
LEMMA FilesInvStep ==
    ASSUME FilesInv, [Next]_vars
    PROVE  FilesInv' /\ ("vop_create" \notin FAILS /\ ~fs.panic => ~fs'.panic)
<1>1. ASSUME NEW p \in Proc, NEW c \in Proc, NEW at, Fork(p, c, at)
      PROVE  FilesInv' /\ fs'.panic = fs.panic
  BY <1>1, ForkCounted
<1>2. ASSUME NEW p \in Proc, NEW n \in File, NEW at, Exec(p, n, at)
      PROVE  FilesInv' /\ (~fs.panic => ~fs'.panic)
  BY <1>2, ExecCounted
<1>3. ASSUME NEW p \in Proc, Exit(p)
      PROVE  FilesInv' /\ (~fs.panic => ~fs'.panic)
  <2> DEFINE g == fs.files[p]
  <2>1. Running(p) /\ exit_from(mem, fs, p) /\ reading' = reading
    BY <1>3 DEF Exit
  <2>2. /\ reading[p] = NULL /\ fs \in FsState /\ g \in [Fd -> Slot]
        /\ \A fd \in Fd : g[fd] # file_none => g[fd].open_count = 1
    BY <2>1, RunningFiles
  <2>3. OpenOnce(g, NULL)
    BY <2>2, FilesAssumption DEF OpenOnce
  <2>4. Change(fs, fs, p, g)
    <3>1. fs.files = [fs.files EXCEPT ![p] = g]
      BY <2>2, FsFields
    <3>2. \A m \in Node : Cardinality(Held(g, m)) \in Nat /\ One(g) \in Nat
      BY <2>2, FdFacts DEF One
    <3>3. \A m \in Node : fs.open_count[m] \in Int /\ fs.ref_count[m] \in Int
      BY <2>2, FsFields
    <3> QED
      BY <2>2, <3>1, <3>2, <3>3 DEF Change
  <2> HIDE DEF g
  <2> QED
    BY <2>1, <2>2, <2>3, <2>4, ExitCounted
<1>4. ASSUME fs' = fs, reading' = reading, state' \in [Proc -> {"free", "live", "zombie"}],
             \A q \in Proc : state'[q] = "live" <=> state[q] = "live"
      PROVE  FilesInv' /\ fs'.panic = fs.panic
  <2>1. Counted(fs)'
    BY <1>4, CountedSame
  <2> QED
    BY <1>4, <2>1 DEF FilesInv
<1>5. ASSUME NEW z \in Proc, Reap(z)
      PROVE  FilesInv' /\ fs'.panic = fs.panic
  <2>1. /\ fs' = fs /\ reading' = reading /\ state[z] = "zombie"
        /\ state' = [state EXCEPT ![z] = "free"]
    BY <1>5 DEF Reap
  <2>2. state \in [Proc -> {"free", "live", "zombie"}]
    BY DEF FilesInv
  <2> QED
    BY <1>4, <2>1, <2>2
<1>6. ASSUME NEW p \in Proc, SysFile(p)
      PROVE  FilesInv' /\ ("vop_create" \notin FAILS => fs'.panic = fs.panic)
  BY <1>6, SysFileCounted
<1>7. ASSUME (\E q \in Proc \cup {NULL} : proc_run(q)) \/ UNCHANGED vars
      PROVE  FilesInv' /\ fs'.panic = fs.panic
  <2>1. fs' = fs /\ reading' = reading /\ state' = state
    BY <1>7 DEF proc_run, vars, filesVars
  <2>2. state \in [Proc -> {"free", "live", "zombie"}]
    BY DEF FilesInv
  <2> QED
    BY <1>4, <2>1, <2>2
<1> QED
  BY <1>1, <1>2, <1>3, <1>5, <1>6, <1>7 DEF Next

\* The counts of every inode are the descriptors, working directories, failed opens and
\* kernel references there are: whoever forks, opens, dups, reads, closes, executes and
\* exits in whatever order, and whatever fails on the way.
THEOREM CountsAlwaysExact ==
    Spec => []CountsExact
<1>1. Init => FilesInv
  BY InitFilesInv
<1>2. FilesInv /\ [Next]_vars => FilesInv'
  BY FilesInvStep
<1>3. FilesInv => CountsExact
  BY DEF FilesInv, Counted, CountsExact
<1> QED
  BY <1>1, <1>2, <1>3, PTL DEF Spec

\* No assert of the address spaces or of the open files fails, if only the memory for
\* uargv is not refused and no open would create a file: who exits closes every
\* descriptor it has, exec always has one left for the program, and no mm_struct is
\* destroyed that is in use.
THEOREM ResourcesNeverPanic ==
    ASSUME FAILS \cap {"load_uargv", "vop_create"} = {}
    PROVE  Spec => []NoPanic
<1> DEFINE I == MemInv /\ FilesInv /\ ~fs.panic
<1>1. Init => I
  BY InitMemInv, InitFilesInv
<1>2. I /\ [Next]_vars => I'
  BY MemInvStep, FilesInvStep
<1>3. I => NoPanic
  BY DEF MemInv, NoPanic, Panic
<1> QED
  BY <1>1, <1>2, <1>3, PTL DEF Spec
=============================================================================
