----------------------------- MODULE Resources ------------------------------
(***************************************************************************)
(* What a process owns - its kernel stack, address space, page directory   *)
(* and open files - through fork, exec, exit and the wait of its parent    *)
(* (process/proc.c, mm/vmm.c), with the failures on the way.  A system call *)
(* runs with interrupts disabled and is one action; its parts are functions *)
(* of the state mem, named after the functions and labels they stand for.  *)
(* Who waits for whom and who runs next is left open: see Process.         *)
(***************************************************************************)
EXTENDS Files

CONSTANT FAILS      \* the points that may fail

CallFails == {"vop_create"}
ForkFails == {"mm_create", "setup_pgdir", "dup_mmap", "files_create"}
ExecFails == {"open", "load_mm", "load_pgdir", "load_elf", "load_uargv"}

Mm == [mm_count : Nat, pgdir : BOOLEAN, mapped : BOOLEAN]

ASSUME ResourcesAssumption ==
    /\ FAILS \subseteq CallFails \cup ForkFails \cup ExecFails
    /\ NULL \notin Mm

VARIABLES
    state,          \* "free", "live" or "zombie": of the proc_struct of a member of Proc
    current,        \* NULL while idle or init runs
    mem             \* address spaces, kernel stacks, and a failed assert: in Mem

vars == <<filesVars, state, current, mem>>

\* mms: the mm_struct made for a process, or NULL (mapped: some area has pages).
\* Of the proc_structs: kstack: those that own a stack; mm: whose mm is not NULL;
\* pgdir: whose pgdir is that of its mm, not boot_pgdir.  satp: whose page
\* directory is in the register, NULL for boot_pgdir.
Mem == [mms : [Proc -> Mm \cup {NULL}],
        kstack : SUBSET Proc, mm : SUBSET Proc, pgdir : SUBSET Proc,
        satp : Proc \cup {NULL}, panic : BOOLEAN]

----------------------------------------------------------------------------
(* Parts of fork, exec and exit, as functions of the state m of mem *)

setup_kstack(m, p) == [m EXCEPT !.kstack = @ \cup {p}]
put_kstack(m, p) == [m EXCEPT !.kstack = @ \ {p}]
kfree_proc(m, p) == [m EXCEPT !.mm = @ \ {p}, !.pgdir = @ \ {p}]
lsatp(m, p) == [m EXCEPT !.satp = p]

mm_create(m, p) ==
    [m EXCEPT !.mms[p] = [mm_count |-> 0, pgdir |-> FALSE, mapped |-> FALSE]]
setup_pgdir(m, p) == [m EXCEPT !.mms[p].pgdir = TRUE]
mm_map(m, p) == [m EXCEPT !.mms[p].mapped = TRUE]

exit_mmap(m, p) ==
    [m EXCEPT !.mms[p].mapped = FALSE, !.panic = @ \/ m.mms[p].mm_count # 0]
put_pgdir(m, p) == [m EXCEPT !.mms[p].pgdir = FALSE]
mm_destroy(m, p) ==
    [m EXCEPT !.mms[p] = NULL, !.panic = @ \/ m.mms[p].mm_count # 0]

\* Deviation: the mm_struct itself is not freed.
bad_cleanup_short(m, p) == put_pgdir(exit_mmap(m, p), p)

bad_cleanup_mmap(m, p) == mm_destroy(put_pgdir(exit_mmap(m, p), p), p)

\* mm_count_inc, and the process is given the mm with its page directory.
good_mm(m, p) ==
    [m EXCEPT !.mms[p].mm_count = @ + 1, !.mm = @ \cup {p}, !.pgdir = @ \cup {p}]

\* Deviation: the page directory that is freed stays in satp.
drop_mm_loaded(m, p) ==
    IF p \notin m.mm THEN m
    ELSE bad_cleanup_mmap([m EXCEPT !.mms[p].mm_count = 0, !.mm = @ \ {p}], p)

\* What do_exit and do_execve do with the mm of current, if it has one.
drop_mm(m, p) ==
    IF p \notin m.mm THEN m
    ELSE LET left == [lsatp(m, NULL) EXCEPT !.mms[p].mm_count = @ - 1, !.mm = @ \ {p}]
         IN  IF left.mms[p].mm_count = 0 THEN bad_cleanup_mmap(left, p) ELSE left

\* copy_mm into the new process c: it dups, nobody forks with CLONE_VM.
copy_mm(m, c, at) ==
    LET mapped == mm_map(setup_pgdir(mm_create(m, c), c), c)
    IN  CASE at = "mm_create" -> m
          [] at = "setup_pgdir" -> mm_destroy(mm_create(m, c), c)
          [] at = "dup_mmap" -> bad_cleanup_mmap(mapped, c)
          [] OTHER -> good_mm(mapped, c)

\* load_icode of current, which has no mm.  Once the mm is in place, the memory for
\* uargv may still be refused.
load_icode(m, p, at) ==
    LET created == mm_create(m, p)
        mapped == mm_map(setup_pgdir(created, p), p)
        placed == lsatp(good_mm(mapped, p), p)
    IN  CASE p \in m.mm -> [m EXCEPT !.panic = TRUE]
          [] at = "load_mm" -> m
          [] at = "load_pgdir" -> mm_destroy(created, p)
          [] at = "load_elf" -> bad_cleanup_mmap(mapped, p)
          [] at = "load_uargv" -> bad_cleanup_mmap(placed, p)
          [] OTHER -> placed

----------------------------------------------------------------------------
\* The first program, n, is running; idle and init keep to the kernel.
Init ==
    \E p \in Proc, n \in File :
        /\ state = [q \in Proc |-> IF q = p THEN "live" ELSE "free"]
        /\ current = p
        /\ mem = load_icode([mms |-> [q \in Proc |-> NULL], kstack |-> {p}, mm |-> {},
                             pgdir |-> {}, satp |-> NULL, panic |-> FALSE], p, "done")
        /\ fs = file_open(
                  [files |-> [q \in Proc |-> IF q = p THEN files_create ELSE NULL],
                   ref_count |-> [i \in Node |-> Kept(i) + (IF i = root THEN 1 ELSE 0)],
                   open_count |-> [i \in Node |-> 0], lost |-> [i \in Node |-> 0],
                   panic |-> FALSE],
                  p, n)
        /\ reading = [q \in Proc |-> NULL]

\* p is in user mode, or a system call of p begins.
Running(p) == current = p /\ state[p] = "live" /\ reading[p] = NULL

\* Nothing of the proc_struct that was here last is left.
Unused(c) ==
    /\ state[c] = "free"
    /\ fs.files[c] = NULL /\ mem.mms[c] = NULL /\ c \notin mem.kstack

\* do_fork by p of c; where it fails without a trace it is left out.
Fork(p, c, at) ==
    /\ Running(p) /\ Unused(c)
    /\ LET copied == copy_mm(setup_kstack(mem, c), c, at)
       IN  IF at \in ForkFails
           THEN /\ mem' = kfree_proc(put_kstack(copied, c), c)
                /\ UNCHANGED <<fs, state>>
           ELSE /\ mem' = copied
                /\ fs' = copy_files(fs, p, c)
                /\ state' = [state EXCEPT ![c] = "live"]
    /\ UNCHANGED <<reading, current>>

\* The rest of do_exit of p, up to schedule(), from the states m and s: the files
\* are put back only with an mm.
exit_from(m, s, p) ==
    /\ mem' = drop_mm(m, p)
    /\ fs' = IF p \in m.mm THEN put_files(s, p) ELSE s
    /\ state' = [state EXCEPT ![p] = "zombie"]

\* Deviation: a killed process exits from within the driver.
Exit_inside(p) ==
    /\ current = p /\ state[p] = "live"
    /\ exit_from(mem, fs, p)
    /\ UNCHANGED <<reading, current>>

\* Called by sys_exit, or by trap for PF_EXITING; a killed reader returns first.
Exit(p) ==
    /\ Running(p)
    /\ exit_from(mem, fs, p)
    /\ UNCHANGED <<reading, current>>

\* do_execve of the file n: its descriptor stays open.  Before files_closeall a
\* failure leaves no trace, after it p exits; a failed assert ends all.
Exec(p, n, at) ==
    /\ Running(p)
    /\ LET closed == files_closeall(fs, p)
           opened == file_open(closed, p, n)
           loaded == load_icode(drop_mm(mem, p), p, at)
       IN  CASE at = "open" -> exit_from(mem, closed, p)
             [] at \in ExecFails \ {"open"} /\ ~loaded.panic -> exit_from(loaded, opened, p)
             [] OTHER -> mem' = loaded /\ fs' = opened /\ UNCHANGED state
    /\ UNCHANGED <<reading, current>>

\* do_wait of whoever runs for a zombie z, which is no longer on its stack.
Reap(z) ==
    /\ state[z] = "zombie" /\ current # z
    /\ mem' = kfree_proc(put_kstack(mem, z), z)
    /\ state' = [state EXCEPT ![z] = "free"]
    /\ UNCHANGED <<fs, reading, current>>

\* schedule and proc_run of q, which loads its pgdir.
proc_run(q) ==
    /\ current # q /\ q \in {NULL} \cup {p \in Proc : state[p] = "live"}
    /\ current' = q
    /\ mem' = lsatp(mem, IF q \in mem.pgdir THEN q ELSE NULL)
    /\ UNCHANGED <<fs, reading, state>>

SysFile(p) ==
    /\ \/ /\ Running(p)
          /\ \E at \in {"done"} \cup (FAILS \cap CallFails) : FilesNext(p, at)
       \/ current = p /\ ReadDone(p)
    /\ UNCHANGED <<state, current, mem>>

Panic == mem.panic \/ fs.panic

Next ==
    /\ ~Panic
    /\ \/ \E p, c \in Proc, at \in {"done"} \cup (FAILS \cap ForkFails) : Fork(p, c, at)
       \/ \E p \in Proc, n \in File, at \in {"done"} \cup (FAILS \cap ExecFails) :
            Exec(p, n, at)
       \/ \E p \in Proc : Exit(p) \/ Reap(p) \/ SysFile(p)
       \/ \E q \in Proc \cup {NULL} : proc_run(q)

Spec == Init /\ [][Next]_vars

----------------------------------------------------------------------------
(* Properties *)

\* The asserts of exit_mmap, mm_destroy and files_destroy hold, and load_icode meets
\* no mm: counts are what they must be whatever failed before.
NoPanic == ~Panic

HasPgdir(p) == mem.mms[p] # NULL /\ mem.mms[p].pgdir

\* The page directory in satp exists, current with an mm runs in its own, and every
\* process that may be switched to has one to switch to.
AddressSpacesValid ==
    /\ mem.satp = NULL \/ HasPgdir(mem.satp)
    /\ current \in mem.mm => mem.satp = current
    /\ \A p \in mem.pgdir : state[p] = "live" => HasPgdir(p)

\* The comment at do_wait: "only after do_wait function, all resources of the child
\* proces are free."  Of a proc_struct that is freed nothing is left, whether
\* fork failed or the process has exited and was waited for.
NothingLost ==
    \A p \in Proc : state[p] = "free" =>
        mem.mms[p] = NULL /\ fs.files[p] = NULL /\ p \notin mem.kstack
=============================================================================
