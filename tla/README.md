# A verification of the uCore kernel in TLA+

This directory models the teaching kernel of this repository (uCore for
RISC-V, eight labs that build on each other) in TLA+, checks the models with
TLC and proves theorems about them with TLAPS. The reference is the code:
each definition names, in `PROJECT.json` under "map", the lines it stands for.
Paths below are relative to `src/labcodes/lab8/kern/` unless they say otherwise.

lab8 is the complete kernel: labs 1 to 6 are earlier stages of the same files.
What exists only in an earlier lab is the buddy, best-fit and SLUB allocators
(lab2), copy-on-write (lab5) and the FIFO, SJF and stride schedulers (lab6).

## 1. Inventory

| part | where | state | operations |
|---|---|---|---|
| process control | `process/proc.c` | `proc_struct`: state, wait_state, flags, parent and child links, pid; `nr_process`, `current` | do_fork, do_exit, do_wait, do_kill, do_yield, do_sleep, do_execve, init_main, cpu_idle |
| scheduler | `schedule/sched.c`, `default_sched.c`; lab6 `kern/schedule/` | run queue, time slices, need_resched, strides | wakeup_proc, schedule, proc_tick; the classes RR, FIFO, SJF and stride |
| timers | `schedule/sched.c` | list of timers with differences of expiry | add_timer, del_timer, run_timer_list |
| traps, system calls | `trap/trap.c`, `syscall/syscall.c` | `tf`, sstatus.SIE | interrupt_handler, trap, the system call table |
| wait queues, semaphores, monitor | `sync/` | lists of `wait_t`, semaphore value, condition counts, `next_count` | wait_current_set, wakeup_queue, up, down, cond_signal, cond_wait |
| keyboard | `fs/devs/dev_stdin.c` | ring of 4096 characters, wait queue | dev_stdin_write (interrupt), dev_stdin_read |
| open files | `fs/file.c`, `fs/fs.c` | per process table of descriptors, counts | open, close, read, write, seek, dup; copy on fork, close on exec and exit |
| VFS | `fs/vfs/` | reference and open counts of inodes, device list | lookup, open, close |
| SFS | `fs/sfs/` | inode cache, free map, block map of a file, dirty flags | load and reclaim of inodes, read and write, truncate, sync, mount |
| virtual memory | `mm/vmm.c` | sorted list of areas, `mm_count` | mm_map, insert_vma_struct, dup_mmap, exit_mmap; copy-on-write in lab5 |
| physical memory | `mm/`, lab2 `kern/mm/` | free lists | first fit, best fit, buddy; kmalloc and kfree (SLOB); SLUB |
| boot, assembly, drivers, debugger, libraries, user programs, tools | | | |

How they interact. There is one CPU and the kernel is not pre-emptive: the CPU
changes hands only inside `schedule()`, which a process calls itself, or which
`trap` calls on the way back to user mode when `need_resched` is set. A system
call of a user process runs with interrupts disabled from beginning to end,
except that it may sleep in the middle. idle and init are kernel threads: they
are interrupted between any two instructions, but never rescheduled from the
interrupt. The timer interrupt wakes the sleepers whose timers have run out,
charges the running process one tick and then polls the console, handing any
character to the keyboard device, which wakes its readers. A process that
sleeps lies in a list - of timers or of waiters - through a variable on its own
kernel stack; `kill` takes it out of its sleep without looking at these lists.

What is hard here is therefore not data races but

* sleepers that two parties wake (kill, tick, key press, exit of a child),
  with list entries that live on their stacks;
* the gap between deciding to sleep and being asleep, and between being woken
  and running: wake-ups lost, given twice or given to the wrong process;
* the family tree changing while parents scan it, sleep and are killed;
* semaphores that hand a unit over instead of counting it, and a Hoare monitor
  that hands itself over through three kinds of semaphore;
* error paths of fork and exec with half the resources taken;
* caches with counts that reach zero and are used again (SFS inodes, files);
* arithmetic: differences in the timer list, strides, sizes of files.

What makes each part correct:

| part | properties |
|---|---|
| process control | no assertion fails; a zombie is freed once, by its parent; every process has a parent that will reap it; no lost wake-up; the killed die; init stays |
| scheduler | the run queue is exact; who can run gets the CPU; a slice ends |
| timers | each timer fires with the tick it was armed for; nothing points into a dead stack |
| semaphores, monitor | each unit is given once; one thread holds the monitor; nobody waits for ever |
| keyboard | no reader sleeps while characters are there; length of the ring |
| files, VFS | counts equal references |
| SFS | blocks are owned once; the contents of files stay apart; what is not dirty is on the disk; size and blocks agree |
| memory | areas and free blocks are disjoint, sorted and add up |
| scheduling classes | no process is lost by a class; nobody starves, under SJF nobody with a burst up to the default; the sign of a difference of strides tells who is behind |

`PROJECT.json` lists the hazards at their lines, with the property that would
show each of them or the reason why none does yet.

## 2. The modules

Core: processes on the scheduler.

* `TimerList` - the timer list of sched.c. `timer_list` is a sequence of
  records [proc, expires]; add_timer, del_timer and decrement_head change it
  as the C functions do, correcting the successor.
* `Sched` - EXTENDS TimerList. State: `current`, and per process `state`,
  `wait_state`, `need_resched`, `time_slice`; `run_list`, the RR queue, head
  first. Operators: enqueue, proc_tick, wakeup_proc, schedule. Each is called
  between local_intr_save and local_intr_restore, so each is one step. An
  assert of the C code is an operator that ends in OK; the module that calls
  records its failure in `panic`.
* `Process` - EXTENDS Sched. fork, exit, wait, kill, sleep, yield, the
  keyboard read, the interrupt handler, the return from a trap, init_main and
  cpu_idle. `pc[p]` is the place where p goes on when it has the CPU: for
  instance "wait" is the call of schedule in do_wait and "woken" the statement
  after it; `Resume` lists these pairs. `irq` is the place in the interrupt
  handler, which runs on top of whoever is current. A slot of `Proc` stands for
  a proc_struct and for its pid. A loop of the C code is one action per round
  (ExitReparent, IrqExpire, IrqWake), a function that cannot be interrupted and
  does not sleep is one action.

  Abstractions: exit codes and the contents of what is read are left out, and
  memory and files, which Resources models; so do_fork fails only when `nr_process` is at its limit (a failure
  for other reasons changes nothing that is modelled: OtherSyscall). Which of
  several zombies do_wait(0) takes is left open: the order of the children is
  in ProcTable. A pid is free again as soon as the slot is. The console gives a
  character at any tick.

The table of processes.

* `ProcTable` - what Process takes as given: that a slot stands for a pid, and
  that a process knows its children. State: `pid`, the pointers `parent`,
  `cptr`, `yptr`, `optr`, `proc_list`, and get_pid's static `last_pid` and
  `next_safe`. fork, exit and wait change it; the loops of get_pid and do_exit
  make one step per round (Scan, Reparent), everything else runs in one piece
  as in the code, with interrupts off. do_wait takes the first zombie of its
  walk or the one it is asked for. Scheduling is left out: any live process may
  make the next call.

What a process owns.

* `Files` - the descriptor table of each process and the reference and open
  counts of the inodes, `fs`, with the system calls open, close, dup and a read
  of the keyboard that sleeps in the middle. A part of a system call, such as
  fd_array_close or put_files, is an operator that takes the state `fs` and
  returns the next, so that a caller composes them in the order of the code.
  `lost` counts the references that vfs_open does not give back when it returns
  -E_EXISTS: the code has no such counter.
* `Resources` - EXTENDS Files. do_fork, do_execve, do_exit, do_wait and
  proc_run with kernel stacks, mm_structs, page directories and satp, `mem`, in
  the same style: copy_mm and load_icode are operators whose argument `at` says
  where they fail, and an error label is an operator too. A member of `Proc`
  stands for a proc_struct and all that is allocated for it; it is used again
  when nothing of it is left. `FAILS` is the set of points that may fail. A
  failure that changes nothing is a stutter and left out (an open of a file
  that does not exist, an exec with bad arguments). Init is the state after
  user_main has become the first program. `current` = NULL stands for idle and
  init. When a process may run is left open, and so is who waits for whom: both
  are in Process.
* `MCResources` - symmetry for TLC.

Memory.

* `FirstFit` - mm/default_pmm.c, and the best-fit allocator of lab2, which
  differs in the block it chooses (`best`), on the next and prev fields of
  libs/list.h. `held` is what the rest of the kernel has in use; alloc and free
  are one step each (mm/pmm.c calls them with interrupts off).
* `Buddy` - lab2's mm/buddy_pmm.c: a list of free blocks for each order, with
  `property` and the flag PG_property of each page as the code sets them.
  `kernel` pages lie in front of the first one, so that memory may begin at an
  address that is not aligned.
* `Slob` - mm/kmalloc.c: the circular list of free blocks, from slobfree on, the
  list of large blocks, and the pages that kmalloc takes from the page
  allocator, which may be any free ones.
* `Allocators` - composes the three: `manager` says which one is looked at.
* `PageHeap` - the abstract specification of all: a set of free pages (units, for
  kmalloc) that runs are taken from and given back to.

Schedulers and timers by themselves.

* `Classes` - what the classes of lab6, and the stride class of lab8, do with
  the run queue, as functions of a record with its fields and those that the
  class keeps in the proc_structs. A skew heap is a tree; strides have `WIDTH`
  values and wrap around.
* `Schedule` - EXTENDS TimerList, Classes. wakeup_proc, schedule and the clock
  with each class, and processes that compute, yield, sleep and wake others.
  Only round robin, which lab8 runs, has timers.
* `Deadlines` - the abstract specification of timers: a set of sleepers, each
  with its own count of ticks, and a tick that takes one from each. `Schedule`
  implements it under the mapping left[p] = sum of the differences up to p's timer.

The file system on the disk.

* `Sfs` - fs/sfs with the descriptors of fs/file.c. `fs` holds the free map, the
  inodes in memory (`sin`) and those on the disk (`din`), super block and map
  on the disk (`super`), and what is in each block: as data, which file wrote it
  at which index, as an indirect block, its entries. Functions take `fs` and
  return the next, with `ret`, in the order of the code: a write that the full
  disk stops keeps what it got. System calls are one step, as in the code.
  `panic` is the file whose asserts failed, or that an index was out of range. `uneven`
  is no part of the code: the files written past their end, or stopped in mid-growth.
* `FileStore` - the abstract specification: contents of a file by index, and its
  size. Writes change what they cover, a new size leaves what lies below it.
* `MCSfs` - symmetry for TLC.

Synchronization, on the same scheduler.

* `Semaphore` - EXTENDS Sched. up and down with hand-over, the threads of
  check_sync.c (idle, init waiting for its threads, the philosophers), do_sleep
  and the timer interrupt. `pc[i]` is the next statement of a philosopher,
  `call[p]` the kernel function thread p is inside of.
* `PhilSema`, `PhilCondvar` - EXTENDS Semaphore: the philosophers with
  semaphores, and with the monitor of monitor.c. Every C statement that touches
  shared state is a step.
  check_sync runs first the one and then the other, with threads of their own
  for each: `ThreadsInit`, where both begin, is the state behind the calls of
  kernel_thread.
* `Table` - the abstract specification of both: hungry, eat when no neighbour
  does, think. `phase` is `state_sema`, or `state_condvar`.

  The call of check_sync in init_main is commented out in this commit; the
  functions are part of the kernel and nothing else contends for a semaphore,
  as system calls are not interrupted. Thread creation is in the initial
  state: init creates all of them without giving up the CPU.

Proofs.

* `SchedProofs` - facts about InsertAt, RemoveAt, Append, Tail and the elements
  of a sequence; add_timer, del_timer, the run queue, wakeup_proc and schedule:
  what each of them does to the owners of timers, to the queue and to the head.
* `ProcessInv` - the inductive invariant of Process, definitions only.
* `ProcessProofs` - one lemma per conjunct of it, and the theorems about Process.
* `ProcTableProofs` - the invariants of get_pid and of the lists of children, and the
  theorems about pids and about do_wait's walk.
* `ResourcesProofs` - what each function of Files and Resources changes, and the
  theorems about address spaces, about what is left behind and about the counts of
  inodes and descriptors.
* `SfsProofs` - what each function of Sfs does to the blocks of the file it is called
  for, to the map and to the contents, and the theorems about the map, the inodes, the
  asserts and FileStore.
* `SemaphoreProofs` - `Threads(S)`, what the threads of Semaphore keep to whatever
  the philosophers do, S being the set of semaphores, and a lemma for each step.
* `PhilSemaProofs`, `PhilCondvarProofs` - what the philosophers add to it, and
  the theorems about them.

An operator whose comment begins with "Deviation:" is not part of any
specification. It is a variant of the definition behind it with a plausible
mistake, and `PROJECT.json` names the property that finds the mistake.

## 3. The runs

| run | instance | what it shows |
|---|---|---|
| process | idle, init, 2 programs; slice 1, sleeps to 2 ticks, reads to 2 characters, ring of 2; FairSpec | 1.2 million states. Two programs do everything in every order, with ticks and keys anywhere: no assertion fails (NoPanic), the run queue is exact also under double wake-ups (RunQueueExact; wakeup_proc of the current process is met in phil_sema), lists point into live frames (StackLinksValid), no wake-up is lost (SleepersHaveWakers), orphans find init (ParentsAlive) and only a parent reaps (ZombiesReapedByParent); under fairness init collects every zombie it is given (InitReaps) |
| process_kill | 2 programs | a violation, see below |
| proc_table | idle, init, 3 programs, pids 1 to 5 | 1.6 million states. Pids stay unique while they wrap around, and the search for one ends; the sibling links give each parent its children in every state of every loop (ChildrenExact) |
| schedule | idle, 3 processes; RR with slice 1 and sleeps to 4 ticks, FIFO, both stride classes with priorities 1 and 2 and strides of 3 bits, SJF with bursts of 1 to 3 and a default of 2 | 279 thousand states. The queue of each class has every process that can run once (QueueExact); wrapped strides still tell who is behind (StridesComparable); who can run does run, but for bursts above the default under SJF (QueuedRuns); the timer list implements Deadlines and every timer leaves it (TimerGoes) |
| allocators | 8 pages: first and best fit with at most 3 in use, buddies of 3 orders with 0 or 1 page in front; kmalloc with 3 pages of 6 units | 208 thousand states. The free lists are exact (RunsExact, BuddiesExact, BlocksExact) and each allocator implements PageHeap |
| first_fit_full | 4 pages, all may be in use | a violation, see below |
| phil_sema | 5 philosophers, 2 rounds, sleeps of 2 ticks | 180 thousand states. Permissions are handed out once (UnitsMatch) and to whoever can eat (BlockedForAReason); no assertion fails, also where a tick wakes the process that has just put itself to sleep (NoPanic); the semaphores implement Table; all finish and init collects them (EverybodyQuits) |
| phil_condvar | the same, with the monitor | 257 thousand states. The monitor is held once through every hand-over (MonitorHeld), what a waiter waited for is still true when it runs (WokenMayEat); it implements Table; all finish (EverybodyQuits) |
| resources_calls | 2 proc_structs, 3 descriptors, the directory, the keyboard, 2 files; failures in copy_mm and of exec's open | 160 thousand states. Counts of inodes are exact, no assert fails, the loaded page directory exists, and nothing is left of a process that is gone |
| resources_lost | the same; load_icode fails | a violation, see below |
| sfs_calls | 2 files, 2 descriptors; blocks of 2 bytes, one direct and one indirect, 3 blocks; files to 6 bytes, of which an inode maps 4; reads and writes of 1 and 2, seeks to 1, 3 and 5 | 531 thousand states. Blocks are free or named once, also after a call that the full disk stopped (FreemapExact); reads never allocate and a clean inode is on the disk (InodesCover); what fs_cleanup leaves can be mounted (DiskMountable); files that were not written past their end or stopped in mid-growth have the blocks their size needs, only others fail an assert, and indices run out only for a file with no entry left (EvenFilesExact); contents stay apart (ImplementsStore) |
| sfs_size | the same, files to 4 bytes | a violation, see below |

Why these bounds. With two programs besides init there is a waker, a sleeper
and a bystander; a double wake-up, the reaping of a child by a parent that is
killed, and a sleeper with a timer before and one behind it need no more. Three
programs, in proc_table, give the first tree with a grandchild and a sibling. A ring of two and
reads of two make a reader sleep both before the first and before the second
character and make the ring overflow. A slice of one tick makes every tick an
end of a slice. Five is the number of philosophers of check_sync.c; they
eat twice in place of four times and sleep for 2 ticks in place of 10, as the
threads are in phase after the first sleep and ticks may come at any step anyway.
MAX_PID of ProcTable is the least the static_assert of get_pid allows, so that
every pid is soon used again and the search has to start over. In
schedule the strides have 8 values, so that BIG_STRIDE is 3 (lab6) or 2 (lab8)
and they wrap around after a few slices; priorities of 1 and 2 make them advance
at different speeds; three processes are needed for two in the pool to be out of
order behind a third. Under SJF a process with a burst of 2 waits behind one
with 1 that comes back with 2, beside one with 3 that starves. In allocators
no more than 3 of the 8 pages of first and best fit are in use, which gives gaps of every kind but leaves the end of memory
free: see the findings. Three orders of buddies merge twice in one release, and
a page in front makes memory begin where no block of the two higher orders
can. kmalloc has pages of 6 units, in which the record of a large block and two
small ones fit, and three of them, so that blocks of neighbouring pages merge
and large blocks of one and of two pages compete with them. Requests leave out
0 bytes and those that the assert of slob_alloc refuses, and the buddies are
asked for powers of two, as buddy_free_pages asserts that it gets them back.
In the runs of Sfs a file at its limit takes a block for the data that the inode
names, the indirect block and one that it names. The disk has these 3 blocks for
two files, so that it fills up at a data block and at the indirect block, and
blocks go from one file to the other; two descriptors may share a file. Files may be
larger than an inode maps, as in the code, whose SFS_MAX_FILE_SIZE is 128 MB while
12 + 1024 blocks are about 4.2: a seek to 5 needs a third block of an inode with 2
entries. sfs_size keeps sizes to 4 bytes, which shows the assert and not the panic.
In resources_calls a parent and a child share inodes through every
order of fork, dup, exec, close and exit; the counts add up over descriptors, so
a third process brings nothing new (with three and one file, 4 million states,
the same properties hold). Three descriptors are the two that files_closeall
spares and one that it closes. MAX_LOST = 1 lets O_CREAT|O_EXCL go wrong once.
Symmetry is used for Resources and for Sfs, where processes, files and
descriptors are interchangeable, and never for liveness: the run of Process
checks InitReaps and does without.

The failures that resources_calls leaves out (`FAILS`) are those the code does
not survive: a failing load_icode loses the files (resources_lost), whatever the
reason; a failing files_create in do_fork loses the mm, as
bad_fork_cleanup_kstack knows nothing of it; and if the memory for uargv is
refused load_icode destroys an mm that is in use, against the assert of
exit_mmap. An open with O_CREAT of a file that does not exist runs into the assert
of `__vop_op`, as the directories of SFS have no vop_create. All of them are in
the model. A read of a directory meets the same assert; it is left out, as are
the other calls on a directory's descriptor.

`CHECK_DEADLOCK` is on everywhere but for Resources, which stops when all
programs have exited, and Sfs, which stops after fs_cleanup or a panic. The kernel may stop: `Halted` is the state
after init_main has returned or an assertion has failed, `Finished` that after
init has waited for its philosophers. Everywhere else some step must be possible.

Fairness. `FairSpec` of Process assumes that the CPU goes on executing kernel
code although interrupts come (strong, since an interrupt disables the step it
interrupts), that a timer interrupt is taken if interrupts are enabled again and
again (the timer stays pending while they are not), and that the handler, which
runs with interrupts off, finishes. No program is obliged to make a system call
and nobody to press a key. The philosophers run under the same assumptions.
That each process in the run queue runs again (QueuedRuns) and each
timer runs out (TimerGoes) is checked in Schedule, on the same queue and timer list and with
more processes; Process checks what needs its own code, that init reaps.
Schedule assumes weak fairness of the tick and its handler, of the schedule that
trap and cpu_idle call, and of the return of do_sleep: nothing disables these
steps but themselves. A process that computes needs no fairness: ticks end its slice.

The disagreements between the code and what it says of itself:

* `KilledDies`: "do_kill - kill process with pid by set this process's flags
  with PF_EXITING" (`process/proc.c:1109`). `trap` looks at the flag before it
  calls schedule, not after. A process that is killed while it waits in the run
  queue after such a schedule goes back to user mode, may enter a read or a
  wait and sleep there; a second kill finds the flag set and wakes nobody.
* `TotalIsNrFree`: "assert(total == nr_free_pages());"
  (`mm/default_pmm.c:242`). When default_free_pages appends a block behind all
  others (line 147) it does not leave its loop; the next round sees the new
  block as the last one and links it behind itself, so its prev is itself. Once
  that block is allocated again, list_del does not take it out of the list: a
  block in use stays among the free ones and can be handed out twice. It takes
  a memory whose end has been in use. lab2's best_fit_pmm.c has the same loop.
* `NothingLost`: "only after do_wait function, all resources of the child proces
  are free" (`process/proc.c:1037`). When load_icode fails, do_execve has
  dropped the mm, and do_exit puts back the files only of a process with an mm.
* `NoPanic` of Sfs: "assert(tblks == din->blocks);" (`fs/sfs/sfs_inode.c:927`).
  sfs_io_nolock adds blocks to a file that is written past its end and never
  sets its size. What was written cannot be read back, and who opens the file
  next to empty it, as the shell does for `>`, meets the assert. A seek past the
  end that the full disk stops leads there as well, and a descriptor that
  another one has cut the file short of meets the assert of sfs_bmap_load_nolock.

Met on the way, and not stated as a run of their own:

* SFS_MAX_FILE_SIZE is 128 MB (`fs/sfs/sfs.h:20`: "max file size (128M)"). Sizes up to
  that are let through, but an inode maps 12 + 1024 blocks. One seek to 5 MB in an empty
  file adds these blocks and then meets
  panic("sfs_bmap_get_nolock - index out of range") (`sfs_inode.c:286`), if the disk has
  more than 1036 free blocks. The image the repository builds has 480 kB and is full
  before that: there the seek fails with -E_NO_MEM, and the file has come apart. In
  sfs_calls the panic is reached; EvenFilesExact says for which files.
* Under SJF a process with a burst above the default of 5 (`default_sched_sjf.c:25-27`;
  `user/priority.c:28` sets 6) can wait for ever: the bursts of the others run down to 0
  and start again at 5, in front of it. The report of lab6 says that SJF may starve long
  processes (line 411), and nothing says that it does not. Without
  `MayStarve` QueuedRuns is violated in the instance of schedule.
* do_kill accepts pid 1 and takes init out of do_wait into do_exit, where
  panic("initproc exit.") waits for it. The run leaves init out of `Killable`, and
  so does KernelNeverPanics; the other theorems do not.
* The stride_enqueue of lab6 lifts whoever is behind the first of the pool to
  its stride. The process that had the CPU is such a one whenever its
  priority is high, so the CPU is not shared in proportion to priorities. The
  stride class of lab8 does not do this, but divides by a priority that is 0
  until it is set.
* A block that buddy_free_pages merged into its lower half loses PG_property,
  and is not found when its own buddy is released: free memory stays in halves.
* blocks is counted up without marking the inode dirty when an entry of an
  existing indirect block is filled, so the count on the disk can be too low
  while the size is not: InodesCover leaves blocks out for that reason, and
  holds of everything that is read through the size.

## 4. The theorems

About `Spec` of Process, with arbitrary `Proc` (idle and init among
them), `Killable`, limits and bounds. The assumptions are `SchedAssumption` and
`ProcessAssumption`, which state that and the types of the constants; TLC
evaluates both in each run:

| theorem | says |
|---|---|
| Invariance | `[]IInv` |
| TypeCorrect | `[]TypeOK` |
| RunQueueAlwaysExact | `[]RunQueueExact` |
| StackLinksAlwaysValid | `[]StackLinksValid` |
| ParentsAlwaysAlive | `[]ParentsAlive` |
| ZombiesAlwaysReapedByParent | `ZombiesReapedByParent`, an action property |
| SleepersAlwaysHaveWakers | `[]SleepersHaveWakers` |
| KernelNeverPanics | `[]NoPanic`, if initproc is not in Killable |

About `Spec` of ProcTable, for all `Proc`, MAX_PROCESS and MAX_PID that
`ProcTableAssumption` (get_pid's static_assert, and finitely many `Proc`) allows:

| theorem | says |
|---|---|
| TableTypeCorrect | `[]TypeOK` |
| PidsAlwaysUnique | `[]PidsUnique` |
| ChildrenAlwaysExact | `[]ChildrenExact` |

The pids are unique because of what the two static variables mean, which
`ProcTableProofs` states: between two calls no pid in use lies strictly between
last_pid and next_safe (SafeRange); inside the loop the same holds of the
processes it has passed, and none of them has the pid last_pid (Passed). A call
that does not search relies on the first, one that does ends with the second.

The lists of children are exact because the children of each process can be
numbered by age (`Ordered(d)`: optr leads one number down, yptr one up, cptr to the
largest, and siblings have different numbers). The invariant `Kin` says that there
are such numbers, and `Family` who can have children at all: no zombie except the
one in do_exit, nobody outside the table. set_links gives the new child the next
number, do_exit's loop gives init's next number to the child it hands over, and
remove_links lowers the numbers above the child it takes out. From the numbers
follow what neighbours say of each other, and the walk: its n-th process is the
child with the n-th largest number, for which the recursive function of `Walk` is
shown to be the only solution of its equation (WalkNumbered).

About `Spec` of Resources, for all processes, files, NENTRY and MAX_LOST that
`FilesAssumption` and `ResourcesAssumption` allow (NULL is not one of the others nor a
table of descriptors, processes are finitely many, as the counts are cardinalities;
FAILS names points that can fail):

| theorem | says | if FAILS has none of |
|---|---|---|
| AddressSpacesAlwaysValid | `[]AddressSpacesValid`, and no assert about an mm fails | load_uargv |
| NothingEverLost | `[]NothingLost` | files_create, load_mm, load_pgdir, load_elf, load_uargv |
| CountsAlwaysExact | `[]CountsExact` | |
| ResourcesNeverPanic | `[]NoPanic` | load_uargv, vop_create |

With load_uargv the assert of exit_mmap fails and everything stops there, so the
proofs leave it out; each of the other four leaves something behind
(resources_lost shows one). The first theorem covers failures that the run
leaves out: the others of load_icode, and that of files_create; the third covers
all of them. vop_create is the open that creates a file, which the assert of
__vop_op stops (see the hazards): the fourth leaves it out for that reason.

AddressSpacesValid is not inductive: it does not say that satp is clear, or that
of a live process, when a process is freed. `MemInv` does, and that the mm of a
live process has one user, so that do_exit and do_execve free it every time.
`LostInv` says what NothingLost needs of zombies, who are freed next: do_wait
frees no mm and no files_struct. `ReadInv`, that only a live process sleeps in a
read, is there because what follows a read touches its files. A system call
changes what one process owns and nothing of the others (`OnlyOf`, `OnlyFiles`);
so there is a lemma per function about that process, and OwnStep and LostStep do the rest.

CountsExact speaks of all descriptors of all processes at once, so its lemmas are about
one table at a time: `Change(x, s, p, f)` says that x is s but that p has the table
f in place of its own, and that the counts have followed - by as many as f holds of an
inode (`Held`), less what p's table held before. ChangeCounted shows, over the
cardinality of the set of users split at p, that the counts are exact in x if they are in
s. Opening, closing, fork and exit are then each a Change (OpenChange, CloseChange,
CopyChange, PutChange), exec two of them (ChangeTwice). `FilesInv` adds
what an assert in files_destroy relies on: only a live process is inside of a read, the
descriptor it reads is open, and that one only has an open_count of 2 (`OpenOnce`). So
a process that exits is in no read, and every descriptor it has closes with it; and exec,
which closes all but 0 and 1, has the next free one for the program (FirstFree).

None of the safety properties of Process is inductive. That a woken process is not
queued twice depends on its state being tied to its place in the code; that a
list entry is gone when its owner leaves the function depends on where a
process can be while it is off the CPU. `IInv` adds to the types

* `Places`: for each process, how state, wait_state and `pc` go together - only
  three places sleep, only do_exit makes zombies, whoever is not current has
  called schedule or has not started - and where init can be;
* `RunQueueExact` itself;
* `Links`: an armed timer or a linked wait belongs to a process that is inside
  the function that owns it, and each process is in a list at most once;
* `Family`: the parent of a live process is alive, or still has its loop over
  the children to do.

`ProcessProofs` has one lemma per conjunct (TypeStep, PlacesStep, RunQueueStep,
LinksStep, FamilyStep), each with one step per action. RunQueueStep and
LinksStep use `Places` for the process that acts, PlacesStep uses `Links` for the
process a tick or a key wakes, FamilyStep uses `Places` for the process that dies.

The other three theorems rest on `IInv` and on ChangeStep, which says what any
step can do to the state of one process: it falls asleep and dies only by
itself, others only wake it, and who frees it is its parent. That is
ZombiesAlwaysReapedByParent. SleepersAlwaysHaveWakers has two halves: a reader
in the queue of the keyboard sleeps only while the ring is empty or its wake-up
is under way (ReadersStep), and a parent sleeps in do_wait only while each zombie
among its children has yet to tell it (ParentsStep; NobodyUntold is the case of
do_exit's loop, which hands zombies to an init that sleeps). KernelNeverPanics
goes through every assertion and needs four more facts, `AssertInv`:

* `Rooted`: every process descends from idle through parents that live, so a
  wake-up in do_exit finds somebody that can be woken, and when init finds
  itself without children nobody but idle is left;
* `Counted`: nr_process is the number of processes, which init_main asserts;
* `HeadReady`: outside of the handler the first timer has ticks left to go;
* `InitStays`: init is not killed, is not in do_exit, and waits for any child.

The hypothesis is needed: do_kill of init does end in do_exit's panic.

About `Spec` of PhilSema and of PhilCondvar, for every N > 1, TIMES,
SLEEP_TIME and MAX_TIME_SLICE (`SemaphoreAssumption`, `SchedAssumption`):

| theorem | says | of |
|---|---|---|
| PermissionsAlwaysMatch | `[]UnitsMatch` | PhilSema |
| NobodyWaitsWithoutReason | `[]BlockedForAReason` | PhilSema |
| SemaphoresNeverPanic | `[]NoPanic` | PhilSema |
| SemaphoresImplementTable | `ImplementsTable` | PhilSema |
| NeighboursNeverEatTogether | who eats has no neighbour that eats | PhilSema |
| MonitorAlwaysHeldOnce | `[]MonitorHeld` | PhilCondvar |
| WokenAlwaysMayEat | `[]WokenMayEat` | PhilCondvar |
| MonitorNeverPanics | `[]NoPanic` | PhilCondvar |
| MonitorImplementsTable | `ImplementsTable` | PhilCondvar |

`Threads(S)` is common to both: the places of threads in the kernel go with their
states (`Places`), the run queue is exact, exactly the sleepers of do_sleep have
timers (`TimersExact`), and the queues of the semaphores hold exactly the sleepers
of down, each once (`QueuesExact`). UpStep and DownStep say what is left of up and
down for a caller: a unit more or a waiter less, a unit less or a waiter more.

`SemaInv` adds for the semaphores: one philosopher is between the down and the up of
the mutex or the mutex is free (`Mutex`), who waits is in the queue of the semaphore
its statement is for (`Located`), `state_sema` goes with the statement (`Phases`),
UnitsMatch, and `Served`: whoever can eat has been given its permission, but for
the one whose neighbour is just putting its forks back and has not tested it yet.

`CondInv` is the same for the monitor: `Token` (the monitor has one owner, or one
semaphore has one unit), `Located`, `Phases`, and the meaning of the counts of
conditions and of next_count (`Counts`, `NextCount`). The point of the proof is
that a signaller finds who it makes EATING in cond_wait (HungryWaits), so the
unit of its condition goes to it and to nobody else, and that the monitor never
passes to one that did not ask for it. It also shows that the cond_signal in a
philosopher's test of itself never finds a waiter: the labels "test.next" and
"test.back" are not reached.

About `Spec` of Sfs, for all files, finitely many descriptors, and every size of
blocks, inodes, disk and files that `SfsAssumption` allows (MAX_SIZE may be more than an
inode maps, as in the code; NULL and OUT_OF_RANGE are none of the others):

| theorem | says |
|---|---|
| SfsInvariant | `[]IInv` |
| SfsTypeCorrect | `[]TypeOK` |
| FreemapAlwaysExact | `[]FreemapExact` |
| DiskAlwaysMountable | `[]DiskMountable` |
| InodesAlwaysCover | `[]InodesCover` |
| EvenFilesAlwaysExact | `[]EvenFilesExact` |
| SfsImplementsStore | `ImplementsStore` |

They say of a disk of any size what sfs_calls says of three blocks, whichever call the
full disk or the full inode stops; the asserts that can fail (sfs_size) are those of
EvenFilesExact, and the panic of sfs_bmap_get_nolock is reached only for a file
every entry of whose inode is in use. That it is not reached is no theorem, nor would it be
true of SFS_MAX_FILE_SIZE. That
sfs_block_alloc's own assert and the one in sfs_block_free never fail is part of the
lemmas Alloc and Free.

The blocks of all files are named by one function, `Refs(s)`: of a file and a number it
gives the entry of the inode, the entry of its indirect block, or, as the last number,
the indirect block. `Exact` says that it is a bijection between the places that are not
empty and the blocks that are not free. It is what FreemapExact counts, and unlike a
count it can be kept step by step: Take and Give say what becomes of it when a free block
is put at an empty place or a block is freed, and a function of sfs_inode.c is the two
in the order of the code. In between it may not hold: a new indirect block is cleared
and filled before the inode names it. The lemma for a function says what it did to the
places of the one file it was called for (`Same` leaves the others), and what the next
function needs: `Kept` that blocks were added, `Sized` that the size was set, `Panicked`
that the kernel stopped, and `Full`, where the panic comes, that no entry was left. The
three loops (grown, shrunk, sfs_io) are recursive functions on an interval of numbers; GrowExists and its like show that they have a solution, by taking a
least number for which there is none, and Grown, Shrunk and Io carry a property along
it (Along).

`IInv` is `Sound` - `Exact`, the count, `FileOK` of each file, `Apart` - and that a kernel
that has halted has written everything. None of the properties is inductive by itself.
InodesCover needs that indices below `blocks`, not only below the size, have blocks
(sfs_bmap_truncate_nolock frees the last without looking at the size); EvenFilesExact,
that for such files blocks agrees also between memory and disk, since sfs_reclaim drops an
inode that is not dirty; DiskMountable, that super block and map are up to date whenever
super_dirty is clear, and that with all descriptors closed no inode is left in memory:
the count of references is the number of descriptors of the file (`Opens`), which is
what lets vfs_close drop the inode with the last one. That the state `IInv` describes
is the one the code is in was checked by TLC first, on the states of sfs_calls.

SfsImplementsStore says that these blocks are kept apart as data, too. The lemma for a
function also says what it did to the contents: nothing in any file (`SameData`: to add a
block changes nothing, since sfs_block_alloc clears it - `Fresh`), nothing below an index
(`Trimmed`, of truncation), or that the blocks from b to below m of one file now hold what was
written there (`Put`, which sfs_io carries along its loop, and keeps when the disk is
full half-way). By `Exact` a block that was filled, or cleared after it was free, is at
no place of another file (PutBlock, FreshData). `Stored` collects the outcomes of a whole call,
NextStored has it of every step, and WroteMaps and ResizeMaps turn it into Write and
Resize of FileStore. Resize gets its `kept` from what is unchanged; that
it covers what lies below the new size is BelowBlocks, with ROUNDUP_DIV.

Checked by TLC only: the scheduling classes, whose skew heap is
recursive; the refinements of Deadlines and PageHeap, and what is said
of the allocators, whose invariants walk lists with
recursive functions (what such a function computes for every list is an induction
over data; for Walk and the loops of Sfs, LeastNat takes its place, for these it has not
been tried); and all liveness properties, which need ENABLED:
EverybodyQuits, InitReaps, QueuedRuns, TimerGoes, PidFound.

## 5. Plan

Done: Process on Sched and TimerList, with its safety properties proved; Schedule,
which implements Deadlines; the philosophers, proved to implement Table, and
that no permission and no monitor is lost; ProcTable, with the uniqueness of pids
and the lists of children proved; Files and Resources, with AddressSpacesValid,
NothingLost, CountsExact and NoPanic proved; the allocators, which implement PageHeap; Sfs, which
implements FileStore, with that and its invariants proved; the scheduling classes.

Left, in this order:

1. `LoadSegments`: the bytes that load_icode writes and clears, over where the
   allocated pages lie.
2. `Vma`: the sorted list of areas against a set of intervals; copy-on-write
   of lab5.
3. The directories of SFS: entries, names and look-up.
4. The contents of the keyboard ring against a queue.
5. The SLUB cache of lab2.

A new module gets one passing run. Where runs grow many, those of parts that are
proved are the first to be merged or given up: a theorem covers what they show.

Theorems planned: that Schedule under round robin implements Deadlines, once the
classes with a recursive heap have a module apart from it.

## 6. Not modelled

Boot and entry code, switch.S and trapentry.S (their effect, one context at a
time and interrupts off in a trap, is what the models assume), drivers, the
debug monitor, the C library, user programs (the models let them do anything),
tools, generated files and the lab reports. Page faults end in do_exit or a
panic in lab8 and are left out. What section 5 plans is not modelled yet
and marked so under "components".

The map covers a small share of the repository's lines, and cannot cover a large
one: labs 1 to 8 hold eight copies of the same kernel, of which only the last
(and of lab2 and lab6 what is not in it) is modelled; a good part of the rest
is the header riscv.h in each of them, the C library, tests and user programs.
