------------------------------- MODULE Files --------------------------------
(***************************************************************************)
(* The open files of processes (fs/file.c, fs/fs.c) and the counts of the  *)
(* inodes behind them (fs/vfs/vfsfile.c, inode.c).  A files_struct belongs *)
(* to one process: nothing in the kernel forks with CLONE_FS.  A system    *)
(* call runs with interrupts disabled, so its parts are functions of the   *)
(* state fs that it composes; only a read from the keyboard sleeps, between *)
(* fd_array_acquire and fd_array_release.                                  *)
(***************************************************************************)
EXTENDS Integers, FiniteSets, FiniteSetsExt

CONSTANTS
    Proc, NULL,
    NENTRY,             \* FILES_STRUCT_NENTRY
    root, stdin, File,  \* inodes: the directory, a device, the other files
    MAX_LOST            \* how often O_CREAT|O_EXCL is tried on an existing file

Node == {root, stdin} \cup File
Fd == 0 .. NENTRY - 1

\* A struct file; node is NULL in one that is not in use.
Desc == [status : {"FD_NONE", "FD_OPENED", "FD_CLOSED"}, open_count : Nat,
         node : Node \cup {NULL}]

ASSUME FilesAssumption ==
    /\ NULL \notin Proc \cup Node \cup Fd \cup [Fd -> Desc]
    /\ root # stdin /\ File \cap {root, stdin} = {}
    /\ IsFiniteSet(File) /\ IsFiniteSet(Proc)
    /\ NENTRY \in Nat /\ NENTRY > 2 /\ MAX_LOST \in Nat

\* files: the files_struct made for a process, which gives each descriptor status,
\* open_count and node, or NULL (its files_count is 1: it is not shared); ref_count and
\* open_count of each inode; lost: the references to an inode that vfs_open took and
\* left.
VARIABLES
    fs,             \* the files_structs, the counts of the inodes, a failed assert
    reading         \* the descriptor a process reads from, asleep, or NULL

filesVars == <<fs, reading>>

file_none == [status |-> "FD_NONE", open_count |-> 0, node |-> NULL]

\* References that stay: bootfs and the directory of init; the list of devices.
Kept(n) == CASE n = root -> 2 [] n = stdin -> 1 [] OTHER -> 0

\* files_create: nothing is open.
files_create == [fd \in Fd |-> file_none]

WithStatus(s, p, st) == {fd \in Fd : s.files[p][fd].status = st}
Uses(s, p, fds, n) == Cardinality({fd \in fds : s.files[p][fd].node = n})

----------------------------------------------------------------------------
(* Parts of system calls, as functions of the state s of fs *)

\* vop_ref_inc of n; vop_open_inc with it, where a descriptor refers to n.
ref_inc(s, n) == [s EXCEPT !.ref_count[n] = @ + 1]
node_open(s, n) == [ref_inc(s, n) EXCEPT !.open_count[n] = @ + 1]

\* vfs_close of the inodes of p's descriptors fds.
vfs_close(s, p, fds) ==
    [s EXCEPT !.ref_count = [n \in Node |-> @[n] - Uses(s, p, fds, n)],
              !.open_count = [n \in Node |-> @[n] - Uses(s, p, fds, n)]]

\* fd_array_close of p's descriptors fds; one that is being read stays, closed.
fd_array_close(s, p, fds) ==
    LET last == {fd \in fds : s.files[p][fd].open_count = 1}
    IN  [vfs_close(s, p, last) EXCEPT !.files[p] = [fd \in Fd |->
            CASE fd \in last -> file_none
              [] fd \in fds \ last ->
                    [s.files[p][fd] EXCEPT !.status = "FD_CLOSED", !.open_count = @ - 1]
              [] OTHER -> s.files[p][fd]]]

\* Deviation: the inodes of the descriptors are counted, not the directory.
copy_files_nodir(s, p, c) ==
    LET opened == WithStatus(s, p, "FD_OPENED")
        uses(n) == Uses(s, p, opened, n)
    IN  [s EXCEPT
            !.files[c] = s.files[p],
            !.ref_count = [n \in Node |-> @[n] + uses(n)],
            !.open_count = [n \in Node |-> @[n] + uses(n)]]

\* copy_files into the new process c.  dup_files counts a reference and an open
\* for every descriptor, and a reference for the working directory.
copy_files(s, p, c) ==
    LET opened == WithStatus(s, p, "FD_OPENED")
        uses(n) == Uses(s, p, opened, n)
    IN  [s EXCEPT
            !.files[c] = [fd \in Fd |->
                IF fd \in opened THEN [s.files[p][fd] EXCEPT !.open_count = 1]
                ELSE file_none],
            !.ref_count = [n \in Node |-> @[n] + uses(n) + (IF n = root THEN 1 ELSE 0)],
            !.open_count = [n \in Node |-> @[n] + uses(n)]]

\* files_closeall: all but stdin and stdout.
files_closeall(s, p) == fd_array_close(s, p, WithStatus(s, p, "FD_OPENED") \ {0, 1})

\* put_files: files_destroy gives the directory back and closes what is open; it
\* asserts that no descriptor stays.
put_files(s, p) ==
    LET closed == fd_array_close(s, p, WithStatus(s, p, "FD_OPENED"))
    IN  [closed EXCEPT
            !.files[p] = NULL, !.ref_count[root] = @ - 1,
            !.panic = WithStatus(closed, p, "FD_NONE") # Fd]

\* p's descriptor fd is given the inode n.
fd_array_open(s, p, fd, n) ==
    [node_open(s, n) EXCEPT !.files[p][fd] =
        [status |-> "FD_OPENED", open_count |-> 1, node |-> n]]

\* file_open of n takes the first free descriptor.
file_open(s, p, n) == fd_array_open(s, p, Min(WithStatus(s, p, "FD_NONE")), n)

----------------------------------------------------------------------------
(* System calls of p; one that fails without a trace is left out *)

\* An open of n; or one with O_CREAT of a file that does not exist: the directories
\* of SFS have no vop_create, which the assert of __vop_op meets.
Open(p, n, at) ==
    /\ WithStatus(fs, p, "FD_NONE") # {}
    /\ fs' = IF at = "vop_create" THEN [fs EXCEPT !.panic = TRUE] ELSE file_open(fs, p, n)
    /\ UNCHANGED reading

\* Open with O_CREAT and O_EXCL of a file that exists: vfs_open returns
\* -E_EXISTS with the reference that vfs_lookup has taken.
OpenExists(p, n) ==
    /\ WithStatus(fs, p, "FD_NONE") # {} /\ MapThenSumSet(LAMBDA i : fs.lost[i], Node) < MAX_LOST
    /\ fs' = [ref_inc(fs, n) EXCEPT !.lost[n] = @ + 1]
    /\ UNCHANGED reading

Close(p, fd) ==
    /\ fd \in WithStatus(fs, p, "FD_OPENED")
    /\ fs' = fd_array_close(fs, p, {fd})
    /\ UNCHANGED reading

\* file_dup(fd1, fd2), where fd2 is free or the choice of fd_array_alloc.
Dup(p, fd1, fd2) ==
    /\ fd1 \in WithStatus(fs, p, "FD_OPENED") /\ fd2 \in WithStatus(fs, p, "FD_NONE")
    /\ fs' = fd_array_open(fs, p, fd2, fs.files[p][fd1].node)
    /\ UNCHANGED reading

\* file_read of stdin up to the driver, which may put p to sleep; what follows.
ReadSleep(p, fd) ==
    /\ fd \in WithStatus(fs, p, "FD_OPENED") /\ fs.files[p][fd].node = stdin
    /\ fs' = [fs EXCEPT !.files[p][fd].open_count = @ + 1]
    /\ reading' = [reading EXCEPT ![p] = fd]

ReadDone(p) ==
    /\ reading[p] # NULL
    /\ LET fd == reading[p]
           last == fs.files[p][fd].open_count = 1
       IN  fs' = IF last
                 THEN [vfs_close(fs, p, {fd}) EXCEPT !.files[p][fd] = file_none]
                 ELSE [fs EXCEPT !.files[p][fd].open_count = @ - 1]
    /\ reading' = [reading EXCEPT ![p] = NULL]

FilesNext(p, at) ==
    \/ \E n \in Node : Open(p, n, at) \/ OpenExists(p, n)
    \/ \E fd \in Fd : Close(p, fd) \/ ReadSleep(p, fd)
    \/ \E fd1, fd2 \in Fd : Dup(p, fd1, fd2)

----------------------------------------------------------------------------
(* Properties *)

\* The files_structs there are; the descriptors, of any process, that refer to n.
Structs(s) == {p \in Proc : s.files[p] # NULL}
Users(s, n) == {x \in Structs(s) \X Fd : s.files[x[1]][x[2]].node = n}

\* Every reference to an inode is one that a files_struct, the kernel or a failed
\* open has taken and not given back, and every open is a descriptor's: fork, exec,
\* exit, dup and close raise and lower the counts of inode.c together.
CountsExact ==
    \A n \in Node :
        /\ fs.open_count[n] = Cardinality(Users(fs, n))
        /\ fs.ref_count[n] = Kept(n) + fs.lost[n] + Cardinality(Users(fs, n))
                             + (IF n = root THEN Cardinality(Structs(fs)) ELSE 0)
=============================================================================
