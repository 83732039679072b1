-------------------------------- MODULE Sfs ---------------------------------
(***************************************************************************)
(* The simple file system (fs/sfs): the blocks of the disk and their map,  *)
(* the inodes on the disk and in memory, and the positions of the          *)
(* descriptors (fs/file.c) that read and write them.  A system call runs   *)
(* with interrupts disabled and is one action; its parts are functions of  *)
(* the state s of fs, which return the new state, ret and what else they   *)
(* find.  Reading and writing the disk do not fail: disk0 panics.          *)
(***************************************************************************)
EXTENDS Integers, Sequences, FiniteSets, FiniteSetsExt, SequencesExt

CONSTANTS
    File, Fd, NULL,
    BLKSIZE,            \* SFS_BLKSIZE, in bytes
    NDIRECT, NENTRY,    \* SFS_NDIRECT, SFS_BLK_NENTRY
    BLOCKS,             \* the blocks of the disk that inodes can map
    MAX_SIZE,           \* SFS_MAX_FILE_SIZE
    MAX_LEN,            \* the longest read and write
    SEEKS               \* the positions that seeks go to

Block == 1 .. BLOCKS
none == 0
Index == 0 .. NDIRECT + NENTRY - 1

\* An inode on the disk, one in memory, and an open file.
Din == [size : 0 .. MAX_SIZE, blocks : 0 .. NDIRECT + NENTRY,
        direct : [0 .. NDIRECT - 1 -> Block \cup {none}], indirect : Block \cup {none}]
Sin == [din : Din, dirty : BOOLEAN, ref_count : Nat \ {0}]
Desc == [node : File, pos : 0 .. MAX_SIZE]

OUT_OF_RANGE == "index out of range"

ASSUME SfsAssumption ==
    /\ {BLKSIZE, NDIRECT, NENTRY, BLOCKS, MAX_SIZE, MAX_LEN} \subseteq Nat \ {0}
    /\ NULL \notin File \cup Sin \cup Desc \cup {OUT_OF_RANGE}
    /\ OUT_OF_RANGE \notin File
    /\ IsFiniteSet(Fd) /\ SEEKS \subseteq Nat

VARIABLES
    fs,             \* the disk, and what is in memory of it
    fd_array,       \* the open files, or NULL
    uneven,         \* the files whose blocks and size have come apart
    halted          \* all programs have ended and fs_cleanup has run

vars == <<fs, fd_array, uneven, halted>>

Zero == <<>>
OK == 0
E_NO_MEM == 4
E_INVAL == 3
ROUNDUP_DIV(n) == (n + BLKSIZE - 1) \div BLKSIZE

\* freemap: the blocks marked free.  sin: the inodes in memory, or NULL.  Of the
\* disk: din: the inodes, super: the map and the count of free blocks, data: what
\* is in a block as data, ents: as an indirect block.  panic: the file an assert
\* has failed for, or that an index was out of range.
TypeOK ==
    /\ fs \in [freemap : SUBSET Block, unused_blocks : 0 .. BLOCKS, super_dirty : BOOLEAN,
               sin : [File -> Sin \cup {NULL}],
               din : [File -> Din],
               super : [freemap : SUBSET Block, unused_blocks : 0 .. BLOCKS],
               data : [Block -> {Zero} \cup (File \X Index)],
               ents : [Block -> [0 .. NENTRY - 1 -> Block \cup {none}]],
               panic : File \cup {NULL, OUT_OF_RANGE}]
    /\ fd_array \in [Fd -> Desc \cup {NULL}]
    /\ uneven \subseteq File
    /\ halted \in BOOLEAN

----------------------------------------------------------------------------
(* The map of free blocks *)

sfs_clear_block(s, b) ==
    [s EXCEPT !.data[b] = Zero, !.ents[b] = [i \in 0 .. NENTRY - 1 |-> none]]

assert(s, f, holds) == IF holds \/ s.panic # NULL THEN s ELSE [s EXCEPT !.panic = f]

\* Deviation: the new block keeps what it held.
sfs_block_alloc_dirty(s, f) ==
    IF s.freemap = {} THEN [fs |-> s, ret |-> E_NO_MEM, ino |-> none]
    ELSE LET b == Min(s.freemap)
         IN  [fs |-> [s EXCEPT !.freemap = @ \ {b}, !.unused_blocks = @ - 1,
                               !.super_dirty = TRUE],
              ret |-> OK, ino |-> b]

\* bitmap_alloc takes the first free block.
sfs_block_alloc(s, f) ==
    IF s.freemap = {} THEN [fs |-> s, ret |-> E_NO_MEM, ino |-> none]
    ELSE LET b == Min(s.freemap)
             taken == assert([s EXCEPT !.freemap = @ \ {b}], f, s.unused_blocks > 0)
         IN  [fs |-> sfs_clear_block([taken EXCEPT !.unused_blocks = @ - 1,
                                                   !.super_dirty = TRUE], b),
              ret |-> OK, ino |-> b]

sfs_block_inuse(s, b) == b # none /\ b \notin s.freemap

sfs_block_free(s, f, b) ==
    [assert(s, f, sfs_block_inuse(s, b)) EXCEPT
        !.freemap = @ \cup {b}, !.unused_blocks = @ + 1, !.super_dirty = TRUE]

----------------------------------------------------------------------------
(* The blocks of a file *)

\* Deviation: when no block is left for the data, the new indirect block stays taken.
sfs_bmap_get_sub_leak(s, f, ent, index, create) ==
    LET found == IF ent = none THEN none ELSE s.ents[ent][index]
        entry == IF ent # none THEN [fs |-> s, ret |-> OK, ino |-> ent]
                 ELSE sfs_block_alloc(s, f)
        block == sfs_block_alloc(entry.fs, f)
    IN  CASE found # none \/ ~create ->
                [fs |-> s, ret |-> OK, ent |-> ent, ino |-> found]
          [] (found = none /\ create) /\ (entry.ret # OK \/ block.ret # OK) ->
                [fs |-> entry.fs, ret |-> E_NO_MEM, ent |-> ent, ino |-> none]
          [] OTHER ->
                [fs |-> [block.fs EXCEPT !.ents[entry.ino][index] = block.ino],
                 ret |-> OK, ent |-> entry.ino, ino |-> block.ino]

\* ent is the indirect block, or none; a new one is freed if no block is left for
\* the data.
sfs_bmap_get_sub_nolock(s, f, ent, index, create) ==
    LET found == IF ent = none THEN none ELSE s.ents[ent][index]
        entry == IF ent # none THEN [fs |-> s, ret |-> OK, ino |-> ent]
                 ELSE sfs_block_alloc(s, f)
        block == sfs_block_alloc(entry.fs, f)
        failed(t) == [fs |-> t, ret |-> E_NO_MEM, ent |-> ent, ino |-> none]
    IN  CASE found # none \/ ~create ->
                [fs |-> s, ret |-> OK, ent |-> ent, ino |-> found]
          [] found = none /\ create /\ entry.ret # OK -> failed(s)
          [] found = none /\ create /\ entry.ret = OK /\ block.ret # OK ->
                failed(IF ent = none THEN sfs_block_free(entry.fs, f, entry.ino) ELSE s)
          [] OTHER ->
                [fs |-> [block.fs EXCEPT !.ents[entry.ino][index] = block.ino],
                 ret |-> OK, ent |-> entry.ino, ino |-> block.ino]

\* A block is made the index-th of f: the inode has changed.
sfs_bmap_get_direct(s, f, index, create) ==
    LET ino == s.sin[f].din.direct[index]
        block == sfs_block_alloc(s, f)
    IN  CASE ino # none \/ ~create -> [fs |-> s, ret |-> OK, ino |-> ino]
          [] ino = none /\ create /\ block.ret # OK -> block
          [] OTHER -> [block EXCEPT
                !.fs = [@ EXCEPT !.sin[f].din.direct[index] = block.ino,
                                 !.sin[f].dirty = TRUE]]

\* Deviation: a new indirect block does not make the inode dirty.
sfs_bmap_get_clean(s, f, index, create) ==
    LET r == sfs_bmap_get_sub_nolock(s, f, s.sin[f].din.indirect, index, create)
    IN  [fs |-> IF r.ret # OK THEN r.fs ELSE [r.fs EXCEPT !.sin[f].din.indirect = r.ent],
         ret |-> r.ret, ino |-> r.ino]

sfs_bmap_get_indirect(s, f, index, create) ==
    LET mapped(r) ==
            [fs |-> IF r.ret # OK \/ r.ent = s.sin[f].din.indirect THEN r.fs
                    ELSE [r.fs EXCEPT !.sin[f].din.indirect = r.ent, !.sin[f].dirty = TRUE],
             ret |-> r.ret, ino |-> r.ino]
    IN  mapped(sfs_bmap_get_sub_nolock(s, f, s.sin[f].din.indirect, index, create))

sfs_bmap_get_nolock(s, f, index, create) ==
    CASE index < NDIRECT -> sfs_bmap_get_direct(s, f, index, create)
      [] index \in NDIRECT .. NDIRECT + NENTRY - 1 ->
            sfs_bmap_get_indirect(s, f, index - NDIRECT, create)
      [] OTHER -> [fs |-> [s EXCEPT !.panic = OUT_OF_RANGE], ret |-> OK, ino |-> none]

Stopped(r) == r.ret # OK \/ r.fs.panic # NULL

\* The block behind the last one is made.  That blocks has changed is noted in
\* dirty only where sfs_bmap_get_nolock changes the inode.
sfs_bmap_load_nolock(s, f, index) ==
    LET blocks == s.sin[f].din.blocks
        create == index = blocks
        counted(s2) == IF create THEN [s2 EXCEPT !.sin[f].din.blocks = @ + 1] ELSE s2
        loaded(r) ==
            IF Stopped(r) THEN r
            ELSE [r EXCEPT !.fs = assert(counted(@), f, sfs_block_inuse(@, r.ino))]
    IN  IF index > blocks THEN [fs |-> assert(s, f, FALSE), ret |-> OK, ino |-> none]
        ELSE loaded(sfs_bmap_get_nolock(s, f, index, create))

sfs_bmap_free_nolock(s, f, index) ==
    LET din == s.sin[f].din
        ino == IF index < NDIRECT THEN din.direct[index]
               ELSE IF din.indirect = none THEN none
               ELSE s.ents[din.indirect][index - NDIRECT]
        freed == sfs_block_free(s, f, ino)
    IN  IF ino = none THEN s
        ELSE IF index < NDIRECT
        THEN [freed EXCEPT !.sin[f].din.direct[index] = none, !.sin[f].dirty = TRUE]
        ELSE [freed EXCEPT !.ents[din.indirect][index - NDIRECT] = none]

\* The last block of f is freed; the indirect block never is.
sfs_bmap_truncate_nolock(s, f) ==
    [sfs_bmap_free_nolock(s, f, s.sin[f].din.blocks - 1) EXCEPT
        !.sin[f].din.blocks = @ - 1, !.sin[f].dirty = TRUE]

----------------------------------------------------------------------------
(* The operations of an inode *)

\* The blocks that are missing are added one by one: if one is refused, those added
\* stay, and the size is what it was.
grown(s, f, tblks) ==
    LET blocks == s.sin[f].din.blocks
        upto[n \in blocks .. tblks] ==
            IF n = blocks THEN [fs |-> s, ret |-> OK, ino |-> none]
            ELSE IF Stopped(upto[n - 1]) THEN upto[n - 1]
            ELSE sfs_bmap_load_nolock(upto[n - 1].fs, f, n - 1)
    IN  upto[tblks]

\* Deviation: one block too many is kept.
shrunk_short(s, f, tblks) ==
    LET blocks == s.sin[f].din.blocks
    IN  [fs |-> IF blocks > tblks + 1 THEN sfs_bmap_truncate_nolock(s, f) ELSE s,
         ret |-> OK, ino |-> none]

shrunk(s, f, tblks) ==
    LET extra == s.sin[f].din.blocks - tblks
        removed[n \in 0 .. extra] ==
            IF n = 0 THEN s ELSE sfs_bmap_truncate_nolock(removed[n - 1], f)
    IN  [fs |-> removed[extra], ret |-> OK, ino |-> none]

sfs_truncfile(s, f, len) ==
    LET din == s.sin[f].din
        tblks == ROUNDUP_DIV(len)
        resized(r) ==
            IF Stopped(r) THEN [fs |-> r.fs, ret |-> r.ret]
            ELSE [fs |-> [assert(r.fs, f, r.fs.sin[f].din.blocks = tblks) EXCEPT
                            !.sin[f].din.size = len, !.sin[f].dirty = TRUE],
                  ret |-> OK]
    IN  CASE len > MAX_SIZE -> [fs |-> s, ret |-> E_INVAL]
          [] len <= MAX_SIZE /\ len = din.size ->
                [fs |-> assert(s, f, tblks = din.blocks), ret |-> OK]
          [] OTHER -> resized(IF din.blocks < tblks THEN grown(s, f, tblks)
                              ELSE shrunk(s, f, tblks))

sfs_tryseek(s, f, pos) ==
    CASE pos >= MAX_SIZE -> [fs |-> s, ret |-> E_INVAL]
      [] pos < MAX_SIZE /\ pos > s.sin[f].din.size -> sfs_truncfile(s, f, pos)
      [] OTHER -> [fs |-> s, ret |-> OK]

\* sfs_io_nolock, which does a block at a time and returns in pos how far it got.
\* A read ends where the file does.  A write past the end leaves the size alone.
sfs_io(s, f, pos, len, write) ==
    LET most == Min({pos + len, MAX_SIZE})
        endpos == IF write THEN most ELSE Min({most, s.sin[f].din.size})
        first == pos \div BLKSIZE
        last == (endpos - 1) \div BLKSIZE
        moved(r, index, l) ==
            IF Stopped(l) THEN [r EXCEPT !.fs = l.fs, !.ret = l.ret]
            ELSE [fs |-> IF write THEN [l.fs EXCEPT !.data[l.ino] = <<f, index>>] ELSE l.fs,
                  ret |-> OK, pos |-> Min({endpos, (index + 1) * BLKSIZE})]
        block(r, index) == moved(r, index, sfs_bmap_load_nolock(r.fs, f, index))
        begun == [fs |-> s, ret |-> OK, pos |-> pos]
        done[n \in first .. last + 1] ==
            IF n = first THEN begun
            ELSE IF Stopped(done[n - 1]) THEN done[n - 1] ELSE block(done[n - 1], n - 1)
    IN  CASE pos >= MAX_SIZE -> [begun EXCEPT !.ret = E_INVAL]
          [] pos < MAX_SIZE /\ pos >= endpos -> begun
          [] OTHER -> done[last + 1]

sfs_fsync(s, f) ==
    IF s.sin[f].dirty THEN [s EXCEPT !.sin[f].dirty = FALSE, !.din[f] = s.sin[f].din] ELSE s

\* vfs_lookup of f: sfs_load_inode takes the inode in memory, if there is one.
sfs_load_inode(s, f) ==
    [s EXCEPT !.sin[f] = IF @ = NULL THEN [din |-> s.din[f], dirty |-> FALSE, ref_count |-> 1]
                         ELSE [s.sin[f] EXCEPT !.ref_count = @ + 1]]

\* Deviation: the inode stays when its last reference is given back.
vfs_close_kept(s, f) == [s EXCEPT !.sin[f].ref_count = @ - 1]

\* vop_ref_dec, and sfs_reclaim with the last reference: no file has nlinks 0.
vfs_close(s, f) ==
    IF s.sin[f].ref_count > 1 THEN [s EXCEPT !.sin[f].ref_count = @ - 1]
    ELSE [sfs_fsync(s, f) EXCEPT !.sin[f] = NULL]

----------------------------------------------------------------------------
(* System calls, on the descriptor d *)

NewDin == [size |-> 0, blocks |-> 0, direct |-> [i \in 0 .. NDIRECT - 1 |-> none],
           indirect |-> none]

\* Mounted from a disk with empty files, as mksfs writes it.
Init ==
    /\ fs = [freemap |-> Block, unused_blocks |-> BLOCKS, super_dirty |-> FALSE,
             sin |-> [f \in File |-> NULL],
             din |-> [f \in File |-> NewDin],
             super |-> [freemap |-> Block, unused_blocks |-> BLOCKS],
             data |-> [b \in Block |-> Zero],
             ents |-> [b \in Block |-> [i \in 0 .. NENTRY - 1 |-> none]],
             panic |-> NULL]
    /\ fd_array = [d \in Fd |-> NULL]
    /\ uneven = {}
    /\ halted = FALSE

Running == fs.panic = NULL /\ ~halted

\* The blocks of f and its size come apart when a write goes past the end of the file
\* or blocks or entries run out in mid-growth, and together with the next size that is set.
Resized(f, r, old) ==
    LET short == r.ret # OK \/ r.fs.panic = OUT_OF_RANGE
    IN  uneven' = CASE short /\ r.fs # old -> uneven \cup {f}
                    [] ~short /\ r.fs.panic = NULL /\ r.fs # old -> uneven \ {f}
                    [] OTHER -> uneven

\* file_open with O_RDWR: O_TRUNC, or O_CREAT of a file that exists, empties it;
\* O_APPEND starts at the end.
Open(d, f, trunc, append) ==
    /\ fd_array[d] = NULL
    /\ LET s == sfs_load_inode(fs, f)
           r == IF trunc THEN sfs_truncfile(s, f, 0) ELSE [fs |-> s, ret |-> OK]
       IN  /\ fs' = IF r.ret # OK THEN vfs_close(r.fs, f) ELSE r.fs
           /\ fd_array' = IF r.ret # OK THEN fd_array
                          ELSE [fd_array EXCEPT ![d] =
                                [node |-> f,
                                 pos |-> IF append THEN r.fs.sin[f].din.size ELSE 0]]
           /\ Resized(f, r, s)

\* file_dup, and dup_files of fork.
Dup(d, d2) ==
    /\ fd_array[d] # NULL /\ fd_array[d2] = NULL
    /\ fd_array' = [fd_array EXCEPT ![d2] = fd_array[d]]
    /\ fs' = [fs EXCEPT !.sin[fd_array[d].node].ref_count = @ + 1]
    /\ UNCHANGED uneven

Close(d) ==
    /\ fd_array[d] # NULL
    /\ fs' = vfs_close(fs, fd_array[d].node)
    /\ fd_array' = [fd_array EXCEPT ![d] = NULL]
    /\ UNCHANGED uneven

Read(d, len) ==
    /\ fd_array[d] # NULL
    /\ LET r == sfs_io(fs, fd_array[d].node, fd_array[d].pos, len, FALSE)
       IN  fs' = r.fs /\ fd_array' = [fd_array EXCEPT ![d].pos = r.pos]
    /\ UNCHANGED uneven

Write(d, len) ==
    /\ fd_array[d] # NULL
    /\ LET f == fd_array[d].node
           r == sfs_io(fs, f, fd_array[d].pos, len, TRUE)
       IN  /\ fs' = r.fs /\ fd_array' = [fd_array EXCEPT ![d].pos = r.pos]
           /\ uneven' = IF fd_array[d].pos + len > fs.sin[f].din.size /\ fd_array[d].pos < MAX_SIZE
                        THEN uneven \cup {f} ELSE uneven

\* file_seek to pos, which the caller may give from the position or the end.
Seek(d, pos) ==
    /\ fd_array[d] # NULL
    /\ LET f == fd_array[d].node
           r == sfs_tryseek(fs, f, pos)
       IN  /\ fs' = r.fs
           /\ fd_array' = IF r.ret # OK THEN fd_array ELSE [fd_array EXCEPT ![d].pos = pos]
           /\ Resized(f, r, fs)

Fsync(d) ==
    /\ fd_array[d] # NULL
    /\ fs' = sfs_fsync(fs, fd_array[d].node)
    /\ UNCHANGED <<fd_array, uneven>>

\* Deviation: the inodes in memory are written, the map is not.
sfs_sync_unmapped(s) ==
    IF s.super_dirty
    THEN [s EXCEPT !.super_dirty = FALSE, !.super.unused_blocks = s.unused_blocks]
    ELSE s

\* All inodes, then super block and map.
sfs_sync(s) ==
    LET synced == [s EXCEPT
            !.din = [f \in File |-> IF s.sin[f] = NULL THEN @[f] ELSE sfs_fsync(s, f).din[f]],
            !.sin = [f \in File |-> IF s.sin[f] = NULL THEN NULL ELSE sfs_fsync(s, f).sin[f]]]
    IN  IF s.super_dirty
        THEN [synced EXCEPT !.super_dirty = FALSE,
                !.super = [freemap |-> s.freemap, unused_blocks |-> s.unused_blocks]]
        ELSE synced

\* fs_cleanup, when init has seen all programs end.
Cleanup ==
    /\ \A d \in Fd : fd_array[d] = NULL
    /\ fs' = sfs_sync(fs)
    /\ halted' = TRUE
    /\ UNCHANGED <<fd_array, uneven>>

SysFile ==
    \/ \E d \in Fd, f \in File, trunc, append \in BOOLEAN : Open(d, f, trunc, append)
    \/ \E d, d2 \in Fd : Dup(d, d2)
    \/ \E d \in Fd : Close(d) \/ Fsync(d)
    \/ \E d \in Fd, len \in 1 .. MAX_LEN : Read(d, len) \/ Write(d, len)
    \/ \E d \in Fd, pos \in SEEKS : Seek(d, pos)

Next ==
    /\ Running
    /\ \/ SysFile /\ UNCHANGED halted
       \/ Cleanup

Spec == Init /\ [][Next]_vars

----------------------------------------------------------------------------
(* Properties *)

\* The inode of f as it is now, in memory or on the disk.
din(f) == IF fs.sin[f] = NULL THEN fs.din[f] ELSE fs.sin[f].din

\* The block of an inode at an index, none if there is none.
BlockAt(n, i) ==
    IF i < NDIRECT THEN n.direct[i]
    ELSE IF n.indirect = none THEN none ELSE fs.ents[n.indirect][i - NDIRECT]

\* The places in the inodes n of the files that a block is named at.
Places(n, b) ==
    {x \in File \X Index : BlockAt(n[x[1]], x[2]) = b}
        \cup {<<f, "indirect">> : f \in {f \in File : n[f].indirect = b}}

\* A block is marked free if no inode and no indirect block names it, and is named
\* once otherwise; unused_blocks counts the free ones: also after a call that the
\* full disk has stopped half-way.
FreemapExact ==
    /\ \A b \in Block :
        Cardinality(Places([f \in File |-> din(f)], b)) = IF b \in fs.freemap THEN 0 ELSE 1
    /\ fs.unused_blocks = Cardinality(fs.freemap)

\* What sfs_do_mount asserts of the disk, and that its inodes name no free block and
\* no block twice, once fs_cleanup has run.
DiskMountable ==
    halted =>
        /\ fs.super.unused_blocks = Cardinality(fs.super.freemap)
        /\ \A b \in Block : Cardinality(Places(fs.din, b)) = IF b \in fs.super.freemap THEN 0 ELSE 1

\* Every byte below the size has its block, in memory and on the disk: to read never
\* allocates.  And an inode that is not dirty is on the disk, all of it but blocks:
\* what fsync, the last close and the end leave out is not lost.
InodesCover ==
    \A f \in File :
        /\ \A n \in {din(f), fs.din[f]} : ROUNDUP_DIV(n.size) <= n.blocks
        /\ \A i \in 0 .. din(f).blocks - 1 : BlockAt(din(f), i) # none
        /\ fs.sin[f] # NULL /\ ~fs.sin[f].dirty =>
                din(f) = [fs.din[f] EXCEPT !.blocks = din(f).blocks]

\* A file whose size was last set with success, and not written past, has exactly the
\* blocks its size needs: the asserts can fail for the other files only.  And an index is
\* out of range only where a file is to grow whose inode has no entry left.
EvenFilesExact ==
    /\ \A f \in File \ uneven : din(f).blocks = ROUNDUP_DIV(din(f).size)
    /\ fs.panic \in uneven \cup {NULL, OUT_OF_RANGE}
    /\ fs.panic = OUT_OF_RANGE =>
            \E f \in uneven : \A i \in Index : BlockAt(din(f), i) # none

\* What the files hold, and their sizes.
contents == [f \in File |-> [i \in Index |->
    IF BlockAt(din(f), i) = none THEN Zero ELSE fs.data[BlockAt(din(f), i)]]]
sizes == [f \in File |-> din(f).size]

Store == INSTANCE FileStore WITH
            MAX_BLOCKS <- NDIRECT + NENTRY, data <- contents, size <- sizes

\* The map of blocks keeps the contents of the files apart.
ImplementsStore == Store!Spec

\* "assert(tblks == din->blocks)" (sfs/sfs_inode.c:927) and the other asserts hold,
\* whichever files are opened, written and emptied.
NoPanic == fs.panic = NULL
=============================================================================
