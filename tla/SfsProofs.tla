----------------------------- MODULE SfsProofs ------------------------------
(***************************************************************************)
(* Theorems about Sfs, for any files, descriptors and sizes.  Every block  *)
(* has a place: an entry of an inode or of its indirect block, or that it  *)
(* is the indirect block.  Each function of fs gets a lemma that says      *)
(* what it does to the places of the file it is called for; the places of  *)
(* the others it leaves alone.                                             *)
(***************************************************************************)
EXTENDS Sfs, FiniteSetTheorems, NaturalsInduction, WellFoundedInduction, TLAPS

----------------------------------------------------------------------------
(* Numbers *)

\* A set of natural numbers that is not empty has a least one.
LEMMA LeastNat ==
    ASSUME NEW S, S \subseteq Nat, S # {}
    PROVE  \E n \in S : \A m \in S : n <= m
<1> DEFINE R == {ss \in Nat \X Nat : ss[1] < ss[2]}
<1>1. IsWellFoundedOn(R, Nat)
  BY NatLessThanWellFounded DEF OpToRel
<1> HIDE DEF R
<1>2. \E n \in S : \A m \in S : <<m, n>> \notin R
  BY <1>1, WFMin, Zenon
<1>3. \A m, n \in Nat : m < n => <<m, n>> \in R
  BY DEF R
<1> QED
  <2>1. PICK n \in S : \A m \in S : <<m, n>> \notin R
    BY <1>2
  <2>2. ASSUME NEW m \in S PROVE n <= m
    <3>1. m \in Nat /\ n \in Nat /\ <<m, n>> \notin R
      BY <2>1
    <3>2. ~ (m < n)
      BY <1>3, <3>1
    <3> QED
      BY <3>1, <3>2
  <2> QED
    BY <2>1, <2>2

\* What holds of b, and of each number behind one that it holds of, holds of b .. n.
LEMMA Along ==
    ASSUME NEW b \in Int, NEW n \in Int, NEW Q,
           b <= n => b \in Q, \A m \in b + 1 .. n : m - 1 \in Q => m \in Q
    PROVE  \A m \in b .. n : m \in Q
<1> DEFINE Gap == {k \in Nat : b + k <= n /\ b + k \notin Q}
<1>1. SUFFICES ASSUME NEW m \in b .. n, m \notin Q PROVE FALSE
  OBVIOUS
<1>2. m - b \in Gap
  <2>1. m - b \in Nat /\ b + (m - b) = m
    OBVIOUS
  <2> QED
    BY <1>1, <2>1
<1>3. PICK k \in Gap : \A j \in Gap : k <= j
  BY <1>2, LeastNat
<1>4. k # 0
  <2>1. b + 0 = b
    OBVIOUS
  <2> QED
    BY <1>3, <2>1
<1>5. k - 1 \in Nat /\ b + (k - 1) <= n /\ k - 1 \notin Gap
  BY <1>3, <1>4
<1>6. b + (k - 1) \in Q
  BY <1>5
<1>7. b + k \in b + 1 .. n /\ b + k - 1 = b + (k - 1)
  BY <1>3, <1>4
<1>8. b + k \in Q
  BY <1>6, <1>7
<1> QED
  BY <1>3, <1>8

\* The blocks of BLKSIZE bytes that n bytes take, and the block that byte n is in.
LEMMA RoundUp ==
    ASSUME NEW n \in Nat
    PROVE  /\ ROUNDUP_DIV(n) \in Nat /\ n \div BLKSIZE \in Nat
           /\ \A m \in Nat : m < n => m \div BLKSIZE < ROUNDUP_DIV(n)
           /\ \A m \in Nat : m \div BLKSIZE > ROUNDUP_DIV(n) => m > n
           /\ n = 0 => ROUNDUP_DIV(n) = 0
  BY SfsAssumption DEF ROUNDUP_DIV

----------------------------------------------------------------------------
(* The state of fs, and the places of the blocks *)

FsState ==
    [freemap : SUBSET Block, unused_blocks : 0 .. BLOCKS, super_dirty : BOOLEAN,
     sin : [File -> Sin \cup {NULL}],
     din : [File -> Din],
     super : [freemap : SUBSET Block, unused_blocks : 0 .. BLOCKS],
     data : [Block -> {Zero} \cup (File \X Index)],
     ents : [Block -> [0 .. NENTRY - 1 -> Block \cup {none}]],
     panic : File \cup {NULL, OUT_OF_RANGE}]

\* The records, by their fields.
FsRec(fm, ub, sd, mi, di, su, da, en, pa) ==
    [freemap |-> fm, unused_blocks |-> ub, super_dirty |-> sd, sin |-> mi, din |-> di,
     super |-> su, data |-> da, ents |-> en, panic |-> pa]
DinRec(sz, bl, dr, ind) == [size |-> sz, blocks |-> bl, direct |-> dr, indirect |-> ind]
SinRec(n, dt, rc) == [din |-> n, dirty |-> dt, ref_count |-> rc]

\* A place of the file is an entry of the inode, or of the indirect block, and last the
\* indirect block itself.
Place == 0 .. NDIRECT + NENTRY
Places_ == File \X Place
BlockOf(n, e, k) ==
    IF k < NDIRECT THEN n.direct[k]
    ELSE IF k = NDIRECT + NENTRY THEN n.indirect
    ELSE IF n.indirect = none THEN none ELSE e[n.indirect][k - NDIRECT]

\* The inode of g as it is now; and what is at each place.
Cur(s, g) == IF s.sin[g] = NULL THEN s.din[g] ELSE s.sin[g].din
Refs(s) == [x \in Places_ |-> BlockOf(Cur(s, x[1]), s.ents, x[2])]

\* Every block is free, in F, or at one place of R.
Exact(R, F) ==
    /\ \A x \in Places_ : R[x] \in (Block \ F) \cup {none}
    /\ \A x, y \in Places_ : R[x] = R[y] /\ R[x] # none => x = y
    /\ \A b \in Block \ F : \E x \in Places_ : R[x] = b

Blocks(s) ==
    /\ s \in FsState
    /\ s.unused_blocks = Cardinality(s.freemap)
    /\ Exact(Refs(s), s.freemap)

\* A state of fs is the record of its fields, each in its set.
LEMMA FsFields ==
    ASSUME NEW s \in FsState
    PROVE  /\ s = FsRec(s.freemap, s.unused_blocks, s.super_dirty, s.sin, s.din, s.super,
                        s.data, s.ents, s.panic)
           /\ s.freemap \in SUBSET Block /\ s.unused_blocks \in 0 .. BLOCKS
           /\ s.super_dirty \in BOOLEAN
           /\ s.sin \in [File -> Sin \cup {NULL}] /\ s.din \in [File -> Din]
           /\ s.super \in [freemap : SUBSET Block, unused_blocks : 0 .. BLOCKS]
           /\ s.data \in [Block -> {Zero} \cup (File \X Index)]
           /\ s.ents \in [Block -> [0 .. NENTRY - 1 -> Block \cup {none}]]
           /\ s.panic \in File \cup {NULL, OUT_OF_RANGE}
  BY DEF FsState, FsRec

\* And a record of such fields is a state of fs.
LEMMA FsMake ==
    ASSUME NEW fm \in SUBSET Block, NEW ub \in 0 .. BLOCKS, NEW sd \in BOOLEAN,
           NEW mi \in [File -> Sin \cup {NULL}], NEW di \in [File -> Din],
           NEW su \in [freemap : SUBSET Block, unused_blocks : 0 .. BLOCKS],
           NEW da \in [Block -> {Zero} \cup (File \X Index)],
           NEW en \in [Block -> [0 .. NENTRY - 1 -> Block \cup {none}]],
           NEW pa \in File \cup {NULL, OUT_OF_RANGE},
           NEW x, x = FsRec(fm, ub, sd, mi, di, su, da, en, pa)
    PROVE  /\ x \in FsState
           /\ x.freemap = fm /\ x.unused_blocks = ub /\ x.super_dirty = sd /\ x.sin = mi
           /\ x.din = di /\ x.super = su /\ x.data = da /\ x.ents = en /\ x.panic = pa
  BY DEF FsState, FsRec

\* The same of the inodes in memory, which are not NULL.
LEMMA SinFields ==
    /\ \A n \in Sin : /\ n = SinRec(n.din, n.dirty, n.ref_count) /\ n # NULL
                      /\ n.din \in Din /\ n.dirty \in BOOLEAN /\ n.ref_count \in Nat \ {0}
    /\ \A n \in Din, dt \in BOOLEAN, rc \in Nat \ {0} :
        LET x == SinRec(n, dt, rc)
        IN  x \in Sin /\ x # NULL /\ x.din = n /\ x.dirty = dt /\ x.ref_count = rc
<1>1. NULL \notin Sin
  BY SfsAssumption
<1>2. \A n \in Sin : /\ n = SinRec(n.din, n.dirty, n.ref_count)
                     /\ n.din \in Din /\ n.dirty \in BOOLEAN /\ n.ref_count \in Nat \ {0}
  BY DEF Sin, SinRec
<1>3. \A n \in Din, dt \in BOOLEAN, rc \in Nat \ {0} :
        LET x == SinRec(n, dt, rc)
        IN  x \in Sin /\ x.din = n /\ x.dirty = dt /\ x.ref_count = rc
  BY DEF Sin, SinRec
<1> QED
  BY <1>1, <1>2, <1>3

\* The same of the inodes on the disk.
LEMMA DinFields ==
    ASSUME NEW n \in Din
    PROVE  /\ n = DinRec(n.size, n.blocks, n.direct, n.indirect)
           /\ n.size \in 0 .. MAX_SIZE /\ n.blocks \in 0 .. NDIRECT + NENTRY
           /\ n.direct \in [0 .. NDIRECT - 1 -> Block \cup {none}]
           /\ n.indirect \in Block \cup {none}
  BY DEF Din, DinRec

\* And a record of such fields is one.
LEMMA DinMake ==
    ASSUME NEW sz \in 0 .. MAX_SIZE, NEW bl \in 0 .. NDIRECT + NENTRY,
           NEW dr \in [0 .. NDIRECT - 1 -> Block \cup {none}], NEW ind \in Block \cup {none},
           NEW x, x = DinRec(sz, bl, dr, ind)
    PROVE  x \in Din /\ x.size = sz /\ x.blocks = bl /\ x.direct = dr /\ x.indirect = ind
  BY DEF Din, DinRec

\* Numbers of blocks and places.
LEMMA Sizes ==
    /\ NDIRECT \in Nat \ {0} /\ NENTRY \in Nat \ {0} /\ BLOCKS \in Nat /\ MAX_SIZE \in Nat
    /\ BLKSIZE \in Nat \ {0} /\ MAX_LEN \in Nat
    /\ Index \subseteq Place /\ Index \subseteq Nat /\ NDIRECT + NENTRY \in Place
    /\ NDIRECT + NENTRY \notin Index /\ Place = Index \cup {NDIRECT + NENTRY}
    /\ none \notin Block /\ none \in Nat /\ Block \subseteq Nat
    /\ \A i \in Index : i < NDIRECT \/ i - NDIRECT \in 0 .. NENTRY - 1
    /\ \A i \in Index : i < NDIRECT => i \in 0 .. NDIRECT - 1
  BY SfsAssumption DEF Index, Place, Block, none

\* Every set of blocks is finite, and its size is one that unused_blocks can have.
LEMMA BlockCount ==
    ASSUME NEW F \in SUBSET Block
    PROVE  /\ IsFiniteSet(F) /\ Cardinality(F) \in 0 .. BLOCKS
           /\ F # {} => Cardinality(F) > 0
           /\ \A b \in F : Cardinality(F \ {b}) = Cardinality(F) - 1
           /\ \A b \in Block \ F : Cardinality(F \cup {b}) = Cardinality(F) + 1
<1>1. IsFiniteSet(Block) /\ Cardinality(Block) = BLOCKS
  <2>1. BLOCKS \in Int /\ 1 \in Int /\ BLOCKS \in Nat
    BY Sizes
  <2> QED
    BY <2>1, FS_Interval DEF Block
<1>2. IsFiniteSet(F) /\ Cardinality(F) <= BLOCKS
  BY <1>1, FS_Subset
<1>3. Cardinality(F) \in Nat
  BY <1>2, FS_CardinalityType
<1>4. F # {} => Cardinality(F) # 0
  BY <1>2, FS_EmptySet
<1>5. \A b \in F : Cardinality(F \ {b}) = Cardinality(F) - 1
  BY <1>2, FS_RemoveElement
<1>6. \A b \in Block \ F : Cardinality(F \cup {b}) = Cardinality(F) + 1
  BY <1>2, FS_AddElement
<1> QED
  BY <1>2, <1>3, <1>4, <1>5, <1>6, Sizes

\* What is at a place is a block or none.
LEMMA RefsFacts ==
    ASSUME NEW s \in FsState, NEW g \in File
    PROVE  /\ Cur(s, g) \in Din
           /\ \A k \in Place : /\ Refs(s)[<<g, k>>] = BlockOf(Cur(s, g), s.ents, k)
                               /\ Refs(s)[<<g, k>>] \in Block \cup {none}
<1>1. Cur(s, g) \in Din
  <2>1. s.sin[g] \in Sin \cup {NULL} /\ s.din[g] \in Din
    BY FsFields
  <2> QED
    BY <2>1, SinFields DEF Cur
<1>2. ASSUME NEW k \in Place
      PROVE  Refs(s)[<<g, k>>] = BlockOf(Cur(s, g), s.ents, k)
  BY DEF Refs, Places_
<1>3. ASSUME NEW k \in Place
      PROVE  BlockOf(Cur(s, g), s.ents, k) \in Block \cup {none}
  <2> DEFINE n == Cur(s, g)
  <2>1. /\ n.direct \in [0 .. NDIRECT - 1 -> Block \cup {none}]
        /\ n.indirect \in Block \cup {none}
    BY <1>1, DinFields
  <2>2. s.ents \in [Block -> [0 .. NENTRY - 1 -> Block \cup {none}]]
    BY FsFields
  <2> HIDE DEF n
  <2>3. CASE k = NDIRECT + NENTRY
    BY <2>1, <2>3, Sizes DEF BlockOf, n
  <2>4. CASE k \in Index /\ k < NDIRECT
    BY <2>1, <2>4, Sizes DEF BlockOf, n
  <2>5. CASE k \in Index /\ ~ (k < NDIRECT)
    <3>1. k - NDIRECT \in 0 .. NENTRY - 1 /\ k # NDIRECT + NENTRY
      BY <2>5, Sizes
    <3>2. n.indirect # none => s.ents[n.indirect][k - NDIRECT] \in Block \cup {none}
      BY <2>1, <2>2, <3>1
    <3> QED
      BY <2>5, <3>1, <3>2 DEF BlockOf, n
  <2> QED
    BY <2>3, <2>4, <2>5, Sizes
<1> QED
  BY <1>1, <1>2, <1>3

\* The places of g are left alone by what changes neither the entries of its inode nor
\* its indirect block.
LEMMA SameRefs ==
    ASSUME NEW s, NEW x, NEW g \in File,
           Cur(x, g).direct = Cur(s, g).direct, Cur(x, g).indirect = Cur(s, g).indirect,
           Cur(s, g).indirect # none => x.ents[Cur(s, g).indirect] = s.ents[Cur(s, g).indirect]
    PROVE  \A k \in Place : Refs(x)[<<g, k>>] = Refs(s)[<<g, k>>]
<1>1. ASSUME NEW k \in Place
      PROVE  /\ Refs(x)[<<g, k>>] = BlockOf(Cur(x, g), x.ents, k)
             /\ Refs(s)[<<g, k>>] = BlockOf(Cur(s, g), s.ents, k)
  BY DEF Refs, Places_
<1>2. ASSUME NEW k \in Place
      PROVE  BlockOf(Cur(x, g), x.ents, k) = BlockOf(Cur(s, g), s.ents, k)
  BY Zenon DEF BlockOf
<1> QED
  BY <1>1, <1>2

\* A free block is put where nothing was.
LEMMA Take ==
    ASSUME NEW R, NEW F \in SUBSET Block, Exact(R, F),
           NEW b \in F, NEW y \in Places_, R[y] = none,
           NEW Q, Q = [x \in Places_ |-> IF x = y THEN b ELSE R[x]]
    PROVE  Exact(Q, F \ {b})
<1>1. \A x \in Places_ : Q[x] = IF x = y THEN b ELSE R[x]
  OBVIOUS
<1>2. \A x \in Places_ : Q[x] \in (Block \ (F \ {b})) \cup {none}
  BY <1>1 DEF Exact
<1>3. \A x, z \in Places_ : Q[x] = Q[z] /\ Q[x] # none => x = z
  BY <1>1, Sizes DEF Exact
<1>4. \A c \in Block \ (F \ {b}) : \E x \in Places_ : Q[x] = c
  <2>1. ASSUME NEW c \in Block \ F
        PROVE  \E x \in Places_ : Q[x] = c
    <3>1. PICK x \in Places_ : R[x] = c
      BY DEF Exact
    <3> QED
      BY <1>1, <3>1, Sizes
  <2> QED
    BY <1>1, <2>1
<1> QED
  BY <1>2, <1>3, <1>4 DEF Exact

\* A block is freed and named no more.
LEMMA Give ==
    ASSUME NEW R, NEW F \in SUBSET Block, Exact(R, F),
           NEW y \in Places_, R[y] # none,
           NEW Q, Q = [x \in Places_ |-> IF x = y THEN none ELSE R[x]]
    PROVE  /\ R[y] \in Block \ F
           /\ Exact(Q, F \cup {R[y]})
<1>0. R[y] \in Block \ F
  BY DEF Exact
<1>1. \A x \in Places_ : Q[x] = IF x = y THEN none ELSE R[x]
  OBVIOUS
<1>2. \A x \in Places_ : Q[x] \in (Block \ (F \cup {R[y]})) \cup {none}
  BY <1>1 DEF Exact
<1>3. \A x, z \in Places_ : Q[x] = Q[z] /\ Q[x] # none => x = z
  BY <1>1 DEF Exact
<1>4. \A c \in Block \ (F \cup {R[y]}) : \E x \in Places_ : Q[x] = c
  BY <1>1 DEF Exact
<1> QED
  BY <1>0, <1>2, <1>3, <1>4 DEF Exact

----------------------------------------------------------------------------
(* Blocks are taken and freed *)

NoEnts == [i \in 0 .. NENTRY - 1 |-> none]

Cleared(e, b) == [e EXCEPT ![b] = NoEnts]

\* s without the free block b, which is cleared.
Without(s, b) ==
    FsRec(s.freemap \ {b}, s.unused_blocks - 1, TRUE, s.sin, s.din, s.super,
          [s.data EXCEPT ![b] = Zero], Cleared(s.ents, b), s.panic)

\* x is s without the block b, as far as its parts matter.
Taken(x, s, b) ==
    /\ x \in FsState /\ x.unused_blocks = Cardinality(x.freemap)
    /\ x.freemap = s.freemap \ {b} /\ x.super_dirty = TRUE /\ x.sin = s.sin
    /\ x.din = s.din /\ x.super = s.super
    /\ x.ents = Cleared(s.ents, b) /\ x.data = [s.data EXCEPT ![b] = Zero]
    /\ x.panic = s.panic

\* So it is a state, and its fields are these.
LEMMA WithoutFields ==
    ASSUME NEW s \in FsState, s.unused_blocks = Cardinality(s.freemap), NEW b \in s.freemap,
           NEW x, x = Without(s, b)
    PROVE  Taken(x, s, b)
<1>1. /\ s.freemap \in SUBSET Block /\ s.unused_blocks \in 0 .. BLOCKS
      /\ s.sin \in [File -> Sin \cup {NULL}] /\ s.din \in [File -> Din]
      /\ s.super \in [freemap : SUBSET Block, unused_blocks : 0 .. BLOCKS]
      /\ s.data \in [Block -> {Zero} \cup (File \X Index)]
      /\ s.ents \in [Block -> [0 .. NENTRY - 1 -> Block \cup {none}]]
      /\ s.panic \in File \cup {NULL, OUT_OF_RANGE}
  BY FsFields
<1> DEFINE fm == s.freemap \ {b}
           ub == s.unused_blocks - 1
           da == [s.data EXCEPT ![b] = Zero]
           en == Cleared(s.ents, b)
<1>2. fm \in SUBSET Block /\ ub = Cardinality(fm) /\ ub \in 0 .. BLOCKS
  <2>1. Cardinality(fm) = s.unused_blocks - 1 /\ fm \in SUBSET Block
    BY <1>1, BlockCount
  <2>2. Cardinality(fm) \in 0 .. BLOCKS
    BY <2>1, BlockCount
  <2> QED
    BY <2>1, <2>2
<1>3. da \in [Block -> {Zero} \cup (File \X Index)]
  BY <1>1
<1>4. en \in [Block -> [0 .. NENTRY - 1 -> Block \cup {none}]]
  BY <1>1 DEF NoEnts, Cleared
<1> DEFINE sd == TRUE
<1>5. x = FsRec(fm, ub, sd, s.sin, s.din, s.super, da, en, s.panic) /\ sd \in BOOLEAN
  BY DEF Without
<1> HIDE DEF fm, ub, da, en, sd
<1>6. /\ x \in FsState
      /\ x.freemap = fm /\ x.unused_blocks = ub /\ x.super_dirty = sd /\ x.sin = s.sin
      /\ x.din = s.din /\ x.super = s.super /\ x.data = da /\ x.ents = en
      /\ x.panic = s.panic
  BY ONLY <1>1, <1>2, <1>3, <1>4, <1>5, FsMake
<1> QED
  BY <1>2, <1>6 DEF fm, da, en, sd, Taken

\* sfs_block_alloc when a block is free: its assert holds.
LEMMA Alloc ==
    ASSUME NEW s \in FsState, s.unused_blocks = Cardinality(s.freemap), s.freemap # {}, NEW f
    PROVE  \E b \in s.freemap :
                sfs_block_alloc(s, f) = [fs |-> Without(s, b), ret |-> OK, ino |-> b]
<1> DEFINE b == Min(s.freemap)
<1>1. s.freemap \in SUBSET Block
  BY FsFields
<1>2. b \in s.freemap
  <2>1. \E x \in s.freemap : \A y \in s.freemap : x <= y
    BY <1>1, LeastNat, Sizes
  <2> QED
    BY <2>1 DEF Min
<1>3. s.unused_blocks > 0
  BY <1>1, BlockCount
<1> HIDE DEF b
<1>4. s = FsRec(s.freemap, s.unused_blocks, s.super_dirty, s.sin, s.din, s.super,
                s.data, s.ents, s.panic)
  BY FsFields
<1> DEFINE taken == [s EXCEPT !.freemap = @ \ {b}]
           counted == [taken EXCEPT !.unused_blocks = @ - 1, !.super_dirty = TRUE]
<1>5. counted = FsRec(s.freemap \ {b}, s.unused_blocks - 1, TRUE, s.sin, s.din, s.super,
                      s.data, s.ents, s.panic)
  <2> DEFINE t == FsRec(s.freemap \ {b}, s.unused_blocks, s.super_dirty, s.sin, s.din,
                        s.super, s.data, s.ents, s.panic)
  <2>1. taken = t
    BY <1>4 DEF FsRec
  <2>2. counted = [t EXCEPT !.unused_blocks = @ - 1, !.super_dirty = TRUE]
    BY <2>1
  <2> HIDE DEF counted
  <2> QED
    BY <2>2 DEF FsRec
<1>6. assert(taken, f, s.unused_blocks > 0) = taken
  BY <1>3 DEF assert
<1> HIDE DEF taken, counted
<1>7. sfs_clear_block(counted, b) = Without(s, b)
  <2> DEFINE t == FsRec(s.freemap \ {b}, s.unused_blocks - 1, TRUE, s.sin, s.din, s.super,
                        s.data, s.ents, s.panic)
           y == sfs_clear_block(counted, b)
  <2>1. y = [t EXCEPT !.data[b] = Zero, !.ents[b] = NoEnts]
    BY <1>5 DEF sfs_clear_block, NoEnts
  <2> HIDE DEF y
  <2>2. y = Without(s, b)
    BY <2>1 DEF FsRec, Without, Cleared
  <2> QED
    BY <2>2 DEF y
<1>8. sfs_block_alloc(s, f) = [fs |-> sfs_clear_block(counted, b), ret |-> OK, ino |-> b]
  BY <1>6 DEF sfs_block_alloc, b, taken, counted
<1> QED
  BY <1>2, <1>7, <1>8

\* sfs_block_alloc when the disk is full.
LEMMA AllocNone ==
    ASSUME NEW s, s.freemap = {}, NEW f
    PROVE  sfs_block_alloc(s, f) = [fs |-> s, ret |-> E_NO_MEM, ino |-> none]
  BY DEF sfs_block_alloc

----------------------------------------------------------------------------
(* What the files hold *)

\* What is in g at the index i, by what is at its place.
Content(s, g, i) == IF Refs(s)[<<g, i>>] = none THEN Zero ELSE s.data[Refs(s)[<<g, i>>]]

SameData(x, s) == \A g \in File, i \in Index : Content(x, g, i) = Content(s, g, i)

\* The files but f hold what they did.
OthersData(x, s, f) == \A g \in File \ {f}, i \in Index : Content(x, g, i) = Content(s, g, i)

\* And f up to the block m, beyond which it may have been cleared.
Trimmed(x, s, f, m) ==
    /\ OthersData(x, s, f)
    /\ \A i \in Index : /\ Content(x, f, i) \in {Content(s, f, i), Zero}
                        /\ i < m => Content(x, f, i) = Content(s, f, i)

\* Blocks that were in use in s hold what they did, and new ones nothing.
Fresh(x, s) ==
    /\ \A b \in Block \ s.freemap : x.data[b] = s.data[b]
    /\ \A b \in s.freemap \ x.freemap : x.data[b] = Zero

\* A free block was cleared, and may have been taken.
LEMMA FreshOne ==
    ASSUME NEW s \in FsState, NEW b \in s.freemap, NEW x, x.data = [s.data EXCEPT ![b] = Zero],
           s.freemap \ x.freemap \subseteq {b}
    PROVE  Fresh(x, s)
<1>1. s.data \in [Block -> {Zero} \cup (File \X Index)] /\ s.freemap \in SUBSET Block
  BY FsFields
<1>2. x.data[b] = Zero /\ \A c \in Block \ {b} : x.data[c] = s.data[c]
  BY <1>1
<1> QED
  BY <1>2 DEF Fresh

\* Two blocks were.
LEMMA FreshAgain ==
    ASSUME NEW s, NEW y, NEW x, s.freemap \subseteq Block, y.freemap \subseteq s.freemap,
           Fresh(y, s), Fresh(x, y)
    PROVE  Fresh(x, s)
  BY DEF Fresh

\* The places that were taken stay, so the files hold what they did: nothing, where
\* they have a new block.
LEMMA FreshData ==
    ASSUME NEW s, Blocks(s), NEW x, Blocks(x), Fresh(x, s),
           \A y \in Places_ : Refs(s)[y] # none => Refs(x)[y] = Refs(s)[y]
    PROVE  SameData(x, s)
<1> DEFINE R == Refs(s)
           Q == Refs(x)
<1>1. Exact(R, s.freemap) /\ Exact(Q, x.freemap)
  BY DEF Blocks
<1> HIDE DEF R, Q
<1>2. ASSUME NEW y \in Places_, R[y] # none
      PROVE  x.data[R[y]] = s.data[R[y]]
  BY <1>1, <1>2 DEF Exact, Fresh
<1>3. ASSUME NEW y \in Places_, R[y] = none, Q[y] # none
      PROVE  x.data[Q[y]] = Zero
  <2>1. Q[y] \in Block \ x.freemap
    BY <1>1, <1>3 DEF Exact
  <2>2. Q[y] \in s.freemap
    <3>1. SUFFICES ASSUME Q[y] \notin s.freemap PROVE FALSE
      OBVIOUS
    <3>2. PICK z \in Places_ : R[z] = Q[y]
      BY <1>1, <2>1, <3>1 DEF Exact
    <3>3. Q[z] = Q[y]
      BY <1>3, <3>2 DEF R, Q
    <3>4. z = y
      BY <1>1, <1>3, <3>3 DEF Exact
    <3> QED
      BY <1>3, <3>2, <3>4
  <2> QED
    BY <2>1, <2>2 DEF Fresh
<1>4. ASSUME NEW g \in File, NEW i \in Index
      PROVE  Content(x, g, i) = Content(s, g, i)
  <2>1. <<g, i>> \in Places_
    BY Sizes DEF Places_
  <2>2. R[<<g, i>>] # none => Q[<<g, i>>] = R[<<g, i>>]
    BY <2>1 DEF R, Q
  <2> QED
    BY <1>2, <1>3, <2>1, <2>2 DEF Content, R, Q
<1> QED
  BY <1>4 DEF SameData

\* The same of what neither touches the places nor the contents of blocks.
LEMMA RefsData ==
    ASSUME NEW s, NEW x, Refs(x) = Refs(s), x.data = s.data
    PROVE  SameData(x, s)
  BY DEF SameData, Content

\* That nothing has changed.
LEMMA DataAgain ==
    ASSUME NEW s, NEW y, NEW x, SameData(y, s), SameData(x, y)
    PROVE  SameData(x, s)
  BY DEF SameData

\* A file that was cleared from m on, and then again, or less of it.
LEMMA TrimAgain ==
    ASSUME NEW s, NEW y, NEW x, NEW f \in File, NEW m \in Int, NEW k \in Int, m <= k,
           Trimmed(y, s, f, k), Trimmed(x, y, f, m)
    PROVE  Trimmed(x, s, f, m)
<1>1. ASSUME NEW i \in Index, i < m
      PROVE  i < k
  BY <1>1, Sizes
<1> QED
  BY <1>1 DEF Trimmed, OthersData

\* And then left alone.
LEMMA TrimSame ==
    ASSUME NEW s, NEW y, NEW x, NEW f \in File, NEW m, Trimmed(y, s, f, m), SameData(x, y)
    PROVE  Trimmed(x, s, f, m)
  BY DEF Trimmed, OthersData, SameData

\* f holds its own from the block b to before m, all else is as it was.
Put(x, s, f, b, m) ==
    /\ OthersData(x, s, f)
    /\ \A i \in Index :
        Content(x, f, i) = IF b <= i /\ i < m THEN <<f, i>> ELSE Content(s, f, i)

\* f was written to at its block i.
PutOne(x, y, f, i) ==
    /\ OthersData(x, y, f)
    /\ \A j \in Index : Content(x, f, j) = IF j = i THEN <<f, i>> ELSE Content(y, f, j)

\* Nothing was written yet.
LEMMA PutNone ==
    ASSUME NEW s, NEW x, NEW f \in File, NEW b \in Int, SameData(x, s)
    PROVE  Put(x, s, f, b, b)
<1>1. ASSUME NEW i \in Index
      PROVE  ~ (b <= i /\ i < b)
  BY Sizes
<1> QED
  BY <1>1 DEF Put, OthersData, SameData

\* And what was is left alone.
LEMMA PutSame ==
    ASSUME NEW s, NEW y, NEW x, NEW f \in File, NEW b, NEW m, Put(y, s, f, b, m), SameData(x, y)
    PROVE  Put(x, s, f, b, m)
  BY DEF Put, OthersData, SameData

\* One block more is written.
LEMMA PutMore ==
    ASSUME NEW s, NEW y, NEW x, NEW f \in File, NEW b \in Int, NEW m \in Int, b <= m,
           Put(y, s, f, b, m), PutOne(x, y, f, m)
    PROVE  Put(x, s, f, b, m + 1)
<1>1. OthersData(x, s, f)
  BY DEF Put, PutOne, OthersData
<1>2. ASSUME NEW i \in Index
      PROVE  Content(x, f, i) = IF b <= i /\ i < m + 1 THEN <<f, i>> ELSE Content(s, f, i)
  <2>1. /\ Content(x, f, i) = IF i = m THEN <<f, m>> ELSE Content(y, f, i)
        /\ Content(y, f, i) = IF b <= i /\ i < m THEN <<f, i>> ELSE Content(s, f, i)
    BY DEF Put, PutOne
  <2>2. i \in Int
    BY Sizes
  <2>3. CASE i = m
    BY <2>1, <2>3
  <2>4. CASE i # m
    <3>1. i < m + 1 <=> i < m
      BY <2>2, <2>4
    <3> QED
      BY <2>1, <2>4, <3>1
  <2> QED
    BY <2>3, <2>4
<1> QED
  BY <1>1, <1>2 DEF Put

\* What is written to a block of f as data is in no other place.
LEMMA PutBlock ==
    ASSUME NEW y, Blocks(y), NEW f \in File, NEW i \in Index, NEW c \in Block,
           c = Refs(y)[<<f, i>>], NEW x, Refs(x) = Refs(y),
           x.data = [y.data EXCEPT ![c] = <<f, i>>]
    PROVE  PutOne(x, y, f, i)
<1> DEFINE R == Refs(y)
<1>1. /\ Exact(R, y.freemap) /\ y.data \in [Block -> {Zero} \cup (File \X Index)]
      /\ <<f, i>> \in Places_ /\ c # none
  BY FsFields, Sizes DEF Blocks, Places_
<1> HIDE DEF R
<1>2. ASSUME NEW g \in File, NEW j \in Index, <<g, j>> # <<f, i>>
      PROVE  Content(x, g, j) = Content(y, g, j)
  <2>1. <<g, j>> \in Places_
    BY Sizes DEF Places_
  <2>2. R[<<g, j>>] # c /\ R[<<g, j>>] \in Block \cup {none}
    BY <1>1, <1>2, <2>1 DEF Exact, R
  <2>3. R[<<g, j>>] # none => x.data[R[<<g, j>>]] = y.data[R[<<g, j>>]]
    BY <1>1, <2>2
  <2> QED
    BY <2>3 DEF Content, R
<1>3. Content(x, f, i) = <<f, i>>
  <2>1. x.data[c] = <<f, i>>
    BY <1>1
  <2> QED
    BY <1>1, <2>1 DEF Content
<1> QED
  BY <1>2, <1>3 DEF PutOne, OthersData

\* Nothing cleared is cleared from anywhere.
LEMMA TrimNone ==
    ASSUME NEW s, NEW x, NEW f \in File, NEW m, SameData(x, s)
    PROVE  Trimmed(x, s, f, m)
  BY DEF Trimmed, OthersData, SameData

----------------------------------------------------------------------------
(* The inode of one file *)

\* s with the inode n of f.
Inode(s, f, n, dt) ==
    FsRec(s.freemap, s.unused_blocks, s.super_dirty,
          [s.sin EXCEPT ![f] = SinRec(n, dt, s.sin[f].ref_count)],
          s.din, s.super, s.data, s.ents, s.panic)

\* x is s, but the inode of f is n in it.
Changed(x, s, f, n, dt) ==
    /\ x \in FsState
    /\ x.freemap = s.freemap /\ x.unused_blocks = s.unused_blocks
    /\ x.super_dirty = s.super_dirty /\ x.din = s.din /\ x.super = s.super
    /\ x.data = s.data /\ x.ents = s.ents /\ x.panic = s.panic
    /\ x.sin[f] \in Sin /\ x.sin[f] # NULL /\ x.sin[f].din = n /\ x.sin[f].dirty = dt
    /\ x.sin[f].ref_count = s.sin[f].ref_count
    /\ Cur(x, f) = n
    /\ \A g \in File \ {f} : x.sin[g] = s.sin[g] /\ Cur(x, g) = Cur(s, g)

\* s with n as the inode of f is a state, and its fields are these.
LEMMA InodeFields ==
    ASSUME NEW s \in FsState, NEW f \in File, s.sin[f] # NULL, NEW n \in Din, NEW dt \in BOOLEAN,
           NEW x, x = Inode(s, f, n, dt)
    PROVE  Changed(x, s, f, n, dt)
<1> DEFINE v == SinRec(n, dt, s.sin[f].ref_count)
           mi == [s.sin EXCEPT ![f] = v]
<1>1. /\ s.freemap \in SUBSET Block /\ s.unused_blocks \in 0 .. BLOCKS
      /\ s.super_dirty \in BOOLEAN
      /\ s.sin \in [File -> Sin \cup {NULL}] /\ s.din \in [File -> Din]
      /\ s.super \in [freemap : SUBSET Block, unused_blocks : 0 .. BLOCKS]
      /\ s.data \in [Block -> {Zero} \cup (File \X Index)]
      /\ s.ents \in [Block -> [0 .. NENTRY - 1 -> Block \cup {none}]]
      /\ s.panic \in File \cup {NULL, OUT_OF_RANGE}
  BY FsFields
<1>2. v \in Sin /\ v # NULL /\ v.din = n /\ v.dirty = dt /\ v.ref_count = s.sin[f].ref_count
  <2>1. s.sin[f] \in Sin
    BY <1>1
  <2> QED
    BY <2>1, SinFields
<1> HIDE DEF v
<1>3. /\ mi \in [File -> Sin \cup {NULL}] /\ mi[f] = v
      /\ \A g \in File \ {f} : mi[g] = s.sin[g]
  BY <1>1, <1>2
<1>4. x = FsRec(s.freemap, s.unused_blocks, s.super_dirty, mi, s.din, s.super, s.data, s.ents,
                s.panic)
  BY DEF Inode, v
<1> HIDE DEF mi
<1>5. /\ x \in FsState
      /\ x.freemap = s.freemap /\ x.unused_blocks = s.unused_blocks
      /\ x.super_dirty = s.super_dirty /\ x.sin = mi /\ x.din = s.din /\ x.super = s.super
      /\ x.data = s.data /\ x.ents = s.ents /\ x.panic = s.panic
  BY ONLY <1>1, <1>3, <1>4, FsMake
<1>6. /\ x.sin[f] = v /\ \A g \in File \ {f} : x.sin[g] = s.sin[g]
  BY <1>3, <1>5
<1>7. Cur(x, f) = n
  BY <1>2, <1>6 DEF Cur
<1>8. \A g \in File \ {f} : Cur(x, g) = Cur(s, g)
  BY <1>5, <1>6 DEF Cur
<1> QED
  BY <1>2, <1>5, <1>6, <1>7, <1>8 DEF Changed

\* An inode that is assigned to, as a record.
LEMMA InodeSet ==
    ASSUME NEW s \in FsState, NEW f \in File, NEW n, NEW dt,
           NEW w, w = SinRec(n, dt, s.sin[f].ref_count),
           NEW x, x = [s EXCEPT !.sin = [s.sin EXCEPT ![f] = w]]
    PROVE  x = Inode(s, f, n, dt)
<1>1. /\ s = FsRec(s.freemap, s.unused_blocks, s.super_dirty, s.sin, s.din, s.super,
                   s.data, s.ents, s.panic)
      /\ s.sin \in [File -> Sin \cup {NULL}]
  BY FsFields
<1>2. x = FsRec(s.freemap, s.unused_blocks, s.super_dirty, [s.sin EXCEPT ![f] = w], s.din,
                s.super, s.data, s.ents, s.panic)
  BY <1>1 DEF FsRec
<1> QED
  BY <1>2 DEF Inode

\* The assignments to the inode of f, and what each makes of it.
DirectSet(s, f, i, b) == [s EXCEPT !.sin[f].din.direct[i] = b, !.sin[f].dirty = TRUE]
IndirectSet(s, f, b) == [s EXCEPT !.sin[f].din.indirect = b, !.sin[f].dirty = TRUE]
SizeSet(s, f, b) == [s EXCEPT !.sin[f].din.size = b, !.sin[f].dirty = TRUE]
BlockLess(s, f) == [s EXCEPT !.sin[f].din.blocks = @ - 1, !.sin[f].dirty = TRUE]
BlockMore(s, f) == [s EXCEPT !.sin[f].din.blocks = @ + 1]

DirectIs(x, s, f, i, b) ==
    \E m \in Din :
        /\ Changed(x, s, f, m, TRUE)
        /\ m.size = s.sin[f].din.size /\ m.blocks = s.sin[f].din.blocks
        /\ m.indirect = s.sin[f].din.indirect
        /\ \A j \in 0 .. NDIRECT - 1 : m.direct[j] = IF j = i THEN b ELSE s.sin[f].din.direct[j]

\* The inode of f in memory, with another block at the index i.
LEMMA SetDirect ==
    ASSUME NEW s \in FsState, NEW f \in File, s.sin[f] # NULL,
           NEW i \in 0 .. NDIRECT - 1, NEW b \in Block \cup {none},
           NEW x, x = DirectSet(s, f, i, b)
    PROVE  DirectIs(x, s, f, i, b)
<1> DEFINE n == s.sin[f].din
           dt == s.sin[f].dirty
           rc == s.sin[f].ref_count
           m == [n EXCEPT !.direct[i] = b]
           v == [s.sin[f] EXCEPT !.din.direct[i] = b]
           w == [v EXCEPT !.dirty = TRUE]
           y == DirectSet(s, f, i, b)
           nt == TRUE
<1>1. s.sin[f] = SinRec(n, dt, rc) /\ n \in Din /\ nt \in BOOLEAN
  <2>1. s.sin[f] \in Sin
    BY FsFields
  <2> QED
    BY <2>1, SinFields
<1>2. y = [s EXCEPT !.sin = [s.sin EXCEPT ![f] = w]]
  <2> DEFINE q == [s.sin EXCEPT ![f] = v]
             z == [s.sin EXCEPT ![f] = w]
             p == [s EXCEPT !.sin = q]
  <2>1. y = [p EXCEPT !.sin = [p.sin EXCEPT ![f] = [p.sin[f] EXCEPT !.dirty = TRUE]]]
    BY DEF DirectSet
  <2> HIDE DEF y, v
  <2>2. p.sin = q /\ q[f] = v
    BY FsFields
  <2>3. [q EXCEPT ![f] = w] = z
    BY FsFields
  <2> HIDE DEF q, z
  <2>4. [p EXCEPT !.sin = z] = [s EXCEPT !.sin = z]
    BY FsFields DEF FsRec
  <2> HIDE DEF p
  <2>5. y = [p EXCEPT !.sin = z]
    BY <2>1, <2>2, <2>3
  <2> QED
    BY <2>4, <2>5 DEF z
<1>3. w = SinRec(m, nt, rc)
  <2> HIDE DEF n, dt, rc
  <2>1. v = [SinRec(n, dt, rc) EXCEPT !.din.direct[i] = b]
    BY <1>1
  <2> HIDE DEF v
  <2>2. v = SinRec(m, dt, rc)
    BY <2>1 DEF SinRec
  <2> HIDE DEF m
  <2>3. w = [SinRec(m, dt, rc) EXCEPT !.dirty = TRUE]
    BY <2>2
  <2> HIDE DEF w
  <2> QED
    BY <2>3 DEF SinRec
<1>4. /\ m \in Din
      /\ m.size = n.size /\ m.blocks = n.blocks /\ m.indirect = n.indirect
      /\ \A j \in 0 .. NDIRECT - 1 : m.direct[j] = IF j = i THEN b ELSE n.direct[j]
  <2>1. /\ n = DinRec(n.size, n.blocks, n.direct, n.indirect)
        /\ n.size \in 0 .. MAX_SIZE /\ n.blocks \in 0 .. NDIRECT + NENTRY
        /\ n.direct \in [0 .. NDIRECT - 1 -> Block \cup {none}]
        /\ n.indirect \in Block \cup {none}
    BY <1>1, DinFields
  <2>2. n.size \in 0 .. MAX_SIZE /\ n.blocks \in 0 .. NDIRECT + NENTRY
    BY <2>1, Sizes
  <2> DEFINE dr == [n.direct EXCEPT ![i] = b]
  <2>3. /\ dr \in [0 .. NDIRECT - 1 -> Block \cup {none}]
        /\ n.indirect \in Block \cup {none}
    BY <2>1
  <2> HIDE DEF n
  <2>4. m = DinRec(n.size, n.blocks, dr, n.indirect)
    BY <2>1 DEF DinRec
  <2> HIDE DEF m, dr
  <2>5. /\ m \in Din /\ m.size = n.size /\ m.blocks = n.blocks /\ m.direct = dr
        /\ m.indirect = n.indirect
    BY ONLY <2>2, <2>3, <2>1, <2>4, DinMake
  <2> QED
    BY <2>1, <2>5 DEF dr
<1> HIDE DEF m, w, y, n, nt
<1>5. y = Inode(s, f, m, nt)
  BY <1>2, <1>3, InodeSet
<1>6. Changed(x, s, f, m, nt)
  BY <1>1, <1>4, <1>5, InodeFields DEF y
<1> QED
  BY <1>4, <1>6 DEF n, nt, DirectIs

IndirectIs(x, s, f, b) ==
    \E m \in Din :
        /\ Changed(x, s, f, m, TRUE)
        /\ m.size = s.sin[f].din.size /\ m.blocks = s.sin[f].din.blocks
        /\ m.direct = s.sin[f].din.direct /\ m.indirect = b

\* With another indirect block.
LEMMA SetIndirect ==
    ASSUME NEW s \in FsState, NEW f \in File, s.sin[f] # NULL,
           NEW b \in Block \cup {none},
           NEW x, x = IndirectSet(s, f, b)
    PROVE  IndirectIs(x, s, f, b)
<1> DEFINE n == s.sin[f].din
           dt == s.sin[f].dirty
           rc == s.sin[f].ref_count
           m == [n EXCEPT !.indirect = b]
           v == [s.sin[f] EXCEPT !.din.indirect = b]
           w == [v EXCEPT !.dirty = TRUE]
           y == IndirectSet(s, f, b)
           nt == TRUE
<1>1. s.sin[f] = SinRec(n, dt, rc) /\ n \in Din /\ nt \in BOOLEAN
  <2>1. s.sin[f] \in Sin
    BY FsFields
  <2> QED
    BY <2>1, SinFields
<1>2. y = [s EXCEPT !.sin = [s.sin EXCEPT ![f] = w]]
  <2> DEFINE q == [s.sin EXCEPT ![f] = v]
             z == [s.sin EXCEPT ![f] = w]
             p == [s EXCEPT !.sin = q]
  <2>1. y = [p EXCEPT !.sin = [p.sin EXCEPT ![f] = [p.sin[f] EXCEPT !.dirty = TRUE]]]
    BY DEF IndirectSet
  <2> HIDE DEF y, v
  <2>2. p.sin = q /\ q[f] = v
    BY FsFields
  <2>3. [q EXCEPT ![f] = w] = z
    BY FsFields
  <2> HIDE DEF q, z
  <2>4. [p EXCEPT !.sin = z] = [s EXCEPT !.sin = z]
    BY FsFields DEF FsRec
  <2> HIDE DEF p
  <2>5. y = [p EXCEPT !.sin = z]
    BY <2>1, <2>2, <2>3
  <2> QED
    BY <2>4, <2>5 DEF z
<1>3. w = SinRec(m, nt, rc)
  <2> HIDE DEF n, dt, rc
  <2>1. v = [SinRec(n, dt, rc) EXCEPT !.din.indirect = b]
    BY <1>1
  <2> HIDE DEF v
  <2>2. v = SinRec(m, dt, rc)
    BY <2>1 DEF SinRec
  <2> HIDE DEF m
  <2>3. w = [SinRec(m, dt, rc) EXCEPT !.dirty = TRUE]
    BY <2>2
  <2> HIDE DEF w
  <2> QED
    BY <2>3 DEF SinRec
<1>4. /\ m \in Din
      /\ m.size = n.size /\ m.blocks = n.blocks /\ m.direct = n.direct /\ m.indirect = b
  <2>1. /\ n = DinRec(n.size, n.blocks, n.direct, n.indirect)
        /\ n.size \in 0 .. MAX_SIZE /\ n.blocks \in 0 .. NDIRECT + NENTRY
        /\ n.direct \in [0 .. NDIRECT - 1 -> Block \cup {none}]
        /\ n.indirect \in Block \cup {none}
    BY <1>1, DinFields
  <2>2. n.size \in 0 .. MAX_SIZE /\ n.blocks \in 0 .. NDIRECT + NENTRY
    BY <2>1, Sizes
  <2> DEFINE dr == n.direct
  <2>3. /\ dr \in [0 .. NDIRECT - 1 -> Block \cup {none}]
        /\ b \in Block \cup {none}
    BY <2>1
  <2> HIDE DEF n
  <2>4. m = DinRec(n.size, n.blocks, dr, b)
    BY <2>1 DEF DinRec
  <2> HIDE DEF m, dr
  <2>5. /\ m \in Din /\ m.size = n.size /\ m.blocks = n.blocks /\ m.direct = dr
        /\ m.indirect = b
    BY ONLY <2>2, <2>3, <2>1, <2>4, DinMake
  <2> QED
    BY <2>1, <2>5 DEF dr
<1> HIDE DEF m, w, y, n, nt
<1>5. y = Inode(s, f, m, nt)
  BY <1>2, <1>3, InodeSet
<1>6. Changed(x, s, f, m, nt)
  BY <1>1, <1>4, <1>5, InodeFields DEF y
<1> QED
  BY <1>4, <1>6 DEF n, nt, IndirectIs

SizeIs(x, s, f, b) ==
    \E m \in Din :
        /\ Changed(x, s, f, m, TRUE)
        /\ m.size = b /\ m.blocks = s.sin[f].din.blocks
        /\ m.direct = s.sin[f].din.direct /\ m.indirect = s.sin[f].din.indirect

\* With another size.
LEMMA SetSize ==
    ASSUME NEW s \in FsState, NEW f \in File, s.sin[f] # NULL,
           NEW b \in 0 .. MAX_SIZE,
           NEW x, x = SizeSet(s, f, b)
    PROVE  SizeIs(x, s, f, b)
<1> DEFINE n == s.sin[f].din
           dt == s.sin[f].dirty
           rc == s.sin[f].ref_count
           m == [n EXCEPT !.size = b]
           v == [s.sin[f] EXCEPT !.din.size = b]
           w == [v EXCEPT !.dirty = TRUE]
           y == SizeSet(s, f, b)
           nt == TRUE
<1>1. s.sin[f] = SinRec(n, dt, rc) /\ n \in Din /\ nt \in BOOLEAN
  <2>1. s.sin[f] \in Sin
    BY FsFields
  <2> QED
    BY <2>1, SinFields
<1>2. y = [s EXCEPT !.sin = [s.sin EXCEPT ![f] = w]]
  BY FsFields DEF FsRec, SizeSet
<1>3. w = SinRec(m, nt, rc)
  <2> HIDE DEF n, dt, rc
  <2>1. v = [SinRec(n, dt, rc) EXCEPT !.din.size = b]
    BY <1>1
  <2> HIDE DEF v
  <2>2. v = SinRec(m, dt, rc)
    BY <2>1 DEF SinRec
  <2> HIDE DEF m
  <2>3. w = [SinRec(m, dt, rc) EXCEPT !.dirty = TRUE]
    BY <2>2
  <2> HIDE DEF w
  <2> QED
    BY <2>3 DEF SinRec
<1>4. /\ m \in Din
      /\ m.size = b /\ m.blocks = n.blocks /\ m.direct = n.direct /\ m.indirect = n.indirect
  <2>1. /\ n = DinRec(n.size, n.blocks, n.direct, n.indirect)
        /\ n.size \in 0 .. MAX_SIZE /\ n.blocks \in 0 .. NDIRECT + NENTRY
        /\ n.direct \in [0 .. NDIRECT - 1 -> Block \cup {none}]
        /\ n.indirect \in Block \cup {none}
    BY <1>1, DinFields
  <2>2. b \in 0 .. MAX_SIZE /\ n.blocks \in 0 .. NDIRECT + NENTRY
    BY <2>1, Sizes
  <2> DEFINE dr == n.direct
  <2>3. /\ dr \in [0 .. NDIRECT - 1 -> Block \cup {none}]
        /\ n.indirect \in Block \cup {none}
    BY <2>1
  <2> HIDE DEF n
  <2>4. m = DinRec(b, n.blocks, dr, n.indirect)
    BY <2>1 DEF DinRec
  <2> HIDE DEF m, dr
  <2>5. /\ m \in Din /\ m.size = b /\ m.blocks = n.blocks /\ m.direct = dr
        /\ m.indirect = n.indirect
    BY ONLY <2>2, <2>3, <2>1, <2>4, DinMake
  <2> QED
    BY <2>1, <2>5 DEF dr
<1> HIDE DEF m, w, y, n, nt
<1>5. y = Inode(s, f, m, nt)
  BY <1>2, <1>3, InodeSet
<1>6. Changed(x, s, f, m, nt)
  BY <1>1, <1>4, <1>5, InodeFields DEF y
<1> QED
  BY <1>4, <1>6 DEF n, nt, SizeIs

OneLess(x, s, f) ==
    \E m \in Din :
        /\ Changed(x, s, f, m, TRUE)
        /\ m.size = s.sin[f].din.size /\ m.blocks = s.sin[f].din.blocks - 1
        /\ m.direct = s.sin[f].din.direct /\ m.indirect = s.sin[f].din.indirect

\* With one block less.
LEMMA LessBlocks ==
    ASSUME NEW s \in FsState, NEW f \in File, s.sin[f] # NULL,
           s.sin[f].din.blocks > 0,
           NEW x, x = BlockLess(s, f)
    PROVE  OneLess(x, s, f)
<1> DEFINE n == s.sin[f].din
           dt == s.sin[f].dirty
           rc == s.sin[f].ref_count
           m == [n EXCEPT !.blocks = @ - 1]
           v == [s.sin[f] EXCEPT !.din.blocks = @ - 1]
           w == [v EXCEPT !.dirty = TRUE]
           y == BlockLess(s, f)
           nt == TRUE
<1>1. s.sin[f] = SinRec(n, dt, rc) /\ n \in Din /\ nt \in BOOLEAN
  <2>1. s.sin[f] \in Sin
    BY FsFields
  <2> QED
    BY <2>1, SinFields
<1>2. y = [s EXCEPT !.sin = [s.sin EXCEPT ![f] = w]]
  BY FsFields DEF FsRec, BlockLess
<1>3. w = SinRec(m, nt, rc)
  <2> HIDE DEF n, dt, rc
  <2>1. v = [SinRec(n, dt, rc) EXCEPT !.din.blocks = @ - 1]
    BY <1>1
  <2> HIDE DEF v
  <2>2. v = SinRec(m, dt, rc)
    BY <2>1 DEF SinRec
  <2> HIDE DEF m
  <2>3. w = [SinRec(m, dt, rc) EXCEPT !.dirty = TRUE]
    BY <2>2
  <2> HIDE DEF w
  <2> QED
    BY <2>3 DEF SinRec
<1>4. /\ m \in Din
      /\ m.size = n.size /\ m.blocks = n.blocks - 1
      /\ m.direct = n.direct /\ m.indirect = n.indirect
  <2>1. /\ n = DinRec(n.size, n.blocks, n.direct, n.indirect)
        /\ n.size \in 0 .. MAX_SIZE /\ n.blocks \in 0 .. NDIRECT + NENTRY
        /\ n.direct \in [0 .. NDIRECT - 1 -> Block \cup {none}]
        /\ n.indirect \in Block \cup {none}
    BY <1>1, DinFields
  <2>2. n.size \in 0 .. MAX_SIZE /\ n.blocks - 1 \in 0 .. NDIRECT + NENTRY
    BY <2>1, Sizes
  <2> DEFINE dr == n.direct
  <2>3. /\ dr \in [0 .. NDIRECT - 1 -> Block \cup {none}]
        /\ n.indirect \in Block \cup {none}
    BY <2>1
  <2> HIDE DEF n
  <2>4. m = DinRec(n.size, n.blocks - 1, dr, n.indirect)
    BY <2>1 DEF DinRec
  <2> HIDE DEF m, dr
  <2>5. /\ m \in Din /\ m.size = n.size /\ m.blocks = n.blocks - 1 /\ m.direct = dr
        /\ m.indirect = n.indirect
    BY ONLY <2>2, <2>3, <2>1, <2>4, DinMake
  <2> QED
    BY <2>1, <2>5 DEF dr
<1> HIDE DEF m, w, y, n, nt
<1>5. y = Inode(s, f, m, nt)
  BY <1>2, <1>3, InodeSet
<1>6. Changed(x, s, f, m, nt)
  BY <1>1, <1>4, <1>5, InodeFields DEF y
<1> QED
  BY <1>4, <1>6 DEF n, nt, OneLess

OneMore(x, s, f) ==
    \E m \in Din :
        /\ Changed(x, s, f, m, s.sin[f].dirty)
        /\ m.size = s.sin[f].din.size /\ m.blocks = s.sin[f].din.blocks + 1
        /\ m.direct = s.sin[f].din.direct /\ m.indirect = s.sin[f].din.indirect

\* With one more block, which is not noted in dirty.
LEMMA MoreBlocks ==
    ASSUME NEW s \in FsState, NEW f \in File, s.sin[f] # NULL,
           s.sin[f].din.blocks < NDIRECT + NENTRY,
           NEW x, x = BlockMore(s, f)
    PROVE  OneMore(x, s, f)
<1> DEFINE n == s.sin[f].din
           dt == s.sin[f].dirty
           rc == s.sin[f].ref_count
           m == [n EXCEPT !.blocks = @ + 1]
           v == [s.sin[f] EXCEPT !.din.blocks = @ + 1]
           w == v
           y == BlockMore(s, f)
           nt == dt
<1>1. s.sin[f] = SinRec(n, dt, rc) /\ n \in Din /\ nt \in BOOLEAN
  <2>1. s.sin[f] \in Sin
    BY FsFields
  <2> QED
    BY <2>1, SinFields
<1>2. y = [s EXCEPT !.sin = [s.sin EXCEPT ![f] = w]]
  BY FsFields DEF FsRec, BlockMore
<1>3. w = SinRec(m, nt, rc)
  <2> HIDE DEF n, dt, rc
  <2>1. v = [SinRec(n, dt, rc) EXCEPT !.din.blocks = @ + 1]
    BY <1>1
  <2> HIDE DEF v
  <2>2. v = SinRec(m, dt, rc)
    BY <2>1 DEF SinRec
  <2> HIDE DEF m
  <2> QED
    BY <2>2
<1>4. /\ m \in Din
      /\ m.size = n.size /\ m.blocks = n.blocks + 1
      /\ m.direct = n.direct /\ m.indirect = n.indirect
  <2>1. /\ n = DinRec(n.size, n.blocks, n.direct, n.indirect)
        /\ n.size \in 0 .. MAX_SIZE /\ n.blocks \in 0 .. NDIRECT + NENTRY
        /\ n.direct \in [0 .. NDIRECT - 1 -> Block \cup {none}]
        /\ n.indirect \in Block \cup {none}
    BY <1>1, DinFields
  <2>2. n.size \in 0 .. MAX_SIZE /\ n.blocks + 1 \in 0 .. NDIRECT + NENTRY
    BY <2>1, Sizes
  <2> DEFINE dr == n.direct
  <2>3. /\ dr \in [0 .. NDIRECT - 1 -> Block \cup {none}]
        /\ n.indirect \in Block \cup {none}
    BY <2>1
  <2> HIDE DEF n
  <2>4. m = DinRec(n.size, n.blocks + 1, dr, n.indirect)
    BY <2>1 DEF DinRec
  <2> HIDE DEF m, dr
  <2>5. /\ m \in Din /\ m.size = n.size /\ m.blocks = n.blocks + 1 /\ m.direct = dr
        /\ m.indirect = n.indirect
    BY ONLY <2>2, <2>3, <2>1, <2>4, DinMake
  <2> QED
    BY <2>1, <2>5 DEF dr
<1> HIDE DEF m, w, y, n, nt
<1>5. y = Inode(s, f, m, nt)
  BY <1>2, <1>3, InodeSet
<1>6. Changed(x, s, f, m, nt)
  BY <1>1, <1>4, <1>5, InodeFields DEF y
<1> QED
  BY <1>4, <1>6 DEF n, nt, OneMore

----------------------------------------------------------------------------
(* A block of a file is looked up, or made *)

\* x is s after a part of a call for f, which has left the size of f, the disk and the
\* other files alone, and has noted what it changed.
Same(x, s, f) ==
    /\ x \in FsState /\ x.din = s.din /\ x.super = s.super
    /\ x.sin[f] # NULL /\ x.sin[f].ref_count = s.sin[f].ref_count
    /\ x.sin[f].din.size = s.sin[f].din.size
    /\ \A g \in File \ {f} : x.sin[g] = s.sin[g]
    /\ \A g \in File \ {f}, k \in Place : Refs(x)[<<g, k>>] = Refs(s)[<<g, k>>]
    /\ ~x.super_dirty => /\ ~s.super_dirty
                         /\ x.freemap = s.freemap /\ x.unused_blocks = s.unused_blocks
    /\ ~x.sin[f].dirty => /\ ~s.sin[f].dirty
                          /\ x.sin[f].din.direct = s.sin[f].din.direct
                          /\ x.sin[f].din.indirect = s.sin[f].din.indirect

\* A part of a call that does nothing.
LEMMA SameItself ==
    ASSUME NEW s \in FsState, NEW f \in File, s.sin[f] # NULL
    PROVE  Same(s, s, f)
  BY DEF Same

\* A part of a call and another one after it.
LEMMA SameAgain ==
    ASSUME NEW f \in File, NEW s, NEW x, NEW y, Same(x, s, f), Same(y, x, f)
    PROVE  Same(y, s, f)
  BY DEF Same

\* The places in x are those in s, but b is at the place k of f.
PutAt(x, s, f, k, b) ==
    /\ \A g \in File \ {f}, j \in Place : Refs(x)[<<g, j>>] = Refs(s)[<<g, j>>]
    /\ \A j \in Place : Refs(x)[<<f, j>>] = IF j = k THEN b ELSE Refs(s)[<<f, j>>]

\* The free block b is put at the empty place k of f.
LEMMA PlaceTaken ==
    ASSUME NEW s, Blocks(s), NEW f \in File, NEW k \in Place, Refs(s)[<<f, k>>] = none,
           NEW b \in s.freemap,
           NEW x \in FsState, x.freemap = s.freemap \ {b}, x.unused_blocks = Cardinality(x.freemap),
           PutAt(x, s, f, k, b)
    PROVE  Blocks(x)
<1> DEFINE y == <<f, k>>
           R == Refs(s)
           Q == Refs(x)
<1>1. Q = [z \in Places_ |-> Q[z]]
  BY DEF Refs
<1>2. ASSUME NEW z \in Places_
      PROVE  Q[z] = IF z = y THEN b ELSE R[z]
  <2>1. PICK g \in File, j \in Place : z = <<g, j>>
    BY DEF Places_
  <2>2. z = y <=> g = f /\ j = k
    BY <2>1
  <2> HIDE DEF R, Q, y
  <2>3. CASE g = f
    BY <2>1, <2>2, <2>3 DEF R, Q, PutAt
  <2>4. CASE g # f
    BY <2>1, <2>2, <2>4 DEF R, Q, PutAt
  <2> QED
    BY <2>3, <2>4
<1>3. Exact(R, s.freemap) /\ s.freemap \in SUBSET Block /\ y \in Places_ /\ R[y] = none
  BY FsFields DEF Blocks, Places_
<1> HIDE DEF R, Q, y
<1>4. Q = [z \in Places_ |-> IF z = y THEN b ELSE R[z]]
  BY <1>1, <1>2
<1>5. Exact(Q, s.freemap \ {b})
  BY <1>3, <1>4, Take
<1> QED
  BY <1>5 DEF Blocks, Q

\* The block at the place k of f is freed.
LEMMA PlaceGiven ==
    ASSUME NEW s, Blocks(s), NEW f \in File, NEW k \in Place, NEW b,
           b = Refs(s)[<<f, k>>], b # none,
           NEW x \in FsState, x.freemap = s.freemap \cup {b},
           x.unused_blocks = Cardinality(x.freemap), PutAt(x, s, f, k, none)
    PROVE  Blocks(x)
<1> DEFINE y == <<f, k>>
           R == Refs(s)
           Q == Refs(x)
<1>1. Q = [z \in Places_ |-> Q[z]]
  BY DEF Refs
<1>2. ASSUME NEW z \in Places_
      PROVE  Q[z] = IF z = y THEN none ELSE R[z]
  <2>1. PICK g \in File, j \in Place : z = <<g, j>>
    BY DEF Places_
  <2>2. z = y <=> g = f /\ j = k
    BY <2>1
  <2> HIDE DEF R, Q, y
  <2>3. CASE g = f
    BY <2>1, <2>2, <2>3 DEF R, Q, PutAt
  <2>4. CASE g # f
    BY <2>1, <2>2, <2>4 DEF R, Q, PutAt
  <2> QED
    BY <2>3, <2>4
<1>3. /\ Exact(R, s.freemap) /\ s.freemap \in SUBSET Block /\ y \in Places_
      /\ R[y] = b /\ R[y] # none
  BY FsFields DEF Blocks, Places_
<1> HIDE DEF R, Q, y
<1>4. Q = [z \in Places_ |-> IF z = y THEN none ELSE R[z]]
  BY <1>1, <1>2
<1>5. Exact(Q, s.freemap \cup {b})
  BY <1>3, <1>4, Give
<1> QED
  BY <1>5 DEF Blocks, Q

\* Blocks that are free are named nowhere.
LEMMA Unnamed ==
    ASSUME NEW s, Blocks(s), NEW b \in s.freemap, NEW g \in File
    PROVE  /\ \A k \in Place : Refs(s)[<<g, k>>] # b
           /\ Cur(s, g).indirect # b
           /\ Refs(s)[<<g, NDIRECT + NENTRY>>] = Cur(s, g).indirect
<1>1. ASSUME NEW k \in Place
      PROVE  Refs(s)[<<g, k>>] # b
  <2>1. <<g, k>> \in Places_ /\ s.freemap \in SUBSET Block
    BY FsFields DEF Places_, Blocks
  <2> QED
    BY <2>1, Sizes DEF Blocks, Exact
<1>2. Refs(s)[<<g, NDIRECT + NENTRY>>] = Cur(s, g).indirect
  BY RefsFacts, Sizes DEF BlockOf, Blocks
<1> QED
  BY <1>1, <1>2, Sizes

\* The results, by their fields.
Res(x, ret, ino) == [fs |-> x, ret |-> ret, ino |-> ino]

\* What sfs_bmap_get_nolock does, for an index below blocks or with create: the block is
\* at its place, or the disk is full.
Got(r, s, f, index, create) ==
    /\ r = Res(r.fs, r.ret, r.ino)
    /\ Same(r.fs, s, f) /\ Blocks(r.fs) /\ r.fs.panic = s.panic
    /\ r.fs.sin[f].din.blocks = s.sin[f].din.blocks
    /\ \A k \in Place : Refs(s)[<<f, k>>] # none => Refs(r.fs)[<<f, k>>] = Refs(s)[<<f, k>>]
    /\ r.ret \in {OK, E_NO_MEM}
    /\ r.ret = OK => r.ino = Refs(r.fs)[<<f, index>>]
    /\ Refs(s)[<<f, index>>] # none \/ ~create => r.ret = OK /\ r.fs = s
    /\ create /\ r.ret = OK => r.ino # none
    /\ Fresh(r.fs, s)

\* That nothing has changed is one way.
LEMMA GotSame ==
    ASSUME NEW s, Blocks(s), NEW f \in File, s.sin[f] # NULL, NEW index \in Index, NEW create,
           NEW r, r = Res(r.fs, r.ret, r.ino), r.fs = s,
           \/ r.ret = OK /\ r.ino = Refs(s)[<<f, index>>] /\ (r.ino # none \/ ~create)
           \/ r.ret = E_NO_MEM /\ create /\ Refs(s)[<<f, index>>] = none
    PROVE  Got(r, s, f, index, create)
<1>1. Same(s, s, f)
  BY SameItself DEF Blocks
<1>2. OK # E_NO_MEM
  BY DEF OK, E_NO_MEM
<1>3. Fresh(s, s)
  BY DEF Fresh
<1> QED
  BY <1>1, <1>2, <1>3 DEF Got

\* A free block that is cleared was nobody's indirect block.
LEMMA ClearedRefs ==
    ASSUME NEW s, Blocks(s), NEW b \in s.freemap,
           NEW x, x.ents = Cleared(s.ents, b), NEW g \in File
    PROVE  /\ Cur(s, g).indirect # none => x.ents[Cur(s, g).indirect] = s.ents[Cur(s, g).indirect]
           /\ Cur(x, g) = Cur(s, g) =>
                \A k \in Place : Refs(x)[<<g, k>>] = Refs(s)[<<g, k>>]
<1>1. Cur(s, g).indirect # none => x.ents[Cur(s, g).indirect] = s.ents[Cur(s, g).indirect]
  <2>1. s \in FsState /\ Cur(s, g) \in Din
    BY RefsFacts DEF Blocks
  <2>2. Cur(s, g).indirect \in Block \cup {none} /\ Cur(s, g).indirect # b
    BY <2>1, DinFields, Unnamed
  <2>3. s.ents \in [Block -> [0 .. NENTRY - 1 -> Block \cup {none}]]
    BY <2>1, FsFields
  <2> QED
    BY <2>2, <2>3 DEF Cleared
<1>2. ASSUME Cur(x, g) = Cur(s, g)
      PROVE  \A k \in Place : Refs(x)[<<g, k>>] = Refs(s)[<<g, k>>]
  BY <1>1, <1>2, SameRefs
<1> QED
  BY <1>1, <1>2

\* sfs_bmap_get_nolock of a block that the inode names itself.
LEMMA DirectBlock ==
    ASSUME NEW s, Blocks(s), NEW f \in File, s.sin[f] # NULL,
           NEW index \in Index, index < NDIRECT, NEW create \in BOOLEAN
    PROVE  Got(sfs_bmap_get_direct(s, f, index, create), s, f, index, create)
<1> DEFINE n == s.sin[f].din
           ino == n.direct[index]
           block == sfs_block_alloc(s, f)
           r == sfs_bmap_get_direct(s, f, index, create)
<1>1. /\ s \in FsState /\ s.unused_blocks = Cardinality(s.freemap)
      /\ n \in Din /\ Cur(s, f) = n /\ s.sin[f] \in Sin
      /\ index \in Place /\ index \in 0 .. NDIRECT - 1
  BY FsFields, RefsFacts, Sizes DEF Blocks, Cur
<1>2. Refs(s)[<<f, index>>] = ino
  BY <1>1, RefsFacts DEF BlockOf
<1>3. CASE ino # none \/ ~create
  <2>1. r = [fs |-> s, ret |-> OK, ino |-> ino]
    BY <1>3 DEF sfs_bmap_get_direct
  <2> HIDE DEF r, ino, n, block
  <2>2. r = Res(r.fs, r.ret, r.ino) /\ r.fs = s /\ r.ret = OK /\ r.ino = ino
    BY <2>1 DEF Res
  <2> QED
    BY <1>2, <1>3, <2>2, GotSame DEF r
<1>4. CASE ino = none /\ create /\ s.freemap = {}
  <2>1. block = [fs |-> s, ret |-> E_NO_MEM, ino |-> none]
    BY <1>4, AllocNone
  <2>2. r = block
    BY <1>4, <2>1 DEF sfs_bmap_get_direct, OK, E_NO_MEM
  <2> HIDE DEF r, ino, n, block
  <2>3. r = Res(r.fs, r.ret, r.ino) /\ r.fs = s /\ r.ret = E_NO_MEM
    BY <2>1, <2>2 DEF Res
  <2> QED
    BY <1>2, <1>4, <2>3, GotSame DEF r
<1>5. CASE ino = none /\ create /\ s.freemap # {}
  <2>1. PICK b \in s.freemap : block = [fs |-> Without(s, b), ret |-> OK, ino |-> b]
    BY <1>1, <1>5, Alloc
  <2> DEFINE w == Without(s, b)
             x == DirectSet(w, f, index, b)
  <2>2. r = [fs |-> x, ret |-> OK, ino |-> b]
    <3>1. r = [block EXCEPT
                !.fs = [@ EXCEPT !.sin[f].din.direct[index] = block.ino,
                                 !.sin[f].dirty = TRUE]]
      BY <1>5, <2>1 DEF sfs_bmap_get_direct, OK
    <3> HIDE DEF r, w, block
    <3> QED
      BY <2>1, <3>1 DEF w, DirectSet
  <2> HIDE DEF w, x, r, block, n, ino
  <2>3. /\ w \in FsState /\ w.unused_blocks = Cardinality(w.freemap)
        /\ w.freemap = s.freemap \ {b} /\ w.super_dirty = TRUE /\ w.sin = s.sin
        /\ w.din = s.din /\ w.super = s.super
        /\ w.ents = Cleared(s.ents, b) /\ w.panic = s.panic
        /\ w.data = [s.data EXCEPT ![b] = Zero]
    <3>1. Taken(w, s, b)
      BY <1>1, WithoutFields DEF w
    <3> QED
      BY <3>1 DEF Taken
  <2>4. b \in Block /\ b # none
    BY <1>1, FsFields, Sizes
  <2>5. PICK m \in Din :
            /\ Changed(x, w, f, m, TRUE)
            /\ m.size = n.size /\ m.blocks = n.blocks /\ m.indirect = n.indirect
            /\ \A j \in 0 .. NDIRECT - 1 : m.direct[j] = IF j = index THEN b ELSE n.direct[j]
    <3>1. x = DirectSet(w, f, index, b) /\ w.sin[f] # NULL /\ b \in Block \cup {none}
      BY <2>3, <2>4 DEF x
    <3>2. DirectIs(x, w, f, index, b)
      BY <1>1, <2>3, <3>1, SetDirect
    <3>3. w.sin[f].din = n
      BY <2>3 DEF n
    <3> HIDE DEF n
    <3> QED
      BY <3>2, <3>3 DEF DirectIs
  <2>6. /\ x \in FsState /\ x.freemap = s.freemap \ {b}
        /\ x.unused_blocks = Cardinality(x.freemap)
        /\ x.super_dirty = TRUE /\ x.din = s.din /\ x.super = s.super /\ x.panic = s.panic
        /\ x.ents = Cleared(s.ents, b)
        /\ x.sin[f] # NULL /\ x.sin[f].din = m /\ x.sin[f].dirty = TRUE
        /\ x.sin[f].ref_count = s.sin[f].ref_count /\ Cur(x, f) = m
        /\ \A g \in File \ {f} : x.sin[g] = s.sin[g] /\ Cur(x, g) = Cur(s, g)
    <3>1. \A g \in File : Cur(w, g) = Cur(s, g)
      BY <2>3 DEF Cur
    <3>2. Changed(x, w, f, m, TRUE)
      BY <2>5
    <3> HIDE DEF w, x, n
    <3> QED
      BY <2>3, <3>1, <3>2 DEF Changed
  <2>7. PutAt(x, s, f, index, b)
    <3>1. ASSUME NEW g \in File \ {f}
          PROVE  \A j \in Place : Refs(x)[<<g, j>>] = Refs(s)[<<g, j>>]
      BY <1>1, <2>6, <3>1, ClearedRefs
    <3>2. ASSUME NEW j \in Place
          PROVE  Refs(x)[<<f, j>>] = IF j = index THEN b ELSE Refs(s)[<<f, j>>]
      <4>1. /\ Refs(x)[<<f, j>>] = BlockOf(m, x.ents, j)
            /\ Refs(s)[<<f, j>>] = BlockOf(n, s.ents, j)
        BY <1>1, <2>6, RefsFacts
      <4>2. n.indirect # none => x.ents[n.indirect] = s.ents[n.indirect]
        BY <1>1, <2>6, ClearedRefs
      <4>3. j < NDIRECT => j \in 0 .. NDIRECT - 1
        BY Sizes DEF Place
      <4>4. CASE j < NDIRECT
        BY <2>5, <4>1, <4>3, <4>4 DEF BlockOf
      <4>5. CASE ~ (j < NDIRECT)
        <5>1. j # index
          BY <4>5
        <5> QED
          BY <2>5, <4>1, <4>2, <4>5, <5>1 DEF BlockOf
      <4> QED
        BY <4>4, <4>5
    <3> QED
      BY <3>1, <3>2 DEF PutAt
  <2>10. Blocks(x)
    <3>1. Refs(s)[<<f, index>>] = none
      BY <1>2, <1>5
    <3> QED
      BY <1>1, <2>6, <2>7, <3>1, PlaceTaken
  <2>11. Same(x, s, f)
    BY <2>5, <2>6, <2>7 DEF Same, n, PutAt
  <2>12. /\ \A k \in Place : Refs(s)[<<f, k>>] # none => Refs(x)[<<f, k>>] = Refs(s)[<<f, k>>]
         /\ Refs(x)[<<f, index>>] = b
    BY <1>1, <1>2, <1>5, <2>7 DEF PutAt
  <2>13. x.panic = s.panic /\ x.sin[f].din.blocks = s.sin[f].din.blocks
    BY <2>5, <2>6 DEF n
  <2>15. Fresh(x, s)
    <3>1. x.data = [s.data EXCEPT ![b] = Zero] /\ s.freemap \ x.freemap \subseteq {b}
      BY <2>3, <2>5, <2>6 DEF Changed
    <3> QED
      BY <1>1, <3>1, FreshOne
  <2>14. Got(r, s, f, index, create)
    <3>1. r = Res(r.fs, r.ret, r.ino) /\ r.fs = x /\ r.ret = OK /\ r.ino = b
      BY <2>2 DEF Res
    <3> QED
      BY <1>2, <1>5, <2>4, <2>10, <2>11, <2>12, <2>13, <2>15, <3>1 DEF Got
  <2> QED
    BY <2>14 DEF r
<1> QED
  BY <1>3, <1>4, <1>5 DEF ino, n

\* The indirect block of f is no other file's.
LEMMA IndirectOwn ==
    ASSUME NEW s, Blocks(s), NEW f \in File, NEW g \in File \ {f}, Cur(s, f).indirect # none
    PROVE  Cur(s, g).indirect # Cur(s, f).indirect
<1> DEFINE k == NDIRECT + NENTRY
<1>1. k \in Place /\ s \in FsState
  BY Sizes DEF Blocks
<1>2. /\ Refs(s)[<<f, k>>] = Cur(s, f).indirect
      /\ Refs(s)[<<g, k>>] = Cur(s, g).indirect
  BY <1>1, RefsFacts, Sizes DEF BlockOf
<1>3. <<f, k>> \in Places_ /\ <<g, k>> \in Places_ /\ <<f, k>> # <<g, k>>
  BY <1>1 DEF Places_
<1> HIDE DEF k
<1> QED
  BY <1>2, <1>3 DEF Blocks, Exact

\* An entry of the block e is assigned to.
EntSet(s, e, i, b) == [s EXCEPT !.ents[e][i] = b]
EntIs(x, s, e, i, b) ==
    /\ x \in FsState
    /\ x.freemap = s.freemap /\ x.unused_blocks = s.unused_blocks
    /\ x.super_dirty = s.super_dirty /\ x.sin = s.sin /\ x.din = s.din /\ x.super = s.super
    /\ x.data = s.data /\ x.panic = s.panic
    /\ \A c \in Block \ {e} : x.ents[c] = s.ents[c]
    /\ \A j \in 0 .. NENTRY - 1 : x.ents[e][j] = IF j = i THEN b ELSE s.ents[e][j]

\* An entry of an indirect block is set.
LEMMA SetEnt ==
    ASSUME NEW s \in FsState, NEW e \in Block, NEW i \in 0 .. NENTRY - 1,
           NEW b \in Block \cup {none}, NEW x, x = EntSet(s, e, i, b)
    PROVE  EntIs(x, s, e, i, b)
<1>1. /\ s = FsRec(s.freemap, s.unused_blocks, s.super_dirty, s.sin, s.din, s.super,
                   s.data, s.ents, s.panic)
      /\ s.freemap \in SUBSET Block /\ s.unused_blocks \in 0 .. BLOCKS
      /\ s.super_dirty \in BOOLEAN
      /\ s.sin \in [File -> Sin \cup {NULL}] /\ s.din \in [File -> Din]
      /\ s.super \in [freemap : SUBSET Block, unused_blocks : 0 .. BLOCKS]
      /\ s.data \in [Block -> {Zero} \cup (File \X Index)]
      /\ s.ents \in [Block -> [0 .. NENTRY - 1 -> Block \cup {none}]]
      /\ s.panic \in File \cup {NULL, OUT_OF_RANGE}
  BY FsFields
<1> DEFINE en == [s.ents EXCEPT ![e][i] = b]
<1>2. /\ en \in [Block -> [0 .. NENTRY - 1 -> Block \cup {none}]]
      /\ \A c \in Block \ {e} : en[c] = s.ents[c]
      /\ \A j \in 0 .. NENTRY - 1 : en[e][j] = IF j = i THEN b ELSE s.ents[e][j]
  BY <1>1
<1>3. x = FsRec(s.freemap, s.unused_blocks, s.super_dirty, s.sin, s.din, s.super,
                s.data, en, s.panic)
  <2>1. x = [FsRec(s.freemap, s.unused_blocks, s.super_dirty, s.sin, s.din, s.super,
                   s.data, s.ents, s.panic) EXCEPT !.ents[e][i] = b]
    BY <1>1 DEF EntSet
  <2> QED
    BY <2>1 DEF FsRec
<1> HIDE DEF en
<1>4. /\ x \in FsState
      /\ x.freemap = s.freemap /\ x.unused_blocks = s.unused_blocks
      /\ x.super_dirty = s.super_dirty /\ x.sin = s.sin
      /\ x.din = s.din /\ x.super = s.super /\ x.data = s.data /\ x.ents = en
      /\ x.panic = s.panic
  BY ONLY <1>1, <1>2, <1>3, FsMake
<1> QED
  BY <1>2, <1>4 DEF EntIs

\* sfs_block_free of a block in use: its assert holds.
FreedIs(x, s, b) ==
    /\ x \in FsState /\ x.unused_blocks = Cardinality(x.freemap)
    /\ x.freemap = s.freemap \cup {b} /\ x.super_dirty = TRUE /\ x.sin = s.sin
    /\ x.din = s.din /\ x.super = s.super /\ x.data = s.data /\ x.ents = s.ents
    /\ x.panic = s.panic

\* sfs_block_free of a block that is in use and named nowhere any more.
LEMMA Free ==
    ASSUME NEW s \in FsState, s.unused_blocks = Cardinality(s.freemap), NEW f,
           NEW b \in Block \ s.freemap, NEW x, x = sfs_block_free(s, f, b)
    PROVE  FreedIs(x, s, b)
<1>1. /\ s = FsRec(s.freemap, s.unused_blocks, s.super_dirty, s.sin, s.din, s.super,
                   s.data, s.ents, s.panic)
      /\ s.freemap \in SUBSET Block /\ s.unused_blocks \in 0 .. BLOCKS
      /\ s.super_dirty \in BOOLEAN
      /\ s.sin \in [File -> Sin \cup {NULL}] /\ s.din \in [File -> Din]
      /\ s.super \in [freemap : SUBSET Block, unused_blocks : 0 .. BLOCKS]
      /\ s.data \in [Block -> {Zero} \cup (File \X Index)]
      /\ s.ents \in [Block -> [0 .. NENTRY - 1 -> Block \cup {none}]]
      /\ s.panic \in File \cup {NULL, OUT_OF_RANGE}
  BY FsFields
<1> DEFINE fm == s.freemap \cup {b}
           ub == s.unused_blocks + 1
           sd == TRUE
<1>2. fm \in SUBSET Block /\ ub = Cardinality(fm) /\ ub \in 0 .. BLOCKS
  <2>1. Cardinality(fm) = s.unused_blocks + 1 /\ fm \in SUBSET Block
    BY <1>1, BlockCount
  <2>2. Cardinality(fm) \in 0 .. BLOCKS
    BY <2>1, BlockCount
  <2> QED
    BY <2>1, <2>2
<1>3. x = FsRec(fm, ub, sd, s.sin, s.din, s.super, s.data, s.ents, s.panic) /\ sd \in BOOLEAN
  <2>1. sfs_block_inuse(s, b)
    BY Sizes DEF sfs_block_inuse
  <2>2. assert(s, f, sfs_block_inuse(s, b)) = s
    BY <2>1 DEF assert
  <2>3. x = [s EXCEPT !.freemap = @ \cup {b}, !.unused_blocks = @ + 1, !.super_dirty = TRUE]
    BY <2>2 DEF sfs_block_free
  <2>4. x = [FsRec(s.freemap, s.unused_blocks, s.super_dirty, s.sin, s.din, s.super,
                   s.data, s.ents, s.panic)
                EXCEPT !.freemap = @ \cup {b}, !.unused_blocks = @ + 1, !.super_dirty = TRUE]
    BY <1>1, <2>3
  <2> QED
    BY <2>4 DEF FsRec
<1> HIDE DEF fm, ub, sd
<1>4. /\ x \in FsState
      /\ x.freemap = fm /\ x.unused_blocks = ub
      /\ x.super_dirty = sd /\ x.sin = s.sin
      /\ x.din = s.din /\ x.super = s.super /\ x.data = s.data /\ x.ents = s.ents
      /\ x.panic = s.panic
  BY ONLY <1>1, <1>2, <1>3, FsMake
<1> QED
  BY <1>2, <1>4 DEF FreedIs, fm, sd

\* The free block b becomes the i-th entry of the indirect block e of f.
EntPut(x, s, f, e, i, b) ==
    /\ x \in FsState /\ x.freemap = s.freemap \ {b} /\ x.unused_blocks = Cardinality(x.freemap)
    /\ \A g \in File \ {f} : Cur(x, g) = Cur(s, g)
    /\ Cur(x, f).direct = Cur(s, f).direct /\ Cur(x, f).indirect = e /\ Cur(s, f).indirect = e
    /\ \A c \in Block \ {b, e} : x.ents[c] = s.ents[c]
    /\ \A j \in 0 .. NENTRY - 1 : x.ents[e][j] = IF j = i THEN b ELSE s.ents[e][j]

\* A free block is put at an empty entry of the indirect block of f.
LEMMA EntPlace ==
    ASSUME NEW s, Blocks(s), NEW f \in File, NEW e \in Block, NEW i \in 0 .. NENTRY - 1,
           Refs(s)[<<f, NDIRECT + i>>] = none, NEW b \in s.freemap,
           NEW x, EntPut(x, s, f, e, i, b)
    PROVE  Blocks(x) /\ PutAt(x, s, f, NDIRECT + i, b)
<1> DEFINE k == NDIRECT + i
<1>1. /\ s \in FsState /\ x \in FsState /\ x.freemap = s.freemap \ {b}
      /\ x.unused_blocks = Cardinality(x.freemap)
      /\ Cur(s, f).indirect = e /\ Cur(x, f).indirect = e /\ e # none
      /\ Cur(x, f).direct = Cur(s, f).direct
      /\ k \in Place /\ ~ (k < NDIRECT) /\ k # NDIRECT + NENTRY /\ k - NDIRECT = i
  BY Sizes DEF EntPut, Blocks, Place
<1>2. ASSUME NEW g \in File \ {f}
      PROVE  \A j \in Place : Refs(x)[<<g, j>>] = Refs(s)[<<g, j>>]
  <2>1. Cur(x, g) = Cur(s, g) /\ Cur(s, g) \in Din
    BY <1>1, RefsFacts DEF EntPut
  <2>2. Cur(s, g).indirect # e
    BY <1>1, IndirectOwn
  <2>3. Cur(s, g).indirect # b /\ Cur(s, g).indirect \in Block \cup {none}
    BY <2>1, Unnamed, DinFields
  <2>4. Cur(s, g).indirect # none => x.ents[Cur(s, g).indirect] = s.ents[Cur(s, g).indirect]
    BY <2>2, <2>3 DEF EntPut
  <2> QED
    BY <2>1, <2>4, SameRefs
<1>3. ASSUME NEW j \in Place
      PROVE  Refs(x)[<<f, j>>] = IF j = k THEN b ELSE Refs(s)[<<f, j>>]
  <2>1. /\ Refs(x)[<<f, j>>] = BlockOf(Cur(x, f), x.ents, j)
        /\ Refs(s)[<<f, j>>] = BlockOf(Cur(s, f), s.ents, j)
    BY <1>1, RefsFacts
  <2>2. CASE j < NDIRECT
    <3>1. j # k
      BY <1>1, <2>2
    <3> QED
      BY <1>1, <2>1, <2>2, <3>1 DEF BlockOf
  <2>3. CASE ~ (j < NDIRECT) /\ j = NDIRECT + NENTRY
    <3>1. j # k
      BY <1>1, <2>3
    <3> QED
      BY <1>1, <2>1, <2>3, <3>1 DEF BlockOf
  <2>4. CASE ~ (j < NDIRECT) /\ j # NDIRECT + NENTRY
    <3>1. j - NDIRECT \in 0 .. NENTRY - 1 /\ (j - NDIRECT = i <=> j = k)
      BY <2>4, Sizes
    <3>2. x.ents[e][j - NDIRECT] = IF j - NDIRECT = i THEN b ELSE s.ents[e][j - NDIRECT]
      BY <3>1 DEF EntPut
    <3>3. /\ Refs(x)[<<f, j>>] = x.ents[e][j - NDIRECT]
          /\ Refs(s)[<<f, j>>] = s.ents[e][j - NDIRECT]
      BY <1>1, <2>1, <2>4 DEF BlockOf
    <3> HIDE DEF k
    <3> QED
      BY <3>1, <3>2, <3>3
  <2> QED
    BY <2>2, <2>3, <2>4
<1>4. PutAt(x, s, f, k, b)
  BY <1>2, <1>3 DEF PutAt
<1>5. Refs(s)[<<f, k>>] = none
  OBVIOUS
<1> HIDE DEF k
<1>6. Blocks(x)
  BY <1>1, <1>4, <1>5, PlaceTaken
<1> QED
  BY <1>4, <1>6 DEF k

\* A new indirect block of f, with no entry yet.
LEMMA IndirectPlace ==
    ASSUME NEW s, Blocks(s), NEW f \in File, s.sin[f] # NULL, s.sin[f].din.indirect = none,
           NEW e \in s.freemap, NEW w, Taken(w, s, e), NEW x, IndirectIs(x, w, f, e)
    PROVE  /\ Blocks(x) /\ PutAt(x, s, f, NDIRECT + NENTRY, e) /\ Same(x, s, f)
           /\ x.panic = s.panic /\ x.sin[f].din.blocks = s.sin[f].din.blocks
           /\ x.sin[f].din.indirect = e /\ x.freemap = w.freemap
           /\ x.sin[f].din.direct = s.sin[f].din.direct
<1> DEFINE k == NDIRECT + NENTRY
           n == s.sin[f].din
<1>1. /\ s \in FsState /\ n \in Din /\ Cur(s, f) = n /\ e \in Block /\ e # none
      /\ k \in Place /\ ~ (k < NDIRECT)
  BY FsFields, RefsFacts, Sizes DEF Blocks, Cur
<1>2. PICK m \in Din : /\ Changed(x, w, f, m, TRUE)
                       /\ m.size = n.size /\ m.blocks = n.blocks
                       /\ m.direct = n.direct /\ m.indirect = e
  <2>1. w.sin[f].din = n
    BY DEF Taken
  <2> HIDE DEF n
  <2> QED
    BY <2>1 DEF IndirectIs
<1>3. /\ x \in FsState /\ x.freemap = s.freemap \ {e}
      /\ x.unused_blocks = Cardinality(x.freemap) /\ x.freemap = w.freemap
      /\ x.super_dirty = TRUE /\ x.din = s.din /\ x.super = s.super /\ x.panic = s.panic
      /\ x.ents = Cleared(s.ents, e)
      /\ x.sin[f] # NULL /\ x.sin[f].din = m /\ x.sin[f].dirty = TRUE
      /\ x.sin[f].ref_count = s.sin[f].ref_count /\ Cur(x, f) = m
      /\ \A g \in File \ {f} : x.sin[g] = s.sin[g] /\ Cur(x, g) = Cur(s, g)
  <2>1. \A g \in File : Cur(w, g) = Cur(s, g)
    BY DEF Taken, Cur
  <2>2. /\ w.freemap = s.freemap \ {e} /\ w.unused_blocks = Cardinality(w.freemap)
        /\ w.super_dirty = TRUE /\ w.din = s.din /\ w.super = s.super
        /\ w.panic = s.panic /\ w.ents = Cleared(s.ents, e) /\ w.sin = s.sin
    BY DEF Taken
  <2> HIDE DEF n, k
  <2> QED
    BY <1>2, <2>1, <2>2 DEF Changed
<1>4. ASSUME NEW g \in File \ {f}
      PROVE  \A j \in Place : Refs(x)[<<g, j>>] = Refs(s)[<<g, j>>]
  BY <1>3, <1>4, ClearedRefs
<1>5. ASSUME NEW j \in Place
      PROVE  Refs(x)[<<f, j>>] = IF j = k THEN e ELSE Refs(s)[<<f, j>>]
  <2>1. /\ Refs(x)[<<f, j>>] = BlockOf(m, x.ents, j)
        /\ Refs(s)[<<f, j>>] = BlockOf(n, s.ents, j)
    BY <1>1, <1>3, RefsFacts
  <2>2. CASE j < NDIRECT
    <3>1. j # k
      BY <1>1, <2>2
    <3> QED
      BY <1>2, <2>1, <2>2, <3>1 DEF BlockOf
  <2>3. CASE j = k
    BY <1>1, <1>2, <2>1, <2>3 DEF BlockOf
  <2>4. CASE ~ (j < NDIRECT) /\ j # k
    <3>1. j - NDIRECT \in 0 .. NENTRY - 1
      BY <2>4, Sizes DEF Place
    <3>2. x.ents[e][j - NDIRECT] = none
      <4>1. s.ents \in [Block -> [0 .. NENTRY - 1 -> Block \cup {none}]]
        BY <1>1, FsFields
      <4>2. x.ents[e] = NoEnts
        BY <1>1, <1>3, <4>1 DEF Cleared
      <4> QED
        BY <3>1, <4>2 DEF NoEnts
    <3>3. Refs(x)[<<f, j>>] = none /\ Refs(s)[<<f, j>>] = none
      BY <1>1, <1>2, <2>1, <2>4, <3>2 DEF BlockOf
    <3> QED
      BY <2>4, <3>3
  <2> QED
    BY <2>2, <2>3, <2>4
<1>6. PutAt(x, s, f, k, e)
  BY <1>4, <1>5 DEF PutAt
<1>7. Refs(s)[<<f, k>>] = none
  BY <1>1, RefsFacts DEF BlockOf
<1> HIDE DEF k
<1>8. Blocks(x)
  BY <1>1, <1>3, <1>6, <1>7, PlaceTaken
<1>9. Same(x, s, f)
  BY <1>2, <1>3, <1>6 DEF Same, PutAt
<1> QED
  BY <1>2, <1>3, <1>6, <1>8, <1>9 DEF k

\* sfs_bmap_get_sub_nolock, by its ways out.
Found(s, e, i) == IF e = none THEN none ELSE s.ents[e][i]
Allocated(s, f, w, b) == sfs_block_alloc(s, f) = [fs |-> w, ret |-> OK, ino |-> b]
SubIs(r, x, ret, ent, ino) == r = [fs |-> x, ret |-> ret, ent |-> ent, ino |-> ino]

\* sfs_bmap_get_sub_nolock of an entry that is there, or is not to be made.
LEMMA SubKnown ==
    ASSUME NEW s, NEW f, NEW e, NEW i, NEW create \in BOOLEAN,
           Found(s, e, i) # none \/ ~create
    PROVE  SubIs(sfs_bmap_get_sub_nolock(s, f, e, i, create), s, OK, e, Found(s, e, i))
  BY DEF sfs_bmap_get_sub_nolock, Found, SubIs

\* The disk is full.
LEMMA SubFull ==
    ASSUME NEW s, NEW f, NEW e, NEW i, NEW create \in BOOLEAN, create,
           Found(s, e, i) = none, s.freemap = {}
    PROVE  SubIs(sfs_bmap_get_sub_nolock(s, f, e, i, create), s, E_NO_MEM, e, none)
<1>1. sfs_block_alloc(s, f) = [fs |-> s, ret |-> E_NO_MEM, ino |-> none]
  BY AllocNone
<1>2. E_NO_MEM # OK
  BY DEF E_NO_MEM, OK
<1>3. CASE e = none
  BY <1>1, <1>2, <1>3 DEF sfs_bmap_get_sub_nolock, SubIs
<1>4. CASE e # none
  BY <1>1, <1>2, <1>4 DEF sfs_bmap_get_sub_nolock, Found, SubIs
<1> QED
  BY <1>3, <1>4

\* A block for the data is found, the indirect block was there.
LEMMA SubEntry ==
    ASSUME NEW s, NEW f, NEW e, NEW i, NEW create \in BOOLEAN, create, e # none,
           Found(s, e, i) = none, NEW w, NEW b, Allocated(s, f, w, b),
           NEW x, x = EntSet(w, e, i, b)
    PROVE  SubIs(sfs_bmap_get_sub_nolock(s, f, e, i, create), x, OK, e, b)
<1>1. E_NO_MEM # OK
  BY DEF E_NO_MEM, OK
<1> QED
  BY <1>1 DEF sfs_bmap_get_sub_nolock, EntSet, Found, Allocated, SubIs

\* A new indirect block is freed when none is left for the data.
LEMMA SubUndone ==
    ASSUME NEW s, NEW f, NEW i, NEW create \in BOOLEAN, create, NEW w, NEW c,
           Allocated(s, f, w, c), w.freemap = {}, NEW y, y = sfs_block_free(w, f, c)
    PROVE  SubIs(sfs_bmap_get_sub_nolock(s, f, none, i, create), y, E_NO_MEM, none, none)
<1>1. E_NO_MEM # OK
  BY DEF E_NO_MEM, OK
<1>2. sfs_block_alloc(w, f) = [fs |-> w, ret |-> E_NO_MEM, ino |-> none]
  BY AllocNone
<1> QED
  BY <1>1, <1>2 DEF sfs_bmap_get_sub_nolock, Allocated, SubIs

\* Both are new.
LEMMA SubBoth ==
    ASSUME NEW s, NEW f, NEW i, NEW create \in BOOLEAN, create, NEW w, NEW c, NEW y, NEW b,
           Allocated(s, f, w, c), Allocated(w, f, y, b), NEW z, z = EntSet(y, c, i, b)
    PROVE  SubIs(sfs_bmap_get_sub_nolock(s, f, none, i, create), z, OK, c, b)
<1>1. E_NO_MEM # OK
  BY DEF E_NO_MEM, OK
<1> QED
  BY <1>1 DEF sfs_bmap_get_sub_nolock, EntSet, Allocated, SubIs

\* sfs_bmap_get_nolock of a block that the indirect block names.
LEMMA IndirectBlock ==
    ASSUME NEW s, Blocks(s), NEW f \in File, s.sin[f] # NULL,
           NEW i \in 0 .. NENTRY - 1, NEW create \in BOOLEAN
    PROVE  Got(sfs_bmap_get_indirect(s, f, i, create), s, f, NDIRECT + i, create)
<1> DEFINE n == s.sin[f].din
           e == n.indirect
           k == NDIRECT + i
           ino == Found(s, e, i)
           sub == sfs_bmap_get_sub_nolock(s, f, e, i, create)
           r == sfs_bmap_get_indirect(s, f, i, create)
<1>1. /\ s \in FsState /\ s.unused_blocks = Cardinality(s.freemap)
      /\ n \in Din /\ Cur(s, f) = n /\ s.sin[f] \in Sin
      /\ k \in Index /\ k \in Place /\ ~ (k < NDIRECT) /\ k # NDIRECT + NENTRY /\ k - NDIRECT = i
  BY FsFields, RefsFacts, Sizes DEF Blocks, Cur, Index
<1>2. Refs(s)[<<f, k>>] = ino
  BY <1>1, RefsFacts DEF BlockOf, Found
<1>3. e \in Block \cup {none}
  BY <1>1, DinFields
<1>4. r = [fs |-> IF sub.ret # OK \/ sub.ent = e THEN sub.fs ELSE IndirectSet(sub.fs, f, sub.ent),
           ret |-> sub.ret, ino |-> sub.ino]
  BY DEF sfs_bmap_get_indirect, IndirectSet
<1>10. r = Res(r.fs, r.ret, r.ino)
  BY <1>4 DEF Res
<1> HIDE DEF r, sub, k
<1>5. E_NO_MEM # OK
  BY DEF E_NO_MEM, OK
<1>6. CASE ino # none \/ ~create
  <2>1. SubIs(sub, s, OK, e, ino)
    BY <1>6, SubKnown DEF sub
  <2>2. r.fs = s /\ r.ret = OK /\ r.ino = ino
    BY <1>4, <2>1 DEF SubIs
  <2> HIDE DEF ino, n
  <2> QED
    BY <1>1, <1>2, <1>6, <1>10, <2>2, GotSame DEF r, k
<1>7. CASE ino = none /\ create /\ s.freemap = {}
  <2>1. SubIs(sub, s, E_NO_MEM, e, none)
    BY <1>7, SubFull DEF sub
  <2>2. r.fs = s /\ r.ret = E_NO_MEM
    BY <1>4, <2>1 DEF SubIs
  <2> HIDE DEF ino, n
  <2> QED
    BY <1>1, <1>2, <1>7, <1>10, <2>2, GotSame DEF r, k
<1>8. CASE ino = none /\ create /\ s.freemap # {} /\ e # none
  <2>1. PICK b \in s.freemap : sfs_block_alloc(s, f) = [fs |-> Without(s, b), ret |-> OK, ino |-> b]
    BY <1>1, <1>8, Alloc
  <2> DEFINE w == Without(s, b)
             x == EntSet(w, e, i, b)
  <2>2. SubIs(sub, x, OK, e, b)
    <3>1. Found(s, e, i) = none /\ Allocated(s, f, w, b) /\ x = EntSet(w, e, i, b)
      BY <1>8, <2>1 DEF Allocated
    <3> HIDE DEF w, x, e
    <3> QED
      BY <1>8, <3>1, SubEntry DEF sub
  <2>3. r.fs = x /\ r.ret = OK /\ r.ino = b
    BY <1>4, <2>2 DEF SubIs
  <2> HIDE DEF w, x, n, ino
  <2>4. Taken(w, s, b) /\ b \in Block /\ b # none
    BY <1>1, FsFields, Sizes, WithoutFields DEF w
  <2>5. EntIs(x, w, e, i, b)
    <3>1. w \in FsState /\ e \in Block /\ b \in Block \cup {none} /\ x = EntSet(w, e, i, b)
      BY <1>3, <1>8, <2>4 DEF x, Taken
    <3> QED
      BY <3>1, SetEnt
  <2>6. e # b
    BY <1>1, Unnamed
  <2>7. EntPut(x, s, f, e, i, b)
    <3>1. s.ents \in [Block -> [0 .. NENTRY - 1 -> Block \cup {none}]] /\ e \in Block
      BY <1>1, <1>3, <1>8, FsFields
    <3>2. \A c \in Block \ {b} : w.ents[c] = s.ents[c]
      BY <2>4, <3>1 DEF Taken, Cleared
    <3>3. /\ \A c \in Block \ {b, e} : x.ents[c] = s.ents[c]
          /\ \A j \in 0 .. NENTRY - 1 : x.ents[e][j] = IF j = i THEN b ELSE s.ents[e][j]
      BY <2>5, <2>6, <3>1, <3>2 DEF EntIs
    <3>4. \A g \in File : Cur(x, g) = Cur(s, g)
      BY <2>4, <2>5 DEF Taken, EntIs, Cur
    <3>5. x \in FsState /\ x.freemap = s.freemap \ {b} /\ x.unused_blocks = Cardinality(x.freemap)
      BY <2>4, <2>5 DEF Taken, EntIs
    <3> QED
      BY <1>1, <3>3, <3>4, <3>5 DEF EntPut
  <2>8. Blocks(x) /\ PutAt(x, s, f, k, b)
    <3>1. e \in Block /\ Refs(s)[<<f, NDIRECT + i>>] = none
      BY <1>2, <1>3, <1>8 DEF k
    <3> QED
      BY <2>7, <3>1, EntPlace DEF k
  <2>9. Same(x, s, f) /\ x.panic = s.panic /\ x.sin = s.sin
    BY <2>4, <2>5, <2>8 DEF Same, Taken, EntIs, PutAt, Blocks
  <2>10. /\ \A j \in Place : Refs(s)[<<f, j>>] # none => Refs(x)[<<f, j>>] = Refs(s)[<<f, j>>]
         /\ Refs(x)[<<f, k>>] = b
    BY <1>1, <1>2, <1>8, <2>8 DEF PutAt
  <2>12. Fresh(x, s)
    <3>1. x.data = [s.data EXCEPT ![b] = Zero] /\ s.freemap \ x.freemap \subseteq {b}
      BY <2>4, <2>5 DEF Taken, EntIs
    <3> QED
      BY <1>1, <3>1, FreshOne
  <2>11. Got(r, s, f, k, create)
    BY <1>2, <1>8, <1>10, <2>3, <2>4, <2>8, <2>9, <2>10, <2>12 DEF Got
  <2> QED
    BY <2>11 DEF r, k
<1>9. CASE create /\ s.freemap # {} /\ e = none
  <2>1. PICK c \in s.freemap : sfs_block_alloc(s, f) = [fs |-> Without(s, c), ret |-> OK, ino |-> c]
    BY <1>1, <1>9, Alloc
  <2> DEFINE w == Without(s, c)
  <2>2. Allocated(s, f, w, c)
    BY <2>1 DEF Allocated
  <2>3. ino = none
    BY <1>9 DEF Found
  <2>10. sub = sfs_bmap_get_sub_nolock(s, f, none, i, create)
    BY <1>9 DEF sub
  <2> HIDE DEF w, ino, n
  <2>4. Taken(w, s, c) /\ c \in Block /\ c # none
    BY <1>1, FsFields, Sizes, WithoutFields DEF w
  <2>5. CASE w.freemap = {}
    <3> DEFINE y == sfs_block_free(w, f, c)
    <3>10. y = sfs_block_free(w, f, c)
      OBVIOUS
    <3> HIDE DEF y
    <3>1. SubIs(sub, y, E_NO_MEM, none, none)
      BY <1>9, <2>2, <2>5, <2>10, <3>10, SubUndone
    <3>2. r.fs = y /\ r.ret = E_NO_MEM
      BY <1>4, <1>5, <3>1 DEF SubIs
    <3>3. FreedIs(y, w, c)
      <4>1. w \in FsState /\ w.unused_blocks = Cardinality(w.freemap) /\ c \in Block \ w.freemap
        BY <2>4 DEF Taken
      <4> QED
        BY <3>10, <4>1, Free
    <3>4. /\ y \in FsState /\ y.unused_blocks = Cardinality(y.freemap) /\ y.freemap = s.freemap
          /\ y.super_dirty = TRUE /\ y.sin = s.sin /\ y.din = s.din /\ y.super = s.super
          /\ y.ents = Cleared(s.ents, c) /\ y.panic = s.panic
      BY <2>4, <3>3 DEF FreedIs, Taken
    <3>5. \A g \in File, j \in Place : Refs(y)[<<g, j>>] = Refs(s)[<<g, j>>]
      <4>1. \A g \in File : Cur(y, g) = Cur(s, g)
        BY <3>4 DEF Cur
      <4>2. ASSUME NEW g \in File
            PROVE  \A j \in Place : Refs(y)[<<g, j>>] = Refs(s)[<<g, j>>]
        BY <3>4, <4>1, ClearedRefs
      <4> QED
        BY <4>2
    <3>6. Refs(y) = Refs(s)
      <4>1. \A z \in Places_ : Refs(y)[z] = Refs(s)[z]
        BY <3>5 DEF Places_
      <4> QED
        BY <4>1 DEF Refs
    <3>7. Blocks(y)
      BY <3>4, <3>6 DEF Blocks
    <3>8. Same(y, s, f)
      BY <3>4, <3>5 DEF Same
    <3>11. Fresh(y, s)
      <4>1. y.data = [s.data EXCEPT ![c] = Zero] /\ s.freemap \ y.freemap \subseteq {c}
        BY <2>4, <3>3, <3>4 DEF Taken, FreedIs
      <4> QED
        BY <1>1, <4>1, FreshOne
    <3>9. Got(r, s, f, k, create)
      BY <1>2, <1>5, <1>9, <1>10, <2>3, <3>2, <3>4, <3>5, <3>7, <3>8, <3>11 DEF Got
    <3> QED
      BY <3>9 DEF r, k
  <2>6. CASE w.freemap # {}
    <3>1. w \in FsState /\ w.unused_blocks = Cardinality(w.freemap)
      BY <2>4 DEF Taken
    <3>2. PICK b \in w.freemap :
            sfs_block_alloc(w, f) = [fs |-> Without(w, b), ret |-> OK, ino |-> b]
      BY <2>6, <3>1, Alloc
    <3> DEFINE y == Without(w, b)
               z == EntSet(y, c, i, b)
               x == IndirectSet(z, f, c)
               v == IndirectSet(w, f, c)
    <3>3. Allocated(w, f, y, b)
      BY <3>2 DEF Allocated
    <3>19. z = EntSet(y, c, i, b)
      OBVIOUS
    <3> HIDE DEF y, z, v
    <3>4. SubIs(sub, z, OK, c, b)
      BY <1>9, <2>2, <2>10, <3>3, <3>19, SubBoth
    <3>5. r.fs = x /\ r.ret = OK /\ r.ino = b
      BY <1>4, <1>9, <2>4, <3>4 DEF SubIs
    <3> HIDE DEF x
    <3>6. Taken(y, w, b) /\ b \in Block /\ b # none /\ b # c
      <4>1. w.freemap = s.freemap \ {c} /\ s.freemap \in SUBSET Block
        BY <1>1, <2>4, FsFields DEF Taken
      <4>2. b \in Block /\ b # c
        BY <4>1
      <4>3. b # none
        BY <4>2, Sizes
      <4>4. Taken(y, w, b)
        BY <3>1, WithoutFields DEF y
      <4> QED
        BY <4>2, <4>3, <4>4
    <3>7. EntIs(z, y, c, i, b)
      <4>1. y \in FsState /\ b \in Block \cup {none} /\ z = EntSet(y, c, i, b)
        BY <3>6, <3>19 DEF Taken
      <4> QED
        BY <2>4, <4>1, SetEnt
    <3>8. IndirectIs(x, z, f, c) /\ IndirectIs(v, w, f, c)
      <4>1. z \in FsState /\ z.sin[f] # NULL /\ w.sin[f] # NULL /\ c \in Block \cup {none}
        BY <2>4, <3>6, <3>7 DEF Taken, EntIs
      <4> QED
        BY <3>1, <4>1, SetIndirect DEF x, v
    <3>9. /\ Blocks(v) /\ PutAt(v, s, f, NDIRECT + NENTRY, c)
          /\ v.sin[f].din.indirect = c /\ v.freemap = w.freemap
          /\ v.sin[f].din.direct = n.direct
      <4>1. s.sin[f].din.indirect = none
        BY <1>9 DEF n
      <4> QED
        BY <2>4, <3>8, <4>1, IndirectPlace DEF n
    <3>10. PICK p \in Din : /\ Changed(v, w, f, p, TRUE)
                            /\ p.direct = n.direct /\ p.indirect = c
      <4>1. w.sin[f] = s.sin[f]
        BY <2>4 DEF Taken
      <4> QED
        BY <3>8, <4>1 DEF IndirectIs, n
    <3>11. PICK m \in Din : /\ Changed(x, z, f, m, TRUE)
                            /\ m.size = n.size /\ m.blocks = n.blocks
                            /\ m.direct = n.direct /\ m.indirect = c
      <4>1. z.sin[f] = s.sin[f]
        BY <2>4, <3>6, <3>7 DEF Taken, EntIs
      <4> QED
        BY <3>8, <4>1 DEF IndirectIs, n
    <3>12. /\ x \in FsState /\ x.unused_blocks = Cardinality(x.freemap)
           /\ x.freemap = w.freemap \ {b} /\ x.super_dirty = TRUE
           /\ x.din = s.din /\ x.super = s.super /\ x.panic = s.panic /\ x.ents = z.ents
           /\ x.sin[f] # NULL /\ x.sin[f].din = m /\ x.sin[f].dirty = TRUE
           /\ x.sin[f].ref_count = s.sin[f].ref_count /\ Cur(x, f) = m
           /\ \A g \in File \ {f} : x.sin[g] = s.sin[g] /\ Cur(x, g) = Cur(s, g)
      <4>1. /\ z.unused_blocks = Cardinality(z.freemap) /\ z.freemap = w.freemap \ {b}
            /\ z.super_dirty = TRUE /\ z.sin = s.sin /\ z.din = s.din /\ z.super = s.super
            /\ z.panic = s.panic
        BY <2>4, <3>6, <3>7 DEF Taken, EntIs
      <4>2. /\ x \in FsState /\ x.freemap = z.freemap /\ x.unused_blocks = z.unused_blocks
            /\ x.super_dirty = z.super_dirty /\ x.din = z.din /\ x.super = z.super
            /\ x.panic = z.panic /\ x.ents = z.ents
            /\ x.sin[f] # NULL /\ x.sin[f].din = m /\ x.sin[f].dirty = TRUE
            /\ x.sin[f].ref_count = z.sin[f].ref_count /\ Cur(x, f) = m
        BY <3>11 DEF Changed
      <4>3. \A g \in File \ {f} : x.sin[g] = z.sin[g] /\ Cur(x, g) = Cur(z, g)
        BY <3>11 DEF Changed
      <4>4. \A g \in File \ {f} : x.sin[g] = s.sin[g] /\ Cur(x, g) = Cur(s, g)
        BY <4>1, <4>3 DEF Cur
      <4> QED
        BY <4>1, <4>2, <4>4
    <3>13. EntPut(x, v, f, c, i, b)
      <4>1. w.ents \in [Block -> [0 .. NENTRY - 1 -> Block \cup {none}]] /\ v.ents = w.ents
        BY <3>1, <3>10, FsFields DEF Changed
      <4>2. \A d \in Block \ {b} : y.ents[d] = w.ents[d]
        BY <3>6, <4>1 DEF Taken, Cleared
      <4>3. /\ \A d \in Block \ {b, c} : x.ents[d] = v.ents[d]
            /\ \A j \in 0 .. NENTRY - 1 : x.ents[c][j] = IF j = i THEN b ELSE v.ents[c][j]
        BY <2>4, <3>6, <3>7, <3>12, <4>1, <4>2 DEF EntIs
      <4>4. \A g \in File \ {f} : Cur(x, g) = Cur(v, g)
        BY <2>4, <3>10, <3>12 DEF Taken, Changed, Cur
      <4>5. /\ Cur(v, f).direct = n.direct /\ Cur(v, f).indirect = c
            /\ Cur(x, f).direct = n.direct /\ Cur(x, f).indirect = c
        BY <3>10, <3>11, <3>12 DEF Changed
      <4> QED
        BY <3>9, <3>12, <4>3, <4>4, <4>5 DEF EntPut
    <3>14. Refs(v)[<<f, k>>] = none
      BY <1>1, <1>2, <2>3, <3>9 DEF PutAt
    <3>15. Blocks(x) /\ PutAt(x, v, f, k, b)
      BY <2>4, <3>9, <3>13, <3>14, EntPlace DEF k
    <3>16. /\ \A g \in File \ {f}, j \in Place : Refs(x)[<<g, j>>] = Refs(s)[<<g, j>>]
           /\ \A j \in Place : Refs(s)[<<f, j>>] # none => Refs(x)[<<f, j>>] = Refs(s)[<<f, j>>]
           /\ Refs(x)[<<f, k>>] = b
      <4>1. Refs(s)[<<f, NDIRECT + NENTRY>>] = none
        BY <1>1, <1>9, Unnamed, RefsFacts, Sizes DEF BlockOf
      <4> QED
        BY <1>1, <1>2, <2>3, <3>9, <3>15, <4>1 DEF PutAt
    <3>17. Same(x, s, f) /\ x.sin[f].din.blocks = s.sin[f].din.blocks
      BY <3>11, <3>12, <3>16 DEF Same, n
    <3>20. Fresh(x, s)
      <4>1. w.data = [s.data EXCEPT ![c] = Zero] /\ s.freemap \ w.freemap \subseteq {c}
        BY <2>4 DEF Taken
      <4>2. Fresh(w, s)
        BY <1>1, <4>1, FreshOne
      <4>3. x.data = [w.data EXCEPT ![b] = Zero] /\ w.freemap \ x.freemap \subseteq {b}
        BY <3>6, <3>7, <3>11, <3>12 DEF Taken, EntIs, Changed
      <4>4. Fresh(x, w)
        BY <3>1, <4>3, FreshOne
      <4>5. s.freemap \subseteq Block /\ w.freemap \subseteq s.freemap
        BY <1>1, <2>4, FsFields DEF Taken
      <4> QED
        BY <4>2, <4>4, <4>5, FreshAgain
    <3>18. Got(r, s, f, k, create)
      BY <1>2, <1>9, <1>10, <2>3, <3>5, <3>6, <3>12, <3>15, <3>16, <3>17, <3>20 DEF Got
    <3> QED
      BY <3>18 DEF r, k
  <2> QED
    BY <2>5, <2>6
<1> QED
  BY <1>6, <1>7, <1>8, <1>9

\* sfs_bmap_get_nolock, of any block that an inode has an entry for.
LEMMA GetBlock ==
    ASSUME NEW s, Blocks(s), NEW f \in File, s.sin[f] # NULL,
           NEW index \in Index, NEW create \in BOOLEAN
    PROVE  Got(sfs_bmap_get_nolock(s, f, index, create), s, f, index, create)
<1>1. CASE index < NDIRECT
  <2>1. sfs_bmap_get_nolock(s, f, index, create) = sfs_bmap_get_direct(s, f, index, create)
    <3>1. index \notin NDIRECT .. NDIRECT + NENTRY - 1
      BY <1>1, Sizes
    <3> QED
      BY <1>1, <3>1 DEF sfs_bmap_get_nolock
  <2> QED
    BY <1>1, <2>1, DirectBlock
<1>2. CASE ~ (index < NDIRECT)
  <2> DEFINE i == index - NDIRECT
  <2>1. sfs_bmap_get_nolock(s, f, index, create) = sfs_bmap_get_indirect(s, f, i, create)
    <3>1. index \in NDIRECT .. NDIRECT + NENTRY - 1
      BY <1>2, Sizes DEF Index
    <3> QED
      BY <1>2, <3>1 DEF sfs_bmap_get_nolock
  <2>2. i \in 0 .. NENTRY - 1 /\ NDIRECT + i = index
    BY <1>2, Sizes
  <2> HIDE DEF i
  <2>3. Got(sfs_bmap_get_indirect(s, f, i, create), s, f, NDIRECT + i, create)
    BY <2>2, IndirectBlock
  <2> QED
    BY <2>1, <2>2, <2>3
<1> QED
  BY <1>1, <1>2

\* And the files hold what they did.
LEMMA GotData ==
    ASSUME NEW s, Blocks(s), NEW f \in File, NEW index, NEW create,
           NEW r, Got(r, s, f, index, create)
    PROVE  SameData(r.fs, s)
<1>1. /\ Blocks(r.fs) /\ Fresh(r.fs, s) /\ Same(r.fs, s, f)
      /\ \A k \in Place : Refs(s)[<<f, k>>] # none => Refs(r.fs)[<<f, k>>] = Refs(s)[<<f, k>>]
  BY DEF Got
<1>2. ASSUME NEW g \in File, NEW k \in Place, Refs(s)[<<g, k>>] # none
      PROVE  Refs(r.fs)[<<g, k>>] = Refs(s)[<<g, k>>]
  BY <1>1, <1>2 DEF Same
<1>3. \A y \in Places_ : Refs(s)[y] # none => Refs(r.fs)[y] = Refs(s)[y]
  BY <1>2 DEF Places_
<1> QED
  BY <1>1, <1>3, FreshData

\* What the inode of f says of its size and the number of its blocks is nothing to
\* the places.
LEMMA InodeRefs ==
    ASSUME NEW s, Blocks(s), NEW f \in File, s.sin[f] # NULL, NEW x, NEW m, NEW dt,
           Changed(x, s, f, m, dt),
           m.direct = s.sin[f].din.direct, m.indirect = s.sin[f].din.indirect
    PROVE  Refs(x) = Refs(s) /\ Blocks(x)
<1>1. /\ x \in FsState /\ x.ents = s.ents /\ x.freemap = s.freemap
      /\ x.unused_blocks = s.unused_blocks /\ Cur(x, f) = m
      /\ \A g \in File \ {f} : Cur(x, g) = Cur(s, g)
  BY DEF Changed
<1>2. Cur(s, f) = s.sin[f].din
  BY DEF Cur
<1>3. \A g \in File : /\ Cur(x, g).direct = Cur(s, g).direct
                      /\ Cur(x, g).indirect = Cur(s, g).indirect
  BY <1>1, <1>2
<1>4. ASSUME NEW g \in File
      PROVE  \A k \in Place : Refs(x)[<<g, k>>] = Refs(s)[<<g, k>>]
  <2>1. Cur(s, g).indirect # none => x.ents[Cur(s, g).indirect] = s.ents[Cur(s, g).indirect]
    BY <1>1
  <2> QED
    BY <1>3, <2>1, SameRefs
<1>5. Refs(x) = Refs(s)
  <2>1. \A z \in Places_ : Refs(x)[z] = Refs(s)[z]
    BY <1>4 DEF Places_
  <2> QED
    BY <2>1 DEF Refs
<1> QED
  BY <1>1, <1>5 DEF Blocks

\* The blocks of f that are counted are there.
Covered(s, f) == \A i \in Index : i < s.sin[f].din.blocks => Refs(s)[<<f, i>>] # none

\* sfs_bmap_load_nolock up to the end of the file: its assert holds.
Loaded(r, s, f, index) ==
    /\ r = Res(r.fs, r.ret, r.ino)
    /\ Same(r.fs, s, f) /\ Blocks(r.fs) /\ Covered(r.fs, f) /\ r.fs.panic = s.panic
    /\ r.ret \in {OK, E_NO_MEM}
    /\ r.ret = OK => r.ino \in Block /\ r.ino = Refs(r.fs)[<<f, index>>]
    /\ SameData(r.fs, s)
    /\ r.fs.sin[f].din.blocks = IF index = s.sin[f].din.blocks /\ r.ret = OK
                                THEN s.sin[f].din.blocks + 1 ELSE s.sin[f].din.blocks
    /\ index < s.sin[f].din.blocks => r.ret = OK /\ r.fs = s

AssertInuse(r, x, f) == [r EXCEPT !.fs = assert(x, f, sfs_block_inuse(@, r.ino))]

\* sfs_bmap_load_nolock of a block below the end, or of the one behind the last.
LEMMA Load ==
    ASSUME NEW s, Blocks(s), s.panic = NULL, NEW f \in File, s.sin[f] # NULL, Covered(s, f),
           NEW index \in Index, index <= s.sin[f].din.blocks
    PROVE  Loaded(sfs_bmap_load_nolock(s, f, index), s, f, index)
<1> DEFINE blocks == s.sin[f].din.blocks
           create == index = blocks
           g == sfs_bmap_get_nolock(s, f, index, create)
           x == IF create THEN BlockMore(g.fs, f) ELSE g.fs
           r == sfs_bmap_load_nolock(s, f, index)
<1>1. s \in FsState /\ blocks \in 0 .. NDIRECT + NENTRY
  <2>1. s \in FsState /\ s.sin[f].din \in Din
    BY RefsFacts DEF Blocks, Cur
  <2> QED
    BY <2>1, DinFields
<1>2. create \in BOOLEAN /\ (create <=> index = blocks)
  OBVIOUS
<1>3. r = IF Stopped(g) THEN g ELSE AssertInuse(g, x, f)
  <2>1. ~ (index > blocks)
    BY <1>1, Sizes
  <2> QED
    BY <2>1 DEF sfs_bmap_load_nolock, BlockMore, AssertInuse
<1>4. x = IF index = blocks THEN BlockMore(g.fs, f) ELSE g.fs
  OBVIOUS
<1>14. g = sfs_bmap_get_nolock(s, f, index, create)
  OBVIOUS
<1> HIDE DEF create, g, x, r
<1>5. Got(g, s, f, index, create)
  BY <1>2, <1>14, GetBlock
<1>6. /\ Same(g.fs, s, f) /\ Blocks(g.fs) /\ g.fs.panic = s.panic
      /\ g.fs.sin[f].din.blocks = blocks /\ g.ret \in {OK, E_NO_MEM}
      /\ g.ret = OK => g.ino = Refs(g.fs)[<<f, index>>]
      /\ Refs(s)[<<f, index>>] # none \/ ~create => g.ret = OK /\ g.fs = s
      /\ create /\ g.ret = OK => g.ino # none
      /\ \A k \in Place : Refs(s)[<<f, k>>] # none => Refs(g.fs)[<<f, k>>] # none
      /\ g = Res(g.fs, g.ret, g.ino)
  BY <1>5 DEF Got
<1>7. Covered(g.fs, f)
  BY <1>6, Sizes DEF Covered
<1>10. SameData(g.fs, s)
  BY <1>5, GotData
<1>15. Stopped(g) <=> g.ret # OK
  BY <1>6 DEF Stopped
<1>8. CASE g.ret # OK
  <2>1. r = g /\ index = blocks
    BY <1>2, <1>3, <1>6, <1>8, <1>15
  <2>2. ~ (index < blocks)
    BY <1>1, <2>1
  <2> QED
    BY <1>6, <1>7, <1>8, <1>10, <2>1, <2>2 DEF Loaded, r
<1>9. CASE g.ret = OK
  <2>1. g.ino \in Block /\ g.ino \notin g.fs.freemap /\ g.ino # none
    <3>1. g.fs \in FsState /\ Exact(Refs(g.fs), g.fs.freemap) /\ <<f, index>> \in Places_
      BY <1>6, Sizes DEF Blocks, Places_
    <3>2. g.ino # none
      <4>1. CASE create
        BY <1>6, <1>9, <4>1
      <4>2. CASE ~create
        <5>1. index < blocks
          BY <1>1, <1>2, <4>2, Sizes
        <5>2. Refs(g.fs)[<<f, index>>] # none
          BY <1>6, <1>7, <5>1 DEF Covered
        <5> QED
          BY <1>6, <1>9, <5>2
      <4> QED
        BY <4>1, <4>2
    <3> QED
      BY <1>6, <1>9, <3>1, <3>2 DEF Exact
  <2>2. sfs_block_inuse(g.fs, g.ino)
    BY <2>1 DEF sfs_block_inuse
  <2>3. assert(x, f, sfs_block_inuse(g.fs, g.ino)) = x
    BY <2>2 DEF assert
  <2>4. r = Res(x, OK, g.ino)
    <3>1. r = [g EXCEPT !.fs = assert(x, f, sfs_block_inuse(@, g.ino))]
      BY <1>3, <1>9, <1>15 DEF AssertInuse
    <3>2. r = [Res(g.fs, g.ret, g.ino) EXCEPT !.fs = assert(x, f, sfs_block_inuse(@, g.ino))]
      BY <1>6, <3>1
    <3>3. r = Res(assert(x, f, sfs_block_inuse(g.fs, g.ino)), g.ret, g.ino)
      BY <3>2 DEF Res
    <3> QED
      BY <1>9, <2>3, <3>3
  <2>5. r = Res(r.fs, r.ret, r.ino) /\ r.fs = x /\ r.ret = OK /\ r.ino = g.ino
    BY <2>4 DEF Res
  <2>6. CASE index < blocks
    <3>1. ~create /\ x = g.fs
      BY <1>1, <1>2, <1>4, <2>6, Sizes
    <3>2. x = s
      BY <1>6, <3>1
    <3> QED
      BY <1>1, <1>6, <1>7, <1>9, <1>10, <2>1, <2>5, <2>6, <3>1, <3>2, Sizes DEF Loaded, r
  <2>7. CASE ~ (index < blocks)
    <3>1. create /\ index = blocks /\ x = BlockMore(g.fs, f) /\ g.fs.sin[f] # NULL
      BY <1>1, <1>2, <1>4, <1>6, <2>7, Sizes DEF Same
    <3>2. OneMore(x, g.fs, f)
      <4>1. g.fs \in FsState /\ g.fs.sin[f].din.blocks < NDIRECT + NENTRY
        <5>1. index < NDIRECT + NENTRY
          BY Sizes DEF Index
        <5>2. g.fs.sin[f].din.blocks = index
          BY <1>6, <3>1
        <5> QED
          BY <1>6, <5>1, <5>2 DEF Blocks
      <4> QED
        BY <3>1, <4>1, MoreBlocks
    <3>3. PICK m \in Din :
            /\ Changed(x, g.fs, f, m, g.fs.sin[f].dirty)
            /\ m.size = g.fs.sin[f].din.size /\ m.blocks = blocks + 1
            /\ m.direct = g.fs.sin[f].din.direct /\ m.indirect = g.fs.sin[f].din.indirect
      BY <1>6, <3>2 DEF OneMore
    <3>4. Refs(x) = Refs(g.fs) /\ Blocks(x)
      BY <1>6, <3>1, <3>3, InodeRefs
    <3>5. Same(x, g.fs, f) /\ x.panic = s.panic /\ x.sin[f].din.blocks = blocks + 1
      BY <1>6, <3>3, <3>4 DEF Same, Changed
    <3>6. Same(x, s, f)
      BY <1>6, <3>5, SameAgain
    <3>7. Covered(x, f)
      <4>1. ASSUME NEW i \in Index, i < blocks + 1
            PROVE  Refs(x)[<<f, i>>] # none
        <5>1. CASE i < blocks
          BY <1>6, <1>7, <3>4, <5>1 DEF Covered
        <5>2. CASE ~ (i < blocks)
          <6>1. i = index
            BY <1>1, <3>1, <4>1, <5>2, Sizes
          <6> QED
            BY <1>6, <1>9, <2>1, <3>4, <6>1
        <5> QED
          BY <5>1, <5>2
      <4> QED
        BY <3>5, <4>1 DEF Covered
    <3>8. SameData(x, s) /\ g.ino = Refs(x)[<<f, index>>]
      <4>1. SameData(x, g.fs)
        BY <3>3, <3>4, RefsData DEF Changed
      <4> QED
        BY <1>6, <1>9, <1>10, <3>4, <4>1, DataAgain
    <3> QED
      BY <2>1, <2>5, <2>7, <3>1, <3>4, <3>5, <3>6, <3>7, <3>8 DEF Loaded, r
  <2> QED
    BY <2>6, <2>7
<1> QED
  BY <1>8, <1>9

----------------------------------------------------------------------------
(* The last block of a file is freed *)

\* A freed block is named no more by the entry i of the indirect block e of f.
LEMMA EntFreed ==
    ASSUME NEW s, Blocks(s), NEW f \in File, s.sin[f] # NULL, NEW e \in Block,
           s.sin[f].din.indirect = e, NEW i \in 0 .. NENTRY - 1,
           NEW y, FreedIs(y, s, Refs(s)[<<f, NDIRECT + i>>]), NEW x, EntIs(x, y, e, i, none)
    PROVE  PutAt(x, s, f, NDIRECT + i, none)
<1> DEFINE k == NDIRECT + i
<1>1. /\ s \in FsState /\ x \in FsState /\ x.sin = s.sin /\ x.din = s.din /\ e # none
      /\ Cur(s, f).indirect = e
      /\ k \in Place /\ ~ (k < NDIRECT) /\ k # NDIRECT + NENTRY /\ k - NDIRECT = i
  BY Sizes DEF EntIs, FreedIs, Blocks, Place, Cur
<1>2. /\ \A g \in File : Cur(x, g) = Cur(s, g)
      /\ \A c \in Block \ {e} : x.ents[c] = s.ents[c]
      /\ \A j \in 0 .. NENTRY - 1 : x.ents[e][j] = IF j = i THEN none ELSE s.ents[e][j]
  BY <1>1 DEF EntIs, FreedIs, Cur
<1>3. ASSUME NEW g \in File \ {f}
      PROVE  \A j \in Place : Refs(x)[<<g, j>>] = Refs(s)[<<g, j>>]
  <2>1. Cur(x, g) = Cur(s, g) /\ Cur(s, g) \in Din
    BY <1>1, <1>2, RefsFacts
  <2>2. Cur(s, g).indirect # e
    BY <1>1, IndirectOwn
  <2>3. Cur(s, g).indirect \in Block \cup {none}
    BY <2>1, DinFields
  <2>4. Cur(s, g).indirect # none => x.ents[Cur(s, g).indirect] = s.ents[Cur(s, g).indirect]
    BY <1>2, <2>2, <2>3
  <2> QED
    BY <2>1, <2>4, SameRefs
<1>4. ASSUME NEW j \in Place
      PROVE  Refs(x)[<<f, j>>] = IF j = k THEN none ELSE Refs(s)[<<f, j>>]
  <2>1. /\ Refs(x)[<<f, j>>] = BlockOf(Cur(s, f), x.ents, j)
        /\ Refs(s)[<<f, j>>] = BlockOf(Cur(s, f), s.ents, j)
    BY <1>1, <1>2, RefsFacts
  <2>2. CASE j < NDIRECT
    <3>1. j # k
      BY <1>1, <2>2
    <3> QED
      BY <2>1, <2>2, <3>1 DEF BlockOf
  <2>3. CASE ~ (j < NDIRECT) /\ j = NDIRECT + NENTRY
    <3>1. j # k
      BY <1>1, <2>3
    <3> QED
      BY <2>1, <2>3, <3>1 DEF BlockOf
  <2>4. CASE ~ (j < NDIRECT) /\ j # NDIRECT + NENTRY
    <3>1. j - NDIRECT \in 0 .. NENTRY - 1 /\ (j - NDIRECT = i <=> j = k)
      BY <2>4, Sizes
    <3>2. x.ents[e][j - NDIRECT] = IF j - NDIRECT = i THEN none ELSE s.ents[e][j - NDIRECT]
      BY <1>2, <3>1
    <3>3. /\ Refs(x)[<<f, j>>] = x.ents[e][j - NDIRECT]
          /\ Refs(s)[<<f, j>>] = s.ents[e][j - NDIRECT]
      BY <1>1, <2>1, <2>4 DEF BlockOf
    <3> HIDE DEF k
    <3> QED
      BY <3>1, <3>2, <3>3
  <2> QED
    BY <2>2, <2>3, <2>4
<1> QED
  BY <1>3, <1>4 DEF PutAt

\* The same of the entry i of the inode.
LEMMA DirectFreed ==
    ASSUME NEW s, Blocks(s), NEW f \in File, s.sin[f] # NULL, NEW i \in 0 .. NDIRECT - 1,
           NEW b, NEW y, FreedIs(y, s, b), NEW x, DirectIs(x, y, f, i, none)
    PROVE  PutAt(x, s, f, i, none)
<1> DEFINE n == s.sin[f].din
<1>1. PICK m \in Din :
        /\ Changed(x, y, f, m, TRUE) /\ m.indirect = n.indirect
        /\ \A j \in 0 .. NDIRECT - 1 : m.direct[j] = IF j = i THEN none ELSE n.direct[j]
  <2>1. y.sin[f].din = n
    BY DEF FreedIs
  <2> HIDE DEF n
  <2> QED
    BY <2>1 DEF DirectIs
<1>2. /\ x \in FsState /\ s \in FsState /\ x.ents = s.ents /\ Cur(x, f) = m /\ Cur(s, f) = n
  BY <1>1 DEF FreedIs, Changed, Blocks, Cur
<1>3. \A g \in File \ {f} : Cur(x, g) = Cur(s, g)
  BY <1>1 DEF FreedIs, Changed, Cur
<1> HIDE DEF n
<1>4. ASSUME NEW g \in File \ {f}
      PROVE  \A j \in Place : Refs(x)[<<g, j>>] = Refs(s)[<<g, j>>]
  BY <1>2, <1>3, SameRefs
<1>5. ASSUME NEW j \in Place
      PROVE  Refs(x)[<<f, j>>] = IF j = i THEN none ELSE Refs(s)[<<f, j>>]
  <2>1. /\ Refs(x)[<<f, j>>] = BlockOf(m, s.ents, j)
        /\ Refs(s)[<<f, j>>] = BlockOf(n, s.ents, j)
    BY <1>2, RefsFacts
  <2>2. CASE j < NDIRECT
    <3>1. j \in 0 .. NDIRECT - 1
      BY <2>2, Sizes DEF Place
    <3> QED
      BY <1>1, <2>1, <2>2, <3>1 DEF BlockOf
  <2>3. CASE ~ (j < NDIRECT)
    <3>1. j # i
      BY <2>3, Sizes
    <3> QED
      BY <1>1, <2>1, <2>3, <3>1 DEF BlockOf
  <2> QED
    BY <2>2, <2>3
<1> QED
  BY <1>4, <1>5 DEF PutAt

\* sfs_bmap_free_nolock of a block that is there.
Dropped(x, s, f, index) ==
    /\ Blocks(x) /\ PutAt(x, s, f, index, none) /\ Same(x, s, f)
    /\ x.panic = s.panic /\ x.sin[f].din.blocks = s.sin[f].din.blocks
    /\ x.data = s.data

\* sfs_bmap_free_nolock of a block that is there.
LEMMA Drop ==
    ASSUME NEW s, Blocks(s), NEW f \in File, s.sin[f] # NULL, NEW index \in Index,
           Refs(s)[<<f, index>>] # none, NEW x, x = sfs_bmap_free_nolock(s, f, index)
    PROVE  Dropped(x, s, f, index)
<1> DEFINE n == s.sin[f].din
           b == Refs(s)[<<f, index>>]
           y == sfs_block_free(s, f, b)
           e == n.indirect
           i == index - NDIRECT
<1>1. /\ s \in FsState /\ s.unused_blocks = Cardinality(s.freemap) /\ Cur(s, f) = n
      /\ index \in Place /\ n \in Din /\ s.sin[f] \in Sin
  BY RefsFacts, Sizes, FsFields DEF Blocks, Cur
<1>2. b = BlockOf(n, s.ents, index) /\ index # NDIRECT + NENTRY
  BY <1>1, RefsFacts, Sizes
<1>3. b \in Block \ s.freemap
  BY <1>1 DEF Blocks, Exact, Places_
<1>4. y = sfs_block_free(s, f, b) /\ b = Refs(s)[<<f, index>>]
  OBVIOUS
<1> HIDE DEF y, b
<1>5. FreedIs(y, s, b)
  BY <1>1, <1>3, <1>4, Free
<1>6. /\ y \in FsState /\ y.unused_blocks = Cardinality(y.freemap)
      /\ y.freemap = s.freemap \cup {b} /\ y.super_dirty = TRUE /\ y.sin = s.sin
      /\ y.din = s.din /\ y.super = s.super /\ y.panic = s.panic /\ y.data = s.data
  BY <1>5 DEF FreedIs
<1>7. /\ x \in FsState /\ x.unused_blocks = Cardinality(x.freemap)
      /\ x.freemap = s.freemap \cup {b} /\ x.super_dirty = TRUE
      /\ x.din = s.din /\ x.super = s.super /\ x.panic = s.panic /\ x.data = s.data
      /\ PutAt(x, s, f, index, none)
      /\ x.sin[f] # NULL /\ x.sin[f].ref_count = s.sin[f].ref_count
      /\ x.sin[f].din.size = n.size /\ x.sin[f].din.blocks = n.blocks
      /\ \A g \in File \ {f} : x.sin[g] = s.sin[g]
      /\ ~x.sin[f].dirty => /\ ~s.sin[f].dirty
                            /\ x.sin[f].din.direct = n.direct
                            /\ x.sin[f].din.indirect = n.indirect
  <2>1. CASE index < NDIRECT
    <3>1. index \in 0 .. NDIRECT - 1 /\ none \in Block \cup {none}
      BY <2>1, Sizes
    <3>2. b = n.direct[index]
      BY <1>2, <2>1 DEF BlockOf
    <3>3. x = DirectSet(y, f, index, none)
      BY <1>3, <1>4, <2>1, <3>2, Sizes DEF sfs_bmap_free_nolock, DirectSet
    <3>4. DirectIs(x, y, f, index, none)
      BY <1>6, <3>1, <3>3, SetDirect
    <3>5. PutAt(x, s, f, index, none)
      BY <1>5, <3>1, <3>4, DirectFreed
    <3>6. PICK m \in Din : /\ Changed(x, y, f, m, TRUE)
                           /\ m.size = n.size /\ m.blocks = n.blocks
      BY <1>6, <3>4 DEF DirectIs
    <3> QED
      BY <1>6, <3>5, <3>6 DEF Changed
  <2>2. CASE ~ (index < NDIRECT)
    <3>1. i \in 0 .. NENTRY - 1 /\ NDIRECT + i = index
      BY <2>2, Sizes
    <3>2. e # none /\ b = s.ents[e][i] /\ e \in Block
      <4>1. e # none /\ b = s.ents[e][i]
        BY <1>2, <1>4, <2>2 DEF BlockOf
      <4> QED
        BY <1>1, <4>1, DinFields
    <3>3. x = EntSet(y, e, i, none)
      BY <1>3, <1>4, <2>2, <3>2, Sizes DEF sfs_bmap_free_nolock, EntSet
    <3>4. EntIs(x, y, e, i, none)
      <4>1. none \in Block \cup {none}
        OBVIOUS
      <4> HIDE DEF e, i
      <4> QED
        BY <1>6, <3>1, <3>2, <3>3, <4>1, SetEnt
    <3>5. PutAt(x, s, f, index, none)
      <4>1. s.sin[f].din.indirect = e /\ FreedIs(y, s, Refs(s)[<<f, NDIRECT + i>>])
        BY <1>4, <1>5, <3>1
      <4> HIDE DEF e, i
      <4>2. PutAt(x, s, f, NDIRECT + i, none)
        BY <3>1, <3>2, <3>4, <4>1, EntFreed
      <4> QED
        BY <3>1, <4>2
    <3>6. x.sin = s.sin /\ x.super_dirty = TRUE /\ x \in FsState
          /\ x.unused_blocks = Cardinality(x.freemap) /\ x.freemap = s.freemap \cup {b}
          /\ x.din = s.din /\ x.super = s.super /\ x.panic = s.panic /\ x.data = s.data
      BY <1>6, <3>4 DEF EntIs
    <3> QED
      BY <3>5, <3>6
  <2> QED
    BY <2>1, <2>2
<1>8. Blocks(x)
  BY <1>1, <1>4, <1>7, PlaceGiven
<1>9. Same(x, s, f)
  BY <1>7 DEF Same, PutAt
<1> QED
  BY <1>7, <1>8, <1>9 DEF Dropped

\* The block of f at the index b is gone, and what was in it.
LEMMA TrimOne ==
    ASSUME NEW s, NEW y, NEW x, NEW f \in File, NEW b \in Index, PutAt(y, s, f, b, none),
           Refs(x) = Refs(y), x.data = s.data
    PROVE  Trimmed(x, s, f, b)
<1>1. ASSUME NEW g \in File \ {f}, NEW i \in Index
      PROVE  Content(x, g, i) = Content(s, g, i)
  <2>1. Refs(x)[<<g, i>>] = Refs(s)[<<g, i>>]
    BY Sizes DEF PutAt
  <2> QED
    BY <2>1 DEF Content
<1>2. ASSUME NEW i \in Index
      PROVE  Content(x, f, i) = IF i = b THEN Zero ELSE Content(s, f, i)
  <2>1. Refs(x)[<<f, i>>] = IF i = b THEN none ELSE Refs(s)[<<f, i>>]
    BY Sizes DEF PutAt
  <2> QED
    BY <2>1 DEF Content
<1>3. ASSUME NEW i \in Index, i < b
      PROVE  i # b
  BY <1>3, Sizes
<1> QED
  BY <1>1, <1>2, <1>3 DEF Trimmed, OthersData

\* sfs_bmap_truncate_nolock of a file with blocks.
Truncated(x, s, f) ==
    /\ Same(x, s, f) /\ Blocks(x) /\ Covered(x, f) /\ x.panic = s.panic
    /\ x.sin[f].din.blocks = s.sin[f].din.blocks - 1 /\ x.sin[f].dirty
    /\ Trimmed(x, s, f, s.sin[f].din.blocks - 1)

\* sfs_bmap_truncate_nolock of a file with blocks.
LEMMA Truncate ==
    ASSUME NEW s, Blocks(s), NEW f \in File, s.sin[f] # NULL, Covered(s, f),
           s.sin[f].din.blocks > 0, NEW x, x = sfs_bmap_truncate_nolock(s, f)
    PROVE  Truncated(x, s, f)
<1> DEFINE blocks == s.sin[f].din.blocks
           index == blocks - 1
           y == sfs_bmap_free_nolock(s, f, index)
<1>1. s \in FsState /\ blocks \in 0 .. NDIRECT + NENTRY
  <2>1. s \in FsState /\ s.sin[f].din \in Din
    BY RefsFacts DEF Blocks, Cur
  <2> QED
    BY <2>1, DinFields
<1>2. index \in Index /\ index < blocks
  BY <1>1, Sizes DEF Index
<1>3. Refs(s)[<<f, index>>] # none
  BY <1>2 DEF Covered
<1>4. x = BlockLess(y, f) /\ y = sfs_bmap_free_nolock(s, f, index)
  BY DEF sfs_bmap_truncate_nolock, BlockLess
<1> HIDE DEF y
<1>5. Dropped(y, s, f, index)
  BY <1>2, <1>3, <1>4, Drop
<1>6. /\ y \in FsState /\ y.sin[f] # NULL /\ y.sin[f].din.blocks = blocks /\ Blocks(y)
      /\ Same(y, s, f) /\ y.panic = s.panic
      /\ \A j \in Place : Refs(y)[<<f, j>>] = IF j = index THEN none ELSE Refs(s)[<<f, j>>]
  BY <1>5 DEF Dropped, Same, PutAt
<1>7. OneLess(x, y, f)
  BY <1>4, <1>6, LessBlocks
<1>8. PICK m \in Din :
        /\ Changed(x, y, f, m, TRUE)
        /\ m.size = y.sin[f].din.size /\ m.blocks = blocks - 1
        /\ m.direct = y.sin[f].din.direct /\ m.indirect = y.sin[f].din.indirect
  BY <1>6, <1>7 DEF OneLess
<1>9. Refs(x) = Refs(y) /\ Blocks(x)
  BY <1>6, <1>8, InodeRefs
<1>10. /\ Same(x, y, f) /\ x.panic = s.panic /\ x.sin[f].din.blocks = blocks - 1
       /\ x.sin[f].dirty
  BY <1>6, <1>8, <1>9 DEF Same, Changed
<1>11. Same(x, s, f)
  BY <1>6, <1>10, SameAgain
<1>12. Covered(x, f)
  <2>1. ASSUME NEW i \in Index, i < blocks - 1
        PROVE  Refs(x)[<<f, i>>] # none
    <3>1. i \in Place /\ i # index /\ i < blocks
      BY <1>1, <2>1, Sizes
    <3> QED
      BY <1>6, <1>9, <3>1 DEF Covered
  <2> QED
    BY <1>10, <2>1 DEF Covered
<1>13. Trimmed(x, s, f, index)
  <2>1. x.data = s.data /\ PutAt(y, s, f, index, none) /\ Refs(x) = Refs(y)
    BY <1>5, <1>8, <1>9 DEF Dropped, Changed
  <2> QED
    BY <1>2, <2>1, TrimOne
<1> QED
  BY <1>9, <1>10, <1>11, <1>12, <1>13 DEF Truncated

----------------------------------------------------------------------------
(* The kernel stops *)

\* The kernel has stopped in x, and p says why.
Panicked(x, s, p) ==
    /\ x \in FsState /\ x.panic = p
    /\ x.freemap = s.freemap /\ x.unused_blocks = s.unused_blocks
    /\ x.super_dirty = s.super_dirty /\ x.sin = s.sin /\ x.din = s.din /\ x.super = s.super
    /\ x.data = s.data /\ x.ents = s.ents

\* That is all a panic changes.
LEMMA PanicSet ==
    ASSUME NEW s \in FsState, NEW p \in File \cup {OUT_OF_RANGE},
           NEW x, x = [s EXCEPT !.panic = p]
    PROVE  Panicked(x, s, p)
<1>1. /\ s = FsRec(s.freemap, s.unused_blocks, s.super_dirty, s.sin, s.din, s.super,
                   s.data, s.ents, s.panic)
      /\ s.freemap \in SUBSET Block /\ s.unused_blocks \in 0 .. BLOCKS
      /\ s.super_dirty \in BOOLEAN
      /\ s.sin \in [File -> Sin \cup {NULL}] /\ s.din \in [File -> Din]
      /\ s.super \in [freemap : SUBSET Block, unused_blocks : 0 .. BLOCKS]
      /\ s.data \in [Block -> {Zero} \cup (File \X Index)]
      /\ s.ents \in [Block -> [0 .. NENTRY - 1 -> Block \cup {none}]]
      /\ p \in File \cup {NULL, OUT_OF_RANGE}
  BY FsFields
<1>3. x = FsRec(s.freemap, s.unused_blocks, s.super_dirty, s.sin, s.din, s.super,
                s.data, s.ents, p)
  <2>1. x = [FsRec(s.freemap, s.unused_blocks, s.super_dirty, s.sin, s.din, s.super,
                   s.data, s.ents, s.panic) EXCEPT !.panic = p]
    BY <1>1
  <2> QED
    BY <2>1 DEF FsRec
<1>4. /\ x \in FsState
      /\ x.freemap = s.freemap /\ x.unused_blocks = s.unused_blocks
      /\ x.super_dirty = s.super_dirty /\ x.sin = s.sin
      /\ x.din = s.din /\ x.super = s.super /\ x.data = s.data /\ x.ents = s.ents
      /\ x.panic = p
  BY ONLY <1>1, <1>3, FsMake
<1> QED
  BY <1>4 DEF Panicked

\* An assert fails for f.
LEMMA AssertFails ==
    ASSUME NEW s \in FsState, s.panic = NULL, NEW f \in File, NEW c \in BOOLEAN, ~c,
           NEW x, x = assert(s, f, c)
    PROVE  Panicked(x, s, f)
<1>1. x = [s EXCEPT !.panic = f]
  BY DEF assert
<1> QED
  BY <1>1, PanicSet

\* The places are where they were.
LEMMA PanickedRefs ==
    ASSUME NEW s, NEW x, NEW p, Panicked(x, s, p)
    PROVE  /\ Refs(x) = Refs(s) /\ \A g \in File : Cur(x, g) = Cur(s, g)
           /\ Blocks(s) => Blocks(x)
<1>1. x.ents = s.ents /\ \A g \in File : Cur(x, g) = Cur(s, g)
  BY DEF Panicked, Cur
<1>2. Refs(x) = Refs(s)
  <2>1. ASSUME NEW z \in Places_
        PROVE  Refs(x)[z] = Refs(s)[z]
    <3>1. z[1] \in File
      BY DEF Places_
    <3> QED
      BY <1>1, <3>1 DEF Refs
  <2> QED
    BY <2>1 DEF Refs
<1> QED
  BY <1>1, <1>2 DEF Blocks, Panicked

\* Nor does it change what the files hold.
LEMMA PanickedData ==
    ASSUME NEW s, NEW x, NEW p, Panicked(x, s, p)
    PROVE  SameData(x, s)
  BY PanickedRefs, RefsData DEF Panicked

\* The reasons differ.
LEMMA Reasons == NULL # OUT_OF_RANGE /\ \A f \in File : f # NULL /\ f # OUT_OF_RANGE
  BY SfsAssumption

\* The inode of f has no entry that is not counted.
Full(x, f) == x.sin[f].din.blocks = NDIRECT + NENTRY

\* sfs_bmap_load_nolock of the block behind the last one that an inode has an entry for.
LEMMA LoadOutside ==
    ASSUME NEW s \in FsState, NEW f \in File, Full(s, f),
           NEW index, index = NDIRECT + NENTRY,
           NEW l, l = sfs_bmap_load_nolock(s, f, index)
    PROVE  l = Res(l.fs, OK, none) /\ l.ret = OK /\ Panicked(l.fs, s, OUT_OF_RANGE)
<1>1. /\ index \in Nat /\ ~ (index > s.sin[f].din.blocks) /\ ~ (index < NDIRECT)
      /\ index \notin NDIRECT .. NDIRECT + NENTRY - 1
  BY Sizes DEF Full
<1> DEFINE create == index = s.sin[f].din.blocks
           x == [s EXCEPT !.panic = OUT_OF_RANGE]
           g == sfs_bmap_get_nolock(s, f, index, create)
<1>2. g = Res(x, OK, none)
  BY <1>1, Zenon DEF sfs_bmap_get_nolock, Res
<1>3. Panicked(x, s, OUT_OF_RANGE)
  BY PanicSet
<1> HIDE DEF x
<1>4. Stopped(g) /\ g.ret = OK /\ g.fs = x
  BY <1>2, <1>3, SfsAssumption DEF Stopped, Res, Panicked
<1>5. l = g
  BY <1>1, <1>4 DEF sfs_bmap_load_nolock
<1> QED
  BY <1>2, <1>3, <1>4, <1>5

\* What sfs_bmap_load_nolock stops at: the index is behind the end of the file, or is that
\* of the end and there is no entry for it.
Halts(l, y, f) ==
    /\ l.ret = OK
    /\ \E p \in {f, OUT_OF_RANGE} :
            Panicked(l.fs, y, p) /\ (p = OUT_OF_RANGE => Full(y, f))

\* It does stop there.
LEMMA LoadHalts ==
    ASSUME NEW y, Blocks(y), y.panic = NULL, NEW f \in File, y.sin[f] # NULL,
           NEW index \in Nat, index > y.sin[f].din.blocks \/ index \notin Index,
           NEW l, l = sfs_bmap_load_nolock(y, f, index)
    PROVE  Halts(l, y, f)
<1>1. y \in FsState /\ y.sin[f].din.blocks \in 0 .. NDIRECT + NENTRY
  <2>1. y \in FsState /\ y.sin[f].din \in Din
    BY RefsFacts DEF Blocks, Cur
  <2> QED
    BY <2>1, DinFields
<1>2. CASE index > y.sin[f].din.blocks
  <2>1. l = [fs |-> assert(y, f, FALSE), ret |-> OK, ino |-> none]
    BY <1>2 DEF sfs_bmap_load_nolock
  <2> DEFINE t == FALSE
  <2>2. t \in BOOLEAN /\ ~t /\ l.fs = assert(y, f, t) /\ l.ret = OK
    BY <2>1
  <2> HIDE DEF t
  <2>3. Panicked(l.fs, y, f)
    BY <1>1, <2>2, AssertFails
  <2> QED
    BY <2>2, <2>3, Reasons DEF Halts
<1>3. CASE ~ (index > y.sin[f].din.blocks)
  <2>1. index = NDIRECT + NENTRY /\ Full(y, f)
    BY <1>1, <1>3, Sizes DEF Index, Full
  <2>2. l.ret = OK /\ Panicked(l.fs, y, OUT_OF_RANGE)
    BY <1>1, <2>1, LoadOutside
  <2> QED
    BY <2>1, <2>2 DEF Halts
<1> QED
  BY <1>2, <1>3

----------------------------------------------------------------------------
(* A file is grown and shrunk, block by block *)

\* x is s after blocks of f were added, up to where the disk or the inode was full or an
\* assert failed.
Kept(x, s, f) ==
    /\ Same(x, s, f) /\ Blocks(x) /\ Covered(x, f)
    /\ x.panic \in {s.panic, f, OUT_OF_RANGE} /\ (x.panic = OUT_OF_RANGE => Full(x, f))
    /\ x.sin[f].din.blocks >= s.sin[f].din.blocks

\* Blocks were added, then the kernel stopped.
LEMMA KeptPanicked ==
    ASSUME NEW f \in File, NEW s, NEW y, Kept(y, s, f), NEW p \in {f, OUT_OF_RANGE},
           p = OUT_OF_RANGE => Full(y, f), NEW x, Panicked(x, y, p)
    PROVE  Kept(x, s, f) /\ x.panic = p
<1>1. Refs(x) = Refs(y) /\ Blocks(x)
  BY PanickedRefs DEF Kept
<1>2. Same(x, y, f)
  BY <1>1 DEF Same, Panicked, Kept
<1>3. Same(x, s, f)
  BY <1>2, SameAgain DEF Kept
<1>4. Covered(x, f) /\ x.panic = p /\ x.sin = y.sin
  BY <1>1 DEF Covered, Panicked, Kept
<1> QED
  BY <1>1, <1>3, <1>4 DEF Kept, Full

GrowStep(f, n, r) == IF Stopped(r) THEN r ELSE sfs_bmap_load_nolock(r.fs, f, n - 1)
GrowEq(g, s, f, b, t) ==
    g = [n \in b .. t |-> IF n = b THEN Res(s, OK, none) ELSE GrowStep(f, n, g[n - 1])]

\* The recursion that grown is defined by has a solution,
LEMMA GrowExists ==
    ASSUME NEW s, NEW f, NEW b \in Nat, NEW t \in Nat, b <= t
    PROVE  \E g : GrowEq(g, s, f, b, t)
<1> DEFINE Q == {k \in b .. t : \E g : GrowEq(g, s, f, b, k)}
<1>1. b \in Q
  <2> DEFINE g == [n \in b .. b |-> Res(s, OK, none)]
  <2>1. GrowEq(g, s, f, b, b)
    BY DEF GrowEq
  <2> QED
    BY <2>1
<1>2. ASSUME NEW k \in b + 1 .. t, k - 1 \in Q
      PROVE  k \in Q
  <2>1. PICK g : GrowEq(g, s, f, b, k - 1)
    BY <1>2
  <2> DEFINE h == [n \in b .. k |-> IF n = k THEN GrowStep(f, n, g[n - 1]) ELSE g[n]]
  <2>2. ASSUME NEW n \in b .. k
        PROVE  h[n] = IF n = b THEN Res(s, OK, none) ELSE GrowStep(f, n, h[n - 1])
    <3>1. CASE n = b
      <4>1. n # k /\ n \in b .. k - 1
        BY <1>2, <3>1
      <4> QED
        BY <2>1, <3>1, <4>1 DEF GrowEq
    <3>2. CASE n # b
      <4>1. n - 1 \in b .. k /\ n - 1 # k
        BY <3>2
      <4>2. h[n - 1] = g[n - 1]
        BY <4>1
      <4>3. h[n] = GrowStep(f, n, g[n - 1])
        <5>1. CASE n = k
          BY <5>1
        <5>2. CASE n # k
          <6>1. n \in b .. k - 1 /\ h[n] = g[n]
            BY <5>2
          <6> QED
            BY <2>1, <3>2, <6>1 DEF GrowEq
        <5> QED
          BY <5>1, <5>2
      <4> QED
        BY <3>2, <4>2, <4>3
    <3> QED
      BY <3>1, <3>2
  <2>3. h = [n \in b .. k |-> h[n]]
    OBVIOUS
  <2> HIDE DEF h
  <2>4. GrowEq(h, s, f, b, k)
    BY <2>2, <2>3 DEF GrowEq
  <2> QED
    BY <2>4
<1>3. t \in b .. t
  OBVIOUS
<1> HIDE DEF Q
<1>4. t \in Q
  BY <1>1, <1>2, <1>3, Along
<1> QED
  BY <1>4 DEF Q

\* which grown returns the last value of.
LEMMA GrownIs ==
    ASSUME NEW s, NEW f, NEW b \in Nat, b = s.sin[f].din.blocks, NEW t \in Nat, b <= t
    PROVE  \E g : GrowEq(g, s, f, b, t) /\ grown(s, f, t) = g[t]
<1> DEFINE blocks == s.sin[f].din.blocks
           upto[n \in blocks .. t] ==
                IF n = blocks THEN [fs |-> s, ret |-> OK, ino |-> none]
                ELSE IF Stopped(upto[n - 1]) THEN upto[n - 1]
                ELSE sfs_bmap_load_nolock(upto[n - 1].fs, f, n - 1)
<1>1. PICK g : GrowEq(g, s, f, b, t)
  BY GrowExists
<1>2. g = [n \in blocks .. t |->
                IF n = blocks THEN [fs |-> s, ret |-> OK, ino |-> none]
                ELSE IF Stopped(g[n - 1]) THEN g[n - 1]
                ELSE sfs_bmap_load_nolock(g[n - 1].fs, f, n - 1)]
  BY <1>1 DEF GrowEq, GrowStep, Res
<1>3. upto = [n \in blocks .. t |->
                IF n = blocks THEN [fs |-> s, ret |-> OK, ino |-> none]
                ELSE IF Stopped(upto[n - 1]) THEN upto[n - 1]
                ELSE sfs_bmap_load_nolock(upto[n - 1].fs, f, n - 1)]
  BY <1>2, Zenon DEF upto
<1>4. grown(s, f, t) = upto[t]
  BY DEF grown
<1> HIDE DEF upto
<1>5. GrowEq(upto, s, f, b, t)
  BY <1>3 DEF GrowEq, GrowStep, Res
<1> QED
  BY <1>4, <1>5

\* What growing to n blocks gives: these, or the ones before the disk or the inode was full.
Growth(r, s, f, n) ==
    /\ Kept(r.fs, s, f) /\ SameData(r.fs, s)
    /\ \/ r.ret = OK /\ r.fs.panic = NULL /\ r.fs.sin[f].din.blocks = n
       \/ r.ret = E_NO_MEM /\ r.fs.panic = NULL
       \/ r.ret = OK /\ r.fs.panic = OUT_OF_RANGE

\* The blocks that sfs_truncfile adds.
LEMMA Grown ==
    ASSUME NEW s, Blocks(s), s.panic = NULL, NEW f \in File, s.sin[f] # NULL, Covered(s, f),
           NEW t \in Nat, s.sin[f].din.blocks <= t,
           NEW r, r = grown(s, f, t)
    PROVE  Growth(r, s, f, t)
<1> DEFINE b == s.sin[f].din.blocks
           P(n, q) == Growth(q, s, f, n)
<1>1. s \in FsState /\ b \in Nat /\ t \in Nat /\ b <= t
  <2>1. s \in FsState /\ s.sin[f].din \in Din
    BY RefsFacts DEF Blocks, Cur
  <2> QED
    BY <2>1, DinFields, Sizes
<1>2. PICK g : GrowEq(g, s, f, b, t) /\ r = g[t]
  BY <1>1, GrownIs
<1>3. /\ g[b] = Res(s, OK, none)
      /\ \A n \in b + 1 .. t : g[n] = GrowStep(f, n, g[n - 1])
  <2>1. \A n \in b .. t : g[n] = IF n = b THEN Res(s, OK, none) ELSE GrowStep(f, n, g[n - 1])
    BY <1>2 DEF GrowEq
  <2>2. b \in b .. t /\ \A n \in b + 1 .. t : n \in b .. t /\ n # b
    BY <1>1
  <2> QED
    BY <2>1, <2>2
<1>4. P(b, g[b])
  <2>1. g[b].fs = s /\ g[b].ret = OK
    BY <1>3 DEF Res
  <2>2. Same(s, s, f) /\ b >= b
    BY <1>1, SameItself
  <2>3. SameData(s, s)
    BY DEF SameData
  <2> QED
    BY <2>1, <2>2, <2>3, Reasons DEF Growth, Kept
<1> DEFINE Q == {n \in b .. t : P(n, g[n])}
<1>5. ASSUME NEW n \in b + 1 .. t, n - 1 \in Q
      PROVE  n \in Q
  <2> DEFINE q == g[n - 1]
             y == q.fs
             l == g[n]
  <2>1. Growth(q, s, f, n - 1)
    BY <1>5
  <2>2. l = GrowStep(f, n, q)
    BY <1>3
  <2> HIDE DEF q, y, l
  <2>3. CASE Stopped(q)
    <3>1. l = q
      BY <2>2, <2>3 DEF GrowStep
    <3>2. Growth(q, s, f, n)
      BY <2>1, <2>3 DEF Growth, Stopped
    <3> QED
      BY <1>1, <3>1, <3>2 DEF l
  <2>4. CASE ~Stopped(q)
    <3>1. l = sfs_bmap_load_nolock(y, f, n - 1)
      BY <2>2, <2>4 DEF GrowStep, y
    <3>2. y.panic = NULL /\ n - 1 = y.sin[f].din.blocks /\ SameData(y, s) /\ Kept(y, s, f)
      <4>1. OK # E_NO_MEM
        BY DEF OK, E_NO_MEM
      <4>2. q.ret = OK /\ q.fs.panic = NULL
        BY <2>4 DEF Stopped
      <4>3. Kept(q.fs, s, f) /\ SameData(q.fs, s)
        BY <2>1 DEF Growth
      <4>4. q.fs.sin[f].din.blocks = n - 1
        BY <2>1, <4>1, <4>2, Reasons DEF Growth
      <4> QED
        BY <4>2, <4>3, <4>4 DEF y
    <3>3. Blocks(y) /\ y.sin[f] # NULL /\ Covered(y, f) /\ Same(y, s, f)
      BY <3>2 DEF Kept, Same
    <3>9. y \in FsState /\ n - 1 \in 0 .. NDIRECT + NENTRY
      <4>1. y \in FsState /\ y.sin[f].din \in Din
        BY <3>3, RefsFacts DEF Blocks, Cur
      <4> QED
        BY <3>2, <4>1, DinFields
    <3>10. CASE n - 1 = NDIRECT + NENTRY
      <4>1. l = Res(l.fs, OK, none) /\ l.ret = OK /\ Panicked(l.fs, y, OUT_OF_RANGE)
        BY <3>1, <3>2, <3>9, <3>10, LoadOutside DEF Full
      <4>2. Kept(l.fs, s, f) /\ SameData(l.fs, s) /\ l.fs.panic = OUT_OF_RANGE
        <5>1. Full(y, f) /\ Kept(y, s, f) /\ SameData(y, s)
          BY <3>2, <3>10 DEF Full
        <5>2. Kept(l.fs, s, f) /\ l.fs.panic = OUT_OF_RANGE
          BY <4>1, <5>1, KeptPanicked
        <5>3. SameData(l.fs, y)
          BY <4>1, PanickedData
        <5> QED
          BY <5>1, <5>2, <5>3, DataAgain
      <4> QED
        BY <1>1, <4>1, <4>2 DEF Growth, l
    <3>11. CASE n - 1 # NDIRECT + NENTRY
      <4>1. n - 1 \in Index /\ n - 1 <= y.sin[f].din.blocks
        BY <3>2, <3>9, <3>11, Sizes DEF Index
      <4>2. Loaded(l, y, f, n - 1)
        BY <3>1, <3>2, <3>3, <4>1, Load
      <4>3. /\ Same(l.fs, y, f) /\ Blocks(l.fs) /\ Covered(l.fs, f) /\ l.fs.panic = NULL
            /\ l.ret \in {OK, E_NO_MEM} /\ SameData(l.fs, y)
            /\ l.fs.sin[f].din.blocks = IF l.ret = OK THEN (n - 1) + 1 ELSE n - 1
        BY <3>2, <4>1, <4>2 DEF Loaded
      <4>4. Same(l.fs, s, f)
        BY <3>3, <4>3, SameAgain
      <4>5. /\ l.fs.sin[f].din.blocks >= b
            /\ l.ret = OK => l.fs.sin[f].din.blocks = n
        BY <1>1, <4>3
      <4>6. Kept(l.fs, s, f)
        BY <4>3, <4>4, <4>5, Reasons DEF Kept
      <4>7. SameData(l.fs, s)
        BY <3>2, <4>3, DataAgain
      <4> QED
        BY <1>1, <4>3, <4>5, <4>6, <4>7 DEF Growth, l
    <3> QED
      BY <3>10, <3>11
  <2> QED
    BY <2>3, <2>4
<1>6. b \in Q /\ t \in b .. t
  <2>1. b \in b .. t /\ t \in b .. t
    BY <1>1
  <2> HIDE DEF P, b
  <2> QED
    BY <1>4, <2>1
<1>7. t \in Int /\ b \in Int
  BY <1>1
<1> HIDE DEF Q, P, b
<1>8. t \in Q
  BY <1>5, <1>6, <1>7, Along
<1> QED
  BY <1>2, <1>8 DEF Q, P

\* removed[n] is s with n blocks fewer.
ShrinkEq(g, s, f, t) ==
    g = [n \in 0 .. t |-> IF n = 0 THEN s ELSE sfs_bmap_truncate_nolock(g[n - 1], f)]

\* The recursion that shrunk is defined by has a solution,
LEMMA ShrinkExists ==
    ASSUME NEW s, NEW f, NEW t \in Nat
    PROVE  \E g : ShrinkEq(g, s, f, t)
<1> DEFINE Q == {k \in 0 .. t : \E g : ShrinkEq(g, s, f, k)}
<1>1. 0 \in Q
  <2> DEFINE g == [n \in 0 .. 0 |-> s]
  <2>1. ShrinkEq(g, s, f, 0)
    BY DEF ShrinkEq
  <2> QED
    BY <2>1
<1>2. ASSUME NEW k \in 0 + 1 .. t, k - 1 \in Q
      PROVE  k \in Q
  <2>1. PICK g : ShrinkEq(g, s, f, k - 1)
    BY <1>2
  <2> DEFINE h == [n \in 0 .. k |->
                    IF n = k THEN sfs_bmap_truncate_nolock(g[n - 1], f) ELSE g[n]]
  <2>2. ASSUME NEW n \in 0 .. k
        PROVE  h[n] = IF n = 0 THEN s ELSE sfs_bmap_truncate_nolock(h[n - 1], f)
    <3>1. CASE n = 0
      <4>1. n # k /\ n \in 0 .. k - 1
        BY <1>2, <3>1
      <4> QED
        BY <2>1, <3>1, <4>1 DEF ShrinkEq
    <3>2. CASE n # 0
      <4>1. n - 1 \in 0 .. k /\ n - 1 # k
        BY <3>2
      <4>2. h[n - 1] = g[n - 1]
        BY <4>1
      <4>3. h[n] = sfs_bmap_truncate_nolock(g[n - 1], f)
        <5>1. CASE n = k
          BY <5>1
        <5>2. CASE n # k
          <6>1. n \in 0 .. k - 1 /\ h[n] = g[n]
            BY <5>2
          <6> QED
            BY <2>1, <3>2, <6>1 DEF ShrinkEq
        <5> QED
          BY <5>1, <5>2
      <4> QED
        BY <3>2, <4>2, <4>3
    <3> QED
      BY <3>1, <3>2
  <2>3. h = [n \in 0 .. k |-> h[n]]
    OBVIOUS
  <2> HIDE DEF h
  <2>4. ShrinkEq(h, s, f, k)
    BY <2>2, <2>3 DEF ShrinkEq
  <2> QED
    BY <2>4
<1>3. t \in 0 .. t /\ 0 <= t
  OBVIOUS
<1> HIDE DEF Q
<1>4. t \in Q
  BY <1>1, <1>2, <1>3, Along
<1> QED
  BY <1>4 DEF Q

\* which shrunk returns the last value of.
LEMMA ShrunkIs ==
    ASSUME NEW s, NEW f, NEW t, NEW extra \in Nat, extra = s.sin[f].din.blocks - t
    PROVE  \E g : /\ ShrinkEq(g, s, f, extra)
                  /\ shrunk(s, f, t).fs = g[extra] /\ shrunk(s, f, t).ret = OK
<1> DEFINE removed[n \in 0 .. extra] ==
                IF n = 0 THEN s ELSE sfs_bmap_truncate_nolock(removed[n - 1], f)
<1>1. PICK g : ShrinkEq(g, s, f, extra)
  BY ShrinkExists
<1>2. g = [n \in 0 .. extra |-> IF n = 0 THEN s ELSE sfs_bmap_truncate_nolock(g[n - 1], f)]
  BY <1>1 DEF ShrinkEq
<1>3. removed = [n \in 0 .. extra |->
                    IF n = 0 THEN s ELSE sfs_bmap_truncate_nolock(removed[n - 1], f)]
  BY <1>2, Zenon DEF removed
<1>4. shrunk(s, f, t) = [fs |-> removed[extra], ret |-> OK, ino |-> none]
  BY DEF shrunk
<1> HIDE DEF removed
<1>5. ShrinkEq(removed, s, f, extra)
  BY <1>3 DEF ShrinkEq
<1> QED
  BY <1>4, <1>5

\* The blocks that sfs_truncfile frees.
LEMMA Shrunk ==
    ASSUME NEW s, Blocks(s), NEW f \in File, s.sin[f] # NULL, Covered(s, f),
           NEW t \in Nat, t <= s.sin[f].din.blocks, NEW r, r = shrunk(s, f, t)
    PROVE  /\ r.ret = OK /\ Same(r.fs, s, f) /\ Blocks(r.fs) /\ Covered(r.fs, f)
           /\ r.fs.panic = s.panic /\ r.fs.sin[f].din.blocks = t
           /\ Trimmed(r.fs, s, f, t)
<1> DEFINE b == s.sin[f].din.blocks
           extra == b - t
           P(n, q) == /\ Same(q, s, f) /\ Blocks(q) /\ Covered(q, f)
                      /\ q.panic = s.panic /\ q.sin[f].din.blocks = b - n
                      /\ Trimmed(q, s, f, b - n)
<1>1. s \in FsState /\ b \in Nat /\ extra \in Nat
  <2>1. s \in FsState /\ s.sin[f].din \in Din
    BY RefsFacts DEF Blocks, Cur
  <2>2. b \in Nat
    BY <2>1, DinFields, Sizes
  <2> QED
    BY <2>1, <2>2
<1>2. PICK g : ShrinkEq(g, s, f, extra) /\ r.fs = g[extra] /\ r.ret = OK
  <2> HIDE DEF b
  <2>1. extra = s.sin[f].din.blocks - t
    BY DEF b
  <2> HIDE DEF extra
  <2> QED
    BY <1>1, <2>1, ShrunkIs
<1>3. g[0] = s /\ \A n \in 0 + 1 .. extra : g[n] = sfs_bmap_truncate_nolock(g[n - 1], f)
  <2>1. \A n \in 0 .. extra : g[n] = IF n = 0 THEN s ELSE sfs_bmap_truncate_nolock(g[n - 1], f)
    BY <1>2 DEF ShrinkEq
  <2>2. 0 \in 0 .. extra /\ \A n \in 0 + 1 .. extra : n \in 0 .. extra /\ n # 0
    BY <1>1
  <2> QED
    BY <2>1, <2>2
<1>4. P(0, g[0])
  <2>1. Trimmed(s, s, f, b - 0)
    BY TrimNone DEF SameData
  <2> QED
    BY <1>1, <1>3, <2>1, SameItself
<1> DEFINE Q == {n \in 0 .. extra : P(n, g[n])}
<1>5. ASSUME NEW n \in 0 + 1 .. extra, n - 1 \in Q
      PROVE  n \in Q
  <2> DEFINE y == g[n - 1]
             x == g[n]
  <2>1. P(n - 1, y)
    BY <1>5
  <2>2. x = sfs_bmap_truncate_nolock(y, f)
    BY <1>3
  <2> HIDE DEF x, y
  <2>3. y.sin[f].din.blocks > 0 /\ y.sin[f].din.blocks = b - (n - 1) /\ y.sin[f] # NULL
    BY <1>1, <2>1 DEF Same
  <2>4. Truncated(x, y, f)
    BY <2>1, <2>2, <2>3, Truncate
  <2>5. /\ Same(x, y, f) /\ Blocks(x) /\ Covered(x, f) /\ x.panic = s.panic
        /\ x.sin[f].din.blocks = (b - (n - 1)) - 1
        /\ Trimmed(x, y, f, (b - (n - 1)) - 1)
    BY <2>1, <2>3, <2>4 DEF Truncated
  <2>6. Same(x, s, f)
    BY <2>1, <2>5, SameAgain
  <2>7. x.sin[f].din.blocks = b - n
    BY <1>1, <2>5
  <2>9. Trimmed(x, s, f, b - n)
    <3>1. (b - (n - 1)) - 1 = b - n /\ b - n \in Int /\ b - (n - 1) \in Int
          /\ b - n <= b - (n - 1)
      BY <1>1
    <3>2. Trimmed(y, s, f, b - (n - 1)) /\ Trimmed(x, y, f, b - n)
      BY <2>1, <2>5, <3>1
    <3> HIDE DEF b, P
    <3> QED
      BY <3>1, <3>2, TrimAgain
  <2>8. P(n, x)
    BY <2>5, <2>6, <2>7, <2>9
  <2> QED
    BY <1>1, <2>8 DEF x
<1>6. 0 \in Q /\ extra \in 0 .. extra /\ 0 <= extra
  BY <1>1, <1>4
<1> HIDE DEF Q, P
<1>8. extra \in Q
  BY <1>1, <1>5, <1>6, Along
<1>9. P(extra, g[extra])
  BY <1>8 DEF Q
<1>10. b - extra = t
  BY <1>1
<1> QED
  BY <1>2, <1>9, <1>10 DEF P

----------------------------------------------------------------------------
(* The size of a file is set *)

\* The size of f is len in x, and its blocks are as many as that takes.
Sized(x, s, f, len) ==
    /\ Blocks(x) /\ Covered(x, f) /\ x.panic = s.panic /\ x.din = s.din /\ x.super = s.super
    /\ x.sin[f] # NULL /\ x.sin[f].ref_count = s.sin[f].ref_count /\ x.sin[f].dirty
    /\ x.sin[f].din.size = len /\ x.sin[f].din.blocks = ROUNDUP_DIV(len)
    /\ \A g \in File \ {f} : x.sin[g] = s.sin[g]
    /\ \A g \in File \ {f}, k \in Place : Refs(x)[<<g, k>>] = Refs(s)[<<g, k>>]
    /\ ~x.super_dirty => /\ ~s.super_dirty
                         /\ x.freemap = s.freemap /\ x.unused_blocks = s.unused_blocks
    /\ Trimmed(x, s, f, ROUNDUP_DIV(len))

\* What growing f came to an end of: blocks, or entries.
Short(r) ==
    \/ r.ret # OK /\ r.fs.panic = NULL
    \/ r.ret = OK /\ r.fs.panic = OUT_OF_RANGE

\* What sfs_truncfile does.
Resize(r, s, f, len) ==
    /\ r.ret = OK => len \in 0 .. MAX_SIZE
    /\ \/ Short(r) /\ Kept(r.fs, s, f) /\ SameData(r.fs, s)
       \/ r.ret = OK /\ r.fs = s /\ s.sin[f].din.size = len
       \/ /\ r.ret = OK /\ Panicked(r.fs, s, f)
          /\ s.sin[f].din.blocks # ROUNDUP_DIV(s.sin[f].din.size)
       \/ r.ret = OK /\ Sized(r.fs, s, f, len)

\* sfs_truncfile sets the size when the blocks are as many as it takes.
LEMMA SizedFromBlocks ==
    ASSUME NEW s, NEW f \in File, s.sin[f] # NULL, NEW len \in 0 .. MAX_SIZE,
           NEW y, Same(y, s, f), Blocks(y), Covered(y, f), y.panic = s.panic,
           y.sin[f].din.blocks = ROUNDUP_DIV(len), Trimmed(y, s, f, ROUNDUP_DIV(len)),
           NEW x, x = SizeSet(y, f, len)
    PROVE  Sized(x, s, f, len)
<1>1. y \in FsState /\ y.sin[f] # NULL
  BY DEF Same
<1>2. SizeIs(x, y, f, len)
  BY <1>1, SetSize
<1>3. PICK m \in Din :
        /\ Changed(x, y, f, m, TRUE) /\ m.size = len /\ m.blocks = y.sin[f].din.blocks
        /\ m.direct = y.sin[f].din.direct /\ m.indirect = y.sin[f].din.indirect
  BY <1>2 DEF SizeIs
<1>4. Refs(x) = Refs(y) /\ Blocks(x)
  BY <1>1, <1>3, InodeRefs
<1>5. Covered(x, f)
  BY <1>3, <1>4 DEF Covered, Changed
<1>6. /\ x.panic = s.panic /\ x.din = s.din /\ x.super = s.super
      /\ x.sin[f] # NULL /\ x.sin[f].ref_count = s.sin[f].ref_count /\ x.sin[f].dirty
      /\ x.sin[f].din.size = len /\ x.sin[f].din.blocks = ROUNDUP_DIV(len)
      /\ \A g \in File \ {f} : x.sin[g] = s.sin[g]
      /\ ~x.super_dirty => /\ ~s.super_dirty
                           /\ x.freemap = s.freemap /\ x.unused_blocks = s.unused_blocks
  BY <1>3 DEF Changed, Same
<1>7. \A g \in File \ {f}, k \in Place : Refs(x)[<<g, k>>] = Refs(s)[<<g, k>>]
  BY <1>4 DEF Same
<1>8. Trimmed(x, s, f, ROUNDUP_DIV(len))
  <2>1. SameData(x, y)
    BY <1>3, <1>4, RefsData DEF Changed
  <2> QED
    BY <2>1, TrimSame
<1> QED
  BY <1>4, <1>5, <1>6, <1>7, <1>8 DEF Sized

\* sfs_truncfile of a file that is in memory.
LEMMA TruncFile ==
    ASSUME NEW s, Blocks(s), s.panic = NULL, NEW f \in File, s.sin[f] # NULL, Covered(s, f),
           NEW len \in Nat, NEW r, r = sfs_truncfile(s, f, len)
    PROVE  Resize(r, s, f, len)
<1> DEFINE din_ == s.sin[f].din
           tblks == ROUNDUP_DIV(len)
           resized(q) ==
                IF Stopped(q) THEN [fs |-> q.fs, ret |-> q.ret]
                ELSE [fs |-> SizeSet(assert(q.fs, f, q.fs.sin[f].din.blocks = tblks), f, len),
                      ret |-> OK]
<1>1. /\ s \in FsState /\ din_.blocks \in Nat /\ Same(s, s, f)
      /\ OK # E_INVAL /\ OK # E_NO_MEM
  <2>1. s \in FsState /\ s.sin[f].din \in Din
    BY RefsFacts DEF Blocks, Cur
  <2> QED
    BY <2>1, DinFields, Sizes, SameItself DEF OK, E_INVAL, E_NO_MEM
<1>2. CASE len > MAX_SIZE
  <2>1. r = [fs |-> s, ret |-> E_INVAL]
    <3>1. ~ (len <= MAX_SIZE)
      BY <1>2, Sizes
    <3> QED
      BY <1>2, <3>1 DEF sfs_truncfile
  <2>2. r.fs = s /\ r.ret # OK
    BY <1>1, <2>1
  <2>3. Kept(s, s, f) /\ SameData(s, s) /\ Short(r)
    BY <1>1, <2>2, Reasons DEF Kept, SameData, Short
  <2> QED
    BY <2>2, <2>3 DEF Resize
<1>3. CASE ~ (len > MAX_SIZE) /\ len = din_.size
  <2> DEFINE c == tblks = din_.blocks
  <2>1. r = [fs |-> assert(s, f, tblks = din_.blocks), ret |-> OK]
    <3>1. len <= MAX_SIZE
      BY <1>3, Sizes
    <3> QED
      BY <1>3, <3>1 DEF sfs_truncfile
  <2>2. c \in BOOLEAN /\ r.fs = assert(s, f, c) /\ r.ret = OK /\ len \in 0 .. MAX_SIZE
    BY <1>3, <2>1, Sizes
  <2>3. c <=> tblks = din_.blocks
    OBVIOUS
  <2> HIDE DEF c
  <2>4. CASE c
    <3>1. r.fs = s
      BY <2>2, <2>4 DEF assert
    <3> QED
      BY <1>3, <2>2, <3>1 DEF Resize
  <2>5. CASE ~c
    <3>1. Panicked(r.fs, s, f)
      BY <1>1, <2>2, <2>5, AssertFails
    <3> QED
      BY <1>3, <2>2, <2>3, <2>5, <3>1 DEF Resize
  <2> QED
    BY <2>4, <2>5
<1>4. CASE ~ (len > MAX_SIZE) /\ len # din_.size
  <2>1. /\ len \in 0 .. MAX_SIZE /\ tblks \in Nat /\ len <= MAX_SIZE
    BY <1>4, RoundUp, Sizes
  <2> DEFINE q == IF din_.blocks < tblks THEN grown(s, f, tblks) ELSE shrunk(s, f, tblks)
  <2>2. r = resized(q)
    BY <1>4, <2>1 DEF sfs_truncfile, SizeSet
  <2>3. CASE din_.blocks < tblks
    <3>1. q = grown(s, f, tblks) /\ din_.blocks <= tblks
      BY <1>1, <2>1, <2>3
    <3> HIDE DEF q
    <3>2. Growth(q, s, f, tblks)
      <4> HIDE DEF tblks
      <4> QED
        BY <2>1, <3>1, Grown
    <3>3. CASE Stopped(q)
      <4>1. r.fs = q.fs /\ r.ret = q.ret
        BY <2>2, <3>3
      <4>2. Short(r)
        BY <1>1, <3>2, <3>3, <4>1 DEF Growth, Stopped, Short
      <4>3. Kept(r.fs, s, f) /\ SameData(r.fs, s)
        BY <3>2, <4>1 DEF Growth
      <4> QED
        BY <2>1, <4>2, <4>3 DEF Resize
    <3>4. CASE ~Stopped(q)
      <4>6. q.ret = OK /\ q.fs.panic = NULL
        BY <3>4 DEF Stopped
      <4>7. q.fs.sin[f].din.blocks = tblks
        BY <1>1, <3>2, <4>6, Reasons DEF Growth
      <4>8. Kept(q.fs, s, f)
        BY <3>2 DEF Growth
      <4>9. SameData(q.fs, s)
        BY <3>2 DEF Growth
      <4>1. assert(q.fs, f, q.fs.sin[f].din.blocks = tblks) = q.fs
        BY <4>7 DEF assert
      <4>2. r = [fs |-> SizeSet(q.fs, f, len), ret |-> OK]
        BY <2>2, <3>4, <4>1
      <4>3. r.fs = SizeSet(q.fs, f, len) /\ r.ret = OK
        BY <4>2
      <4>4. /\ Same(q.fs, s, f) /\ Blocks(q.fs) /\ Covered(q.fs, f) /\ q.fs.panic = s.panic
            /\ q.fs.sin[f].din.blocks = ROUNDUP_DIV(len)
            /\ Trimmed(q.fs, s, f, ROUNDUP_DIV(len))
        BY <4>6, <4>7, <4>8, <4>9, TrimNone DEF Kept
      <4>5. Sized(r.fs, s, f, len)
        BY <2>1, <4>3, <4>4, SizedFromBlocks
      <4> QED
        BY <2>1, <4>3, <4>5 DEF Resize
    <3> QED
      BY <3>3, <3>4
  <2>4. CASE ~ (din_.blocks < tblks)
    <3>1. q = shrunk(s, f, tblks) /\ tblks <= din_.blocks
      BY <1>1, <2>1, <2>4
    <3> HIDE DEF q
    <3>2. /\ q.ret = OK /\ Same(q.fs, s, f) /\ Blocks(q.fs) /\ Covered(q.fs, f)
          /\ q.fs.panic = s.panic /\ q.fs.sin[f].din.blocks = tblks
          /\ Trimmed(q.fs, s, f, tblks)
      <4> HIDE DEF tblks
      <4> QED
        BY <2>1, <3>1, Shrunk
    <3>3. assert(q.fs, f, q.fs.sin[f].din.blocks = tblks) = q.fs
      BY <3>2 DEF assert
    <3>4. r = [fs |-> SizeSet(q.fs, f, len), ret |-> OK]
      BY <2>2, <3>2, <3>3 DEF Stopped
    <3>5. r.fs = SizeSet(q.fs, f, len) /\ r.ret = OK
      BY <3>4
    <3>6. Sized(r.fs, s, f, len)
      BY <2>1, <3>2, <3>5, SizedFromBlocks
    <3> QED
      BY <2>1, <3>5, <3>6 DEF Resize
  <2> QED
    BY <2>3, <2>4
<1> QED
  BY <1>2, <1>3, <1>4

\* What sfs_tryseek does.
LEMMA TrySeek ==
    ASSUME NEW s, Blocks(s), s.panic = NULL, NEW f \in File, s.sin[f] # NULL, Covered(s, f),
           NEW pos \in Nat, NEW r, r = sfs_tryseek(s, f, pos)
    PROVE  /\ r.ret = OK => pos \in 0 .. MAX_SIZE
           /\ r.fs = s \/ Resize(r, s, f, pos)
<1>1. s.sin[f].din.size \in 0 .. MAX_SIZE /\ OK # E_INVAL
  <2>1. s \in FsState /\ s.sin[f].din \in Din
    BY RefsFacts DEF Blocks, Cur
  <2> QED
    BY <2>1, DinFields DEF OK, E_INVAL
<1>2. CASE pos >= MAX_SIZE
  <2>1. r = [fs |-> s, ret |-> E_INVAL]
    <3>1. ~ (pos < MAX_SIZE)
      BY <1>2, Sizes
    <3>2. ~ (pos < MAX_SIZE /\ pos > s.sin[f].din.size)
      BY <3>1
    <3> QED
      BY <1>2, <3>2 DEF sfs_tryseek
  <2> QED
    BY <1>1, <2>1
<1>3. CASE ~ (pos >= MAX_SIZE) /\ pos > s.sin[f].din.size
  <2>1. r = sfs_truncfile(s, f, pos)
    <3>1. pos < MAX_SIZE
      BY <1>3, Sizes
    <3> QED
      BY <1>3, <3>1 DEF sfs_tryseek
  <2>2. Resize(r, s, f, pos)
    BY <2>1, TruncFile
  <2> QED
    BY <2>2 DEF Resize
<1>4. CASE ~ (pos >= MAX_SIZE) /\ ~ (pos > s.sin[f].din.size)
  <2>1. r = [fs |-> s, ret |-> OK]
    BY <1>4 DEF sfs_tryseek
  <2>2. pos \in 0 .. MAX_SIZE
    BY <1>4, Sizes
  <2> QED
    BY <2>1, <2>2
<1> QED
  BY <1>2, <1>3, <1>4

----------------------------------------------------------------------------
(* Reading and writing *)

\* The smaller of two numbers.
LEMMA MinTwo ==
    ASSUME NEW a \in Nat, NEW b \in Nat
    PROVE  Min({a, b}) = IF a <= b THEN a ELSE b
<1> DEFINE c == IF a <= b THEN a ELSE b
<1>1. c \in {a, b} /\ \A y \in {a, b} : c <= y
  OBVIOUS
<1>2. \A x \in {a, b} : (\A y \in {a, b} : x <= y) => x = c
  OBVIOUS
<1> HIDE DEF c
<1> QED
  BY <1>1, <1>2 DEF Min, c

\* The contents of a block are set.
DataSet(y, b, v) == [y EXCEPT !.data[b] = v]
DataIs(x, y, b, v) == Refs(x) = Refs(y) /\ x.data = [y.data EXCEPT ![b] = v]

\* What is in a block as data names no block.
LEMMA SetData ==
    ASSUME NEW y, Blocks(y), NEW f \in File, y.sin[f] # NULL, Covered(y, f),
           NEW b \in Block, NEW i \in Index, NEW x, x = DataSet(y, b, <<f, i>>)
    PROVE  /\ Same(x, y, f) /\ Blocks(x) /\ Covered(x, f) /\ x.panic = y.panic /\ x.sin = y.sin
           /\ DataIs(x, y, b, <<f, i>>)
<1>0. y = FsRec(y.freemap, y.unused_blocks, y.super_dirty, y.sin, y.din, y.super,
                y.data, y.ents, y.panic)
  BY FsFields DEF Blocks
<1>1. /\ y.freemap \in SUBSET Block /\ y.unused_blocks \in 0 .. BLOCKS
      /\ y.super_dirty \in BOOLEAN
      /\ y.sin \in [File -> Sin \cup {NULL}] /\ y.din \in [File -> Din]
      /\ y.super \in [freemap : SUBSET Block, unused_blocks : 0 .. BLOCKS]
      /\ y.data \in [Block -> {Zero} \cup (File \X Index)]
      /\ y.ents \in [Block -> [0 .. NENTRY - 1 -> Block \cup {none}]]
      /\ y.panic \in File \cup {NULL, OUT_OF_RANGE}
  BY FsFields DEF Blocks
<1> DEFINE v == <<f, i>>
           da == [y.data EXCEPT ![b] = v]
<1>2. v \in {Zero} \cup (File \X Index)
  OBVIOUS
<1> HIDE DEF v
<1>3. da \in [Block -> {Zero} \cup (File \X Index)]
  BY <1>1, <1>2
<1>4. x = FsRec(y.freemap, y.unused_blocks, y.super_dirty, y.sin, y.din, y.super,
                da, y.ents, y.panic)
  <2>1. x = [FsRec(y.freemap, y.unused_blocks, y.super_dirty, y.sin, y.din, y.super,
                   y.data, y.ents, y.panic) EXCEPT !.data[b] = v]
    BY <1>0 DEF DataSet, v
  <2> QED
    BY <2>1 DEF FsRec
<1> HIDE DEF da
<1>5. /\ x \in FsState
      /\ x.freemap = y.freemap /\ x.unused_blocks = y.unused_blocks
      /\ x.super_dirty = y.super_dirty /\ x.sin = y.sin
      /\ x.din = y.din /\ x.super = y.super /\ x.data = da /\ x.ents = y.ents
      /\ x.panic = y.panic
  BY ONLY <1>1, <1>3, <1>4, FsMake
<1>6. \A g \in File : Cur(x, g) = Cur(y, g)
  BY <1>5 DEF Cur
<1>7. Refs(x) = Refs(y)
  <2>1. ASSUME NEW z \in Places_
        PROVE  Refs(x)[z] = Refs(y)[z]
    <3>1. z[1] \in File
      BY DEF Places_
    <3> QED
      BY <1>5, <1>6, <3>1 DEF Refs
  <2> QED
    BY <2>1 DEF Refs
<1>8. Blocks(x) /\ Covered(x, f)
  BY <1>5, <1>7 DEF Blocks, Covered
<1>9. Same(x, y, f)
  BY <1>5, <1>7 DEF Same
<1> QED
  BY <1>5, <1>7, <1>8, <1>9 DEF da, v, DataIs

IoRec(x, ret, pos) == [fs |-> x, ret |-> ret, pos |-> pos]
IoFailed(q, x, ret) == [q EXCEPT !.fs = x, !.ret = ret]
IoMoved(f, write, endpos, q, index, l) ==
    IF Stopped(l) THEN IoFailed(q, l.fs, l.ret)
    ELSE IoRec(IF write THEN DataSet(l.fs, l.ino, <<f, index>>) ELSE l.fs, OK,
               Min({endpos, (index + 1) * BLKSIZE}))
IoStep(f, write, endpos, n, q) ==
    IF Stopped(q) THEN q
    ELSE IoMoved(f, write, endpos, q, n - 1, sfs_bmap_load_nolock(q.fs, f, n - 1))
IoEq(g, s, f, pos, write, endpos, b, t) ==
    g = [n \in b .. t |-> IF n = b THEN IoRec(s, OK, pos)
                          ELSE IoStep(f, write, endpos, n, g[n - 1])]

\* The recursion that sfs_io is defined by has a solution,
LEMMA IoExists ==
    ASSUME NEW s, NEW f, NEW pos, NEW write, NEW endpos, NEW b \in Nat, NEW t \in Nat, b <= t
    PROVE  \E g : IoEq(g, s, f, pos, write, endpos, b, t)
<1> DEFINE Q == {k \in b .. t : \E g : IoEq(g, s, f, pos, write, endpos, b, k)}
<1>1. b \in Q
  <2> DEFINE g == [n \in b .. b |-> IoRec(s, OK, pos)]
  <2>1. IoEq(g, s, f, pos, write, endpos, b, b)
    BY DEF IoEq
  <2> QED
    BY <2>1
<1>2. ASSUME NEW k \in b + 1 .. t, k - 1 \in Q
      PROVE  k \in Q
  <2>1. PICK g : IoEq(g, s, f, pos, write, endpos, b, k - 1)
    BY <1>2
  <2> DEFINE h == [n \in b .. k |->
                    IF n = k THEN IoStep(f, write, endpos, n, g[n - 1]) ELSE g[n]]
  <2>2. ASSUME NEW n \in b .. k
        PROVE  h[n] = IF n = b THEN IoRec(s, OK, pos)
                      ELSE IoStep(f, write, endpos, n, h[n - 1])
    <3>1. CASE n = b
      <4>1. n # k /\ n \in b .. k - 1
        BY <1>2, <3>1
      <4> QED
        BY <2>1, <3>1, <4>1 DEF IoEq
    <3>2. CASE n # b
      <4>1. n - 1 \in b .. k /\ n - 1 # k
        BY <3>2
      <4>2. h[n - 1] = g[n - 1]
        BY <4>1
      <4>3. h[n] = IoStep(f, write, endpos, n, g[n - 1])
        <5>1. CASE n = k
          BY <5>1
        <5>2. CASE n # k
          <6>1. n \in b .. k - 1 /\ h[n] = g[n]
            BY <5>2
          <6> QED
            BY <2>1, <3>2, <6>1 DEF IoEq
        <5> QED
          BY <5>1, <5>2
      <4> QED
        BY <3>2, <4>2, <4>3
    <3> QED
      BY <3>1, <3>2
  <2>3. h = [n \in b .. k |-> h[n]]
    OBVIOUS
  <2> HIDE DEF h
  <2>4. IoEq(h, s, f, pos, write, endpos, b, k)
    BY <2>2, <2>3 DEF IoEq
  <2> QED
    BY <2>4
<1>3. t \in b .. t
  OBVIOUS
<1> HIDE DEF Q
<1>4. t \in Q
  BY <1>1, <1>2, <1>3, Along
<1> QED
  BY <1>4 DEF Q

\* Where sfs_io ends, and what it comes down to.
EndPos(s, f, pos, len, write) ==
    IF write THEN Min({pos + len, MAX_SIZE})
    ELSE Min({Min({pos + len, MAX_SIZE}), s.sin[f].din.size})

\* which sfs_io returns the last value of.
LEMMA IoIs ==
    ASSUME NEW s, NEW f, NEW pos \in Nat, NEW len, NEW write,
           NEW endpos \in Nat, endpos = EndPos(s, f, pos, len, write), pos < endpos,
           pos < MAX_SIZE,
           NEW b \in Nat, b = pos \div BLKSIZE,
           NEW t \in Nat, t = (endpos - 1) \div BLKSIZE + 1, b <= t
    PROVE  \E g : IoEq(g, s, f, pos, write, endpos, b, t) /\ sfs_io(s, f, pos, len, write) = g[t]
<1> DEFINE most == Min({pos + len, MAX_SIZE})
           end == IF write THEN most ELSE Min({most, s.sin[f].din.size})
           first == pos \div BLKSIZE
           last == (end - 1) \div BLKSIZE
           moved(r, index, l) ==
                IF Stopped(l) THEN [r EXCEPT !.fs = l.fs, !.ret = l.ret]
                ELSE [fs |-> IF write THEN [l.fs EXCEPT !.data[l.ino] = <<f, index>>] ELSE l.fs,
                      ret |-> OK, pos |-> Min({end, (index + 1) * BLKSIZE})]
           block(r, index) == moved(r, index, sfs_bmap_load_nolock(r.fs, f, index))
           begun == [fs |-> s, ret |-> OK, pos |-> pos]
           done[n \in first .. last + 1] ==
                IF n = first THEN begun
                ELSE IF Stopped(done[n - 1]) THEN done[n - 1] ELSE block(done[n - 1], n - 1)
<1>0. end = endpos /\ first = b /\ last + 1 = t
  BY DEF EndPos
<1>1. PICK g : IoEq(g, s, f, pos, write, endpos, b, t)
  BY IoExists
<1>2. g = [n \in first .. last + 1 |->
                IF n = first THEN begun
                ELSE IF Stopped(g[n - 1]) THEN g[n - 1] ELSE block(g[n - 1], n - 1)]
  <2> HIDE DEF end, first, last
  <2> QED
    BY <1>0, <1>1 DEF IoEq, IoStep, IoMoved, IoFailed, IoRec, DataSet
<1>3. done = [n \in first .. last + 1 |->
                IF n = first THEN begun
                ELSE IF Stopped(done[n - 1]) THEN done[n - 1] ELSE block(done[n - 1], n - 1)]
  BY <1>2, Zenon DEF done
<1>4. sfs_io(s, f, pos, len, write) = done[last + 1]
  <2>1. sfs_io(s, f, pos, len, write) =
            CASE pos >= MAX_SIZE -> [begun EXCEPT !.ret = E_INVAL]
              [] pos < MAX_SIZE /\ pos >= end -> begun
              [] OTHER -> done[last + 1]
    BY DEF sfs_io
  <2> HIDE DEF end, begun, done, last
  <2>2. ~ (pos >= MAX_SIZE) /\ ~ (pos >= end)
    BY <1>0, Sizes
  <2> QED
    BY <2>1, <2>2
<1> HIDE DEF done
<1>5. IoEq(done, s, f, pos, write, endpos, b, t)
  <2> HIDE DEF end, first, last
  <2> QED
    BY <1>0, <1>3 DEF IoEq, IoStep, IoMoved, IoFailed, IoRec, DataSet
<1>6. sfs_io(s, f, pos, len, write) = done[t]
  BY <1>0, <1>4
<1> QED
  BY <1>5, <1>6

\* How far sfs_io has come: what it has done up to the block n.
IoDone(q, s, f, write, endpos) ==
    /\ q = IoRec(q.fs, q.ret, q.pos) /\ q.pos \in 0 .. MAX_SIZE
    /\ Kept(q.fs, s, f) /\ q.fs.panic \in {NULL, f, OUT_OF_RANGE}
    /\ ~write => q.fs = s
    /\ endpos <= s.sin[f].din.size => q.fs.sin = s.sin /\ q.fs.panic = NULL

\* sfs_io does one block more.
LEMMA IoBlock ==
    ASSUME NEW s, Blocks(s), s.panic = NULL, NEW f \in File, s.sin[f] # NULL,
           ROUNDUP_DIV(s.sin[f].din.size) <= s.sin[f].din.blocks,
           NEW write \in BOOLEAN, NEW endpos \in 0 .. MAX_SIZE,
           ~write => endpos <= s.sin[f].din.size,
           NEW n \in Nat, n - 1 \in Nat, n - 1 <= (endpos - 1) \div BLKSIZE, endpos > 0,
           NEW q, IoDone(q, s, f, write, endpos)
    PROVE  IoDone(IoStep(f, write, endpos, n, q), s, f, write, endpos)
<1> DEFINE y == q.fs
           index == n - 1
           l == sfs_bmap_load_nolock(y, f, index)
           r == IoStep(f, write, endpos, n, q)
           at == Min({endpos, (index + 1) * BLKSIZE})
<1>1. /\ Kept(y, s, f) /\ y.panic \in {NULL, f, OUT_OF_RANGE} /\ (~write => y = s)
      /\ endpos <= s.sin[f].din.size => y.sin = s.sin /\ y.panic = NULL
      /\ q = IoRec(y, q.ret, q.pos) /\ q.pos \in 0 .. MAX_SIZE
  BY DEF IoDone
<1>2. /\ s \in FsState /\ y \in FsState /\ Blocks(y) /\ Covered(y, f) /\ y.sin[f] # NULL
      /\ Same(y, s, f) /\ y.sin[f].din.blocks \in Nat
      /\ s.sin[f].din.blocks \in 0 .. NDIRECT + NENTRY /\ s.sin[f].din.blocks \in Nat
      /\ s.sin[f].din.size \in Nat
  <2>1. /\ Blocks(y) /\ Covered(y, f) /\ y.sin[f] # NULL /\ Same(y, s, f)
        /\ s \in FsState /\ y \in FsState
    BY <1>1 DEF Kept, Same, Blocks
  <2>2. y.sin[f].din \in Din /\ s.sin[f].din \in Din
    BY <2>1, RefsFacts DEF Cur
  <2>3. /\ y.sin[f].din.blocks \in 0 .. NDIRECT + NENTRY
        /\ s.sin[f].din.blocks \in 0 .. NDIRECT + NENTRY
        /\ s.sin[f].din.size \in 0 .. MAX_SIZE
    BY <2>2, DinFields
  <2> QED
    BY <2>1, <2>3, Sizes
<1>4. endpos <= s.sin[f].din.size => index < s.sin[f].din.blocks /\ index \in Index
  <2>1. ASSUME endpos <= s.sin[f].din.size
        PROVE  index < s.sin[f].din.blocks /\ index \in Index
    <3>1. endpos - 1 \in Nat /\ endpos - 1 < s.sin[f].din.size
      BY <1>2, <2>1, Sizes
    <3>2. (endpos - 1) \div BLKSIZE < ROUNDUP_DIV(s.sin[f].din.size)
      BY <1>2, <3>1, RoundUp
    <3>3. (endpos - 1) \div BLKSIZE \in Nat /\ ROUNDUP_DIV(s.sin[f].din.size) \in Nat
      BY <1>2, <3>1, RoundUp
    <3>4. index < s.sin[f].din.blocks
      BY <1>2, <3>2, <3>3
    <3> QED
      BY <1>2, <3>4, Sizes DEF Index
  <2> QED
    BY <2>1
<1>5. at \in 0 .. MAX_SIZE
  <2> DEFINE c == (index + 1) * BLKSIZE
  <2>1. c \in Nat
    BY Sizes
  <2> HIDE DEF c
  <2>2. Min({endpos, c}) = IF endpos <= c THEN endpos ELSE c
    BY <2>1, MinTwo, Sizes
  <2> QED
    BY <2>1, <2>2, Sizes DEF c
<1>7. r = IF Stopped(q) THEN q ELSE IoMoved(f, write, endpos, q, index, l)
  BY DEF IoStep
<1>8. CASE Stopped(q)
  BY <1>7, <1>8
<1>9. CASE ~Stopped(q)
  <2>1. y.panic = NULL /\ r = IoMoved(f, write, endpos, q, index, l)
    BY <1>7, <1>9 DEF Stopped
  <2>8. l = sfs_bmap_load_nolock(y, f, index)
    OBVIOUS
  <2> HIDE DEF y, l, at, r
  <2>2. CASE index > y.sin[f].din.blocks \/ index \notin Index
    <3>1. Halts(l, y, f)
      BY <1>2, <2>1, <2>2, <2>8, LoadHalts
    <3>2. PICK p \in {f, OUT_OF_RANGE} :
                l.ret = OK /\ Panicked(l.fs, y, p) /\ (p = OUT_OF_RANGE => Full(y, f))
      BY <3>1 DEF Halts
    <3>4. Kept(l.fs, s, f) /\ l.fs.panic = p
      BY <1>1, <3>2, KeptPanicked
    <3>5. r = IoRec(l.fs, OK, q.pos)
      <4>1. Stopped(l)
        BY <3>4, Reasons DEF Stopped
      <4>2. r = IoFailed(q, l.fs, l.ret)
        BY <2>1, <4>1 DEF IoMoved
      <4>3. r = [IoRec(y, q.ret, q.pos) EXCEPT !.fs = l.fs, !.ret = l.ret]
        BY <1>1, <4>2 DEF IoFailed
      <4> QED
        BY <3>2, <4>3 DEF IoRec
    <3>6. ~ (endpos <= s.sin[f].din.size)
      <4>1. ASSUME endpos <= s.sin[f].din.size PROVE FALSE
        <5>1. /\ index < s.sin[f].din.blocks /\ y.sin[f].din.blocks = s.sin[f].din.blocks
              /\ index \in Index
          BY <1>1, <1>4, <4>1
        <5> QED
          BY <1>2, <2>2, <5>1
      <4> QED
        BY <4>1
    <3>7. r.fs = l.fs /\ r.pos = q.pos /\ r = IoRec(r.fs, r.ret, r.pos)
      BY <3>5 DEF IoRec
    <3>8. write
      BY <3>6
    <3> QED
      BY <1>1, <3>4, <3>6, <3>7, <3>8 DEF IoDone, r
  <2>3. CASE ~ (index > y.sin[f].din.blocks) /\ index \in Index
    <3>1. index <= y.sin[f].din.blocks
      BY <1>2, <2>3, Sizes
    <3>2. Loaded(l, y, f, index)
      BY <1>2, <2>1, <2>3, <2>8, <3>1, Load
    <3>3. /\ Same(l.fs, y, f) /\ Blocks(l.fs) /\ Covered(l.fs, f) /\ l.fs.panic = NULL
          /\ l.ret \in {OK, E_NO_MEM} /\ (l.ret = OK => l.ino \in Block)
          /\ l.fs.sin[f].din.blocks = IF index = y.sin[f].din.blocks /\ l.ret = OK
                                      THEN y.sin[f].din.blocks + 1 ELSE y.sin[f].din.blocks
          /\ index < y.sin[f].din.blocks => l.ret = OK /\ l.fs = y
      BY <2>1, <3>2 DEF Loaded
    <3>4. Kept(l.fs, s, f)
      <4>1. Same(l.fs, s, f)
        BY <1>2, <3>3, SameAgain
      <4>2. l.fs.sin[f].din.blocks >= s.sin[f].din.blocks
        <5>1. y.sin[f].din.blocks >= s.sin[f].din.blocks
          BY <1>1 DEF Kept
        <5> QED
          BY <1>2, <3>3, <5>1
      <4> QED
        BY <3>3, <4>1, <4>2, Reasons DEF Kept
    <3>5. endpos <= s.sin[f].din.size => l.ret = OK /\ l.fs = y /\ y.sin = s.sin
      BY <1>1, <1>4, <3>3
    <3>6. CASE l.ret # OK
      <4>1. r = IoRec(l.fs, l.ret, q.pos)
        <5>1. Stopped(l)
          BY <3>6 DEF Stopped
        <5>2. r = IoFailed(q, l.fs, l.ret)
          BY <2>1, <5>1 DEF IoMoved
        <5>3. r = [IoRec(y, q.ret, q.pos) EXCEPT !.fs = l.fs, !.ret = l.ret]
          BY <1>1, <5>2 DEF IoFailed
        <5> QED
          BY <5>3 DEF IoRec
      <4>2. r.fs = l.fs /\ r.pos = q.pos /\ r = IoRec(r.fs, r.ret, r.pos)
        BY <4>1 DEF IoRec
      <4>3. write /\ ~ (endpos <= s.sin[f].din.size)
        BY <3>5, <3>6
      <4> QED
        BY <1>1, <3>3, <3>4, <4>2, <4>3 DEF IoDone, r
    <3>7. CASE l.ret = OK
      <4> DEFINE x == IF write THEN DataSet(l.fs, l.ino, <<f, index>>) ELSE l.fs
      <4>1. r = IoRec(x, OK, at)
        <5>1. ~Stopped(l)
          BY <3>3, <3>7 DEF Stopped
        <5> QED
          BY <2>1, <5>1 DEF IoMoved, at
      <4>2. l.fs.sin[f] # NULL
        BY <3>3 DEF Same
      <4>3. /\ Same(x, l.fs, f) /\ Blocks(x) /\ Covered(x, f) /\ x.panic = NULL
            /\ x.sin = l.fs.sin /\ (~write => x = l.fs)
        <5>1. CASE write
          <6>1. x = DataSet(l.fs, l.ino, <<f, index>>)
            BY <5>1
          <6> HIDE DEF x, index
          <6> QED
            BY <2>3, <3>3, <3>7, <4>2, <5>1, <6>1, SetData
        <5>2. CASE ~write
          <6>1. l.fs \in FsState
            BY <3>3 DEF Blocks
          <6>2. Same(l.fs, l.fs, f)
            BY <4>2, <6>1, SameItself
          <6> QED
            BY <3>3, <5>2, <6>2
        <5> QED
          BY <5>1, <5>2
      <4> HIDE DEF x
      <4>4. Same(x, s, f)
        BY <3>4, <4>3, SameAgain DEF Kept
      <4>5. Kept(x, s, f)
        BY <3>4, <4>3, <4>4, Reasons DEF Kept
      <4>6. r.fs = x /\ r.pos = at /\ r = IoRec(r.fs, r.ret, r.pos)
        BY <4>1 DEF IoRec
      <4>7. ~write => x = s
        BY <1>1, <3>5, <4>3
      <4>8. endpos <= s.sin[f].din.size => x.sin = s.sin
        BY <3>5, <4>3
      <4> QED
        BY <1>5, <4>3, <4>5, <4>6, <4>7, <4>8 DEF IoDone, r
    <3> QED
      BY <3>6, <3>7
  <2> QED
    BY <2>2, <2>3
<1> QED
  BY <1>8, <1>9

\* A block of f is found or made, and no file holds anything else than before.
LoadedData(l, y, f, index) ==
    /\ SameData(l.fs, y)
    /\ ~Stopped(l) => /\ Blocks(l.fs) /\ Covered(l.fs, f) /\ l.fs.sin[f] # NULL
                      /\ l.ino \in Block /\ l.ino = Refs(l.fs)[<<f, index>>]
                      /\ index \in Index

\* sfs_bmap_load_nolock, wherever it is called at.
LEMMA LoadData ==
    ASSUME NEW y, Blocks(y), y.panic = NULL, NEW f \in File, y.sin[f] # NULL, Covered(y, f),
           NEW index \in Nat, NEW l, l = sfs_bmap_load_nolock(y, f, index)
    PROVE  LoadedData(l, y, f, index)
<1>1. y.sin[f].din.blocks \in Nat
  <2>1. y \in FsState /\ y.sin[f].din \in Din
    BY RefsFacts DEF Blocks, Cur
  <2> QED
    BY <2>1, DinFields, Sizes
<1>2. CASE index > y.sin[f].din.blocks \/ index \notin Index
  <2>1. Halts(l, y, f)
    BY <1>2, LoadHalts
  <2>2. PICK p \in {f, OUT_OF_RANGE} : Panicked(l.fs, y, p)
    BY <2>1 DEF Halts
  <2>3. SameData(l.fs, y)
    BY <2>2, PanickedData
  <2>4. Stopped(l)
    BY <2>2, Reasons DEF Panicked, Stopped
  <2> QED
    BY <2>3, <2>4 DEF LoadedData
<1>3. CASE ~ (index > y.sin[f].din.blocks) /\ index \in Index
  <2>1. index <= y.sin[f].din.blocks
    BY <1>1, <1>3
  <2>2. Loaded(l, y, f, index)
    BY <1>3, <2>1, Load
  <2> QED
    BY <1>3, <2>2 DEF Loaded, LoadedData, Stopped, Same
<1> QED
  BY <1>2, <1>3

\* What a write has done before the block n: all up to it, or less if it has stopped.
IoPut(q, s, f, b, n) ==
    /\ \E m \in b .. n : Put(q.fs, s, f, b, m)
    /\ ~Stopped(q) => Put(q.fs, s, f, b, n)

\* A write does one block more.
LEMMA IoWrites ==
    ASSUME NEW s, NEW f \in File, NEW write, write, NEW endpos, NEW b \in Int,
           NEW n \in Int, n - 1 \in Nat, b <= n - 1,
           NEW q, IoDone(q, s, f, write, endpos), IoPut(q, s, f, b, n - 1)
    PROVE  IoPut(IoStep(f, write, endpos, n, q), s, f, b, n)
<1> DEFINE y == q.fs
           index == n - 1
           l == sfs_bmap_load_nolock(y, f, index)
           r == IoStep(f, write, endpos, n, q)
           at == Min({endpos, (index + 1) * BLKSIZE})
<1>1. \A m \in b .. n - 1 : m \in b .. n
  OBVIOUS
<1>2. r = IF Stopped(q) THEN q ELSE IoMoved(f, write, endpos, q, index, l)
  BY DEF IoStep
<1>3. CASE Stopped(q)
  BY <1>1, <1>2, <1>3 DEF IoPut
<1>4. CASE ~Stopped(q)
  <2>1. y.panic = NULL /\ r = IoMoved(f, write, endpos, q, index, l) /\ Put(y, s, f, b, index)
    BY <1>2, <1>4 DEF Stopped, IoPut
  <2>2. l = sfs_bmap_load_nolock(y, f, index) /\ q = IoRec(y, q.ret, q.pos) /\ index \in Int
    BY DEF IoDone
  <2>3. Blocks(y) /\ y.sin[f] # NULL /\ Covered(y, f)
    BY DEF IoDone, Kept, Same
  <2> HIDE DEF y, l, at, r
  <2>4. LoadedData(l, y, f, index)
    <3> HIDE DEF index
    <3>1. index \in Nat
      BY DEF index
    <3> QED
      BY <2>1, <2>2, <2>3, <3>1, LoadData
  <2>5. Put(l.fs, s, f, b, index)
    <3> HIDE DEF index
    <3> QED
      BY <2>1, <2>4, PutSame DEF LoadedData
  <2>6. CASE Stopped(l)
    <3>1. r = IoRec(l.fs, l.ret, q.pos)
      <4>1. r = IoFailed(q, l.fs, l.ret)
        BY <2>1, <2>6 DEF IoMoved
      <4>2. r = [IoRec(y, q.ret, q.pos) EXCEPT !.fs = l.fs, !.ret = l.ret]
        BY <2>2, <4>1 DEF IoFailed
      <4> QED
        BY <4>2 DEF IoRec
    <3>2. Stopped(r) /\ r.fs = l.fs
      BY <2>6, <3>1 DEF Stopped, IoRec
    <3>3. index \in b .. n
      OBVIOUS
    <3> QED
      BY <2>5, <3>2, <3>3 DEF IoPut, r
  <2>7. CASE ~Stopped(l)
    <3> DEFINE x == DataSet(l.fs, l.ino, <<f, index>>)
    <3>1. r = IoRec(x, OK, at)
      BY <2>1, <2>7 DEF IoMoved, at
    <3>2. /\ Blocks(l.fs) /\ Covered(l.fs, f) /\ l.fs.sin[f] # NULL
          /\ l.ino \in Block /\ l.ino = Refs(l.fs)[<<f, index>>] /\ index \in Index
      BY <2>4, <2>7 DEF LoadedData
    <3>3. x = DataSet(l.fs, l.ino, <<f, index>>)
      OBVIOUS
    <3> HIDE DEF x, index
    <3>4. Refs(x) = Refs(l.fs) /\ x.data = [l.fs.data EXCEPT ![l.ino] = <<f, index>>]
      BY <3>2, <3>3, SetData DEF DataIs
    <3>5. PutOne(x, l.fs, f, index)
      BY <3>2, <3>4, PutBlock
    <3>6. Put(x, s, f, b, index + 1)
      <4>1. b <= index
        BY DEF index
      <4> QED
        BY <2>2, <2>5, <3>5, <4>1, PutMore
    <3>7. index + 1 = n /\ n \in b .. n
      BY DEF index
    <3>8. r.fs = x
      BY <3>1 DEF IoRec
    <3> QED
      BY <3>6, <3>7, <3>8 DEF IoPut, r
  <2> QED
    BY <2>6, <2>7
<1> QED
  BY <1>3, <1>4

\* Some blocks of f hold what was written to them.
WroteTo(x, s, f) == \E b \in Index : \E m \in b .. NDIRECT + NENTRY : Put(x, s, f, b, m)

\* Only the blocks that f has entries for count.
LEMMA PutWithin ==
    ASSUME NEW s, NEW x, NEW f \in File, NEW b \in Nat, NEW m \in Nat, b <= m,
           Put(x, s, f, b, m)
    PROVE  WroteTo(x, s, f)
<1>1. /\ OthersData(x, s, f)
      /\ \A i \in Index : Content(x, f, i) = IF b <= i /\ i < m THEN <<f, i>>
                                             ELSE Content(s, f, i)
  BY DEF Put
<1> DEFINE e == NDIRECT + NENTRY
<1>2. Index = 0 .. e - 1 /\ e \in Nat /\ 0 \in Index
  BY Sizes DEF Index
<1>6. (\E c \in Index : \E n \in c .. e : Put(x, s, f, c, n)) => WroteTo(x, s, f)
  BY DEF WroteTo
<1> HIDE DEF e
<1>3. CASE b \notin Index
  <2>1. \A i \in Index : ~ (b <= i /\ i < m) /\ ~ (0 <= i /\ i < 0)
    BY <1>2, <1>3
  <2>2. Put(x, s, f, 0, 0)
    BY <1>1, <2>1 DEF Put
  <2>3. 0 \in 0 .. e
    BY <1>2
  <2> QED
    BY <1>2, <1>6, <2>2, <2>3
<1>4. CASE b \in Index /\ m <= e
  <2>1. m \in b .. e
    BY <1>2, <1>4
  <2> QED
    BY <1>4, <1>6, <2>1
<1>5. CASE b \in Index /\ ~ (m <= e)
  <2>1. \A i \in Index : i < m /\ i < e
    BY <1>2, <1>5
  <2>2. Put(x, s, f, b, e)
    BY <1>1, <2>1 DEF Put
  <2>3. e \in b .. e
    BY <1>2, <1>5
  <2> QED
    BY <1>5, <1>6, <2>2, <2>3
<1> QED
  BY <1>3, <1>4, <1>5

\* What sfs_io does: a read changes nothing, and a write up to the end of the file the
\* contents of blocks only.
Transferred(r, s, f, pos, len, write) ==
    /\ Kept(r.fs, s, f) /\ r.pos \in 0 .. MAX_SIZE /\ r.fs.panic \in {NULL, f, OUT_OF_RANGE}
    /\ IF write THEN WroteTo(r.fs, s, f) ELSE r.fs = s
    /\ pos + len <= s.sin[f].din.size \/ pos >= MAX_SIZE =>
            r.fs.sin = s.sin /\ r.fs.panic = NULL

\* sfs_io of a file that is in memory.
LEMMA Io ==
    ASSUME NEW s, Blocks(s), s.panic = NULL, NEW f \in File, s.sin[f] # NULL, Covered(s, f),
           ROUNDUP_DIV(s.sin[f].din.size) <= s.sin[f].din.blocks,
           NEW pos \in 0 .. MAX_SIZE, NEW len \in Nat, NEW write \in BOOLEAN,
           NEW r, r = sfs_io(s, f, pos, len, write)
    PROVE  Transferred(r, s, f, pos, len, write)
<1> DEFINE endpos == EndPos(s, f, pos, len, write)
           size == s.sin[f].din.size
           b == pos \div BLKSIZE
           t == (endpos - 1) \div BLKSIZE + 1
           begun == [fs |-> s, ret |-> OK, pos |-> pos]
<1>1. /\ s \in FsState /\ size \in 0 .. MAX_SIZE /\ s.sin[f].din.blocks \in Nat
      /\ Same(s, s, f) /\ pos \in Nat
  <2>1. s \in FsState /\ s.sin[f].din \in Din
    BY RefsFacts DEF Blocks, Cur
  <2> QED
    BY <2>1, DinFields, Sizes, SameItself
<1>2. /\ endpos \in 0 .. MAX_SIZE /\ (~write => endpos <= size)
      /\ pos + len <= size => endpos <= size
  <2> DEFINE most == Min({pos + len, MAX_SIZE})
  <2>1. most = IF pos + len <= MAX_SIZE THEN pos + len ELSE MAX_SIZE
    <3>1. pos + len \in Nat /\ MAX_SIZE \in Nat
      BY <1>1, Sizes
    <3> QED
      BY <3>1, MinTwo
  <2>2. most \in 0 .. MAX_SIZE /\ (pos + len <= size => most <= size)
    BY <1>1, <2>1, Sizes
  <2>3. endpos = IF write THEN most ELSE Min({most, size})
    BY DEF EndPos
  <2> HIDE DEF most, endpos, size
  <2>4. Min({most, size}) = IF most <= size THEN most ELSE size
    BY <1>1, <2>2, MinTwo, Sizes
  <2> QED
    BY <1>1, <2>2, <2>3, <2>4, Sizes
<1>3. Kept(s, s, f)
  BY <1>1, Reasons DEF Kept
<1>4. r = CASE pos >= MAX_SIZE -> [begun EXCEPT !.ret = E_INVAL]
            [] pos < MAX_SIZE /\ pos >= endpos -> begun
            [] OTHER -> sfs_io(s, f, pos, len, write)
  <2>1. CASE ~ (pos >= MAX_SIZE) /\ ~ (pos >= endpos)
    <3> HIDE DEF endpos, begun
    <3> QED
      BY <2>1
  <2>2. CASE pos >= MAX_SIZE
    <3>1. ~ (pos < MAX_SIZE)
      BY <2>2, Sizes
    <3> QED
      BY <2>2, <3>1 DEF sfs_io, EndPos
  <2>3. CASE ~ (pos >= MAX_SIZE) /\ pos >= endpos
    <3>1. pos < MAX_SIZE
      BY <2>3, Sizes
    <3> QED
      BY <2>3, <3>1 DEF sfs_io, EndPos
  <2> QED
    BY <2>1, <2>2, <2>3
<1> HIDE DEF endpos
<1>5. CASE pos >= MAX_SIZE \/ pos >= endpos
  <2>1. r.fs = s /\ r.pos = pos
    <3>1. CASE pos >= MAX_SIZE
      <4>1. ~ (pos < MAX_SIZE)
        BY <3>1, Sizes
      <4> QED
        BY <1>4, <3>1, <4>1
    <3>2. CASE ~ (pos >= MAX_SIZE) /\ pos >= endpos
      <4>1. pos < MAX_SIZE
        BY <3>2, Sizes
      <4> QED
        BY <1>4, <3>2, <4>1
    <3> QED
      BY <1>5, <3>1, <3>2
  <2>2. WroteTo(s, s, f)
    <3>1. 0 \in Index /\ 0 \in 0 .. NDIRECT + NENTRY
      BY Sizes DEF Index
    <3>2. SameData(s, s)
      BY DEF SameData
    <3>3. Put(s, s, f, 0, 0)
      BY <3>2, PutNone
    <3> QED
      BY <3>1, <3>3 DEF WroteTo
  <2> QED
    BY <1>3, <2>1, <2>2 DEF Transferred
<1>6. CASE ~ (pos >= MAX_SIZE) /\ ~ (pos >= endpos)
  <2>1. /\ pos < MAX_SIZE /\ pos < endpos /\ endpos \in Nat /\ endpos > 0
        /\ endpos - 1 \in Nat /\ pos <= endpos - 1
    BY <1>2, <1>6, Sizes
  <2>2. b \in Nat /\ (endpos - 1) \div BLKSIZE \in Nat /\ t \in Nat
    <3>1. b \in Nat /\ (endpos - 1) \div BLKSIZE \in Nat
      BY <1>1, <2>1, RoundUp
    <3> QED
      BY <3>1
  <2>3. b <= t
    <3>1. b <= (endpos - 1) \div BLKSIZE
      BY <2>1, SfsAssumption
    <3> QED
      BY <2>2, <3>1
  <2>4. t - 1 = (endpos - 1) \div BLKSIZE
    BY <2>2
  <2>5. PICK g : IoEq(g, s, f, pos, write, endpos, b, t) /\ r = g[t]
    <3>1. endpos = EndPos(s, f, pos, len, write)
      BY DEF endpos
    <3>2. t = (endpos - 1) \div BLKSIZE + 1 /\ b = pos \div BLKSIZE
      OBVIOUS
    <3> HIDE DEF t, b
    <3> QED
      BY <1>1, <2>1, <2>2, <2>3, <3>1, <3>2, IoIs
  <2> HIDE DEF t, b
  <2>6. /\ g[b] = IoRec(s, OK, pos)
        /\ \A n \in b + 1 .. t : g[n] = IoStep(f, write, endpos, n, g[n - 1])
    <3>1. \A n \in b .. t : g[n] = IF n = b THEN IoRec(s, OK, pos)
                                   ELSE IoStep(f, write, endpos, n, g[n - 1])
      BY <2>5 DEF IoEq
    <3>2. b \in b .. t /\ \A n \in b + 1 .. t : n \in b .. t /\ n # b
      BY <2>2, <2>3
    <3> QED
      BY <3>1, <3>2
  <2>7. IoDone(g[b], s, f, write, endpos)
    <3>1. g[b] = IoRec(g[b].fs, g[b].ret, g[b].pos) /\ g[b].fs = s /\ g[b].pos = pos
      BY <2>6 DEF IoRec
    <3> QED
      BY <1>3, <3>1 DEF IoDone
  <2> DEFINE Q == {n \in b .. t : IoDone(g[n], s, f, write, endpos)}
  <2>8. ASSUME NEW n \in b + 1 .. t, n - 1 \in Q
        PROVE  n \in Q
    <3>1. /\ n \in Nat /\ n - 1 \in Nat /\ n - 1 <= (endpos - 1) \div BLKSIZE
          /\ n \in b .. t
      BY <2>2, <2>4
    <3>2. IoDone(g[n - 1], s, f, write, endpos)
      BY <2>8
    <3>3. ~write => endpos <= s.sin[f].din.size
      BY <1>2
    <3>4. IoDone(IoStep(f, write, endpos, n, g[n - 1]), s, f, write, endpos)
      BY <1>2, <2>1, <3>1, <3>2, <3>3, IoBlock
    <3> QED
      BY <2>6, <3>1, <3>4
  <2>9. b \in Q /\ t \in b .. t /\ b \in Int /\ t \in Int
    <3>1. b \in b .. t /\ t \in b .. t /\ b \in Int /\ t \in Int
      BY <2>2, <2>3
    <3> QED
      BY <2>7, <3>1
  <2> HIDE DEF Q
  <2>10. t \in Q
    BY <2>8, <2>9, Along
  <2>11. IoDone(r, s, f, write, endpos)
    BY <2>5, <2>10 DEF Q
  <2>13. ASSUME write
         PROVE  WroteTo(r.fs, s, f)
    <3>1. IoPut(g[b], s, f, b, b)
      <4>1. g[b].fs = s /\ b \in b .. b /\ SameData(s, s)
        BY <2>2, <2>6 DEF IoRec, SameData
      <4>2. Put(s, s, f, b, b)
        BY <2>2, <4>1, PutNone
      <4> QED
        BY <4>1, <4>2 DEF IoPut
    <3> DEFINE W == {n \in b .. t : n \in Q /\ IoPut(g[n], s, f, b, n)}
    <3>2. ASSUME NEW n \in b + 1 .. t, n - 1 \in W
          PROVE  n \in W
      <4>1. n \in Int /\ n - 1 \in Nat /\ b <= n - 1 /\ n \in b .. t
        BY <2>2
      <4>2. IoDone(g[n - 1], s, f, write, endpos) /\ IoPut(g[n - 1], s, f, b, n - 1) /\ n - 1 \in Q
        BY <3>2 DEF Q
      <4>3. IoPut(IoStep(f, write, endpos, n, g[n - 1]), s, f, b, n)
        BY <2>13, <2>9, <4>1, <4>2, IoWrites
      <4>4. n \in Q
        BY <2>8, <4>2
      <4> QED
        BY <2>6, <4>1, <4>3, <4>4
    <3>3. b \in W
      BY <2>9, <3>1, <2>2 DEF Q
    <3> HIDE DEF W
    <3>4. t \in W
      BY <2>9, <3>2, <3>3, Along
    <3>5. PICK m \in b .. t : Put(r.fs, s, f, b, m)
      BY <2>5, <3>4 DEF W, IoPut
    <3>6. m \in Nat /\ b <= m
      BY <2>2
    <3> QED
      BY <2>2, <3>5, <3>6, PutWithin
  <2> QED
    BY <1>2, <1>6, <2>11, <2>13 DEF IoDone, Transferred
<1> QED
  BY <1>5, <1>6

----------------------------------------------------------------------------
(* Inodes come and go *)

\* s with v as the inode of f in memory, and m as the one on the disk.
Placed(s, f, v, m) ==
    FsRec(s.freemap, s.unused_blocks, s.super_dirty, [s.sin EXCEPT ![f] = v],
          [s.din EXCEPT ![f] = m], s.super, s.data, s.ents, s.panic)
PlacedIs(x, s, f, v, m) ==
    /\ x \in FsState
    /\ x.freemap = s.freemap /\ x.unused_blocks = s.unused_blocks
    /\ x.super_dirty = s.super_dirty /\ x.super = s.super /\ x.data = s.data
    /\ x.ents = s.ents /\ x.panic = s.panic /\ x.sin[f] = v /\ x.din[f] = m
    /\ \A g \in File \ {f} : x.sin[g] = s.sin[g] /\ x.din[g] = s.din[g]

\* s with v and m as the inodes of f is a state, and its fields are these.
LEMMA PlacedFields ==
    ASSUME NEW s \in FsState, NEW f \in File, NEW v \in Sin \cup {NULL}, NEW m \in Din,
           NEW x, x = Placed(s, f, v, m)
    PROVE  PlacedIs(x, s, f, v, m)
<1> DEFINE mi == [s.sin EXCEPT ![f] = v]
           di == [s.din EXCEPT ![f] = m]
<1>1. /\ s.freemap \in SUBSET Block /\ s.unused_blocks \in 0 .. BLOCKS
      /\ s.super_dirty \in BOOLEAN
      /\ s.sin \in [File -> Sin \cup {NULL}] /\ s.din \in [File -> Din]
      /\ s.super \in [freemap : SUBSET Block, unused_blocks : 0 .. BLOCKS]
      /\ s.data \in [Block -> {Zero} \cup (File \X Index)]
      /\ s.ents \in [Block -> [0 .. NENTRY - 1 -> Block \cup {none}]]
      /\ s.panic \in File \cup {NULL, OUT_OF_RANGE}
  BY FsFields
<1>2. /\ mi \in [File -> Sin \cup {NULL}] /\ mi[f] = v
      /\ di \in [File -> Din] /\ di[f] = m
      /\ \A g \in File \ {f} : mi[g] = s.sin[g] /\ di[g] = s.din[g]
  BY <1>1
<1>3. x = FsRec(s.freemap, s.unused_blocks, s.super_dirty, mi, di, s.super, s.data, s.ents,
                s.panic)
  BY DEF Placed
<1> HIDE DEF mi, di
<1>4. /\ x \in FsState
      /\ x.freemap = s.freemap /\ x.unused_blocks = s.unused_blocks
      /\ x.super_dirty = s.super_dirty /\ x.sin = mi /\ x.din = di /\ x.super = s.super
      /\ x.data = s.data /\ x.ents = s.ents /\ x.panic = s.panic
  BY ONLY <1>1, <1>2, <1>3, FsMake
<1> QED
  BY <1>2, <1>4 DEF PlacedIs

\* The inode v of f with another count.
Counted(v, rc) == SinRec(v.din, v.dirty, rc)

\* One more reference to an inode in memory.
RefMore(s, f) == [s EXCEPT !.sin[f].ref_count = @ + 1]

\* vop_ref_inc.
LEMMA MoreRefs ==
    ASSUME NEW s \in FsState, NEW f \in File, s.sin[f] # NULL, NEW x, x = RefMore(s, f)
    PROVE  PlacedIs(x, s, f, Counted(s.sin[f], s.sin[f].ref_count + 1), s.din[f])
<1> DEFINE u == s.sin[f]
           rc == u.ref_count + 1
           w == [u EXCEPT !.ref_count = @ + 1]
           v == Counted(u, rc)
           m == s.din[f]
<1>1. /\ s.sin \in [File -> Sin \cup {NULL}] /\ s.din \in [File -> Din]
      /\ u \in Sin /\ m \in Din
  BY FsFields
<1>2. /\ u = SinRec(u.din, u.dirty, u.ref_count)
      /\ u.din \in Din /\ u.dirty \in BOOLEAN /\ u.ref_count \in Nat \ {0}
  BY <1>1, SinFields
<1>3. w = v
  <2> HIDE DEF u
  <2>1. w = [SinRec(u.din, u.dirty, u.ref_count) EXCEPT !.ref_count = @ + 1]
    BY <1>2
  <2> HIDE DEF w
  <2> QED
    BY <2>1 DEF SinRec, Counted
<1>4. v \in Sin \cup {NULL}
  <2>1. rc \in Nat \ {0}
    BY <1>2
  <2> HIDE DEF rc
  <2> QED
    BY <1>2, <2>1, SinFields DEF Counted
<1>5. x = [s EXCEPT !.sin = [s.sin EXCEPT ![f] = w]]
  BY FsFields DEF FsRec, RefMore
<1>6. m = s.din[f]
  OBVIOUS
<1> HIDE DEF w, v, m
<1>7. x = Placed(s, f, v, m)
  <2>1. [s.din EXCEPT ![f] = m] = s.din
    BY <1>1, <1>6
  <2> DEFINE mi == [s.sin EXCEPT ![f] = w]
  <2> HIDE DEF mi
  <2>2. x = [FsRec(s.freemap, s.unused_blocks, s.super_dirty, s.sin, s.din, s.super,
                   s.data, s.ents, s.panic) EXCEPT !.sin = mi]
    BY <1>5, FsFields DEF mi
  <2>3. x = FsRec(s.freemap, s.unused_blocks, s.super_dirty, mi, s.din, s.super,
                  s.data, s.ents, s.panic)
    BY <2>2 DEF FsRec
  <2> QED
    BY <1>3, <2>1, <2>3 DEF Placed, mi
<1>8. PlacedIs(x, s, f, v, m)
  BY <1>1, <1>4, <1>6, <1>7, PlacedFields
<1> QED
  BY <1>8 DEF v, m

\* The inode of f as the next lookup of f has it.
LoadedSin(s, f) ==
    IF s.sin[f] = NULL THEN SinRec(s.din[f], FALSE, 1)
    ELSE Counted(s.sin[f], s.sin[f].ref_count + 1)

\* sfs_load_inode, whether the inode is in memory or not.
LEMMA LoadInode ==
    ASSUME NEW s \in FsState, NEW f \in File, NEW x, x = sfs_load_inode(s, f)
    PROVE  PlacedIs(x, s, f, LoadedSin(s, f), s.din[f])
<1>1. CASE s.sin[f] # NULL
  <2> DEFINE y == RefMore(s, f)
  <2>1. x = y
    <3> DEFINE w == [s.sin[f] EXCEPT !.ref_count = @ + 1]
    <3>1. x = [s EXCEPT !.sin[f] = w]
      BY <1>1 DEF sfs_load_inode
    <3>2. y = [s EXCEPT !.sin[f] = w]
      BY FsFields DEF FsRec, RefMore
    <3> QED
      BY <3>1, <3>2
  <2> HIDE DEF y
  <2>2. y = RefMore(s, f)
    BY DEF y
  <2>3. PlacedIs(y, s, f, Counted(s.sin[f], s.sin[f].ref_count + 1), s.din[f])
    BY <1>1, <2>2, MoreRefs
  <2> QED
    BY <1>1, <2>1, <2>3 DEF LoadedSin
<1>2. CASE s.sin[f] = NULL
  <2> DEFINE fl == FALSE
             rc == 1
             m == s.din[f]
             v == SinRec(m, fl, rc)
  <2>1. s.sin \in [File -> Sin \cup {NULL}] /\ s.din \in [File -> Din] /\ m \in Din
    BY FsFields
  <2>2. v \in Sin \cup {NULL}
    <3>1. fl \in BOOLEAN /\ rc \in Nat \ {0}
      OBVIOUS
    <3> HIDE DEF fl, rc, m
    <3> QED
      BY <2>1, <3>1, SinFields
  <2>3. x = [s EXCEPT !.sin[f] = v]
    BY <1>2 DEF sfs_load_inode, SinRec
  <2>4. m = s.din[f] /\ v = LoadedSin(s, f)
    BY <1>2 DEF LoadedSin
  <2> HIDE DEF v, m
  <2>5. x = Placed(s, f, v, m)
    <3>1. [s.din EXCEPT ![f] = m] = s.din
      BY <2>1, <2>4
    <3>2. x = [FsRec(s.freemap, s.unused_blocks, s.super_dirty, s.sin, s.din, s.super,
                     s.data, s.ents, s.panic) EXCEPT !.sin[f] = v]
      BY <2>3, FsFields
    <3>3. x = FsRec(s.freemap, s.unused_blocks, s.super_dirty, [s.sin EXCEPT ![f] = v], s.din,
                    s.super, s.data, s.ents, s.panic)
      BY <3>2 DEF FsRec
    <3> QED
      BY <3>1, <3>3 DEF Placed
  <2>6. PlacedIs(x, s, f, v, m)
    BY <2>1, <2>2, <2>5, PlacedFields
  <2> QED
    BY <2>4, <2>6
<1> QED
  BY <1>1, <1>2

\* What sfs_fsync writes, if anything.
Written(s, f) == IF s.sin[f].dirty THEN s.sin[f].din ELSE s.din[f]

\* sfs_fsync, of an inode that is dirty and of one that is not.
LEMMA FsyncIs ==
    ASSUME NEW s \in FsState, NEW f \in File, s.sin[f] # NULL, NEW x, x = sfs_fsync(s, f)
    PROVE  PlacedIs(x, s, f, SinRec(s.sin[f].din, FALSE, s.sin[f].ref_count), Written(s, f))
<1> DEFINE u == s.sin[f]
           fl == FALSE
           v == SinRec(u.din, fl, u.ref_count)
           m == Written(s, f)
<1>1. s.sin \in [File -> Sin \cup {NULL}] /\ s.din \in [File -> Din] /\ u \in Sin
  BY FsFields
<1>2. /\ u = SinRec(u.din, u.dirty, u.ref_count)
      /\ u.din \in Din /\ u.dirty \in BOOLEAN /\ u.ref_count \in Nat \ {0} /\ fl \in BOOLEAN
  BY <1>1, SinFields
<1>3. v \in Sin \cup {NULL} /\ m \in Din
  <2>1. m \in Din
    BY <1>1, <1>2 DEF Written
  <2> HIDE DEF fl, u, m
  <2> QED
    BY <1>2, <2>1, SinFields
<1>4. x = Placed(s, f, v, m)
  <2>1. CASE u.dirty
    <3>1. m = u.din
      BY <2>1 DEF Written
    <3> DEFINE w == [u EXCEPT !.dirty = FALSE]
    <3>2. w = v
      <4> HIDE DEF u
      <4>1. w = [SinRec(u.din, u.dirty, u.ref_count) EXCEPT !.dirty = FALSE]
        BY <1>2
      <4> HIDE DEF w
      <4> QED
        BY <4>1 DEF SinRec
    <3>3. x = [s EXCEPT !.sin[f].dirty = FALSE, !.din[f] = u.din]
      BY <2>1 DEF sfs_fsync
    <3>4. x = [FsRec(s.freemap, s.unused_blocks, s.super_dirty, s.sin, s.din, s.super,
                     s.data, s.ents, s.panic) EXCEPT !.sin[f].dirty = FALSE, !.din[f] = u.din]
      BY <3>3, FsFields
    <3>5. x = FsRec(s.freemap, s.unused_blocks, s.super_dirty, [s.sin EXCEPT ![f] = w],
                    [s.din EXCEPT ![f] = u.din], s.super, s.data, s.ents, s.panic)
      BY <3>4 DEF FsRec
    <3> HIDE DEF w, v, m
    <3> QED
      BY <3>1, <3>2, <3>5 DEF Placed
  <2>2. CASE ~u.dirty
    <3>1. m = s.din[f] /\ x = s
      BY <2>2 DEF Written, sfs_fsync
    <3>2. u = v
      <4> HIDE DEF u
      <4> QED
        BY <1>2, <2>2
    <3>3. [s.sin EXCEPT ![f] = u] = s.sin /\ [s.din EXCEPT ![f] = m] = s.din
      BY <1>1, <3>1
    <3> HIDE DEF v, m
    <3>4. s = FsRec(s.freemap, s.unused_blocks, s.super_dirty, s.sin, s.din, s.super,
                    s.data, s.ents, s.panic)
      BY FsFields
    <3>5. Placed(s, f, v, m) = FsRec(s.freemap, s.unused_blocks, s.super_dirty, s.sin, s.din,
                                     s.super, s.data, s.ents, s.panic)
      BY <3>2, <3>3 DEF Placed
    <3> QED
      BY <3>1, <3>4, <3>5
  <2> QED
    BY <2>1, <2>2
<1> HIDE DEF v, m
<1>5. PlacedIs(x, s, f, v, m)
  BY <1>3, <1>4, PlacedFields
<1> QED
  BY <1>5 DEF v, m

\* vfs_close, of the last reference and of another one.
ClosedSin(s, f) ==
    IF s.sin[f].ref_count > 1 THEN Counted(s.sin[f], s.sin[f].ref_count - 1) ELSE NULL
ClosedDin(s, f) == IF s.sin[f].ref_count > 1 THEN s.din[f] ELSE Written(s, f)

\* vop_ref_dec, and sfs_reclaim with the last reference.
LEMMA CloseIs ==
    ASSUME NEW s \in FsState, NEW f \in File, s.sin[f] # NULL, NEW x, x = vfs_close(s, f)
    PROVE  PlacedIs(x, s, f, ClosedSin(s, f), ClosedDin(s, f))
<1> DEFINE u == s.sin[f]
<1>1. s.sin \in [File -> Sin \cup {NULL}] /\ s.din \in [File -> Din] /\ u \in Sin
  BY FsFields
<1>2. /\ u = SinRec(u.din, u.dirty, u.ref_count)
      /\ u.din \in Din /\ u.dirty \in BOOLEAN /\ u.ref_count \in Nat \ {0}
  BY <1>1, SinFields
<1>3. CASE u.ref_count > 1
  <2> DEFINE rc == u.ref_count - 1
             w == [u EXCEPT !.ref_count = @ - 1]
             v == Counted(u, rc)
             m == s.din[f]
  <2>1. w = v
    <3> HIDE DEF u
    <3>1. w = [SinRec(u.din, u.dirty, u.ref_count) EXCEPT !.ref_count = @ - 1]
      BY <1>2
    <3> HIDE DEF w
    <3> QED
      BY <3>1 DEF SinRec, Counted
  <2>2. v \in Sin \cup {NULL}
    <3>1. rc \in Nat \ {0}
      BY <1>2, <1>3
    <3> HIDE DEF rc
    <3> QED
      BY <1>2, <3>1, SinFields DEF Counted
  <2>3. x = [s EXCEPT !.sin[f].ref_count = @ - 1]
    BY <1>3 DEF vfs_close
  <2>4. x = [FsRec(s.freemap, s.unused_blocks, s.super_dirty, s.sin, s.din, s.super,
                   s.data, s.ents, s.panic) EXCEPT !.sin[f].ref_count = @ - 1]
    BY <2>3, FsFields
  <2>5. x = FsRec(s.freemap, s.unused_blocks, s.super_dirty, [s.sin EXCEPT ![f] = w], s.din,
                  s.super, s.data, s.ents, s.panic)
    BY <2>4 DEF FsRec
  <2>6. m = s.din[f] /\ m \in Din /\ v = ClosedSin(s, f) /\ m = ClosedDin(s, f)
    BY <1>1, <1>3 DEF ClosedSin, ClosedDin
  <2> HIDE DEF w, v, m
  <2>7. [s.din EXCEPT ![f] = m] = s.din
    BY <1>1, <2>6
  <2>8. x = Placed(s, f, v, m)
    BY <2>1, <2>5, <2>7 DEF Placed
  <2>9. PlacedIs(x, s, f, v, m)
    BY <2>2, <2>6, <2>8, PlacedFields
  <2> QED
    BY <2>6, <2>9
<1>4. CASE ~ (u.ref_count > 1)
  <2> DEFINE y == sfs_fsync(s, f)
             v == NULL
             m == Written(s, f)
  <2>1. x = [y EXCEPT !.sin[f] = NULL]
    BY <1>4 DEF vfs_close
  <2>2. y = sfs_fsync(s, f) /\ v = NULL /\ v = ClosedSin(s, f) /\ m = ClosedDin(s, f)
    BY <1>4 DEF ClosedSin, ClosedDin
  <2>3. m \in Din
    BY <1>1, <1>2 DEF Written
  <2> HIDE DEF y, m
  <2>4. PlacedIs(y, s, f, SinRec(u.din, FALSE, u.ref_count), Written(s, f))
    BY <2>2, FsyncIs
  <2>5. /\ y \in FsState /\ y.freemap = s.freemap /\ y.unused_blocks = s.unused_blocks
        /\ y.super_dirty = s.super_dirty /\ y.super = s.super /\ y.data = s.data
        /\ y.ents = s.ents /\ y.panic = s.panic /\ y.din[f] = m
        /\ \A g \in File \ {f} : y.sin[g] = s.sin[g] /\ y.din[g] = s.din[g]
    BY <2>4 DEF PlacedIs, m
  <2>6. x = Placed(y, f, v, m)
    <3>1. y.sin \in [File -> Sin \cup {NULL}] /\ y.din \in [File -> Din]
      BY <2>5, FsFields
    <3>2. [y.din EXCEPT ![f] = m] = y.din
      BY <2>5, <3>1
    <3>3. x = [FsRec(y.freemap, y.unused_blocks, y.super_dirty, y.sin, y.din, y.super,
                     y.data, y.ents, y.panic) EXCEPT !.sin[f] = v]
      BY <2>1, <2>5, FsFields
    <3> HIDE DEF v
    <3>4. x = FsRec(y.freemap, y.unused_blocks, y.super_dirty, [y.sin EXCEPT ![f] = v], y.din,
                    y.super, y.data, y.ents, y.panic)
      BY <3>3 DEF FsRec
    <3> QED
      BY <3>2, <3>4 DEF Placed
  <2>7. PlacedIs(x, y, f, v, m)
    <3>1. v \in Sin \cup {NULL}
      OBVIOUS
    <3> HIDE DEF v
    <3> QED
      BY <2>3, <2>5, <2>6, <3>1, PlacedFields
  <2>8. PlacedIs(x, s, f, v, m)
    BY <2>5, <2>7 DEF PlacedIs
  <2> QED
    BY <2>2, <2>8
<1> QED
  BY <1>3, <1>4

----------------------------------------------------------------------------
(* The invariant *)

\* What is said of an inode n that is not dirty, m being the one on the disk.
OnDisk(n, m) ==
    n.size = m.size /\ n.direct = m.direct /\ n.indirect = m.indirect /\ m.blocks <= n.blocks

FileOK(s, g) ==
    /\ ROUNDUP_DIV(Cur(s, g).size) <= Cur(s, g).blocks
    /\ ROUNDUP_DIV(s.din[g].size) <= s.din[g].blocks
    /\ \A i \in Index : i < Cur(s, g).blocks => Refs(s)[<<g, i>>] # none
    /\ s.sin[g] # NULL /\ ~s.sin[g].dirty => OnDisk(s.sin[g].din, s.din[g])

\* The blocks and the size of g have not come apart, in memory or on the disk.
Even(s, g) ==
    /\ Cur(s, g).blocks = ROUNDUP_DIV(Cur(s, g).size)
    /\ s.sin[g] # NULL /\ ~s.sin[g].dirty => s.din[g].blocks = s.sin[g].din.blocks

SuperOK(s) ==
    ~s.super_dirty =>
        s.super.freemap = s.freemap /\ s.super.unused_blocks = s.unused_blocks

Disk(s) == Blocks(s) /\ SuperOK(s) /\ \A g \in File : FileOK(s, g)

\* The references to the inode of g in memory, and the descriptors of g.
RefCount(s, g) == IF s.sin[g] = NULL THEN 0 ELSE s.sin[g].ref_count
Opens(a, g) == {d \in Fd : a[d] # NULL /\ a[d].node = g}

FdArray == [Fd -> Desc \cup {NULL}]

\* Every entry of the inode of f has its block.
NoEntryLeft(s, f) == \A i \in Index : Refs(s)[<<f, i>>] # none

\* The files whose blocks and size may have come apart are those in u; asserts have
\* failed for no others, and an index was out of range for a file that has no entry left.
Apart(s, u) ==
    /\ u \subseteq File /\ \A g \in File \ u : Even(s, g)
    /\ s.panic \in u \cup {NULL, OUT_OF_RANGE}
    /\ s.panic = OUT_OF_RANGE => \E f \in u : NoEntryLeft(s, f)

Sound(s, a, u) ==
    /\ Disk(s) /\ Apart(s, u) /\ a \in FdArray
    /\ \A g \in File : RefCount(s, g) = Cardinality(Opens(a, g))

IInv ==
    /\ Sound(fs, fd_array, uneven) /\ halted \in BOOLEAN
    /\ halted => ~fs.super_dirty /\ \A g \in File : fs.sin[g] = NULL

\* A file that a step does nothing to.
LEMMA OtherFile ==
    ASSUME NEW s, NEW x, NEW g \in File, x.sin[g] = s.sin[g], x.din[g] = s.din[g],
           \A k \in Place : Refs(x)[<<g, k>>] = Refs(s)[<<g, k>>]
    PROVE  /\ Cur(x, g) = Cur(s, g)
           /\ FileOK(s, g) => FileOK(x, g)
           /\ Even(s, g) => Even(x, g)
           /\ RefCount(x, g) = RefCount(s, g)
<1>1. Cur(x, g) = Cur(s, g)
  BY DEF Cur
<1>2. FileOK(s, g) => FileOK(x, g)
  BY <1>1, Sizes DEF FileOK
<1>3. Even(s, g) => Even(x, g)
  BY <1>1 DEF Even
<1>4. RefCount(x, g) = RefCount(s, g)
  BY DEF RefCount
<1> QED
  BY <1>1, <1>2, <1>3, <1>4

\* What a step for f keeps of the others, and of the numbers of references.
Rest(x, s, f) ==
    /\ \A g \in File \ {f} : Even(s, g) => Even(x, g)
    /\ \A g \in File : x.sin[g] = NULL <=> s.sin[g] = NULL
    /\ \A g \in File : RefCount(x, g) = RefCount(s, g)

\* Blocks were added to f.
LEMMA KeptDisk ==
    ASSUME NEW s, Disk(s), NEW f \in File, s.sin[f] # NULL, NEW x, Kept(x, s, f)
    PROVE  Disk(x) /\ Rest(x, s, f)
<1>1. /\ Same(x, s, f) /\ Blocks(x) /\ Covered(x, f) /\ Blocks(s) /\ SuperOK(s)
      /\ x.sin[f].din.blocks >= s.sin[f].din.blocks /\ FileOK(s, f)
      /\ x.sin[f] # NULL /\ x.din = s.din /\ x.super = s.super
      /\ s \in FsState /\ x \in FsState
  BY DEF Disk, Kept, Same, Blocks
<1>2. SuperOK(x)
  BY <1>1 DEF SuperOK, Same
<1>3. ASSUME NEW g \in File \ {f}
      PROVE  FileOK(x, g) /\ (Even(s, g) => Even(x, g))
  <2>1. x.sin[g] = s.sin[g] /\ \A k \in Place : Refs(x)[<<g, k>>] = Refs(s)[<<g, k>>]
    BY <1>1 DEF Same
  <2>2. FileOK(s, g)
    BY DEF Disk
  <2> QED
    BY <1>1, <2>1, <2>2, OtherFile
<1>4. FileOK(x, f)
  <2>1. Cur(x, f) = x.sin[f].din /\ Cur(s, f) = s.sin[f].din
    BY <1>1 DEF Cur
  <2>2. x.sin[f].din \in Din /\ s.sin[f].din \in Din /\ s.din[f] \in Din
    BY <1>1, <2>1, RefsFacts, FsFields
  <2>3. /\ x.sin[f].din.blocks \in Nat /\ s.sin[f].din.blocks \in Nat
        /\ s.din[f].blocks \in Nat /\ s.sin[f].din.size \in Nat
    <3>1. \A n \in Din : n.blocks \in Nat /\ n.size \in Nat
      BY Sizes DEF Din
    <3> QED
      BY <2>2, <3>1
  <2>4. ROUNDUP_DIV(s.sin[f].din.size) \in Nat /\ x.sin[f].din.size = s.sin[f].din.size
    BY <1>1, <2>3, RoundUp DEF Same
  <2>5. ROUNDUP_DIV(x.sin[f].din.size) <= x.sin[f].din.blocks
    <3>1. ROUNDUP_DIV(s.sin[f].din.size) <= s.sin[f].din.blocks
      BY <1>1, <2>1 DEF FileOK
    <3> QED
      BY <1>1, <2>3, <2>4, <3>1
  <2>6. ASSUME ~x.sin[f].dirty
        PROVE  OnDisk(x.sin[f].din, x.din[f])
    <3>1. /\ ~s.sin[f].dirty /\ x.sin[f].din.direct = s.sin[f].din.direct
          /\ x.sin[f].din.indirect = s.sin[f].din.indirect
      BY <1>1, <2>6 DEF Same
    <3>2. OnDisk(s.sin[f].din, s.din[f])
      BY <1>1, <3>1 DEF FileOK
    <3> QED
      BY <1>1, <2>3, <2>4, <3>1, <3>2 DEF OnDisk
  <2>7. ROUNDUP_DIV(x.din[f].size) <= x.din[f].blocks
    BY <1>1 DEF FileOK
  <2>8. \A i \in Index : i < Cur(x, f).blocks => Refs(x)[<<f, i>>] # none
    BY <1>1, <2>1 DEF Covered
  <2> QED
    BY <2>1, <2>5, <2>6, <2>7, <2>8 DEF FileOK
<1>5. Disk(x)
  BY <1>1, <1>2, <1>3, <1>4 DEF Disk
<1>6. Rest(x, s, f)
  BY <1>1, <1>3 DEF Rest, Same, RefCount
<1> QED
  BY <1>5, <1>6

\* The kernel stopped at an index out of range: no entry is left.
LEMMA FullEntries ==
    ASSUME NEW x, NEW f \in File, Full(x, f), Covered(x, f)
    PROVE  NoEntryLeft(x, f)
<1>1. \A i \in Index : i < NDIRECT + NENTRY
  BY Sizes
<1> QED
  BY <1>1 DEF Full, Covered, NoEntryLeft

\* Parts of a call that leave the places alone.
LEMMA ApartKept ==
    ASSUME NEW s, NEW u, Apart(s, u), NEW x, x.panic = s.panic, s.panic = NULL,
           \A g \in File : Even(s, g) => Even(x, g)
    PROVE  Apart(x, u)
  BY Reasons DEF Apart

\* An assert failed for f.
LEMMA PanickedDisk ==
    ASSUME NEW s, Disk(s), NEW f \in File, s.sin[f] # NULL, NEW x, Panicked(x, s, f)
    PROVE  Disk(x) /\ Rest(x, s, f)
<1>1. /\ Refs(x) = Refs(s) /\ Blocks(x) /\ x.sin = s.sin /\ x.din = s.din /\ x.super = s.super
      /\ x.super_dirty = s.super_dirty /\ x.freemap = s.freemap
      /\ x.unused_blocks = s.unused_blocks
  BY PanickedRefs DEF Disk, Panicked
<1>2. ASSUME NEW g \in File
      PROVE  FileOK(x, g) /\ (Even(s, g) => Even(x, g))
  <2>1. FileOK(s, g)
    BY DEF Disk
  <2> QED
    BY <1>1, <2>1, OtherFile
<1>3. SuperOK(x)
  BY <1>1 DEF SuperOK, Disk
<1> QED
  BY <1>1, <1>2, <1>3 DEF Disk, Rest, RefCount

\* The size of f was set.
LEMMA SizedDisk ==
    ASSUME NEW s, Disk(s), NEW f \in File, s.sin[f] # NULL, NEW len \in 0 .. MAX_SIZE,
           NEW x, Sized(x, s, f, len)
    PROVE  Disk(x) /\ Rest(x, s, f) /\ Even(x, f)
<1>1. /\ Blocks(x) /\ Covered(x, f) /\ x.din = s.din /\ x.super = s.super
      /\ x.sin[f] # NULL /\ x.sin[f].dirty /\ x.sin[f].ref_count = s.sin[f].ref_count
      /\ x.sin[f].din.size = len /\ x.sin[f].din.blocks = ROUNDUP_DIV(len)
      /\ \A g \in File \ {f} : x.sin[g] = s.sin[g]
  BY DEF Sized
<1>2. SuperOK(x)
  BY DEF SuperOK, Sized, Disk
<1>3. ASSUME NEW g \in File \ {f}
      PROVE  FileOK(x, g) /\ (Even(s, g) => Even(x, g))
  <2>1. x.sin[g] = s.sin[g] /\ \A k \in Place : Refs(x)[<<g, k>>] = Refs(s)[<<g, k>>]
    BY DEF Sized
  <2>2. FileOK(s, g)
    BY DEF Disk
  <2> QED
    BY <1>1, <2>1, <2>2, OtherFile
<1>4. Cur(x, f) = x.sin[f].din
  BY <1>1 DEF Cur
<1>5. Even(x, f)
  BY <1>1, <1>4 DEF Even
<1>6. FileOK(x, f)
  <2>1. ROUNDUP_DIV(len) <= ROUNDUP_DIV(len)
    <3>1. ROUNDUP_DIV(len) \in Nat
      BY RoundUp, Sizes
    <3> QED
      BY <3>1
  <2>2. ROUNDUP_DIV(x.din[f].size) <= x.din[f].blocks
    BY <1>1 DEF FileOK, Disk
  <2>3. \A i \in Index : i < Cur(x, f).blocks => Refs(x)[<<f, i>>] # none
    BY <1>1, <1>4 DEF Covered
  <2> QED
    BY <1>1, <1>4, <2>1, <2>2, <2>3 DEF FileOK
<1>7. Disk(x)
  BY <1>1, <1>2, <1>3, <1>6 DEF Disk
<1>8. Rest(x, s, f)
  BY <1>1, <1>3 DEF Rest, RefCount
<1> QED
  BY <1>5, <1>7, <1>8

\* No file is another one to its readers.
SameStore(x, s) == SameData(x, s) /\ \A g \in File : Cur(x, g).size = Cur(s, g).size

\* x is s after a part of a call that does not touch the map: n references to f are left,
\* and no file comes apart.
Moved(x, s, f, n) ==
    /\ Disk(x) /\ x.panic = s.panic /\ RefCount(x, f) = n
    /\ \A g \in File : Even(s, g) => Even(x, g)
    /\ \A g \in File \ {f} : RefCount(x, g) = RefCount(s, g)
    /\ SameStore(x, s)

\* The numbers in an inode.
LEMMA DinNumbers ==
    ASSUME NEW n \in Din
    PROVE  n.blocks \in Nat /\ n.size \in Nat /\ ROUNDUP_DIV(n.size) \in Nat
<1>1. n.blocks \in Nat /\ n.size \in Nat
  BY Sizes DEF Din
<1> QED
  BY <1>1, RoundUp

\* The places are where they were if the inode names the same blocks.
LEMMA PlacedRefs ==
    ASSUME NEW s, Blocks(s), NEW f \in File, NEW v, NEW m, NEW x, PlacedIs(x, s, f, v, m),
           Cur(x, f).direct = Cur(s, f).direct, Cur(x, f).indirect = Cur(s, f).indirect
    PROVE  Refs(x) = Refs(s) /\ Blocks(x)
<1>1. /\ x \in FsState /\ x.ents = s.ents /\ x.freemap = s.freemap
      /\ x.unused_blocks = s.unused_blocks
      /\ \A g \in File \ {f} : Cur(x, g) = Cur(s, g)
  BY DEF PlacedIs, Cur
<1>2. \A g \in File : /\ Cur(x, g).direct = Cur(s, g).direct
                      /\ Cur(x, g).indirect = Cur(s, g).indirect
  BY <1>1
<1>3. ASSUME NEW g \in File
      PROVE  \A k \in Place : Refs(x)[<<g, k>>] = Refs(s)[<<g, k>>]
  <2>1. Cur(s, g).indirect # none => x.ents[Cur(s, g).indirect] = s.ents[Cur(s, g).indirect]
    BY <1>1
  <2> QED
    BY <1>2, <2>1, SameRefs
<1>4. Refs(x) = Refs(s)
  <2>1. \A z \in Places_ : Refs(x)[z] = Refs(s)[z]
    BY <1>3 DEF Places_
  <2> QED
    BY <2>1 DEF Refs
<1> QED
  BY <1>1, <1>4 DEF Blocks

\* The disk is sound if the inode, besides, has the blocks that its size takes.
LEMMA PlacedDisk ==
    ASSUME NEW s, Disk(s), NEW f \in File, NEW v, NEW m, NEW x, PlacedIs(x, s, f, v, m),
           Cur(x, f).direct = Cur(s, f).direct, Cur(x, f).indirect = Cur(s, f).indirect,
           Cur(x, f).blocks <= Cur(s, f).blocks, Cur(x, f).size = Cur(s, f).size,
           ROUNDUP_DIV(Cur(x, f).size) <= Cur(x, f).blocks, ROUNDUP_DIV(m.size) <= m.blocks,
           v # NULL /\ ~v.dirty => OnDisk(v.din, m),
           Even(s, f) => Even(x, f), NEW n, n = RefCount(x, f)
    PROVE  Moved(x, s, f, n)
<1>1. Refs(x) = Refs(s) /\ Blocks(x)
  BY PlacedRefs DEF Disk
<1>2. SuperOK(x)
  BY DEF SuperOK, Disk, PlacedIs
<1>3. ASSUME NEW g \in File \ {f}
      PROVE  /\ FileOK(x, g) /\ (Even(s, g) => Even(x, g))
             /\ RefCount(x, g) = RefCount(s, g)
  <2>1. x.sin[g] = s.sin[g] /\ x.din[g] = s.din[g]
    BY DEF PlacedIs
  <2>2. FileOK(s, g)
    BY DEF Disk
  <2> QED
    BY <1>1, <2>1, <2>2, OtherFile DEF RefCount
<1>4. FileOK(x, f)
  <2>1. x.sin[f] = v /\ x.din[f] = m
    BY DEF PlacedIs
  <2>2. \A i \in Index : i < Cur(x, f).blocks => Refs(x)[<<f, i>>] # none
    <3>1. Cur(x, f).blocks \in Nat /\ Cur(s, f).blocks \in Nat
      <4>1. Cur(x, f) \in Din /\ Cur(s, f) \in Din
        BY <1>1, RefsFacts DEF Disk, Blocks
      <4> QED
        BY <4>1, DinNumbers
    <3>2. \A i \in Index : i < Cur(s, f).blocks => Refs(s)[<<f, i>>] # none
      BY DEF Disk, FileOK
    <3>3. Index \subseteq Nat
      BY Sizes
    <3> QED
      BY <1>1, <3>1, <3>2, <3>3
  <2> QED
    BY <2>1, <2>2 DEF FileOK
<1>5. Disk(x)
  BY <1>1, <1>2, <1>3, <1>4 DEF Disk
<1>6. x.panic = s.panic
  BY DEF PlacedIs
<1>7. SameStore(x, s)
  <2>1. SameData(x, s)
    BY <1>1, RefsData DEF PlacedIs
  <2>2. \A g \in File \ {f} : Cur(x, g) = Cur(s, g)
    BY DEF PlacedIs, Cur
  <2> QED
    BY <2>1, <2>2 DEF SameStore
<1> QED
  BY <1>3, <1>5, <1>6, <1>7 DEF Moved

\* What Disk says of the inodes of a file.
LEMMA DiskInodes ==
    ASSUME NEW s, Disk(s), NEW f \in File
    PROVE  /\ s \in FsState /\ Cur(s, f) \in Din /\ s.din[f] \in Din
           /\ ROUNDUP_DIV(Cur(s, f).size) <= Cur(s, f).blocks
           /\ ROUNDUP_DIV(s.din[f].size) <= s.din[f].blocks
           /\ Cur(s, f).blocks <= Cur(s, f).blocks
           /\ s.sin[f] # NULL => /\ Cur(s, f) = s.sin[f].din /\ s.sin[f].din \in Din
                                 /\ s.sin[f].dirty \in BOOLEAN
                                 /\ s.sin[f].ref_count \in Nat \ {0}
           /\ s.sin[f] = NULL => Cur(s, f) = s.din[f]
           /\ s.sin[f] # NULL /\ ~s.sin[f].dirty => OnDisk(s.sin[f].din, s.din[f])
<1>1. s \in FsState /\ FileOK(s, f)
  BY DEF Disk, Blocks
<1>2. Cur(s, f) \in Din
  BY <1>1, RefsFacts
<1>3. s.sin[f] \in Sin \cup {NULL} /\ s.din[f] \in Din
  BY <1>1, FsFields
<1>4. Cur(s, f).blocks <= Cur(s, f).blocks
  <2>1. Cur(s, f).blocks \in Nat
    BY <1>2, DinNumbers
  <2> QED
    BY <2>1
<1>5. s.sin[f] # NULL => /\ Cur(s, f) = s.sin[f].din /\ s.sin[f].din \in Din
                         /\ s.sin[f].dirty \in BOOLEAN
                         /\ s.sin[f].ref_count \in Nat \ {0}
  <2>1. \A n \in Sin : n.din \in Din /\ n.dirty \in BOOLEAN /\ n.ref_count \in Nat \ {0}
    BY SinFields
  <2> QED
    BY <1>3, <2>1 DEF Cur
<1> QED
  BY <1>1, <1>2, <1>3, <1>4, <1>5 DEF FileOK, Cur

\* The inode with another count, by its fields.
LEMMA CountedFields ==
    ASSUME NEW s, Disk(s), NEW f \in File, s.sin[f] # NULL, NEW rc \in Nat \ {0},
           NEW v, v = Counted(s.sin[f], rc)
    PROVE  v # NULL /\ v.din = s.sin[f].din /\ v.dirty = s.sin[f].dirty /\ v.ref_count = rc
<1>1. s.sin[f].din \in Din /\ s.sin[f].dirty \in BOOLEAN
  BY DiskInodes
<1> QED
  BY <1>1, SinFields DEF Counted

\* The inode has another count, and nothing else has changed.
LEMMA CountedDisk ==
    ASSUME NEW s, Disk(s), NEW f \in File, s.sin[f] # NULL, NEW rc \in Nat \ {0},
           NEW x, PlacedIs(x, s, f, Counted(s.sin[f], rc), s.din[f])
    PROVE  Moved(x, s, f, rc) /\ x.sin[f] # NULL
<1> DEFINE v == Counted(s.sin[f], rc)
           m == s.din[f]
<1>1. v # NULL /\ v.din = s.sin[f].din /\ v.dirty = s.sin[f].dirty /\ v.ref_count = rc
  BY CountedFields
<1>2. PlacedIs(x, s, f, v, m) /\ m = s.din[f]
  OBVIOUS
<1> HIDE DEF v, m
<1>3. x.sin[f] = v /\ x.din[f] = m
  BY <1>2 DEF PlacedIs
<1>4. /\ Cur(s, f) = s.sin[f].din /\ Cur(s, f).blocks <= Cur(s, f).blocks
      /\ ROUNDUP_DIV(Cur(s, f).size) <= Cur(s, f).blocks
      /\ ROUNDUP_DIV(m.size) <= m.blocks
      /\ ~s.sin[f].dirty => OnDisk(s.sin[f].din, s.din[f])
  BY <1>2, DiskInodes
<1>5. Cur(x, f) = Cur(s, f)
  BY <1>1, <1>3, <1>4 DEF Cur
<1>6. Even(s, f) => Even(x, f)
  BY <1>1, <1>2, <1>3, <1>5 DEF Even
<1>7. RefCount(x, f) = rc
  BY <1>1, <1>3 DEF RefCount
<1>8. v # NULL /\ ~v.dirty => OnDisk(v.din, m)
  BY <1>1, <1>2, <1>4
<1>9. Moved(x, s, f, rc)
  BY <1>2, <1>4, <1>5, <1>6, <1>7, <1>8, PlacedDisk
<1> QED
  BY <1>1, <1>3, <1>9

\* vfs_lookup takes a reference,
LEMMA LoadDisk ==
    ASSUME NEW s, Disk(s), NEW f \in File, NEW x, x = sfs_load_inode(s, f)
    PROVE  Moved(x, s, f, RefCount(s, f) + 1) /\ x.sin[f] # NULL
<1>0. s \in FsState
  BY DEF Disk, Blocks
<1>1. PlacedIs(x, s, f, LoadedSin(s, f), s.din[f])
  BY <1>0, LoadInode
<1>2. CASE s.sin[f] # NULL
  <2> DEFINE rc == s.sin[f].ref_count + 1
  <2>1. rc \in Nat \ {0} /\ rc = RefCount(s, f) + 1
    BY <1>2, DiskInodes DEF RefCount
  <2>2. PlacedIs(x, s, f, Counted(s.sin[f], rc), s.din[f])
    BY <1>1, <1>2 DEF LoadedSin
  <2> HIDE DEF rc
  <2> QED
    BY <1>2, <2>1, <2>2, CountedDisk
<1>3. CASE s.sin[f] = NULL
  <2> DEFINE m == s.din[f]
             fl == FALSE
             v == SinRec(m, fl, 1)
  <2>1. PlacedIs(x, s, f, v, m) /\ m = s.din[f] /\ ~fl /\ fl \in BOOLEAN
    BY <1>1, <1>3 DEF LoadedSin
  <2>2. /\ Cur(s, f) = m /\ m \in Din /\ m.blocks <= m.blocks
        /\ ROUNDUP_DIV(m.size) <= m.blocks
    BY <1>3, DiskInodes
  <2> HIDE DEF m, fl
  <2>3. v # NULL /\ v.din = m /\ v.dirty = fl /\ v.ref_count = 1
    BY <2>1, <2>2, SinFields
  <2> HIDE DEF v
  <2>4. x.sin[f] = v /\ x.din[f] = m
    BY <2>1 DEF PlacedIs
  <2>5. Cur(x, f) = m
    BY <2>3, <2>4 DEF Cur
  <2>6. Even(s, f) => Even(x, f)
    BY <2>2, <2>3, <2>4, <2>5 DEF Even
  <2>7. RefCount(x, f) = 1 /\ RefCount(s, f) + 1 = 1
    BY <1>3, <2>3, <2>4 DEF RefCount
  <2>8. OnDisk(v.din, m)
    BY <2>2, <2>3 DEF OnDisk
  <2>9. Moved(x, s, f, 1)
    BY <2>1, <2>2, <2>5, <2>6, <2>7, <2>8, PlacedDisk
  <2> QED
    BY <2>3, <2>4, <2>7, <2>9
<1> QED
  BY <1>2, <1>3

\* file_dup another one,
LEMMA MoreDisk ==
    ASSUME NEW s, Disk(s), NEW f \in File, s.sin[f] # NULL, NEW x, x = RefMore(s, f)
    PROVE  Moved(x, s, f, RefCount(s, f) + 1)
<1> DEFINE rc == s.sin[f].ref_count + 1
<1>1. rc \in Nat \ {0} /\ rc = RefCount(s, f) + 1 /\ s \in FsState
  BY DiskInodes DEF RefCount
<1>2. PlacedIs(x, s, f, Counted(s.sin[f], rc), s.din[f])
  BY <1>1, MoreRefs
<1> HIDE DEF rc
<1> QED
  BY <1>1, <1>2, CountedDisk

\* What is written to the disk, when it is written.
LEMMA WrittenIs ==
    ASSUME NEW s, Disk(s), NEW f \in File, s.sin[f] # NULL, NEW m, m = Written(s, f)
    PROVE  /\ m \in Din /\ OnDisk(s.sin[f].din, m) /\ ROUNDUP_DIV(m.size) <= m.blocks
           /\ Even(s, f) => m.blocks = s.sin[f].din.blocks
<1>1. s.sin[f].dirty => m = s.sin[f].din
  BY DEF Written
<1>2. ~s.sin[f].dirty => m = s.din[f]
  BY DEF Written
<1>3. /\ s.sin[f].din \in Din /\ s.din[f] \in Din /\ Cur(s, f) = s.sin[f].din
      /\ s.sin[f].din.blocks <= s.sin[f].din.blocks
      /\ ROUNDUP_DIV(s.sin[f].din.size) <= s.sin[f].din.blocks
      /\ ROUNDUP_DIV(s.din[f].size) <= s.din[f].blocks
      /\ ~s.sin[f].dirty => OnDisk(s.sin[f].din, s.din[f])
  BY DiskInodes
<1>4. s.sin[f].dirty => OnDisk(s.sin[f].din, m)
  BY <1>1, <1>3 DEF OnDisk
<1> QED
  BY <1>1, <1>2, <1>3, <1>4 DEF Even

\* fsync none,
LEMMA FsyncDisk ==
    ASSUME NEW s, Disk(s), NEW f \in File, s.sin[f] # NULL, NEW x, x = sfs_fsync(s, f)
    PROVE  Moved(x, s, f, RefCount(s, f))
<1> DEFINE u == s.sin[f]
           fl == FALSE
           rc == u.ref_count
           v == SinRec(u.din, fl, rc)
           m == Written(s, f)
<1>1. /\ s \in FsState /\ u.din \in Din /\ rc \in Nat \ {0} /\ fl \in BOOLEAN /\ ~fl
      /\ Cur(s, f) = u.din /\ Cur(s, f).blocks <= Cur(s, f).blocks
      /\ ROUNDUP_DIV(Cur(s, f).size) <= Cur(s, f).blocks
  BY DiskInodes
<1>2. PlacedIs(x, s, f, v, m)
  BY <1>1, FsyncIs
<1>3. /\ OnDisk(u.din, m) /\ ROUNDUP_DIV(m.size) <= m.blocks
      /\ Even(s, f) => m.blocks = u.din.blocks
  BY WrittenIs
<1>4. RefCount(s, f) = rc
  BY DEF RefCount
<1> HIDE DEF u, fl, rc, m
<1>5. v # NULL /\ v.din = u.din /\ v.dirty = fl /\ v.ref_count = rc
  BY <1>1, SinFields
<1> HIDE DEF v
<1>6. x.sin[f] = v /\ x.din[f] = m
  BY <1>2 DEF PlacedIs
<1>7. Cur(x, f) = u.din
  BY <1>5, <1>6 DEF Cur
<1>8. Even(s, f) => Even(x, f)
  BY <1>1, <1>3, <1>5, <1>6, <1>7 DEF Even
<1>9. RefCount(x, f) = rc
  BY <1>5, <1>6 DEF RefCount
<1>10. v # NULL /\ ~v.dirty => OnDisk(v.din, m)
  BY <1>3, <1>5
<1>11. Moved(x, s, f, rc)
  BY <1>1, <1>2, <1>3, <1>7, <1>8, <1>9, <1>10, PlacedDisk
<1> QED
  BY <1>4, <1>11

\* and vfs_close gives one back.
LEMMA CloseDisk ==
    ASSUME NEW s, Disk(s), NEW f \in File, s.sin[f] # NULL, NEW x, x = vfs_close(s, f)
    PROVE  Moved(x, s, f, RefCount(s, f) - 1)
<1>0. /\ s \in FsState /\ s.sin[f].ref_count \in Nat \ {0}
      /\ RefCount(s, f) = s.sin[f].ref_count
  BY DiskInodes DEF RefCount
<1>1. PlacedIs(x, s, f, ClosedSin(s, f), ClosedDin(s, f))
  BY <1>0, CloseIs
<1>2. CASE s.sin[f].ref_count > 1
  <2> DEFINE rc == s.sin[f].ref_count - 1
  <2>1. rc \in Nat \ {0} /\ rc = RefCount(s, f) - 1
    BY <1>0, <1>2
  <2>2. PlacedIs(x, s, f, Counted(s.sin[f], rc), s.din[f])
    BY <1>1, <1>2 DEF ClosedSin, ClosedDin
  <2> HIDE DEF rc
  <2> QED
    BY <2>1, <2>2, CountedDisk
<1>3. CASE ~ (s.sin[f].ref_count > 1)
  <2> DEFINE v == NULL
             m == Written(s, f)
  <2>1. PlacedIs(x, s, f, v, m) /\ v = NULL
    BY <1>1, <1>3 DEF ClosedSin, ClosedDin
  <2>2. /\ m \in Din /\ OnDisk(s.sin[f].din, m) /\ ROUNDUP_DIV(m.size) <= m.blocks
        /\ Even(s, f) => m.blocks = s.sin[f].din.blocks
    BY WrittenIs
  <2>3. Cur(s, f) = s.sin[f].din
    BY DiskInodes
  <2> HIDE DEF v, m
  <2>4. x.sin[f] = NULL /\ x.din[f] = m
    BY <2>1 DEF PlacedIs
  <2>5. Cur(x, f) = m
    BY <2>4 DEF Cur
  <2>6. /\ m.direct = Cur(s, f).direct /\ m.indirect = Cur(s, f).indirect
        /\ m.blocks <= Cur(s, f).blocks /\ m.size = Cur(s, f).size
    BY <2>2, <2>3 DEF OnDisk
  <2>7. Even(s, f) => Even(x, f)
    BY <2>2, <2>3, <2>4, <2>5, <2>6 DEF Even
  <2>8. RefCount(x, f) = 0 /\ RefCount(s, f) - 1 = 0
    BY <1>0, <1>3, <2>4 DEF RefCount
  <2>9. Moved(x, s, f, 0)
    BY <2>1, <2>2, <2>5, <2>6, <2>7, <2>8, PlacedDisk
  <2> QED
    BY <2>8, <2>9
<1> QED
  BY <1>2, <1>3

----------------------------------------------------------------------------
(* The descriptors *)

\* The descriptors in b are those in a, and one more or one less for f, or as many.
FdMore(b, a, f) ==
    /\ b \in FdArray /\ Cardinality(Opens(b, f)) = Cardinality(Opens(a, f)) + 1
    /\ \A g \in File \ {f} : Opens(b, g) = Opens(a, g)
FdLess(b, a, f) ==
    /\ b \in FdArray /\ Cardinality(Opens(b, f)) = Cardinality(Opens(a, f)) - 1
    /\ \A g \in File \ {f} : Opens(b, g) = Opens(a, g)
FdSame(b, a) == b \in FdArray /\ \A g \in File : Opens(b, g) = Opens(a, g)

\* The counts of all files are what they were.
SameCounts(x, s) == \A g \in File : RefCount(x, g) = RefCount(s, g)

\* The descriptors of a file are finitely many.
LEMMA OpensFinite ==
    ASSUME NEW a, NEW g
    PROVE  IsFiniteSet(Opens(a, g)) /\ Opens(a, g) \subseteq Fd
<1>1. Opens(a, g) \subseteq Fd /\ IsFiniteSet(Fd)
  BY SfsAssumption DEF Opens
<1> QED
  BY <1>1, FS_Subset

\* The descriptor d, which was free, is given v.
LEMMA OpensMore ==
    ASSUME NEW a \in FdArray, NEW d \in Fd, a[d] = NULL, NEW v \in Desc,
           NEW f, f = v.node, NEW b, b = [a EXCEPT ![d] = v]
    PROVE  FdMore(b, a, f)
<1>1. v # NULL /\ f \in File
  BY SfsAssumption DEF Desc
<1>2. Opens(b, f) = Opens(a, f) \cup {d} /\ d \notin Opens(a, f)
  BY <1>1 DEF Opens, FdArray
<1>3. \A g \in File \ {f} : Opens(b, g) = Opens(a, g)
  BY <1>1 DEF Opens, FdArray
<1>4. Cardinality(Opens(a, f) \cup {d}) = Cardinality(Opens(a, f)) + 1
  BY <1>2, OpensFinite, FS_AddElement
<1>5. b \in FdArray
  BY DEF FdArray
<1> QED
  BY <1>2, <1>3, <1>4, <1>5 DEF FdMore

\* The descriptor d is given back.
LEMMA OpensLess ==
    ASSUME NEW a \in FdArray, NEW d \in Fd, a[d] # NULL,
           NEW f, f = a[d].node, NEW b, b = [a EXCEPT ![d] = NULL]
    PROVE  FdLess(b, a, f)
<1>1. Opens(b, f) = Opens(a, f) \ {d} /\ d \in Opens(a, f)
  BY DEF Opens, FdArray
<1>2. \A g \in File \ {f} : Opens(b, g) = Opens(a, g)
  BY DEF Opens, FdArray
<1>3. Cardinality(Opens(a, f) \ {d}) = Cardinality(Opens(a, f)) - 1
  <2>1. IsFiniteSet(Opens(a, f))
    BY OpensFinite
  <2> QED
    BY <1>1, <2>1, FS_RemoveElement
<1>4. b \in FdArray
  BY DEF FdArray
<1> QED
  BY <1>1, <1>2, <1>3, <1>4 DEF FdLess

\* The position of the descriptor d changes.
LEMMA OpensSame ==
    ASSUME NEW a \in FdArray, NEW d \in Fd, a[d] # NULL,
           NEW pos \in 0 .. MAX_SIZE, NEW b, b = [a EXCEPT ![d].pos = pos]
    PROVE  FdSame(b, a)
<1> DEFINE v == [a[d] EXCEPT !.pos = pos]
<1>1. a[d] \in Desc
  BY DEF FdArray
<1>2. v \in Desc /\ v.node = a[d].node
  BY <1>1 DEF Desc
<1>3. v # NULL
  BY <1>2, SfsAssumption
<1>4. b = [a EXCEPT ![d] = v]
  BY DEF FdArray
<1> HIDE DEF v
<1>5. b \in FdArray
  BY <1>2, <1>4 DEF FdArray
<1>6. \A e \in Fd : b[e] = IF e = d THEN v ELSE a[e]
  BY <1>4 DEF FdArray
<1>7. \A g \in File, e \in Fd : e \in Opens(b, g) <=> e \in Opens(a, g)
  BY <1>2, <1>3, <1>6 DEF Opens
<1>8. \A g \in File : Opens(b, g) = Opens(a, g)
  BY <1>7 DEF Opens
<1> QED
  BY <1>5, <1>8 DEF FdSame

\* What the invariant says of a file that is open.
LEMMA OpenFile ==
    ASSUME NEW s, NEW a, NEW u, Sound(s, a, u), NEW d \in Fd, a[d] # NULL
    PROVE  /\ a[d] \in Desc /\ a[d].node \in File /\ a[d].pos \in 0 .. MAX_SIZE
           /\ s.sin[a[d].node] # NULL
<1> DEFINE f == a[d].node
<1>1. a[d] \in Desc
  BY DEF Sound, FdArray
<1>2. f \in File /\ a[d].pos \in 0 .. MAX_SIZE
  BY <1>1 DEF Desc
<1>3. d \in Opens(a, f)
  BY DEF Opens
<1>4. Cardinality(Opens(a, f)) # 0
  BY <1>3, OpensFinite, FS_EmptySet
<1>5. RefCount(s, f) # 0
  BY <1>2, <1>4 DEF Sound
<1>6. s.sin[f] # NULL
  BY <1>5 DEF RefCount
<1> QED
  BY <1>1, <1>2, <1>6

\* A file whose inode is in memory has its blocks.
LEMMA InMemory ==
    ASSUME NEW s, Disk(s), NEW f \in File, s.sin[f] # NULL
    PROVE  /\ Blocks(s) /\ Covered(s, f)
           /\ s.sin[f].din.size \in 0 .. MAX_SIZE
           /\ ROUNDUP_DIV(s.sin[f].din.size) <= s.sin[f].din.blocks
<1>1. /\ Cur(s, f) = s.sin[f].din /\ s.sin[f].din \in Din
      /\ ROUNDUP_DIV(Cur(s, f).size) <= Cur(s, f).blocks
  BY DiskInodes
<1>2. FileOK(s, f) /\ Blocks(s)
  BY DEF Disk
<1>3. Covered(s, f)
  BY <1>1, <1>2 DEF FileOK, Covered
<1> QED
  BY <1>1, <1>2, <1>3, DinFields

----------------------------------------------------------------------------
(* The calls *)

\* What a call does to what the files hold, and to their sizes: nothing, it writes to the
\* blocks of one file, or it sets the size of one.
SizesBut(x, s, f, len) ==
    Cur(x, f).size = len /\ \A g \in File \ {f} : Cur(x, g).size = Cur(s, g).size
Wrote(x, s) ==
    \E f \in File : WroteTo(x, s, f) /\ \A g \in File : Cur(x, g).size = Cur(s, g).size
SetSizeTo(x, s) ==
    \E f \in File, len \in 0 .. MAX_SIZE :
        SizesBut(x, s, f, len) /\ Trimmed(x, s, f, ROUNDUP_DIV(len))
Stored(x, s) == SameStore(x, s) \/ Wrote(x, s) \/ SetSizeTo(x, s)

\* The same, after and before a part that does nothing of that.
LEMMA StoredBetween ==
    ASSUME NEW s, NEW y, NEW z, NEW x, SameStore(y, s), Stored(z, y), SameStore(x, z)
    PROVE  Stored(x, s)
<1>1. CASE SameStore(z, y)
  <2>1. SameStore(x, s)
    BY <1>1 DEF SameStore, SameData
  <2> QED
    BY <2>1 DEF Stored
<1>2. CASE Wrote(z, y)
  <2>1. PICK f \in File : WroteTo(z, y, f) /\ \A g \in File : Cur(z, g).size = Cur(y, g).size
    BY <1>2 DEF Wrote
  <2>2. PICK b \in Index : \E m \in b .. NDIRECT + NENTRY : Put(z, y, f, b, m)
    BY <2>1 DEF WroteTo
  <2>3. PICK m \in b .. NDIRECT + NENTRY : Put(z, y, f, b, m)
    BY <2>2
  <2>4. Put(x, s, f, b, m)
    BY <2>3 DEF SameStore, SameData, Put, OthersData
  <2>5. \A g \in File : Cur(x, g).size = Cur(s, g).size
    BY <2>1 DEF SameStore
  <2> QED
    BY <2>4, <2>5 DEF Stored, Wrote, WroteTo
<1>3. CASE SetSizeTo(z, y)
  <2>1. PICK f \in File, len \in 0 .. MAX_SIZE :
            SizesBut(z, y, f, len) /\ Trimmed(z, y, f, ROUNDUP_DIV(len))
    BY <1>3 DEF SetSizeTo
  <2>2. Trimmed(x, s, f, ROUNDUP_DIV(len))
    BY <2>1 DEF SameStore, SameData, Trimmed, OthersData
  <2>3. SizesBut(x, s, f, len)
    BY <2>1 DEF SameStore, SizesBut
  <2> QED
    BY <2>2, <2>3 DEF Stored, SetSizeTo
<1> QED
  BY <1>1, <1>2, <1>3 DEF Stored

\* Nothing is done.
LEMMA SameStored == ASSUME NEW s PROVE SameStore(s, s) /\ Stored(s, s)
  BY DEF Stored, SameStore, SameData

\* A part of a call that leaves the sizes alone.
LEMMA SameSizes ==
    ASSUME NEW s, NEW f \in File, s.sin[f] # NULL, NEW x, Same(x, s, f)
    PROVE  \A g \in File : Cur(x, g).size = Cur(s, g).size
<1>1. /\ x.din = s.din /\ x.sin[f] # NULL /\ x.sin[f].din.size = s.sin[f].din.size
      /\ \A g \in File \ {f} : x.sin[g] = s.sin[g]
  BY DEF Same
<1>2. Cur(x, f).size = Cur(s, f).size
  BY <1>1 DEF Cur
<1>3. \A g \in File \ {f} : Cur(x, g) = Cur(s, g)
  BY <1>1 DEF Cur
<1> QED
  BY <1>2, <1>3

\* uneven after sfs_truncfile of f.
ResizedTo(f, r, old, u) ==
    LET short == r.ret # OK \/ r.fs.panic = OUT_OF_RANGE
    IN  CASE short /\ r.fs # old -> u \cup {f}
          [] ~short /\ r.fs.panic = NULL /\ r.fs # old -> u \ {f}
          [] OTHER -> u

\* The three cases exclude each other.
LEMMA ResizedToIs ==
    ASSUME NEW f, NEW r, NEW old, NEW u, NEW w, w = ResizedTo(f, r, old, u)
    PROVE  /\ Short(r) /\ r.fs # old => w = u \cup {f}
           /\ r.ret = OK /\ r.fs.panic = NULL /\ r.fs # old => w = u \ {f}
           /\ r.fs = old => w = u
           /\ r.ret = OK /\ r.fs.panic \notin {NULL, OUT_OF_RANGE} => w = u
<1> DEFINE short == r.ret # OK \/ r.fs.panic = OUT_OF_RANGE
<1>1. w = CASE short /\ r.fs # old -> u \cup {f}
            [] ~short /\ r.fs.panic = NULL /\ r.fs # old -> u \ {f}
            [] OTHER -> u
  BY DEF ResizedTo
<1>2. /\ Short(r) => short
      /\ r.ret = OK /\ r.fs.panic = NULL => ~short
      /\ r.ret = OK /\ r.fs.panic \notin {NULL, OUT_OF_RANGE} => ~short
  BY Reasons DEF Short
<1> HIDE DEF short
<1>3. CASE short /\ r.fs # old
  <2>1. ~ (~short /\ r.fs.panic = NULL /\ r.fs # old)
    BY <1>3
  <2> QED
    BY <1>1, <1>2, <1>3, <2>1
<1>4. CASE ~short /\ r.fs.panic = NULL /\ r.fs # old
  <2>1. ~ (short /\ r.fs # old)
    BY <1>4
  <2> QED
    BY <1>1, <1>2, <1>4, <2>1
<1>5. CASE r.fs = old \/ (~short /\ r.fs.panic # NULL)
  <2>1. /\ ~ (short /\ r.fs # old)
        /\ ~ (~short /\ r.fs.panic = NULL /\ r.fs # old)
    BY <1>5
  <2> QED
    BY <1>1, <1>2, <1>5, <2>1
<1> QED
  BY <1>3, <1>4, <1>5

\* The size of f is set, or is not.
LEMMA ResizedDisk ==
    ASSUME NEW s, Disk(s), s.panic = NULL, NEW u, Apart(s, u), NEW f \in File,
           s.sin[f] # NULL, NEW len, NEW r, r.fs = s \/ Resize(r, s, f, len),
           NEW w, w = ResizedTo(f, r, s, u)
    PROVE  /\ Disk(r.fs) /\ Apart(r.fs, w) /\ r.fs.sin[f] # NULL
           /\ SameCounts(r.fs, s) /\ Stored(r.fs, s)
           /\ r.ret # OK => r.fs.panic = NULL
<1> DEFINE x == r.fs
<1>1. /\ Short(r) /\ x # s => w = u \cup {f}
      /\ r.ret = OK /\ x.panic = NULL /\ x # s => w = u \ {f}
      /\ x = s => w = u
      /\ r.ret = OK /\ x.panic \notin {NULL, OUT_OF_RANGE} => w = u
  BY ResizedToIs
<1>2. u \subseteq File /\ \A g \in File \ u : Even(s, g)
  BY DEF Apart
<1>3. r.ret # OK => x.panic = NULL
  BY DEF Resize, Short
<1>4. CASE x = s
  BY <1>1, <1>3, <1>4, SameStored DEF SameCounts
<1>5. CASE Short(r) /\ Kept(x, s, f) /\ x # s /\ SameData(x, s)
  <2>0. x.panic \in {NULL, OUT_OF_RANGE}
    BY <1>5 DEF Short
  <2> HIDE DEF x
  <2>1. Disk(x) /\ Rest(x, s, f)
    BY <1>5, KeptDisk
  <2>2. w = u \cup {f}
    BY <1>1, <1>5
  <2>5. x.panic = OUT_OF_RANGE => NoEntryLeft(x, f)
    BY <1>5, FullEntries DEF Kept
  <2>3. Apart(x, w)
    BY <1>2, <2>0, <2>1, <2>2, <2>5 DEF Apart, Rest
  <2>4. Stored(x, s)
    <3>1. Same(x, s, f)
      BY <1>5 DEF Kept
    <3> QED
      BY <1>5, <3>1, SameSizes DEF Stored, SameStore
  <2> QED
    BY <1>3, <2>1, <2>3, <2>4 DEF Rest, SameCounts, x
<1>6. CASE /\ r.ret = OK /\ Panicked(x, s, f)
           /\ s.sin[f].din.blocks # ROUNDUP_DIV(s.sin[f].din.size)
  <2> HIDE DEF x
  <2>1. Disk(x) /\ Rest(x, s, f) /\ x.panic = f
    BY <1>6, PanickedDisk DEF Panicked
  <2>2. w = u
    BY <1>1, <1>6, <2>1, Reasons
  <2>3. ~Even(s, f)
    BY <1>6 DEF Even, Cur
  <2>4. f \in u
    BY <1>2, <2>3
  <2>5. Apart(x, w)
    BY <1>2, <2>1, <2>2, <2>4, Reasons DEF Apart, Rest
  <2>6. Stored(x, s)
    <3>1. s \in FsState /\ SameData(x, s)
      BY <1>6, PanickedData DEF Disk, Blocks
    <3>2. \A g \in File : Cur(x, g) = Cur(s, g)
      BY <1>6 DEF Panicked, Cur
    <3> QED
      BY <3>1, <3>2 DEF Stored, SameStore
  <2> QED
    BY <1>6, <2>1, <2>5, <2>6 DEF Rest, SameCounts, x
<1>7. CASE r.ret = OK /\ Sized(x, s, f, len) /\ len \in 0 .. MAX_SIZE /\ x # s
  <2> HIDE DEF x
  <2>1. Disk(x) /\ Rest(x, s, f) /\ Even(x, f) /\ x.panic = NULL
    BY <1>7, SizedDisk DEF Sized
  <2>2. w = u \ {f}
    BY <1>1, <1>7, <2>1
  <2>3. Apart(x, w)
    BY <1>2, <2>1, <2>2, Reasons DEF Apart, Rest
  <2>4. Stored(x, s)
    <3>1. SizesBut(x, s, f, len)
      BY <1>7 DEF Sized, SizesBut, Cur
    <3> QED
      BY <1>7, <3>1 DEF Stored, SetSizeTo, Sized
  <2> QED
    BY <2>1, <2>3, <2>4 DEF Rest, SameCounts, x
<1> QED
  BY <1>4, <1>5, <1>6, <1>7 DEF Resize

\* An open file changes nothing in the count of its references.
LEMMA SoundKept ==
    ASSUME NEW s, NEW a, NEW u, Sound(s, a, u), NEW x, NEW w, Disk(x), Apart(x, w),
           SameCounts(x, s), NEW b, FdSame(b, a)
    PROVE  Sound(x, b, w)
  BY DEF Sound, SameCounts, FdSame

\* Each call on a sound state leaves a sound one.  Open: a file that cannot be emptied
\* is closed again.
LEMMA OpenStep ==
    ASSUME NEW s, NEW a, NEW u, Sound(s, a, u), s.panic = NULL,
           NEW d \in Fd, a[d] = NULL, NEW f \in File, NEW trunc \in BOOLEAN,
           NEW append \in BOOLEAN,
           NEW y, y = sfs_load_inode(s, f),
           NEW r, r = IF trunc THEN sfs_truncfile(y, f, 0) ELSE [fs |-> y, ret |-> OK],
           NEW x, x = IF r.ret # OK THEN vfs_close(r.fs, f) ELSE r.fs,
           NEW b, b = IF r.ret # OK THEN a
                      ELSE [a EXCEPT ![d] =
                                [node |-> f,
                                 pos |-> IF append THEN r.fs.sin[f].din.size ELSE 0]],
           NEW w, w = ResizedTo(f, r, y, u)
    PROVE  Sound(x, b, w) /\ Stored(x, s)
<1>1. /\ Disk(s) /\ Apart(s, u) /\ a \in FdArray
      /\ \A g \in File : RefCount(s, g) = Cardinality(Opens(a, g))
  BY DEF Sound
<1>2. Moved(y, s, f, RefCount(s, f) + 1) /\ y.sin[f] # NULL
  BY <1>1, LoadDisk
<1>3. /\ Disk(y) /\ y.panic = NULL /\ RefCount(y, f) = RefCount(s, f) + 1
      /\ \A g \in File \ {f} : RefCount(y, g) = RefCount(s, g)
  BY <1>2 DEF Moved
<1>4. Apart(y, u)
  BY <1>1, <1>2, ApartKept DEF Moved
<1>5. r.fs = y \/ Resize(r, y, f, 0)
  <2>1. Blocks(y) /\ Covered(y, f) /\ 0 \in Nat
    BY <1>2, <1>3, InMemory
  <2>2. CASE trunc
    <3> DEFINE len == 0
    <3>1. len \in Nat /\ r = sfs_truncfile(y, f, len)
      BY <2>2
    <3> HIDE DEF len
    <3>2. Resize(r, y, f, len)
      BY <1>2, <1>3, <2>1, <3>1, TruncFile
    <3> QED
      BY <3>2 DEF len
  <2>3. CASE ~trunc
    BY <2>3
  <2> QED
    BY <2>2, <2>3
<1>6. /\ Disk(r.fs) /\ Apart(r.fs, w) /\ r.fs.sin[f] # NULL /\ SameCounts(r.fs, y)
      /\ Stored(r.fs, y) /\ (r.ret # OK => r.fs.panic = NULL)
  <2> DEFINE len == 0
  <2>1. r.fs = y \/ Resize(r, y, f, len)
    BY <1>5
  <2> HIDE DEF len
  <2> QED
    BY <1>2, <1>3, <1>4, <2>1, ResizedDisk
<1>7. \A g \in File : RefCount(r.fs, g) = RefCount(y, g)
  BY <1>6 DEF SameCounts
<1>8. CASE r.ret # OK
  <2>1. x = vfs_close(r.fs, f) /\ b = a
    BY <1>8
  <2>2. Moved(x, r.fs, f, RefCount(r.fs, f) - 1)
    BY <1>6, <2>1, CloseDisk
  <2>3. Disk(x) /\ Apart(x, w)
    <3>1. r.fs.panic = NULL
      BY <1>6, <1>8
    <3> QED
      BY <1>6, <2>2, <3>1, ApartKept DEF Moved
  <2>4. \A g \in File \ {f} : RefCount(x, g) = RefCount(s, g)
    BY <1>3, <1>7, <2>2 DEF Moved
  <2>5. RefCount(x, f) = RefCount(s, f)
    <3>1. RefCount(s, f) \in Nat
      BY <1>1, DiskInodes DEF RefCount
    <3>2. RefCount(r.fs, f) = RefCount(s, f) + 1
      BY <1>3, <1>7
    <3>3. RefCount(x, f) = RefCount(r.fs, f) - 1
      BY <2>2 DEF Moved
    <3> QED
      BY <3>1, <3>2, <3>3
  <2>6. Stored(x, s)
    <3>1. SameStore(y, s) /\ Stored(r.fs, y) /\ SameStore(x, r.fs)
      BY <1>2, <1>6, <2>2 DEF Moved
    <3> QED
      BY <3>1, StoredBetween
  <2> QED
    BY <1>1, <2>1, <2>3, <2>4, <2>5, <2>6 DEF Sound
<1>9. CASE r.ret = OK
  <2> DEFINE p == IF append THEN r.fs.sin[f].din.size ELSE 0
             v == [node |-> f, pos |-> p]
  <2>1. x = r.fs /\ b = [a EXCEPT ![d] = v]
    BY <1>9
  <2>2. p \in 0 .. MAX_SIZE
    BY <1>6, InMemory, Sizes
  <2> HIDE DEF p
  <2>3. v \in Desc /\ v.node = f
    BY <2>2 DEF Desc
  <2> HIDE DEF v
  <2>4. FdMore(b, a, f)
    <3>1. a \in FdArray /\ b = [a EXCEPT ![d] = v] /\ v \in Desc /\ v.node = f
      BY <1>1, <2>1, <2>3
    <3> QED
      BY ONLY <3>1, d \in Fd, a[d] = NULL, f \in File, OpensMore
  <2>5. \A g \in File \ {f} : RefCount(x, g) = Cardinality(Opens(b, g))
    BY <1>1, <1>3, <1>7, <2>1, <2>4 DEF FdMore
  <2>6. RefCount(x, f) = Cardinality(Opens(b, f))
    BY <1>1, <1>3, <1>7, <2>1, <2>4 DEF FdMore
  <2>7. Stored(x, s)
    <3>1. SameStore(y, s)
      BY <1>2 DEF Moved
    <3>2. Stored(r.fs, y)
      BY <1>6
    <3>3. SameStore(x, r.fs)
      <4>1. x = r.fs
        BY <2>1
      <4> QED
        BY <4>1, SameStored, Zenon
    <3> QED
      BY <3>1, <3>2, <3>3, StoredBetween
  <2> QED
    BY <1>6, <2>1, <2>4, <2>5, <2>6, <2>7 DEF Sound, FdMore
<1> QED
  BY <1>8, <1>9

\* Dup: the two descriptors share the inode.
LEMMA DupStep ==
    ASSUME NEW s, NEW a, NEW u, Sound(s, a, u), s.panic = NULL,
           NEW d \in Fd, NEW d2 \in Fd, a[d] # NULL, a[d2] = NULL,
           NEW x, x = RefMore(s, a[d].node), NEW b, b = [a EXCEPT ![d2] = a[d]]
    PROVE  Sound(x, b, u) /\ Stored(x, s)
<1> DEFINE f == a[d].node
           v == a[d]
<1>1. /\ Disk(s) /\ Apart(s, u) /\ a \in FdArray
      /\ \A g \in File : RefCount(s, g) = Cardinality(Opens(a, g))
  BY DEF Sound
<1>2. v \in Desc /\ f \in File /\ s.sin[f] # NULL /\ v.node = f
  BY OpenFile
<1> HIDE DEF f
<1>3. Moved(x, s, f, RefCount(s, f) + 1)
  BY <1>1, <1>2, MoreDisk DEF f
<1>4. Disk(x) /\ Apart(x, u)
  BY <1>1, <1>3, ApartKept DEF Moved
<1>5. b = [a EXCEPT ![d2] = v]
  OBVIOUS
<1> HIDE DEF v
<1>6. FdMore(b, a, f)
  BY <1>1, <1>2, <1>5, OpensMore
<1>7. \A g \in File : RefCount(x, g) = Cardinality(Opens(b, g))
  BY <1>1, <1>2, <1>3, <1>6 DEF Moved, FdMore
<1> QED
  BY <1>3, <1>4, <1>6, <1>7 DEF Sound, FdMore, Moved, Stored

\* Close.
LEMMA CloseStep ==
    ASSUME NEW s, NEW a, NEW u, Sound(s, a, u), s.panic = NULL,
           NEW d \in Fd, a[d] # NULL,
           NEW x, x = vfs_close(s, a[d].node), NEW b, b = [a EXCEPT ![d] = NULL]
    PROVE  Sound(x, b, u) /\ Stored(x, s)
<1> DEFINE f == a[d].node
<1>1. /\ Disk(s) /\ Apart(s, u) /\ a \in FdArray
      /\ \A g \in File : RefCount(s, g) = Cardinality(Opens(a, g))
  BY DEF Sound
<1>2. f \in File /\ s.sin[f] # NULL /\ f = a[d].node
  BY OpenFile
<1> HIDE DEF f
<1>3. Moved(x, s, f, RefCount(s, f) - 1)
  BY <1>1, <1>2, CloseDisk
<1>4. Disk(x) /\ Apart(x, u)
  BY <1>1, <1>3, ApartKept DEF Moved
<1>5. FdLess(b, a, f)
  BY <1>1, <1>2, OpensLess
<1>6. \A g \in File : RefCount(x, g) = Cardinality(Opens(b, g))
  BY <1>1, <1>2, <1>3, <1>5 DEF Moved, FdLess
<1> QED
  BY <1>3, <1>4, <1>5, <1>6 DEF Sound, FdLess, Moved, Stored

\* Read: no block is added.
LEMMA ReadStep ==
    ASSUME NEW s, NEW a, NEW u, Sound(s, a, u), s.panic = NULL,
           NEW d \in Fd, a[d] # NULL, NEW len \in Nat, NEW fl \in BOOLEAN, ~fl,
           NEW r, r = sfs_io(s, a[d].node, a[d].pos, len, fl),
           NEW b, b = [a EXCEPT ![d].pos = r.pos]
    PROVE  Sound(r.fs, b, u) /\ Stored(r.fs, s)
<1> DEFINE f == a[d].node
           pos == a[d].pos
<1>1. Disk(s) /\ Apart(s, u) /\ a \in FdArray
  BY DEF Sound
<1>2. f \in File /\ s.sin[f] # NULL /\ pos \in 0 .. MAX_SIZE
  BY OpenFile
<1>3. r = sfs_io(s, f, pos, len, fl)
  OBVIOUS
<1> HIDE DEF f, pos
<1>4. Transferred(r, s, f, pos, len, fl)
  BY <1>1, <1>2, <1>3, InMemory, Io
<1>5. r.fs = s /\ r.pos \in 0 .. MAX_SIZE
  BY <1>4 DEF Transferred
<1>6. FdSame(b, a) /\ SameCounts(s, s)
  BY <1>1, <1>5, OpensSame DEF SameCounts
<1> QED
  BY <1>1, <1>5, <1>6, SoundKept, SameStored

\* uneven after a write of f at pos.
WrittenTo(s, f, pos, len, u) ==
    IF pos + len > s.sin[f].din.size /\ pos < MAX_SIZE THEN u \cup {f} ELSE u

\* Write: the file comes apart if it is written past its end.
LEMMA WriteStep ==
    ASSUME NEW s, NEW a, NEW u, Sound(s, a, u), s.panic = NULL,
           NEW d \in Fd, a[d] # NULL, NEW len \in Nat, NEW tr \in BOOLEAN, tr,
           NEW f, f = a[d].node, NEW r, r = sfs_io(s, f, a[d].pos, len, tr),
           NEW b, b = [a EXCEPT ![d].pos = r.pos],
           NEW w, w = WrittenTo(s, f, a[d].pos, len, u)
    PROVE  Sound(r.fs, b, w) /\ Stored(r.fs, s)
<1> DEFINE pos == a[d].pos
           x == r.fs
           past == pos + len > s.sin[f].din.size /\ pos < MAX_SIZE
<1>1. Disk(s) /\ Apart(s, u) /\ a \in FdArray
  BY DEF Sound
<1>2. f \in File /\ s.sin[f] # NULL /\ pos \in 0 .. MAX_SIZE
  BY OpenFile
<1>3. r = sfs_io(s, f, pos, len, tr) /\ (past => w = u \cup {f}) /\ (~past => w = u)
  BY DEF WrittenTo
<1>4. s.sin[f].din.size \in Nat
  BY <1>1, <1>2, InMemory, Sizes
<1> HIDE DEF pos
<1>5. Transferred(r, s, f, pos, len, tr)
  BY <1>1, <1>2, <1>3, InMemory, Io
<1>6. /\ Kept(x, s, f) /\ r.pos \in 0 .. MAX_SIZE /\ x.panic \in {NULL, f, OUT_OF_RANGE}
      /\ pos + len <= s.sin[f].din.size \/ pos >= MAX_SIZE =>
              x.sin = s.sin /\ x.panic = NULL
  BY <1>5 DEF Transferred
<1>15. WroteTo(x, s, f)
  BY <1>5 DEF Transferred
<1>7. ~past => x.sin = s.sin /\ x.panic = NULL
  <2>1. ~past => pos + len <= s.sin[f].din.size \/ pos >= MAX_SIZE
    BY <1>2, <1>4, Sizes
  <2> QED
    BY <1>6, <2>1
<1> HIDE DEF x, past
<1>8. Disk(x) /\ Rest(x, s, f)
  BY <1>1, <1>2, <1>6, KeptDisk
<1>9. x.din = s.din
  BY <1>6 DEF Kept, Same
<1>10. Apart(x, w)
  <2>1. u \subseteq File /\ \A g \in File \ u : Even(s, g)
    BY <1>1 DEF Apart
  <2>2. CASE past
    <3>1. x.panic = OUT_OF_RANGE => NoEntryLeft(x, f)
      BY <1>2, <1>6, FullEntries DEF Kept
    <3> QED
      BY <1>2, <1>3, <1>6, <1>8, <2>1, <2>2, <3>1 DEF Apart, Rest
  <2>3. CASE ~past
    <3>1. Even(s, f) => Even(x, f)
      BY <1>7, <1>9, <2>3 DEF Even, Cur
    <3> QED
      BY <1>3, <1>7, <1>8, <2>1, <2>3, <3>1, Reasons DEF Apart, Rest
  <2> QED
    BY <2>2, <2>3
<1>11. FdSame(b, a)
  BY <1>1, <1>6, OpensSame
<1>12. SameCounts(x, s)
  BY <1>8 DEF Rest, SameCounts
<1>13. Stored(x, s)
  <2>1. Same(x, s, f)
    BY <1>6 DEF Kept
  <2>2. \A g \in File : Cur(x, g).size = Cur(s, g).size
    BY <1>2, <2>1, SameSizes
  <2> QED
    BY <1>2, <1>15, <2>2 DEF Stored, Wrote
<1>14. Sound(x, b, w)
  BY <1>8, <1>10, <1>11, <1>12, SoundKept
<1> QED
  BY <1>13, <1>14 DEF x

\* Seek: the file grows to the position.
LEMMA SeekStep ==
    ASSUME NEW s, NEW a, NEW u, Sound(s, a, u), s.panic = NULL,
           NEW d \in Fd, a[d] # NULL, NEW pos \in Nat,
           NEW f, f = a[d].node, NEW r, r = sfs_tryseek(s, f, pos),
           NEW b, b = IF r.ret # OK THEN a ELSE [a EXCEPT ![d].pos = pos],
           NEW w, w = ResizedTo(f, r, s, u)
    PROVE  Sound(r.fs, b, w) /\ Stored(r.fs, s)
<1>1. Disk(s) /\ Apart(s, u) /\ a \in FdArray
  BY DEF Sound
<1>2. f \in File /\ s.sin[f] # NULL
  BY OpenFile
<1>3. (r.ret = OK => pos \in 0 .. MAX_SIZE) /\ (r.fs = s \/ Resize(r, s, f, pos))
  BY <1>1, <1>2, InMemory, TrySeek
<1>4. Disk(r.fs) /\ Apart(r.fs, w) /\ SameCounts(r.fs, s) /\ Stored(r.fs, s)
  BY <1>1, <1>2, <1>3, ResizedDisk
<1>5. FdSame(b, a)
  <2>1. CASE r.ret # OK
    BY <1>1, <2>1 DEF FdSame
  <2>2. CASE r.ret = OK
    BY <1>1, <1>3, <2>2, OpensSame
  <2> QED
    BY <2>1, <2>2
<1> QED
  BY <1>4, <1>5, SoundKept

\* Fsync.
LEMMA FsyncStep ==
    ASSUME NEW s, NEW a, NEW u, Sound(s, a, u), s.panic = NULL,
           NEW d \in Fd, a[d] # NULL, NEW x, x = sfs_fsync(s, a[d].node)
    PROVE  Sound(x, a, u) /\ Stored(x, s)
<1> DEFINE f == a[d].node
<1>1. Disk(s) /\ Apart(s, u) /\ a \in FdArray
  BY DEF Sound
<1>2. f \in File /\ s.sin[f] # NULL /\ x = sfs_fsync(s, f)
  BY OpenFile
<1> HIDE DEF f
<1>3. Moved(x, s, f, RefCount(s, f))
  BY <1>1, <1>2, FsyncDisk
<1>4. Disk(x) /\ Apart(x, u) /\ SameCounts(x, s) /\ FdSame(a, a)
  BY <1>1, <1>3, ApartKept DEF Moved, SameCounts, FdSame
<1>5. Stored(x, s)
  BY <1>3 DEF Moved, Stored
<1> QED
  BY <1>1, <1>4, <1>5, SoundKept

\* With no descriptor open, no inode is in memory: sfs_sync writes the map.
LEMMA SyncStep ==
    ASSUME NEW s, NEW a, NEW u, Sound(s, a, u), \A d \in Fd : a[d] = NULL,
           NEW x, x = sfs_sync(s)
    PROVE  /\ Sound(x, a, u) /\ ~x.super_dirty /\ \A g \in File : x.sin[g] = NULL
           /\ Stored(x, s)
<1>1. /\ Disk(s) /\ Apart(s, u) /\ a \in FdArray /\ s \in FsState
      /\ \A g \in File : RefCount(s, g) = Cardinality(Opens(a, g))
  BY DEF Sound, Disk, Blocks
<1>2. ASSUME NEW g \in File
      PROVE  s.sin[g] = NULL
  <2>1. Opens(a, g) = {}
    BY DEF Opens
  <2>2. RefCount(s, g) = 0
    BY <1>1, <2>1, FS_EmptySet
  <2> QED
    BY <1>1, <2>2, DiskInodes DEF RefCount
<1> DEFINE di == [f \in File |-> IF s.sin[f] = NULL THEN s.din[f] ELSE sfs_fsync(s, f).din[f]]
           mi == [f \in File |-> IF s.sin[f] = NULL THEN NULL ELSE sfs_fsync(s, f).sin[f]]
           synced == [s EXCEPT !.din = di, !.sin = mi]
           su == [freemap |-> s.freemap, unused_blocks |-> s.unused_blocks]
<1>3. x = IF s.super_dirty THEN [synced EXCEPT !.super_dirty = FALSE, !.super = su]
          ELSE synced
  BY DEF sfs_sync
<1>4. di = s.din /\ mi = s.sin
  BY <1>1, <1>2, FsFields
<1> HIDE DEF di, mi
<1>5. synced = s
  <2>1. synced = [FsRec(s.freemap, s.unused_blocks, s.super_dirty, s.sin, s.din, s.super,
                        s.data, s.ents, s.panic) EXCEPT !.din = di, !.sin = mi]
    BY <1>1, FsFields
  <2> HIDE DEF synced
  <2>2. synced = FsRec(s.freemap, s.unused_blocks, s.super_dirty, mi, di, s.super,
                       s.data, s.ents, s.panic)
    BY <2>1 DEF FsRec
  <2> QED
    BY <1>1, <1>4, <2>2, FsFields
<1> HIDE DEF synced
<1>6. CASE ~s.super_dirty
  <2>1. x = s
    BY <1>3, <1>5, <1>6
  <2> QED
    BY <1>2, <1>6, <2>1, SameStored
<1>7. CASE s.super_dirty
  <2> DEFINE fl == FALSE
  <2>1. /\ s.freemap \in SUBSET Block /\ s.unused_blocks \in 0 .. BLOCKS
        /\ s.sin \in [File -> Sin \cup {NULL}] /\ s.din \in [File -> Din]
        /\ s.data \in [Block -> {Zero} \cup (File \X Index)]
        /\ s.ents \in [Block -> [0 .. NENTRY - 1 -> Block \cup {none}]]
        /\ s.panic \in File \cup {NULL, OUT_OF_RANGE} /\ fl \in BOOLEAN
    BY <1>1, FsFields
  <2>2. /\ su \in [freemap : SUBSET Block, unused_blocks : 0 .. BLOCKS]
        /\ su.freemap = s.freemap /\ su.unused_blocks = s.unused_blocks
    BY <2>1
  <2> HIDE DEF su
  <2>3. x = [s EXCEPT !.super_dirty = fl, !.super = su]
    BY <1>3, <1>5, <1>7
  <2>4. x = [FsRec(s.freemap, s.unused_blocks, s.super_dirty, s.sin, s.din, s.super,
                   s.data, s.ents, s.panic) EXCEPT !.super_dirty = fl, !.super = su]
    BY <1>1, <2>3, FsFields
  <2>5. ~fl
    OBVIOUS
  <2> HIDE DEF fl
  <2>6. x = FsRec(s.freemap, s.unused_blocks, fl, s.sin, s.din, su, s.data, s.ents, s.panic)
    BY <2>4 DEF FsRec
  <2>7. /\ x \in FsState
        /\ x.freemap = s.freemap /\ x.unused_blocks = s.unused_blocks /\ x.super_dirty = fl
        /\ x.sin = s.sin /\ x.din = s.din /\ x.super = su /\ x.data = s.data
        /\ x.ents = s.ents /\ x.panic = s.panic
    BY ONLY <2>1, <2>2, <2>6, FsMake
  <2>8. Refs(x) = Refs(s) /\ \A g \in File : Cur(x, g) = Cur(s, g)
    <3>1. x.ents = s.ents /\ \A g \in File : Cur(x, g) = Cur(s, g)
      BY <2>7 DEF Cur
    <3>2. ASSUME NEW z \in Places_
          PROVE  Refs(x)[z] = Refs(s)[z]
      <4>1. z[1] \in File
        BY DEF Places_
      <4> QED
        BY <3>1, <4>1 DEF Refs
    <3> QED
      BY <3>1, <3>2 DEF Refs
  <2>9. Blocks(x)
    BY <1>1, <2>7, <2>8 DEF Blocks, Disk
  <2>10. SuperOK(x)
    BY <2>2, <2>7 DEF SuperOK
  <2>11. ASSUME NEW g \in File
         PROVE  /\ FileOK(x, g) /\ (Even(s, g) => Even(x, g))
                /\ RefCount(x, g) = RefCount(s, g)
    <3>1. FileOK(s, g)
      BY <1>1 DEF Disk
    <3> QED
      BY <2>7, <2>8, <3>1, OtherFile
  <2>12. Disk(x) /\ Apart(x, u)
    BY <1>1, <2>7, <2>8, <2>9, <2>10, <2>11 DEF Disk, Apart, NoEntryLeft
  <2>13. Sound(x, a, u)
    <3>1. SameCounts(x, s) /\ FdSame(a, a)
      BY <1>1, <2>11 DEF SameCounts, FdSame
    <3> QED
      BY <2>12, <3>1, SoundKept
  <2>14. Stored(x, s)
    BY <2>7, <2>8, RefsData DEF Stored, SameStore
  <2> QED
    BY <1>2, <2>5, <2>7, <2>13, <2>14
<1> QED
  BY <1>1, <1>6, <1>7, FsFields

----------------------------------------------------------------------------
(* The inductive invariant *)

\* The disk as mksfs writes it.
LEMMA InitSound == Init => Sound(fs, fd_array, uneven) /\ halted = FALSE
<1> SUFFICES ASSUME Init PROVE Sound(fs, fd_array, uneven) /\ halted = FALSE
  OBVIOUS
<1> DEFINE z == 0
           dr == [i \in 0 .. NDIRECT - 1 |-> none]
           fl == FALSE
           mi == [f \in File |-> NULL]
           di == [f \in File |-> NewDin]
           su == [freemap |-> Block, unused_blocks |-> BLOCKS]
           da == [b \in Block |-> Zero]
           en == [b \in Block |-> [i \in 0 .. NENTRY - 1 |-> none]]
           AllFree == Block
<1>1. NewDin \in Din /\ NewDin.size = z /\ NewDin.blocks = z /\ NewDin.direct = dr
      /\ NewDin.indirect = none
  <2>1. /\ z \in 0 .. MAX_SIZE /\ z \in 0 .. NDIRECT + NENTRY
        /\ dr \in [0 .. NDIRECT - 1 -> Block \cup {none}] /\ none \in Block \cup {none}
    BY Sizes
  <2>2. NewDin = DinRec(z, z, dr, none)
    BY DEF NewDin, DinRec
  <2> HIDE DEF z, dr
  <2> QED
    BY <2>1, <2>2, DinMake
<1>2. /\ AllFree \in SUBSET Block /\ BLOCKS \in 0 .. BLOCKS /\ fl \in BOOLEAN
      /\ mi \in [File -> Sin \cup {NULL}] /\ di \in [File -> Din]
      /\ su \in [freemap : SUBSET Block, unused_blocks : 0 .. BLOCKS]
      /\ da \in [Block -> {Zero} \cup (File \X Index)]
      /\ en \in [Block -> [0 .. NENTRY - 1 -> Block \cup {none}]]
      /\ NULL \in File \cup {NULL, OUT_OF_RANGE}
  <2>1. BLOCKS \in 0 .. BLOCKS
    BY Sizes
  <2> QED
    BY <1>1, <2>1
<1>3. fs = FsRec(AllFree, BLOCKS, fl, mi, di, su, da, en, NULL)
  BY DEF Init, FsRec
<1>4. /\ \A g \in File : mi[g] = NULL /\ di[g] = NewDin
      /\ \A i \in 0 .. NDIRECT - 1 : dr[i] = none
      /\ su.freemap = Block /\ su.unused_blocks = BLOCKS /\ ~fl /\ AllFree = Block /\ z = 0
  OBVIOUS
<1> HIDE DEF z, dr, fl, mi, di, su, da, en, AllFree
<1>5. /\ fs \in FsState
      /\ fs.freemap = AllFree /\ fs.unused_blocks = BLOCKS /\ fs.super_dirty = fl /\ fs.sin = mi
      /\ fs.din = di /\ fs.super = su /\ fs.data = da /\ fs.ents = en /\ fs.panic = NULL
  BY ONLY <1>2, <1>3, FsMake
<1>6. \A g \in File : fs.sin[g] = NULL /\ fs.din[g] = NewDin /\ Cur(fs, g) = NewDin
  BY <1>4, <1>5 DEF Cur
<1>7. \A x \in Places_ : Refs(fs)[x] = none
  <2>1. ASSUME NEW k \in Place
        PROVE  BlockOf(NewDin, fs.ents, k) = none
    <3>1. CASE k < NDIRECT
      <4>1. k \in 0 .. NDIRECT - 1
        BY <3>1, Sizes DEF Place
      <4> QED
        BY <1>1, <1>4, <3>1, <4>1 DEF BlockOf
    <3>2. CASE ~ (k < NDIRECT)
      BY <1>1, <3>2 DEF BlockOf
    <3> QED
      BY <3>1, <3>2
  <2>2. ASSUME NEW x \in Places_
        PROVE  Refs(fs)[x] = none
    <3>1. x[1] \in File /\ x[2] \in Place
      BY DEF Places_
    <3> QED
      BY <1>6, <2>1, <3>1 DEF Refs
  <2> QED
    BY <2>2
<1>8. Exact(Refs(fs), Block)
  BY <1>7 DEF Exact
<1>9. BLOCKS = Cardinality(Block)
  <2>1. BLOCKS \in Int /\ 1 \in Int /\ BLOCKS \in Nat
    BY Sizes
  <2> QED
    BY <2>1, FS_Interval DEF Block
<1>10. Blocks(fs) /\ SuperOK(fs)
  BY <1>4, <1>5, <1>8, <1>9 DEF Blocks, SuperOK
<1>11. ASSUME NEW g \in File
       PROVE  FileOK(fs, g) /\ Even(fs, g)
  <2>1. ROUNDUP_DIV(NewDin.size) = NewDin.blocks /\ NewDin.blocks <= NewDin.blocks
    BY <1>1, <1>4, RoundUp
  <2>2. \A i \in Index : ~ (i < NewDin.blocks)
    BY <1>1, <1>4, Sizes DEF Index
  <2> QED
    BY <1>6, <2>1, <2>2 DEF FileOK, Even
<1>12. Disk(fs) /\ Apart(fs, uneven)
  BY <1>5, <1>10, <1>11, Reasons DEF Disk, Apart, Init
<1>13. fd_array \in FdArray /\ \A g \in File : Opens(fd_array, g) = {}
  BY DEF Init, FdArray, Opens
<1>14. \A g \in File : RefCount(fs, g) = Cardinality(Opens(fd_array, g))
  BY <1>6, <1>13, FS_EmptySet DEF RefCount
<1> QED
  BY <1>12, <1>13, <1>14 DEF Sound, Init

\* Every system call on the files keeps the invariant.
LEMMA SysFileSound ==
    ASSUME Sound(fs, fd_array, uneven), fs.panic = NULL, SysFile
    PROVE  Sound(fs, fd_array, uneven)' /\ Stored(fs', fs)
<1>1. ASSUME NEW d \in Fd, NEW f \in File, NEW trunc \in BOOLEAN, NEW append \in BOOLEAN,
             Open(d, f, trunc, append)
      PROVE  Sound(fs', fd_array', uneven') /\ Stored(fs', fs)
  <2> DEFINE y == sfs_load_inode(fs, f)
             r == IF trunc THEN sfs_truncfile(y, f, 0) ELSE [fs |-> y, ret |-> OK]
  <2>1. /\ fd_array[d] = NULL
        /\ fs' = IF r.ret # OK THEN vfs_close(r.fs, f) ELSE r.fs
        /\ fd_array' = IF r.ret # OK THEN fd_array
                       ELSE [fd_array EXCEPT ![d] =
                                [node |-> f,
                                 pos |-> IF append THEN r.fs.sin[f].din.size ELSE 0]]
        /\ uneven' = ResizedTo(f, r, y, uneven)
    BY <1>1 DEF Open, Resized, ResizedTo
  <2>2. /\ y = sfs_load_inode(fs, f)
        /\ r = IF trunc THEN sfs_truncfile(y, f, 0) ELSE [fs |-> y, ret |-> OK]
    OBVIOUS
  <2> HIDE DEF y, r
  <2> QED
    BY <2>1, <2>2, OpenStep
<1>2. ASSUME NEW d \in Fd, NEW d2 \in Fd, Dup(d, d2)
      PROVE  Sound(fs', fd_array', uneven') /\ Stored(fs', fs)
  <2>1. /\ fd_array[d] # NULL /\ fd_array[d2] = NULL /\ uneven' = uneven
        /\ fs' = RefMore(fs, fd_array[d].node)
        /\ fd_array' = [fd_array EXCEPT ![d2] = fd_array[d]]
    BY <1>2 DEF Dup, RefMore
  <2> QED
    BY <2>1, DupStep
<1>3. ASSUME NEW d \in Fd, Close(d)
      PROVE  Sound(fs', fd_array', uneven') /\ Stored(fs', fs)
  BY <1>3, CloseStep DEF Close
<1>4. ASSUME NEW d \in Fd, Fsync(d)
      PROVE  Sound(fs', fd_array', uneven') /\ Stored(fs', fs)
  BY <1>4, FsyncStep DEF Fsync
<1>5. ASSUME NEW d \in Fd, NEW len \in 1 .. MAX_LEN, Read(d, len)
      PROVE  Sound(fs', fd_array', uneven') /\ Stored(fs', fs)
  <2> DEFINE fl == FALSE
             r == sfs_io(fs, fd_array[d].node, fd_array[d].pos, len, fl)
  <2>1. /\ fd_array[d] # NULL /\ fs' = r.fs /\ uneven' = uneven
        /\ fd_array' = [fd_array EXCEPT ![d].pos = r.pos]
    BY <1>5 DEF Read
  <2>2. /\ fl \in BOOLEAN /\ ~fl /\ len \in Nat
        /\ r = sfs_io(fs, fd_array[d].node, fd_array[d].pos, len, fl)
    OBVIOUS
  <2> HIDE DEF fl, r
  <2> QED
    BY <2>1, <2>2, ReadStep
<1>6. ASSUME NEW d \in Fd, NEW len \in 1 .. MAX_LEN, Write(d, len)
      PROVE  Sound(fs', fd_array', uneven') /\ Stored(fs', fs)
  <2> DEFINE tr == TRUE
             f == fd_array[d].node
             r == sfs_io(fs, f, fd_array[d].pos, len, tr)
  <2>1. /\ fd_array[d] # NULL /\ fs' = r.fs
        /\ fd_array' = [fd_array EXCEPT ![d].pos = r.pos]
        /\ uneven' = WrittenTo(fs, f, fd_array[d].pos, len, uneven)
    BY <1>6 DEF Write, WrittenTo
  <2>2. /\ tr \in BOOLEAN /\ tr /\ len \in Nat /\ f = fd_array[d].node
        /\ r = sfs_io(fs, f, fd_array[d].pos, len, tr)
    OBVIOUS
  <2> HIDE DEF tr, f, r
  <2> QED
    BY <2>1, <2>2, WriteStep
<1>7. ASSUME NEW d \in Fd, NEW pos \in SEEKS, Seek(d, pos)
      PROVE  Sound(fs', fd_array', uneven') /\ Stored(fs', fs)
  <2> DEFINE f == fd_array[d].node
             r == sfs_tryseek(fs, f, pos)
  <2>1. /\ fd_array[d] # NULL /\ fs' = r.fs
        /\ fd_array' = IF r.ret # OK THEN fd_array ELSE [fd_array EXCEPT ![d].pos = pos]
        /\ uneven' = ResizedTo(f, r, fs, uneven)
    BY <1>7 DEF Seek, Resized, ResizedTo
  <2>2. pos \in Nat /\ f = fd_array[d].node /\ r = sfs_tryseek(fs, f, pos)
    BY SfsAssumption
  <2> HIDE DEF f, r
  <2> QED
    BY <2>1, <2>2, SeekStep
<1> QED
  <2>1. Sound(fs', fd_array', uneven') /\ Stored(fs', fs)
    BY <1>1, <1>2, <1>3, <1>4, <1>5, <1>6, <1>7 DEF SysFile
  <2> QED
    BY <2>1

\* Every step keeps the invariant.
LEMMA NextSound == IInv /\ [Next]_vars => IInv'
<1> SUFFICES ASSUME IInv, [Next]_vars PROVE IInv'
  OBVIOUS
<1>1. CASE Running /\ SysFile /\ UNCHANGED halted
  <2>1. fs.panic = NULL /\ ~halted /\ ~halted' /\ halted' \in BOOLEAN
    BY <1>1 DEF Running, IInv
  <2>2. Sound(fs, fd_array, uneven)'
    BY <1>1, <2>1, SysFileSound DEF IInv
  <2> QED
    BY <2>1, <2>2 DEF IInv
<1>2. CASE Running /\ Cleanup
  <2>1. /\ \A d \in Fd : fd_array[d] = NULL
        /\ fs' = sfs_sync(fs) /\ halted' = TRUE /\ UNCHANGED <<fd_array, uneven>>
        /\ Sound(fs, fd_array, uneven)
    BY <1>2 DEF Cleanup, IInv
  <2>2. /\ Sound(fs', fd_array, uneven) /\ ~(fs'.super_dirty)
        /\ \A g \in File : fs'.sin[g] = NULL
    BY <2>1, SyncStep
  <2> QED
    BY <2>1, <2>2 DEF IInv
<1>3. CASE UNCHANGED vars
  BY <1>3 DEF IInv, vars
<1> QED
  BY <1>1, <1>2, <1>3 DEF Next

\* The blocks are where Exact says, the files that are not in uneven have come apart in
\* nothing, and every reference is a descriptor: of every reachable state.
THEOREM SfsInvariant == Spec => []IInv
<1>1. Init => IInv
  BY InitSound DEF IInv
<1> QED
  BY <1>1, NextSound, PTL DEF Spec

----------------------------------------------------------------------------
(* The properties *)

\* The blocks at an index of an inode, and its indirect block, are what is at its places.
LEMMA BlockAtPlace ==
    ASSUME NEW n, NEW i \in Index
    PROVE  BlockAt(n, i) = BlockOf(n, fs.ents, i)
<1>1. i # NDIRECT + NENTRY
  BY Sizes
<1> QED
  BY <1>1, Zenon DEF BlockAt, BlockOf

\* The last place is the indirect block.
LEMMA IndirectPlaceOf ==
    ASSUME NEW n, NEW e, NEW k, k = NDIRECT + NENTRY
    PROVE  BlockOf(n, e, k) = n.indirect
<1>1. ~ (k < NDIRECT)
  BY Sizes
<1> QED
  BY <1>1 DEF BlockOf

\* If the inodes n have their blocks at the places of R, a block is named once or free.
LEMMA PlacesCount ==
    ASSUME NEW n, NEW R, NEW F \in SUBSET Block, Exact(R, F),
           \A g \in File, k \in Place : R[<<g, k>>] = BlockOf(n[g], fs.ents, k),
           NEW b \in Block
    PROVE  Cardinality(Places(n, b)) = IF b \in F THEN 0 ELSE 1
<1> DEFINE last == NDIRECT + NENTRY
           A == {x \in File \X Index : BlockAt(n[x[1]], x[2]) = b}
           I == {g \in File : n[g].indirect = b}
           B == {<<g, "indirect">> : g \in I}
<1>1. Places(n, b) = A \cup B
  BY DEF Places
<1>2. last \in Place /\ last \notin Index /\ last = NDIRECT + NENTRY /\ Index \subseteq Place
  BY Sizes
<1> HIDE DEF last
<1>3. ASSUME NEW g \in File, NEW i \in Index
      PROVE  BlockAt(n[g], i) = R[<<g, i>>] /\ <<g, i>> \in Places_
  BY <1>2, BlockAtPlace DEF Places_
<1>4. ASSUME NEW g \in File
      PROVE  n[g].indirect = R[<<g, last>>] /\ <<g, last>> \in Places_
  BY <1>2, IndirectPlaceOf DEF Places_
<1>5. b # none
  BY Sizes
<1>6. CASE b \in F
  <2>1. \A z \in Places_ : R[z] # b
    BY <1>5, <1>6 DEF Exact
  <2>2. A = {}
    <3>1. ASSUME NEW x \in A PROVE FALSE
      <4>1. PICK g \in File, i \in Index : x = <<g, i>>
        OBVIOUS
      <4>2. BlockAt(n[g], i) = b
        BY <4>1
      <4> QED
        BY <1>3, <2>1, <4>2
    <3> QED
      BY <3>1
  <2>3. I = {}
    BY <1>4, <2>1
  <2>4. Places(n, b) = {}
    BY <1>1, <2>2, <2>3
  <2> QED
    BY <1>6, <2>4, FS_EmptySet
<1>7. CASE b \notin F
  <2>1. PICK z \in Places_ : R[z] = b
    BY <1>7 DEF Exact
  <2>2. PICK g \in File, k \in Place : z = <<g, k>>
    BY DEF Places_
  <2>3. \A y \in Places_ : R[y] = b => y = z
    BY <1>5, <2>1 DEF Exact
  <2>4. CASE k \in Index
    <3>1. I = {}
      <4>1. ASSUME NEW h \in I PROVE FALSE
        <5>1. <<h, last>> = <<g, k>>
          BY <1>4, <2>2, <2>3
        <5> QED
          BY <1>2, <2>4, <5>1
      <4> QED
        BY <4>1
    <3>2. B = {}
      BY <3>1
    <3>3. z \in A
      BY <1>3, <2>1, <2>2, <2>4
    <3>4. ASSUME NEW x \in A PROVE x = z
      <4>1. PICK h \in File, i \in Index : x = <<h, i>>
        OBVIOUS
      <4>2. BlockAt(n[h], i) = b
        BY <4>1
      <4> QED
        BY <1>3, <2>3, <4>1, <4>2
    <3> HIDE DEF A, B
    <3>5. Places(n, b) = {z}
      BY <1>1, <3>2, <3>3, <3>4
    <3> QED
      BY <1>7, <3>5, FS_Singleton
  <2>5. CASE k = last
    <3>1. A = {}
      <4>1. ASSUME NEW x \in A PROVE FALSE
        <5>1. PICK h \in File, i \in Index : x = <<h, i>>
          OBVIOUS
        <5>2. BlockAt(n[h], i) = b
          BY <5>1
        <5>3. <<h, i>> = <<g, k>>
          BY <1>3, <2>2, <2>3, <5>2
        <5> QED
          BY <1>2, <2>5, <5>3
      <4> QED
        BY <4>1
    <3>2. g \in I
      BY <1>4, <2>1, <2>2, <2>5
    <3>3. ASSUME NEW h \in I PROVE h = g
      <4>1. <<h, last>> = <<g, k>>
        BY <1>4, <2>2, <2>3
      <4> QED
        BY <4>1
    <3>4. I = {g}
      BY <3>2, <3>3
    <3>5. B = {<<g, "indirect">>}
      BY <3>4
    <3> HIDE DEF A, B
    <3>6. Places(n, b) = {<<g, "indirect">>}
      BY <1>1, <3>1, <3>5
    <3> QED
      BY <1>7, <3>6, FS_Singleton
  <2> QED
    BY <2>4, <2>5, Sizes, <1>2
<1> QED
  BY <1>6, <1>7

\* The inode that the properties speak of is the current one.
LEMMA CurDin == \A f \in File : din(f) = Cur(fs, f)
  BY DEF din, Cur

\* The invariant says what the properties do: of the map,
LEMMA ExactFreemap == IInv => FreemapExact
<1> SUFFICES ASSUME IInv PROVE FreemapExact
  OBVIOUS
<1> DEFINE n == [f \in File |-> din(f)]
           R == Refs(fs)
           F == fs.freemap
<1>1. fs \in FsState /\ Exact(R, F) /\ fs.unused_blocks = Cardinality(F)
  BY DEF IInv, Sound, Disk, Blocks
<1>2. F \in SUBSET Block
  BY <1>1, FsFields
<1>3. \A g \in File, k \in Place : R[<<g, k>>] = BlockOf(n[g], fs.ents, k)
  BY <1>1, RefsFacts, CurDin
<1> HIDE DEF n, R, F
<1>4. \A b \in Block : Cardinality(Places(n, b)) = IF b \in F THEN 0 ELSE 1
  BY <1>1, <1>2, <1>3, PlacesCount
<1> QED
  BY <1>1, <1>4 DEF FreemapExact, n, F

\* of the disk at the end,
LEMMA MountableDisk == IInv => DiskMountable
<1> SUFFICES ASSUME IInv, halted PROVE DiskMountable
  BY DEF DiskMountable
<1> DEFINE n == fs.din
           R == Refs(fs)
           F == fs.freemap
<1>1. fs \in FsState /\ Exact(R, F) /\ fs.unused_blocks = Cardinality(F) /\ SuperOK(fs)
  BY DEF IInv, Sound, Disk, Blocks
<1>2. F \in SUBSET Block
  BY <1>1, FsFields
<1>3. ~fs.super_dirty /\ \A g \in File : fs.sin[g] = NULL
  BY DEF IInv
<1>4. fs.super.freemap = F /\ fs.super.unused_blocks = Cardinality(F)
  BY <1>1, <1>3 DEF SuperOK
<1>5. \A g \in File, k \in Place : R[<<g, k>>] = BlockOf(n[g], fs.ents, k)
  BY <1>1, <1>3, RefsFacts DEF Cur
<1> HIDE DEF n, R, F
<1>6. \A b \in Block : Cardinality(Places(n, b)) = IF b \in F THEN 0 ELSE 1
  BY <1>1, <1>2, <1>5, PlacesCount
<1> QED
  BY <1>4, <1>6 DEF DiskMountable, n

\* of the inodes,
LEMMA CoverInodes == IInv => InodesCover
<1> SUFFICES ASSUME IInv, NEW f \in File
    PROVE  /\ \A n \in {din(f), fs.din[f]} : ROUNDUP_DIV(n.size) <= n.blocks
           /\ \A i \in 0 .. din(f).blocks - 1 : BlockAt(din(f), i) # none
           /\ fs.sin[f] # NULL /\ ~fs.sin[f].dirty =>
                din(f) = [fs.din[f] EXCEPT !.blocks = din(f).blocks]
  BY DEF InodesCover
<1>1. Disk(fs) /\ FileOK(fs, f) /\ fs \in FsState
  BY DEF IInv, Sound, Disk, Blocks
<1>2. din(f) = Cur(fs, f)
  BY CurDin
<1>3. \A n \in {din(f), fs.din[f]} : ROUNDUP_DIV(n.size) <= n.blocks
  BY <1>1, <1>2 DEF FileOK
<1>4. ASSUME NEW i \in 0 .. din(f).blocks - 1
      PROVE  BlockAt(din(f), i) # none
  <2>1. din(f).blocks \in 0 .. NDIRECT + NENTRY
    BY <1>1, <1>2, DiskInodes, DinFields
  <2>2. i \in Index /\ i < Cur(fs, f).blocks
    BY <1>2, <2>1, Sizes DEF Index
  <2>3. Refs(fs)[<<f, i>>] # none
    BY <1>1, <2>2 DEF FileOK
  <2>4. Refs(fs)[<<f, i>>] = BlockOf(Cur(fs, f), fs.ents, i)
    BY <1>1, <2>2, RefsFacts, Sizes
  <2> QED
    BY <1>2, <2>2, <2>3, <2>4, BlockAtPlace
<1>5. ASSUME fs.sin[f] # NULL, ~fs.sin[f].dirty
      PROVE  din(f) = [fs.din[f] EXCEPT !.blocks = din(f).blocks]
  <2> DEFINE n == fs.sin[f].din
             m == fs.din[f]
  <2>1. n \in Din /\ m \in Din /\ OnDisk(n, m) /\ din(f) = n
    BY <1>1, <1>2, <1>5, DiskInodes
  <2> HIDE DEF n, m
  <2>2. /\ n = DinRec(n.size, n.blocks, n.direct, n.indirect)
        /\ m = DinRec(m.size, m.blocks, m.direct, m.indirect)
    BY <2>1, DinFields
  <2>3. [m EXCEPT !.blocks = n.blocks] = DinRec(m.size, n.blocks, m.direct, m.indirect)
    <3>1. [m EXCEPT !.blocks = n.blocks]
            = [DinRec(m.size, m.blocks, m.direct, m.indirect) EXCEPT !.blocks = n.blocks]
      BY <2>2
    <3> QED
      BY <3>1 DEF DinRec
  <2>4. n = [m EXCEPT !.blocks = n.blocks]
    BY <2>1, <2>2, <2>3 DEF OnDisk
  <2> QED
    BY <2>1, <2>4 DEF m
<1> QED
  BY <1>3, <1>4, <1>5

\* and of the files that have not come apart.
LEMMA EvenExact == IInv => EvenFilesExact
<1> SUFFICES ASSUME IInv PROVE EvenFilesExact
  OBVIOUS
<1>1. fs \in FsState /\ Apart(fs, uneven)
  BY DEF IInv, Sound, Disk, Blocks
<1>2. \A f \in File \ uneven : din(f).blocks = ROUNDUP_DIV(din(f).size)
  BY <1>1, CurDin DEF Apart, Even
<1>3. ASSUME NEW f \in File, NoEntryLeft(fs, f), NEW i \in Index
      PROVE  BlockAt(din(f), i) # none
  <2>1. Refs(fs)[<<f, i>>] # none
    BY <1>3 DEF NoEntryLeft
  <2>2. i \in Place
    BY Sizes
  <2>3. Refs(fs)[<<f, i>>] = BlockOf(Cur(fs, f), fs.ents, i)
    BY <1>1, <2>2, RefsFacts
  <2> QED
    BY <2>1, <2>3, BlockAtPlace, CurDin
<1> QED
  BY <1>1, <1>2, <1>3 DEF Apart, EvenFilesExact

\* fs, the descriptors and the sets of files stay in their types: the count of free blocks
\* within the size of the disk, positions and sizes within SFS_MAX_FILE_SIZE, and
\* reference counts above 0 for the inodes in memory.
THEOREM SfsTypeCorrect == Spec => []TypeOK
<1>1. IInv => TypeOK
  BY DEF IInv, Sound, Disk, Blocks, FsState, FdArray, Apart, TypeOK
<1> QED
  BY <1>1, SfsInvariant, PTL

\* sfs_block_alloc and sfs_block_free, as sfs_bmap_get_nolock and sfs_bmap_truncate_nolock
\* call them, never leak a block, free one that is in use, or give one to two places:
\* whichever call the full disk stops half-way.
THEOREM FreemapAlwaysExact == Spec => []FreemapExact
  BY SfsInvariant, ExactFreemap, PTL

\* What fs_cleanup leaves on the disk passes the asserts of sfs_do_mount, and the inodes
\* and the map on it agree.
THEOREM DiskAlwaysMountable == Spec => []DiskMountable
  BY SfsInvariant, MountableDisk, PTL

\* Every byte of a file below its size has a block, and an inode that is not dirty is the
\* one on the disk but for blocks: sfs_fsync, the last close and the end lose nothing.
THEOREM InodesAlwaysCover == Spec => []InodesCover
  BY SfsInvariant, CoverInodes, PTL

\* The asserts of sfs_truncfile and sfs_bmap_load_nolock fail for those files only that
\* were written past their end, or were growing when the disk was full; and the panic of
\* sfs_bmap_get_nolock comes only where a file is to grow whose inode has no entry left.
THEOREM EvenFilesAlwaysExact == Spec => []EvenFilesExact
<1>1. IInv => EvenFilesExact
  BY EvenExact
<1> QED
  BY <1>1, SfsInvariant, PTL

----------------------------------------------------------------------------
(* The files and what they hold: FileStore *)

\* Every step does to the files what a call does.
LEMMA NextStored ==
    ASSUME IInv, [Next]_vars
    PROVE  Stored(fs', fs)
<1>1. CASE Running /\ SysFile /\ UNCHANGED halted
  <2>1. fs.panic = NULL /\ Sound(fs, fd_array, uneven)
    BY <1>1 DEF Running, IInv
  <2> QED
    BY <1>1, <2>1, SysFileSound
<1>2. CASE Running /\ Cleanup
  <2>1. /\ \A d \in Fd : fd_array[d] = NULL
        /\ fs' = sfs_sync(fs) /\ Sound(fs, fd_array, uneven)
    BY <1>2 DEF Cleanup, IInv
  <2> QED
    BY <2>1, SyncStep
<1>3. CASE UNCHANGED vars
  <2>1. fs' = fs
    BY <1>3 DEF vars
  <2> QED
    BY <2>1, SameStored
<1> QED
  BY <1>1, <1>2, <1>3 DEF Next

\* What the files of s hold, and their sizes.
ContentsOf(s) == [f \in File |-> [i \in Index |-> Content(s, f, i)]]
SizesOf(s) == [f \in File |-> Cur(s, f).size]

StoreMapped == contents = ContentsOf(fs) /\ sizes = SizesOf(fs)

\* The mapping is by the places of the blocks.
LEMMA StoreIs == IInv => StoreMapped
<1> SUFFICES ASSUME IInv PROVE contents = ContentsOf(fs) /\ sizes = SizesOf(fs)
  BY DEF StoreMapped
<1>1. fs \in FsState
  BY DEF IInv, Sound, Disk, Blocks
<1>2. ASSUME NEW f \in File, NEW i \in Index
      PROVE  BlockAt(din(f), i) = Refs(fs)[<<f, i>>]
  BY <1>1, BlockAtPlace, CurDin, RefsFacts, Sizes
<1>3. contents = ContentsOf(fs)
  BY <1>2, Zenon DEF contents, ContentsOf, Content
<1>4. sizes = SizesOf(fs)
  BY CurDin DEF sizes, SizesOf
<1> QED
  BY <1>3, <1>4

LEMMA StoreIndex == Store!Index = Index
  BY Sizes DEF Store!Index, Index

\* The blocks that hold the first len bytes are those below ROUNDUP_DIV.
LEMMA BelowBlocks ==
    ASSUME NEW len \in 0 .. MAX_SIZE, NEW i \in Store!Below(len)
    PROVE  i \in Index /\ i < ROUNDUP_DIV(len)
<1>1. i \in Index /\ i * BLKSIZE < len /\ i \in Nat /\ len \in Nat /\ BLKSIZE \in Nat \ {0}
  BY Sizes, StoreIndex DEF Store!Below
<1> DEFINE m == i * BLKSIZE
<1>2. m \in Nat /\ m \div BLKSIZE = i
  BY <1>1
<1>3. m < len
  BY <1>1
<1> HIDE DEF m
<1>4. m \div BLKSIZE < ROUNDUP_DIV(len)
  BY <1>1, <1>2, <1>3, RoundUp
<1> QED
  BY <1>1, <1>2, <1>4

\* A write of a call is one of FileStore,
LEMMA WroteMaps ==
    ASSUME contents = ContentsOf(fs), contents' = ContentsOf(fs'),
           sizes = SizesOf(fs), sizes' = SizesOf(fs'), Wrote(fs', fs)
    PROVE  [Store!Next]_<<contents, sizes>>
<1>1. PICK f \in File : /\ WroteTo(fs', fs, f)
                        /\ \A g \in File : Cur(fs', g).size = Cur(fs, g).size
  BY DEF Wrote
<1>2. PICK b \in Index : \E m \in b .. NDIRECT + NENTRY : Put(fs', fs, f, b, m)
  BY <1>1 DEF WroteTo
<1>3. PICK m \in b .. NDIRECT + NENTRY : Put(fs', fs, f, b, m)
  BY <1>2
<1>4. sizes' = sizes
  BY <1>1 DEF SizesOf
<1>5. /\ b \in Nat /\ m \in Nat /\ NDIRECT + NENTRY \in Nat /\ Index \subseteq Nat
      /\ b <= m /\ m <= NDIRECT + NENTRY
  BY Sizes
<1>6. CASE m = b
  <2>1. ASSUME NEW g \in File, NEW i \in Index
        PROVE  Content(fs', g, i) = Content(fs, g, i)
    <3>1. ~(b <= i /\ i < m)
      BY <1>5, <1>6
    <3> QED
      BY <1>3, <3>1 DEF Put, OthersData
  <2>2. contents' = contents
    BY <2>1 DEF ContentsOf
  <2> QED
    BY <1>4, <2>2
<1>7. CASE m # b
  <2> DEFINE last == m - 1
  <2>1. /\ last \in Store!Index /\ b \in Store!Index
        /\ \A i \in Index : i \in b .. last <=> b <= i /\ i < m
    <3>1. last \in 0 .. NDIRECT + NENTRY - 1 /\ last \in Nat
      BY <1>5, <1>7, SfsAssumption
    <3>2. \A i \in Nat : i \in b .. last <=> b <= i /\ i < m
      BY <1>5, <1>7
    <3> QED
      BY <1>5, <3>1, <3>2, StoreIndex DEF Index
  <2> HIDE DEF last
  <2> DEFINE new == [i \in Store!Index |-> IF i \in b .. last THEN Store!Written(f, i)
                                           ELSE contents[f][i]]
  <2>2. ASSUME NEW i \in Index
        PROVE  Content(fs', f, i) = IF i \in b .. last THEN <<f, i>> ELSE Content(fs, f, i)
    BY <1>3, <2>1 DEF Put
  <2>3. [i \in Index |-> Content(fs', f, i)] = new
    <3>1. \A i \in Index : contents[f][i] = Content(fs, f, i)
      BY DEF ContentsOf
    <3>2. new = [i \in Index |-> IF i \in b .. last THEN <<f, i>> ELSE contents[f][i]]
      BY StoreIndex DEF Store!Written
    <3> HIDE DEF new
    <3> QED
      BY <2>2, <3>1, <3>2
  <2> HIDE DEF new
  <2>4. contents' = [contents EXCEPT ![f] = new]
    <3>1. \A g \in File \ {f} : [i \in Index |-> Content(fs', g, i)]
                                    = [i \in Index |-> Content(fs, g, i)]
      BY <1>3 DEF Put, OthersData
    <3> QED
      BY <2>3, <3>1 DEF ContentsOf
  <2>5. Store!Write(f, b, last)
    BY <1>4, <2>4 DEF Store!Write, new
  <2> QED
    BY <2>1, <2>5 DEF Store!Next
<1> QED
  BY <1>6, <1>7

\* and to set the size is what FileStore calls so.
LEMMA ResizeMaps ==
    ASSUME contents = ContentsOf(fs), contents' = ContentsOf(fs'),
           sizes = SizesOf(fs), sizes' = SizesOf(fs'), SetSizeTo(fs', fs)
    PROVE  Store!Next
<1>1. PICK f \in File, len \in 0 .. MAX_SIZE :
          SizesBut(fs', fs, f, len) /\ Trimmed(fs', fs, f, ROUNDUP_DIV(len))
  BY DEF SetSizeTo
<1>2. sizes' = [sizes EXCEPT ![f] = len]
  BY <1>1 DEF SizesOf, SizesBut
<1> DEFINE kept == {i \in Index : Content(fs', f, i) = Content(fs, f, i)}
           new == [i \in Store!Index |-> IF i \in kept THEN contents[f][i] ELSE Zero]
<1>3. kept \in SUBSET Store!Index
  BY StoreIndex
<1>4. Store!Below(len) \cap Store!Below(sizes[f]) \subseteq kept
  <2>1. ASSUME NEW i \in Store!Below(len) PROVE i \in kept
    <3>1. i \in Index /\ i < ROUNDUP_DIV(len)
      BY BelowBlocks
    <3>2. Content(fs', f, i) = Content(fs, f, i)
      BY <1>1, <3>1 DEF Trimmed
    <3> QED
      BY <3>1, <3>2
  <2> QED
    BY <2>1
<1>5. [i \in Index |-> Content(fs', f, i)] = new
  <2>1. ASSUME NEW i \in Index
        PROVE  Content(fs', f, i) = IF i \in kept THEN contents[f][i] ELSE Zero
    <3>1. Content(fs', f, i) \in {Content(fs, f, i), Zero}
      BY <1>1 DEF Trimmed
    <3>2. contents[f][i] = Content(fs, f, i)
      BY DEF ContentsOf
    <3>3. i \in kept <=> Content(fs', f, i) = Content(fs, f, i)
      OBVIOUS
    <3> HIDE DEF kept
    <3> QED
      BY <3>1, <3>2, <3>3
  <2>2. new = [i \in Index |-> IF i \in kept THEN contents[f][i] ELSE Zero]
    BY StoreIndex
  <2> HIDE DEF kept, new
  <2> QED
    BY <2>1, <2>2
<1> HIDE DEF kept, new
<1>6. contents' = [contents EXCEPT ![f] = new]
  <2>1. \A g \in File \ {f} : [i \in Index |-> Content(fs', g, i)]
                                  = [i \in Index |-> Content(fs, g, i)]
    BY <1>1 DEF Trimmed, OthersData
  <2> QED
    BY <1>5, <2>1 DEF ContentsOf
<1>7. Store!Resize(f, len)
  BY <1>2, <1>3, <1>4, <1>6 DEF Store!Resize, new
<1> QED
  BY <1>7 DEF Store!Next

\* The map of blocks, the indirect blocks and the inodes in memory and on the disk keep
\* the promise of FileStore: what a file holds is its own, sfs_io_nolock changes only the
\* blocks it covers, also when the disk is full, and sfs_truncfile leaves what is below
\* the new size as it was.
THEOREM SfsImplementsStore == Spec => ImplementsStore
<1>1. Init => Store!Init
  <2> SUFFICES ASSUME Init PROVE Store!Init
    OBVIOUS
  <2>1. \A f \in File : din(f) = NewDin
    BY DEF Init, din
  <2>2. ASSUME NEW i \in Index PROVE BlockAt(NewDin, i) = none
    <3>1. i < NDIRECT => i \in 0 .. NDIRECT - 1
      BY Sizes
    <3> QED
      BY <3>1 DEF BlockAt, NewDin
  <2>3. contents = [f \in File |-> [i \in Index |-> Zero]]
    BY <2>1, <2>2 DEF contents
  <2>4. sizes = [f \in File |-> 0]
    BY <2>1 DEF sizes, NewDin
  <2> QED
    BY <2>3, <2>4, StoreIndex DEF Store!Init
<1>2. IInv' => StoreMapped'
  BY StoreIs, PTL
<1>3. IInv /\ IInv' /\ [Next]_vars => [Store!Next]_<<contents, sizes>>
  <2> SUFFICES ASSUME IInv, IInv', [Next]_vars PROVE [Store!Next]_<<contents, sizes>>
    OBVIOUS
  <2>1. /\ contents = ContentsOf(fs) /\ sizes = SizesOf(fs)
        /\ contents' = ContentsOf(fs') /\ sizes' = SizesOf(fs')
    BY <1>2, StoreIs DEF StoreMapped
  <2>2. Stored(fs', fs)
    BY NextStored
  <2>3. CASE SameStore(fs', fs)
    <3>1. contents' = contents
      BY <2>1, <2>3 DEF ContentsOf, SameStore, SameData
    <3>2. sizes' = sizes
      BY <2>1, <2>3 DEF SizesOf, SameStore
    <3> QED
      BY <3>1, <3>2
  <2>4. CASE Wrote(fs', fs)
    BY <2>1, <2>4, WroteMaps
  <2>5. CASE SetSizeTo(fs', fs)
    BY <2>1, <2>5, ResizeMaps
  <2> QED
    BY <2>2, <2>3, <2>4, <2>5 DEF Stored
<1> QED
  BY <1>1, <1>3, SfsInvariant, PTL DEF Spec, ImplementsStore, Store!Spec
=============================================================================
