------------------------------- MODULE BlockMap -------------------------------
(***************************************************************************)
(* The block map of an inode (core/block_map.cpp): direct pointers, one    *)
(* single and one double indirect block.  The allocator is the set of free *)
(* blocks (GroupChain.tla has its chain); which free block it hands out is *)
(* left open.  A call is one step, with each way it can run out of space   *)
(* midway as an outcome; crashes inside a call are GroupChain's subject.   *)
(*                                                                         *)
(* Pointer blocks are read from and journalled to the image, never through *)
(* the cache.  What alloc zeroes is the cached copy when there is a cache, *)
(* which the VFS always has, and the image when there is none, as in       *)
(* block_map_test1.cpp: CacheOn tells the two apart.  Data blocks hold no  *)
(* pointers here; a user's data could only add more stale ones.            *)
(***************************************************************************)
EXTENDS Integers, Sequences, FiniteSets

CONSTANTS
    File,     \* the inodes
    Block,    \* the data blocks
    Null,     \* the block number 0
    Direct,   \* MYFS_DIRECT_BLOCKS
    PerBlock, \* MYFS_POINTERS_PER_BLOCK
    CacheOn   \* whether the cache is initialised

ASSUME BlockMapAssumption ==
    /\ Null \notin Block
    /\ Direct \in Nat \ {0}
    /\ PerBlock \in Nat \ {0}
    /\ CacheOn \in BOOLEAN
    /\ IsFiniteSet(Block)

VARIABLES
    inode,   \* the map part of every inode in the inode table
    content, \* what each block of the image reads as, taken as pointers
    free,    \* the free blocks
    failed   \* history: whether a call has run out of space midway

vars == <<inode, content, free, failed>>

Logical == 0..(Direct + PerBlock + PerBlock * PerBlock - 1)
Slot == 0..(PerBlock - 1)
Pointer == Block \cup {Null}
NoPointers == [i \in Slot |-> Null]
NoBlocks ==
    [direct |-> [l \in 0..(Direct - 1) |-> Null], indirect1 |-> Null, indirect2 |-> Null, count |-> 0]

TypeOK ==
    /\ inode \in [File -> [direct : [0..(Direct - 1) -> Pointer], indirect1 : Pointer,
                           indirect2 : Pointer, count : 0..Cardinality(Block)]]
    /\ content \in [Block -> [Slot -> Pointer]]
    /\ free \subseteq Block
    /\ failed \in BOOLEAN

\* The places of a map that hold a pointer: a kind, and an index in the inode or in
\* one or two levels of pointer blocks.
Place ==
    {<<"direct", l, 0>> : l \in 0..(Direct - 1)}
    \cup {<<"indirect1", 0, 0>>, <<"indirect2", 0, 0>>}
    \cup {<<"single", i, 0>> : i \in Slot} \cup {<<"level1", i, 0>> : i \in Slot}
    \cup {<<"double", i, j>> : i \in Slot, j \in Slot}

\* A pointer block of the image, where there is one.
PointersIn(image, b) == IF b = Null THEN NoPointers ELSE image[b]

\* What the map ino holds at every place.
Holds(ino, image) ==
    LET In(b) == PointersIn(image, b)
        Pointed(kind, i, j) ==
            CASE kind = "direct" -> ino.direct[i]
              [] kind = "indirect1" -> ino.indirect1
              [] kind = "indirect2" -> ino.indirect2
              [] kind = "single" -> In(ino.indirect1)[i]
              [] kind = "level1" -> In(ino.indirect2)[i]
              [] kind = "double" -> In(In(ino.indirect2)[i])[j]
    IN  [p \in Place |-> Pointed(p[1], p[2], p[3])]

Held(f) == Holds(inode[f], content)
Used(f) == {Held(f)[p] : p \in Place} \ {Null}

\* A freshly formatted image: mkfs has zeroed no data block, the image was
\* created full of zeroes.
Init ==
    /\ inode = [f \in File |-> NoBlocks]
    /\ content = [b \in Block |-> NoPointers]
    /\ free = Block
    /\ failed = FALSE

-----------------------------------------------------------------------------
\* Mutant: alloc hands out a block as it was left.
HandedOutAsLeft(S) == content

\* The image once alloc has handed out the blocks of S.  With a cache the zeroes
\* reach the image some time later, if a pointer block is not written first;
\* the model leaves that time out, the block is read at once.
HandedOut(S) ==
    [b \in Block |-> IF b \in S /\ ~CacheOn THEN NoPointers ELSE content[b]]

\* The pointer block p of the map, or a block to become it.
OrFresh(p, available) == IF p = Null THEN available ELSE {p}

\* A call succeeds: it has taken blocks, written pointer blocks and the inode,
\* whose block_count goes up with every block taken.
Done(f, ino, image, taken) ==
    /\ inode' = [inode EXCEPT ![f] = [ino EXCEPT !.count = @ + Cardinality(taken)]]
    /\ content' = image
    /\ free' = free \ taken
    /\ UNCHANGED failed

\* alloc has found no block: the inode is not written.
OutOfSpace(image, taken) ==
    /\ content' = image
    /\ free' = free \ taken
    /\ failed' = TRUE
    /\ UNCHANGED inode

\* myfs_inode_get_data_block with create = 1, by region of the file.  A block
\* that is mapped already changes nothing.

GetDirect(f, l) ==
    /\ l < Direct
    /\ inode[f].direct[l] = Null
    /\ \E d \in free :
         Done(f, [inode[f] EXCEPT !.direct[l] = d], HandedOut({d}), {d})

GetSingle(f, l) ==
    LET i == l - Direct
        old == inode[f].indirect1
    IN  /\ i \in Slot
        /\ \E p \in OrFresh(old, free) :
             LET new == {p} \ {old}
                 image == HandedOut(new)
                 ino == [inode[f] EXCEPT !.indirect1 = p]
             IN  \/ image[p][i] # Null /\ Done(f, ino, image, new)
                 \/ /\ image[p][i] = Null
                    /\ \E d \in free \ new :
                         Done(f, ino, [HandedOut(new \cup {d}) EXCEPT ![p][i] = d], new \cup {d})
                 \/ image[p][i] = Null /\ free = new /\ OutOfSpace(image, new)

GetDouble(f, l) ==
    LET remain == l - Direct - PerBlock
        first == remain \div PerBlock
        second == remain % PerBlock
        old == inode[f].indirect2
    IN  /\ remain >= 0
        /\ \E p \in OrFresh(old, free) :
             LET new == {p} \ {old}
                 level1 == HandedOut(new)[p]
             IN  \/ level1[first] = Null /\ free = new /\ OutOfSpace(HandedOut(new), new)
                 \/ \E q \in OrFresh(level1[first], free \ new) :
                      LET taken == new \cup ({q} \ {level1[first]})
                          image == [HandedOut(taken) EXCEPT ![p][first] = q]
                          ino == [inode[f] EXCEPT !.indirect2 = p]
                      IN  \/ image[q][second] # Null /\ Done(f, ino, image, taken)
                          \/ /\ image[q][second] = Null
                             /\ \E d \in free \ taken :
                                  Done(f, ino,
                                       [HandedOut(taken \cup {d}) EXCEPT ![p][first] = q, ![q][second] = d],
                                       taken \cup {d})
                          \/ image[q][second] = Null /\ free = taken /\ OutOfSpace(image, taken)

-----------------------------------------------------------------------------
\* Mutant: block_count is never lowered.
FreedUncounted(f, ino, image, released) ==
    /\ inode' = [inode EXCEPT ![f] = ino]
    /\ content' = image
    /\ free' = free \cup released
    /\ UNCHANGED failed

\* A call ends: it has freed blocks, rewritten the pointer blocks that are not
\* empty yet and the inode.  block_count does not go below zero.
Freed(f, ino, image, released) ==
    /\ inode' = [inode EXCEPT ![f] =
         [ino EXCEPT !.count = IF @ >= Cardinality(released) THEN @ - Cardinality(released) ELSE 0]]
    /\ content' = image
    /\ free' = free \cup released
    /\ UNCHANGED failed

\* myfs_inode_release_data_block, by region.

ReleaseDirect(f, l) ==
    /\ l < Direct
    /\ inode[f].direct[l] # Null
    /\ Freed(f, [inode[f] EXCEPT !.direct[l] = Null], content, {inode[f].direct[l]})

\* Mutant: the pointer block goes with its first data block.
ReleaseSingleUnchecked(f, l) ==
    LET i == l - Direct
        p == inode[f].indirect1
    IN  /\ i \in Slot
        /\ p # Null
        /\ content[p][i] # Null
        /\ Freed(f, [inode[f] EXCEPT !.indirect1 = Null], content, {content[p][i], p})

ReleaseSingle(f, l) ==
    LET i == l - Direct
        p == inode[f].indirect1
        left == [content[p] EXCEPT ![i] = Null]
    IN  /\ i \in Slot
        /\ p # Null
        /\ content[p][i] # Null
        /\ IF left = NoPointers
           THEN Freed(f, [inode[f] EXCEPT !.indirect1 = Null], content, {content[p][i], p})
           ELSE Freed(f, inode[f], [content EXCEPT ![p] = left], {content[p][i]})

ReleaseDouble(f, l) ==
    LET remain == l - Direct - PerBlock
        first == remain \div PerBlock
        second == remain % PerBlock
        p == inode[f].indirect2
        q == content[p][first]
        left == [content[q] EXCEPT ![second] = Null]
        above == [content[p] EXCEPT ![first] = Null]
    IN  /\ remain >= 0
        /\ p # Null
        /\ q # Null
        /\ content[q][second] # Null
        /\ \/ /\ left # NoPointers
              /\ Freed(f, inode[f], [content EXCEPT ![q] = left], {content[q][second]})
           \/ /\ left = NoPointers
              /\ above # NoPointers
              /\ Freed(f, inode[f], [content EXCEPT ![p] = above], {content[q][second], q})
           \/ /\ left = NoPointers
              /\ above = NoPointers
              /\ Freed(f, [inode[f] EXCEPT !.indirect2 = Null], content, {content[q][second], q, p})

-----------------------------------------------------------------------------
\* Mutant: the level 1 pointer blocks are forgotten.
ReleaseAllButLevel1(f) ==
    /\ inode' = [inode EXCEPT ![f] = NoBlocks]
    /\ free' = free \cup ({Held(f)[p] : p \in {q \in Place : q[1] # "level1"}} \ {Null})
    /\ UNCHANGED <<content, failed>>

\* myfs_inode_release_all_blocks
ReleaseAll(f) ==
    /\ inode' = [inode EXCEPT ![f] = NoBlocks]
    /\ free' = free \cup Used(f)
    /\ UNCHANGED <<content, failed>>

Next ==
    \E f \in File :
        \/ \E l \in Logical :
             \/ GetDirect(f, l) \/ GetSingle(f, l) \/ GetDouble(f, l)
             \/ ReleaseDirect(f, l) \/ ReleaseSingle(f, l) \/ ReleaseDouble(f, l)
        \/ ReleaseAll(f)

Spec == Init /\ [][Next]_vars

-----------------------------------------------------------------------------
(***************************************************************************)
(* Properties                                                              *)
(***************************************************************************)

\* No block serves two purposes: it is kept in one place of one map, and is not
\* free, however often pointer blocks are given up and taken again, and after
\* calls that ran out of space midway.
UsedOnce ==
    /\ \A f, g \in File : \A p, q \in Place :
         Held(f)[p] = Held(g)[q] /\ Held(f)[p] # Null => f = g /\ p = q
    /\ \A f \in File : Used(f) \cap free = {}

\* Until a call runs out of space midway every block is free or used, and
\* block_count counts the blocks of the file, pointer blocks included.
AccountsExact ==
    ~failed =>
        /\ Block = free \cup UNION {Used(f) : f \in File}
        /\ \A f \in File : inode[f].count = Cardinality(Used(f))

\* Every block is in a map or free: what fsck.cpp:595-603 asks of the data area.
NothingLeaked == Block = free \cup UNION {Used(f) : f \in File}

\* The map a file's owner sees, which myfs_inode_bmap answers from.
Translate(f, l) ==
    LET i == l - Direct
        remain == i - PerBlock
        level1 == PointersIn(content, inode[f].indirect2)
    IN  IF l < Direct THEN inode[f].direct[l]
        ELSE IF i < PerBlock THEN PointersIn(content, inode[f].indirect1)[i]
        ELSE PointersIn(content, level1[remain \div PerBlock])[remain % PerBlock]

Seen == [f \in File |-> [l \in Logical |-> Translate(f, l)]]

\* A call maps or unmaps the logical block it was given and no other, also
\* when it builds or gives up pointer blocks or runs out of space on the way.
Files == INSTANCE FileMap WITH map <- Seen
ImplementsFileMap == Files!Spec
=============================================================================
