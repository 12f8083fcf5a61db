------------------------------- MODULE RawFile -------------------------------
(***************************************************************************)
(* Reading, writing, truncating and zeroing a file block by block          *)
(* (core/raw_file.cpp), and the offsets that the descriptors of            *)
(* vfs_upper.cpp keep.  One file; where its blocks lie is BlockMap.tla's   *)
(* subject, here a block is mapped or a hole.                              *)
(*                                                                         *)
(* A call is one step: nothing else runs in the process meanwhile.  Every  *)
(* read and write of a block or of the inode, and every allocation and     *)
(* release, may fail, and a write that fails may be made; a call returns   *)
(* at the first that does.  Sizes stay below 2^44, where the block number, *)
(* cast to 32 bits, begins again at 0.                                     *)
(***************************************************************************)
EXTENDS Integers, Sequences, FiniteSetsExt

CONSTANTS
    Fd,        \* the open descriptors of the file
    Byte,      \* the values of a byte
    Zero,      \* the byte a hole reads as
    Hole,      \* a logical block without a physical one
    BlockSize, \* MYFS_BLOCK_SIZE
    MaxBlocks, \* MYFS_MAX_LOGICAL_BLOCKS
    MaxSize,   \* bound on the sizes and offsets asked for
    MaxLength  \* bound on the length of a read or a write

ASSUME RawFileAssumption ==
    /\ Zero \in Byte
    /\ BlockSize \in Nat \ {0}
    /\ MaxBlocks \in Nat \ {0}
    /\ MaxSize \in Nat /\ MaxSize >= MaxBlocks * BlockSize
    /\ MaxLength \in Nat
    /\ Hole \notin [0..(BlockSize - 1) -> Byte]

VARIABLES
    blocks,  \* the content of every logical block
    size,    \* inode.size
    offset,  \* f_offset of each descriptor
    reply,   \* what the last call has returned
    zeroing, \* the range zero_range has still to write
    failed,  \* history: whether a call that changes the file has failed
    loose    \* history: whether a release that failed has given a block up, or
             \* dropped its cached content, while the file still records it

vars == <<blocks, size, offset, reply, zeroing, failed, loose>>

Logical == 0..(MaxBlocks - 1)
Content == [0..(BlockSize - 1) -> Byte]
Zeroes == [i \in 0..(BlockSize - 1) |-> Zero]
Data == UNION {[1..n -> Byte] : n \in 0..MaxLength}
Done(data) == [ok |-> TRUE, data |-> data]
Error == [ok |-> FALSE, data |-> << >>]
NoRange == [at |-> 0, left |-> 0]

TypeOK ==
    /\ blocks \in [Logical -> Content \cup {Hole}]
    /\ size \in 0..MaxSize
    /\ offset \in [Fd -> 0..(MaxSize + MaxLength)]
    /\ reply \in [ok : BOOLEAN, data : Data]
    /\ zeroing \in [at : 0..(2 * MaxSize), left : 0..MaxSize]
    /\ failed \in BOOLEAN
    /\ loose \in BOOLEAN

Init ==
    /\ blocks = [l \in Logical |-> Hole]
    /\ size = 0
    /\ offset = [fd \in Fd |-> 0]
    /\ reply = Done(<< >>)
    /\ zeroing = NoRange
    /\ failed = FALSE
    /\ loose = FALSE

-----------------------------------------------------------------------------
\* The loop of read and write: one chunk for every block it touches.

\* Mutant: a chunk is as long as a block even if it begins inside one.
ChunkAtPastBlock(o, n, done) ==
    [block |-> (o + done) \div BlockSize, from |-> (o + done) % BlockSize,
     len |-> Min({BlockSize, n - done}), done |-> done]

ChunkAt(o, n, done) ==
    [block |-> (o + done) \div BlockSize, from |-> (o + done) % BlockSize,
     len |-> Min({BlockSize - ((o + done) % BlockSize), n - done}), done |-> done]

Chunks(o, n) ==
    LET From[done \in 0..n] ==
            IF done = n THEN << >>
            ELSE LET c == ChunkAt(o, n, done) IN <<c>> \o From[done + c.len]
    IN  From[0]

ReadAs(l) == IF blocks[l] = Hole THEN Zeroes ELSE blocks[l]

\* The blocks after the first j chunks: a new block begins as zeroes, the rest of
\* a block that is written in part is kept.
WrittenTo(o, data, j) ==
    LET cs == Chunks(o, Len(data))
        Patch(c) == [i \in 0..(BlockSize - 1) |->
                        IF i \in c.from..(c.from + c.len - 1) THEN data[c.done + i - c.from + 1]
                        ELSE ReadAs(c.block)[i]]
    IN  [l \in Logical |->
           IF \E i \in 1..j : cs[i].block = l
           THEN Patch(cs[CHOOSE i \in 1..j : cs[i].block = l])
           ELSE blocks[l]]

-----------------------------------------------------------------------------
\* myfs_inode_write_data

Longer(o, data) == IF data # << >> /\ o + Len(data) > size THEN o + Len(data) ELSE size

WriteSucceeds(o, data) ==
    LET cs == Chunks(o, Len(data))
    IN  /\ \A i \in 1..Len(cs) : cs[i].block \in Logical
        /\ blocks' = WrittenTo(o, data, Len(cs))
        /\ size' = Longer(o, data)
        /\ reply' = Done(<< >>)
        /\ UNCHANGED <<failed, loose>>

\* Chunk j cannot be written: its block is beyond the map or cannot be had, or it is
\* mapped and then not written, or written all the same.  The size is left alone,
\* unless the inode's own write, after all chunks, is the one that fails.
WriteFails(o, data) ==
    LET cs == Chunks(o, Len(data))
    IN  /\ \E j \in 1..Len(cs) :
             LET before == WrittenTo(o, data, j - 1)
                 l == cs[j].block
             IN  /\ \A i \in 1..(j - 1) : cs[i].block \in Logical
                 /\ \/ blocks' = before /\ size' = size
                    \/ /\ l \in Logical
                       /\ blocks[l] = Hole
                       /\ blocks' = [before EXCEPT ![l] = Zeroes]
                       /\ size' = size
                    \/ /\ l \in Logical
                       /\ blocks' = WrittenTo(o, data, j)
                       /\ size' \in {size} \cup (IF j = Len(cs) THEN {Longer(o, data)} ELSE {})
        /\ reply' = Error
        /\ failed' = TRUE
        /\ UNCHANGED loose

\* sys_write
Write(fd, data) ==
    /\ zeroing = NoRange
    /\ \/ /\ WriteSucceeds(offset[fd], data)
          /\ offset' = [offset EXCEPT ![fd] = @ + Len(data)]
       \/ /\ WriteFails(offset[fd], data)
          /\ UNCHANGED offset
    /\ UNCHANGED zeroing

\* myfs_inode_read_data and sys_read; a read may fail wherever it finds its bytes.
Read(fd, n) ==
    LET o == offset[fd]
        m == IF o >= size THEN 0 ELSE Min({n, size - o})
        cs == Chunks(o, m)
        Out(i) == LET c == CHOOSE c \in {cs[k] : k \in 1..Len(cs)} : i \in (c.done + 1)..(c.done + c.len)
                  IN  ReadAs(c.block)[c.from + i - c.done - 1]
    IN  /\ zeroing = NoRange
        /\ \/ /\ \A i \in 1..Len(cs) : cs[i].block \in Logical
              /\ reply' = Done([i \in 1..m |-> Out(i)])
              /\ offset' = [offset EXCEPT ![fd] = @ + m]
           \/ /\ reply' = Error
              /\ UNCHANGED offset
        /\ UNCHANGED <<blocks, size, zeroing, failed, loose>>

-----------------------------------------------------------------------------
\* vfs_seek, and sys_open with the offset at the end for FAPPEND

MoveTo(fd, o) ==
    /\ zeroing = NoRange
    /\ offset' = [offset EXCEPT ![fd] = o]
    /\ reply' = Done(<< >>)
    /\ UNCHANGED <<blocks, size, zeroing, failed, loose>>

Seek(fd, o) == MoveTo(fd, o)

Open(fd, append) == MoveTo(fd, IF append THEN size ELSE 0)

-----------------------------------------------------------------------------
\* myfs_inode_truncate_data

Last(n) == (n - 1) \div BlockSize

Without(S) == [l \in Logical |-> IF l \in S THEN Hole ELSE blocks[l]]

Grow(n) ==
    /\ n >= size
    /\ size' = n
    /\ UNCHANGED blocks

Empty(n) ==
    /\ n = 0
    /\ size > 0
    /\ size' = 0
    /\ blocks' = Without(Logical)

\* Behind the new last block everything is a hole; the rest of that one is zeroed.
Behind(n) == (Last(n) + 1)..Last(size)
CutTo(n) ==
    LET tail == n % BlockSize
    IN  [l \in Logical |->
           IF l \in Behind(n) THEN Hole
           ELSE IF l = Last(n) /\ tail # 0 /\ blocks[l] # Hole
           THEN [i \in 0..(BlockSize - 1) |-> IF i >= tail THEN Zero ELSE blocks[l][i]]
           ELSE blocks[l]]

\* No block has to be touched that is beyond the map.
CanCut(n) == Last(size) \in Logical \/ (Last(n) = Last(size) /\ n % BlockSize = 0)

\* Mutant: the comment at raw_file.cpp:435, "not necessary", taken at its word.
ShrinkKeepsTail(n) ==
    /\ n \in 1..(size - 1)
    /\ CanCut(n)
    /\ blocks' = Without(Behind(n))
    /\ size' = n

Shrink(n) ==
    /\ n \in 1..(size - 1)
    /\ CanCut(n)
    /\ blocks' = CutTo(n)
    /\ size' = n

Truncated(n) ==
    /\ Grow(n) \/ Empty(n) \/ Shrink(n)
    /\ reply' = Done(<< >>)
    /\ UNCHANGED <<failed, loose>>

\* The one write of the inode fails.
GrowFails(n) ==
    /\ n >= size
    /\ size' \in {size, n}
    /\ UNCHANGED <<blocks, loose>>

\* release_all_blocks gives the blocks up one by one and clears their records with
\* one write of the inode at its end; the size is written after that.
EmptyFails(n) ==
    /\ n = 0
    /\ size > 0
    /\ \/ /\ loose' \in {loose} \cup (IF blocks = Without(Logical) THEN {} ELSE {TRUE})
          /\ UNCHANGED <<blocks, size>>
       \/ /\ blocks' = Without(Logical)
          /\ size' \in {size, 0}
          /\ UNCHANGED loose

\* The release of block l fails, with those before it done: it is refused, as the
\* first beyond the map is, or the block is given up and its record kept, or
\* cleared; or the clearing of the rest of the last block fails; or the last
\* write of the inode.
ShrinkFails(n) ==
    /\ n \in 1..(size - 1)
    /\ \/ \E l \in Behind(n) :
             LET before == (Last(n) + 1)..(l - 1)
             IN  /\ before \subseteq Logical
                 /\ blocks' \in {Without(before), Without(before \cup {l})}
                 /\ loose' \in {loose} \cup (IF l \in Logical /\ blocks[l] # Hole THEN {TRUE} ELSE {})
                 /\ UNCHANGED size
       \/ /\ Behind(n) \subseteq Logical
          /\ blocks' = Without(Behind(n))
          /\ UNCHANGED <<size, loose>>
       \/ /\ CanCut(n)
          /\ blocks' = CutTo(n)
          /\ size' \in {size, n}
          /\ UNCHANGED loose

TruncateFails(n) ==
    /\ GrowFails(n) \/ EmptyFails(n) \/ ShrinkFails(n)
    /\ reply' = Error
    /\ failed' = TRUE

Truncate(n) ==
    /\ zeroing = NoRange
    /\ Truncated(n) \/ TruncateFails(n)
    /\ UNCHANGED <<offset, zeroing>>

\* vfs_truncate_fd: the offsets of other descriptors stay where they are.
TruncateFd(fd) ==
    /\ zeroing = NoRange
    /\ \/ Truncated(0) /\ offset' = [offset EXCEPT ![fd] = 0]
       \/ TruncateFails(0) /\ UNCHANGED offset
    /\ UNCHANGED zeroing

\* A block that is given up and still recorded is handed to another file, or takes a
\* group of the free chain, or loses what was cached of it; a pointer block that is
\* makes any block of the file so.
Overwritten ==
    /\ loose
    /\ zeroing = NoRange
    /\ \E l \in Logical, c \in Content \cup {Hole} : blocks' = [blocks EXCEPT ![l] = c]
    /\ UNCHANGED <<size, offset, reply, zeroing, failed, loose>>

-----------------------------------------------------------------------------
\* myfs_inode_zero_range: one write after the other, each of a block's length but
\* not aligned to blocks.

ZeroRange(o, n) ==
    /\ zeroing = NoRange
    /\ n > 0
    /\ zeroing' = [at |-> o, left |-> n]
    /\ UNCHANGED <<blocks, size, offset, reply, failed, loose>>

\* Mutant: the last write is counted as long as the others.
ZeroNextUnclipped ==
    LET n == Min({BlockSize, zeroing.left})
        data == [i \in 1..n |-> Zero]
    IN  /\ zeroing # NoRange
        /\ \/ /\ WriteSucceeds(zeroing.at, data)
              /\ zeroing' = IF BlockSize = zeroing.left THEN NoRange
                            ELSE [at |-> zeroing.at + BlockSize, left |-> zeroing.left - BlockSize]
           \/ /\ WriteFails(zeroing.at, data)
              /\ zeroing' = NoRange
        /\ UNCHANGED offset

ZeroNext ==
    LET n == Min({BlockSize, zeroing.left})
        data == [i \in 1..n |-> Zero]
    IN  /\ zeroing # NoRange
        /\ \/ /\ WriteSucceeds(zeroing.at, data)
              /\ zeroing' = IF n = zeroing.left THEN NoRange
                            ELSE [at |-> zeroing.at + n, left |-> zeroing.left - n]
           \/ /\ WriteFails(zeroing.at, data)
              /\ zeroing' = NoRange
        /\ UNCHANGED offset

Next ==
    \/ \E fd \in Fd :
         \/ \E data \in Data : Write(fd, data)
         \/ \E n \in 0..MaxLength : Read(fd, n)
         \/ \E o \in 0..MaxSize : Seek(fd, o)
         \/ \E append \in BOOLEAN : Open(fd, append)
         \/ TruncateFd(fd)
    \/ \E n \in 0..MaxSize : Truncate(n)
    \/ \E o, n \in 0..MaxSize : ZeroRange(o, n)
    \/ ZeroNext
    \/ Overwritten

Spec == Init /\ [][Next]_vars

-----------------------------------------------------------------------------
(***************************************************************************)
(* Properties                                                              *)
(***************************************************************************)

\* Until a call fails midway nothing is kept behind the end of the file: no block,
\* and no byte in the last block that a later growth would bring back.
NothingPastEnd ==
    ~failed =>
        \A l \in Logical :
            /\ l * BlockSize >= size => blocks[l] = Hole
            /\ \A i \in 0..(BlockSize - 1) :
                 l * BlockSize + i >= size => ReadAs(l)[i] = Zero

\* For the callers the blocks do not show: they see the bytes and the size of
\* ByteFile, also when a call fails at any of its blocks or at the inode, until a
\* release fails halfway and the file shares a block with others.
File ==
    INSTANCE ByteFile WITH
        bytes <- [p \in 0..(MaxBlocks * BlockSize - 1) |-> ReadAs(p \div BlockSize)[p % BlockSize]],
        Capacity <- MaxBlocks * BlockSize,
        Number <- 0..MaxSize
ImplementsByteFile == File!Spec
=============================================================================
