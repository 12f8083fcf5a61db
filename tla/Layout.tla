-------------------------------- MODULE Layout --------------------------------
(***************************************************************************)
(* The arithmetic of the image: how mkfs divides it into regions           *)
(* (core/layout.cpp), what a superblock is checked for (superblock.cpp,    *)
(* journal.cpp), and where an inode finds its bit and its slot (inode.cpp).*)
(* The numbers are those of config.h, in blocks of 4096 bytes, and as in   *)
(* the code they are 32 bits wide.                                         *)
(***************************************************************************)
EXTENDS Integers

BlockSize == 4096
InodeSize == 256
DefaultJournalBlocks == 1024
MinJournalBlocks == 16
JournalMaxEntries == 128

Uint32 == {n \in Nat : n < 4294967296}
U32(n) == n % 4294967296

DivRoundUp(a, b) == U32(a + b - 1) \div b

\* A sixteenth of the image, but neither less than the minimum nor more than the
\* default.
JournalBlocks(totalBlocks) ==
    IF totalBlocks \div 16 < MinJournalBlocks THEN MinJournalBlocks
    ELSE IF DefaultJournalBlocks > totalBlocks \div 16 THEN totalBlocks \div 16
    ELSE DefaultJournalBlocks

\* What myfs_layout_build stores, one region after the other.
Build(totalBlocks, totalInodes) ==
    LET bitmap == DivRoundUp(DivRoundUp(totalInodes, 8), BlockSize)
        table == DivRoundUp(U32(totalInodes * InodeSize), BlockSize)
        journal == JournalBlocks(totalBlocks)
        tableStart == U32(1 + bitmap)
        journalStart == U32(tableStart + table)
        dataStart == U32(journalStart + journal)
    IN  [bitmapStart |-> 1, bitmapBlocks |-> bitmap,
         tableStart |-> tableStart, tableBlocks |-> table,
         journalStart |-> journalStart, journalBlocks |-> journal,
         dataStart |-> dataStart, dataBlocks |-> U32(totalBlocks - dataStart)]

\* myfs_layout_check
LayoutCheck(totalBlocks, r) ==
    /\ r.bitmapStart > 0
    /\ r.tableStart >= U32(r.bitmapStart + r.bitmapBlocks)
    /\ r.journalStart >= U32(r.tableStart + r.tableBlocks)
    /\ r.dataStart >= U32(r.journalStart + r.journalBlocks)
    /\ r.dataStart < totalBlocks
    /\ r.dataBlocks = U32(totalBlocks - r.dataStart)

\* myfs_layout_build returns MYFS_OK.
BuildOK(totalBlocks, totalInodes) ==
    /\ totalBlocks # 0
    /\ totalInodes # 0
    /\ Build(totalBlocks, totalInodes).dataStart < totalBlocks
    /\ LayoutCheck(totalBlocks, Build(totalBlocks, totalInodes))

\* The superblock mkfs starts from (myfs_super_init) and what load asks of one
\* (myfs_super_check) on a disk of diskBlocks blocks.
SuperInit(totalBlocks, totalInodes) ==
    [regions |-> Build(totalBlocks, totalInodes),
     totalBlocks |-> totalBlocks, totalInodes |-> totalInodes,
     freeInodes |-> totalInodes, freeBlocks |-> Build(totalBlocks, totalInodes).dataBlocks,
     groupCount |-> 0]

SuperCheck(s, diskBlocks) ==
    /\ s.totalBlocks = diskBlocks
    /\ s.totalInodes # 0
    /\ s.regions.bitmapStart # 0
    /\ s.regions.tableStart > s.regions.bitmapStart
    /\ s.regions.journalStart > s.regions.tableStart
    /\ s.regions.dataStart > s.regions.journalStart
    /\ s.regions.dataStart < s.totalBlocks
    /\ s.regions.dataBlocks = U32(s.totalBlocks - s.regions.dataStart)
    /\ s.freeInodes <= s.totalInodes
    /\ s.freeBlocks <= s.regions.dataBlocks
    /\ s.groupCount <= 100

\* check_journal_capacity, which formatting and every transaction ask first
JournalCapacityOK(r) ==
    /\ r.journalBlocks >= 2
    /\ JournalMaxEntries <= r.journalBlocks - 1

\* Where the bit of an inode is, and its slot in the table.
BitPosition(r, ino) ==
    [block |-> U32(r.bitmapStart + (ino \div 8) \div BlockSize),
     byte |-> (ino \div 8) % BlockSize,
     bit |-> ino % 8]

TableIndex(ino) == ino \div (BlockSize \div InodeSize)

TablePosition(r, ino) ==
    [block |-> U32(r.tableStart + TableIndex(ino)),
     offset |-> (ino % (BlockSize \div InodeSize)) * InodeSize]

\* The inode is refused when its slot would lie behind the table.
HasSlot(r, ino) == TableIndex(ino) < r.tableBlocks
=============================================================================
