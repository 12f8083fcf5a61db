----------------------------- MODULE LayoutProofs -----------------------------
(***************************************************************************)
(* What the arithmetic of Layout.tla guarantees for every size of image    *)
(* and every number of inodes that 32 bits can name.                       *)
(***************************************************************************)
EXTENDS Layout, TLAPS

\* The most inodes whose table can be measured in 32 bits, rounding included.
MaxInodes == 16777200

\* The regions of Build with the 32-bit sums worked out: none of them can wrap.
LEMMA BuildSums ==
    ASSUME NEW totalBlocks \in Uint32, NEW totalInodes \in Uint32
    PROVE  LET r == Build(totalBlocks, totalInodes)
           IN  /\ r.bitmapStart = 1
               /\ r.bitmapBlocks \in Nat /\ r.bitmapBlocks <= 131072
               /\ r.tableBlocks \in Nat /\ r.tableBlocks <= 1048576
               /\ r.journalBlocks \in Nat /\ r.journalBlocks >= 16 /\ r.journalBlocks <= 1024
               /\ r.tableStart = 1 + r.bitmapBlocks
               /\ r.journalStart = r.tableStart + r.tableBlocks
               /\ r.dataStart = r.journalStart + r.journalBlocks
  <1> DEFINE bytes == DivRoundUp(totalInodes, 8)
             bitmap == DivRoundUp(bytes, BlockSize)
             table == DivRoundUp(U32(totalInodes * InodeSize), BlockSize)
             journal == JournalBlocks(totalBlocks)
  <1>1. bytes \in Nat /\ bytes <= 536870911
    BY SMT DEF DivRoundUp, U32, Uint32
  <1>2. bitmap \in Nat /\ bitmap <= 131072
    BY SMT, <1>1 DEF DivRoundUp, U32, BlockSize
  <1>3. U32(totalInodes * InodeSize) \in Uint32
    BY SMT DEF U32, Uint32, InodeSize
  <1>4. table \in Nat /\ table <= 1048576
    BY SMT, <1>3 DEF DivRoundUp, U32, BlockSize, Uint32
  <1>5. journal \in Nat /\ journal >= 16 /\ journal <= 1024
    BY SMT DEF JournalBlocks, MinJournalBlocks, DefaultJournalBlocks, Uint32
  <1>6. /\ U32(1 + bitmap) = 1 + bitmap
        /\ U32(1 + bitmap + table) = 1 + bitmap + table
        /\ U32(1 + bitmap + table + journal) = 1 + bitmap + table + journal
    BY SMT, <1>2, <1>4, <1>5 DEF U32
  <1> HIDE DEF bytes, bitmap, table, journal
  <1>7. Build(totalBlocks, totalInodes) =
          [bitmapStart |-> 1, bitmapBlocks |-> bitmap,
           tableStart |-> 1 + bitmap, tableBlocks |-> table,
           journalStart |-> 1 + bitmap + table, journalBlocks |-> journal,
           dataStart |-> 1 + bitmap + table + journal,
           dataBlocks |-> U32(totalBlocks - (1 + bitmap + table + journal))]
    BY SMT, <1>6 DEF Build, bytes, bitmap, table, journal
  <1>8. QED
    BY SMT, <1>2, <1>4, <1>5, <1>7

\* Whatever sizes mkfs is given, a layout it accepts divides the whole image into
\* regions that follow one another without a gap or an overlap.
THEOREM RegionsFollow ==
    ASSUME NEW totalBlocks \in Uint32, NEW totalInodes \in Uint32,
           BuildOK(totalBlocks, totalInodes)
    PROVE  LET r == Build(totalBlocks, totalInodes)
           IN  /\ 0 < r.bitmapStart
               /\ r.tableStart = r.bitmapStart + r.bitmapBlocks
               /\ r.journalStart = r.tableStart + r.tableBlocks
               /\ r.dataStart = r.journalStart + r.journalBlocks
               /\ r.dataBlocks > 0
               /\ totalBlocks = r.dataStart + r.dataBlocks
  <1> DEFINE r == Build(totalBlocks, totalInodes)
  <1>1. /\ r.bitmapStart = 1
        /\ r.bitmapBlocks \in Nat /\ r.bitmapBlocks <= 131072
        /\ r.tableBlocks \in Nat /\ r.tableBlocks <= 1048576
        /\ r.journalBlocks \in Nat /\ r.journalBlocks >= 16 /\ r.journalBlocks <= 1024
        /\ r.tableStart = 1 + r.bitmapBlocks
        /\ r.journalStart = r.tableStart + r.tableBlocks
        /\ r.dataStart = r.journalStart + r.journalBlocks
    BY SMT, BuildSums
  <1>2. r.dataStart < totalBlocks /\ r.dataBlocks = U32(totalBlocks - r.dataStart)
    BY SMT DEF BuildOK, LayoutCheck
  <1> HIDE DEF r
  <1>3. totalBlocks - r.dataStart \in Nat /\ totalBlocks - r.dataStart >= 1 /\ totalBlocks - r.dataStart <= 4294967295
    BY SMT, <1>1, <1>2 DEF Uint32
  <1>4. r.dataBlocks = totalBlocks - r.dataStart
    BY SMT, <1>2, <1>3 DEF U32
  <1>5. QED
    BY SMT, <1>1, <1>2, <1>3, <1>4 DEF r, Uint32

-----------------------------------------------------------------------------
\* The bitmap and the table have room for every inode, as long as the table can be
\* measured in 32 bits.
LEMMA RoomForInodes ==
    ASSUME NEW totalBlocks \in Uint32, NEW totalInodes \in Uint32, totalInodes <= MaxInodes
    PROVE  LET r == Build(totalBlocks, totalInodes)
           IN  /\ r.bitmapBlocks * 32768 >= totalInodes
               /\ r.tableBlocks * 16 >= totalInodes
  <1>1. DivRoundUp(totalInodes, 8) \in Nat /\ DivRoundUp(totalInodes, 8) * 8 >= totalInodes
          /\ DivRoundUp(totalInodes, 8) < 4194304
    BY SMT DEF DivRoundUp, U32, Uint32, MaxInodes
  <1>2. DivRoundUp(DivRoundUp(totalInodes, 8), BlockSize) * 32768 >= totalInodes
    BY SMT, <1>1 DEF DivRoundUp, U32, BlockSize, Uint32
  <1>3. U32(totalInodes * InodeSize) = totalInodes * 256
    BY SMT DEF U32, Uint32, InodeSize, MaxInodes
  <1>4. DivRoundUp(totalInodes * 256, BlockSize) * 16 >= totalInodes
    BY SMT DEF DivRoundUp, U32, Uint32, BlockSize, MaxInodes
  <1>5. /\ Build(totalBlocks, totalInodes).bitmapBlocks =
             DivRoundUp(DivRoundUp(totalInodes, 8), BlockSize)
        /\ Build(totalBlocks, totalInodes).tableBlocks =
             DivRoundUp(U32(totalInodes * InodeSize), BlockSize)
    BY SMT DEF Build
  <1>6. QED
    BY SMT, <1>2, <1>3, <1>4, <1>5

\* The bit and the slot of every inode lie inside the bitmap and the table, and a
\* slot inside its block.
THEOREM InodesHavePlaces ==
    ASSUME NEW totalBlocks \in Uint32, NEW totalInodes \in Uint32, totalInodes <= MaxInodes,
           NEW ino \in Nat, ino < totalInodes
    PROVE  LET r == Build(totalBlocks, totalInodes)
           IN  /\ BitPosition(r, ino).block >= r.bitmapStart
               /\ BitPosition(r, ino).block < r.tableStart
               /\ HasSlot(r, ino)
               /\ TablePosition(r, ino).block >= r.tableStart
               /\ TablePosition(r, ino).block < r.journalStart
               /\ TablePosition(r, ino).offset + InodeSize <= BlockSize
  <1> DEFINE r == Build(totalBlocks, totalInodes)
  <1>1. /\ r.bitmapStart = 1
        /\ r.bitmapBlocks \in Nat /\ r.bitmapBlocks <= 131072
        /\ r.tableBlocks \in Nat /\ r.tableBlocks <= 1048576
        /\ r.tableStart = 1 + r.bitmapBlocks
        /\ r.journalStart = r.tableStart + r.tableBlocks
    BY SMT, BuildSums
  <1>2. r.bitmapBlocks * 32768 >= totalInodes /\ r.tableBlocks * 16 >= totalInodes
    BY SMT, RoomForInodes
  <1> HIDE DEF r
  <1>3. (ino \div 8) \div 4096 >= 0 /\ (ino \div 8) \div 4096 < r.bitmapBlocks
    BY SMT, <1>1, <1>2 DEF Uint32
  <1>4. U32(r.bitmapStart + (ino \div 8) \div 4096) = 1 + (ino \div 8) \div 4096
    BY SMT, <1>1, <1>3 DEF U32
  <1>5. BitPosition(r, ino).block = 1 + (ino \div 8) \div 4096
    BY SMT, <1>4 DEF BitPosition, BlockSize
  <1>6. TableIndex(ino) = ino \div 16 /\ BlockSize \div InodeSize = 16
    BY SMT DEF TableIndex, BlockSize, InodeSize
  <1>7. ino \div 16 >= 0 /\ ino \div 16 < r.tableBlocks
    BY SMT, <1>1, <1>2 DEF Uint32
  <1>8. U32(r.tableStart + ino \div 16) = r.tableStart + ino \div 16
    BY SMT, <1>1, <1>7 DEF U32
  <1>9. /\ TablePosition(r, ino).block = r.tableStart + ino \div 16
        /\ TablePosition(r, ino).offset = (ino % 16) * 256
    BY SMT, <1>6, <1>8 DEF TablePosition, InodeSize
  <1>10. (ino % 16) * 256 + 256 <= 4096
    BY SMT
  <1>11. QED
    BY SMT, <1>1, <1>3, <1>5, <1>6, <1>7, <1>9, <1>10 DEF r, HasSlot, InodeSize, BlockSize

\* Two inodes never share a bit or a slot.
THEOREM PlacesAreDistinct ==
    ASSUME NEW totalBlocks \in Uint32, NEW totalInodes \in Uint32, totalInodes <= MaxInodes,
           NEW ino \in Nat, ino < totalInodes, NEW other \in Nat, other < totalInodes,
           ino # other
    PROVE  LET r == Build(totalBlocks, totalInodes)
           IN  /\ BitPosition(r, ino) # BitPosition(r, other)
               /\ TablePosition(r, ino) # TablePosition(r, other)
  <1> DEFINE r == Build(totalBlocks, totalInodes)
             BitOf(i) == [block |-> 1 + (i \div 8) \div 4096, byte |-> (i \div 8) % 4096, bit |-> i % 8]
             SlotOf(i) == [block |-> r.tableStart + i \div 16, offset |-> (i % 16) * 256]
  <1>1. /\ r.bitmapStart = 1
        /\ r.tableStart \in Nat /\ r.tableStart <= 131073
    BY SMT, BuildSums
  <1> HIDE DEF r
  <1>2. ASSUME NEW i \in Nat, i < totalInodes
        PROVE  BitPosition(r, i) = BitOf(i) /\ TablePosition(r, i) = SlotOf(i)
    <2>1. U32(r.bitmapStart + (i \div 8) \div 4096) = 1 + (i \div 8) \div 4096
      BY SMT, <1>1, <1>2 DEF U32, MaxInodes, Uint32
    <2>2. U32(r.tableStart + i \div 16) = r.tableStart + i \div 16
      BY SMT, <1>1, <1>2 DEF U32, MaxInodes, Uint32
    <2>3. BlockSize \div InodeSize = 16
      BY SMT DEF BlockSize, InodeSize
    <2>4. QED
      BY SMT, <2>1, <2>2, <2>3 DEF BitPosition, TablePosition, TableIndex, BlockSize, InodeSize
  <1>3. BitOf(ino) # BitOf(other)
    <2>1. SUFFICES ASSUME BitOf(ino) = BitOf(other) PROVE ino = other
      OBVIOUS
    <2>2. /\ (ino \div 8) \div 4096 = (other \div 8) \div 4096
          /\ (ino \div 8) % 4096 = (other \div 8) % 4096
          /\ ino % 8 = other % 8
      BY SMT, <2>1
    <2>3. ino \div 8 = other \div 8
      BY SMT, <2>2
    <2>4. QED
      BY SMT, <2>2, <2>3
  <1>4. SlotOf(ino) # SlotOf(other)
    <2>1. SUFFICES ASSUME SlotOf(ino) = SlotOf(other) PROVE ino = other
      OBVIOUS
    <2>2. /\ r.tableStart + ino \div 16 = r.tableStart + other \div 16
          /\ (ino % 16) * 256 = (other % 16) * 256
      BY SMT, <2>1
    <2>3. QED
      BY SMT, <1>1, <2>2
  <1>5. QED
    BY SMT, <1>2, <1>3, <1>4 DEF r

LEMMA SmallSum ==
    ASSUME NEW a \in Nat, NEW b \in Nat, a <= 131073, b <= 1048576
    PROVE  U32(a + b) = a + b
  BY SMT DEF U32

\* Whatever the number of inodes, one whose slot would lie behind the table is
\* refused: the journal that follows the table is never written as an inode.
THEOREM SlotsStayInTable ==
    ASSUME NEW totalBlocks \in Uint32, NEW totalInodes \in Uint32, NEW ino \in Nat,
           HasSlot(Build(totalBlocks, totalInodes), ino)
    PROVE  LET r == Build(totalBlocks, totalInodes)
           IN  /\ TablePosition(r, ino).block >= r.tableStart
               /\ TablePosition(r, ino).block < r.journalStart
  <1> DEFINE r == Build(totalBlocks, totalInodes)
  <1>1. /\ r.tableBlocks \in Nat /\ r.tableBlocks <= 1048576
        /\ r.tableStart \in Nat /\ r.tableStart <= 131073
        /\ r.journalStart = r.tableStart + r.tableBlocks
    BY SMT, BuildSums
  <1>2. TableIndex(ino) \in Nat /\ TableIndex(ino) < r.tableBlocks
    BY SMT DEF HasSlot, TableIndex, BlockSize, InodeSize
  <1> HIDE DEF r
  <1>3. U32(r.tableStart + TableIndex(ino)) = r.tableStart + TableIndex(ino)
    <2>1. TableIndex(ino) <= 1048576
      BY SMT, <1>1, <1>2
    <2>2. QED
      BY SMT, <1>1, <1>2, <2>1, SmallSum
  <1>4. TablePosition(r, ino).block = r.tableStart + TableIndex(ino)
    BY SMT, <1>3 DEF TablePosition
  <1>5. QED
    BY SMT, <1>1, <1>2, <1>4 DEF r

-----------------------------------------------------------------------------
\* The superblock mkfs writes is one that load accepts, on the disk it was made for.
THEOREM LoadAcceptsFormatted ==
    ASSUME NEW totalBlocks \in Uint32, NEW totalInodes \in Uint32, totalInodes <= MaxInodes,
           BuildOK(totalBlocks, totalInodes)
    PROVE  SuperCheck(SuperInit(totalBlocks, totalInodes), totalBlocks)
  <1> DEFINE r == Build(totalBlocks, totalInodes)
             s == SuperInit(totalBlocks, totalInodes)
  <1>1. /\ r.bitmapStart = 1
        /\ r.bitmapBlocks \in Nat
        /\ r.tableBlocks \in Nat
        /\ r.journalBlocks \in Nat /\ r.journalBlocks >= 16
        /\ r.tableStart = 1 + r.bitmapBlocks
        /\ r.journalStart = r.tableStart + r.tableBlocks
        /\ r.dataStart = r.journalStart + r.journalBlocks
    BY SMT, BuildSums
  <1>2. /\ totalInodes # 0
        /\ r.dataStart < totalBlocks
        /\ r.dataBlocks = U32(totalBlocks - r.dataStart)
    BY SMT DEF BuildOK, LayoutCheck
  <1>3. r.bitmapBlocks * 32768 >= totalInodes /\ r.tableBlocks * 16 >= totalInodes
    BY SMT, RoomForInodes
  <1>4. /\ s.regions = r /\ s.totalBlocks = totalBlocks /\ s.totalInodes = totalInodes
        /\ s.freeInodes = totalInodes /\ s.freeBlocks = r.dataBlocks /\ s.groupCount = 0
    BY SMT DEF SuperInit
  <1> HIDE DEF r, s
  <1>5. r.dataBlocks \in Int
    BY SMT, <1>1, <1>2 DEF U32, Uint32
  <1>6. r.bitmapBlocks > 0 /\ r.tableBlocks > 0
    BY SMT, <1>1, <1>2, <1>3 DEF Uint32
  <1>7. SuperCheck(s, totalBlocks)
    BY SMT, <1>1, <1>2, <1>4, <1>5, <1>6 DEF SuperCheck, Uint32
  <1>8. QED
    BY <1>7 DEF s

\* The journal that layout.cpp:41-44 shrinks for a small disk is big enough for
\* journal.cpp, and formatting possible, from 2064 blocks on and not before.
THEOREM JournalNeedsFullSize ==
    ASSUME NEW totalBlocks \in Uint32, NEW totalInodes \in Uint32
    PROVE  JournalCapacityOK(Build(totalBlocks, totalInodes)) <=> totalBlocks >= 2064
  <1>1. Build(totalBlocks, totalInodes).journalBlocks = JournalBlocks(totalBlocks)
    BY SMT DEF Build
  <1>2. JournalBlocks(totalBlocks) >= 129 <=> totalBlocks >= 2064
    BY SMT DEF JournalBlocks, MinJournalBlocks, DefaultJournalBlocks, Uint32
  <1>3. JournalBlocks(totalBlocks) \in Int
    BY SMT DEF JournalBlocks, MinJournalBlocks, DefaultJournalBlocks, Uint32
  <1>4. QED
    BY SMT, <1>1, <1>2, <1>3 DEF JournalCapacityOK, JournalMaxEntries

\* Where the table cannot be measured in 32 bits it comes out too small, and the
\* layout is accepted all the same: here 16777232 inodes get a table of one block.
THEOREM TableSizeWraps ==
    LET r == Build(32768, 16777232)
    IN  BuildOK(32768, 16777232) /\ r.tableBlocks = 1 /\ ~HasSlot(r, 16)
  <1> DEFINE r == Build(32768, 16777232)
  <1>1. DivRoundUp(DivRoundUp(16777232, 8), BlockSize) = 513
    BY SMT DEF DivRoundUp, U32, BlockSize
  <1>2. U32(16777232 * InodeSize) = 4096
    BY SMT DEF U32, InodeSize
  <1>3. DivRoundUp(4096, BlockSize) = 1
    BY SMT DEF DivRoundUp, U32, BlockSize
  <1>4. JournalBlocks(32768) = 1024
    BY SMT DEF JournalBlocks, MinJournalBlocks, DefaultJournalBlocks
  <1>5. U32(514) = 514 /\ U32(515) = 515 /\ U32(1539) = 1539
    BY SMT DEF U32
  <1>6. r = [bitmapStart |-> 1, bitmapBlocks |-> 513, tableStart |-> 514, tableBlocks |-> 1,
             journalStart |-> 515, journalBlocks |-> 1024, dataStart |-> 1539,
             dataBlocks |-> U32(32768 - 1539)]
    BY SMT, <1>1, <1>2, <1>3, <1>4, <1>5 DEF Build
  <1> HIDE DEF r
  <1>7. LayoutCheck(32768, r)
    BY SMT, <1>5, <1>6 DEF LayoutCheck
  <1>8. BuildOK(32768, 16777232)
    BY SMT, <1>6, <1>7 DEF BuildOK, r
  <1>9. TableIndex(16) = 1
    BY SMT DEF TableIndex, BlockSize, InodeSize
  <1>10. QED
    BY SMT, <1>6, <1>8, <1>9 DEF HasSlot, r
=============================================================================
