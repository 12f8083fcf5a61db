-------------------------------- MODULE Inodes --------------------------------
(***************************************************************************)
(* The inode table and bitmap (core/inode.cpp).  A call of the program     *)
(* writes the image several times: the steps still to do are kept in todo, *)
(* in order, and a killed process leaves the ones it has done.  The        *)
(* program has one thread, so no other call comes in between.  Each step   *)
(* is one function that writes the image, or that decides what to write.   *)
(*                                                                         *)
(* A table entry, a bitmap bit and the superblock each change at once:     *)
(* the first two are written through the journal (Journal.tla).  Write     *)
(* errors are the subject of the modules below; here only kills strike.    *)
(***************************************************************************)
EXTENDS Integers, SequencesExt, FiniteSetsExt

CONSTANTS
    LastIno,  \* total_inodes - 1
    LastSlot  \* bound: how many pieces the data of an inode has room for

ASSUME InodesAssumption ==
    /\ LastIno \in Nat \ {0}
    /\ LastSlot \in Nat \ {0}

VARIABLES
    table,      \* the inode table
    used,       \* the inode bitmap: the inodes marked as allocated
    freeInodes, \* free_inodes_count of the superblock
    content,    \* the data each inode holds, in pieces
    todo        \* the steps left of the call that runs

inodeVars == <<table, used, freeInodes, content, todo>>

Ino == 0..LastIno
Slot == 1..LastSlot
Nothing == [kind |-> "nothing"]
Empty == [s \in Slot |-> Nothing]

InodeRecord == [type : {"free", "file", "dir"}, links : Nat, opens : Nat]
FreeInode == [type |-> "free", links |-> 0, opens |-> 0]
NewInode(type) == [type |-> type, links |-> IF type = "dir" THEN 2 ELSE 1, opens |-> 0]

\* The step o comes next; after it the call does more, then what was left.
Doing(o) == todo # << >> /\ Head(todo).op = o
Then(more) == todo' = more \o Tail(todo)

Step(o, i) == [op |-> o, ino |-> i]
WriteEntry(i, inode) == [op |-> "table", ino |-> i, inode |-> inode]
CountBy(n) == [op |-> "count", by |-> n]

\* myfs_inode_read and myfs_inode_write refuse an inode the bitmap has as free.
\* A call that gets such an inode returns an error; here its step then stays in
\* todo for good, and the check for deadlock shows that no call ever gets one.
Valid(i) == i \in used

-----------------------------------------------------------------------------
\* myfs_inode_alloc: the first inode free in the bitmap, if there is one.
CanAlloc == freeInodes > 0 /\ used # Ino
NewIno == Min(Ino \ used)

\* Mutant: the table entry is written before the bitmap.
AllocStepsTableFirst(type) ==
    <<WriteEntry(NewIno, NewInode(type)), Step("mark", NewIno), CountBy(-1)>>

AllocSteps(type) ==
    <<Step("mark", NewIno), WriteEntry(NewIno, NewInode(type)), CountBy(-1)>>

Mark ==
    /\ Doing("mark")
    /\ used' = used \cup {Head(todo).ino}
    /\ Then(<< >>)
    /\ UNCHANGED <<table, freeInodes, content>>

\* myfs_inode_table_write
WriteTable ==
    /\ Doing("table")
    /\ table' = [table EXCEPT ![Head(todo).ino] = Head(todo).inode]
    /\ Then(<< >>)
    /\ UNCHANGED <<used, freeInodes, content>>

\* free_inodes_count changes and the superblock is written.
Count ==
    /\ Doing("count")
    /\ freeInodes' = freeInodes + Head(todo).by
    /\ Then(<< >>)
    /\ UNCHANGED <<table, used, content>>

-----------------------------------------------------------------------------
\* myfs_inode_free: the blocks go first, then the entry, the bit and the count.

\* Mutant: the superblock does not count the inode.
FreeUncounted ==
    /\ Doing("free")
    /\ Valid(Head(todo).ino)
    /\ content' = [content EXCEPT ![Head(todo).ino] = Empty]
    /\ Then(<<WriteEntry(Head(todo).ino, FreeInode), Step("unmark", Head(todo).ino)>>)
    /\ UNCHANGED <<table, used, freeInodes>>

Free ==
    /\ Doing("free")
    /\ Valid(Head(todo).ino)
    /\ content' = [content EXCEPT ![Head(todo).ino] = Empty]
    /\ Then(<<WriteEntry(Head(todo).ino, FreeInode), Step("unmark", Head(todo).ino), CountBy(1)>>)
    /\ UNCHANGED <<table, used, freeInodes>>

Unmark ==
    /\ Doing("unmark")
    /\ used' = used \ {Head(todo).ino}
    /\ Then(<< >>)
    /\ UNCHANGED <<table, freeInodes, content>>

-----------------------------------------------------------------------------
\* Link and open counts.

\* The entry with its new counts is written, or the inode freed if both are 0.
WriteOrFree(i, inode) ==
    /\ IF inode.links = 0 /\ inode.opens = 0
       THEN table' = table /\ Then(<<Step("free", i)>>)
       ELSE table' = [table EXCEPT ![i] = inode] /\ Then(<< >>)
    /\ UNCHANGED <<used, freeInodes, content>>

\* Mutant: the count is lowered past 0.
LessUnguarded(n) == n - 1

Less(n) == IF n > 0 THEN n - 1 ELSE 0

IncLink ==
    /\ Doing("incLink")
    /\ Valid(Head(todo).ino)
    /\ table' = [table EXCEPT ![Head(todo).ino].links = @ + 1]
    /\ Then(<< >>)
    /\ UNCHANGED <<used, freeInodes, content>>

\* Mutant: the last name frees the inode, open or not.
DecLinkFreesOpen ==
    /\ Doing("decLink")
    /\ Valid(Head(todo).ino)
    /\ LET i == Head(todo).ino
           links == Less(table[i].links)
       IN  WriteOrFree(i, [table[i] EXCEPT !.links = links, !.opens = IF links = 0 THEN 0 ELSE @])

DecLink ==
    /\ Doing("decLink")
    /\ Valid(Head(todo).ino)
    /\ LET i == Head(todo).ino
       IN  WriteOrFree(i, [table[i] EXCEPT !.links = Less(@)])

IncOpen ==
    /\ Doing("incOpen")
    /\ Valid(Head(todo).ino)
    /\ table' = [table EXCEPT ![Head(todo).ino].opens = @ + 1]
    /\ Then(<< >>)
    /\ UNCHANGED <<used, freeInodes, content>>

DecOpen ==
    /\ Doing("decOpen")
    /\ Valid(Head(todo).ino)
    /\ LET i == Head(todo).ino
       IN  WriteOrFree(i, [table[i] EXCEPT !.opens = Less(@)])

\* myfs_inode_reset_open_counts: one write per inode, which a kill may cut
\* short without harm: the next mount does the rest.
ResetOpenCounts ==
    /\ Doing("resetOpens")
    /\ table' = [i \in Ino |-> IF Valid(i) THEN [table[i] EXCEPT !.opens = 0] ELSE table[i]]
    /\ Then(<< >>)
    /\ UNCHANGED <<used, freeInodes, content>>

InodeStep ==
    \/ Mark \/ WriteTable \/ Count
    \/ Free \/ Unmark
    \/ IncLink \/ DecLink \/ IncOpen \/ DecOpen
    \/ ResetOpenCounts
=============================================================================
