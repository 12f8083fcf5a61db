------------------------------ MODULE BlockCheck ------------------------------
(***************************************************************************)
(* The scan that fsck (core/fsck.cpp) and recover (core/debug.cpp) make of *)
(* the pointer trees of BlockMap.tla, and recover as one more operation on *)
(* them.  That the free chain is found, and that recover may be killed on  *)
(* the way, is in Recovery.tla.  fsck reads pointer blocks from the image, *)
(* recover through the cache, which drops its copy of what the journal     *)
(* writes (Cache.tla): without a cache both read the same.                 *)
(***************************************************************************)
EXTENDS BlockMap

\* A reference is the place the scan has come to and the block it finds there.
\* A block is met as often as places refer to it.

NonNull(pointers) == {i \in DOMAIN pointers : pointers[i] # Null}

ScanDirect(ino) == {<<<<"direct", l, 0>>, ino.direct[l]>> : l \in NonNull(ino.direct)}

ScanSingle(ino) ==
    LET p == ino.indirect1
    IN  IF p = Null THEN {}
        ELSE {<<<<"indirect1", 0, 0>>, p>>}
             \cup {<<<<"single", i, 0>>, content[p][i]>> : i \in NonNull(content[p])}

ScanLevel1(i, q) ==
    {<<<<"level1", i, 0>>, q>>}
    \cup {<<<<"double", i, j>>, content[q][j]>> : j \in NonNull(content[q])}

\* Mutant: the data blocks below a level 1 block are not looked at.
ScanDoubleShallow(ino) ==
    LET p == ino.indirect2
    IN  IF p = Null THEN {}
        ELSE {<<<<"indirect2", 0, 0>>, p>>}
             \cup {<<<<"level1", i, 0>>, content[p][i]>> : i \in NonNull(content[p])}

ScanDouble(ino) ==
    LET p == ino.indirect2
    IN  IF p = Null THEN {}
        ELSE {<<<<"indirect2", 0, 0>>, p>>}
             \cup UNION {ScanLevel1(i, content[p][i]) : i \in NonNull(content[p])}

Scan(f) == ScanDirect(inode[f]) \cup ScanSingle(inode[f]) \cup ScanDouble(inode[f])

Scanned(f) == {r[2] : r \in Scan(f)}
ScannedUsed == UNION {Scanned(f) : f \in File}

\* What fsck reports of the blocks: references beyond the first to a block,
\* blocks both used and free, blocks neither.
DuplicatedUsed == Cardinality(UNION {{f} \X Scan(f) : f \in File}) - Cardinality(ScannedUsed)
Conflicts == ScannedUsed \cap free
Leaked == Block \ (ScannedUsed \cup free)

\* myfs_debug_recover_blocks: what is leaked is freed, inodes are not touched.
Recover ==
    /\ Leaked # {}
    /\ free' = free \cup Leaked
    /\ UNCHANGED <<inode, content, failed>>

CheckedNext == Next \/ Recover

CheckedSpec == Init /\ [][CheckedNext]_vars

-----------------------------------------------------------------------------
\* fsck and a file's owner agree on what is in use: a mapped block is met by the
\* scan, no block is met twice or is free as well, and leaks are reported only where
\* a call has run out of space midway.
FsckReportsOnlyLeaks ==
    /\ \A f \in File, l \in Logical : Translate(f, l) \in Scanned(f) \cup {Null}
    /\ DuplicatedUsed = 0
    /\ Conflicts = {}
    /\ Leaked # {} => failed
=============================================================================
