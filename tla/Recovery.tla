------------------------------- MODULE Recovery -------------------------------
(***************************************************************************)
(* Mount, unmount, the consistency check and block recovery, over the      *)
(* allocator of GroupChain.tla: what fsck (core/fsck.cpp) says of every    *)
(* image a crash can leave, what the recover command (core/debug.cpp) does *)
(* to it, and what the CLEAN mark of the superblock (core/mount.cpp) is    *)
(* worth.  recover may itself be killed between two writes and run again.  *)
(*                                                                         *)
(* No two places of an inode record the same block here (BlockMap.tla),    *)
(* and every recorded block is a data block, so fsck finds no invalid and  *)
(* no duplicate reference.  The journal is empty when recover reads it:    *)
(* myfs_journal_recover has cleared its header just before.                *)
(***************************************************************************)
EXTENDS GroupChain

ASSUME RecoveryAssumption == IsFiniteSet(Block)

VARIABLES
    rec,   \* the step the recover command is at
    todo,  \* the leaked blocks it has found and not freed yet
    clean, \* whether the superblock of the image says CLEAN
    lost,  \* history: cached content of a recorded block was dropped since the mount
    warned, \* history: a mount has warned since recover was run last
    missed \* history: the leaked blocks the running recover could not free

rvars == <<rec, todo, clean, lost, warned, missed>>
allVars == <<vars, rvars>>

RecoveryTypeOK ==
    /\ rec \in {"none", "leaks", "sync"}
    /\ todo \subseteq Block
    /\ missed \subseteq Block
    /\ {clean, lost, warned} \subseteq BOOLEAN

\* mkfs ends with mark_clean and closes the disk; the mount that follows at once
\* (vfs_format_default_disk) is taken together with it.
RInit ==
    /\ Init
    /\ rec = "none"
    /\ todo = {}
    /\ clean = FALSE
    /\ lost = FALSE
    /\ warned = FALSE
    /\ missed = {}

-----------------------------------------------------------------------------
\* The walk along the free chain that fsck, recover and the block map display
\* each make for themselves, reading groups from the image.

\* Mutant: the last block of a group is taken for the link to the next.
LinkAtEnd(g) == Last(g)

LinkOf(g) == g[1]

\* fsck and the display stop at the count, recover takes the whole group.
Taken(g, left, whole) == IF whole THEN g ELSE SubSeq(g, 1, Min({left, Len(g)}))

\* Mutant: a walk that never leaves the superblock's group.
FirstGroupOnly(w, s, image, whole) ==
    IF w.group = << >> \/ Len(w.found) >= s.count THEN w
    ELSE [w EXCEPT !.found = @ \o Taken(w.group, s.count - Len(@), whole), !.group = << >>]

\* One round of the loop: the blocks of the group are counted, and as long as
\* the superblock counts more, the first of them leads to the next group.  It
\* ends, broken, where the link has been followed before or there is no group.
Round(w, s, image, whole) ==
    LET found == w.found \o Taken(w.group, s.count - Len(w.found), whole)
        link == LinkOf(w.group)
    IN  IF w.group = << >> \/ Len(w.found) >= s.count THEN w
        ELSE IF Len(found) >= s.count THEN [w EXCEPT !.found = found, !.group = << >>]
        ELSE [found |-> found,
              visited |-> w.visited \cup {link},
              group |-> IF link \in w.visited THEN << >> ELSE image[link],
              broken |-> link \in w.visited \/ image[link] = << >>]

Walk(s, image, whole) ==
    LET After[n \in 0..(Cardinality(Block) + 1)] ==
            IF n = 0
            THEN [found |-> << >>, visited |-> {}, group |-> s.group, broken |-> FALSE]
            ELSE Round(After[n - 1], s, image, whole)
    IN  After[Cardinality(Block) + 1]

CountedFree(s, image) == Walk(s, image, FALSE).found
RecoverFree(s, image) == Range(Walk(s, image, TRUE).found)

\* myfs_fsck_run: what it reports of the chain and of every block.
Fsck(s, image, recorded) ==
    LET w == Walk(s, image, FALSE)
        free == Range(w.found)
    IN  [chainErrors |-> w.broken \/ (s.count = 0 /\ s.group # << >>)
                                  \/ (s.count # 0 /\ s.group = << >>),
         duplicates |-> Len(w.found) # Cardinality(free),
         countErrors |-> s.group # << >> /\ Len(w.found) # s.count,
         conflicts |-> recorded \cap free,
         leaked |-> Block \ (recorded \cup free)]

NoErrors ==
    [chainErrors |-> FALSE, duplicates |-> FALSE, countErrors |-> FALSE,
     conflicts |-> {}, leaked |-> {}]

\* myfs_phys_get_used_blocks_in_range: what the display shows as used.
UsedInRange(s, image, range) == range \ Range(CountedFree(s, image))

-----------------------------------------------------------------------------
\* Commands come between calls: no block is in hand.
AtPrompt == pc = "idle" /\ rec = "none" /\ transit = {}

\* The calls of the running process.
Operate ==
    /\ rec = "none"
    /\ Work
    /\ UNCHANGED rvars

\* The leak command, and a caller that fails after alloc (block_map.cpp:300), give
\* up a block nobody records.  It is counted with the failed writes.
Leak(b) ==
    /\ pc = "idle"
    /\ rec = "none"
    /\ faults < MaxFaults
    /\ faults' = faults + 1
    /\ transit' = transit \ {b}
    /\ UNCHANGED <<sb, dsb, content, dirty, refs, leaving, exposed, spoilt, pc, cur, chain, dChain,
                   crashes, rvars>>

Kill ==
    /\ Crash
    /\ rec' = "none"
    /\ todo' = {}
    /\ missed' = {}
    /\ lost' = (dirty \cap refs # {})
    /\ UNCHANGED <<clean, warned>>

-----------------------------------------------------------------------------
\* myfs_mount: the image is marked DIRTY, with a warning if it was already.

\* Mutant: the state is not changed to DIRTY.
RemountUnmarked ==
    /\ Mount
    /\ lost' = FALSE
    /\ warned' = (warned \/ ~clean)
    /\ UNCHANGED <<rec, todo, clean, missed>>

Remount ==
    /\ Mount
    /\ clean' = FALSE
    /\ lost' = FALSE
    /\ warned' = (warned \/ ~clean)
    /\ UNCHANGED <<rec, todo, missed>>

-----------------------------------------------------------------------------
\* myfs_phys_umount: sync, whose result is ignored; cache shutdown; mark_clean.

WrittenBack(S) == [b \in Block |-> IF b \in S THEN NoGroup ELSE content[b]]

Umount ==
    /\ AtPrompt
    /\ content' = WrittenBack(dirty)
    /\ dirty' = {}
    /\ SuperSync
    /\ clean' = TRUE
    /\ pc' = "down"
    /\ UNCHANGED <<sb, refs, transit, leaving, exposed, spoilt, cur, chain, crashes, faults,
                   rec, todo, lost, warned, missed>>

\* The process ends after an unmount that failed; the memory is gone.
EndsUnmounted ==
    /\ AtPrompt
    /\ faults < MaxFaults
    /\ faults' = faults + 1
    /\ pc' = "down"
    /\ sb' = dsb'
    /\ chain' = dChain'
    /\ dirty' = {}
    /\ exposed' = exposed \cap Blocks(dChain')
    /\ UNCHANGED <<refs, transit, leaving, spoilt, cur, crashes, rec, todo, warned, missed>>

\* Mutant: the result of the shutdown is ignored too.
ShutdownFailsUnnoticed(S) ==
    /\ content' = WrittenBack(S)
    /\ lost' = ((dirty \ S) \cap refs # {})
    /\ SuperSync
    /\ clean' = TRUE
    /\ EndsUnmounted

\* Twice the cache could not be flushed: some blocks are written.
ShutdownFails(S) ==
    /\ content' = WrittenBack(S)
    /\ lost' = ((dirty \ S) \cap refs # {})
    /\ UNCHANGED <<dsb, dChain, clean>>
    /\ EndsUnmounted

\* The write of mark_clean fails, made or not.
MarkCleanFails ==
    /\ content' = WrittenBack(dirty)
    /\ SuperSync
    /\ clean' \in BOOLEAN
    /\ UNCHANGED lost
    /\ EndsUnmounted

-----------------------------------------------------------------------------
\* The recover command: the superblock is read again, the inodes and the free
\* chain are scanned, and the blocks in neither are freed one by one.

\* Mutant: the loop starts at block 0.
RecoverScanFromZero ==
    /\ AtPrompt
    /\ sb' = dsb
    /\ chain' = dChain
    /\ todo' = (Block \cup {NoBlock}) \ (refs \cup RecoverFree(dsb, content))
    /\ rec' = "leaks"
    /\ missed' = {}
    /\ exposed' = exposed \cap Blocks(dChain)
    /\ UNCHANGED <<dsb, content, dirty, refs, transit, leaving, spoilt, pc, cur, dChain, crashes,
                   faults, clean, lost, warned>>

\* Mutant: blocks in use are not looked for.
RecoverScanFreesUsed ==
    /\ AtPrompt
    /\ sb' = dsb
    /\ chain' = dChain
    /\ todo' = Block \ RecoverFree(dsb, content)
    /\ rec' = "leaks"
    /\ missed' = {}
    /\ exposed' = exposed \cap Blocks(dChain)
    /\ UNCHANGED <<dsb, content, dirty, refs, transit, leaving, spoilt, pc, cur, dChain, crashes,
                   faults, clean, lost, warned>>

RecoverScan ==
    /\ AtPrompt
    /\ sb' = dsb
    /\ chain' = dChain
    /\ todo' = Block \ (refs \cup RecoverFree(dsb, content))
    /\ rec' = "leaks"
    /\ missed' = {}
    /\ exposed' = exposed \cap Blocks(dChain)
    /\ UNCHANGED <<dsb, content, dirty, refs, transit, leaving, spoilt, pc, cur, dChain, crashes,
                   faults, clean, lost, warned>>

RecoverFrees(b) ==
    /\ rec = "leaks"
    /\ InternalFree(b)
    /\ todo' = todo \ {b}
    /\ rec' = "sync"
    /\ UNCHANGED <<dsb, refs, transit, leaving, exposed, spoilt, pc, cur, dChain, crashes, faults,
                   clean, lost, warned, missed>>

\* The write of the superblock; a failure is not noticed.
SyncUnchecked ==
    \/ SuperSync /\ UNCHANGED faults
    \/ /\ faults < MaxFaults
       /\ faults' = faults + 1
       /\ SuperSync \/ UNCHANGED <<dsb, dChain>>

RecoverFreed ==
    /\ rec = "sync"
    /\ SyncUnchecked
    /\ rec' = "leaks"
    /\ UNCHANGED <<sb, content, dirty, refs, transit, leaving, exposed, spoilt, pc, cur, chain,
                   crashes, todo, clean, lost, warned, missed>>

\* The group could not be stored in b: b was not freed, and nobody notices.
RecoverStoreFails(b) ==
    /\ rec = "leaks"
    /\ Len(sb.group) >= GroupSize
    /\ faults < MaxFaults
    /\ faults' = faults + 1
    /\ content' \in {content, [content EXCEPT ![b] = sb.group]}
    /\ dirty' = dirty \ {b}
    /\ todo' = todo \ {b}
    /\ missed' = missed \cup {b}
    /\ UNCHANGED <<sb, dsb, refs, transit, leaving, exposed, spoilt, pc, cur, chain, dChain, crashes,
                   rec, clean, lost, warned>>

\* The free blocks as recover counts them: all that no inode records.
RightCount == Cardinality(Block) - Cardinality(refs)

\* The count in the superblock is left alone if it is the one recover arrived at.
\* Otherwise it is exchanged, and no longer the length of the chain: the correction
\* comes of blocks both free and recorded, or of blocks that could not be freed.
LeaveCount ==
    /\ sb.count = RightCount
    /\ UNCHANGED <<sb, dsb, dChain, spoilt, faults>>

CorrectCount ==
    /\ sb.count # RightCount
    /\ sb' = [sb EXCEPT !.count = RightCount]
    /\ spoilt' = TRUE
    /\ \/ dsb' = sb' /\ dChain' = chain /\ UNCHANGED faults
       \/ /\ faults < MaxFaults
          /\ faults' = faults + 1
          /\ dsb' \in {dsb, sb'}
          /\ dChain' = IF dsb' = sb' THEN chain ELSE dChain

\* With the count checked, the command is over.
RecoverCount ==
    /\ rec = "leaks"
    /\ todo = {}
    /\ LeaveCount \/ CorrectCount
    /\ rec' = "none"
    /\ warned' = FALSE
    /\ missed' = {}
    /\ UNCHANGED <<content, dirty, refs, transit, leaving, exposed, pc, cur, chain, crashes,
                   todo, clean, lost>>

RNext ==
    \/ Operate
    \/ \E b \in transit : Leak(b)
    \/ Kill \/ Remount \/ Umount \/ MarkCleanFails
    \/ \E S \in SUBSET dirty : ShutdownFails(S)
    \/ RecoverScan \/ RecoverFreed \/ RecoverCount
    \/ \E b \in todo : RecoverFrees(b) \/ RecoverStoreFails(b)

RSpec == RInit /\ [][RNext]_allVars

-----------------------------------------------------------------------------
(***************************************************************************)
(* Properties                                                              *)
(***************************************************************************)

\* At every moment a crash can strike, the walk of fsck finds in the image just
\* the free chain: it reports every leaked block and every block both free and
\* recorded, no other, and no error of the chain itself: until a block of the
\* second kind is used, or recover has corrected the count because of one.
FsckTellsTruth ==
    pc # "format" /\ ~spoilt =>
        /\ Fsck(dsb, content, refs) =
             [NoErrors EXCEPT !.leaked = Block \ (refs \cup Blocks(dChain)),
                              !.conflicts = refs \cap Blocks(dChain)]
        /\ UsedInRange(dsb, content, Block) = Block \ Blocks(dChain)

RecoverEnds == rec = "leaks" /\ rec' = "none" /\ pc' = pc

\* When recover is over a second check finds nothing and, unless a write failed, the
\* repair is in the image, however often it was killed on the way: from an image
\* without a block both free and recorded, and if every leaked block could be freed.
RecoverRepairs ==
    [][ RecoverEnds /\ ~spoilt /\ missed = {} /\ refs \cap Blocks(chain) = {} =>
          /\ Fsck(sb', content', refs') = NoErrors
          /\ dsb' = sb' \/ faults' > 0 ]_allVars

\* README.md:1207 promises it of every recovery.
SecondCheckIsClean == [][ RecoverEnds => Fsck(sb', content', refs') = NoErrors ]_allVars

\* What recover corrects in the count at debug.cpp:613 is accounted for: the blocks it
\* could not free are missing in the chain, those both free and recorded are too many,
\* and nothing else is wrong with it, wherever kills and failed writes struck before.
CorrectionAccounted ==
    rec = "leaks" /\ todo = {} /\ ~spoilt =>
        sb.count + Cardinality(missed) = RightCount + Cardinality(refs \cap Blocks(chain))

\* An image is never marked CLEAN when content that a call had written to a file
\* was dropped with the cache.
CleanHidesNoLoss == clean => ~lost

\* Blocks a kill has leaked, or left both free and recorded, are announced: the next
\* mount finds the image DIRTY, or an earlier one did and recover was not run.  It
\* ends where a block of the second kind is used, or recover has corrected the count
\* and left the block as it was.
DamageIsFlagged ==
    pc = "down" /\ faults = 0 /\ ~spoilt /\ Fsck(dsb, content, refs) # NoErrors =>
        ~clean \/ warned
=============================================================================
