------------------------------ MODULE GroupChain ------------------------------
(***************************************************************************)
(* The data block allocator (core/block_alloc.cpp).  Free blocks form a    *)
(* chain of groups: the superblock holds the first group, and the first    *)
(* block of every group but the last holds the next group in its content.  *)
(* alloc and free change the superblock in memory and then write it; the   *)
(* process may be killed between the two, and the write may fail.          *)
(*                                                                         *)
(* The callers are modelled as far as the order of their disk writes goes: *)
(* block_map.cpp records a block in an inode or a pointer block after      *)
(* alloc has returned, and removes the record after free has returned.     *)
(* Contents of allocated blocks pass through the write-back cache          *)
(* (Cache.tla), whose dirty blocks may be written at any moment.           *)
(***************************************************************************)
EXTENDS Naturals, SequencesExt

CONSTANTS
    Block,      \* the data blocks, data_block_start .. total_blocks - 1
    NoBlock,    \* no block: the 0 of the code
    GroupSize,  \* MYFS_FREE_GROUP_SIZE
    MaxCrashes, \* bound: how often the process is killed
    MaxFaults   \* bound: how many device writes fail

ASSUME GroupAssumption ==
    /\ NoBlock \notin Block
    /\ GroupSize \in Nat \ {0}
    /\ MaxCrashes \in Nat
    /\ MaxFaults \in Nat

VARIABLES
    sb,      \* the superblock in memory: free_group and free_blocks_count
    dsb,     \* the same fields in the image
    content, \* what each block of the image reads as: a group, or no group
    dirty,   \* blocks whose cached content is not in the image yet
    refs,    \* blocks recorded in an inode or a pointer block of the image
    transit, \* blocks alloc returned and nothing records yet
    leaving, \* blocks the running call has freed and not cleared the record of yet
    exposed, \* history: the same of calls that were cut short, by an error or a kill
    spoilt,  \* history: a block of exposed was used after that; see the properties
    pc,      \* the step the running call is at
    cur,     \* the block alloc is about to return
    chain,   \* history: the groups of sb's chain, the superblock's own first
    dChain,  \* history: the same for dsb
    crashes, \* how often the process has been killed
    faults   \* how many device writes have failed

vars == <<sb, dsb, content, dirty, refs, transit, leaving, exposed, spoilt, pc, cur, chain, dChain,
          crashes, faults>>

Group == Seq(Block)
Super == [group : Group, count : Nat]
NoGroup == << >>  \* zeroes: read as a group, its count is 0

\* The blocks of a chain, given as a sequence of groups, and what follows its first.
Blocks(c) == UNION {Range(c[i]) : i \in DOMAIN c}
Rest(c) == SubSeq(c, 2, Len(c))

TypeOK ==
    /\ sb \in Super
    /\ dsb \in Super
    /\ content \in [Block -> Group]
    /\ dirty \subseteq Block
    /\ refs \subseteq Block
    /\ transit \subseteq Block
    /\ leaving \subseteq Block
    /\ exposed \subseteq Block
    /\ spoilt \in BOOLEAN
    /\ pc \in {"format", "idle", "alloc", "free", "release", "down"}
    /\ cur \in Block \cup {NoBlock}
    /\ chain \in Seq(Group)
    /\ dChain \in Seq(Group)
    /\ crashes \in 0..MaxCrashes
    /\ faults \in 0..MaxFaults

\* mkfs is about to hand the whole data area to myfs_block_group_init.
Init ==
    /\ sb = [group |-> << >>, count |-> 0]
    /\ dsb = sb
    /\ content = [b \in Block |-> NoGroup]
    /\ dirty = {}
    /\ refs = {}
    /\ transit = {}
    /\ leaving = {}
    /\ exposed = {}
    /\ spoilt = FALSE
    /\ pc = "format"
    /\ cur = NoBlock
    /\ chain = << << >> >>
    /\ dChain = chain
    /\ crashes = 0
    /\ faults = 0

-----------------------------------------------------------------------------
\* internal_free_block_no_sync: b joins the superblock's group, or starts a new
\* one and keeps the full group in its content.  Its cached content is dropped.

Push(b) ==
    /\ Len(sb.group) < GroupSize
    /\ sb' = [group |-> Append(sb.group, b), count |-> sb.count + 1]
    /\ chain' = <<Append(sb.group, b)>> \o Rest(chain)
    /\ UNCHANGED content

Store(b) ==
    /\ Len(sb.group) >= GroupSize
    /\ content' = [content EXCEPT ![b] = sb.group]
    /\ sb' = [group |-> <<b>>, count |-> sb.count + 1]
    /\ chain' = << <<b>> >> \o chain

\* Mutant: the cached content is kept, and written over the group later.
InternalFreeKeepsCached(b) ==
    /\ Push(b) \/ Store(b)
    /\ UNCHANGED dirty

InternalFree(b) ==
    /\ Push(b) \/ Store(b)
    /\ dirty' = dirty \ {b}

\* myfs_super_sync
SuperSync ==
    /\ dsb' = sb
    /\ dChain' = chain

-----------------------------------------------------------------------------
\* myfs_block_group_init frees every block, from the last one down to the
\* first.  Blocks are names here and any order will do: it only renames them.
Format(b) ==
    /\ pc = "format"
    /\ b \notin Blocks(chain)
    /\ InternalFree(b)
    /\ UNCHANGED <<dsb, refs, transit, leaving, exposed, spoilt, pc, cur, dChain, crashes,
                   faults>>

FormatSync ==
    /\ pc = "format"
    /\ Blocks(chain) = Block
    /\ SuperSync
    /\ pc' = "idle"
    /\ UNCHANGED <<sb, content, dirty, refs, transit, leaving, exposed, spoilt, cur, chain,
                   crashes, faults>>

-----------------------------------------------------------------------------
\* Nothing keeps a block that is free and recorded from being used either way.
Used(b) == spoilt' = (spoilt \/ b \in exposed)

\* myfs_block_alloc

\* Mutant: the block returned stays in the group.
AllocPopKeepsBlock ==
    /\ Len(sb.group) > 1
    /\ cur' = Last(sb.group)
    /\ sb' = [sb EXCEPT !.count = sb.count - 1]
    /\ UNCHANGED chain

\* Mutant: the position in the group is taken for the block.
AllocPopPosition ==
    /\ Len(sb.group) > 1
    /\ cur' = Len(sb.group)
    /\ sb' = [group |-> Front(sb.group), count |-> sb.count - 1]
    /\ chain' = <<Front(sb.group)>> \o Rest(chain)

AllocPop ==
    /\ Len(sb.group) > 1
    /\ cur' = Last(sb.group)
    /\ sb' = [group |-> Front(sb.group), count |-> sb.count - 1]
    /\ chain' = <<Front(sb.group)>> \o Rest(chain)

\* Mutant: the last block of a group is taken without loading the next group.
AllocLastUnchecked ==
    /\ Len(sb.group) = 1
    /\ cur' = sb.group[1]
    /\ sb' = [group |-> << >>, count |-> 0]
    /\ chain' = << << >> >>

AllocLast ==
    /\ Len(sb.group) = 1
    /\ sb.count = 1
    /\ cur' = sb.group[1]
    /\ sb' = [group |-> << >>, count |-> 0]
    /\ chain' = << << >> >>

AllocLoad ==
    /\ Len(sb.group) = 1
    /\ sb.count > 1
    /\ cur' = sb.group[1]
    /\ sb' = [group |-> content[sb.group[1]], count |-> sb.count - 1]
    /\ chain' = Rest(chain)

\* With an empty group the call is refused, whatever the count.
Alloc ==
    /\ pc = "idle"
    /\ sb.count # 0
    /\ AllocPop \/ AllocLast \/ AllocLoad
    /\ Used(cur')
    /\ pc' = "alloc"
    /\ UNCHANGED <<dsb, content, dirty, refs, transit, leaving, exposed, dChain, crashes,
                   faults>>

\* Mutant: the block is returned before the superblock is written.
AllocReturnUnsynced ==
    /\ pc = "alloc"
    /\ dirty' = dirty \cup {cur}
    /\ transit' = transit \cup {cur}
    /\ pc' = "idle"
    /\ cur' = NoBlock
    /\ UNCHANGED <<sb, dsb, content, refs, leaving, exposed, spoilt, chain, dChain, crashes,
                   faults>>

\* The superblock is written, the block zeroed in the cache and returned.
AllocReturn ==
    /\ pc = "alloc"
    /\ SuperSync
    /\ dirty' = dirty \cup {cur}
    /\ transit' = transit \cup {cur}
    /\ pc' = "idle"
    /\ cur' = NoBlock
    /\ UNCHANGED <<sb, content, refs, leaving, exposed, spoilt, chain, crashes, faults>>

\* Writing the superblock, or zeroing the block, fails: the block is lost.
AllocFails ==
    /\ pc = "alloc"
    /\ faults < MaxFaults
    /\ faults' = faults + 1
    /\ SuperSync \/ UNCHANGED <<dsb, dChain>>
    /\ pc' = "idle"
    /\ cur' = NoBlock
    /\ UNCHANGED <<sb, content, dirty, refs, transit, leaving, exposed, spoilt, chain, crashes>>

-----------------------------------------------------------------------------
\* myfs_block_free, called by block_map.cpp on a block that is still recorded,
\* once or, when a pointer block or a whole file goes, several times in a row.

Free(b) ==
    /\ pc \in {"idle", "release"}
    /\ b \notin leaving
    /\ InternalFree(b)
    /\ leaving' = leaving \cup {b}
    /\ Used(b)
    /\ pc' = "free"
    /\ UNCHANGED <<dsb, refs, transit, exposed, cur, dChain, crashes, faults>>

FreeReturn ==
    /\ pc = "free"
    /\ SuperSync
    /\ pc' = "release"
    /\ UNCHANGED <<sb, content, dirty, refs, transit, leaving, exposed, spoilt, cur, chain,
                   crashes, faults>>

\* The record of a freed block is cleared (block_map.cpp:580-583, 613-633,
\* 820-824); the call is over when none is left.
Unlink(b) ==
    /\ pc = "release"
    /\ refs' = refs \ {b}
    /\ leaving' = leaving \ {b}
    /\ pc' = IF leaving = {b} THEN "idle" ELSE pc
    /\ UNCHANGED <<sb, dsb, content, dirty, transit, exposed, spoilt, cur, chain, dChain,
                   crashes, faults>>

\* An error makes the caller return at once, and what it has freed stays recorded.
CallerReturns ==
    /\ faults < MaxFaults
    /\ faults' = faults + 1
    /\ exposed' = exposed \cup leaving
    /\ leaving' = {}
    /\ pc' = "idle"

\* The journalled write of the group into b fails: b was not freed.
FreeStoreFails(b) ==
    /\ pc \in {"idle", "release"}
    /\ b \notin leaving
    /\ Len(sb.group) >= GroupSize
    /\ content' \in {content, [content EXCEPT ![b] = sb.group]}
    /\ dirty' = dirty \ {b}
    /\ Used(b)
    /\ CallerReturns
    /\ UNCHANGED <<sb, dsb, refs, transit, cur, chain, dChain, crashes>>

\* The superblock cannot be written.
FreeSyncFails ==
    /\ pc = "free"
    /\ SuperSync \/ UNCHANGED <<dsb, dChain>>
    /\ CallerReturns
    /\ UNCHANGED <<sb, content, dirty, refs, transit, spoilt, cur, chain, crashes>>

-----------------------------------------------------------------------------
\* The callers and the cache.

\* An inode or a pointer block that records the block is written.
Link(b) ==
    /\ pc = "idle"
    /\ refs' = refs \cup {b}
    /\ transit' = transit \ {b}
    /\ UNCHANGED <<sb, dsb, content, dirty, leaving, exposed, spoilt, pc, cur, chain, dChain,
                   crashes, faults>>

OwnerWrite(b) ==
    /\ pc = "idle"
    /\ dirty' = dirty \cup {b}
    /\ Used(b)
    /\ UNCHANGED <<sb, dsb, content, refs, transit, leaving, exposed, pc, cur, chain, dChain,
                   crashes, faults>>

\* The cache evicts or flushes a block.
WriteBack(b) ==
    /\ pc = "idle"
    /\ content' = [content EXCEPT ![b] = NoGroup]
    /\ dirty' = dirty \ {b}
    /\ UNCHANGED <<sb, dsb, refs, transit, leaving, exposed, spoilt, pc, cur, chain, dChain,
                   crashes, faults>>

\* Any other operation that writes the superblock (inode_alloc, myfs_sync).
Sync ==
    /\ pc = "idle"
    /\ SuperSync
    /\ UNCHANGED <<sb, content, dirty, refs, transit, leaving, exposed, spoilt, pc, cur,
                   chain, crashes, faults>>

\* The process is killed; the next one will load the superblock of the image.
Crash ==
    /\ pc \in {"idle", "alloc", "free", "release"}
    /\ crashes < MaxCrashes
    /\ crashes' = crashes + 1
    /\ sb' = dsb
    /\ chain' = dChain
    /\ dirty' = {}
    /\ transit' = {}
    /\ exposed' = (exposed \cup leaving) \cap Blocks(dChain)
    /\ leaving' = {}
    /\ pc' = "down"
    /\ cur' = NoBlock
    /\ UNCHANGED <<dsb, content, refs, spoilt, dChain, faults>>

\* Any image is mounted, also one with blocks that are free and recorded.
Mount ==
    /\ pc = "down"
    /\ pc' = "idle"
    /\ UNCHANGED <<sb, dsb, content, dirty, refs, transit, leaving, exposed, spoilt, cur,
                   chain, dChain, crashes, faults>>

\* What the process does while it runs.
Work ==
    \/ \E b \in Block : Format(b)
    \/ FormatSync
    \/ Alloc \/ AllocReturn \/ AllocFails
    \/ \E b \in refs : Free(b) \/ FreeStoreFails(b)
    \/ FreeReturn \/ FreeSyncFails
    \/ \E b \in leaving : Unlink(b)
    \/ \E b \in transit : Link(b)
    \/ \E b \in refs \cup transit : OwnerWrite(b)
    \/ \E b \in dirty : WriteBack(b)
    \/ Sync

Next == Work \/ Crash \/ Mount

Spec == Init /\ [][Next]_vars

-----------------------------------------------------------------------------
(***************************************************************************)
(* Properties                                                              *)
(*                                                                         *)
(* A call that is cut short between a free and the clearing of the record  *)
(* leaves a block both free and recorded, and the code neither notices nor *)
(* repairs it: sooner or later alloc hands the block to a second owner, or *)
(* the first one writes over the group kept in it, or frees it again, and  *)
(* from then on the chain promises nothing.  What is stated below holds    *)
(* until then: while no block of exposed has been used (~spoilt).          *)
(***************************************************************************)

\* A superblock s and the contents of the free blocks spell out the chain c:
\* following it finds as many blocks as s counts, every one of them once.
Spells(s, c, contents) ==
    /\ Len(c) >= 1
    /\ c[1] = s.group
    /\ Len(s.group) <= GroupSize
    /\ \A i \in 2..Len(c) :
         /\ Len(c[i]) = GroupSize
         /\ c[i-1] # << >>
         /\ contents[c[i-1][1]] = c[i]
    /\ s.count = Len(s.group) + GroupSize * (Len(c) - 1)

\* No block is twice in the chain, within a group or in two groups.
NoRepeats(c) ==
    \A i, j \in DOMAIN c : \A p \in DOMAIN c[i], q \in DOMAIN c[j] :
        c[i][p] = c[j][q] => i = j /\ p = q

\* The free chain the running process follows is intact, although the contents
\* that link it live in data blocks the cache also writes: until a block that a
\* call cut short has left free and recorded is used.
ChainIntact == ~spoilt => Spells(sb, chain, content) /\ NoRepeats(chain)

\* So is, until then, the chain of the image at every moment a crash can strike.
CrashImageIntact ==
    pc # "format" /\ ~spoilt => Spells(dsb, dChain, content) /\ NoRepeats(dChain)

\* The blocks at once free and in use, in memory or in the image, are no others than
\* those the running call, or one that was cut short, has freed and not cleared the
\* record of; and until one of these is used, alloc hands no block out twice.
NoDoubleUse ==
    ~spoilt =>
        /\ (refs \cup transit) \cap (Blocks(chain) \cup Blocks(dChain)) \subseteq leaving \cup exposed
        /\ refs \cap transit = {}
        /\ pc = "alloc" => cur \notin refs \cup transit \cup Blocks(chain)

\* Without a crash and without a failed write no block gets lost.
NothingLost ==
    crashes = 0 /\ faults = 0 /\ pc # "format" =>
        Block = Blocks(chain) \cup refs \cup transit \cup ({cur} \ {NoBlock})
=============================================================================
