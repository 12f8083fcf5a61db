-------------------------------- MODULE Cache --------------------------------
(***************************************************************************)
(* The write-back block cache (core/cache.cpp) over the disk image         *)
(* (core/disk.cpp).  The process has one thread, so a call is one step;    *)
(* the disk writes inside a call may each fail, and the process may be     *)
(* killed between any two calls.  A kill between two writes of one call    *)
(* leaves the disk as a failure of the second write does, followed by a    *)
(* Crash, so the failing outcomes of a call stand for it too.              *)
(*                                                                         *)
(* A write that fails may or may not have reached the image; a block is    *)
(* never half written.                                                     *)
(***************************************************************************)
EXTENDS Naturals, FiniteSets, SequencesExt

CONSTANTS
    Block,     \* the block numbers of the disk image
    Value,     \* the contents a block may have
    Capacities \* the capacities the cache may be initialised with

Status == {"none", "ok", "synced", "error"}

ASSUME CacheAssumption ==
    /\ Capacities \subseteq Nat \ {0}
    /\ Value \cap Status = {}

VARIABLES
    disk,        \* disk.img
    initialized, \* g_cache_initialized
    capacity,    \* g_cache_capacity
    cacheMap,    \* g_cache_map: the cached blocks, each with data and dirty
    lruList,     \* g_lru_list: most recently used block first
    reply,       \* what the last call returned
    stale        \* history: the clean copies that a failed journal write left behind

memory == <<initialized, capacity, cacheMap, lruList>>
vars == <<disk, memory, reply, stale>>

Cached == DOMAIN cacheMap
Dirty == {b \in Cached : cacheMap[b].dirty}
Clean == Cached \ Dirty
Entry == [data : Value, dirty : BOOLEAN]

TypeOK ==
    /\ disk \in [Block -> Value]
    /\ initialized \in BOOLEAN
    /\ capacity \in Capacities \cup {0}
    /\ initialized <=> capacity # 0
    /\ Cached \subseteq Block
    /\ cacheMap \in [Cached -> Entry]
    /\ lruList \in Seq(Block)
    /\ reply \in Value \cup Status
    /\ stale \subseteq Clean

Init ==
    /\ disk \in [Block -> Value]
    /\ initialized = FALSE
    /\ capacity = 0
    /\ cacheMap = << >>
    /\ lruList = << >>
    /\ reply = "none"
    /\ stale = {}

-----------------------------------------------------------------------------
\* Helpers: the recency list, write-back and eviction.

Position(b) == CHOOSE i \in DOMAIN lruList : lruList[i] = b
Without(b) == RemoveAt(lruList, Position(b))

\* touch_block: b becomes the most recently used.
Touched(b) == <<b>> \o Without(b)

\* The disk, and the map, once the cached content of the blocks of S is out.
Written(S) == [b \in Block |-> IF b \in S THEN cacheMap[b].data ELSE disk[b]]
Cleaned(S) ==
    [b \in Cached |-> [data |-> cacheMap[b].data, dirty |-> cacheMap[b].dirty /\ b \notin S]]

\* ensure_capacity: the block it evicts, if the cache is full.  The loop runs
\* at most once, because LruConsistent bounds the number of cached blocks.
Evicted == IF Cardinality(Cached) >= capacity THEN {Last(lruList)} ELSE {}
KeptMap == Restrict(cacheMap, Cached \ Evicted)
KeptList == IF Evicted = {} THEN lruList ELSE Front(lruList)

\* Mutant: the victim is dropped without being written.
InsertDropsDirty(b, e) ==
    /\ disk' = disk
    /\ cacheMap' = [c \in (Cached \ Evicted) \cup {b} |-> IF c = b THEN e ELSE cacheMap[c]]
    /\ lruList' = <<b>> \o KeptList
    /\ UNCHANGED <<initialized, capacity>>

\* Room is made, then b enters at the front of the list.
Insert(b, e) ==
    /\ disk' = Written(Evicted \cap Dirty)
    /\ cacheMap' = [c \in (Cached \ Evicted) \cup {b} |-> IF c = b THEN e ELSE cacheMap[c]]
    /\ lruList' = <<b>> \o KeptList
    /\ UNCHANGED <<initialized, capacity>>

\* Mutant: the block leaves the map and stays in the list.
ForgetKeepsList(b) ==
    /\ cacheMap' = Restrict(cacheMap, Cached \ {b})
    /\ UNCHANGED <<initialized, capacity, lruList>>

\* b leaves the cache, dirty or not.
Forget(b) ==
    /\ cacheMap' = Restrict(cacheMap, Cached \ {b})
    /\ lruList' = IF b \in Cached THEN Without(b) ELSE lruList
    /\ UNCHANGED <<initialized, capacity>>

\* The blocks of S are written back and become clean.
WriteBack(S) ==
    /\ disk' = Written(S)
    /\ cacheMap' = Cleaned(S)
    /\ UNCHANGED <<initialized, capacity, lruList>>

\* The blocks of S are written back, then the write of the dirty block b fails.
WriteBackFails(S, b) ==
    /\ disk' \in {Written(S), Written(S \cup {b})}
    /\ cacheMap' = Cleaned(S)
    /\ reply' = "error"
    /\ UNCHANGED <<initialized, capacity, lruList>>

-----------------------------------------------------------------------------
\* myfs_cache_read_block

ReadDirect(b) ==
    /\ ~initialized
    /\ reply' \in {disk[b], "error"}
    /\ UNCHANGED <<disk, memory>>

ReadHit(b) ==
    /\ initialized
    /\ b \in Cached
    /\ reply' = cacheMap[b].data
    /\ lruList' = Touched(b)
    /\ UNCHANGED <<disk, initialized, capacity, cacheMap>>

ReadMiss(b) ==
    /\ initialized
    /\ b \notin Cached
    /\ Insert(b, [data |-> disk[b], dirty |-> FALSE])
    /\ reply' = disk[b]

\* The block to make room is gone when the disk read fails.
ReadMissFails(b) ==
    /\ initialized
    /\ b \notin Cached
    /\ disk' = Written(Evicted \cap Dirty)
    /\ cacheMap' = KeptMap
    /\ lruList' = KeptList
    /\ reply' = "error"
    /\ UNCHANGED <<initialized, capacity>>

-----------------------------------------------------------------------------
\* myfs_cache_write_block

WriteDirect(b, v) ==
    /\ ~initialized
    /\ \/ disk' = [disk EXCEPT ![b] = v] /\ reply' \in {"ok", "error"}
       \/ disk' = disk /\ reply' = "error"
    /\ UNCHANGED memory

WriteHit(b, v) ==
    /\ initialized
    /\ b \in Cached
    /\ cacheMap' = [cacheMap EXCEPT ![b] = [data |-> v, dirty |-> TRUE]]
    /\ lruList' = Touched(b)
    /\ reply' = "ok"
    /\ UNCHANGED <<disk, initialized, capacity>>

WriteMiss(b, v) ==
    /\ initialized
    /\ b \notin Cached
    /\ Insert(b, [data |-> v, dirty |-> TRUE])
    /\ reply' = "ok"

\* Either miss: the write-back of a dirty victim fails, which keeps it cached.
EvictionFails(b) ==
    /\ initialized
    /\ b \notin Cached
    /\ \E victim \in Evicted \cap Dirty : WriteBackFails({}, victim)

-----------------------------------------------------------------------------
\* myfs_cache_flush_block, myfs_block_fsync

FlushBlock(b) ==
    /\ initialized
    /\ WriteBack({b} \cap Dirty)
    /\ reply' = "ok"

FlushBlockFails(b) ==
    /\ initialized
    /\ b \in Dirty
    /\ WriteBackFails({}, b)

\* Mutant: a write that fails is skipped and success reported.
FlushAllSwallowsErrors ==
    /\ initialized
    /\ \E S \in SUBSET Dirty : WriteBack(S)
    /\ reply' = "synced"

\* myfs_cache_flush_all and myfs_cache_sync, which visit the map in an order
\* nobody chooses and stop at the first write that fails.
FlushAll ==
    /\ initialized
    /\ WriteBack(Dirty)
    /\ reply' = "synced"

FlushAllFails ==
    /\ initialized
    /\ \E S \in SUBSET Dirty : \E b \in Dirty \ S : WriteBackFails(S, b)

\* Mutant: the capacity is not reset.
ShutdownKeepsCapacity ==
    /\ initialized
    /\ disk' = Written(Dirty)
    /\ initialized' = FALSE
    /\ cacheMap' = << >>
    /\ lruList' = << >>
    /\ reply' = "synced"
    /\ UNCHANGED capacity

\* myfs_cache_shutdown; when its flush fails the cache stays as it is.
Shutdown ==
    /\ initialized
    /\ disk' = Written(Dirty)
    /\ initialized' = FALSE
    /\ capacity' = 0
    /\ cacheMap' = << >>
    /\ lruList' = << >>
    /\ reply' = "synced"

\* myfs_cache_init, which shuts an initialised cache down first.
CacheInit(c) ==
    /\ disk' = Written(Dirty)
    /\ initialized' = TRUE
    /\ capacity' = c
    /\ cacheMap' = << >>
    /\ lruList' = << >>
    /\ reply' = "ok"

\* myfs_cache_invalidate_block: called when a block is freed.
Invalidate(b) ==
    /\ initialized
    /\ Forget(b)
    /\ reply' = "ok"
    /\ UNCHANGED disk

-----------------------------------------------------------------------------
\* Mutant: the cached copy is not invalidated.
InstallKeepsCached(b, v) ==
    /\ disk' = [disk EXCEPT ![b] = v]
    /\ reply' = "ok"
    /\ UNCHANGED memory

\* The journal, in commit or in recover, writes a block behind the cache's back,
\* then invalidates it; the clearing of the header that follows may fail.
JournalInstall(b, v) ==
    /\ disk' = [disk EXCEPT ![b] = v]
    /\ Forget(b)
    /\ reply' \in {"ok", "error"}

\* The write to the target fails, made or not: commit and recover return before
\* they invalidate, and a clean copy stays cached over the new content.
JournalWriteFails(b, v) ==
    /\ \/ disk' = disk /\ stale' = stale
       \/ disk' = [disk EXCEPT ![b] = v] /\ stale' = stale \cup ({b} \cap Clean)
    /\ reply' = "error"
    /\ UNCHANGED memory

\* The process dies: only the disk image is left.
Crash ==
    /\ initialized' = FALSE
    /\ capacity' = 0
    /\ cacheMap' = << >>
    /\ lruList' = << >>
    /\ reply' = "none"
    /\ UNCHANGED disk

BlockStep(b) ==
    \/ ReadDirect(b) \/ ReadHit(b) \/ ReadMiss(b) \/ ReadMissFails(b)
    \/ EvictionFails(b) \/ FlushBlock(b) \/ FlushBlockFails(b) \/ Invalidate(b)

ValueStep(b, v) ==
    WriteDirect(b, v) \/ WriteHit(b, v) \/ WriteMiss(b, v) \/ JournalInstall(b, v)

Call ==
    \/ \E b \in Block : BlockStep(b)
    \/ \E b \in Block, v \in Value : ValueStep(b, v)
    \/ \E c \in Capacities : CacheInit(c)
    \/ FlushAll \/ FlushAllFails \/ Shutdown \/ Crash

\* A stale copy stays one until it is written, given up, evicted or dropped
\* with the whole cache.
StaleKept == stale' = stale \cap Clean'

Next ==
    \/ Call /\ StaleKept
    \/ \E b \in Block, v \in Value : JournalWriteFails(b, v)

Spec == Init /\ [][Next]_vars

\* What a read returns, for every block.
Live == [b \in Block |-> IF b \in Cached THEN cacheMap[b].data ELSE disk[b]]

-----------------------------------------------------------------------------
(***************************************************************************)
(* Properties                                                              *)
(***************************************************************************)

\* The recency list names every cached block exactly once and the cache never
\* holds more blocks than its capacity: the iterators cache.cpp keeps into the
\* list stay valid, and eviction always finds a victim, over any mix of hits,
\* misses, evictions that fail, invalidations and restarts.
LruConsistent ==
    /\ IsInjective(lruList)
    /\ Range(lruList) = Cached
    /\ Cardinality(Cached) <= capacity

\* A block that the cache calls clean has the content the disk has, although
\* the journal writes to the disk behind the cache's back: otherwise evicting
\* it (which does not write it) would lose or resurrect an update.  Only the
\* target of a journal write that reported an error and was made may differ,
\* and only the copy that was cached and clean then.
CleanMatchesDisk == \A b \in Clean \ stale : cacheMap[b].data = disk[b]

\* When sync or shutdown reports success every block the readers see is on the
\* disk, whatever failed or was evicted before, but for those same copies: sync
\* takes them for clean and passes them over.
SyncedIsDurable ==
    reply = "synced" => \A b \in Block \ stale : Live[b] = disk[b]

\* The cache is an implementation of the abstract block store: a read returns
\* the last content written, invalidated or left by a crash, no matter how
\* often the block was evicted and fetched in between; after a journal write
\* that failed, it may return the content from before until the copy goes.
Store == INSTANCE BlockStore WITH live <- Live, durable <- disk, torn <- stale
ImplementsBlockStore == Store!Spec
=============================================================================
