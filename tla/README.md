# Verification of final_os_system

TLA+ models of the UNIX-like file system in `src/os_system`, checked with TLC and partly proved
with TLAPS. Paths below without a directory are under `src/os_system/src/core/`.

The program is a single-threaded command line tool (`fs_upper_demo`) over a disk image
(`disk.img`, blocks of 4096 bytes). No two calls ever run at once; what makes it hard is *time*:
the process may be killed between any two disk writes, a write may fail in the middle of a call,
contents live in two places (a write-back cache and the image), metadata reaches the image by two
routes (through a journal, or directly), and long sequences of calls reuse blocks and inodes.

## Inventory

| Part | Code | State | Operations |
|---|---|---|---|
| Disk image | `disk.cpp` | the blocks of `disk.img`, the open file | create, open, close, read_block, write_block |
| Block cache | `cache.cpp`, `sync.cpp` | `g_cache_map` (data, dirty), `g_lru_list`, capacity, initialised | init, read, write, flush_block, flush_all, sync, invalidate, shutdown |
| Metadata journal | `journal.cpp` | `g_entries`, `g_journal_active` in memory; header block and data blocks in the image | format, begin, log_block, commit, abort, recover, write_metadata_block |
| Superblock | `superblock.cpp` | the superblock in memory and in block 0 | init, load, sync, check, mark_dirty, mark_clean |
| Block allocator | `block_alloc.cpp` | `free_group`, `free_blocks_count` of the superblock; the groups kept in free blocks | group_init, alloc, free, zero |
| Inode table and bitmap | `inode.cpp` | bitmap and table blocks, `free_inodes_count` | alloc, free, read, write, link and open counts, reset_open_counts |
| Block map | `block_map.cpp` | `direct[]`, `indirect1`, `indirect2`, `block_count` of an inode; pointer blocks | get_data_block, bmap, release_data_block, release_all_blocks |
| Raw file I/O | `raw_file.cpp` | `size` of an inode, data blocks, `f_offset` of a descriptor | read, write, truncate, zero_range |
| Mount, format, unmount | `mount.cpp`, `physical_api.cpp` | mounted flag, superblock state clean/dirty | mkfs, mount, umount, sync |
| Layout | `layout.cpp` | none (pure arithmetic) | build, check |
| Consistency check | `fsck.cpp` | none (reads the image) | scan inodes, free chain, conflicts, leaks |
| Block recovery | `debug.cpp` | free chain, free count, superblock state | recover_blocks |
| Path and file layer | `../vfs_upper.cpp` | inode cache, descriptors, users, current directory | login, create, open, close, read, write, delete, link, mkdir, rmdir, seek, truncate, format, mount |
| User interface | `src/fs_ui/main.py` | none of the file system's | runs the binary, parses its output |

How they interact: everything is a direct call, top down. The path layer calls raw file I/O and
the inode table; raw file I/O calls the block map; the block map calls the allocator; the
allocator changes the superblock in memory and writes it with `myfs_super_sync`. Data blocks go
through the cache. Pointer blocks, group blocks and inode blocks are written with
`myfs_journal_write_metadata_block`, a transaction of one block: the journal writes the image
*under* the cache and then invalidates the cached copy. The superblock is written directly. So
one image is written from three sides, and the order of these writes is what a crash sees.

What makes each part correct:

- cache: a read returns what was last written, however often the block was evicted; a block
  called clean equals the image; a sync that reports success made everything durable.
- journal: a transaction is made wholly or not at all; a COMMITTED header always describes what
  the journal's blocks hold; a committed transaction is never dropped.
- allocator: the free chain is intact in memory and in the image at every crash point, no block
  is free and in use, none is lost while nothing fails. The code keeps the first two only until a
  block that a call cut short has left both free and recorded is used again.
- block map: files never share a block, a call changes one logical block of one file,
  `block_count` is exact, nothing leaks.
- inode table: an inode in use is marked in the bitmap, a free one is in no directory; the free
  count agrees.
- path layer: link counts equal directory entries, open counts equal descriptors, no entry names
  a free inode, nothing is unreachable and allocated.
- raw file I/O: a file is an array of bytes with a size; bytes past the end are never seen again,
  and a call that fails midway changes no byte it was not given.
- layout: the regions fill the disk without a gap or an overlap, and every inode has its own bit and
  its own slot inside them.
- consistency check and recovery: fsck reports the damage a kill has left and no other; after
  `recover_blocks` a second check is clean if there was no block both free and recorded.
- mount and unmount: an image marked CLEAN hides no lost write, and damage is announced.

The hazards these properties are for are listed line by line in `PROJECT.json`.

## Modules

| Module | Role |
|---|---|
| `BlockStore` | abstract: a block store with live and durable contents |
| `Cache` | `cache.cpp` over `disk.cpp`; implements `BlockStore` |
| `CacheProofs` | theorems about `Cache` |
| `AtomicStore` | abstract: transactions on the metadata blocks |
| `Journal` | `journal.cpp`, one step per disk write; implements `AtomicStore` |
| `JournalProofs` | theorems about `Journal` |
| `GroupChain` | `block_alloc.cpp` with the superblock in memory and in the image |
| `GroupChainProofs` | theorems about `GroupChain` |
| `FileMap` | abstract: one partial map from logical to physical blocks per file |
| `BlockMap` | `block_map.cpp`; implements `FileMap` when there is no cache |
| `BlockMapProofs` | theorems about `BlockMap` and `BlockCheck` |
| `BlockCheck` | the scan of `fsck.cpp` and `debug.cpp` over the pointer trees of `BlockMap`, and recover |
| `Recovery` | `mount.cpp`, `physical_api.cpp`, `fsck.cpp`, `debug.cpp` over `GroupChain` |
| `RecoveryProofs` | theorems about `Recovery` |
| `ByteFile` | abstract: a file as an array of bytes with a size and descriptors with offsets |
| `RawFile` | `raw_file.cpp` with the offsets of `vfs_upper.cpp`; implements `ByteFile` |
| `RawFileProofs` | theorems about `RawFile` |
| `Layout`, `LayoutProofs` | `layout.cpp` in 32 bits, and theorems about it |
| `Inodes` | `inode.cpp`, one step per write of the image |
| `Namespace` | `vfs_upper.cpp` over `Inodes`: directories, links, descriptors, the users' file |
| `NamespaceProofs` | theorems about `Namespace` over `Inodes` |
| `MC*` | the instances TLC checks, with symmetry and view |

### Cache

`cacheMap`, `lruList`, `capacity`, `initialized` are the four variables of `cache.cpp`; `disk` is
the image. A call is one step, `reply` is what it returned. `Evicted`, `KeptMap`, `KeptList` are
`ensure_capacity` with `evict_one_block`; `Insert` is what a miss does after it. Each call has
failing outcomes: a write-back that fails keeps its block dirty, a read that fails has evicted a
block already, `flush_all` leaves any subset of the dirty blocks written because the order of an
`unordered_map` is anybody's. `JournalInstall` is the journal's write under the cache, followed by
`invalidate`, and it may fail in two ways. When the header cannot be cleared afterwards the call reports an
error and nothing else changes. When the target's own write fails commit returns before the
`invalidate` (`journal.cpp:303`, `JournalWriteFails`): if the write was made all the same, a clean cached copy no longer
equals the image. Such blocks are in `stale` until they are written, evicted, dropped or installed again; what is claimed of clean blocks
and of a successful sync excepts them, and nothing else. `BlockStore` has the same as `torn` and `InstallHidden`: the callers
go on reading the old content, and from some step on the new one. A kill between two writes of one call leaves the image a failed second write would
leave, followed by `Crash`, so calls need not be split.

### Journal

Every disk write of commit, abort and recover is a step of its own (`WriteSlot`, `WriteHeader`,
`WriteTarget`, `ClearHeader`, `AbortClear`, `Replay`, `RecoverFinish`), `Crash` may come before
any of them, and `DeviceFault` makes any of them fail, made or not, and sends the call where
`myfs_journal_write_metadata_block` sends it (`abort`). `RecoverFirst` says whether recover runs
before the first transaction after a mount; the CLI does not do this.

### GroupChain

`sb` and `dsb` are the superblock in memory and in the image, `content` what each block reads as
when it is taken for a group. `Alloc`/`AllocReturn` and `Free`/`FreeReturn` are split where the
code changes the memory first and writes the superblock afterwards. The callers are there as far
as the order of their writes goes: `Link` records a block after alloc has returned it, `Unlink`
clears the record after free has returned, and several blocks may be freed before their records
are cleared (`leaving`). A call that an error or a kill cuts short there leaves these blocks free and
recorded (`exposed`), and nothing in the code notices: `CallerReturns` leads back to the prompt, and `Mount`
takes any image. Then alloc may hand such a block to a second owner, its first owner may write over the group kept in
it, or free it again (`spoilt`), and from there on the chain promises nothing. So the steps go on, and what
`ChainIntact`, `CrashImageIntact`, `NoDoubleUse` and the properties of `Recovery` state holds until
`spoilt`; that no block but those of `exposed` can be the reason is what they state until then. `OwnerWrite` and `WriteBack` are the data that goes through the cache into
the same blocks. `chain` and `dChain` are history variables: the groups of the two chains, which
the properties compare with what the superblock and the contents really spell out.

### BlockMap

`inode` holds the map part of every inode, `content` what each block reads as when it is taken for
pointers, `free` the allocator (its chain is `GroupChain`'s subject). `GetDirect`, `GetSingle`, `GetDouble` are
the three regions of `myfs_inode_get_data_block`, each with every place it may run out of space;
`Release*` those of `myfs_inode_release_data_block`; `ReleaseAll` frees a whole file. `Place` names every
spot a pointer can sit in (an inode's own, an entry of a pointer block), `Holds` what sits there, as `myfs_inode_release_all_blocks`
visits them. `CacheOn`
separates the configuration of the CLI, where alloc zeroes the cached copy and pointer blocks are
read from the image, from the one of `block_map_test1.cpp`, which has no cache.

### Recovery and BlockCheck

`Recovery` extends `GroupChain` by the life of an image: `Remount` marks it DIRTY, `Umount` syncs,
shuts the cache down and marks it CLEAN, with the failures of each step whose result
`physical_api.cpp` drops (`ShutdownFails`, `MarkCleanFails`), `Kill` ends it anywhere, and `Leak` is a caller that returns
without recording its block. Any image is mounted, also one with a block both free and recorded. `Walk` is the loop of `fsck.cpp` and `debug.cpp` over the free chain in the image,
with the blocks it collects and the errors it counts; `Fsck` is what the command reports. recover is
`RecoverScan`, then for each leaked block `RecoverFrees` and the superblock write `RecoverFreed`,
then `RecoverCount`; a kill may come between any two of them. recover does not look at what the functions it calls return:
a block whose group cannot be stored is not freed (`RecoverStoreFails`, `missed`), and the superblock may fail
to reach the image (`SyncUnchecked`). `RecoverCount` leaves the count alone or exchanges it (`LeaveCount`,
`CorrectCount`); an exchanged count is not the length of the chain any more, so this sets `spoilt`, too. `clean` is the mark in the
image, `lost` and `warned` remember whether cached content was dropped and whether a mount has announced damage.

`BlockCheck` adds to `BlockMap` the scan of the pointer trees, from which pointer block to which, as the set of references it meets (the
order plays no part), the duplicates, conflicts and leaks this yields, and recover as one step that frees what is leaked.

### RawFile

`blocks` are the logical blocks of one file, mapped or `Hole`. `Chunks` is the loop over the blocks a
read or a write touches; `WriteFails` stops it at any chunk, before the block is mapped, after it or after its
write, or at the inode's own write when all chunks are done. `truncate` clears the rest of the last block and releases the blocks
behind it; it fails at any release (the first beyond the map always does), at the clearing, or at the
inode's write (`GrowFails`, `EmptyFails`, `ShrinkFails`). A release that fails in the middle has given the
block up and kept its record. From then on (`loose`) the block may belong to another file as well, and `Overwritten` is what
happens to it there. `zero_range` writes its pieces one step each. `ByteFile` has bytes, a size, offsets and
`loose`, and knows of no blocks.

### Layout

`Layout` has no state: `Build` computes the regions as `layout.cpp` does, every sum cut to 32 bits, `Check` is
the superblock check of the next load, and the places of an inode's bit and slot are those of `inode.cpp`.
It is proved about and not run: its numbers are those of real disks.

### Inodes and Namespace

`table`, `used` and `freeInodes` are the inode table, the bitmap and the count of the superblock.
A command of `vfs_upper.cpp` is an action that puts the writes it makes into `todo`; each of them is
one step, and `Crash` may come between any two (`AllocSteps`, `Free`, `DecLink` and the like are the
functions of `inode.cpp`, which may put more steps in front). `content` is the data of each inode in
pieces: a piece is a directory entry, or data, or nothing. Nothing in the image tells a directory from
a file, and the code lets them meet: `link` does not check that the new parent is a directory,
`create` truncates a directory that exists, and a directory can be opened for writing. A write there may begin at any
byte, so `Written` lets it turn a piece into data, into nothing, into an entry for "." or ".." (`Dots`), or into an entry of
`Spelled`: another inode under an old name, or an entry that was never added. `InitDir` is the first block of a new directory
(`vfs_init_dir`), whose failure leaks the inode. `Stored` is what
an entry keeps of a name: one that is longer than 13 bytes is cut and never found again. `store` is
the inode in which the process saves the users. `CloseAll` is the loop of `sys_logout`, which closes one
descriptor after the other and then goes on with what `logout` or `exit` has left to do. `Reached` are the inodes
some path leads to, stated as the least set that has the root and is closed under `namei`.

## What the runs check

| Run | Instance | Shows |
|---|---|---|
| `cache` | 4 blocks, 2 contents, capacities 1 and 2 | `LruConsistent`, `CleanMatchesDisk`, `SyncedIsDurable`, and `Cache` implements `BlockStore` |
| `journal` | 3 targets, 2 contents, 2 entries, 1 fault, recover first | `ReplayIsFaithful`; `Journal` implements `AtomicStore`; `CommittedReachesPlace` |
| `journal_mount` | 2 targets, no fault, recover not forced | violation: a committed transaction is dropped |
| `journal_fault` | 2 targets, 1 fault | violation: abort clears a committed header |
| `group_chain` | 5 blocks in groups of 2, 2 kills, 2 faults, with `Recovery` | `ChainIntact`, `CrashImageIntact`, `NoDoubleUse`, `NothingLost`; `FsckTellsTruth`, `RecoverRepairs`, `CorrectionAccounted`, `CleanHidesNoLoss`, `DamageIsFlagged` |
| `recover_conflict` | 3 blocks, 1 kill, no fault | violation: recover keeps a conflict and makes the count wrong (`SecondCheckIsClean`) |
| `block_map` | 2 files, 5 blocks, 1 direct, 2 pointers per block, no cache | `UsedOnce`, `AccountsExact`, `FsckReportsOnlyLeaks`; `BlockMap` implements `FileMap` |
| `block_map_stale` | the same with the cache | violation: a reused pointer block is read with old pointers |
| `block_map_leak` | the same without | violation: a pointer block is lost when space runs out |
| `raw_file` | blocks of 2 bytes, 2 blocks in the map, sizes to 5, 2 bytes per call, 1 descriptor | `NothingPastEnd`; `RawFile` implements `ByteFile` |
| `namespace` | 4 inodes, 3 names, 2 entries per directory, 2 descriptors, 4 commands and kills, of these 2 kills; data may spell one entry | `InUseIsMarked`, `KillsLeaveLittle`, `LinksCoverEntries`, `OpenFilesKept`, `NothingLost` |
| `namespace_users` | the same with at most 1 kill | violation: users are saved in a file that is not `/.users` |

Why the bounds are enough. Capacity 1 makes every miss evict, 2 of 4 leaves hits, misses and order
to matter, with a clean and a stale copy side by side. Two journal entries over three targets give transactions of every size, an overwritten
entry and a full list. Five blocks in groups of two make three groups, so a group is stored into and loaded
from a block that is not at an end of the chain; two kills let one strike the repair after the other, and of two failed writes one may leave a block
free and recorded and the other fall into the recovery.
Two files over five blocks can use both indirect regions, and can run out of space at every
allocation of every call. A map of two blocks of two bytes, with sizes up to five, has calls that begin or end
inside a block, at its edge, over two blocks, at the end of the file and beyond the map. Four inodes are the root, the users'
file and two more, so that a file in a subdirectory, a reused inode and a full table occur; four commands
open, link and delete a file (a kill counts as a command: four with the kills after them, three with one before or between them), the second kill may strike the mount after the first, and `exit`, which is not counted, and a new mount may
come between any two. What is capped are `MaxFaults`, `MaxCrashes`, `MaxCalls`, and the sizes and lengths of `RawFile`
(`MaxSize`, `MaxLength`); nothing else grows. `Symmetry` permutes blocks and files no operator tells apart. One entry data may spell
is enough for an entry that changes its inode and for one that appears from nothing, as the inode it names is free, in use or allocated later. `View` leaves out the
contents of blocks no chain or map follows: a store or a zeroing writes them before they are
followed again. After `spoilt` the view of `group_chain` has only what the types and `CleanHidesNoLoss` read, since nothing else is claimed there; so
TLC follows those two only in part beyond it, and their theorems cover the rest.

Deadlock is checked except in `group_chain` and `recover_conflict`, which stop after the last crash
allowed. In `namespace` it also shows that no call
ever meets an inode the bitmap has as free, for its step would stay in `todo`.

### Fairness

The program reacts to one command at a time and nobody has to give one, so only a call that has begun
must end. `Journal` is where this is not obvious: `CommittedReachesPlace` says that a commit or a
recovery that finds a committed transaction brings it to its place and clears its header, unless the process is killed
or a write fails. `FairSpec` assumes `WF(Running)` and nothing else: the
next write of a commit, an abort or a recovery is made, for the process has one thread and waits for nothing. Without it a
commit stops in the middle. No fairness is put on `Mount`, `Recover`, `Begin` or the start of a commit, which are commands nobody has to
give: a transaction that a kill has cut short waits for a recovery that may never be asked for, and if
metadata is written first it is dropped (`journal_mount`).

## Findings

- **A mount that does not recover drops a committed transaction** (`journal_mount`). `myfs_mount`
  leaves the COMMITTED header alone (`mount.cpp:376`), and the CLI writes metadata through the
  journal at once (`vfs_upper.cpp:2094`). The next transaction overwrites the journal's blocks and
  clears the header. `journal.h:18` promises a replay at the next mount.
- **A failed target write drops a committed transaction** (`journal_fault`). `commit` fails after the COMMITTED
  header is written, the caller aborts, abort clears the header (`journal.cpp:450`), although
  `journal.cpp:270` says that the transaction must be replayed from here on.
- **New pointer blocks are read stale** (`block_map_stale`). With the cache on, the zeroes of
  `myfs_block_zero` are in the cache (`block_alloc.cpp:100`) and `read_pointer_block` reads the
  image (`block_map.cpp:66`).
- **A pointer block is lost when space runs out** (`block_map_leak`). The call returns at
  `block_map.cpp:301` and `:508` before the inode is written.
- **Users are saved in a file that is no longer `/.users`** (`namespace_users`). The inode is remembered
  (`vfs_upper.cpp:464`) after `/.users` has been deleted; the next mount finds no `/.users`, although
  `README.md:96` of the repository says that users persist there.

- **Recover keeps a conflict and breaks the count** (`recover_conflict`). A kill between the superblock write of free and
  the clearing of the record leaves a block free and recorded. recover frees only what is neither, then takes the count
  from its scan (`debug.cpp:611`): one less than the chain has. `README.md:1163` and `:1207` of the repository
  promise a repair and a second check without errors (`SecondCheckIsClean`).

What the properties of `namespace` make exceptions for is what the code loses, inode by inode (`lost`): `rmdir` never
frees the inode of a directory, an inode is leaked when its entry does not fit, entries go with data that is
truncated, written over or freed, and a kill leaves what the running call or a descriptor held without a
name. Every inode that is neither in `lost` nor in `uncounted` has as many names as links. `KillsLeaveLittle` bounds what fsck has to report: one
inode and a count off by one for each kill. Some entries are not known to a link count (`uncounted`): a kill between the two writes of `link`
leaves one, and a write into a directory can make one. After that deleting one name frees the file under the other.

## Proofs

All for any sets of blocks, contents and targets, and any values of the numeric constants.

- `CacheProofs`. Assumes `CacheAssumption` (capacities are positive; contents and statuses
  differ). Inductive invariant `IInv == Shape /\ ReplyOK`: `SyncedIsDurable` speaks of the reply of
  the last call only and needs the shape of list and map to say which content is live. `Shape` has `stale \subseteq Clean`: a block that is stale
  has a clean copy, so a sync, which makes all copies clean, still says which blocks it has not made durable. `LruConsistent`
  is what makes the victim of an eviction a cached block; without it `Last(lruList)` may be anything.
  The refinement has one lemma per call, each giving its step of `BlockStore`.
- `JournalProofs`. Assumes `JournalAssumption`. `IInv` is `Shape`, which always holds, and `Order`, which
  holds as long as recover runs first and at most one write has failed: it says which part of the
  loop each phase has done (`SlotsWritten`, `TargetsWritten`) and that a header is committed only
  where a transaction or a recovery is under way, or a fault has happened. `ReplayIsFaithful` does not
  hold with two faults (abort fails after commit did, and the next transaction writes the slots
  under the old header), nor without recover, so these hypotheses are part of the theorem.
- `LayoutProofs`. Assumes the sizes are 32-bit numbers. `RegionsFollow`: an accepted layout divides the image without a gap.
  `InodesHavePlaces` and `PlacesAreDistinct`: up to 16777200 inodes each has a bit and a slot of its own in the
  regions; `SlotsStayInTable`: beyond that an inode that is not refused still has its slot before the journal. `LoadAcceptsFormatted`: what
  mkfs writes passes the check of the next load. Two theorems show limits: `JournalNeedsFullSize` (below
  2064 blocks the journal is too small for `journal.cpp`) and `TableSizeWraps` (from 2^24 inodes on the table comes out too small and the
  layout is accepted).
- `RecoveryProofs`. Assumes `GroupAssumption` and `RecoveryAssumption` (finitely many blocks). The invariant is
  `RInv == IInv /\ MarkInv /\ Busy /\ (~spoilt => Repairing /\ Synced /\ Flagged)`.
  `IInv` is that of `GroupChain`, kept by every new step. `MarkInv`: while the process runs the image is DIRTY and nothing is lost, and a
  CLEAN image hides no loss. That is inductive although `CleanHidesNoLoss` alone is not: `ShutdownFails` loses content,
  which must be known to happen while the image is DIRTY. `Repairing`: while recover runs every block is
  recorded, free, still in `todo` or `missed`, and the last two are neither recorded nor free; `CorrectionAccounted` counts these sets. `Synced`: between calls memory and image have the same chain unless a write failed.
  `Flagged`: until a mount has warned no block is missing and none both free and recorded. What the checked properties add is the walk. `FsckSays` says
  what fsck reports of any intact chain: the blocks neither recorded nor free, those both, and no error. The walk is followed round by
  round (`Row`: what it has found after n groups, `Reads`: what it is at); that it gets there, within as many rounds as
  there are blocks, is an induction over the rounds.
- `GroupChainProofs`. Assumes `GroupAssumption`. `IInv == TypeOK /\ Owners /\ (~spoilt => Sound)`: `Owners` (which call the freed and
  cached blocks belong to) holds always, the chains in memory and in the image are sound until a block that is free and recorded is used. Nothing is assumed of when that is,
  so the theorems hold over any number of mounts of such images. The parts of `Sound` need each other: the chain survives an
  owner's write because its block is in no chain (`NoDoubleUse`), and a block is in no chain because
  chains are what they spell out. One lemma per chain operation (`PushKeepsChain`,
  `StoreKeepsChain`, `PopKeepsChain`, `LastKeepsChain`, `LoadKeepsChain`, `WriteKeepsChain`) says what
  it does to a chain, and `FreedJoinsChain`, `AllocatedLeavesChain` bring them to the calls. `Owners` says of
  blocks in hand only what a caller that leaks them leaves true, so `IInv` is inductive under the steps of `Recovery` too.
- `BlockMapProofs`. Assumes `BlockMapAssumption` (positive sizes, finitely many blocks) and that there is no cache; with the
  cache `UsedOnce` fails (`block_map_stale`). Trees are looked at flat, as the function `Holds` from places to
  pointers. `IInv` says that a block fills at most one place of all files together and is then not free (`Sound`), that every block is
  held or free, and each count exact, until a call has failed, and that no count ever exceeds the blocks held: a call that
  runs out of space may leave a level 1 block attached and not counted. Each call is a chain of single steps (take a block and
  hang it in at a place, or clear a place and give its block back); `Joins` and `Leaves` say what one such
  step does to all files together, `ChangesAddUp` sums the steps of a call up. The refinement
  of `FileMap` goes with them: a logical block is what its place of data holds (`PlaceOf`, no two of a file the same), a single step says
  which place of data comes or goes (`Adds`, `Drops`), so a call moves one logical block or none (`OneBlockMoves`). That a block
  which comes was in no map before needs the invariant: it would still be there, and be used twice.
  All are theorems of `CheckedSpec`, in which recover may come between any two calls. The scan of `BlockCheck` follows the pointers on its own; `ScanMeets` says that it comes to
  each place of a map that is not empty and to no other, so `FsckReportsOnlyLeaks` follows from `IInv`, and recover keeps it as it frees only
  what no place holds.
- `RawFileProofs`. Assumes `RawFileAssumption`: at least one block of at least one byte, a hole is not the content of a block, and `MaxSize` is no
  less than what the map can hold, for it bounds what the runs do and must not stop a write the code would do. The loop over the chunks is
  followed by an induction over the bytes it has done, which says of every byte whether it is new, old, or
  zero in a block that was a hole. `CleanEnd` is `NothingPastEnd` in bytes: until a call fails midway no block lies behind
  the end and the bytes behind it are zero. Each call is then one of
  `ByteFile`; a call that fails at a block is the shorter write `ByteFile` allows, with the size of before or, when the inode's write was made though it failed, the new one. A
  truncation that fails has cleared bytes only behind the new end. Only one that failed sets `loose` (`LooseFailed`), and `Overwritten` is then a step of `ByteFile`, too.

- `NamespaceProofs`. Assumes `InodesAssumption` and `NamespaceAssumption` (there is an inode besides the root, data has at least one piece,
  a name that has been cut is not cut again, and `.users` is not cut). What makes the calls hard to prove about is that they
  are rows of writes, any of which a kill may turn into the last. So the first part names the stages a row goes through
  (`MarkNew`, `WriteNew`, `AddLink`, `Dropping`, `Closing`, ...) and says with `Shape` that `todo` is always one of
  them: a row of steps that need nothing of each other (`Plain`), or one stage followed by such a row. `Stages` says
  what holds of the inode a stage is about, for instance that an inode about to be written is marked and free in the table.
  `WellFormed`, which has these and `InUseIsMarked`, is inductive, with one lemma per action and per step of `Work`. The second part adds a layer for
  each property, every one inductive together with those before it: `CountRight` and `StatesRight` (the free inode count with
  what the running call owes it, and the inodes wrong besides the one in work, against the number of kills); `NamesCovered` (a link count covers
  the names of every inode that is not in `uncounted`, and a stage that frees or drops has let go of one before); `OpensRight` (an open count is the number of descriptors, but for the one
  the running call is about to count); `EndsClosed` (when `exit` halts no descriptor is left); and `AllKept` (an inode in use is named and
  counted exactly, or open, or in the hands of the running call, or in `lost` or `uncounted`). A kill ends a row anywhere: each layer shows that what the
  row still owed is what `crashes`, `uncounted` and `lost` take over. A write into a directory may change any name: it moves the
  inode it takes a name from into `lost` and the one it gives a name to into `uncounted`, so what is said of an inode is said of each by itself. An inode freed twice, a count dropped for a name that is still
  there, or a descriptor closed twice would each break the stage it leads to.

Model-checked only: `CommittedReachesPlace`, since liveness under fairness and ENABLED are out of the
prover's reach. So are the library's induction theorems, which take an operator. Inductions over the rounds of a loop are done here by
sets of numbers instead: `SetInduction` derives from the well-foundedness of the numbers that a set with 0 that is closed under successor has all of them.

## Modelling decisions

- A block is written whole or not at all. A write that fails may have been made or not.
- The journal's checksum, magic numbers and range checks guard against an image damaged from
  outside and are left out; so is the transaction number, which nothing reads.
- In the CLI every transaction logs one block. `Journal` lets a caller log any number.
- `GroupChain` follows an image with a block both free and recorded, but claims nothing of its chain once the block is used. It does not say
  what the inodes then hold; `refs` is the set of recorded blocks, and two owners of one block are one element of it.
- In `Recovery` no kill strikes during mkfs; recover reads pointer blocks, which the journal keeps out of the
  cache, as fsck does. A failed read of an inode or a group, which makes fsck or recover give up, is left out.
- `RawFile` treats a call as one step. Any read of a block and any write, release or write of the inode may fail. Sizes stay below
  2^44, from where the block number of an offset is cut to 32 bits. Which bytes a shared block shows (`loose`) is left open.
- `BlockMap` treats a call as one step. A new pointer block is read with its old content when the
  cache is on, although an eviction before the read could have saved it.
- `Namespace` leaves out permissions, the current directory, reading, and `format` of a mounted image.
  Only kills strike there: what a failed write does to the blocks is the subject of the modules below.
  The entries `"."` and `".."` are left out, as is their repair in the root at mount, since paths are normalised before they are looked up; only that a
  directory whose data was made to read so counts as empty is there (`Dots`).
- Data written to a file is never all zeroes in `Namespace`, so it always takes the place of an entry `link` has put there; in a directory
  it may be zero. An entry spelled with an inode number beyond the table is refused as one of a free inode is, and only the latter is enumerated.
- `disk.cpp:153` ignores the result of `fflush`; the models take a reported success for a write. Were
  it otherwise no property of the cache or the journal could hold, so this hazard has no property of its own.
- `vfs_upper.cpp:506` truncates the users' file and writes it again. `Namespace` has both writes and the kill between
  them, but not what the file says, so the users such a kill loses are not counted.

## Not modelled

- `src/fs_ui`, a front end without file system state, and `error.cpp`, a table of messages.
- The commands of `debug.cpp` that only print, and the read-only queries of `physical_api.cpp` but the block map display.
- The file handling of `disk.cpp` (create, open, close).
- Permissions, owners, modes and times; the current directory; the text of the users' file; `format` of a mounted image.
- A kill during mkfs, which writes a CLEAN superblock first (`mount.cpp:159`): nothing of value is in the image yet.
- Checksums and magic numbers, which guard against an image damaged from outside.

## Plan

All components of the core are modelled, and all safety properties that the passing runs check are proved, the refinements included. What is left to
model is a kill during mkfs and the text of the users' file, so that a truncated one can be told from a whole one.
