------------------------------- MODULE Journal -------------------------------
(***************************************************************************)
(* The metadata journal (core/journal.cpp): a redo log of one transaction. *)
(* commit writes the new contents to the journal's data blocks, then a     *)
(* COMMITTED header, then the target blocks, then a CLEAN header.  Every   *)
(* one of these disk writes is a step of its own, the process may be       *)
(* killed before any of them, and any of them may fail.                    *)
(*                                                                         *)
(* The checksum, the magic number and the range checks of recover guard    *)
(* against an image damaged by others and are not modelled; no code reads  *)
(* the transaction number.                                                 *)
(***************************************************************************)
EXTENDS Naturals, SequencesExt

CONSTANTS
    Target,       \* the metadata blocks of the image
    Value,        \* the contents a block may have
    MaxEntries,   \* MYFS_JOURNAL_MAX_ENTRIES
    MaxFaults,    \* bound: how many device writes fail in a behaviour
    RecoverFirst  \* whether recover is run before the first transaction after
                  \* a mount, as journal.h asks; vfs_upper.cpp does not do it

ASSUME JournalAssumption ==
    /\ MaxEntries \in Nat \ {0}
    /\ MaxFaults \in Nat
    /\ RecoverFirst \in BOOLEAN

VARIABLES
    disk,      \* the target blocks in the image
    slots,     \* the journal's data blocks, journal_start + 1 onwards
    header,    \* the journal's header block, journal_start
    active,    \* g_journal_active
    entries,   \* g_entries: targets and contents logged so far
    pc,        \* which disk write of which call comes next
    k,         \* the index of the loop that write is in
    recovered, \* whether recover has succeeded since the mount
    faults,    \* how many device writes have failed
    txn        \* history: the entries of the last header written as COMMITTED

image == <<disk, slots, header>>
memory == <<active, entries, pc, k, recovered>>
vars == <<image, memory, faults, txn>>

EntryRecord == [target : Target, data : Value]
CleanHeader == [state |-> "clean", targets |-> << >>]
Headers == [state : {"clean", "committed"}, targets : Seq(Target)]
Phases == {"down", "idle", "slots", "header", "targets", "clear", "abort", "replay", "finish"}

TypeOK ==
    /\ disk \in [Target -> Value]
    /\ slots \in [1..MaxEntries -> Value]
    /\ header \in Headers
    /\ Len(header.targets) <= MaxEntries
    /\ active \in BOOLEAN
    /\ entries \in Seq(EntryRecord)
    /\ Len(entries) <= MaxEntries
    /\ pc \in Phases
    /\ k \in 1..MaxEntries
    /\ recovered \in BOOLEAN
    /\ faults \in 0..MaxFaults
    /\ txn \in Seq(EntryRecord)

\* A freshly formatted image (myfs_journal_format), mounted.
Init ==
    /\ disk \in [Target -> Value]
    /\ \E v \in Value : slots = [i \in 1..MaxEntries |-> v]
    /\ header = CleanHeader
    /\ active = FALSE
    /\ entries = << >>
    /\ pc = "idle"
    /\ k = 1
    /\ recovered = TRUE
    /\ faults = 0
    /\ txn = << >>

-----------------------------------------------------------------------------
\* The disk write each phase of commit, abort and recover makes.

PutSlot ==
    /\ slots' = [slots EXCEPT ![k] = entries[k].data]
    /\ UNCHANGED <<disk, header, txn>>

PutCommitted ==
    /\ header' = [state |-> "committed", targets |-> [i \in DOMAIN entries |-> entries[i].target]]
    /\ txn' = entries
    /\ UNCHANGED <<disk, slots>>

PutTarget ==
    /\ disk' = [disk EXCEPT ![entries[k].target] = entries[k].data]
    /\ UNCHANGED <<slots, header, txn>>

\* clear_journal_header
PutClean ==
    /\ header' = CleanHeader
    /\ UNCHANGED <<disk, slots, txn>>

PutReplayed ==
    /\ disk' = [disk EXCEPT ![header.targets[k]] = slots[k]]
    /\ UNCHANGED <<slots, header, txn>>

DiskWrite ==
    \/ pc = "slots" /\ PutSlot
    \/ pc = "header" /\ PutCommitted
    \/ pc = "targets" /\ PutTarget
    \/ pc \in {"clear", "abort", "finish"} /\ PutClean
    \/ pc = "replay" /\ PutReplayed

\* The loop over n entries goes on in the same phase, or the next phase begins.
Advance(n, next) ==
    IF k < n THEN k' = k + 1 /\ pc' = pc
             ELSE k' = 1 /\ pc' = next

EndTransaction ==
    /\ active' = FALSE
    /\ entries' = << >>

-----------------------------------------------------------------------------
\* Building a transaction in memory.

Begin ==
    /\ pc = "idle"
    /\ ~active
    /\ RecoverFirst => recovered
    /\ active' = TRUE
    /\ entries' = << >>
    /\ UNCHANGED <<image, pc, k, recovered, faults, txn>>

\* Mutant: the check for a full list is missing.
LogBlockUnchecked(t, v) ==
    /\ pc = "idle"
    /\ active
    /\ Len(entries) <= MaxEntries
    /\ entries' = Append(entries, [target |-> t, data |-> v])
    /\ UNCHANGED <<image, active, pc, k, recovered, faults, txn>>

\* myfs_journal_log_block: a block logged twice keeps its last content.  The
\* code refuses any call when the list is full, an overwrite included.
LogBlock(t, v) ==
    /\ pc = "idle"
    /\ active
    /\ Len(entries) < MaxEntries
    /\ entries' =
         IF \E i \in DOMAIN entries : entries[i].target = t
         THEN [i \in DOMAIN entries |->
                 IF entries[i].target = t THEN [entries[i] EXCEPT !.data = v] ELSE entries[i]]
         ELSE Append(entries, [target |-> t, data |-> v])
    /\ UNCHANGED <<image, active, pc, k, recovered, faults, txn>>

-----------------------------------------------------------------------------
\* myfs_journal_commit

CommitEmpty ==
    /\ pc = "idle"
    /\ active
    /\ entries = << >>
    /\ active' = FALSE
    /\ UNCHANGED <<image, entries, pc, k, recovered, faults, txn>>

CommitStart ==
    /\ pc = "idle"
    /\ active
    /\ entries # << >>
    /\ pc' = "slots"
    /\ k' = 1
    /\ UNCHANGED <<image, active, entries, recovered, faults, txn>>

\* Mutant: the loop stops one entry too early.
WriteSlotStopsEarly ==
    /\ pc = "slots"
    /\ DiskWrite
    /\ Advance(Len(entries) - 1, "header")
    /\ UNCHANGED <<active, entries, recovered, faults>>

WriteSlot ==
    /\ pc = "slots"
    /\ DiskWrite
    /\ Advance(Len(entries), "header")
    /\ UNCHANGED <<active, entries, recovered, faults>>

\* Mutant: the header is cleared before the targets are written.
WriteHeaderThenClear ==
    /\ pc = "header"
    /\ DiskWrite
    /\ pc' = "clear"
    /\ UNCHANGED <<active, entries, k, recovered, faults>>

WriteHeader ==
    /\ pc = "header"
    /\ DiskWrite
    /\ pc' = "targets"
    /\ UNCHANGED <<active, entries, k, recovered, faults>>

WriteTarget ==
    /\ pc = "targets"
    /\ DiskWrite
    /\ Advance(Len(entries), "clear")
    /\ UNCHANGED <<active, entries, recovered, faults>>

ClearHeader ==
    /\ pc = "clear"
    /\ DiskWrite
    /\ EndTransaction
    /\ pc' = "idle"
    /\ UNCHANGED <<k, recovered, faults>>

\* myfs_journal_abort: the caller gives up a transaction.
Abort ==
    /\ pc = "idle"
    /\ active
    /\ EndTransaction
    /\ pc' = "abort"
    /\ UNCHANGED <<image, k, recovered, faults, txn>>

AbortClear ==
    /\ pc = "abort"
    /\ DiskWrite
    /\ pc' = "idle"
    /\ UNCHANGED <<active, entries, k, recovered, faults>>

-----------------------------------------------------------------------------
\* myfs_journal_recover

RecoverClean ==
    /\ pc = "idle"
    /\ ~active
    /\ header.state = "clean"
    /\ recovered' = TRUE
    /\ UNCHANGED <<image, active, entries, pc, k, faults, txn>>

\* Mutant: only the header is cleared.
RecoverStartSkipsReplay ==
    /\ pc = "idle"
    /\ ~active
    /\ header.state = "committed"
    /\ pc' = "finish"
    /\ k' = 1
    /\ UNCHANGED <<image, active, entries, recovered, faults, txn>>

RecoverStart ==
    /\ pc = "idle"
    /\ ~active
    /\ header.state = "committed"
    /\ pc' = "replay"
    /\ k' = 1
    /\ UNCHANGED <<image, active, entries, recovered, faults, txn>>

Replay ==
    /\ pc = "replay"
    /\ DiskWrite
    /\ Advance(Len(header.targets), "finish")
    /\ UNCHANGED <<active, entries, recovered, faults>>

RecoverFinish ==
    /\ pc = "finish"
    /\ DiskWrite
    /\ pc' = "idle"
    /\ recovered' = TRUE
    /\ UNCHANGED <<active, entries, k, faults>>

-----------------------------------------------------------------------------
\* A device write fails, made or not.  A call that commits is given up with
\* abort (myfs_journal_write_metadata_block); abort and recover just return.
DeviceFault ==
    /\ pc \notin {"down", "idle"}
    /\ faults < MaxFaults
    /\ faults' = faults + 1
    /\ DiskWrite \/ UNCHANGED <<image, txn>>
    /\ k' = 1
    /\ pc' = IF pc \in {"slots", "header", "targets", "clear"} THEN "abort" ELSE "idle"
    /\ EndTransaction
    /\ UNCHANGED recovered

\* The process is killed between two disk writes.
Crash ==
    /\ pc # "down"
    /\ pc' = "down"
    /\ k' = 1
    /\ EndTransaction
    /\ UNCHANGED <<image, recovered, faults, txn>>

\* myfs_mount, which leaves the journal alone.
Mount ==
    /\ pc = "down"
    /\ pc' = "idle"
    /\ recovered' = FALSE
    /\ UNCHANGED <<image, active, entries, k, faults, txn>>

Next ==
    \/ Begin
    \/ \E t \in Target, v \in Value : LogBlock(t, v)
    \/ CommitEmpty \/ CommitStart \/ WriteSlot \/ WriteHeader \/ WriteTarget \/ ClearHeader
    \/ Abort \/ AbortClear
    \/ RecoverClean \/ RecoverStart \/ Replay \/ RecoverFinish
    \/ DeviceFault \/ Crash \/ Mount

Spec == Init /\ [][Next]_vars

\* A call that has begun goes on unless the process is killed.  Nobody has to begin
\* or to commit a transaction, to mount the image again or to run recover: those are
\* commands that the user gives or does not give.
Running == WriteSlot \/ WriteHeader \/ WriteTarget \/ ClearHeader \/ AbortClear \/ Replay \/ RecoverFinish

FairSpec == Spec /\ WF_vars(Running)

-----------------------------------------------------------------------------
(***************************************************************************)
(* Properties                                                              *)
(***************************************************************************)

\* Whenever the header says COMMITTED, replaying the journal writes the blocks
\* of the transaction it was written for, each with the content that was logged:
\* no later transaction has reused the data blocks under a live header.
ReplayIsFaithful ==
    header.state = "committed" =>
        /\ Len(header.targets) = Len(txn)
        /\ \A i \in DOMAIN txn :
             header.targets[i] = txn[i].target /\ slots[i] = txn[i].data

\* A COMMITTED header is replaced only when every block it lists has reached
\* its place: what the comment at journal.cpp:270 requires of a committed
\* transaction, and what mount.cpp:368 says of one left behind by a crash.
CommittedIsApplied ==
    [][ header.state = "committed" /\ header' # header =>
          \A i \in DOMAIN txn : disk[txn[i].target] = txn[i].data ]_vars

\* A commit that has written its COMMITTED header, and a recovery that has found one,
\* end with every block of that transaction in its place and the header cleared,
\* whatever kills came before, unless a kill comes now or a device write fails.
InPlace == \A i \in DOMAIN txn : disk[txn[i].target] = txn[i].data
CommittedReachesPlace ==
    header.state = "committed" /\ pc \notin {"down", "idle"}
        ~> pc = "down" \/ faults > 0 \/ (header.state = "clean" /\ InPlace)

\* The metadata blocks d once recovery has replayed the slots s under the header h.
Replayed(d, s, h) ==
    [t \in Target |->
        IF h.state = "committed" /\ t \in Range(h.targets)
        THEN s[CHOOSE i \in DOMAIN h.targets : h.targets[i] = t]
        ELSE d[t]]

\* The metadata blocks as a crash now, and a recovery after it, would leave them.
AfterRecovery == Replayed(disk, slots, header)

\* The contents logged in a list of entries, by target.
Logged(list) ==
    [t \in {list[i].target : i \in DOMAIN list} |->
        list[CHOOSE i \in DOMAIN list : list[i].target = t].data]

\* What the running transaction will change: nothing any more once its header
\* is in the image, which is the moment the transaction is made.
Pending == IF pc \in {"targets", "clear"} THEN << >> ELSE Logged(entries)

\* The journal makes a transaction atomic across crashes at any disk write, in
\* the commit and in the recovery itself, until a device write fails.
Atomic == INSTANCE AtomicStore WITH store <- AfterRecovery, pending <- Pending,
                                    faulty <- (faults > 0)
TransactionsAreAtomic == Atomic!Spec
=============================================================================
