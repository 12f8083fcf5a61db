---------------------------- MODULE JournalProofs ----------------------------
(***************************************************************************)
(* Proofs about Journal.tla, for any metadata blocks, contents and journal *)
(* size, when recover is run before the first transaction after a mount.   *)
(***************************************************************************)
EXTENDS Journal, SequenceTheorems, TLAPS

-----------------------------------------------------------------------------
(***************************************************************************)
(* The inductive invariant                                                 *)
(***************************************************************************)

\* No target is listed twice.
Distinct(list) == \A i, j \in DOMAIN list : list[i] = list[j] => i = j
DistinctTargets == \A i, j \in DOMAIN entries : entries[i].target = entries[j].target => i = j

\* What holds whatever fails: the loops stay within their lists, and a list is
\* there exactly while a transaction is.
Shape ==
    /\ TypeOK
    /\ DistinctTargets
    /\ Distinct(header.targets)
    /\ header.state = "committed" => header.targets # << >>
    /\ ~active => entries = << >>
    /\ active => pc \in {"idle", "slots", "header", "targets", "clear"}
    /\ pc \in {"slots", "header", "targets", "clear"} => entries # << >>
    /\ pc \in {"slots", "targets"} => k <= Len(entries)
    /\ pc = "header" => k = 1
    /\ pc = "replay" => k <= Len(header.targets)
    /\ pc \in {"replay", "finish"} => header.state = "committed"

\* The first n entries are in the slots, the first n targets in place.
SlotsWritten(n) == \A i \in 1..n : slots[i] = entries[i].data
TargetsWritten(n) == \A i \in 1..n : disk[header.targets[i]] = slots[i]

\* Where the header may say COMMITTED, and what has been written by then.
Order ==
    /\ ReplayIsFaithful
    /\ active => recovered
    /\ pc \in {"slots", "header"} => recovered
    /\ pc \in {"slots", "header"} => header.state = "clean"
    /\ pc = "idle" /\ recovered => header.state = "clean"
    /\ pc = "abort" /\ header.state = "committed" => faults > 0
    /\ pc \in {"replay", "finish"} => ~recovered
    /\ pc \in {"targets", "clear"} => header.state = "committed" /\ txn = entries
    /\ pc = "slots" => SlotsWritten(k - 1)
    /\ pc = "header" => SlotsWritten(Len(entries))
    /\ pc \in {"targets", "replay"} => TargetsWritten(k - 1)
    /\ pc \in {"clear", "finish"} => TargetsWritten(Len(header.targets))

IInv == Shape /\ (RecoverFirst /\ faults <= 1 => Order)

-----------------------------------------------------------------------------
(***************************************************************************)
(* Lists of entries                                                        *)
(***************************************************************************)

\* The targets of a list of entries are a list of the same length.
LEMMA TargetsOfEntries ==
    ASSUME NEW list \in Seq(EntryRecord)
    PROVE  LET targets == [i \in DOMAIN list |-> list[i].target]
           IN  /\ targets \in Seq(Target)
               /\ Len(targets) = Len(list)
               /\ DOMAIN targets = DOMAIN list
<1> DEFINE targets == [i \in DOMAIN list |-> list[i].target]
<1>1. /\ Len(list) \in Nat
      /\ DOMAIN list = 1..Len(list)
      /\ \A i \in DOMAIN list : list[i] \in EntryRecord
  BY LenProperties, ElementOfSeq
<1>2. targets \in [1..Len(list) -> Target]
  BY <1>1 DEF EntryRecord
<1>3. targets \in Seq(Target)
  BY <1>1, <1>2, SeqDef
<1> QED BY <1>1, <1>2, <1>3, LenProperties

\* Logging a block keeps the list well formed and its targets distinct.
LEMMA LoggingKeepsDistinct ==
    ASSUME NEW t \in Target, NEW v \in Value, Shape, LogBlock(t, v)
    PROVE  /\ entries' \in Seq(EntryRecord)
           /\ Len(entries') <= MaxEntries
           /\ DistinctTargets'
<1>1. /\ entries \in Seq(EntryRecord)
      /\ Len(entries) \in Nat
      /\ DOMAIN entries = 1..Len(entries)
      /\ Len(entries) < MaxEntries
      /\ MaxEntries \in Nat
      /\ \A i \in DOMAIN entries : entries[i] \in EntryRecord
  BY JournalAssumption, LenProperties, ElementOfSeq DEF Shape, TypeOK, LogBlock
<1>2. CASE \E i \in DOMAIN entries : entries[i].target = t
  <2> DEFINE Entry(i) == IF entries[i].target = t THEN [entries[i] EXCEPT !.data = v] ELSE entries[i]
  <2>1. entries' = [i \in DOMAIN entries |-> Entry(i)]
    BY <1>2 DEF LogBlock
  <2>2. \A i \in DOMAIN entries : Entry(i) \in EntryRecord /\ Entry(i).target = entries[i].target
    BY <1>1 DEF EntryRecord
  <2> HIDE DEF Entry
  <2>3. entries' \in [1..Len(entries) -> EntryRecord]
    BY <1>1, <2>1, <2>2
  <2>4. entries' \in Seq(EntryRecord) /\ Len(entries') = Len(entries) /\ DOMAIN entries' = DOMAIN entries
    BY <1>1, <2>3, SeqDef, LenProperties
  <2>5. DistinctTargets'
    BY <2>1, <2>2, <2>4 DEF Shape, DistinctTargets
  <2> QED BY <1>1, <2>4, <2>5
<1>3. CASE ~ \E i \in DOMAIN entries : entries[i].target = t
  <2> DEFINE e == [target |-> t, data |-> v]
  <2>1. entries' = Append(entries, e)
    BY <1>3 DEF LogBlock
  <2>2. e \in EntryRecord /\ e.target = t
    BY DEF EntryRecord
  <2> HIDE DEF e
  <2>3. /\ entries' \in Seq(EntryRecord)
        /\ Len(entries') = Len(entries) + 1
        /\ DOMAIN entries' = 1..(Len(entries) + 1)
        /\ \A i \in 1..Len(entries) : entries'[i] = entries[i]
        /\ entries'[Len(entries) + 1] = e
    BY <1>1, <2>1, <2>2, AppendProperties
  <2>4. DistinctTargets'
    <3> SUFFICES ASSUME NEW i \in DOMAIN entries', NEW j \in DOMAIN entries',
                        entries'[i].target = entries'[j].target
                 PROVE  i = j
      BY DEF DistinctTargets
    <3>1. CASE i \in DOMAIN entries /\ j \in DOMAIN entries
      BY <1>1, <2>3, <3>1 DEF Shape, DistinctTargets
    <3>2. CASE i = Len(entries) + 1 \/ j = Len(entries) + 1
      BY <1>1, <1>3, <2>2, <2>3, <3>2
    <3> QED BY <1>1, <2>3, <3>1, <3>2
  <2> QED BY <1>1, <2>3, <2>4
<1> QED BY <1>2, <1>3

-----------------------------------------------------------------------------
(***************************************************************************)
(* What a recovery leaves, and what a transaction holds                    *)
(***************************************************************************)

\* Under a clean header a recovery changes nothing.
LEMMA CleanIsReplayed ==
    ASSUME NEW d \in [Target -> Value], NEW s, NEW h, h.state # "committed"
    PROVE  Replayed(d, s, h) = d
  BY DEF Replayed

\* Under a committed one it writes the slots over their targets.
LEMMA CommittedIsReplayed ==
    ASSUME NEW d, NEW s, NEW h, h.state = "committed", Distinct(h.targets),
           NEW t \in Target
    PROVE  /\ \A i \in DOMAIN h.targets : h.targets[i] = t => Replayed(d, s, h)[t] = s[i]
           /\ t \notin Range(h.targets) => Replayed(d, s, h)[t] = d[t]
<1>1. ASSUME NEW i \in DOMAIN h.targets, h.targets[i] = t
      PROVE  Replayed(d, s, h)[t] = s[i]
  <2>1. t \in Range(h.targets)
    BY <1>1 DEF Range
  <2>2. (CHOOSE j \in DOMAIN h.targets : h.targets[j] = t) = i
    BY <1>1 DEF Distinct
  <2> QED BY <2>1, <2>2 DEF Replayed
<1> QED BY <1>1 DEF Replayed

\* Either way it leaves every metadata block with a content.
LEMMA ReplayedType ==
    ASSUME NEW d \in [Target -> Value], NEW s \in [1..MaxEntries -> Value], NEW h \in Headers,
           Len(h.targets) <= MaxEntries
    PROVE  Replayed(d, s, h) \in [Target -> Value]
<1>1. /\ h.targets \in Seq(Target)
      /\ Len(h.targets) \in Nat
      /\ DOMAIN h.targets = 1..Len(h.targets)
  BY LenProperties DEF Headers
<1>2. \A i \in DOMAIN h.targets : s[i] \in Value
  BY <1>1, JournalAssumption
<1>3. ASSUME NEW t \in Range(h.targets)
      PROVE  s[CHOOSE i \in DOMAIN h.targets : h.targets[i] = t] \in Value
  <2>1. \E i \in DOMAIN h.targets : h.targets[i] = t
    BY DEF Range
  <2> QED BY <1>2, <2>1
<1> QED BY <1>3 DEF Replayed

\* A list of entries with distinct targets holds, for each, what was logged last.
LEMMA LoggedIs ==
    ASSUME NEW list \in Seq(EntryRecord),
           \A i, j \in DOMAIN list : list[i].target = list[j].target => i = j
    PROVE  /\ DOMAIN Logged(list) = {list[i].target : i \in DOMAIN list}
           /\ \A i \in DOMAIN list : Logged(list)[list[i].target] = list[i].data
           /\ Logged(list) \in UNION {[S -> Value] : S \in SUBSET Target}
<1> DEFINE Named == {list[i].target : i \in DOMAIN list}
           At(t) == CHOOSE i \in DOMAIN list : list[i].target = t
<1>1. \A i \in DOMAIN list : list[i].target \in Target /\ list[i].data \in Value
  <2>1. \A i \in DOMAIN list : list[i] \in EntryRecord
    BY LenProperties, ElementOfSeq
  <2> QED BY <2>1 DEF EntryRecord
<1>2. \A i \in DOMAIN list : At(list[i].target) = i
  OBVIOUS
<1>3. \A t \in Named : At(t) \in DOMAIN list
  OBVIOUS
<1>4. Logged(list) = [t \in Named |-> list[At(t)].data]
  BY DEF Logged
<1> HIDE DEF At
<1>5. Logged(list) \in [Named -> Value]
  BY <1>1, <1>3, <1>4
<1>6. Named \in SUBSET Target
  BY <1>1
<1> QED BY <1>2, <1>4, <1>5, <1>6

\* An empty list holds nothing.
LEMMA NothingLogged == Logged(<< >>) = << >>
<1>1. DOMAIN << >> = {}
  BY EmptySeq
<1>2. {<< >>[i].target : i \in DOMAIN << >>} = {}
  BY <1>1
<1> QED BY <1>2 DEF Logged

-----------------------------------------------------------------------------
(***************************************************************************)
(* The shape                                                               *)
(***************************************************************************)

\* A fresh image has the shape.
LEMMA InitShape == Init => Shape
<1> SUFFICES ASSUME Init PROVE Shape
  OBVIOUS
<1>1. << >> \in Seq(Target) /\ << >> \in Seq(EntryRecord) /\ Len(<< >>) = 0 /\ DOMAIN << >> = {}
  BY EmptySeq
<1>2. slots \in [1..MaxEntries -> Value]
  BY DEF Init
<1>3. /\ header.targets = << >>
      /\ header.state = "clean"
      /\ header \in Headers
  BY <1>1 DEF Init, CleanHeader, Headers
<1>4. TypeOK
  <2>1. 1 \in 1..MaxEntries /\ 0 \in 0..MaxFaults /\ 0 <= MaxEntries
    BY JournalAssumption
  <2>2. Len(header.targets) <= MaxEntries /\ Len(entries) <= MaxEntries
    BY <1>1, <1>3, <2>1, Zenon DEF Init
  <2> QED BY <1>1, <1>2, <1>3, <2>1, <2>2, Zenon DEF Init, TypeOK, Phases
<1>5. DistinctTargets /\ Distinct(header.targets)
  BY <1>1, <1>3 DEF Init, DistinctTargets, Distinct
<1> QED BY <1>3, <1>4, <1>5 DEF Init, Shape

\* The two lists of a state and what they hold.
LEMMA ShapeOfLists ==
    ASSUME Shape
    PROVE  /\ Len(entries) \in Nat /\ DOMAIN entries = 1..Len(entries)
           /\ Len(header.targets) \in Nat /\ DOMAIN header.targets = 1..Len(header.targets)
           /\ \A i \in DOMAIN entries : entries[i].target \in Target /\ entries[i].data \in Value
           /\ \A i \in DOMAIN header.targets : header.targets[i] \in Target
<1>1. entries \in Seq(EntryRecord) /\ header.targets \in Seq(Target)
  BY DEF Shape, TypeOK, Headers
<1>2. /\ Len(entries) \in Nat /\ DOMAIN entries = 1..Len(entries)
      /\ Len(header.targets) \in Nat /\ DOMAIN header.targets = 1..Len(header.targets)
  BY <1>1, LenProperties
<1>3. \A i \in DOMAIN entries : entries[i] \in EntryRecord
  BY <1>1, <1>2, ElementOfSeq
<1>4. \A i \in DOMAIN header.targets : header.targets[i] \in Target
  BY <1>1, <1>2, ElementOfSeq
<1> QED BY <1>2, <1>3, <1>4 DEF EntryRecord

\* What every disk write keeps of the image.
LEMMA WriteKeepsImage ==
    ASSUME Shape, DiskWrite
    PROVE  /\ disk' \in [Target -> Value]
           /\ slots' \in [1..MaxEntries -> Value]
           /\ header' \in Headers
           /\ Len(header'.targets) <= MaxEntries
           /\ Distinct(header'.targets)
           /\ header'.state = "committed" => header'.targets # << >>
           /\ txn' \in Seq(EntryRecord)
           /\ pc = "replay" => header' = header
<1>1. /\ Len(entries) \in Nat /\ DOMAIN entries = 1..Len(entries)
      /\ Len(header.targets) \in Nat /\ DOMAIN header.targets = 1..Len(header.targets)
      /\ \A i \in DOMAIN entries : entries[i].target \in Target /\ entries[i].data \in Value
      /\ \A i \in DOMAIN header.targets : header.targets[i] \in Target
  BY ShapeOfLists
<1>2. CASE pc = "slots" /\ PutSlot
  BY <1>1, <1>2 DEF Shape, TypeOK, PutSlot
<1>3. CASE pc = "header" /\ PutCommitted
  <2> DEFINE targets == [i \in DOMAIN entries |-> entries[i].target]
  <2>1. header' = [state |-> "committed", targets |-> targets]
    BY <1>3 DEF PutCommitted
  <2>2. targets \in Seq(Target) /\ Len(targets) = Len(entries) /\ DOMAIN targets = DOMAIN entries
    BY TargetsOfEntries DEF Shape, TypeOK
  <2>3. entries # << >> /\ Len(entries) # 0
    BY <1>3, EmptySeq DEF Shape, TypeOK
  <2>4. targets # << >>
    BY <2>2, <2>3, EmptySeq
  <2>5. Distinct(targets)
    BY <2>2 DEF Distinct, Shape, DistinctTargets
  <2> HIDE DEF targets
  <2>6. header' \in Headers /\ header'.targets = targets
    BY <2>1, <2>2 DEF Headers
  <2> QED BY <1>3, <2>2, <2>4, <2>5, <2>6 DEF Shape, TypeOK, PutCommitted
<1>4. CASE pc = "targets" /\ PutTarget
  BY <1>1, <1>4 DEF Shape, TypeOK, PutTarget
<1>5. CASE pc \in {"clear", "abort", "finish"} /\ PutClean
  <2>1. << >> \in Seq(Target) /\ Len(<< >>) = 0 /\ DOMAIN << >> = {}
    BY EmptySeq
  <2> QED BY <1>5, <2>1, JournalAssumption DEF Shape, TypeOK, PutClean, CleanHeader, Headers, Distinct
<1>6. CASE pc = "replay" /\ PutReplayed
  BY <1>1, <1>6 DEF Shape, TypeOK, PutReplayed
<1> QED BY <1>2, <1>3, <1>4, <1>5, <1>6 DEF DiskWrite

\* Giving a transaction up leaves a well formed empty list.
LEMMA NoEntries ==
    ASSUME EndTransaction
    PROVE  /\ active' = FALSE
           /\ entries' = << >>
           /\ entries' \in Seq(EntryRecord)
           /\ Len(entries') <= MaxEntries
           /\ DistinctTargets'
<1>1. << >> \in Seq(EntryRecord) /\ Len(<< >>) = 0 /\ DOMAIN << >> = {}
  BY EmptySeq
<1> QED BY <1>1, JournalAssumption DEF EndTransaction, DistinctTargets

\* Every step keeps the shape.
LEMMA NextShape == Shape /\ [Next]_vars => Shape'
<1> SUFFICES ASSUME Shape, [Next]_vars PROVE Shape'
  OBVIOUS
<1>a. /\ Len(entries) \in Nat
      /\ Len(header.targets) \in Nat
      /\ Len(header.targets) <= MaxEntries
      /\ Len(entries) <= MaxEntries
      /\ k \in 1..MaxEntries
      /\ MaxEntries \in Nat \ {0}
      /\ 1 \in 1..MaxEntries
  BY ShapeOfLists, JournalAssumption DEF Shape, TypeOK
<1>b. /\ entries # << >> => 1 <= Len(entries)
      /\ header.targets # << >> => 1 <= Len(header.targets)
  BY <1>a, EmptySeq DEF Shape, TypeOK, Headers
<1>c. ASSUME NEW n \in Nat, n <= MaxEntries, k <= n, NEW next, Advance(n, next)
      PROVE  /\ k' \in 1..MaxEntries
             /\ \/ pc' = pc /\ k' = k + 1 /\ k' <= n
                \/ pc' = next /\ k' = 1 /\ k = n
  <2>1. CASE k < n
    BY <1>a, <1>c, <2>1 DEF Advance
  <2>2. CASE ~(k < n)
    BY <1>a, <1>c, <2>2 DEF Advance
  <2> QED BY <2>1, <2>2
<1>1. CASE Begin
  <2>1. entries' = << >> /\ entries' \in Seq(EntryRecord) /\ Len(entries') <= MaxEntries /\ DistinctTargets'
    <3>1. << >> \in Seq(EntryRecord) /\ Len(<< >>) = 0 /\ DOMAIN << >> = {}
      BY EmptySeq
    <3> QED BY <1>1, <1>a, <3>1 DEF Begin, DistinctTargets
  <2> QED BY <1>1, <2>1 DEF Begin, Shape, TypeOK, image
<1>2. ASSUME NEW t \in Target, NEW v \in Value, LogBlock(t, v) PROVE Shape'
  BY <1>2, LoggingKeepsDistinct DEF LogBlock, Shape, TypeOK, image
<1>3. CASE CommitEmpty
  BY <1>3 DEF CommitEmpty, Shape, TypeOK, image, DistinctTargets
<1>4. CASE CommitStart
  BY <1>4, <1>a, <1>b DEF CommitStart, Shape, TypeOK, image, Phases, DistinctTargets
<1>5. CASE WriteSlot
  <2>1. k' \in 1..MaxEntries /\ ((pc' = "slots" /\ k' <= Len(entries)) \/ (pc' = "header" /\ k' = 1))
    BY <1>5, <1>a, <1>c DEF WriteSlot, Shape
  <2> QED BY <1>5, <2>1, WriteKeepsImage DEF WriteSlot, Shape, TypeOK, Phases, DistinctTargets
<1>6. CASE WriteHeader
  BY <1>6, <1>a, <1>b, WriteKeepsImage DEF WriteHeader, Shape, TypeOK, Phases, DistinctTargets
<1>7. CASE WriteTarget
  <2>1. k' \in 1..MaxEntries /\ ((pc' = "targets" /\ k' <= Len(entries)) \/ (pc' = "clear" /\ k' = 1))
    BY <1>7, <1>a, <1>c DEF WriteTarget, Shape
  <2> QED BY <1>7, <2>1, WriteKeepsImage DEF WriteTarget, Shape, TypeOK, Phases, DistinctTargets
<1>8. CASE ClearHeader
  BY <1>8, WriteKeepsImage, NoEntries DEF ClearHeader, Shape, TypeOK, Phases
<1>9. CASE Abort
  BY <1>9, NoEntries DEF Abort, Shape, TypeOK, Phases, image
<1>10. CASE AbortClear
  BY <1>10, WriteKeepsImage DEF AbortClear, Shape, TypeOK, Phases, DistinctTargets
<1>11. CASE RecoverClean
  BY <1>11 DEF RecoverClean, Shape, TypeOK, image, DistinctTargets
<1>12. CASE RecoverStart
  BY <1>12, <1>a, <1>b DEF RecoverStart, Shape, TypeOK, image, Phases, DistinctTargets
<1>13. CASE Replay
  <2>1. k' \in 1..MaxEntries /\ ((pc' = "replay" /\ k' <= Len(header.targets)) \/ (pc' = "finish" /\ k' = 1))
    BY <1>13, <1>a, <1>c DEF Replay, Shape
  <2> QED BY <1>13, <2>1, WriteKeepsImage DEF Replay, Shape, TypeOK, Phases, DistinctTargets
<1>14. CASE RecoverFinish
  BY <1>14, WriteKeepsImage DEF RecoverFinish, Shape, TypeOK, Phases, DistinctTargets
<1>15. CASE DeviceFault
  <2>1. faults' \in 0..MaxFaults
    BY <1>15, JournalAssumption DEF DeviceFault, Shape, TypeOK
  <2>2. pc' \in {"abort", "idle"} /\ k' = 1 /\ recovered' = recovered /\ EndTransaction
    BY <1>15 DEF DeviceFault
  <2>3. CASE DiskWrite
    BY <1>a, <2>1, <2>2, <2>3, WriteKeepsImage, NoEntries DEF Shape, TypeOK, Phases
  <2>4. CASE UNCHANGED <<image, txn>>
    BY <1>a, <2>1, <2>2, <2>4, NoEntries DEF Shape, TypeOK, Phases, image
  <2> QED BY <1>15, <2>3, <2>4 DEF DeviceFault
<1>16. CASE Crash
  BY <1>16, <1>a, NoEntries DEF Crash, Shape, TypeOK, Phases, image
<1>17. CASE Mount
  BY <1>17 DEF Mount, Shape, TypeOK, Phases, image, DistinctTargets
<1>18. CASE UNCHANGED vars
  BY <1>18 DEF vars, image, memory, Shape, TypeOK, DistinctTargets
<1> QED
  BY <1>1, <1>2, <1>3, <1>4, <1>5, <1>6, <1>7, <1>8, <1>9, <1>10, <1>11, <1>12, <1>13, <1>14,
     <1>15, <1>16, <1>17, <1>18 DEF Next

-----------------------------------------------------------------------------
(***************************************************************************)
(* The order of the writes                                                 *)
(***************************************************************************)

\* A fresh image is in order: its header is clean.
LEMMA InitOrder == Init => Order
  BY DEF Init, Order, ReplayIsFaithful, CleanHeader

\* While at most one device write has failed, every step keeps the order.
LEMMA NextOrder ==
    ASSUME Shape, RecoverFirst, faults <= 1 => Order, [Next]_vars, faults' <= 1
    PROVE  Order'
<1>a. /\ Len(entries) \in Nat /\ DOMAIN entries = 1..Len(entries) /\ Len(entries) <= MaxEntries
      /\ Len(header.targets) \in Nat /\ DOMAIN header.targets = 1..Len(header.targets)
      /\ Len(header.targets) <= MaxEntries
      /\ \A i \in DOMAIN entries : entries[i].target \in Target /\ entries[i].data \in Value
      /\ \A i \in DOMAIN header.targets : header.targets[i] \in Target
      /\ k \in 1..MaxEntries
      /\ MaxEntries \in Nat
  BY ShapeOfLists, JournalAssumption DEF Shape, TypeOK
<1>b. disk \in [Target -> Value] /\ slots \in [1..MaxEntries -> Value]
  BY DEF Shape, TypeOK
<1>c. faults \in Nat
  BY DEF Shape, TypeOK
<1>d. header.state \in {"clean", "committed"}
  BY DEF Shape, TypeOK, Headers
<1>e. Order
  <2>1. CASE DeviceFault
    BY <1>c, <2>1 DEF DeviceFault
  <2>2. CASE ~DeviceFault
    <3>1. faults' = faults
      BY <2>2 DEF Next, Begin, LogBlock, CommitEmpty, CommitStart, WriteSlot, WriteHeader, WriteTarget,
         ClearHeader, Abort, AbortClear, RecoverClean, RecoverStart, Replay, RecoverFinish, Crash,
         Mount, vars
    <3> QED BY <3>1
  <2> QED BY <2>1, <2>2
<1>1. CASE Begin
  BY <1>1, <1>e DEF Begin, Order, image, ReplayIsFaithful
<1>2. ASSUME NEW t \in Target, NEW v \in Value, LogBlock(t, v) PROVE Order'
  BY <1>2, <1>e DEF LogBlock, Order, image, ReplayIsFaithful
<1>3. CASE CommitEmpty
  BY <1>3, <1>e DEF CommitEmpty, Order, image, ReplayIsFaithful
<1>4. CASE CommitStart
  BY <1>4, <1>e, <1>d DEF CommitStart, Order, Shape, image, ReplayIsFaithful, SlotsWritten
<1>5. CASE WriteSlot
  <2>1. /\ pc = "slots" /\ PutSlot /\ header.state = "clean" /\ recovered /\ k <= Len(entries)
        /\ UNCHANGED <<active, entries, recovered, faults, disk, header, txn>>
    BY <1>5, <1>e DEF WriteSlot, DiskWrite, PutSlot, Order, Shape
  <2>2. slots'[k] = entries[k].data /\ \A i \in 1..(k - 1) : slots'[i] = entries[i].data
    BY <1>a, <1>b, <1>e, <2>1 DEF PutSlot, Order, SlotsWritten
  <2>3. \A i \in 1..k : slots'[i] = entries[i].data
    BY <1>a, <2>2
  <2>4. CASE k < Len(entries)
    <3>1. k' = k + 1 /\ pc' = "slots"
      BY <1>5, <2>1, <2>4 DEF WriteSlot, Advance
    <3> QED BY <1>a, <1>e, <2>1, <2>3, <3>1 DEF Order, ReplayIsFaithful, SlotsWritten
  <2>5. CASE k = Len(entries)
    <3>1. pc' = "header"
      BY <1>5, <1>a, <2>1, <2>5 DEF WriteSlot, Advance
    <3> QED BY <1>a, <1>e, <2>1, <2>3, <2>5, <3>1 DEF Order, ReplayIsFaithful, SlotsWritten
  <2> QED BY <1>a, <2>1, <2>4, <2>5
<1>6. CASE WriteHeader
  <2>1. /\ pc = "header" /\ k = 1 /\ recovered /\ pc' = "targets"
        /\ UNCHANGED <<active, entries, k, recovered, faults, disk, slots>>
        /\ txn' = entries
        /\ header' = [state |-> "committed", targets |-> [i \in DOMAIN entries |-> entries[i].target]]
    BY <1>6, <1>e DEF WriteHeader, DiskWrite, PutCommitted, Order, Shape
  <2>2. /\ header'.state = "committed"
        /\ Len(header'.targets) = Len(entries)
        /\ \A i \in DOMAIN entries : header'.targets[i] = entries[i].target
    BY <2>1, TargetsOfEntries DEF Shape, TypeOK
  <2>3. \A i \in DOMAIN entries : slots[i] = entries[i].data
    BY <1>a, <1>e, <2>1 DEF Order, SlotsWritten
  <2>4. ReplayIsFaithful'
    BY <2>1, <2>2, <2>3 DEF ReplayIsFaithful
  <2> QED BY <1>e, <2>1, <2>2, <2>4 DEF Order, TargetsWritten
<1>7. CASE WriteTarget
  <2>1. /\ pc = "targets" /\ header.state = "committed" /\ txn = entries /\ k <= Len(entries)
        /\ UNCHANGED <<active, entries, recovered, faults, slots, header, txn>>
        /\ disk' = [disk EXCEPT ![entries[k].target] = entries[k].data]
    BY <1>7, <1>e DEF WriteTarget, DiskWrite, PutTarget, Order, Shape
  <2>2. /\ Len(header.targets) = Len(entries)
        /\ \A i \in DOMAIN entries : header.targets[i] = entries[i].target /\ slots[i] = entries[i].data
    BY <1>e, <2>1 DEF Order, ReplayIsFaithful
  <2>3. \A i \in 1..k : disk'[header.targets[i]] = slots[i]
    <3> SUFFICES ASSUME NEW i \in 1..k PROVE disk'[header.targets[i]] = slots[i]
      OBVIOUS
    <3>1. i \in DOMAIN entries /\ k \in DOMAIN entries
      BY <1>a, <2>1
    <3>2. CASE i = k
      BY <1>a, <1>b, <2>1, <2>2, <3>1, <3>2
    <3>3. CASE i # k
      <4>1. entries[i].target # entries[k].target
        BY <3>1, <3>3 DEF Shape, DistinctTargets
      <4>2. disk[header.targets[i]] = slots[i]
        BY <1>a, <1>e, <2>1, <3>3 DEF Order, TargetsWritten
      <4> QED BY <1>a, <1>b, <2>1, <2>2, <3>1, <4>1, <4>2
    <3> QED BY <3>2, <3>3
  <2>4. CASE k < Len(entries)
    <3>1. k' = k + 1 /\ pc' = "targets"
      BY <1>7, <2>1, <2>4 DEF WriteTarget, Advance
    <3> QED BY <1>a, <1>e, <2>1, <2>3, <3>1 DEF Order, ReplayIsFaithful, TargetsWritten
  <2>5. CASE k = Len(entries)
    <3>1. pc' = "clear"
      BY <1>7, <1>a, <2>1, <2>5 DEF WriteTarget, Advance
    <3> QED BY <1>a, <1>e, <2>1, <2>2, <2>3, <2>5, <3>1 DEF Order, ReplayIsFaithful, TargetsWritten
  <2> QED BY <1>a, <2>1, <2>4, <2>5
<1>8. CASE ClearHeader
  BY <1>8, <1>e DEF ClearHeader, DiskWrite, PutClean, CleanHeader, EndTransaction, Order, ReplayIsFaithful
<1>9. CASE Abort
  BY <1>9, <1>e DEF Abort, EndTransaction, image, Order, ReplayIsFaithful
<1>10. CASE AbortClear
  BY <1>10, <1>e DEF AbortClear, DiskWrite, PutClean, CleanHeader, Order, ReplayIsFaithful
<1>11. CASE RecoverClean
  BY <1>11, <1>e DEF RecoverClean, image, Order, ReplayIsFaithful
<1>12. CASE RecoverStart
  BY <1>12, <1>e DEF RecoverStart, image, Order, ReplayIsFaithful, TargetsWritten
<1>13. CASE Replay
  <2>1. /\ pc = "replay" /\ header.state = "committed" /\ ~recovered /\ k <= Len(header.targets)
        /\ UNCHANGED <<active, entries, recovered, faults, slots, header, txn>>
        /\ disk' = [disk EXCEPT ![header.targets[k]] = slots[k]]
    BY <1>13, <1>e DEF Replay, DiskWrite, PutReplayed, Order, Shape
  <2>2. \A i \in 1..k : disk'[header.targets[i]] = slots[i]
    <3> SUFFICES ASSUME NEW i \in 1..k PROVE disk'[header.targets[i]] = slots[i]
      OBVIOUS
    <3>1. i \in DOMAIN header.targets /\ k \in DOMAIN header.targets
      BY <1>a, <2>1
    <3>2. CASE i = k
      BY <1>a, <1>b, <2>1, <3>1, <3>2
    <3>3. CASE i # k
      <4>1. header.targets[i] # header.targets[k]
        BY <3>1, <3>3 DEF Shape, Distinct
      <4>2. disk[header.targets[i]] = slots[i]
        BY <1>a, <1>e, <2>1, <3>3 DEF Order, TargetsWritten
      <4> QED BY <1>a, <1>b, <2>1, <3>1, <4>1, <4>2
    <3> QED BY <3>2, <3>3
  <2>3. CASE k < Len(header.targets)
    <3>1. k' = k + 1 /\ pc' = "replay"
      BY <1>13, <2>1, <2>3 DEF Replay, Advance
    <3> QED BY <1>a, <1>e, <2>1, <2>2, <3>1 DEF Order, ReplayIsFaithful, TargetsWritten
  <2>4. CASE k = Len(header.targets)
    <3>1. pc' = "finish"
      BY <1>13, <1>a, <2>1, <2>4 DEF Replay, Advance
    <3> QED BY <1>a, <1>e, <2>1, <2>2, <2>4, <3>1 DEF Order, ReplayIsFaithful, TargetsWritten
  <2> QED BY <1>a, <2>1, <2>3, <2>4
<1>14. CASE RecoverFinish
  BY <1>14, <1>e DEF RecoverFinish, DiskWrite, PutClean, CleanHeader, Order, Shape, ReplayIsFaithful
<1>15. CASE DeviceFault
  <2>1. /\ faults = 0 /\ faults' = 1
        /\ active' = FALSE /\ recovered' = recovered /\ pc \notin {"down", "idle"}
        /\ pc' = IF pc \in {"slots", "header", "targets", "clear"} THEN "abort" ELSE "idle"
        /\ DiskWrite \/ UNCHANGED <<image, txn>>
    BY <1>15, <1>c DEF DeviceFault, EndTransaction
  <2>2. pc' \in {"abort", "idle"} /\ (pc' = "idle" => pc \in {"abort", "replay", "finish"})
    BY <2>1 DEF Shape, TypeOK, Phases
  <2>3. pc' = "idle" /\ recovered => pc = "abort" /\ header.state = "clean"
    BY <1>d, <1>e, <2>1, <2>2 DEF Order
  <2>4. ReplayIsFaithful' /\ (pc' = "idle" /\ recovered => header'.state = "clean")
    <3>1. CASE UNCHANGED <<image, txn>>
      BY <1>e, <2>3, <3>1 DEF Order, ReplayIsFaithful, image
    <3>2. CASE pc = "slots" /\ PutSlot
      BY <1>e, <2>2, <3>2 DEF Order, ReplayIsFaithful, PutSlot
    <3>3. CASE pc = "header" /\ PutCommitted
      <4>1. /\ slots' = slots
            /\ txn' = entries
            /\ header' = [state |-> "committed", targets |-> [i \in DOMAIN entries |-> entries[i].target]]
        BY <3>3 DEF PutCommitted
      <4>2. /\ Len(header'.targets) = Len(entries)
            /\ \A i \in DOMAIN entries : header'.targets[i] = entries[i].target
        BY <4>1, TargetsOfEntries DEF Shape, TypeOK
      <4>3. \A i \in DOMAIN entries : slots[i] = entries[i].data
        BY <1>a, <1>e, <3>3 DEF Order, SlotsWritten
      <4> QED BY <2>2, <3>3, <4>1, <4>2, <4>3 DEF ReplayIsFaithful
    <3>4. CASE pc = "targets" /\ PutTarget
      BY <1>e, <2>2, <3>4 DEF Order, ReplayIsFaithful, PutTarget
    <3>5. CASE pc \in {"clear", "abort", "finish"} /\ PutClean
      BY <3>5 DEF ReplayIsFaithful, PutClean, CleanHeader
    <3>6. CASE pc = "replay" /\ PutReplayed
      BY <1>e, <2>3, <3>6 DEF Order, ReplayIsFaithful, PutReplayed
    <3> QED BY <2>1, <3>1, <3>2, <3>3, <3>4, <3>5, <3>6 DEF DiskWrite
  <2> QED BY <2>1, <2>2, <2>4 DEF Order
<1>16. CASE Crash
  BY <1>16, <1>e DEF Crash, EndTransaction, image, Order, ReplayIsFaithful
<1>17. CASE Mount
  BY <1>17, <1>e DEF Mount, image, Order, Shape, ReplayIsFaithful
<1>18. CASE UNCHANGED vars
  BY <1>18, <1>e DEF vars, image, memory, Order, ReplayIsFaithful, SlotsWritten, TargetsWritten
<1> QED
  BY <1>1, <1>2, <1>3, <1>4, <1>5, <1>6, <1>7, <1>8, <1>9, <1>10, <1>11, <1>12, <1>13, <1>14,
     <1>15, <1>16, <1>17, <1>18 DEF Next

-----------------------------------------------------------------------------
(***************************************************************************)
(* Theorems                                                                *)
(***************************************************************************)

\* The invariant is inductive.
THEOREM JournalInvariant == Spec => []IInv
<1>1. Init => IInv
  BY InitShape, InitOrder DEF IInv
<1>2. IInv /\ [Next]_vars => IInv'
  BY NextShape, NextOrder DEF IInv
<1> QED BY <1>1, <1>2, PTL DEF Spec

\* Whatever is logged, fails or is killed, the loops of commit and recover stay
\* within the journal and every variable keeps its type.
THEOREM JournalTypeOK == Spec => []TypeOK
<1>1. IInv => TypeOK
  BY DEF IInv, Shape
<1> QED BY <1>1, JournalInvariant, PTL

\* With recover run after every mount and at most one failed device write, a
\* COMMITTED header always names the blocks the journal holds.
THEOREM JournalReplayIsFaithful ==
    ASSUME RecoverFirst, MaxFaults <= 1
    PROVE  Spec => []ReplayIsFaithful
<1>1. IInv => ReplayIsFaithful
  BY JournalAssumption DEF IInv, Shape, TypeOK, Order
<1> QED BY <1>1, JournalInvariant, PTL

-----------------------------------------------------------------------------
(***************************************************************************)
(* Atomicity: what a crash and a recovery would leave is changed by whole  *)
(* transactions only.                                                      *)
(***************************************************************************)

\* Whatever happens, a recovery leaves contents and a transaction holds contents.
LEMMA MappingTypes ==
    ASSUME Shape
    PROVE  /\ AfterRecovery \in [Target -> Value]
           /\ Pending \in Atomic!Transactions
<1>1. AfterRecovery \in [Target -> Value]
  BY ReplayedType DEF AfterRecovery, Shape, TypeOK
<1>2. Logged(entries) \in Atomic!Transactions
  BY LoggedIs DEF Shape, TypeOK, DistinctTargets, Atomic!Transactions
<1>3. << >> \in Atomic!Transactions
  <2>1. << >> \in Seq(EntryRecord) /\ DOMAIN << >> = {}
    BY EmptySeq
  <2>2. Logged(<< >>) \in Atomic!Transactions
    BY <2>1, LoggedIs DEF Atomic!Transactions
  <2> QED BY <2>2, NothingLogged
<1> QED BY <1>1, <1>2, <1>3 DEF Pending

\* Logging a block is the logging of the abstract transaction.
LEMMA LogIsLogged ==
    ASSUME Shape, NEW t \in Target, NEW v \in Value, LogBlock(t, v)
    PROVE  Logged(entries') =
             [u \in DOMAIN Logged(entries) \cup {t} |-> IF u = t THEN v ELSE Logged(entries)[u]]
<1> DEFINE old == Logged(entries)
           new == Logged(entries')
           Spec1 == [u \in DOMAIN old \cup {t} |-> IF u = t THEN v ELSE old[u]]
<1>1. /\ entries \in Seq(EntryRecord)
      /\ Len(entries) \in Nat
      /\ DOMAIN entries = 1..Len(entries)
  BY ShapeOfLists DEF Shape, TypeOK
<1>2. /\ DOMAIN old = {entries[i].target : i \in DOMAIN entries}
      /\ \A i \in DOMAIN entries : old[entries[i].target] = entries[i].data
  BY <1>1, LoggedIs DEF Shape, DistinctTargets
<1>3. /\ DOMAIN new = {entries'[i].target : i \in DOMAIN entries'}
      /\ \A i \in DOMAIN entries' : new[entries'[i].target] = entries'[i].data
  BY LoggingKeepsDistinct, LoggedIs DEF DistinctTargets
<1>4. CASE \E i \in DOMAIN entries : entries[i].target = t
  <2> DEFINE Entry(i) == IF entries[i].target = t THEN [entries[i] EXCEPT !.data = v] ELSE entries[i]
  <2>1. entries' = [i \in DOMAIN entries |-> Entry(i)]
    BY <1>4 DEF LogBlock
  <2>2. \A i \in DOMAIN entries : /\ Entry(i).target = entries[i].target
                                /\ Entry(i).data = IF entries[i].target = t THEN v ELSE entries[i].data
    <3>1. \A i \in DOMAIN entries : entries[i] \in EntryRecord
      BY <1>1, ElementOfSeq
    <3> QED BY <3>1 DEF EntryRecord
  <2> HIDE DEF Entry
  <2>3. \A i \in DOMAIN entries : /\ entries'[i].target = entries[i].target
                                /\ entries'[i].data = IF entries[i].target = t THEN v ELSE entries[i].data
    BY <2>1, <2>2
  <2>4. DOMAIN entries' = DOMAIN entries
    BY <2>1
  <2> HIDE DEF old, new
  <2>5. DOMAIN new = DOMAIN old \cup {t}
    BY <1>2, <1>3, <1>4, <2>3, <2>4
  <2>6. \A u \in DOMAIN new : new[u] = IF u = t THEN v ELSE old[u]
    BY <1>2, <1>3, <2>3, <2>4
  <2>7. new = [u \in DOMAIN new |-> new[u]]
    BY DEF new, Logged
  <2> QED BY <2>5, <2>6, <2>7 DEF old, new
<1>5. CASE ~ \E i \in DOMAIN entries : entries[i].target = t
  <2> DEFINE e == [target |-> t, data |-> v]
  <2>1. entries' = Append(entries, e)
    BY <1>5 DEF LogBlock
  <2>2. e \in EntryRecord /\ e.target = t /\ e.data = v
    BY DEF EntryRecord
  <2> HIDE DEF e
  <2>3. /\ DOMAIN entries' = 1..(Len(entries) + 1)
        /\ \A i \in 1..Len(entries) : entries'[i] = entries[i]
        /\ entries'[Len(entries) + 1] = e
    BY <1>1, <2>1, <2>2, AppendProperties, LenProperties
  <2>4. \A i \in DOMAIN entries' : i \in DOMAIN entries \/ i = Len(entries) + 1
    BY <1>1, <2>3
  <2>5. DOMAIN entries \subseteq DOMAIN entries' /\ Len(entries) + 1 \in DOMAIN entries'
    BY <1>1, <2>3
  <2> HIDE DEF old, new
  <2>6. DOMAIN new = DOMAIN old \cup {t}
    BY <1>1, <1>2, <1>3, <2>2, <2>3, <2>4, <2>5
  <2>7. \A u \in DOMAIN new : new[u] = IF u = t THEN v ELSE old[u]
    BY <1>1, <1>2, <1>3, <1>5, <2>2, <2>3, <2>4, <2>5
  <2>8. new = [u \in DOMAIN new |-> new[u]]
    BY DEF new, Logged
  <2> QED BY <2>6, <2>7, <2>8 DEF old, new
<1> QED BY <1>4, <1>5

\* Writing a block over a target the COMMITTED header lists changes nothing: a
\* recovery would write the slot over it.
LEMMA TargetWriteIsInvisible ==
    ASSUME Shape, header.state = "committed", NEW n \in DOMAIN header.targets, NEW v \in Value,
           disk' = [disk EXCEPT ![header.targets[n]] = v], UNCHANGED <<slots, header>>
    PROVE  AfterRecovery' = AfterRecovery
<1>1. disk \in [Target -> Value] /\ Distinct(header.targets)
  BY DEF Shape, TypeOK
<1>2. AfterRecovery' = Replayed(disk', slots, header) /\ AfterRecovery = Replayed(disk, slots, header)
  BY DEF AfterRecovery
<1>3. ASSUME NEW t \in Target
      PROVE  Replayed(disk', slots, header)[t] = Replayed(disk, slots, header)[t]
  <2>1. CASE t \in Range(header.targets)
    <3>1. PICK i \in DOMAIN header.targets : header.targets[i] = t
      BY <2>1 DEF Range
    <3> QED BY <1>1, <3>1, CommittedIsReplayed
  <2>2. CASE t \notin Range(header.targets)
    <3>1. header.targets[n] # t
      BY <2>2 DEF Range
    <3>2. disk'[t] = disk[t]
      BY <1>1, <3>1
    <3>3. Replayed(disk', slots, header)[t] = disk'[t]
      BY <2>2 DEF Replayed
    <3>4. Replayed(disk, slots, header)[t] = disk[t]
      BY <1>1, <2>2, CommittedIsReplayed
    <3> QED BY <3>2, <3>3, <3>4
  <2> QED BY <2>1, <2>2
<1> QED BY <1>2, <1>3 DEF Replayed

\* Once every target is in place, a recovery would change nothing.
LEMMA AllInPlace ==
    ASSUME Shape, header.state = "committed", TargetsWritten(Len(header.targets))
    PROVE  AfterRecovery = disk
<1>1. /\ disk \in [Target -> Value]
      /\ Distinct(header.targets)
      /\ DOMAIN header.targets = 1..Len(header.targets)
  BY ShapeOfLists DEF Shape, TypeOK
<1>2. ASSUME NEW t \in Target
      PROVE  Replayed(disk, slots, header)[t] = disk[t]
  <2>1. CASE t \in Range(header.targets)
    <3>1. PICK i \in DOMAIN header.targets : header.targets[i] = t
      BY <2>1 DEF Range
    <3>2. disk[t] = slots[i]
      BY <1>1, <3>1 DEF TargetsWritten
    <3> QED BY <1>1, <3>1, <3>2, CommittedIsReplayed
  <2>2. CASE t \notin Range(header.targets)
    BY <1>1, <2>2, CommittedIsReplayed
  <2> QED BY <2>1, <2>2
<1>3. AfterRecovery = [t \in Target |-> Replayed(disk, slots, header)[t]]
  BY DEF AfterRecovery, Replayed
<1> QED BY <1>1, <1>2, <1>3

\* Writing the COMMITTED header makes the whole transaction.
LEMMA HeaderWriteCommits ==
    ASSUME Shape, Order, pc = "header", PutCommitted
    PROVE  AfterRecovery' =
             [t \in Target |-> IF t \in DOMAIN Logged(entries) THEN Logged(entries)[t]
                                                              ELSE AfterRecovery[t]]
<1> DEFINE targets == [i \in DOMAIN entries |-> entries[i].target]
<1>1. /\ disk' = disk /\ slots' = slots
      /\ header'.state = "committed"
      /\ header'.targets = targets
  BY DEF PutCommitted
<1>2. DOMAIN targets = DOMAIN entries /\ Distinct(targets)
  BY DEF Distinct, Shape, DistinctTargets
<1>3. /\ DOMAIN Logged(entries) = {entries[i].target : i \in DOMAIN entries}
      /\ \A i \in DOMAIN entries : Logged(entries)[entries[i].target] = entries[i].data
  BY LoggedIs DEF Shape, TypeOK, DistinctTargets
<1>4. \A i \in DOMAIN entries : slots[i] = entries[i].data
  BY ShapeOfLists DEF Order, SlotsWritten
<1>5. AfterRecovery = disk
  BY CleanIsReplayed DEF Order, AfterRecovery, Shape, TypeOK
<1>6. AfterRecovery' = Replayed(disk, slots, header')
  BY <1>1 DEF AfterRecovery
<1>7. ASSUME NEW t \in Target
      PROVE  Replayed(disk, slots, header')[t] =
               IF t \in DOMAIN Logged(entries) THEN Logged(entries)[t] ELSE disk[t]
  <2>1. CASE t \in DOMAIN Logged(entries)
    <3>1. PICK i \in DOMAIN entries : entries[i].target = t
      BY <1>3, <2>1
    <3>2. i \in DOMAIN header'.targets /\ header'.targets[i] = t
      BY <1>1, <1>2, <3>1
    <3>3. Replayed(disk, slots, header')[t] = slots[i]
      BY <1>1, <1>2, <3>2, CommittedIsReplayed
    <3> QED BY <1>3, <1>4, <2>1, <3>1, <3>3
  <2>2. CASE t \notin DOMAIN Logged(entries)
    <3>1. t \notin Range(header'.targets)
      BY <1>1, <1>2, <1>3, <2>2 DEF Range
    <3> QED BY <1>1, <1>2, <2>2, <3>1, CommittedIsReplayed
  <2> QED BY <2>1, <2>2
<1>8. AfterRecovery' = [t \in Target |-> Replayed(disk, slots, header')[t]]
  BY <1>6 DEF Replayed
<1> QED BY <1>5, <1>7, <1>8

\* A step that leaves the image and the transaction as they are.
LEMMA NothingSeen ==
    ASSUME UNCHANGED image, Pending' = Pending, faults' = faults
    PROVE  UNCHANGED Atomic!vars
  BY DEF image, AfterRecovery, Atomic!vars

\* A step of the journal without failed writes is a step of the atomic store.
LEMMA StepWithoutFaults ==
    ASSUME Shape, Order, Shape', Order', [Next]_vars, faults = 0, faults' = 0
    PROVE  [Atomic!Next]_(Atomic!vars)
<1>a. disk \in [Target -> Value] /\ disk' \in [Target -> Value]
  BY DEF Shape, TypeOK
<1>b. (header.state = "clean" => AfterRecovery = disk) /\ (header'.state = "clean" => AfterRecovery' = disk')
  BY <1>a, CleanIsReplayed DEF AfterRecovery
<1>c. DOMAIN header.targets = 1..Len(header.targets) /\ slots \in [1..MaxEntries -> Value]
      /\ Len(header.targets) \in Nat /\ Len(header.targets) <= MaxEntries
      /\ Len(entries) \in Nat /\ k \in Nat \ {0} /\ DOMAIN entries = 1..Len(entries)
  BY ShapeOfLists DEF Shape, TypeOK
<1>1. CASE Begin
  BY <1>1, NothingSeen DEF Begin, Shape, Pending
<1>2. ASSUME NEW t \in Target, NEW v \in Value, LogBlock(t, v) PROVE Atomic!Next
  <2>1. Pending = Logged(entries) /\ Pending' = Logged(entries') /\ AfterRecovery' = AfterRecovery
    BY <1>2 DEF LogBlock, Pending, AfterRecovery, image
  <2>2. Pending' = [u \in DOMAIN Pending \cup {t} |-> IF u = t THEN v ELSE Pending[u]]
    BY <1>2, <2>1, LogIsLogged
  <2>3. Atomic!Log(t, v)
    BY <2>1, <2>2 DEF Atomic!Log
  <2> QED BY <2>3 DEF Atomic!Next
<1>3. CASE CommitEmpty
  BY <1>3, NothingSeen DEF CommitEmpty, Pending
<1>4. CASE CommitStart
  BY <1>4, NothingSeen DEF CommitStart, Pending
<1>5. CASE WriteSlot
  <2>1. header.state = "clean" /\ header' = header /\ disk' = disk
    BY <1>5 DEF WriteSlot, DiskWrite, PutSlot, Order
  <2>2. Pending' = Pending
    BY <1>5 DEF WriteSlot, Advance, Pending
  <2> QED BY <1>b, <1>5, <2>1, <2>2 DEF WriteSlot, Atomic!vars
<1>6. CASE WriteHeader
  <2>1. pc = "header" /\ PutCommitted /\ Pending = Logged(entries) /\ Pending' = << >>
    BY <1>6 DEF WriteHeader, DiskWrite, Pending
  <2>2. Atomic!Commit
    BY <1>6, <2>1, HeaderWriteCommits DEF WriteHeader, Atomic!Commit, Atomic!NoWrites
  <2> QED BY <2>2 DEF Atomic!Next
<1>7. CASE WriteTarget
  <2>1. /\ header.state = "committed" /\ txn = entries /\ k \in DOMAIN entries
        /\ disk' = [disk EXCEPT ![entries[k].target] = entries[k].data]
        /\ UNCHANGED <<slots, header>>
    BY <1>7, <1>c DEF WriteTarget, DiskWrite, PutTarget, Order, Shape
  <2>2. k \in DOMAIN header.targets /\ header.targets[k] = entries[k].target /\ entries[k].data \in Value
    BY <1>c, <2>1, ShapeOfLists DEF Order, ReplayIsFaithful
  <2>3. AfterRecovery' = AfterRecovery
    BY <2>1, <2>2, TargetWriteIsInvisible
  <2>4. Pending' = Pending
    BY <1>7 DEF WriteTarget, Advance, Pending
  <2> QED BY <1>7, <2>3, <2>4 DEF WriteTarget, Atomic!vars
<1>8. CASE ClearHeader
  <2>1. AfterRecovery = disk
    BY <1>8, AllInPlace DEF ClearHeader, Order
  <2>2. header'.state = "clean" /\ disk' = disk
    BY <1>8 DEF ClearHeader, DiskWrite, PutClean, CleanHeader
  <2>3. Pending = << >> /\ Pending' = << >>
    BY <1>8, NothingLogged DEF ClearHeader, EndTransaction, Pending
  <2> QED BY <1>b, <1>8, <2>1, <2>2, <2>3 DEF ClearHeader, Atomic!vars
<1>9. CASE Abort
  <2>1. AfterRecovery' = AfterRecovery /\ Pending' = << >>
    BY <1>9, NothingLogged DEF Abort, EndTransaction, Pending, AfterRecovery, image
  <2>2. Atomic!Discard
    BY <1>9, <2>1 DEF Abort, Atomic!Discard, Atomic!NoWrites
  <2> QED BY <2>2 DEF Atomic!Next
<1>10. CASE AbortClear
  <2>1. header.state = "clean" /\ header'.state = "clean" /\ disk' = disk
    BY <1>10 DEF AbortClear, DiskWrite, PutClean, CleanHeader, Order, Shape, TypeOK, Headers
  <2>2. Pending' = Pending
    BY <1>10 DEF AbortClear, Pending
  <2> QED BY <1>b, <1>10, <2>1, <2>2 DEF AbortClear, Atomic!vars
<1>11. CASE RecoverClean
  BY <1>11, NothingSeen DEF RecoverClean, Pending
<1>12. CASE RecoverStart
  BY <1>12, NothingSeen DEF RecoverStart, Pending
<1>13. CASE Replay
  <2>1. /\ header.state = "committed" /\ k \in DOMAIN header.targets
        /\ disk' = [disk EXCEPT ![header.targets[k]] = slots[k]]
        /\ UNCHANGED <<slots, header>>
    BY <1>13, <1>c DEF Replay, DiskWrite, PutReplayed, Shape
  <2>2. slots[k] \in Value
    BY <1>c, <2>1, JournalAssumption
  <2>3. AfterRecovery' = AfterRecovery
    BY <2>1, <2>2, TargetWriteIsInvisible
  <2>4. Pending' = Pending
    BY <1>13 DEF Replay, Advance, Pending
  <2> QED BY <1>13, <2>3, <2>4 DEF Replay, Atomic!vars
<1>14. CASE RecoverFinish
  <2>1. AfterRecovery = disk
    BY <1>14, AllInPlace DEF RecoverFinish, Order, Shape
  <2>2. header'.state = "clean" /\ disk' = disk
    BY <1>14 DEF RecoverFinish, DiskWrite, PutClean, CleanHeader
  <2>3. Pending' = Pending
    BY <1>14 DEF RecoverFinish, Pending
  <2> QED BY <1>b, <1>14, <2>1, <2>2, <2>3 DEF RecoverFinish, Atomic!vars
<1>15. CASE DeviceFault
  BY <1>15 DEF DeviceFault
<1>16. CASE Crash
  <2>1. AfterRecovery' = AfterRecovery /\ Pending' = << >>
    BY <1>16, NothingLogged DEF Crash, EndTransaction, Pending, AfterRecovery, image
  <2>2. Atomic!Discard
    BY <1>16, <2>1 DEF Crash, Atomic!Discard, Atomic!NoWrites
  <2> QED BY <2>2 DEF Atomic!Next
<1>17. CASE Mount
  BY <1>17, NothingSeen DEF Mount, Pending
<1>18. CASE UNCHANGED vars
  <2>1. UNCHANGED image /\ Pending' = Pending /\ faults' = faults
    BY <1>18 DEF vars, image, memory, Pending
  <2> QED BY <2>1, NothingSeen
<1> QED
  BY <1>1, <1>2, <1>3, <1>4, <1>5, <1>6, <1>7, <1>8, <1>9, <1>10, <1>11, <1>12, <1>13, <1>14,
     <1>15, <1>16, <1>17, <1>18 DEF Next

\* Until a device write fails, the journal makes every transaction atomic: each
\* step is a step of the atomic store or a stutter, whichever disk write of
\* commit, abort or recover a crash stops at.
THEOREM JournalTransactionsAreAtomic ==
    ASSUME RecoverFirst
    PROVE  Spec => TransactionsAreAtomic
<1>1. Init => Atomic!Init
  <2> SUFFICES ASSUME Init PROVE Atomic!Init
    OBVIOUS
  <2>1. AfterRecovery \in [Target -> Value]
    BY InitShape, MappingTypes
  <2>2. Pending = << >>
    BY NothingLogged DEF Init, Pending
  <2> QED BY <2>1, <2>2 DEF Init, Atomic!Init, Atomic!NoWrites
<1>2. Shape' => (AfterRecovery \in [Target -> Value] /\ Pending \in Atomic!Transactions)'
  <2>1. Shape => AfterRecovery \in [Target -> Value] /\ Pending \in Atomic!Transactions
    BY MappingTypes
  <2> QED BY <2>1, PTL
<1>3. IInv /\ [Next]_vars => [Atomic!Next]_(Atomic!vars)
  <2> SUFFICES ASSUME IInv, [Next]_vars PROVE [Atomic!Next]_(Atomic!vars)
    OBVIOUS
  <2>1. Shape /\ Shape' /\ (faults <= 1 => Order) /\ (faults' <= 1 => Order')
    BY NextShape, NextOrder DEF IInv
  <2>2. faults \in Nat /\ faults' \in Nat
    BY <2>1 DEF Shape, TypeOK
  <2>3. CASE faults' = 0
    <3>1. ~DeviceFault
      BY <2>2, <2>3 DEF DeviceFault
    <3>2. faults' = faults
      BY <3>1 DEF Next, Begin, LogBlock, CommitEmpty, CommitStart, WriteSlot, WriteHeader,
         WriteTarget, ClearHeader, Abort, AbortClear, RecoverClean, RecoverStart, Replay,
         RecoverFinish, Crash, Mount, vars
    <3> QED BY <2>1, <2>3, <3>2, StepWithoutFaults
  <2>4. CASE faults' # 0
    <3>1. AfterRecovery' \in [Target -> Value] /\ Pending' \in Atomic!Transactions
      BY <1>2, <2>1
    <3>2. Atomic!Fault
      BY <2>2, <2>4, <3>1 DEF Atomic!Fault
    <3> QED BY <3>2 DEF Atomic!Next
  <2> QED BY <2>3, <2>4
<1> QED BY <1>1, <1>3, JournalInvariant, PTL DEF Spec, Atomic!Spec, TransactionsAreAtomic
=============================================================================
