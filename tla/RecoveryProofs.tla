---------------------------- MODULE RecoveryProofs ----------------------------
(***************************************************************************)
(* Proofs about Recovery.tla: the CLEAN mark against the content of the    *)
(* cache, whatever the chain looks like; what the walk of fsck finds, by   *)
(* induction over its rounds; and what recover makes of it.                *)
(***************************************************************************)
EXTENDS Recovery, GroupChainProofs, FiniteSetTheorems, WellFoundedInduction, TLAPS

\* While the process runs the image is DIRTY and nothing has been lost since the
\* mount; an image that says CLEAN was left by an unmount that wrote everything.
MarkInv ==
    /\ RecoveryTypeOK
    /\ pc # "down" => ~clean /\ ~lost
    /\ clean => ~lost

\* The calls of the running process neither start nor end it.
LEMMA WorkStaysUp == Work => pc # "down" /\ pc' # "down"
<1>1. ASSUME NEW b, Format(b) \/ Free(b) \/ FreeStoreFails(b) \/ Unlink(b) \/ Link(b)
                      \/ OwnerWrite(b) \/ WriteBack(b)
      PROVE  pc # "down" /\ pc' # "down"
  BY <1>1 DEF Format, Free, FreeStoreFails, CallerReturns, Unlink, Link, OwnerWrite, WriteBack
<1>2. FormatSync \/ Alloc \/ AllocReturn \/ AllocFails \/ FreeReturn \/ FreeSyncFails \/ Sync
        => pc # "down" /\ pc' # "down"
  BY DEF FormatSync, Alloc, AllocReturn, AllocFails, FreeReturn, FreeSyncFails, CallerReturns, Sync
<1> QED BY <1>1, <1>2 DEF Work

LEMMA MarkInit == RInit => MarkInv
  BY DEF RInit, Init, MarkInv, RecoveryTypeOK

LEMMA MarkNext == MarkInv /\ [RNext]_allVars => MarkInv'
<1> SUFFICES ASSUME MarkInv, [RNext]_allVars PROVE MarkInv'
  OBVIOUS
<1>a. /\ rec \in {"none", "leaks", "sync"}
      /\ todo \subseteq Block /\ missed \subseteq Block
      /\ clean \in BOOLEAN /\ lost \in BOOLEAN /\ warned \in BOOLEAN
      /\ pc # "down" => ~clean /\ ~lost
      /\ clean => ~lost
  BY DEF MarkInv, RecoveryTypeOK
<1>1. CASE Operate
  <2>1. pc # "down" /\ pc' # "down" /\ UNCHANGED <<rec, todo, clean, lost, warned, missed>>
    BY <1>1, WorkStaysUp DEF Operate, rvars
  <2> QED BY <1>a, <2>1 DEF MarkInv, RecoveryTypeOK
<1>2. ASSUME NEW b \in transit, Leak(b) PROVE MarkInv'
  BY <1>a, <1>2 DEF Leak, rvars, MarkInv, RecoveryTypeOK
<1>3. CASE Kill
  <2>1. /\ pc # "down" /\ rec' = "none" /\ todo' = {} /\ missed' = {}
        /\ lost' \in BOOLEAN /\ pc' = "down"
        /\ UNCHANGED <<clean, warned>>
    BY <1>3 DEF Kill, Crash
  <2> QED BY <1>a, <2>1 DEF MarkInv, RecoveryTypeOK
<1>4. CASE Remount
  <2>1. /\ ~clean' /\ ~lost' /\ clean' \in BOOLEAN /\ lost' \in BOOLEAN
        /\ warned' \in BOOLEAN /\ UNCHANGED <<rec, todo, missed>>
    BY <1>4 DEF Remount
  <2> QED BY <1>a, <2>1 DEF MarkInv, RecoveryTypeOK
<1>5. CASE Umount
  <2>1. /\ pc # "down" /\ clean' = TRUE /\ UNCHANGED <<rec, todo, lost, warned, missed>> /\ pc' = "down"
    BY <1>5 DEF Umount, AtPrompt
  <2> QED BY <1>a, <2>1 DEF MarkInv, RecoveryTypeOK
<1>6. CASE MarkCleanFails
  <2>1. /\ pc # "down" /\ clean' \in BOOLEAN /\ UNCHANGED <<rec, todo, lost, warned, missed>> /\ pc' = "down"
    BY <1>6 DEF MarkCleanFails, EndsUnmounted, AtPrompt
  <2> QED BY <1>a, <2>1 DEF MarkInv, RecoveryTypeOK
<1>7. ASSUME NEW S \in SUBSET dirty, ShutdownFails(S) PROVE MarkInv'
  <2>1. /\ pc # "down" /\ lost' \in BOOLEAN /\ UNCHANGED <<rec, todo, clean, warned, missed>> /\ pc' = "down"
    BY <1>7 DEF ShutdownFails, EndsUnmounted, AtPrompt
  <2> QED BY <1>a, <2>1 DEF MarkInv, RecoveryTypeOK
<1>8. CASE RecoverScan
  <2>1. /\ rec' = "leaks" /\ todo' \subseteq Block /\ missed' = {} /\ UNCHANGED <<pc, clean, lost, warned>>
    BY <1>8 DEF RecoverScan
  <2> QED BY <1>a, <2>1 DEF MarkInv, RecoveryTypeOK
<1>9. CASE RecoverFreed
  <2>1. rec' = "leaks" /\ UNCHANGED <<pc, todo, clean, lost, warned, missed>>
    BY <1>9 DEF RecoverFreed
  <2> QED BY <1>a, <2>1 DEF MarkInv, RecoveryTypeOK
<1>10. CASE RecoverCount
  <2>1. rec' = "none" /\ warned' = FALSE /\ missed' = {} /\ UNCHANGED <<pc, todo, clean, lost>>
    BY <1>10 DEF RecoverCount
  <2> QED BY <1>a, <2>1 DEF MarkInv, RecoveryTypeOK
<1>11. ASSUME NEW b \in todo, RecoverFrees(b) PROVE MarkInv'
  <2>1. rec' = "sync" /\ todo' = todo \ {b} /\ UNCHANGED <<pc, clean, lost, warned, missed>>
    BY <1>11 DEF RecoverFrees
  <2> QED BY <1>a, <2>1 DEF MarkInv, RecoveryTypeOK
<1>12. ASSUME NEW b \in todo, RecoverStoreFails(b) PROVE MarkInv'
  <2>1. /\ todo' = todo \ {b} /\ missed' = missed \cup {b}
        /\ UNCHANGED <<rec, pc, clean, lost, warned>>
    BY <1>12 DEF RecoverStoreFails
  <2> QED BY <1>a, <2>1 DEF MarkInv, RecoveryTypeOK
<1>13. CASE UNCHANGED allVars
  <2>1. UNCHANGED <<pc, rec, todo, clean, lost, warned, missed>>
    BY <1>13 DEF allVars, vars, rvars
  <2> QED BY <1>a, <2>1 DEF MarkInv, RecoveryTypeOK
<1> QED
  BY <1>1, <1>2, <1>3, <1>4, <1>5, <1>6, <1>7, <1>8, <1>9, <1>10, <1>11, <1>12, <1>13
  DEF RNext

\* The invariant holds in every state of every behaviour.
THEOREM RecoveryMarkInvariant == RSpec => []MarkInv
  BY MarkInit, MarkNext, PTL DEF RSpec

\* An image never says CLEAN over content that was dropped with the cache, whatever
\* write of the unmount fails (physical_api.cpp:64-84, mount.cpp:453-487).
THEOREM RecoveryCleanHidesNoLoss == RSpec => []CleanHidesNoLoss
<1>1. MarkInv => CleanHidesNoLoss
  BY DEF MarkInv, CleanHidesNoLoss
<1> QED BY <1>1, RecoveryMarkInvariant, PTL

-----------------------------------------------------------------------------
(***************************************************************************)
(* The walk along the free chain                                           *)
(***************************************************************************)

\* How many blocks the first n groups of a chain have.
RowLength(s, n) == IF n = 0 THEN 0 ELSE Len(s.group) + GroupSize * (n - 1)

\* f has the blocks of the first n groups of c, each of them once.
Row(f, c, n, s) ==
    /\ f \in Seq(Block)
    /\ IsInjective(f)
    /\ \A b : b \in Range(f) <=> \E i \in 1..n : b \in Range(c[i])
    /\ Len(f) = RowLength(s, n)

LEMMA RowLengths ==
    ASSUME NEW s, NEW c, NEW contents, Chained(s, c, contents), NEW n \in Nat, n < Len(c)
    PROVE  /\ c[n + 1] \in Group /\ Len(c[n + 1]) \in Nat
           /\ RowLength(s, n) \in Nat
           /\ RowLength(s, n + 1) = RowLength(s, n) + Len(c[n + 1])
           /\ RowLength(s, n + 1) <= s.count
           /\ n + 1 = Len(c) => RowLength(s, n + 1) = s.count
           /\ n + 1 < Len(c) => RowLength(s, n + 1) < s.count
<1>1. /\ c \in Seq(Group) /\ Len(c) \in Nat /\ c[1] = s.group /\ s.count \in Nat
      /\ \A i \in 2..Len(c) : Len(c[i]) = GroupSize
      /\ s.count = Len(s.group) + GroupSize * (Len(c) - 1)
  BY ChainedFacts DEF Chained, Spells
<1>2. c[n + 1] \in Group /\ Len(c[n + 1]) \in Nat /\ Len(s.group) \in Nat
  BY <1>1, ChainFacts
<1>3. GroupSize \in Nat /\ GroupSize >= 1
  BY GroupAssumption
<1>4. \A k \in Nat : GroupSize * k \in Nat
  BY <1>3
<1>5. GroupSize * (Len(c) - 1) = GroupSize * n + GroupSize * (Len(c) - 1 - n)
  BY <1>1, <1>3
<1>6. Len(c) - 1 - n \in Nat /\ GroupSize * (Len(c) - 1 - n) \in Nat
  <2>1. Len(c) - 1 - n \in Nat
    BY <1>1
  <2> QED BY <1>4, <2>1
<1>7. n + 1 < Len(c) => GroupSize * (Len(c) - 1 - n) >= 1
  <2>1. SUFFICES ASSUME n + 1 < Len(c) PROVE GroupSize * (Len(c) - 1 - n) >= 1
    OBVIOUS
  <2>2. Len(c) - 1 - n - 1 \in Nat
    BY <1>1, <2>1
  <2>3. GroupSize * (Len(c) - 1 - n) = GroupSize + GroupSize * (Len(c) - 1 - n - 1)
    BY <1>1, <1>3
  <2> QED BY <1>3, <1>4, <2>2, <2>3
<1>8. n + 1 = Len(c) => GroupSize * (Len(c) - 1 - n) = 0
  BY <1>1, <1>3
<1>9. RowLength(s, n + 1) = Len(s.group) + GroupSize * n
  BY DEF RowLength
<1>10. n # 0 => GroupSize * n = GroupSize * (n - 1) + GroupSize
  BY <1>3
<1>11. n # 0 => n - 1 \in Nat /\ GroupSize * (n - 1) \in Nat
  BY <1>4
<1>12. GroupSize * n \in Nat
  BY <1>4
<1>13. RowLength(s, n) \in Nat
  BY <1>2, <1>11 DEF RowLength
<1>14. RowLength(s, n + 1) = RowLength(s, n) + Len(c[n + 1])
  <2>1. CASE n = 0
    <3>1. GroupSize * n = 0
      BY <1>3, <2>1
    <3> QED BY <1>1, <1>2, <1>9, <2>1, <3>1 DEF RowLength
  <2>2. CASE n # 0
    <3>1. n + 1 \in 2..Len(c)
      BY <1>1, <2>2
    <3>2. Len(c[n + 1]) = GroupSize
      BY <1>1, <3>1
    <3>3. RowLength(s, n) = Len(s.group) + GroupSize * (n - 1)
      BY <2>2 DEF RowLength
    <3> DEFINE x == GroupSize * n
               y == GroupSize * (n - 1)
               l == Len(s.group)
    <3>4. x = y + GroupSize /\ y \in Nat /\ l \in Nat
      BY <1>2, <1>10, <1>11, <2>2
    <3>5. RowLength(s, n + 1) = l + x /\ RowLength(s, n) = l + y
      BY <1>9, <3>3
    <3> HIDE DEF RowLength, x, y, l
    <3> QED BY <1>3, <3>2, <3>4, <3>5
  <2> QED BY <2>1, <2>2
<1> DEFINE x == GroupSize * n
           y == GroupSize * (Len(c) - 1 - n)
           z == GroupSize * (Len(c) - 1)
           l == Len(s.group)
           r == RowLength(s, n + 1)
           k == Len(c)
<1>15. /\ s.count = l + z /\ z = x + y /\ r = l + x
       /\ s.count \in Nat /\ l \in Nat /\ x \in Nat /\ y \in Nat
       /\ n + 1 < k => y >= 1
       /\ n + 1 = k => y = 0
  BY <1>1, <1>2, <1>5, <1>6, <1>7, <1>8, <1>9, <1>12, Zenon
<1> HIDE DEF x, y, z, l, r, k
<1>16. /\ r <= s.count
       /\ n + 1 = k => r = s.count
       /\ n + 1 < k => r < s.count
  BY <1>15
<1> QED BY <1>2, <1>13, <1>14, <1>16 DEF r, k

LEMMA RowGrows ==
    ASSUME NEW s, NEW c, NEW contents, Chained(s, c, contents), NEW n \in Nat, n < Len(c),
           NEW f, Row(f, c, n, s)
    PROVE  Row(f \o c[n + 1], c, n + 1, s)
<1> DEFINE g == c[n + 1]
           h == f \o g
<1>1. /\ g \in Seq(Block) /\ Len(g) \in Nat /\ DOMAIN g = 1..Len(g)
      /\ f \in Seq(Block) /\ Len(f) \in Nat /\ DOMAIN f = 1..Len(f)
  BY RowLengths DEF Row, Group
<1>2. /\ h \in Seq(Block) /\ Len(h) = Len(f) + Len(g) /\ DOMAIN h = 1..(Len(f) + Len(g))
      /\ \A k \in 1..(Len(f) + Len(g)) : h[k] = IF k <= Len(f) THEN f[k] ELSE g[k - Len(f)]
  BY <1>1
<1>3. /\ DOMAIN c = 1..Len(c) /\ Len(c) \in Nat /\ NoRepeats(c) /\ n + 1 \in 1..Len(c)
  BY ChainedFacts DEF Chained
<1>4. \A b : b \in Range(f) <=> \E i \in 1..n : b \in Range(c[i])
  BY DEF Row
<1>5. \A k \in 1..Len(f), m \in 1..Len(g) : f[k] # g[m]
  <2> SUFFICES ASSUME NEW k \in 1..Len(f), NEW m \in 1..Len(g), f[k] = g[m] PROVE FALSE
    OBVIOUS
  <2>1. f[k] \in Range(f)
    BY <1>1 DEF Range
  <2>2. PICK i \in 1..n : f[k] \in Range(c[i])
    BY <1>4, <2>1
  <2>3. PICK p \in DOMAIN c[i] : f[k] = c[i][p]
    BY <2>2 DEF Range
  <2>4. i \in DOMAIN c /\ n + 1 \in DOMAIN c /\ i # n + 1 /\ m \in DOMAIN c[n + 1]
    BY <1>1, <1>3
  <2> HIDE DEF g
  <2>5. c[i][p] = c[n + 1][m]
    BY <2>3 DEF g
  <2> QED BY <1>3, <2>4, <2>5 DEF NoRepeats
<1>6. \A k, m \in 1..Len(f) : f[k] = f[m] => k = m
  BY <1>1 DEF Row, IsInjective
<1>7. \A k, m \in 1..Len(g) : g[k] = g[m] => k = m
  BY <1>1, <1>3 DEF NoRepeats
<1>8. IsInjective(h)
  <2> SUFFICES ASSUME NEW k \in DOMAIN h, NEW m \in DOMAIN h, h[k] = h[m] PROVE k = m
    BY DEF IsInjective
  <2> HIDE DEF h, g
  <2>1. k \in 1..(Len(f) + Len(g)) /\ m \in 1..(Len(f) + Len(g))
    BY <1>2
  <2>2. CASE k <= Len(f) /\ m <= Len(f)
    BY <1>1, <1>2, <1>6, <2>1, <2>2
  <2>3. CASE k > Len(f) /\ m > Len(f)
    <3>1. k - Len(f) \in 1..Len(g) /\ m - Len(f) \in 1..Len(g)
      BY <1>1, <2>1, <2>3
    <3>2. h[k] = g[k - Len(f)] /\ h[m] = g[m - Len(f)]
      BY <1>1, <1>2, <2>1, <2>3
    <3>3. k - Len(f) = m - Len(f)
      BY <1>7, <3>1, <3>2
    <3> QED BY <1>1, <2>1, <3>3
  <2>4. CASE k <= Len(f) /\ m > Len(f)
    <3>1. k \in 1..Len(f) /\ m - Len(f) \in 1..Len(g)
      BY <1>1, <2>1, <2>4
    <3>2. h[k] = f[k] /\ h[m] = g[m - Len(f)]
      BY <1>1, <1>2, <2>1, <2>4
    <3> QED BY <1>5, <3>1, <3>2
  <2>5. CASE k > Len(f) /\ m <= Len(f)
    <3>1. m \in 1..Len(f) /\ k - Len(f) \in 1..Len(g)
      BY <1>1, <2>1, <2>5
    <3>2. h[m] = f[m] /\ h[k] = g[k - Len(f)]
      BY <1>1, <1>2, <2>1, <2>5
    <3> QED BY <1>5, <3>1, <3>2
  <2> QED BY <1>1, <2>1, <2>2, <2>3, <2>4, <2>5
<1>9. ASSUME NEW b PROVE b \in Range(h) <=> b \in Range(f) \/ b \in Range(g)
  <2> HIDE DEF h, g
  <2>1. b \in Range(h) => b \in Range(f) \/ b \in Range(g)
    <3> SUFFICES ASSUME NEW k \in DOMAIN h, b = h[k] PROVE b \in Range(f) \/ b \in Range(g)
      BY DEF Range
    <3>1. k \in 1..(Len(f) + Len(g)) /\ (k > Len(f) => k - Len(f) \in 1..Len(g))
      BY <1>1, <1>2
    <3> QED BY <1>1, <1>2, <3>1 DEF Range
  <2>2. b \in Range(f) => b \in Range(h)
    <3> SUFFICES ASSUME NEW k \in 1..Len(f), b = f[k] PROVE b \in Range(h)
      BY <1>1 DEF Range
    <3>1. k \in 1..(Len(f) + Len(g)) /\ k <= Len(f)
      BY <1>1
    <3>2. k \in DOMAIN h /\ h[k] = f[k]
      BY <1>2, <3>1
    <3> QED BY <3>2 DEF Range
  <2>3. b \in Range(g) => b \in Range(h)
    <3> SUFFICES ASSUME NEW k \in 1..Len(g), b = g[k] PROVE b \in Range(h)
      BY <1>1 DEF Range
    <3>1. /\ k + Len(f) \in 1..(Len(f) + Len(g)) /\ ~(k + Len(f) <= Len(f))
          /\ k + Len(f) - Len(f) = k
      BY <1>1
    <3>2. k + Len(f) \in DOMAIN h /\ h[k + Len(f)] = g[k]
      BY <1>2, <3>1
    <3> QED BY <3>2 DEF Range
  <2> QED BY <2>1, <2>2, <2>3
<1>10. ASSUME NEW b PROVE b \in Range(h) <=> \E i \in 1..(n + 1) : b \in Range(c[i])
  <2>1. (\E i \in 1..(n + 1) : b \in Range(c[i])) <=> (\E i \in 1..n : b \in Range(c[i])) \/ b \in Range(g)
    <3>1. 1..(n + 1) = 1..n \cup {n + 1}
      OBVIOUS
    <3> QED BY <3>1
  <2> QED BY <1>4, <1>9, <2>1
<1>11. Len(h) = RowLength(s, n + 1)
  BY <1>2, RowLengths DEF Row
<1> HIDE DEF h
<1>12. Row(h, c, n + 1, s)
  BY <1>2, <1>8, <1>10, <1>11 DEF Row
<1> QED BY <1>12 DEF h

\* A walk that has counted the first n groups of c, or all of them.
Reads(w, n, s, c) ==
    /\ w.broken = FALSE
    /\ n < Len(c) => /\ w = [found |-> w.found, visited |-> {c[i][1] : i \in 1..n},
                             group |-> c[n + 1], broken |-> FALSE]
                     /\ Row(w.found, c, n, s)
    /\ n >= Len(c) => /\ w.group = << >> \/ Len(w.found) >= s.count
                      /\ Row(w.found, c, Len(c), s)

LEMMA AllIsTaken ==
    ASSUME NEW g \in Group, NEW left \in Nat, Len(g) <= left, NEW whole \in BOOLEAN
    PROVE  Taken(g, left, whole) = g
<1>1. Min({left, Len(g)}) = Len(g)
  <2>1. Len(g) \in Nat /\ Len(g) \in {left, Len(g)} /\ \A y \in {left, Len(g)} : Len(g) <= y
    BY GroupFacts
  <2>2. \A x \in {left, Len(g)} : (\A y \in {left, Len(g)} : x <= y) => x = Len(g)
    BY <2>1
  <2> QED BY <2>1, <2>2 DEF Min
<1>2. SubSeq(g, 1, Len(g)) = g
  BY DEF Group
<1> QED BY <1>1, <1>2 DEF Taken

LEMMA RoundReads ==
    ASSUME NEW s, NEW c, NEW contents, Chained(s, c, contents), NEW whole \in BOOLEAN,
           NEW n \in Nat, NEW w, Reads(w, n, s, c)
    PROVE  Reads(Round(w, s, contents, whole), n + 1, s, c)
<1>1. /\ Len(c) \in Nat /\ Len(c) >= 1 /\ s.count \in Nat /\ NoRepeats(c)
      /\ DOMAIN c = 1..Len(c)
  BY ChainedFacts DEF Chained
<1>2. CASE n >= Len(c)
  <2>1. Round(w, s, contents, whole) = w
    <3>1. w.group = << >> \/ Len(w.found) >= s.count
      BY <1>2 DEF Reads
    <3> QED BY <3>1 DEF Round
  <2> QED BY <1>1, <1>2, <2>1 DEF Reads
<1>3. CASE n < Len(c)
  <2> DEFINE g == c[n + 1]
             found == w.found \o g
             link == g[1]
             seen == {c[i][1] : i \in 1..n}
  <2>1. w = [found |-> w.found, visited |-> seen, group |-> g, broken |-> FALSE]
    BY <1>3 DEF Reads
  <2>2. Row(w.found, c, n, s) /\ Row(found, c, n + 1, s)
    BY <1>3, RowGrows DEF Reads
  <2>3. /\ g \in Group /\ Len(g) \in Nat
        /\ Len(w.found) \in Nat /\ Len(found) = Len(w.found) + Len(g)
        /\ Len(found) <= s.count
        /\ n + 1 = Len(c) => Len(found) = s.count
        /\ n + 1 < Len(c) => Len(found) < s.count
    BY <1>3, <2>2, RowLengths DEF Row
  <2>a. g = c[n + 1] /\ found = w.found \o g /\ link = g[1] /\ seen = {c[i][1] : i \in 1..n}
    OBVIOUS
  <2> HIDE DEF g, found, link, seen
  <2>4. Taken(g, s.count - Len(w.found), whole) = g
    <3>1. ASSUME NEW x \in Nat, NEW y \in Nat, NEW z \in Nat, x + y <= z
          PROVE  z - x \in Nat /\ y <= z - x
      BY <3>1
    <3>2. s.count - Len(w.found) \in Nat /\ Len(g) <= s.count - Len(w.found)
      BY <1>1, <2>3, <3>1
    <3> QED BY <2>3, <3>2, AllIsTaken
  <2>5. CASE g = << >>
    <3>1. Len(g) = 0
      BY <2>5
    <3>2. n + 1 = Len(c)
      <4>1. ~(n + 2 \in 2..Len(c))
        <5>1. \A i \in 2..Len(c) : c[i - 1] # << >>
          BY DEF Chained, Spells
        <5>2. n + 2 - 1 = n + 1
          OBVIOUS
        <5>3. c[n + 2 - 1] = << >>
          BY <2>a, <2>5, <5>2
        <5> QED BY <5>1, <5>3
      <4>2. n + 2 <= Len(c) => n + 2 \in 2..Len(c)
        BY <1>1
      <4>3. ~(n + 2 <= Len(c))
        BY <4>1, <4>2
      <4>4. \A x, y \in Nat : x < y /\ ~(x + 2 <= y) => x + 1 = y
        OBVIOUS
      <4>5. Len(c) \in Nat
        BY <1>1
      <4> QED BY <1>3, <4>3, <4>4, <4>5
    <3>3. found = w.found
      BY <2>a, <2>5, <2>2 DEF Row
    <3>4. Round(w, s, contents, whole) = w
      BY <2>1, <2>5 DEF Round
    <3>5. Row(w.found, c, Len(c), s)
      BY <2>2, <3>2, <3>3
    <3> QED BY <1>1, <2>1, <2>5, <3>2, <3>4, <3>5 DEF Reads
  <2>6. CASE g # << >>
    <3>a. Len(g) >= 1
      BY <2>3, <2>6, GroupFacts
    <3>b. ASSUME NEW x \in Nat, NEW y \in Nat, NEW z \in Nat, x + y <= z, y >= 1
          PROVE  x < z
      BY <3>b
    <3>1. Len(g) >= 1 /\ Len(w.found) < s.count
      BY <1>1, <2>3, <3>a, <3>b
    <3>2. w.group = g
      BY <2>1
    <3>3. ~(w.group = << >> \/ Len(w.found) >= s.count)
      <4>1. \A x, y \in Nat : x < y => ~(x >= y)
        OBVIOUS
      <4>2. ~(Len(w.found) >= s.count)
        BY <1>1, <2>3, <3>1, <4>1
      <4> QED BY <2>6, <3>2, <4>2
    <3>4. CASE n + 1 = Len(c)
      <4>1. Len(found) >= s.count
        BY <1>1, <2>3, <3>4
      <4>2. Round(w, s, contents, whole) = [w EXCEPT !.found = found, !.group = << >>]
        BY <2>a, <2>4, <3>2, <3>3, <4>1 DEF Round
      <4>3. ASSUME NEW a, NEW b, NEW d, NEW e, NEW h, NEW j, NEW v,
                   v = [found |-> a, visited |-> b, group |-> d, broken |-> e]
            PROVE  LET r == [v EXCEPT !.found = h, !.group = j]
                   IN  r.found = h /\ r.group = j /\ r.broken = e
        BY <4>3
      <4> DEFINE r == Round(w, s, contents, whole)
      <4>4. r.found = found /\ r.group = << >> /\ r.broken = FALSE
        BY ONLY <2>1, <4>2, <4>3
      <4> HIDE DEF r
      <4>5. Row(r.found, c, Len(c), s)
        BY <2>2, <3>4, <4>4
      <4>6. \A x, y \in Nat : x + 1 = y => x + 1 >= y /\ ~(x + 1 < y)
        OBVIOUS
      <4>7. n + 1 >= Len(c) /\ ~(n + 1 < Len(c))
        BY <1>1, <3>4, <4>6
      <4>8. Reads(r, n + 1, s, c)
        BY <4>4, <4>5, <4>7 DEF Reads
      <4> QED BY <4>8 DEF r
    <3>5. CASE n + 1 < Len(c)
      <4>1. ~(Len(found) >= s.count)
        <5>1. Len(found) < s.count
          BY <2>3, <3>5
        <5>2. \A x, y \in Nat : x < y => ~(x >= y)
          OBVIOUS
        <5>4. \A x, y \in Nat : x + y \in Nat
          OBVIOUS
        <5>5. Len(w.found) + Len(g) \in Nat
          BY <2>3, <5>4
        <5>6. Len(found) \in Nat
          BY <2>3, <5>5
        <5>7. s.count \in Nat
          BY <1>1
        <5>3. Len(found) \in Nat /\ s.count \in Nat
          BY <5>6, <5>7
        <5> QED BY <5>1, <5>2, <5>3
      <4>2. Round(w, s, contents, whole) =
              [found |-> found, visited |-> w.visited \cup {LinkOf(g)},
               group |-> IF LinkOf(g) \in w.visited THEN << >> ELSE contents[LinkOf(g)],
               broken |-> LinkOf(g) \in w.visited \/ contents[LinkOf(g)] = << >>]
        BY <2>a, <2>4, <3>2, <3>3, <4>1 DEF Round
      <4>3. n + 2 \in 2..Len(c) /\ n + 2 - 1 = n + 1
        BY <1>1, <3>5
      <4>4. contents[link] = c[n + 2] /\ Len(c[n + 2]) = GroupSize
        BY <2>a, <4>3 DEF Chained, Spells
      <4>5. c[n + 2] # << >>
        BY <4>4, GroupAssumption
      <4>6. link \notin seen
        <5> SUFFICES ASSUME NEW i \in 1..n, c[i][1] = c[n + 1][1] PROVE FALSE
          BY <2>a
        <5>1. i \in 1..Len(c) /\ n + 1 \in 1..Len(c) /\ i # n + 1 /\ i + 1 \in 2..Len(c) /\ i + 1 - 1 = i
          BY <1>1, <3>5
        <5>2. c[i] # << >> /\ c[i] \in Group
          BY <5>1, ChainFacts DEF Chained, Spells
        <5>3. 1 \in DOMAIN c[i] /\ 1 \in DOMAIN c[n + 1]
          BY <2>a, <2>3, <3>1, <5>2, GroupFacts
        <5> QED BY <1>1, <5>1, <5>3 DEF NoRepeats
      <4>7. w.visited = seen /\ LinkOf(g) = link
        BY <2>a, <2>1 DEF LinkOf
      <4>8. seen \cup {link} = {c[i][1] : i \in 1..(n + 1)}
        <5>1. 1..(n + 1) = 1..n \cup {n + 1}
          OBVIOUS
        <5> QED BY <2>a, <5>1
      <4>9. Round(w, s, contents, whole) =
              [found |-> found, visited |-> {c[i][1] : i \in 1..(n + 1)}, group |-> c[n + 2], broken |-> FALSE]
        <5>1. (link \in seen \/ contents[link] = << >>) = FALSE
          BY <4>4, <4>5, <4>6
        <5>2. (IF link \in seen THEN << >> ELSE contents[link]) = c[n + 2]
          BY <4>4, <4>6
        <5> QED BY <4>2, <4>7, <4>8, <5>1, <5>2
      <4>10. \A x, y \in Nat : x + 1 < y => ~(x + 1 >= y)
        OBVIOUS
      <4>11. n + 1 + 1 = n + 2 /\ ~(n + 1 >= Len(c))
        BY <1>1, <3>5, <4>10
      <4> DEFINE r == Round(w, s, contents, whole)
      <4> HIDE DEF r
      <4>12. r.broken = FALSE /\ r.found = found
        BY <4>9 DEF r
      <4>13. r = [found |-> r.found, visited |-> {c[i][1] : i \in 1..(n + 1)},
                  group |-> c[n + 1 + 1], broken |-> FALSE]
        BY <4>9, <4>11, <4>12 DEF r
      <4>14. Row(r.found, c, n + 1, s)
        BY <2>2, <4>12
      <4>15. Reads(r, n + 1, s, c)
        BY <4>11, <4>12, <4>13, <4>14 DEF Reads
      <4> QED BY <4>15 DEF r
    <3>6. \A x, y \in Nat : x < y => x + 1 = y \/ x + 1 < y
      OBVIOUS
    <3> QED BY <1>1, <1>3, <3>4, <3>5, <3>6
  <2> QED BY <2>5, <2>6
<1> QED BY <1>1, <1>2, <1>3

\* What the walk is at before its first round.
Start(s) == [found |-> << >>, visited |-> {}, group |-> s.group, broken |-> FALSE]

LEMMA StartReads ==
    ASSUME NEW s, NEW c, NEW contents, Chained(s, c, contents)
    PROVE  Reads(Start(s), 0, s, c)
<1>1. Len(c) \in Nat /\ Len(c) >= 1 /\ c[1] = s.group
  BY ChainedFacts DEF Chained, Spells
<1>2. Row(<< >>, c, 0, s)
  BY DEF Row, RowLength, IsInjective, Range
<1>3. {c[i][1] : i \in 1..0} = {}
  OBVIOUS
<1> DEFINE w == Start(s)
<1>4. w.broken = FALSE /\ w.found = << >>
  BY DEF Start
<1>5. w = [found |-> w.found, visited |-> {c[i][1] : i \in 1..0}, group |-> c[0 + 1], broken |-> FALSE]
  <2>1. c[0 + 1] = s.group
    BY <1>1
  <2>2. w = [found |-> << >>, visited |-> {}, group |-> s.group, broken |-> FALSE]
    BY DEF Start
  <2> HIDE DEF w
  <2> QED BY <1>3, <1>4, <2>1, <2>2
<1> HIDE DEF w
<1>6. Row(w.found, c, 0, s)
  BY <1>2, <1>4
<1>7. ~(0 >= Len(c))
  BY <1>1
<1>8. Reads(w, 0, s, c)
  BY <1>4, <1>5, <1>6, <1>7 DEF Reads
<1> QED BY <1>8 DEF w

-----------------------------------------------------------------------------
\* Induction on the natural numbers, for a set of numbers.
LEMMA SetInduction ==
    ASSUME NEW T, 0 \in T, \A n \in Nat : n \in T => n + 1 \in T
    PROVE  \A n \in Nat : n \in T
<1> DEFINE U == Nat \ T
           R == OpToRel(<, Nat)
<1> SUFFICES ASSUME U # {} PROVE FALSE
  OBVIOUS
<1>1. U \subseteq Nat
  OBVIOUS
<1>2. PICK m \in U : \A k \in U : ~(<<k, m>> \in R)
  <2> HIDE DEF U, R
  <2>1. IsWellFoundedOn(R, Nat)
    BY NatLessThanWellFounded, Zenon DEF R
  <2> QED BY <1>1, <2>1, WFMin
<1>3. m # 0 /\ m - 1 \in Nat /\ m - 1 < m /\ m - 1 + 1 = m
  OBVIOUS
<1>4. m - 1 \in T
  <2> SUFFICES ASSUME m - 1 \notin T PROVE FALSE
    OBVIOUS
  <2>1. m - 1 \in U
    BY <1>3
  <2>2. <<m - 1, m>> \in R
    BY <1>3, Zenon DEF OpToRel
  <2> QED BY <1>2, <2>1, <2>2
<1> QED BY <1>3, <1>4

\* The loop as a function of the number of rounds.
IsRun(f, k, s, image, whole) ==
    f = [n \in 0..k |-> IF n = 0 THEN Start(s) ELSE Round(f[n - 1], s, image, whole)]

LEMMA RunExists ==
    ASSUME NEW s, NEW image, NEW whole
    PROVE  \A k \in Nat : \E f : IsRun(f, k, s, image, whole)
<1> DEFINE T == {k \in Nat : \E f : IsRun(f, k, s, image, whole)}
<1>1. 0 \in T
  <2> DEFINE f == [n \in 0..0 |-> Start(s)]
  <2>1. f = [n \in 0..0 |-> IF n = 0 THEN Start(s) ELSE Round(f[n - 1], s, image, whole)]
    OBVIOUS
  <2> HIDE DEF f
  <2> QED BY <2>1 DEF IsRun
<1>2. ASSUME NEW k \in Nat, k \in T PROVE k + 1 \in T
  <2>1. PICK f : IsRun(f, k, s, image, whole)
    BY <1>2
  <2> DEFINE g == [n \in 0..(k + 1) |-> IF n = k + 1 THEN Round(f[k], s, image, whole) ELSE f[n]]
             h == [n \in 0..(k + 1) |-> IF n = 0 THEN Start(s) ELSE Round(g[n - 1], s, image, whole)]
  <2>2. ASSUME NEW n \in 0..(k + 1) PROVE g[n] = h[n]
    <3>1. CASE n = k + 1
      <4>1. k \in 0..(k + 1) /\ k # k + 1 /\ n # 0 /\ n - 1 = k
        BY <3>1
      <4>2. g[n] = Round(f[k], s, image, whole) /\ g[k] = f[k]
        BY <3>1, <4>1
      <4>3. h[n] = Round(g[n - 1], s, image, whole)
        BY <4>1
      <4> QED BY <4>1, <4>2, <4>3
    <3>2. CASE n # k + 1
      <4>1. n \in 0..k
        BY <3>2
      <4>2. f[n] = IF n = 0 THEN Start(s) ELSE Round(f[n - 1], s, image, whole)
        BY <2>1, <4>1 DEF IsRun
      <4>3. g[n] = f[n]
        BY <3>2
      <4>4. n # 0 => n - 1 \in 0..(k + 1) /\ n - 1 # k + 1
        BY <4>1
      <4>5. n # 0 => g[n - 1] = f[n - 1]
        BY <4>4
      <4>6. h[n] = IF n = 0 THEN Start(s) ELSE Round(g[n - 1], s, image, whole)
        OBVIOUS
      <4> HIDE DEF g, h
      <4> QED BY <4>2, <4>3, <4>5, <4>6
    <3> QED BY <3>1, <3>2
  <2>3. g = h
    <3>1. g = [n \in 0..(k + 1) |-> g[n]] /\ h = [n \in 0..(k + 1) |-> h[n]]
      OBVIOUS
    <3> HIDE DEF g, h
    <3> QED BY <2>2, <3>1
  <2>4. IsRun(g, k + 1, s, image, whole)
    <3>1. h = [n \in 0..(k + 1) |-> IF n = 0 THEN Start(s) ELSE Round(g[n - 1], s, image, whole)]
      OBVIOUS
    <3> HIDE DEF g, h
    <3> QED BY <2>3, <3>1 DEF IsRun
  <2> HIDE DEF g
  <2> QED BY <2>4
<1> HIDE DEF T
<1>3. \A k \in Nat : k \in T
  BY <1>1, <1>2, SetInduction
<1> QED BY <1>3 DEF T

LEMMA WalkIsRun ==
    ASSUME NEW s, NEW image, NEW whole, Cardinality(Block) \in Nat
    PROVE  \E f : /\ IsRun(f, Cardinality(Block) + 1, s, image, whole)
                  /\ Walk(s, image, whole) = f[Cardinality(Block) + 1]
<1> DEFINE K == Cardinality(Block) + 1
           A == CHOOSE f : IsRun(f, K, s, image, whole)
<1>1. IsRun(A, K, s, image, whole)
  BY RunExists
<1>2. Walk(s, image, whole) = A[K]
  BY DEF Walk, IsRun, Start
<1> QED BY <1>1, <1>2

-----------------------------------------------------------------------------
\* A sequence without repetitions is as long as the set of its elements.
LEMMA RowCounts ==
    ASSUME NEW f \in Seq(Block), IsInjective(f)
    PROVE  Len(f) \in Nat /\ Cardinality(Range(f)) = Len(f)
<1>1. Len(f) \in Nat /\ DOMAIN f = 1..Len(f)
  OBVIOUS
<1>2. f \in Surjection(1..Len(f), Range(f))
  BY <1>1 DEF Surjection, Range
<1>3. f \in Injection(1..Len(f), Range(f))
  BY <1>1, <1>2 DEF Injection, Surjection, IsInjective
<1>4. ExistsBijection(1..Len(f), Range(f))
  BY <1>2, <1>3 DEF ExistsBijection, Bijection
<1> QED BY <1>1, <1>4, FS_CountingElements

\* All the blocks of a chain can be put in a row.
LEMMA RowOfAll ==
    ASSUME NEW s, NEW c, NEW contents, Chained(s, c, contents)
    PROVE  \E f : Row(f, c, Len(c), s)
<1>1. Len(c) \in Nat
  BY ChainedFacts
<1> DEFINE T == {n \in Nat : n <= Len(c) => \E f : Row(f, c, n, s)}
<1>2. 0 \in T
  <2>1. Row(<< >>, c, 0, s)
    BY DEF Row, RowLength, IsInjective, Range
  <2> QED BY <2>1
<1>3. ASSUME NEW n \in Nat, n \in T PROVE n + 1 \in T
  <2> SUFFICES ASSUME n + 1 <= Len(c) PROVE \E f : Row(f, c, n + 1, s)
    OBVIOUS
  <2>1. n < Len(c) /\ n <= Len(c)
    BY <1>1
  <2>2. PICK f : Row(f, c, n, s)
    BY <1>3, <2>1
  <2>3. Row(f \o c[n + 1], c, n + 1, s)
    BY <2>1, <2>2, RowGrows
  <2> QED BY <2>3
<1> HIDE DEF T
<1>4. Len(c) \in T
  BY <1>1, <1>2, <1>3, SetInduction
<1> QED BY <1>1, <1>4 DEF T

LEMMA RowIsAll ==
    ASSUME NEW s, NEW c, NEW contents, Chained(s, c, contents), NEW f, Row(f, c, Len(c), s)
    PROVE  /\ f \in Seq(Block) /\ Range(f) = Blocks(c) /\ Len(f) = s.count
           /\ Cardinality(Blocks(c)) = s.count
<1>1. /\ Len(c) \in Nat /\ Len(c) >= 1 /\ DOMAIN c = 1..Len(c)
  BY ChainedFacts
<1>2. f \in Seq(Block) /\ IsInjective(f) /\ Len(f) = RowLength(s, Len(c))
      /\ \A b : b \in Range(f) <=> \E i \in 1..Len(c) : b \in Range(c[i])
  BY DEF Row
<1>3. Range(f) = Blocks(c)
  BY <1>1, <1>2 DEF Blocks
<1>4. Len(c) - 1 \in Nat /\ Len(c) - 1 < Len(c) /\ Len(c) - 1 + 1 = Len(c)
  BY <1>1
<1>5. RowLength(s, Len(c)) = s.count
  <2>1. Len(c) - 1 + 1 = Len(c) => RowLength(s, Len(c) - 1 + 1) = s.count
    BY <1>4, RowLengths
  <2> QED BY <1>4, <2>1
<1> QED BY <1>2, <1>3, <1>5, RowCounts

LEMMA ChainCount ==
    ASSUME NEW s, NEW c, NEW contents, Chained(s, c, contents)
    PROVE  Cardinality(Blocks(c)) = s.count
  BY RowOfAll, RowIsAll

LEMMA BlockCount ==
    Cardinality(Block) \in Nat /\ \A S \in SUBSET Block :
      /\ IsFiniteSet(S) /\ Cardinality(S) \in Nat /\ Cardinality(S) <= Cardinality(Block)
      /\ Cardinality(Block \ S) = Cardinality(Block) - Cardinality(S)
<1>1. IsFiniteSet(Block) /\ Cardinality(Block) \in Nat
  BY RecoveryAssumption, FS_CardinalityType
<1>2. ASSUME NEW S \in SUBSET Block
      PROVE  /\ IsFiniteSet(S) /\ Cardinality(S) \in Nat /\ Cardinality(S) <= Cardinality(Block)
             /\ Cardinality(Block \ S) = Cardinality(Block) - Cardinality(S)
  <2>1. IsFiniteSet(S) /\ Cardinality(S) <= Cardinality(Block)
    BY <1>1, FS_Subset
  <2>2. Cardinality(S) \in Nat
    BY <2>1, FS_CardinalityType
  <2>3. Block \cap S = S
    OBVIOUS
  <2>4. Cardinality(Block \ S) = Cardinality(Block) - Cardinality(S)
    BY <1>1, <2>3, FS_Difference
  <2> QED BY <2>1, <2>2, <2>4
<1> QED BY <1>1, <1>2

LEMMA WalkFinds ==
    ASSUME NEW s, NEW c, NEW contents, Chained(s, c, contents), NEW whole \in BOOLEAN
    PROVE  LET w == Walk(s, contents, whole)
           IN  /\ w.broken = FALSE
               /\ w.found \in Seq(Block)
               /\ Range(w.found) = Blocks(c)
               /\ Len(w.found) = s.count
<1> DEFINE K == Cardinality(Block) + 1
<1>1. Cardinality(Block) \in Nat /\ K \in Nat
  BY BlockCount
<1>2. PICK f : IsRun(f, K, s, contents, whole) /\ Walk(s, contents, whole) = f[K]
  BY <1>1, WalkIsRun
<1> HIDE DEF K
<1>3. ASSUME NEW n \in 0..K
      PROVE  f[n] = IF n = 0 THEN Start(s) ELSE Round(f[n - 1], s, contents, whole)
  BY <1>2, <1>3 DEF IsRun
<1> DEFINE T == {n \in Nat : n <= K => Reads(f[n], n, s, c)}
<1>4. 0 \in T
  <2>1. f[0] = Start(s)
    BY <1>1, <1>3
  <2> QED BY <2>1, StartReads
<1>5. ASSUME NEW n \in Nat, n \in T PROVE n + 1 \in T
  <2> SUFFICES ASSUME n + 1 <= K PROVE Reads(f[n + 1], n + 1, s, c)
    OBVIOUS
  <2>1. n <= K /\ n + 1 \in 0..K /\ n + 1 # 0 /\ n + 1 - 1 = n
    BY <1>1
  <2>2. Reads(f[n], n, s, c)
    BY <1>5, <2>1
  <2>3. f[n + 1] = Round(f[n], s, contents, whole)
    BY <1>3, <2>1
  <2> QED BY <2>2, <2>3, RoundReads
<1> HIDE DEF T
<1>6. K \in T
  BY <1>1, <1>4, <1>5, SetInduction
<1>7. Reads(f[K], K, s, c)
  BY <1>1, <1>6 DEF T
<1>8. K >= Len(c)
  <2>1. Blocks(c) \subseteq Block
    BY BlocksAreBlocks DEF Chained
  <2>2. s.count <= Cardinality(Block)
    BY <2>1, BlockCount, ChainCount
  <2>3. /\ s.count \in Nat /\ Len(s.group) \in Nat /\ Len(c) \in Nat /\ Len(c) >= 1
        /\ s.count = Len(s.group) + GroupSize * (Len(c) - 1)
        /\ GroupSize \in Nat /\ GroupSize >= 1
    BY ChainedFacts
  <2>4. ASSUME NEW k \in Nat PROVE GroupSize * k >= k /\ GroupSize * k \in Nat
    BY <2>3
  <2>5. Len(c) - 1 \in Nat
    BY <2>3
  <2>6. GroupSize * (Len(c) - 1) >= Len(c) - 1 /\ GroupSize * (Len(c) - 1) \in Nat
    BY <2>4, <2>5
  <2>7. \A x, y, z, l, k \in Nat : x = y + z /\ z >= l - 1 /\ x <= k => k + 1 >= l
    OBVIOUS
  <2> QED BY <1>1, <2>2, <2>3, <2>6, <2>7 DEF K
<1>9. Row(f[K].found, c, Len(c), s) /\ f[K].broken = FALSE
  BY <1>7, <1>8 DEF Reads
<1> QED BY <1>2, <1>9, RowIsAll

-----------------------------------------------------------------------------
\* The report of a check that finds the blocks l leaked and the blocks k in conflict.
Report(l, k) == [NoErrors EXCEPT !.leaked = l, !.conflicts = k]

LEMMA ReportFields ==
    ASSUME NEW l, NEW k
    PROVE  Report(l, k)
             = [chainErrors |-> FALSE, duplicates |-> FALSE, countErrors |-> FALSE,
                conflicts |-> k, leaked |-> l]
<1>1. ASSUME NEW r
      PROVE  [r EXCEPT !.leaked = l, !.conflicts = k] = [[r EXCEPT !.leaked = l] EXCEPT !.conflicts = k]
  OBVIOUS
<1>2. ASSUME NEW x, NEW y, NEW z
      PROVE  /\ [[chainErrors |-> x, duplicates |-> x, countErrors |-> x, conflicts |-> y, leaked |-> z]
                    EXCEPT !.leaked = l]
                  = [chainErrors |-> x, duplicates |-> x, countErrors |-> x, conflicts |-> y, leaked |-> l]
             /\ [[chainErrors |-> x, duplicates |-> x, countErrors |-> x, conflicts |-> y, leaked |-> z]
                    EXCEPT !.conflicts = k]
                  = [chainErrors |-> x, duplicates |-> x, countErrors |-> x, conflicts |-> k, leaked |-> z]
  OBVIOUS
<1>3. NoErrors = [chainErrors |-> FALSE, duplicates |-> FALSE, countErrors |-> FALSE,
                  conflicts |-> {}, leaked |-> {}]
  BY DEF NoErrors
<1>4. [NoErrors EXCEPT !.leaked = l, !.conflicts = k] = [[NoErrors EXCEPT !.leaked = l] EXCEPT !.conflicts = k]
  BY <1>1
<1> DEFINE r(y, z) == [chainErrors |-> FALSE, duplicates |-> FALSE, countErrors |-> FALSE,
                       conflicts |-> y, leaked |-> z]
<1>5. [r({}, {}) EXCEPT !.leaked = l] = r({}, l)
  BY <1>2, Zenon
<1>6. [r({}, l) EXCEPT !.conflicts = k] = r(k, l)
  BY <1>2, Zenon
<1>7. NoErrors = r({}, {})
  BY <1>3
<1> HIDE DEF r
<1>8. [NoErrors EXCEPT !.leaked = l, !.conflicts = k] = r(k, l)
  BY <1>4, <1>5, <1>6, <1>7
<1> QED BY <1>8 DEF r, Report

\* What the check says of an image whose superblock spells out the chain c.
LEMMA FsckSays ==
    ASSUME NEW s, NEW c, NEW contents, Chained(s, c, contents), NEW recorded
    PROVE  /\ Fsck(s, contents, recorded) = Report(Block \ (recorded \cup Blocks(c)), recorded \cap Blocks(c))
           /\ UsedInRange(s, contents, Block) = Block \ Blocks(c)
<1> DEFINE w == Walk(s, contents, FALSE)
<1>1. /\ w.broken = FALSE /\ Range(w.found) = Blocks(c) /\ Len(w.found) = s.count
  BY WalkFinds
<1>2. /\ s.group \in Group /\ s.count \in Nat
      /\ s.count = Len(s.group) + GroupSize * (Len(c) - 1)
      /\ Len(c) \in Nat /\ Len(c) >= 1
      /\ Len(c) >= 2 => Len(s.group) >= 1
      /\ GroupSize \in Nat
  BY ChainedFacts
<1>3. Len(s.group) \in Nat /\ (s.group = << >> <=> Len(s.group) = 0)
  BY <1>2, GroupFacts
<1>4. s.count = 0 <=> Len(s.group) = 0
  <2>1. CASE Len(c) >= 2
    <3>1. Len(c) - 1 \in Nat
      BY <1>2
    <3>2. \A k \in Nat : GroupSize * k \in Nat
      BY <1>2
    <3>3. GroupSize * (Len(c) - 1) \in Nat
      BY <3>1, <3>2
    <3>4. \A x, y, z \in Nat : x = y + z /\ y >= 1 => x # 0 /\ y # 0
      OBVIOUS
    <3>5. Len(s.group) >= 1
      BY <1>2, <2>1
    <3> QED BY <1>2, <1>3, <3>3, <3>4, <3>5
  <2>2. CASE ~(Len(c) >= 2)
    <3>3. \A x \in Nat : x >= 1 /\ ~(x >= 2) => x - 1 = 0
      OBVIOUS
    <3>1. Len(c) - 1 = 0
      BY <1>2, <2>2, <3>3
    <3>2. GroupSize * 0 = 0
      BY <1>2
    <3>4. s.count = Len(s.group) + 0
      BY <1>2, <3>1, <3>2
    <3> QED BY <1>3, <3>4
  <2> QED BY <2>1, <2>2
<1>5. Len(w.found) = Cardinality(Range(w.found))
  BY <1>1, ChainCount
<1> HIDE DEF w
<1>6. Fsck(s, contents, recorded) =
        [chainErrors |-> FALSE, duplicates |-> FALSE, countErrors |-> FALSE,
         conflicts |-> recorded \cap Blocks(c), leaked |-> Block \ (recorded \cup Blocks(c))]
  <2>1. (w.broken \/ (s.count = 0 /\ s.group # << >>) \/ (s.count # 0 /\ s.group = << >>)) = FALSE
    BY <1>1, <1>3, <1>4
  <2>2. (Len(w.found) # Cardinality(Range(w.found))) = FALSE
    BY <1>5
  <2>3. (s.group # << >> /\ Len(w.found) # s.count) = FALSE
    BY <1>1
  <2>4. Fsck(s, contents, recorded) =
          [chainErrors |-> w.broken \/ (s.count = 0 /\ s.group # << >>)
                                    \/ (s.count # 0 /\ s.group = << >>),
           duplicates |-> Len(w.found) # Cardinality(Range(w.found)),
           countErrors |-> s.group # << >> /\ Len(w.found) # s.count,
           conflicts |-> recorded \cap Range(w.found),
           leaked |-> Block \ (recorded \cup Range(w.found))]
    BY DEF Fsck, w
  <2> QED BY <1>1, <2>1, <2>2, <2>3, <2>4
<1>7. UsedInRange(s, contents, Block) = Block \ Blocks(c)
  BY <1>1 DEF UsedInRange, CountedFree, w
<1> QED BY <1>6, <1>7, ReportFields

-----------------------------------------------------------------------------
(***************************************************************************)
(* The inductive invariant of mount, unmount and recovery                  *)
(***************************************************************************)

\* Every block is free, recorded or in somebody's hands.
Accounted == Block = Blocks(chain) \cup refs \cup transit \cup ({cur} \ {NoBlock})

\* No block is free and in use at once, but for those the running call still records.
Clear == (refs \cup transit) \cap Blocks(chain) \subseteq leaving

\* While recover runs no call does, and only a failed write makes it miss a block.
Busy ==
    /\ rec # "none" => pc = "idle" /\ transit = {}
    /\ rec = "none" => todo = {} /\ missed = {}
    /\ faults = 0 => missed = {}

\* What recover has found and not freed yet, or could not free, is all that is missing.
Repairing ==
    /\ rec # "none" => Block = refs \cup Blocks(chain) \cup todo \cup missed
    /\ (todo \cup missed) \cap (refs \cup Blocks(chain) \cup Blocks(dChain)) = {}
    /\ todo \cap missed = {}

\* Between calls the image has the superblock of the memory, unless a write failed.
Synced ==
    faults = 0 /\ pc \in {"idle", "release", "down"} /\ rec # "sync" => sb = dsb /\ chain = dChain

\* As long as no mount has warned nothing is missing in memory, nor in an image that
\* says CLEAN, and no block is both free and recorded.
Flagged ==
    /\ faults = 0 /\ ~warned /\ pc \notin {"format", "down"} => Accounted /\ Clear
    /\ faults = 0 /\ ~warned /\ clean /\ pc = "down" => Accounted /\ refs \cap Blocks(chain) = {}

RInv ==
    /\ IInv
    /\ MarkInv
    /\ Busy
    /\ ~spoilt => Repairing /\ Synced /\ Flagged

\* A chain reads the same in contents that agree on its blocks.
LEMMA SameOnChain ==
    ASSUME NEW s, NEW c, NEW x, Chained(s, c, x), NEW y, \A b \in Blocks(c) : y[b] = x[b]
    PROVE  Chained(s, c, y)
<1>1. c \in Seq(Group) /\ Len(c) \in Nat /\ DOMAIN c = 1..Len(c)
  BY ChainFacts DEF Chained
<1>2. ASSUME NEW i \in 2..Len(c)
      PROVE  y[c[i-1][1]] = c[i]
  <2>1. i - 1 \in DOMAIN c /\ c[i-1] # << >> /\ c[i-1] \in Group /\ x[c[i-1][1]] = c[i]
    BY <1>1, ChainFacts DEF Chained, Spells
  <2>2. 1 \in DOMAIN c[i-1] /\ c[i-1][1] \in Block
    BY <2>1, GroupFacts
  <2>3. c[i-1][1] \in Blocks(c)
    BY <2>1, <2>2, InBlocks
  <2> QED BY <2>1, <2>3
<1> QED BY <1>2 DEF Chained, Spells

LEMMA WrittenBackTypes ==
    ASSUME TypeOK, NEW S \in SUBSET dirty
    PROVE  WrittenBack(S) \in [Block -> Group]
<1>1. << >> \in Group
  BY EmptySeq DEF Group
<1> QED BY <1>1 DEF WrittenBack, NoGroup, TypeOK

\* Writing cached blocks back disturbs neither chain.
LEMMA WrittenBackKeepsChains ==
    ASSUME IInv, ~spoilt, NEW S \in SUBSET dirty
    PROVE  /\ Chained(sb, chain, WrittenBack(S))
           /\ Chained(dsb, dChain, WrittenBack(S))
<1>1. /\ Chained(sb, chain, content) /\ Chained(dsb, dChain, content)
      /\ content \in [Block -> Group]
      /\ Blocks(chain) \subseteq Block /\ Blocks(dChain) \subseteq Block
  BY InvChained
<1>2. dirty \cap (Blocks(chain) \cup Blocks(dChain)) = {}
  BY DEF IInv, Sound, Apart
<1>3. \A b \in Blocks(chain) \cup Blocks(dChain) : WrittenBack(S)[b] = content[b]
  BY <1>1, <1>2 DEF WrittenBack
<1> QED BY <1>1, <1>3, SameOnChain

-----------------------------------------------------------------------------
\* As long as no write fails no call loses a block, or leaves one both free and in use.
LEMMA WorkLosesNothing ==
    ASSUME IInv, Work, ~spoilt, ~spoilt', faults' = 0, pc # "format" => Accounted /\ Clear
    PROVE  pc' # "format" => Accounted' /\ Clear'
<1>a. /\ Chained(sb, chain, content) /\ Chained(dsb, dChain, content)
      /\ Blocks(chain) \subseteq Block /\ Blocks(dChain) \subseteq Block
  BY InvChained
<1>b. TypeOK /\ Owners /\ Apart
  BY DEF IInv, Sound
<1>c. faults \in Nat /\ NoBlock \notin Block
  BY <1>b, GroupAssumption DEF TypeOK
<1>d. ASSUME NEW b, Used(b) PROVE b \notin exposed
  BY <1>d DEF Used
<1>1. ASSUME NEW b \in Block, Format(b) PROVE pc' # "format" => Accounted' /\ Clear'
  BY <1>1 DEF Format
<1>2. CASE FormatSync
  <2>1. /\ pc = "format" /\ Blocks(chain) = Block /\ UNCHANGED <<refs, transit, cur, chain>>
    BY <1>2 DEF FormatSync
  <2>2. refs = {} /\ transit = {} /\ cur = NoBlock
    BY <1>b, <2>1 DEF Owners
  <2> QED BY <2>1, <2>2 DEF Accounted, Clear
<1>3. CASE Alloc
  <2>1. /\ pc = "idle" /\ UNCHANGED <<refs, transit, leaving>>
    BY <1>3 DEF Alloc
  <2>2. cur' \in Block /\ Blocks(chain) = Blocks(chain') \cup {cur'}
    BY <1>3, AllocatedLeavesChain
  <2>3. cur = NoBlock
    BY <1>b, <2>1 DEF Owners
  <2> QED BY <1>c, <2>1, <2>2, <2>3 DEF Accounted, Clear
<1>4. CASE AllocReturn
  <2>1. /\ pc = "alloc" /\ transit' = transit \cup {cur} /\ cur' = NoBlock
        /\ UNCHANGED <<refs, chain, leaving>>
    BY <1>4 DEF AllocReturn
  <2>2. cur # NoBlock /\ cur \notin Blocks(chain)
    BY <1>b, <2>1 DEF Owners, Apart
  <2> QED BY <2>1, <2>2 DEF Accounted, Clear
<1>5. ASSUME NEW b, AllocFails \/ FreeStoreFails(b) \/ FreeSyncFails PROVE FALSE
  <2>1. faults' = faults + 1
    BY <1>5 DEF AllocFails, FreeStoreFails, FreeSyncFails, CallerReturns
  <2> QED BY <1>c, <2>1
<1>6. ASSUME NEW b \in refs, Free(b) PROVE Accounted' /\ Clear'
  <2>1. /\ pc \in {"idle", "release"} /\ InternalFree(b) /\ b \notin leaving /\ b \notin exposed
        /\ leaving' = leaving \cup {b} /\ UNCHANGED <<refs, transit, cur>>
    BY <1>6, <1>d DEF Free
  <2>2. b \in Block /\ b \notin Blocks(chain) /\ b \notin Blocks(dChain)
    BY <1>b, <1>6, <2>1 DEF TypeOK, Apart
  <2>3. Blocks(chain') = Blocks(chain) \cup {b}
    BY <2>1, <2>2, FreedJoinsChain
  <2> QED BY <2>1, <2>2, <2>3 DEF Accounted, Clear
<1>7. ASSUME NEW b \in leaving, Unlink(b) PROVE Accounted' /\ Clear'
  <2>1. /\ pc = "release" /\ refs' = refs \ {b} /\ leaving' = leaving \ {b}
        /\ UNCHANGED <<transit, cur, chain>>
    BY <1>7 DEF Unlink
  <2>2. b \in Blocks(chain) /\ b \in refs /\ b \notin transit
    BY <1>b, <1>7, <2>1 DEF Owners, Apart
  <2> QED BY <2>1, <2>2 DEF Accounted, Clear
<1>8. ASSUME NEW b \in transit, Link(b) PROVE Accounted' /\ Clear'
  <2>1. /\ pc = "idle" /\ refs' = refs \cup {b} /\ transit' = transit \ {b}
        /\ UNCHANGED <<cur, chain, leaving>>
    BY <1>8 DEF Link
  <2> QED BY <1>8, <2>1 DEF Accounted, Clear
<1>9. ASSUME NEW b, FreeReturn \/ OwnerWrite(b) \/ WriteBack(b) \/ Sync PROVE Accounted' /\ Clear'
  <2>1. pc # "format" /\ UNCHANGED <<refs, transit, cur, chain, leaving>>
    BY <1>9 DEF FreeReturn, OwnerWrite, WriteBack, Sync
  <2> QED BY <2>1 DEF Accounted, Clear
<1> QED BY <1>1, <1>2, <1>3, <1>4, <1>5, <1>6, <1>7, <1>8, <1>9 DEF Work

\* A call that has returned has written the superblock, or failed.
LEMMA WorkSyncs ==
    ASSUME TypeOK, Work, faults' = 0, pc \in {"idle", "release"} => sb = dsb /\ chain = dChain
    PROVE  pc' \in {"idle", "release"} => sb' = dsb' /\ chain' = dChain'
<1>1. faults \in Nat
  BY DEF TypeOK
<1>2. ASSUME NEW b, Format(b) \/ Alloc \/ Free(b) PROVE pc' \notin {"idle", "release"}
  BY <1>2 DEF Format, Alloc, Free
<1>3. ASSUME NEW b, AllocFails \/ FreeStoreFails(b) \/ FreeSyncFails PROVE FALSE
  <2>1. faults' = faults + 1
    BY <1>3 DEF AllocFails, FreeStoreFails, FreeSyncFails, CallerReturns
  <2> QED BY <1>1, <2>1
<1>4. ASSUME FormatSync \/ AllocReturn \/ FreeReturn \/ Sync PROVE sb' = dsb' /\ chain' = dChain'
  BY <1>4 DEF FormatSync, AllocReturn, FreeReturn, Sync, SuperSync
<1>5. ASSUME NEW b, Unlink(b) \/ Link(b) \/ OwnerWrite(b) \/ WriteBack(b)
      PROVE  pc \in {"idle", "release"} /\ UNCHANGED <<sb, dsb, chain, dChain>>
  BY <1>5 DEF Unlink, Link, OwnerWrite, WriteBack
<1>6. ASSUME NEW b, Unlink(b) \/ Link(b) \/ OwnerWrite(b) \/ WriteBack(b)
      PROVE  sb' = dsb' /\ chain' = dChain'
  BY <1>5, <1>6
<1> QED BY <1>2, <1>3, <1>4, <1>6 DEF Work

LEMMA RecoveryInit == RInit => RInv
<1> SUFFICES ASSUME RInit PROVE RInv
  OBVIOUS
<1>1. IInv /\ MarkInv
  BY InitInv, MarkInit DEF RInit
<1>2. pc = "format" /\ rec = "none" /\ todo = {} /\ missed = {}
  BY DEF RInit, Init
<1> QED BY <1>1, <1>2 DEF RInv, Busy, Repairing, Synced, Flagged

-----------------------------------------------------------------------------
\* The invariant of the allocator, put together after a step of a command.
LEMMA AllocatorTypes ==
    ASSUME TypeOK, Owners, pc = "idle", pc' \in {"idle", "down"},
           sb' \in Super, dsb' \in Super, chain' \in Seq(Group), dChain' \in Seq(Group),
           content' \in [Block -> Group], dirty' \subseteq dirty, transit' \subseteq transit,
           exposed' \subseteq exposed, spoilt' \in BOOLEAN, faults' \in 0..MaxFaults,
           faults' = 0 => faults = 0,
           spoilt' => spoilt \/ crashes # 0 \/ faults' # 0,
           UNCHANGED <<refs, leaving, cur, crashes>>,
           pc' = "down" => chain' = dChain' /\ sb' = dsb' /\ transit' = {} /\ dirty' = {}
    PROVE  TypeOK' /\ Owners'
<1>1. TypeOK'
  BY DEF TypeOK
<1>2. leaving = {} /\ leaving' = {} /\ cur = NoBlock
  BY DEF Owners
<1>3. Owners'
  BY <1>2 DEF Owners
<1> QED BY <1>1, <1>3

LEMMA AllocatorSound ==
    ASSUME IInv, ~spoilt, pc = "idle", pc' \in {"idle", "down"},
           Chained(sb', chain', content'), Chained(dsb', dChain', content'),
           UNCHANGED <<refs, leaving, cur, crashes>>, transit' \subseteq transit,
           dirty' \cap (Blocks(chain') \cup Blocks(dChain')) = {},
           (refs \cup transit') \cap (Blocks(chain') \cup Blocks(dChain')) \subseteq exposed',
           faults' = 0 => faults = 0 /\ Blocks(chain) \subseteq Blocks(chain') /\ transit' = transit
    PROVE  Sound'
<1>a. TypeOK /\ Owners /\ Apart /\ NothingLost
  BY DEF IInv, Sound
<1>b. Blocks(chain') \subseteq Block
  BY BlocksAreBlocks DEF Chained
<1>1. leaving = {} /\ leaving' = {} /\ cur = NoBlock
  BY <1>a DEF Owners
<1>2. Apart'
  BY <1>a, <1>1 DEF Apart
<1>3. NothingLost'
  <2> SUFFICES ASSUME crashes' = 0, faults' = 0
      PROVE  Block = Blocks(chain') \cup refs' \cup transit' \cup ({cur'} \ {NoBlock})
    BY DEF NothingLost
  <2>1. Block = Blocks(chain) \cup refs \cup transit \cup ({cur} \ {NoBlock})
    BY <1>a DEF NothingLost
  <2> QED BY <1>a, <1>b, <2>1 DEF TypeOK
<1> QED BY <1>2, <1>3 DEF Sound

\* What the correction of the count makes up for.
LEMMA CountDiffers ==
    ASSUME RInv, ~spoilt, rec = "leaks", todo = {}
    PROVE  sb.count + Cardinality(missed) = RightCount + Cardinality(refs \cap Blocks(chain))
<1>1. /\ Block = refs \cup Blocks(chain) \cup missed
      /\ missed \cap (refs \cup Blocks(chain)) = {}
  BY DEF RInv, Repairing
<1>2. refs \in SUBSET Block /\ Blocks(chain) \in SUBSET Block /\ missed \in SUBSET Block
  BY <1>1
<1>3. Cardinality(Blocks(chain)) = sb.count
  BY InvChained, ChainCount DEF RInv
<1> DEFINE T == refs \cup Blocks(chain)
           u == Cardinality(T)
           r == Cardinality(refs)
           m == Cardinality(missed)
           k == Cardinality(refs \cap Blocks(chain))
           n == Cardinality(Block)
<1>4. /\ T \in SUBSET Block /\ refs \cap Blocks(chain) \in SUBSET Block /\ Block \ T = missed
  BY <1>1, <1>2
<1>5. n \in Nat /\ u \in Nat /\ r \in Nat /\ m \in Nat /\ k \in Nat /\ sb.count \in Nat
  BY <1>2, <1>3, <1>4, BlockCount
<1>6. m = n - u
  BY <1>4, BlockCount
<1>7. u = r + sb.count - k
  BY <1>2, <1>3, BlockCount, FS_Union
<1> HIDE DEF T, u, r, m, k, n
<1>8. sb.count + m = n - r + k
  BY <1>5, <1>6, <1>7
<1> QED BY <1>8 DEF RightCount, m, n, r, k

\* With nothing missed a count that is right says that nothing is in conflict.
LEMMA RightCountNoConflict ==
    ASSUME RInv, ~spoilt, rec = "leaks", todo = {}, missed = {}
    PROVE  sb.count = RightCount <=> refs \cap Blocks(chain) = {}
<1>1. refs \cap Blocks(chain) \in SUBSET Block /\ {} \in SUBSET Block /\ refs \in SUBSET Block
  BY DEF RInv, IInv, TypeOK
<1>2. IsFiniteSet(refs \cap Blocks(chain)) /\ Cardinality(refs \cap Blocks(chain)) \in Nat
  BY <1>1, BlockCount
<1>3. Cardinality(missed) = 0
  BY FS_EmptySet
<1>4. Cardinality(refs \cap Blocks(chain)) = 0 <=> refs \cap Blocks(chain) = {}
  BY <1>2, FS_EmptySet
<1>5. sb.count \in Nat
  BY InvChained, ChainedFacts DEF RInv
<1>6. RightCount \in Nat
  <2>1. /\ Cardinality(Block) \in Nat /\ Cardinality(refs) \in Nat
        /\ Cardinality(refs) <= Cardinality(Block)
    BY <1>1, BlockCount
  <2> QED BY <2>1 DEF RightCount
<1>7. sb.count + 0 = RightCount + Cardinality(refs \cap Blocks(chain))
  BY <1>3, CountDiffers
<1> QED BY <1>2, <1>4, <1>5, <1>6, <1>7

-----------------------------------------------------------------------------
\* Without a crash or a failed write there is nothing to correct.
LEMMA CorrectionNeedsDamage ==
    ASSUME RInv, rec = "leaks", todo = {}, sb.count # RightCount
    PROVE  spoilt \/ crashes # 0 \/ faults # 0
<1> SUFFICES ASSUME ~spoilt, crashes = 0, faults = 0 PROVE FALSE
  OBVIOUS
<1>1. missed = {} /\ pc = "idle"
  BY DEF RInv, Busy
<1>2. leaving = {} /\ exposed = {}
  BY <1>1 DEF RInv, IInv, Owners
<1>3. refs \cap Blocks(chain) = {}
  BY <1>2 DEF RInv, IInv, Sound, Apart
<1> QED BY <1>1, <1>3, RightCountNoConflict

LEMMA RecoveryNext == RInv /\ [RNext]_allVars => RInv'
<1> SUFFICES ASSUME RInv, [RNext]_allVars PROVE RInv'
  OBVIOUS
<1>a. IInv /\ MarkInv /\ Busy /\ TypeOK /\ Owners
  BY DEF RInv, IInv
<1>b. MarkInv'
  BY <1>a, MarkNext
<1>c. ASSUME ~spoilt
      PROVE  /\ Repairing /\ Synced /\ Flagged /\ Apart
             /\ Chained(sb, chain, content) /\ Chained(dsb, dChain, content)
             /\ Blocks(chain) \subseteq Block /\ Blocks(dChain) \subseteq Block
             /\ dirty \cap (Blocks(chain) \cup Blocks(dChain)) = {}
             /\ pc = "idle" => (refs \cup transit) \cap (Blocks(chain) \cup Blocks(dChain)) \subseteq exposed
  BY <1>a, <1>c, InvChained DEF RInv, IInv, Sound, Apart, Owners
<1>d. /\ sb \in Super /\ dsb \in Super /\ chain \in Seq(Group) /\ dChain \in Seq(Group)
      /\ content \in [Block -> Group] /\ spoilt \in BOOLEAN
      /\ refs \subseteq Block /\ transit \subseteq Block /\ dirty \subseteq Block
      /\ todo \subseteq Block /\ missed \subseteq Block
  BY <1>a DEF TypeOK, MarkInv, RecoveryTypeOK
<1>e. /\ faults \in Nat /\ faults \in 0..MaxFaults /\ MaxFaults \in Nat
      /\ faults < MaxFaults => faults + 1 \in 0..MaxFaults /\ faults + 1 # 0
  <2>1. \A m \in Nat : \A f \in 0..m : f \in Nat /\ (f < m => f + 1 \in 0..m /\ f + 1 # 0)
    OBVIOUS
  <2> QED BY <1>a, <2>1, GroupAssumption DEF TypeOK
<1>f. spoilt => crashes # 0 \/ faults # 0
  BY <1>a DEF Owners
<1>i. ASSUME TypeOK', Owners', Busy', ~spoilt' => ~spoilt,
             ASSUME ~spoilt, ~spoilt' PROVE Sound' /\ Repairing' /\ Synced' /\ Flagged'
      PROVE  RInv'
  BY <1>b, <1>i DEF RInv, IInv
<1>1. CASE Operate
  <2>1. rec = "none" /\ Work /\ UNCHANGED <<rec, todo, clean, lost, warned, missed>>
    BY <1>1 DEF Operate, rvars
  <2>2. IInv' /\ (spoilt => spoilt')
    BY <1>a, <2>1, NextInv, SpoiltStays DEF Next
  <2>3. pc # "down" /\ pc' # "down"
    BY <2>1, WorkStaysUp
  <2>4. todo = {} /\ missed = {}
    BY <1>a, <2>1 DEF Busy
  <2>5. faults' = 0 => faults = 0
    <3>1. faults' = faults \/ faults' = faults + 1
      BY <2>1 DEF Work, Format, FormatSync, Alloc, AllocReturn, AllocFails, Free, FreeStoreFails,
         FreeReturn, FreeSyncFails, CallerReturns, Unlink, Link, OwnerWrite, WriteBack, Sync
    <3> QED BY <1>e, <3>1
  <2>6. Busy'
    BY <2>1, <2>4 DEF Busy
  <2>7. ASSUME ~spoilt, ~spoilt' PROVE Repairing' /\ Synced' /\ Flagged'
    <3>1. Repairing'
      BY <2>1, <2>4 DEF Repairing
    <3>2. Synced'
      <4> SUFFICES ASSUME faults' = 0, pc' \in {"idle", "release"} PROVE sb' = dsb' /\ chain' = dChain'
        BY <2>3 DEF Synced
      <4>1. pc \in {"idle", "release"} => sb = dsb /\ chain = dChain
        BY <1>c, <2>1, <2>5, <2>7 DEF Synced
      <4> QED BY <1>a, <2>1, <4>1, WorkSyncs
    <3>3. Flagged'
      <4> SUFFICES ASSUME faults' = 0, ~warned, pc' # "format" PROVE Accounted' /\ Clear'
        BY <2>1, <2>3 DEF Flagged
      <4>1. pc # "format" => Accounted /\ Clear
        BY <1>c, <2>3, <2>5, <2>7 DEF Flagged
      <4> QED BY <1>a, <2>1, <2>7, <4>1, WorkLosesNothing
    <3> QED BY <3>1, <3>2, <3>3
  <2> QED BY <1>b, <2>2, <2>6, <2>7 DEF RInv
<1>2. ASSUME NEW b \in transit, Leak(b) PROVE RInv'
  <2>1. /\ pc = "idle" /\ rec = "none" /\ faults < MaxFaults /\ faults' = faults + 1
        /\ transit' = transit \ {b}
        /\ UNCHANGED <<sb, dsb, content, dirty, refs, leaving, exposed, spoilt, pc, cur, chain, dChain,
                       crashes, rec, todo, clean, lost, warned, missed>>
    BY <1>2 DEF Leak, rvars
  <2>2. TypeOK' /\ Owners'
    BY <1>a, <1>d, <1>e, <2>1, AllocatorTypes
  <2>3. Busy'
    BY <1>a, <1>e, <2>1 DEF Busy
  <2>4. ASSUME ~spoilt PROVE Sound' /\ Repairing' /\ Synced' /\ Flagged'
    <3>1. Sound'
      BY <1>a, <1>c, <1>e, <2>1, <2>4, AllocatorSound
    <3> QED BY <1>c, <1>e, <2>1, <2>4, <3>1 DEF Repairing, Synced, Flagged
  <2> QED BY <1>i, <2>1, <2>2, <2>3, <2>4
<1>3. CASE Kill
  <2>1. /\ Crash /\ pc # "down" /\ pc' = "down" /\ rec' = "none" /\ todo' = {} /\ missed' = {}
        /\ sb' = dsb /\ chain' = dChain /\ UNCHANGED <<dsb, dChain, clean, spoilt>>
    BY <1>3 DEF Kill, Crash
  <2>2. IInv'
    BY <1>a, <2>1, NextInv DEF Next
  <2>3. ~clean
    BY <1>a, <2>1 DEF MarkInv
  <2>4. Busy' /\ Repairing' /\ Synced' /\ Flagged'
    BY <2>1, <2>3 DEF Busy, Repairing, Synced, Flagged
  <2> QED BY <1>b, <2>2, <2>4 DEF RInv
<1>4. CASE Remount
  <2>1. /\ Mount /\ pc = "down" /\ pc' = "idle"
        /\ warned' = (warned \/ ~clean) /\ UNCHANGED <<rec, todo, missed>>
        /\ UNCHANGED <<sb, dsb, refs, transit, leaving, spoilt, cur, chain, dChain, faults>>
    BY <1>4 DEF Remount, Mount
  <2>2. IInv'
    BY <1>a, <2>1, NextInv DEF Next
  <2>3. rec = "none"
    <3>1. rec # "none" => pc = "idle"
      BY <1>a DEF Busy
    <3> QED BY <2>1, <3>1
  <2>4. Busy'
    BY <1>a, <2>1, <2>3 DEF Busy
  <2>5. ASSUME ~spoilt PROVE Repairing' /\ Synced' /\ Flagged'
    <3>1. Repairing' /\ Synced'
      BY <1>c, <2>1, <2>3, <2>5 DEF Repairing, Synced
    <3>2. Flagged'
      <4> SUFFICES ASSUME faults = 0, ~warned, clean PROVE Accounted' /\ Clear'
        BY <2>1 DEF Flagged
      <4>1. Accounted /\ refs \cap Blocks(chain) = {}
        BY <1>c, <2>1, <2>5 DEF Flagged
      <4>2. transit = {}
        BY <1>a, <2>1 DEF Owners
      <4> QED BY <2>1, <4>1, <4>2 DEF Accounted, Clear
    <3> QED BY <3>1, <3>2
  <2> QED BY <1>b, <2>1, <2>2, <2>4, <2>5 DEF RInv
<1>5. ASSUME NEW S \in SUBSET dirty,
             AtPrompt, content' = WrittenBack(S), dirty' = {}, pc' = "down",
             sb' = dsb', chain' = dChain',
             \/ dsb' = sb /\ dChain' = chain
             \/ dsb' = dsb /\ dChain' = dChain /\ faults' # 0,
             exposed' = exposed \/ exposed' = exposed \cap Blocks(dChain'),
             UNCHANGED <<refs, transit, leaving, spoilt, cur, crashes, rec, todo, warned, missed>>,
             faults' \in 0..MaxFaults, faults' = 0 => faults = 0
      PROVE  RInv'
  <2>1. pc = "idle" /\ rec = "none" /\ transit = {} /\ todo = {} /\ missed = {}
    BY <1>5, <1>a DEF AtPrompt, Busy
  <2>2. content' \in [Block -> Group] /\ dsb' \in Super /\ dChain' \in Seq(Group)
    BY <1>a, <1>d, <1>5, WrittenBackTypes
  <2>3. exposed' \subseteq exposed
    BY <1>5
  <2>4. TypeOK' /\ Owners'
    <3>1. spoilt' => spoilt \/ crashes # 0 \/ faults' # 0
      BY <1>5
    <3> QED BY <1>a, <1>d, <1>5, <2>1, <2>2, <2>3, <3>1, AllocatorTypes
  <2>5. Busy'
    BY <1>5, <2>1 DEF Busy
  <2>6. ASSUME ~spoilt PROVE Sound' /\ Repairing' /\ Synced' /\ Flagged'
    <3>1. Chained(sb', chain', content') /\ Chained(dsb', dChain', content')
      <4>1. Chained(sb, chain, content') /\ Chained(dsb, dChain, content')
        BY <1>a, <1>5, <2>6, WrittenBackKeepsChains
      <4> QED BY <1>5, <4>1
    <3>2. (refs \cup transit') \cap (Blocks(chain') \cup Blocks(dChain')) \subseteq exposed'
      BY <1>c, <1>5, <2>1, <2>6
    <3>3. faults' = 0 => chain' = chain
      BY <1>5
    <3>4. Sound'
      BY <1>a, <1>5, <2>1, <2>6, <3>1, <3>2, <3>3, AllocatorSound
    <3>5. Repairing' /\ Synced'
      BY <1>5, <2>1 DEF Repairing, Synced
    <3>6. Flagged'
      <4> SUFFICES ASSUME faults' = 0, ~warned PROVE Accounted' /\ refs' \cap Blocks(chain') = {}
        BY <1>5 DEF Flagged
      <4>1. Accounted /\ Clear
        BY <1>c, <1>5, <2>1, <2>6 DEF Flagged
      <4>2. leaving = {}
        BY <1>a, <2>1 DEF Owners
      <4> QED BY <1>5, <3>3, <4>1, <4>2 DEF Accounted, Clear
    <3> QED BY <3>4, <3>5, <3>6
  <2> QED BY <1>i, <1>5, <2>4, <2>5, <2>6
<1>6. CASE Umount
  <2>1. /\ AtPrompt /\ content' = WrittenBack(dirty) /\ dirty' = {} /\ pc' = "down"
        /\ dsb' = sb /\ dChain' = chain
        /\ UNCHANGED <<sb, chain, exposed, refs, transit, leaving, spoilt, cur, crashes, rec, todo, warned,
                       missed, faults>>
    BY <1>6 DEF Umount, SuperSync
  <2>2. sb' = dsb' /\ chain' = dChain'
    BY <2>1
  <2> QED BY <1>5, <1>e, <2>1, <2>2
<1>7. CASE MarkCleanFails
  <2>1. /\ AtPrompt /\ content' = WrittenBack(dirty) /\ dirty' = {} /\ pc' = "down"
        /\ dsb' = sb /\ dChain' = chain /\ sb' = dsb' /\ chain' = dChain'
        /\ faults < MaxFaults /\ faults' = faults + 1 /\ exposed' = exposed \cap Blocks(dChain')
        /\ UNCHANGED <<refs, transit, leaving, spoilt, cur, crashes, rec, todo, warned, missed>>
    BY <1>7 DEF MarkCleanFails, EndsUnmounted, SuperSync
  <2> QED BY <1>5, <1>e, <2>1
<1>8. ASSUME NEW S \in SUBSET dirty, ShutdownFails(S) PROVE RInv'
  <2>1. /\ AtPrompt /\ content' = WrittenBack(S) /\ dirty' = {} /\ pc' = "down"
        /\ dsb' = dsb /\ dChain' = dChain /\ sb' = dsb' /\ chain' = dChain'
        /\ faults < MaxFaults /\ faults' = faults + 1 /\ exposed' = exposed \cap Blocks(dChain')
        /\ UNCHANGED <<refs, transit, leaving, spoilt, cur, crashes, rec, todo, warned, missed>>
    BY <1>8 DEF ShutdownFails, EndsUnmounted
  <2> QED BY <1>5, <1>e, <2>1
<1>9. CASE RecoverScan
  <2>1. /\ pc = "idle" /\ rec = "none" /\ transit = {} /\ sb' = dsb /\ chain' = dChain
        /\ todo' = Block \ (refs \cup RecoverFree(dsb, content)) /\ rec' = "leaks" /\ missed' = {}
        /\ exposed' = exposed \cap Blocks(dChain)
        /\ UNCHANGED <<dsb, content, dirty, refs, transit, leaving, spoilt, pc, cur, dChain, crashes,
                       faults, clean, warned>>
    BY <1>9 DEF RecoverScan, AtPrompt
  <2>2. TypeOK' /\ Owners'
    BY <1>a, <1>d, <1>e, <2>1, AllocatorTypes
  <2>3. Busy'
    BY <2>1 DEF Busy
  <2>4. ASSUME ~spoilt PROVE Sound' /\ Repairing' /\ Synced' /\ Flagged'
    <3>1. RecoverFree(dsb, content) = Blocks(dChain)
      BY <1>c, <2>4, WalkFinds DEF RecoverFree
    <3>2. faults = 0 => chain' = chain
      BY <1>c, <2>1, <2>4 DEF Synced
    <3>3. (refs \cup transit') \cap (Blocks(chain') \cup Blocks(dChain')) \subseteq exposed'
      BY <1>c, <2>1, <2>4
    <3>4. Sound'
      BY <1>a, <1>c, <1>e, <2>1, <2>4, <3>2, <3>3, AllocatorSound
    <3>5. Repairing' /\ Synced'
      BY <1>c, <1>d, <2>1, <2>4, <3>1 DEF Repairing, Synced
    <3>6. Flagged'
      <4> SUFFICES ASSUME faults = 0, ~warned PROVE Accounted' /\ Clear'
        BY <2>1 DEF Flagged
      <4>1. Accounted /\ Clear
        BY <1>c, <2>1, <2>4 DEF Flagged
      <4> QED BY <2>1, <3>2, <4>1 DEF Accounted, Clear
    <3> QED BY <3>4, <3>5, <3>6
  <2> QED BY <1>i, <2>1, <2>2, <2>3, <2>4
<1>10. ASSUME NEW b \in todo, RecoverFrees(b) PROVE RInv'
  <2>1. /\ rec = "leaks" /\ InternalFree(b) /\ todo' = todo \ {b} /\ rec' = "sync"
        /\ UNCHANGED <<dsb, refs, transit, leaving, exposed, spoilt, pc, cur, dChain, crashes, faults,
                       clean, warned, missed>>
    BY <1>10 DEF RecoverFrees
  <2>2. pc = "idle" /\ transit = {} /\ b \in Block
    BY <1>a, <1>d, <2>1 DEF Busy
  <2>3. /\ sb' \in Super /\ chain' \in Seq(Group)
        /\ content' \in [Block -> Group] /\ dirty' \subseteq dirty
    BY <1>a, <2>1, <2>2, InternalFreeTypes
  <2>4. TypeOK' /\ Owners'
    BY <1>a, <1>d, <1>e, <2>1, <2>2, <2>3, AllocatorTypes
  <2>5. Busy'
    BY <1>a, <2>1, <2>2 DEF Busy
  <2>6. ASSUME ~spoilt PROVE Sound' /\ Repairing' /\ Synced' /\ Flagged'
    <3>1. Block = refs \cup Blocks(chain) \cup todo \cup missed
      BY <1>c, <2>1, <2>6 DEF Repairing
    <3>2. b \notin refs /\ b \notin Blocks(chain) /\ b \notin Blocks(dChain)
      BY <1>c, <2>6 DEF Repairing
    <3>3. /\ Chained(sb', chain', content') /\ Chained(dsb, dChain, content')
          /\ Blocks(chain') = Blocks(chain) \cup {b} /\ dirty' = dirty \ {b}
      BY <1>a, <2>1, <2>2, <2>6, <3>2, FreedJoinsChain
    <3>4. Sound'
      <4>1. (refs \cup transit') \cap (Blocks(chain') \cup Blocks(dChain')) \subseteq exposed'
        BY <1>c, <2>1, <2>2, <2>6, <3>2, <3>3
      <4>2. dirty' \cap (Blocks(chain') \cup Blocks(dChain')) = {}
        BY <1>c, <2>1, <2>6, <3>3
      <4> QED BY <1>a, <1>e, <2>1, <2>2, <2>6, <3>3, <4>1, <4>2, AllocatorSound
    <3>6. Repairing' /\ Synced'
      BY <1>c, <2>1, <2>6, <3>1, <3>2, <3>3 DEF Repairing, Synced
    <3>7. Flagged'
      <4> SUFFICES ASSUME faults = 0, ~warned PROVE Accounted' /\ Clear'
        BY <2>1, <2>2 DEF Flagged
      <4>1. Accounted /\ Clear
        BY <1>c, <2>2, <2>6 DEF Flagged
      <4> QED BY <2>1, <2>2, <3>2, <3>3, <4>1 DEF Accounted, Clear
    <3> QED BY <3>4, <3>6, <3>7
  <2> QED BY <1>i, <2>1, <2>4, <2>5, <2>6
<1>11. ASSUME NEW b \in todo, RecoverStoreFails(b) PROVE RInv'
  <2>1. /\ rec = "leaks" /\ faults < MaxFaults /\ faults' = faults + 1
        /\ content' \in {content, [content EXCEPT ![b] = sb.group]}
        /\ dirty' = dirty \ {b} /\ todo' = todo \ {b} /\ missed' = missed \cup {b}
        /\ UNCHANGED <<sb, dsb, refs, transit, leaving, exposed, spoilt, pc, cur, chain, dChain, crashes,
                       rec, clean, warned>>
    BY <1>11 DEF RecoverStoreFails
  <2>2. pc = "idle" /\ transit = {} /\ b \in Block
    BY <1>a, <1>d, <2>1 DEF Busy
  <2>3. content' \in [Block -> Group]
    BY <1>d, <2>1 DEF Super
  <2>4. TypeOK' /\ Owners'
    BY <1>a, <1>d, <1>e, <2>1, <2>2, <2>3, AllocatorTypes
  <2>5. Busy'
    BY <1>a, <1>e, <2>1, <2>2 DEF Busy
  <2>6. ASSUME ~spoilt PROVE Sound' /\ Repairing' /\ Synced' /\ Flagged'
    <3>1. b \notin Blocks(chain) /\ b \notin Blocks(dChain)
      BY <1>c, <2>6 DEF Repairing
    <3>2. Chained(sb', chain', content') /\ Chained(dsb', dChain', content')
      <4>1. Chained(sb, chain, content') /\ Chained(dsb, dChain, content')
        <5>1. CASE content' = content
          BY <1>c, <2>6, <5>1
        <5>2. CASE content' = [content EXCEPT ![b] = sb.group]
          <6>1. /\ Chained(sb, chain, [content EXCEPT ![b] = sb.group])
                /\ Chained(dsb, dChain, [content EXCEPT ![b] = sb.group])
            BY <1>c, <1>d, <2>6, <3>1, WriteKeepsChain
          <6> QED BY <5>2, <6>1
        <5> QED BY <2>1, <5>1, <5>2
      <4> QED BY <2>1, <4>1
    <3>3. Sound'
      <4>1. dirty' \cap (Blocks(chain') \cup Blocks(dChain')) = {}
        BY <1>c, <2>1, <2>6
      <4> QED BY <1>a, <1>c, <1>e, <2>1, <2>2, <2>6, <3>2, <4>1, AllocatorSound
    <3> QED BY <1>c, <1>e, <2>1, <2>2, <2>6, <3>3 DEF Repairing, Synced, Flagged
  <2> QED BY <1>i, <2>1, <2>4, <2>5, <2>6
<1>12. CASE RecoverFreed
  <2>1. /\ rec = "sync" /\ rec' = "leaks"
        /\ UNCHANGED <<sb, content, dirty, refs, transit, leaving, exposed, spoilt, pc, cur, chain,
                       crashes, todo, clean, warned, missed>>
    BY <1>12 DEF RecoverFreed
  <2>2. \/ dsb' = sb /\ dChain' = chain /\ faults' = faults
        \/ /\ faults < MaxFaults /\ faults' = faults + 1
           /\ (dsb' = sb /\ dChain' = chain) \/ (dsb' = dsb /\ dChain' = dChain)
    BY <1>12 DEF RecoverFreed, SyncUnchecked, SuperSync
  <2>3. pc = "idle" /\ transit = {}
    BY <1>a, <2>1 DEF Busy
  <2>4. faults' \in 0..MaxFaults /\ (faults' = 0 => faults = 0 /\ dsb' = sb /\ dChain' = chain)
    BY <1>e, <2>2
  <2>5. TypeOK' /\ Owners'
    <3>1. dsb' \in Super /\ dChain' \in Seq(Group)
      BY <1>d, <2>2
    <3> QED BY <1>a, <1>d, <2>1, <2>3, <2>4, <3>1, AllocatorTypes
  <2>6. Busy'
    BY <1>a, <2>1, <2>3, <2>4 DEF Busy
  <2>7. ASSUME ~spoilt PROVE Sound' /\ Repairing' /\ Synced' /\ Flagged'
    <3>1. Chained(dsb', dChain', content') /\ Chained(sb', chain', content')
      BY <1>c, <2>1, <2>2, <2>7
    <3>2. Blocks(dChain') \subseteq Blocks(chain) \cup Blocks(dChain)
      BY <2>2
    <3>3. Sound'
      BY <1>a, <1>c, <2>1, <2>3, <2>4, <2>7, <3>1, <3>2, AllocatorSound
    <3>4. Repairing' /\ Synced'
      BY <1>c, <2>1, <2>3, <2>4, <2>7, <3>2 DEF Repairing, Synced
    <3>5. Flagged'
      <4> SUFFICES ASSUME faults' = 0, ~warned PROVE Accounted' /\ Clear'
        BY <2>1, <2>3 DEF Flagged
      <4>1. Accounted /\ Clear
        BY <1>c, <2>3, <2>4, <2>7 DEF Flagged
      <4> QED BY <2>1, <4>1 DEF Accounted, Clear
    <3> QED BY <3>3, <3>4, <3>5
  <2> QED BY <1>i, <2>1, <2>5, <2>6, <2>7
<1>13. CASE RecoverCount
  <2>1. /\ rec = "leaks" /\ todo = {} /\ rec' = "none" /\ warned' = FALSE /\ missed' = {}
        /\ UNCHANGED <<content, dirty, refs, transit, leaving, exposed, pc, cur, chain, crashes,
                       todo, clean>>
    BY <1>13 DEF RecoverCount
  <2>2. pc = "idle" /\ transit = {}
    BY <1>a, <2>1 DEF Busy
  <2>3. Busy'
    BY <2>1, <2>2 DEF Busy
  <2>4. CASE LeaveCount
    <3>1. UNCHANGED <<sb, dsb, dChain, spoilt, faults>> /\ sb.count = RightCount
      BY <2>4 DEF LeaveCount
    <3>2. TypeOK' /\ Owners'
      BY <1>a, <1>d, <1>e, <2>1, <2>2, <3>1, AllocatorTypes
    <3>3. ASSUME ~spoilt PROVE Sound' /\ Repairing' /\ Synced' /\ Flagged'
      <4>1. Sound'
        BY <1>a, <1>c, <1>e, <2>1, <2>2, <3>1, <3>3, AllocatorSound
      <4>2. Repairing' /\ Synced'
        BY <1>c, <2>1, <2>2, <3>1, <3>3 DEF Repairing, Synced
      <4>3. Flagged'
        <5> SUFFICES ASSUME faults = 0 PROVE Accounted' /\ Clear'
          BY <2>1, <2>2, <3>1 DEF Flagged
        <5>1. missed = {}
          BY <1>a DEF Busy
        <5>2. refs \cap Blocks(chain) = {}
          BY <2>1, <3>1, <3>3, <5>1, RightCountNoConflict
        <5>3. Block = refs \cup Blocks(chain) /\ cur = NoBlock
          BY <1>a, <1>c, <2>1, <2>2, <3>3, <5>1 DEF Repairing, Owners
        <5> QED BY <2>1, <2>2, <5>2, <5>3 DEF Accounted, Clear
      <4> QED BY <4>1, <4>2, <4>3
    <3> QED BY <1>i, <2>3, <3>1, <3>2, <3>3
  <2>5. CASE CorrectCount
    <3>1. /\ sb.count # RightCount /\ spoilt' = TRUE
          /\ sb' = [sb EXCEPT !.count = RightCount]
          /\ dsb' \in {dsb, sb'} /\ dChain' \in {chain, dChain}
          /\ faults' = faults \/ (faults < MaxFaults /\ faults' = faults + 1)
      BY <2>5 DEF CorrectCount
    <3>2. RightCount \in Nat
      <4>1. /\ Cardinality(Block) \in Nat /\ Cardinality(refs) \in Nat
            /\ Cardinality(refs) <= Cardinality(Block)
        BY <1>d, BlockCount
      <4> QED BY <4>1 DEF RightCount
    <3>3. sb' \in Super
      BY <1>d, <3>1, <3>2 DEF Super
    <3>4. dsb' \in Super /\ dChain' \in Seq(Group)
      BY <1>d, <3>1, <3>3
    <3>5. faults' \in 0..MaxFaults /\ (faults' = 0 => faults = 0)
      BY <1>e, <3>1
    <3>6. spoilt' => spoilt \/ crashes # 0 \/ faults' # 0
      BY <2>1, <3>1, <3>5, CorrectionNeedsDamage
    <3>7. TypeOK' /\ Owners'
      BY <1>a, <1>d, <2>1, <2>2, <3>1, <3>3, <3>4, <3>5, <3>6, AllocatorTypes
    <3> QED BY <1>i, <2>3, <3>1, <3>7
  <2> QED BY <1>13, <2>4, <2>5 DEF RecoverCount
<1>14. CASE UNCHANGED allVars
  <2>1. UNCHANGED vars /\ UNCHANGED <<rec, todo, clean, lost, warned, missed>>
    BY <1>14 DEF allVars, rvars
  <2>2. IInv'
    BY <1>a, <2>1, NextInv
  <2>3. UNCHANGED <<sb, dsb, refs, transit, leaving, spoilt, pc, cur, chain, dChain, faults>>
    BY <2>1 DEF vars
  <2>4. Busy' /\ (~spoilt => Repairing' /\ Synced' /\ Flagged')
    BY <1>a, <1>c, <2>1, <2>3 DEF Busy, Repairing, Synced, Flagged, Accounted, Clear
  <2> QED BY <1>b, <2>2, <2>3, <2>4 DEF RInv
<1> QED
  BY <1>1, <1>2, <1>3, <1>4, <1>6, <1>7, <1>8, <1>9, <1>10, <1>11, <1>12, <1>13, <1>14 DEF RNext

-----------------------------------------------------------------------------
(***************************************************************************)
(* What follows                                                            *)
(***************************************************************************)

\* The invariant holds in every state of every behaviour.
THEOREM RecoveryInvariant == RSpec => []RInv
  BY RecoveryInit, RecoveryNext, PTL DEF RSpec

\* The variables of mount and recovery keep their types, and so do the allocator's
\* under every command, also over a chain that is spoilt: the count that recover puts
\* into the superblock is never below zero, and no group holds anything but data blocks.
THEOREM RecoveryTypes == RSpec => [](RecoveryTypeOK /\ TypeOK)
<1>1. RInv => RecoveryTypeOK /\ TypeOK
  BY DEF RInv, MarkInv, IInv
<1> QED BY <1>1, RecoveryInvariant, PTL

\* The allocator's chains stay what they are through kills, mounts of any image, failed
\* unmounts and recoveries, until a block both free and recorded is used or recover
\* corrects the count (the condition the properties state); without a crash or a
\* failed write nothing is lost.
THEOREM RecoveryKeepsChains ==
    RSpec => [](TypeOK /\ ChainIntact /\ CrashImageIntact /\ NoDoubleUse /\ NothingLost)
<1>1. RInv => TypeOK /\ ChainIntact /\ CrashImageIntact /\ NoDoubleUse /\ NothingLost
  BY InvImplies DEF RInv, IInv
<1> QED BY <1>1, RecoveryInvariant, PTL

\* At every moment a crash can strike, the walk of fsck (fsck.cpp) finds in the image
\* just the free chain, so that it reports every leaked block and every block both
\* free and recorded, no other, and no error of the chain: until one of the second
\* kind is used, or the count has been corrected because of one.
THEOREM RecoveryFsckTellsTruth == RSpec => []FsckTellsTruth
<1>1. RInv => FsckTellsTruth
  <2> SUFFICES ASSUME RInv, ~spoilt
      PROVE  /\ Fsck(dsb, content, refs) =
                  [NoErrors EXCEPT !.leaked = Block \ (refs \cup Blocks(dChain)),
                                   !.conflicts = refs \cap Blocks(dChain)]
             /\ UsedInRange(dsb, content, Block) = Block \ Blocks(dChain)
    BY Zenon DEF FsckTellsTruth
  <2>1. Chained(dsb, dChain, content)
    BY InvChained DEF RInv
  <2>2. /\ Fsck(dsb, content, refs) = Report(Block \ (refs \cup Blocks(dChain)), refs \cap Blocks(dChain))
        /\ UsedInRange(dsb, content, Block) = Block \ Blocks(dChain)
    BY <2>1, FsckSays
  <2> QED BY <2>2, Zenon DEF Report
<1> QED BY <1>1, RecoveryInvariant, PTL

\* What recover corrects in the count (debug.cpp:610-617) is just the blocks it could
\* not free and the blocks both free and recorded.
THEOREM RecoveryCorrectionAccounted == RSpec => []CorrectionAccounted
<1>1. RInv => CorrectionAccounted
  BY CountDiffers DEF CorrectionAccounted
<1> QED BY <1>1, RecoveryInvariant, PTL

\* Where nothing is missing and nothing is both free and recorded there is nothing to
\* report.
LEMMA FsckFindsNothing ==
    ASSUME NEW s, NEW c, NEW contents, Chained(s, c, contents), NEW recorded,
           Block \ (recorded \cup Blocks(c)) = {}, recorded \cap Blocks(c) = {}
    PROVE  Fsck(s, contents, recorded) = NoErrors
<1>1. Fsck(s, contents, recorded) = Report(Block \ (recorded \cup Blocks(c)), recorded \cap Blocks(c))
  BY FsckSays
<1>2. Fsck(s, contents, recorded) = Report({}, {})
  BY <1>1
<1> QED BY <1>2, ReportFields, Zenon DEF NoErrors

\* Blocks a kill has leaked or left both free and recorded are announced by the mark,
\* or a mount has warned and recover was not run since (mount.cpp:159, 332-340): until
\* such a block is used, or recover has corrected the count and left the block.
THEOREM RecoveryDamageIsFlagged == RSpec => []DamageIsFlagged
<1>1. RInv => DamageIsFlagged
  <2> SUFFICES ASSUME RInv, ~spoilt, pc = "down", faults = 0, clean, ~warned
      PROVE  Fsck(dsb, content, refs) = NoErrors
    BY DEF DamageIsFlagged
  <2>1. Chained(dsb, dChain, content)
    BY InvChained DEF RInv
  <2>2. chain = dChain /\ transit = {} /\ cur = NoBlock
    BY DEF RInv, IInv, Owners
  <2>3. Accounted /\ refs \cap Blocks(chain) = {}
    BY DEF RInv, Flagged
  <2>4. Block \ (refs \cup Blocks(dChain)) = {} /\ refs \cap Blocks(dChain) = {}
    BY <2>2, <2>3 DEF Accounted
  <2> QED BY <2>1, <2>4, FsckFindsNothing
<1> QED BY <1>1, RecoveryInvariant, PTL

\* When recover is over, however often it was killed on the way, a second check finds
\* nothing (README.md:1207) and, unless a write failed, the repair is in the image:
\* from an image without a block both free and recorded, and if no leaked block had
\* to be given up.
THEOREM RecoveryRepairs == RSpec => RecoverRepairs
<1>1. ASSUME RInv, RInv', [RNext]_allVars, RecoverEnds, ~spoilt, missed = {},
             refs \cap Blocks(chain) = {}
      PROVE  Fsck(sb', content', refs') = NoErrors /\ (dsb' = sb' \/ faults' > 0)
  <2>0. rec = "leaks" /\ rec' = "none" /\ pc' = pc
    BY <1>1 DEF RecoverEnds
  <2>1. pc = "idle"
    BY <1>1, <2>0 DEF RInv, Busy
  <2>2. RecoverCount
    <3>1. ASSUME NEW b, \/ Operate \/ Leak(b) \/ Remount \/ Umount \/ MarkCleanFails \/ ShutdownFails(b)
                        \/ RecoverScan
          PROVE  FALSE
      BY <2>0, <2>1, <3>1
         DEF Operate, Leak, Remount, Mount, Umount, MarkCleanFails, ShutdownFails, EndsUnmounted,
             AtPrompt, RecoverScan
    <3>2. ASSUME NEW b, Kill \/ RecoverFrees(b) \/ RecoverStoreFails(b) \/ RecoverFreed \/ UNCHANGED allVars
          PROVE  FALSE
      BY <2>0, <2>1, <3>2 DEF Kill, Crash, RecoverFrees, RecoverStoreFails, RecoverFreed, allVars, rvars
    <3> QED BY <1>1, <3>1, <3>2 DEF RNext
  <2>3. todo = {} /\ UNCHANGED <<refs, chain, pc>>
    BY <2>2 DEF RecoverCount
  <2>4. Block = refs \cup Blocks(chain)
    BY <1>1, <2>0, <2>3 DEF RInv, Repairing
  <2>5. ~spoilt'
    <3>1. sb.count = RightCount
      BY <1>1, <2>0, <2>3, RightCountNoConflict
    <3> QED BY <1>1, <2>2, <3>1 DEF RecoverCount, LeaveCount, CorrectCount
  <2>6. Chained(sb', chain', content')
    BY <1>1, <2>5 DEF RInv, IInv, Sound
  <2>7. Block \ (refs' \cup Blocks(chain')) = {} /\ refs' \cap Blocks(chain') = {}
    BY <1>1, <2>3, <2>4
  <2>8. Fsck(sb', content', refs') = NoErrors
    BY <2>6, <2>7, FsckFindsNothing
  <2>9. faults' = 0 => dsb' = sb'
    BY <1>1, <2>0, <2>1, <2>3, <2>5 DEF RInv, Synced
  <2>10. faults' # 0 => faults' > 0
    <3>1. faults' \in 0..MaxFaults /\ MaxFaults \in Nat
      BY <1>1, GroupAssumption DEF RInv, IInv, TypeOK
    <3> QED BY <3>1
  <2> QED BY <2>8, <2>9, <2>10
<1>2. RInv /\ RInv' /\ [RNext]_allVars =>
        [RecoverEnds /\ ~spoilt /\ missed = {} /\ refs \cap Blocks(chain) = {} =>
            /\ Fsck(sb', content', refs') = NoErrors
            /\ dsb' = sb' \/ faults' > 0]_allVars
  BY <1>1
<1> QED BY <1>2, RecoveryInvariant, PTL DEF RSpec, RecoverRepairs
=============================================================================
