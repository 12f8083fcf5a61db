----------------------------- MODULE CacheProofs -----------------------------
(***************************************************************************)
(* Proofs about Cache.tla, for every set of blocks, of contents and of     *)
(* capacities.  First the lemmas on the recency list, then the inductive   *)
(* invariant, then the refinement of BlockStore.                           *)
(***************************************************************************)
EXTENDS Cache, SequenceTheorems, FiniteSetTheorems, TLAPS

-----------------------------------------------------------------------------
(***************************************************************************)
(* The recency list                                                        *)
(***************************************************************************)

\* A list names finitely many blocks.
LEMMA RangeIsFinite ==
    ASSUME NEW S, NEW s \in Seq(S)
    PROVE  IsFiniteSet(Range(s))
<1>1. /\ Len(s) \in Nat
      /\ DOMAIN s = 1..Len(s)
  BY LenProperties
<1>2. IsFiniteSet(1..Len(s))
  BY <1>1, FS_Interval
<1>3. s \in Surjection(1..Len(s), Range(s))
  BY <1>1 DEF Surjection, Range
<1> QED BY <1>2, <1>3, FS_Surjection

\* Putting a new block in front of a list without repetitions.
LEMMA PutInFront ==
    ASSUME NEW S, NEW s \in Seq(S), NEW b \in S, b \notin Range(s), IsInjective(s)
    PROVE  /\ <<b>> \o s \in Seq(S)
           /\ IsInjective(<<b>> \o s)
           /\ Range(<<b>> \o s) = {b} \cup Range(s)
<1> DEFINE t == <<b>> \o s
<1>1. /\ Len(s) \in Nat
      /\ DOMAIN s = 1..Len(s)
  BY LenProperties
<1>2. /\ t \in Seq(S)
      /\ DOMAIN t = 1..(Len(s) + 1)
      /\ t[1] = b
      /\ \A i \in 2..(Len(s) + 1) : t[i] = s[i - 1]
  BY <1>1
<1>3. IsInjective(t)
  <2> SUFFICES ASSUME NEW i \in DOMAIN t, NEW j \in DOMAIN t, t[i] = t[j]
               PROVE  i = j
    BY DEF IsInjective
  <2>1. ASSUME NEW n \in 2..(Len(s) + 1) PROVE n - 1 \in DOMAIN s /\ t[n] = s[n - 1]
    BY <1>1, <1>2
  <2>2. ASSUME NEW n \in 2..(Len(s) + 1) PROVE t[n] # b
    BY <2>1 DEF Range
  <2>3. CASE i = 1 \/ j = 1
    BY <1>1, <1>2, <2>2, <2>3
  <2>4. CASE i # 1 /\ j # 1
    <3>1. i \in 2..(Len(s) + 1) /\ j \in 2..(Len(s) + 1)
      BY <1>1, <1>2, <2>4
    <3>2. i - 1 = j - 1
      BY <2>1, <3>1 DEF IsInjective
    <3> QED BY <3>1, <3>2
  <2> QED BY <2>3, <2>4
<1>4. Range(t) = {b} \cup Range(s)
  <2>1. Range(t) \subseteq {b} \cup Range(s)
    <3> SUFFICES ASSUME NEW i \in DOMAIN t PROVE t[i] \in {b} \cup Range(s)
      BY DEF Range
    <3>1. CASE i = 1
      BY <1>2, <3>1
    <3>2. CASE i # 1
      BY <1>1, <1>2, <3>2 DEF Range
    <3> QED BY <3>1, <3>2
  <2>2. ASSUME NEW i \in DOMAIN s PROVE s[i] \in Range(t)
    <3>1. i + 1 \in DOMAIN t /\ t[i + 1] = s[i]
      BY <1>1, <1>2
    <3> QED BY <3>1 DEF Range
  <2>3. b \in Range(t)
    <3>1. 1 \in DOMAIN t
      BY <1>1, <1>2
    <3> QED BY <1>2, <3>1 DEF Range
  <2>4. Range(s) \subseteq Range(t)
    BY <2>2 DEF Range
  <2> QED BY <2>1, <2>3, <2>4
<1> QED BY <1>2, <1>3, <1>4

\* Taking one block out of a list without repetitions.
LEMMA TakeOut ==
    ASSUME NEW S, NEW s \in Seq(S), NEW i \in DOMAIN s, IsInjective(s)
    PROVE  /\ RemoveAt(s, i) \in Seq(S)
           /\ IsInjective(RemoveAt(s, i))
           /\ Range(RemoveAt(s, i)) = Range(s) \ {s[i]}
<1> DEFINE t == RemoveAt(s, i)
<1>1. /\ Len(s) \in Nat
      /\ DOMAIN s = 1..Len(s)
      /\ i \in 1..Len(s)
      /\ \A n \in 1..Len(s) : s[n] \in S
  BY LenProperties
<1> DEFINE u == SubSeq(s, 1, i - 1)
           v == SubSeq(s, i + 1, Len(s))
<1>2. /\ u \in Seq(S)
      /\ Len(u) = i - 1
      /\ \A n \in 1..(i - 1) : u[n] = s[n]
  BY <1>1
<1>3. /\ v \in Seq(S)
      /\ Len(v) = Len(s) - i
      /\ \A n \in 1..(Len(s) - i) : v[n] = s[i + n]
  <2>1. /\ i + 1 \in Int /\ Len(s) \in Int
        /\ \A n \in (i + 1)..Len(s) : s[n] \in S
    BY <1>1
  <2>2. /\ v \in Seq(S)
        /\ Len(v) = IF i + 1 <= Len(s) THEN Len(s) - (i + 1) + 1 ELSE 0
        /\ \A n \in 1..(Len(s) - (i + 1) + 1) : v[n] = s[(i + 1) + n - 1]
    BY <2>1, SubSeqProperties
  <2>3. Len(s) - (i + 1) + 1 = Len(s) - i
    BY <1>1
  <2>4. \A n \in 1..(Len(s) - i) : (i + 1) + n - 1 = i + n
    BY <1>1
  <2> HIDE DEF v
  <2> QED BY <1>1, <2>2, <2>3, <2>4
<1>4. /\ t \in Seq(S)
      /\ DOMAIN t = 1..(Len(s) - 1)
      /\ \A n \in 1..(Len(s) - 1) : t[n] = IF n < i THEN s[n] ELSE s[n + 1]
  <2>1. /\ t \in Seq(S)
        /\ Len(t) = Len(s) - 1
        /\ \A n \in 1..(Len(s) - 1) : t[n] = IF n <= i - 1 THEN u[n] ELSE v[n - (i - 1)]
    <3>1. t = u \o v
      BY DEF RemoveAt
    <3> HIDE DEF t, u, v
    <3>2. /\ t \in Seq(S)
          /\ Len(t) = Len(u) + Len(v)
          /\ \A n \in 1..(Len(u) + Len(v)) : t[n] = IF n <= Len(u) THEN u[n] ELSE v[n - Len(u)]
      BY <1>2, <1>3, <3>1, ConcatProperties
    <3>3. Len(u) + Len(v) = Len(s) - 1
      BY <1>1, <1>2, <1>3
    <3> QED BY <1>2, <3>2, <3>3
  <2> HIDE DEF t, u, v
  <2>2. ASSUME NEW n \in 1..(Len(s) - 1)
        PROVE  t[n] = IF n < i THEN s[n] ELSE s[n + 1]
    <3>1. CASE n < i
      BY <1>1, <1>2, <2>1, <3>1
    <3>2. CASE ~(n < i)
      <4>1. n - (i - 1) \in 1..(Len(s) - i) /\ i + (n - (i - 1)) = n + 1
        BY <1>1, <3>2
      <4>2. v[n - (i - 1)] = s[n + 1]
        BY <1>3, <4>1
      <4>3. t[n] = v[n - (i - 1)]
        BY <1>1, <2>1, <3>2
      <4> QED BY <3>2, <4>2, <4>3
    <3> QED BY <3>1, <3>2
  <2> QED BY <1>1, <2>1, <2>2, LenProperties
<1> DEFINE old(n) == IF n < i THEN n ELSE n + 1
<1> HIDE DEF t, u, v
<1>5. ASSUME NEW n \in DOMAIN t PROVE old(n) \in DOMAIN s \ {i} /\ t[n] = s[old(n)]
  BY <1>1, <1>4
<1>6. ASSUME NEW m \in DOMAIN s \ {i} PROVE \E n \in DOMAIN t : m = old(n)
  <2>1. CASE m < i
    <3>1. m \in DOMAIN t /\ m = old(m)
      BY <1>1, <1>4, <2>1
    <3> QED BY <3>1
  <2>2. CASE m > i
    <3>1. m - 1 \in DOMAIN t /\ m = old(m - 1)
      BY <1>1, <1>4, <2>2
    <3> QED BY <3>1
  <2> QED BY <1>1, <2>1, <2>2
<1>7. IsInjective(t)
  <2> SUFFICES ASSUME NEW m \in DOMAIN t, NEW n \in DOMAIN t, t[m] = t[n]
               PROVE  m = n
    BY DEF IsInjective
  <2>1. old(m) = old(n)
    BY <1>5 DEF IsInjective
  <2> QED BY <1>1, <1>4, <2>1
<1>8. Range(t) = Range(s) \ {s[i]}
  <2>1. Range(t) \subseteq Range(s) \ {s[i]}
    BY <1>5 DEF Range, IsInjective
  <2>2. Range(s) \ {s[i]} \subseteq Range(t)
    BY <1>5, <1>6 DEF Range
  <2> QED BY <2>1, <2>2
<1> QED BY <1>4, <1>7, <1>8 DEF t

\* Eviction takes the last block out.
LEMMA TakeOutLast ==
    ASSUME NEW S, NEW s \in Seq(S), s # << >>, IsInjective(s)
    PROVE  /\ Front(s) \in Seq(S)
           /\ IsInjective(Front(s))
           /\ Last(s) \in S
           /\ Range(Front(s)) = Range(s) \ {Last(s)}
<1>1. Len(s) \in Nat /\ DOMAIN s = 1..Len(s) /\ Len(s) \in DOMAIN s
  BY LenProperties, EmptySeq
<1>2. RemoveAt(s, Len(s)) = Front(s)
  <2>1. /\ SubSeq(s, 1, Len(s) - 1) \in Seq(S)
        /\ SubSeq(s, Len(s) + 1, Len(s)) = << >>
    BY <1>1
  <2> QED BY <2>1, ConcatEmptySeq DEF RemoveAt, Front
<1> QED BY <1>1, <1>2, TakeOut DEF Last

-----------------------------------------------------------------------------
(***************************************************************************)
(* The inductive invariant.  Shape is what the operators of the cache keep *)
(* between them; what reply says of it is added per action.                *)
(***************************************************************************)

Shape ==
    /\ disk \in [Block -> Value]
    /\ initialized \in BOOLEAN
    /\ capacity \in Capacities \cup {0}
    /\ initialized <=> capacity # 0
    /\ Cached \subseteq Block
    /\ cacheMap \in [Cached -> Entry]
    /\ lruList \in Seq(Block)
    /\ LruConsistent
    /\ stale \subseteq Clean
    /\ CleanMatchesDisk

ReplyOK == reply \in Value \cup Status /\ SyncedIsDurable

IInv == Shape /\ ReplyOK

\* A call makes no copy stale, so that it is enough to look at the copies that
\* are not stale before it.
LEMMA CleanKept ==
    ASSUME StaleKept,
           \A c \in Cached' : ~cacheMap'[c].dirty /\ c \notin stale => cacheMap'[c].data = disk'[c]
    PROVE  /\ stale' \subseteq Clean'
           /\ CleanMatchesDisk'
BY DEF StaleKept, CleanMatchesDisk, Clean, Dirty

\* The number of cached blocks is a number, and nothing is cached while the
\* cache is not initialised.
LEMMA CachedIsFinite ==
    ASSUME Shape
    PROVE  /\ IsFiniteSet(Cached)
           /\ Cardinality(Cached) \in Nat
           /\ capacity \in Nat
           /\ ~initialized => Cached = {}
<1>1. IsFiniteSet(Cached)
  BY RangeIsFinite DEF Shape, LruConsistent
<1>2. capacity \in Nat
  BY CacheAssumption DEF Shape
<1>3. Cardinality(Cached) \in Nat
  BY <1>1, FS_CardinalityType
<1>4. ASSUME ~initialized PROVE Cached = {}
  <2>1. capacity = 0 /\ Cardinality(Cached) <= 0
    BY <1>4 DEF Shape, LruConsistent
  <2> QED BY <1>1, <1>3, <2>1, FS_EmptySet
<1> QED BY <1>1, <1>2, <1>3, <1>4

\* ensure_capacity always finds a victim when the cache is full, and there is
\* room for one more block afterwards.
LEMMA RoomIsMade ==
    ASSUME Shape, initialized
    PROVE  /\ Evicted \subseteq Cached
           /\ KeptList \in Seq(Block)
           /\ IsInjective(KeptList)
           /\ Range(KeptList) = Cached \ Evicted
           /\ IsFiniteSet(Cached \ Evicted)
           /\ Cardinality(Cached \ Evicted) < capacity
           /\ Cardinality(Cached \ Evicted) \in Nat
<1>1. /\ IsFiniteSet(Cached)
      /\ Cardinality(Cached) \in Nat
      /\ capacity \in Nat \ {0}
      /\ Cardinality(Cached) <= capacity
      /\ lruList \in Seq(Block)
      /\ IsInjective(lruList)
      /\ Range(lruList) = Cached
  BY CachedIsFinite DEF Shape, LruConsistent
<1>2. CASE Cardinality(Cached) >= capacity
  <2>1. lruList # << >>
    <3>1. Cached # {}
      BY <1>1, <1>2, FS_EmptySet
    <3> QED BY <1>1, <3>1 DEF Range
  <2>2. /\ Front(lruList) \in Seq(Block)
        /\ IsInjective(Front(lruList))
        /\ Last(lruList) \in Cached
        /\ Range(Front(lruList)) = Cached \ {Last(lruList)}
    <3>1. Last(lruList) \in Range(lruList)
      <4>1. Len(lruList) \in DOMAIN lruList
        BY <1>1, <2>1, LenProperties, EmptySeq
      <4> QED BY <4>1 DEF Last, Range
    <3> QED BY <1>1, <2>1, <3>1, TakeOutLast
  <2>3. Evicted = {Last(lruList)} /\ KeptList = Front(lruList)
    BY <1>2 DEF Evicted, KeptList
  <2>4. /\ IsFiniteSet(Cached \ Evicted)
        /\ Cardinality(Cached \ Evicted) = Cardinality(Cached) - 1
    BY <1>1, <2>2, <2>3, FS_RemoveElement
  <2> QED BY <1>1, <1>2, <2>2, <2>3, <2>4
<1>3. CASE ~(Cardinality(Cached) >= capacity)
  <2>1. Evicted = {} /\ KeptList = lruList /\ Cached \ Evicted = Cached
    BY <1>3 DEF Evicted, KeptList
  <2> QED BY <1>1, <1>3, <2>1
<1> QED BY <1>2, <1>3

\* A miss that succeeds: the block inserted is clean only if the disk has its
\* content, and the blocks evicted are written if they are dirty.
LEMMA InsertKeepsShape ==
    ASSUME Shape, initialized,
           NEW b \in Block, b \notin Cached,
           NEW e \in Entry, ~e.dirty => e.data = disk[b],
           Insert(b, e), StaleKept
    PROVE  Shape'
<1>1. /\ Evicted \subseteq Cached
      /\ KeptList \in Seq(Block)
      /\ IsInjective(KeptList)
      /\ Range(KeptList) = Cached \ Evicted
      /\ IsFiniteSet(Cached \ Evicted)
      /\ Cardinality(Cached \ Evicted) < capacity
      /\ Cardinality(Cached \ Evicted) \in Nat
      /\ capacity \in Nat
  BY RoomIsMade, CachedIsFinite
<1> DEFINE Kept == Cached \ Evicted
<1>2. /\ cacheMap' = [c \in Kept \cup {b} |-> IF c = b THEN e ELSE cacheMap[c]]
      /\ Cached' = Kept \cup {b}
  BY DEF Insert, Cached
<1>3. disk' = [c \in Block |-> IF c \in Evicted \cap Dirty THEN cacheMap[c].data ELSE disk[c]]
  BY DEF Insert, Written
<1>4. /\ lruList' \in Seq(Block)
      /\ IsInjective(lruList')
      /\ Range(lruList') = Kept \cup {b}
  <2>1. lruList' = <<b>> \o KeptList /\ b \notin Range(KeptList)
    BY <1>1 DEF Insert
  <2> QED BY <1>1, <2>1, PutInFront
<1>5. Cardinality(Kept \cup {b}) <= capacity
  <2>1. Cardinality(Kept \cup {b}) = Cardinality(Kept) + 1
    BY <1>1, FS_AddElement
  <2> QED BY <1>1, <2>1
<1>6. LruConsistent'
  BY <1>2, <1>4, <1>5 DEF LruConsistent, Insert
<1>7. disk' \in [Block -> Value] /\ Cached' \subseteq Block /\ cacheMap' \in [Cached' -> Entry]
  <2>1. Cached \subseteq Block /\ cacheMap \in [Cached -> Entry] /\ disk \in [Block -> Value]
    BY DEF Shape
  <2>2. disk' \in [Block -> Value]
    BY <1>1, <1>3, <2>1 DEF Entry
  <2>3. cacheMap' \in [Cached' -> Entry]
    BY <1>2, <2>1
  <2> QED BY <1>2, <2>1, <2>2, <2>3
<1>8. stale' \subseteq Clean' /\ CleanMatchesDisk'
  <2> SUFFICES ASSUME NEW c \in Cached', ~cacheMap'[c].dirty, c \notin stale
               PROVE  cacheMap'[c].data = disk'[c]
    BY CleanKept
  <2>1. CASE c = b
    BY <1>1, <1>2, <1>3, <2>1
  <2>2. CASE c # b
    <3>1. c \in Cached /\ c \notin Evicted /\ cacheMap'[c] = cacheMap[c] /\ disk'[c] = disk[c]
      BY <1>2, <1>3, <2>2 DEF Shape
    <3> QED BY <3>1 DEF Shape, CleanMatchesDisk, Clean, Dirty
  <2> QED BY <2>1, <2>2
<1> QED BY <1>4, <1>6, <1>7, <1>8 DEF Shape, Insert

\* The list without b, for a cached block.
LEMMA WithoutIsExact ==
    ASSUME Shape, NEW b \in Cached
    PROVE  /\ Without(b) \in Seq(Block)
           /\ IsInjective(Without(b))
           /\ Range(Without(b)) = Cached \ {b}
<1>1. Position(b) \in DOMAIN lruList /\ lruList[Position(b)] = b
  <2>1. \E i \in DOMAIN lruList : lruList[i] = b
    BY DEF Shape, LruConsistent, Range
  <2> QED BY <2>1 DEF Position
<1> QED BY <1>1, TakeOut DEF Without, Shape, LruConsistent

\* A hit moves a block to the front of the list.
LEMMA TouchKeepsList ==
    ASSUME Shape, NEW b \in Cached
    PROVE  /\ Touched(b) \in Seq(Block)
           /\ IsInjective(Touched(b))
           /\ Range(Touched(b)) = Cached
<1>1. b \in Block /\ b \notin Range(Without(b))
  BY WithoutIsExact DEF Shape
<1>2. /\ Touched(b) \in Seq(Block)
      /\ IsInjective(Touched(b))
      /\ Range(Touched(b)) = {b} \cup Range(Without(b))
  BY <1>1, WithoutIsExact, PutInFront DEF Touched
<1> QED BY <1>2, WithoutIsExact

\* A block may be forgotten whatever the image holds of it.
LEMMA ForgetKeepsShape ==
    ASSUME Shape, NEW b \in Block, Forget(b), StaleKept,
           disk' \in [Block -> Value],
           \A c \in Block \ {b} : disk'[c] = disk[c]
    PROVE  Shape'
<1>1. Cached' = Cached \ {b} /\ \A c \in Cached' : cacheMap'[c] = cacheMap[c]
  BY DEF Forget, Restrict, Cached
<1>2. lruList' \in Seq(Block) /\ IsInjective(lruList') /\ Range(lruList') = Cached'
  <2>1. CASE b \in Cached
    BY <1>1, <2>1, WithoutIsExact DEF Forget
  <2>2. CASE b \notin Cached
    BY <1>1, <2>2 DEF Forget, Shape, LruConsistent
  <2> QED BY <2>1, <2>2
<1>3. Cardinality(Cached') <= capacity
  <2>1. /\ IsFiniteSet(Cached) /\ Cardinality(Cached) \in Nat /\ capacity \in Nat
        /\ Cardinality(Cached) <= capacity
    BY CachedIsFinite DEF Shape, LruConsistent
  <2>2. Cardinality(Cached') <= Cardinality(Cached) /\ Cardinality(Cached') \in Nat
    BY <1>1, <2>1, FS_Subset, FS_CardinalityType
  <2> QED BY <2>1, <2>2
<1>4. Cached' \subseteq Block /\ cacheMap' \in [Cached' -> Entry]
  <2>1. cacheMap' = [c \in Cached \ {b} |-> cacheMap[c]]
    BY DEF Forget, Restrict
  <2> QED BY <1>1, <2>1 DEF Shape
<1>5. stale' \subseteq Clean' /\ CleanMatchesDisk'
  BY <1>1, <1>4, CleanKept DEF CleanMatchesDisk, Clean, Dirty, Shape
<1>6. LruConsistent'
  BY <1>2, <1>3 DEF LruConsistent, Forget
<1> QED BY <1>2, <1>4, <1>5, <1>6 DEF Shape, Forget

\* Any write-back of cached blocks, partial or complete, that marks clean only
\* blocks that reached the disk.
LEMMA CleaningKeepsShape ==
    ASSUME Shape,
           NEW S, NEW T, S \subseteq T, T \subseteq Dirty,
           disk' = Written(T), cacheMap' = Cleaned(S),
           UNCHANGED <<initialized, capacity, lruList>>, StaleKept
    PROVE  Shape'
<1>1. Cached' = Cached
  BY DEF Cleaned, Cached
<1>2. Cached \subseteq Block /\ cacheMap \in [Cached -> Entry] /\ disk \in [Block -> Value]
  BY DEF Shape
<1>3. \A c \in Cached : /\ cacheMap'[c].data = cacheMap[c].data
                        /\ cacheMap'[c].dirty <=> cacheMap[c].dirty /\ c \notin S
  BY DEF Cleaned
<1>4. disk' \in [Block -> Value] /\ cacheMap' \in [Cached' -> Entry]
  <2>1. disk' \in [Block -> Value]
    BY <1>2 DEF Written, Dirty, Entry
  <2>2. cacheMap' \in [Cached' -> Entry]
    BY <1>1, <1>2 DEF Cleaned, Entry
  <2> QED BY <2>1, <2>2
<1>5. stale' \subseteq Clean' /\ CleanMatchesDisk'
  <2> SUFFICES ASSUME NEW c \in Cached, ~cacheMap'[c].dirty, c \notin stale
               PROVE  cacheMap'[c].data = disk'[c]
    BY <1>1, CleanKept
  <2>1. c \in Block /\ disk'[c] = IF c \in T THEN cacheMap[c].data ELSE disk[c]
    BY <1>2 DEF Written
  <2>2. CASE c \in T
    BY <1>3, <2>1, <2>2
  <2>3. CASE c \notin T
    BY <1>3, <2>1, <2>3 DEF Shape, CleanMatchesDisk, Clean, Dirty
  <2> QED BY <2>2, <2>3
<1>6. LruConsistent'
  BY <1>1 DEF LruConsistent, Shape
<1> QED BY <1>1, <1>2, <1>4, <1>5, <1>6 DEF Shape

\* What is left when the cache is emptied, whatever the image holds.
LEMMA EmptyCacheHasShape ==
    ASSUME disk' \in [Block -> Value], cacheMap' = << >>, lruList' = << >>, StaleKept,
           \/ initialized' = FALSE /\ capacity' = 0
           \/ initialized' = TRUE /\ capacity' \in Capacities
    PROVE  Shape'
<1>1. Cached' = {} /\ cacheMap' \in [Cached' -> Entry]
  BY DEF Cached
<1>2. capacity' \in Nat /\ (initialized' <=> capacity' # 0) /\ capacity' \in Capacities \cup {0}
  <2>1. CASE initialized' = FALSE /\ capacity' = 0
    BY <2>1
  <2>2. CASE initialized' = TRUE /\ capacity' \in Capacities
    BY <2>2, CacheAssumption
  <2> QED BY <2>1, <2>2
<1>3. LruConsistent'
  <2>1. IsInjective(lruList') /\ Range(lruList') = {}
    BY DEF IsInjective, Range
  <2>2. Cardinality(Cached') <= capacity'
    BY <1>1, <1>2, FS_EmptySet
  <2> QED BY <1>1, <2>1, <2>2 DEF LruConsistent
<1>4. stale' \subseteq Clean' /\ CleanMatchesDisk'
  BY <1>1, CleanKept
<1>5. << >> \in Seq(Block)
  OBVIOUS
<1> QED BY <1>1, <1>2, <1>3, <1>4, <1>5 DEF Shape
-----------------------------------------------------------------------------
\* The invariant holds of the image found at start-up...
LEMMA InitEstablishes == Init => IInv
<1> SUFFICES ASSUME Init PROVE IInv
  OBVIOUS
<1>1. Cached = {} /\ cacheMap \in [Cached -> Entry]
  BY DEF Init, Cached
<1>2. LruConsistent
  <2>1. IsInjective(lruList) /\ Range(lruList) = {}
    BY DEF Init, IsInjective, Range
  <2> QED BY <1>1, <2>1, FS_EmptySet DEF LruConsistent, Init
<1>3. stale \subseteq Clean /\ CleanMatchesDisk
  BY <1>1 DEF CleanMatchesDisk, Clean, Init
<1>4. << >> \in Seq(Block)
  OBVIOUS
<1>5. Shape
  BY <1>1, <1>2, <1>3, <1>4 DEF Shape, Init
<1>6. ReplyOK
  BY DEF ReplyOK, SyncedIsDurable, Init, Status
<1> QED BY <1>5, <1>6 DEF IInv

\* ... and a reply that is not "synced" asks nothing of the disk.
LEMMA OtherReplies ==
    ASSUME reply' \in Value \cup (Status \ {"synced"})
    PROVE  ReplyOK'
BY CacheAssumption DEF ReplyOK, SyncedIsDurable, Status

\* A write-back of cached blocks writes the image block by block.
LEMMA WrittenIsAnImage ==
    ASSUME Shape, NEW T \in SUBSET Dirty
    PROVE  Written(T) \in [Block -> Value]
BY DEF Shape, Written, Dirty, Entry

\* A miss that fails after it has made room.
LEMMA EvictionKeepsShape ==
    ASSUME Shape, initialized,
           disk' = Written(Evicted \cap Dirty), cacheMap' = KeptMap, lruList' = KeptList,
           UNCHANGED <<initialized, capacity>>, StaleKept
    PROVE  Shape'
<1>1. /\ Evicted \subseteq Cached
      /\ KeptList \in Seq(Block)
      /\ IsInjective(KeptList)
      /\ Range(KeptList) = Cached \ Evicted
      /\ Cardinality(Cached \ Evicted) <= capacity
  BY RoomIsMade, CachedIsFinite
<1>2. /\ Cached' = Cached \ Evicted
      /\ cacheMap' = [c \in Cached \ Evicted |-> cacheMap[c]]
  BY DEF KeptMap, Restrict, Cached
<1>3. disk' \in [Block -> Value] /\ \A c \in Block \ Evicted : disk'[c] = disk[c]
  BY WrittenIsAnImage DEF Written
<1>4. Cached' \subseteq Block /\ cacheMap' \in [Cached' -> Entry]
  BY <1>2 DEF Shape
<1>5. stale' \subseteq Clean' /\ CleanMatchesDisk'
  BY <1>2, <1>3, CleanKept DEF CleanMatchesDisk, Clean, Dirty, Shape
<1>6. LruConsistent'
  BY <1>1, <1>2 DEF LruConsistent
<1> QED BY <1>1, <1>3, <1>4, <1>5, <1>6 DEF Shape

\* A write-back that stops at a failing write.
LEMMA FailedWriteBackKeeps ==
    ASSUME IInv, NEW S \in SUBSET Dirty, NEW b \in Dirty, WriteBackFails(S, b), StaleKept
    PROVE  IInv'
<1>1. PICK T \in {S, S \cup {b}} : disk' = Written(T)
  BY DEF WriteBackFails
<1>2. S \subseteq T /\ T \subseteq Dirty
  OBVIOUS
<1>3. Shape'
  BY <1>1, <1>2, CleaningKeepsShape DEF WriteBackFails, IInv
<1>4. ReplyOK'
  BY OtherReplies DEF WriteBackFails, Status
<1> QED BY <1>3, <1>4 DEF IInv

\* Each operation on one block keeps the invariant...
LEMMA BlockStepKeeps ==
    ASSUME IInv, NEW b \in Block, BlockStep(b), StaleKept
    PROVE  IInv'
<1> USE DEF IInv
<1>1. disk \in [Block -> Value] /\ cacheMap \in [Cached -> Entry] /\ Cached \subseteq Block
  BY DEF Shape
<1>2. "error" \in Status \ {"synced"} /\ "ok" \in Status \ {"synced"}
  BY DEF Status
<1>3. \A c \in Cached : cacheMap[c].data \in Value
  BY <1>1 DEF Entry
<1>4. CASE ReadDirect(b)
  <2>1. Shape'
    BY <1>4 DEF ReadDirect, memory, StaleKept, Shape, LruConsistent, CleanMatchesDisk,
       Cached, Clean, Dirty
  <2>2. ReplyOK'
    BY <1>1, <1>2, <1>4, OtherReplies DEF ReadDirect
  <2> QED BY <2>1, <2>2
<1>5. CASE ReadHit(b)
  <2>1. b \in Cached /\ lruList' = Touched(b)
    BY <1>5 DEF ReadHit
  <2>2. Shape'
    BY <1>5, <2>1, TouchKeepsList
    DEF ReadHit, StaleKept, Shape, LruConsistent, CleanMatchesDisk, Cached, Clean, Dirty
  <2>3. ReplyOK'
    BY <1>3, <1>5, OtherReplies DEF ReadHit
  <2> QED BY <2>2, <2>3
<1>6. CASE ReadMiss(b)
  <2> DEFINE e == [data |-> disk[b], dirty |-> FALSE]
  <2>1. e \in Entry
    BY <1>1 DEF Entry
  <2>2. Shape'
    BY <1>6, <2>1, InsertKeepsShape DEF ReadMiss
  <2>3. ReplyOK'
    BY <1>1, <1>6, OtherReplies DEF ReadMiss
  <2> QED BY <2>2, <2>3
<1>7. CASE ReadMissFails(b)
  <2>1. Shape'
    BY <1>7, EvictionKeepsShape DEF ReadMissFails
  <2>2. ReplyOK'
    BY <1>2, <1>7, OtherReplies DEF ReadMissFails
  <2> QED BY <2>1, <2>2
<1>8. CASE EvictionFails(b)
  <2>1. PICK victim \in Evicted \cap Dirty : WriteBackFails({}, victim)
    BY <1>8 DEF EvictionFails
  <2> QED BY <2>1, FailedWriteBackKeeps
<1>9. CASE FlushBlock(b)
  <2>1. Shape'
    BY <1>9, CleaningKeepsShape DEF FlushBlock, WriteBack
  <2>2. ReplyOK'
    BY <1>2, <1>9, OtherReplies DEF FlushBlock
  <2> QED BY <2>1, <2>2
<1>10. CASE FlushBlockFails(b)
  BY <1>10, FailedWriteBackKeeps DEF FlushBlockFails
<1>11. CASE Invalidate(b)
  <2>1. Shape'
    BY <1>1, <1>11, ForgetKeepsShape DEF Invalidate
  <2>2. ReplyOK'
    BY <1>2, <1>11, OtherReplies DEF Invalidate
  <2> QED BY <2>1, <2>2
<1> QED BY <1>4, <1>5, <1>6, <1>7, <1>8, <1>9, <1>10, <1>11 DEF BlockStep

\* ... and each that brings a content with it...
LEMMA ValueStepKeeps ==
    ASSUME IInv, NEW b \in Block, NEW v \in Value, ValueStep(b, v), StaleKept
    PROVE  IInv'
<1> USE DEF IInv
<1>1. disk \in [Block -> Value] /\ cacheMap \in [Cached -> Entry] /\ Cached \subseteq Block
  BY DEF Shape
<1>2. "error" \in Status \ {"synced"} /\ "ok" \in Status \ {"synced"}
  BY DEF Status
<1>3. [data |-> v, dirty |-> TRUE] \in Entry
  BY DEF Entry
<1>4. CASE WriteDirect(b, v)
  <2>1. Cached = {} /\ Cached' = Cached /\ disk' \in [Block -> Value]
    BY <1>1, <1>4, CachedIsFinite DEF WriteDirect, memory, Cached
  <2>2. stale' \subseteq Clean' /\ CleanMatchesDisk'
    BY <2>1, CleanKept
  <2>4. Shape'
    BY <1>4, <2>1, <2>2 DEF WriteDirect, memory, Shape, LruConsistent
  <2>3. ReplyOK'
    BY <1>2, <1>4, OtherReplies DEF WriteDirect
  <2> QED BY <2>3, <2>4
<1>5. CASE WriteHit(b, v)
  <2>1. b \in Cached /\ lruList' = Touched(b) /\ Cached' = Cached
    BY <1>5 DEF WriteHit, Cached
  <2>2. cacheMap' \in [Cached' -> Entry]
    BY <1>1, <1>3, <1>5, <2>1 DEF WriteHit
  <2>3. stale' \subseteq Clean' /\ CleanMatchesDisk'
    BY <1>1, <1>5, <2>1, CleanKept DEF WriteHit, CleanMatchesDisk, Clean, Dirty, Shape
  <2>4. LruConsistent'
    BY <1>5, <2>1, TouchKeepsList DEF WriteHit, LruConsistent, Shape
  <2>5. lruList' \in Seq(Block)
    BY <2>1, TouchKeepsList
  <2>6. Shape'
    BY <1>5, <2>1, <2>2, <2>3, <2>4, <2>5 DEF WriteHit, Shape
  <2>7. ReplyOK'
    BY <1>2, <1>5, OtherReplies DEF WriteHit
  <2> QED BY <2>6, <2>7
<1>6. CASE WriteMiss(b, v)
  <2>1. Shape'
    BY <1>3, <1>6, InsertKeepsShape DEF WriteMiss
  <2>2. ReplyOK'
    BY <1>2, <1>6, OtherReplies DEF WriteMiss
  <2> QED BY <2>1, <2>2
<1>7. CASE JournalInstall(b, v)
  <2>1. disk' \in [Block -> Value] /\ \A c \in Block \ {b} : disk'[c] = disk[c]
    BY <1>1, <1>7 DEF JournalInstall
  <2>2. Shape'
    BY <1>7, <2>1, ForgetKeepsShape DEF JournalInstall
  <2>3. ReplyOK'
    BY <1>2, <1>7, OtherReplies DEF JournalInstall
  <2> QED BY <2>2, <2>3
<1> QED BY <1>4, <1>5, <1>6, <1>7 DEF ValueStep

\* ... the journal write that fails, which alone makes a copy stale...
LEMMA FailedJournalWriteKeeps ==
    ASSUME IInv, NEW b \in Block, NEW v \in Value, JournalWriteFails(b, v)
    PROVE  IInv'
<1>1. \/ disk' = disk /\ stale' = stale
      \/ disk' = [disk EXCEPT ![b] = v] /\ stale' = stale \cup ({b} \cap Clean)
  BY DEF JournalWriteFails
<1>2. disk \in [Block -> Value] /\ Clean \subseteq Block /\ Clean' = Clean
  BY DEF JournalWriteFails, memory, IInv, Shape, Clean, Dirty, Cached
<1>3. disk' \in [Block -> Value] /\ stale' \subseteq Clean' /\ CleanMatchesDisk'
  BY <1>1, <1>2 DEF JournalWriteFails, memory, IInv, Shape, CleanMatchesDisk
<1>4. Shape'
  BY <1>3 DEF JournalWriteFails, memory, IInv, Shape, LruConsistent, Cached
<1>5. ReplyOK'
  BY OtherReplies DEF JournalWriteFails, Status
<1> QED BY <1>4, <1>5 DEF IInv

\* ... and so does every step.
LEMMA StepKeeps ==
    ASSUME IInv, [Next]_vars
    PROVE  IInv'
<1> USE DEF IInv
<1>1. /\ disk \in [Block -> Value]
      /\ Written(Dirty) \in [Block -> Value]
  BY WrittenIsAnImage DEF Shape
<1>2. "ok" \in Status \ {"synced"} /\ "none" \in Status \ {"synced"} /\ "synced" \in Status
  BY DEF Status
<1>3. ASSUME NEW b \in Block, BlockStep(b), StaleKept PROVE IInv'
  BY <1>3, BlockStepKeeps
<1>4. ASSUME NEW b \in Block, NEW v \in Value, ValueStep(b, v), StaleKept PROVE IInv'
  BY <1>4, ValueStepKeeps
<1>5. ASSUME NEW c \in Capacities, CacheInit(c), StaleKept PROVE IInv'
  <2>1. Shape'
    BY <1>1, <1>5, EmptyCacheHasShape DEF CacheInit
  <2>2. ReplyOK'
    BY <1>2, <1>5, OtherReplies DEF CacheInit
  <2> QED BY <2>1, <2>2
<1>6. CASE FlushAll /\ StaleKept
  <2>1. Shape'
    BY <1>6, CleaningKeepsShape DEF FlushAll, WriteBack
  <2>2. \A b \in Block \ stale' : Live'[b] = disk'[b]
    <3>1. Cached' = Cached /\ disk' = Written(Dirty) /\ stale \subseteq stale'
      BY <1>6 DEF FlushAll, WriteBack, Cleaned, Cached, StaleKept, Clean, Dirty, Shape
    <3>2. ASSUME NEW b \in Cached \ stale PROVE cacheMap'[b].data = disk'[b]
      <4>1. cacheMap'[b].data = cacheMap[b].data
        BY <1>6 DEF FlushAll, WriteBack, Cleaned
      <4>2. CASE b \in Dirty
        BY <3>1, <4>1, <4>2 DEF Written, Shape
      <4>3. CASE b \notin Dirty
        BY <3>1, <4>1, <4>3 DEF Written, Shape, CleanMatchesDisk, Clean
      <4> QED BY <4>2, <4>3
    <3> QED BY <2>1, <3>1, <3>2 DEF Live, Shape
  <2>3. ReplyOK'
    BY <1>2, <1>6, <2>2 DEF ReplyOK, SyncedIsDurable, FlushAll
  <2> QED BY <2>1, <2>3
<1>7. CASE FlushAllFails /\ StaleKept
  <2>1. PICK S \in SUBSET Dirty : \E b \in Dirty \ S : WriteBackFails(S, b)
    BY <1>7 DEF FlushAllFails
  <2>2. PICK b \in Dirty \ S : WriteBackFails(S, b)
    BY <2>1
  <2> QED BY <1>7, <2>2, FailedWriteBackKeeps
<1>8. CASE Shutdown /\ StaleKept
  <2>1. Shape'
    BY <1>1, <1>8, EmptyCacheHasShape DEF Shutdown
  <2>2. \A b \in Block \ stale' : Live'[b] = disk'[b]
    <3>1. Cached' = {}
      BY <1>8 DEF Shutdown, Cached
    <3> QED BY <3>1 DEF Live
  <2>3. ReplyOK'
    BY <1>2, <1>8, <2>2 DEF ReplyOK, SyncedIsDurable, Shutdown
  <2> QED BY <2>1, <2>3
<1>9. CASE Crash /\ StaleKept
  <2>1. Shape'
    BY <1>1, <1>9, EmptyCacheHasShape DEF Crash
  <2>2. ReplyOK'
    BY <1>2, <1>9, OtherReplies DEF Crash
  <2> QED BY <2>1, <2>2
<1>10. CASE UNCHANGED vars
  BY <1>10 DEF vars, memory, Shape, ReplyOK, LruConsistent, CleanMatchesDisk, SyncedIsDurable,
     Live, Cached, Clean, Dirty
<1>11. ASSUME NEW b \in Block, NEW v \in Value, JournalWriteFails(b, v) PROVE IInv'
  BY <1>11, FailedJournalWriteKeeps
<1> QED BY <1>3, <1>4, <1>5, <1>6, <1>7, <1>8, <1>9, <1>10, <1>11 DEF Next, Call

\* The inductive invariant holds in every state of every behaviour.
THEOREM CacheInvariant == Spec => []IInv
<1>1. Init => IInv
  BY InitEstablishes
<1>2. IInv /\ [Next]_vars => IInv'
  BY StepKeeps
<1> QED BY <1>1, <1>2, PTL DEF Spec

\* Every variable of the cache keeps its type.
THEOREM CacheTypeOK == Spec => []TypeOK
<1>1. IInv => TypeOK
  BY DEF IInv, Shape, ReplyOK, TypeOK
<1> QED BY <1>1, CacheInvariant, PTL

\* The list and the map agree and the capacity bounds them, for any capacity:
\* ensure_capacity never looks for a victim in an empty list.
THEOREM CacheLruConsistent == Spec => []LruConsistent
<1>1. IInv => LruConsistent
  BY DEF IInv, Shape
<1> QED BY <1>1, CacheInvariant, PTL

\* A clean block has the content of the image, so that evicting it loses nothing,
\* unless a journal write that failed left the copy behind.
THEOREM CacheCleanMatchesDisk == Spec => []CleanMatchesDisk
<1>1. IInv => CleanMatchesDisk
  BY DEF IInv, Shape
<1> QED BY <1>1, CacheInvariant, PTL

\* A sync or a shutdown that reports success leaves every live content in the
\* image, but for the copies that a failed journal write left behind.
THEOREM CacheSyncedIsDurable == Spec => []SyncedIsDurable
<1>1. IInv => SyncedIsDurable
  BY DEF IInv, ReplyOK
<1> QED BY <1>1, CacheInvariant, PTL

-----------------------------------------------------------------------------
(***************************************************************************)
(* Refinement: the cache over the disk implements BlockStore, with Live    *)
(* and disk as the live and the durable contents.                          *)
(***************************************************************************)

\* Writing dirty blocks back copies their live contents to the disk, and none
\* of them is stale.
LEMMA WrittenCopiesLive ==
    ASSUME Shape, NEW T \in SUBSET Dirty, disk' = Written(T)
    PROVE  Store!MayWriteBack
<1>1. Store!WriteBack(T)
  BY DEF Store!WriteBack, Written, Live, Dirty, Shape
<1>2. T \in SUBSET (Block \ stale)
  BY DEF Shape, Clean, Dirty
<1> QED BY <1>1, <1>2 DEF Store!MayWriteBack

\* Nothing written, nothing changed.
LEMMA NothingWritten ==
    ASSUME Shape
    PROVE  disk = Written({})
BY DEF Shape, Written

\* Nothing read differently, nothing settled.
LEMMA NothingSettled ==
    ASSUME Shape, Live' = Live, stale' = stale
    PROVE  Store!Settle
BY DEF Store!Settle, Store!Settled, Live

\* Making room leaves every live content as it is, but for a stale copy that goes.
LEMMA LiveAfterEviction ==
    ASSUME Shape, initialized, NEW c \in Block,
           disk' = Written(Evicted \cap Dirty)
    PROVE  /\ c \notin Cached \ Evicted =>
                  disk'[c] = IF c \in stale THEN disk[c] ELSE Live[c]
           /\ c \in Cached \ Evicted => cacheMap[c].data = Live[c]
<1>1. disk'[c] = IF c \in Evicted \cap Dirty THEN cacheMap[c].data ELSE disk[c]
  BY DEF Written
<1>2. Live[c] = IF c \in Cached THEN cacheMap[c].data ELSE disk[c]
  BY DEF Live
<1>3. c \in Clean \ stale => cacheMap[c].data = disk[c]
  BY DEF Shape, CleanMatchesDisk
<1>4. Dirty \subseteq Cached /\ stale \subseteq Cached \ Dirty
  BY DEF Shape, Clean, Dirty
<1> QED BY <1>1, <1>2, <1>3, <1>4 DEF Clean

\* A miss brings in b with content v: v is then what b reads as, and no other
\* block reads differently, whichever block was evicted, unless it was stale.
LEMMA LiveAfterInsert ==
    ASSUME Shape, initialized, NEW b \in Block, b \notin Cached, NEW e, Insert(b, e), StaleKept
    PROVE  /\ Live' = [Store!Settled EXCEPT ![b] = e.data]
           /\ stale' \subseteq stale \ {b}
           /\ Store!Settled[b] = disk[b]
<1>1. /\ cacheMap' = [c \in (Cached \ Evicted) \cup {b} |-> IF c = b THEN e ELSE cacheMap[c]]
      /\ Cached' = (Cached \ Evicted) \cup {b}
      /\ disk' = Written(Evicted \cap Dirty)
  BY DEF Insert, Cached
<1>2. stale \subseteq Clean /\ b \notin stale
  BY DEF Shape, Clean
<1>3. ASSUME NEW c \in Block \ {b} PROVE c \in stale \ stale' <=> c \in stale \ Cached'
  BY <1>1, <1>2 DEF StaleKept, Clean, Dirty
<1>4. ASSUME NEW c \in Block
      PROVE  Live'[c] = IF c = b THEN e.data ELSE Store!Settled[c]
  <2>1. Live'[c] = IF c \in Cached' THEN cacheMap'[c].data ELSE disk'[c]
    BY DEF Live
  <2>2. CASE c = b
    BY <1>1, <2>1, <2>2
  <2>3. CASE c # b
    <3>1. Store!Settled[c] = IF c \in stale \ Cached' THEN disk[c] ELSE Live[c]
      BY <1>3, <2>3 DEF Store!Settled
    <3>2. CASE c \in Cached \ Evicted
      BY <1>1, <2>1, <2>3, <3>1, <3>2, LiveAfterEviction
    <3>3. CASE c \notin Cached \ Evicted
      BY <1>1, <2>1, <2>3, <3>1, <3>3, LiveAfterEviction
    <3> QED BY <3>2, <3>3
  <2> QED BY <2>2, <2>3
<1>5. Live' = [Store!Settled EXCEPT ![b] = e.data]
  BY <1>4 DEF Live, Store!Settled
<1>6. stale' \subseteq stale \ {b}
  BY <1>2 DEF StaleKept
<1>7. Store!Settled[b] = disk[b]
  BY <1>2 DEF Store!Settled, Live
<1> QED BY <1>5, <1>6, <1>7

\* Cleaning blocks that are written changes no live content.
LEMMA LiveAfterCleaning ==
    ASSUME Shape, NEW S, NEW T \in SUBSET Dirty, disk' = Written(T), cacheMap' = Cleaned(S),
           StaleKept
    PROVE  Store!Settle
<1>1. Live' = Live
  BY DEF Shape, Live, Written, Cleaned, Cached, Dirty
<1>2. stale' = stale
  BY DEF Shape, StaleKept, Clean, Cleaned, Cached, Dirty
<1> QED BY <1>1, <1>2, NothingSettled

\* When everything dirty is written, the disk has the live contents, but for
\* the blocks that are stale.
LEMMA AllWrittenIsLive ==
    ASSUME Shape
    PROVE  Written(Dirty) = [c \in Block |-> IF c \in stale THEN disk[c] ELSE Live[c]]
BY DEF Shape, CleanMatchesDisk, Written, Live, Clean, Dirty

\* Emptying the cache after everything dirty is written settles every block.
LEMMA EmptyingSettles ==
    ASSUME Shape, disk' = Written(Dirty), cacheMap' = << >>, StaleKept
    PROVE  /\ Store!Settle
           /\ Store!WriteBack(Block \ stale)
<1>1. stale' = {} /\ Cached' = {}
  BY DEF StaleKept, Clean, Cached
<1>2. Live' = disk'
  BY <1>1, AllWrittenIsLive DEF Live
<1>3. Store!WriteBack(Block \ stale)
  BY AllWrittenIsLive DEF Store!WriteBack, Shape
<1> QED BY <1>1, <1>2, <1>3, AllWrittenIsLive DEF Store!Settle, Store!Settled

\* A step that only writes back blocks and reports success or failure.
LEMMA FlushIsAllowed ==
    ASSUME Shape, NEW T \in SUBSET Dirty, disk' = Written(T), Store!Settle,
           reply' \in {"ok", "error"}
    PROVE  Store!Flush
BY WrittenCopiesLive DEF Store!Flush

\* A write-back that fails is a flush of the blocks that did reach the disk.
LEMMA FailedWriteBackIsFlush ==
    ASSUME Shape, NEW S \in SUBSET Dirty, NEW b \in Dirty, WriteBackFails(S, b), StaleKept
    PROVE  Store!Flush
<1>1. PICK T \in SUBSET Dirty : disk' = Written(T)
  BY DEF WriteBackFails
<1>2. Store!Settle
  BY <1>1, LiveAfterCleaning DEF WriteBackFails
<1> QED BY <1>1, <1>2, FlushIsAllowed DEF WriteBackFails

\* The operations on one block...
LEMMA BlockStepImplements ==
    ASSUME Shape, NEW b \in Block, BlockStep(b), StaleKept
    PROVE  Store!Next
<1> USE DEF Store!Next
<1>1. Cached \subseteq Block /\ disk = Written({}) /\ stale \subseteq Clean
  BY NothingWritten DEF Shape
<1>2. ASSUME Store!Flush PROVE Store!Next
  BY <1>2
<1>3. ASSUME Store!Read(b) PROVE Store!Next
  BY <1>3
<1>4. CASE ReadDirect(b)
  <2>1. Cached = {} /\ Live' = Live /\ Live[b] = disk[b] /\ disk' = disk /\ stale' = stale
    BY <1>1, <1>4, CachedIsFinite DEF ReadDirect, memory, Live, StaleKept, Clean, Dirty, Cached
  <2>2. Store!Settle
    BY <2>1, NothingSettled
  <2>3. CASE reply' = "error"
    BY <1>1, <1>2, <2>1, <2>2, <2>3, FlushIsAllowed
  <2>4. CASE reply' = disk[b]
    <3>1. Store!MayWriteBack
      BY <1>1, <2>1, WrittenCopiesLive
    <3> QED BY <1>3, <2>1, <2>2, <2>4, <3>1 DEF Store!Read
  <2> QED BY <1>4, <2>3, <2>4 DEF ReadDirect
<1>5. CASE ReadHit(b)
  <2>1. Live' = Live /\ reply' = Live'[b] /\ disk' = disk
    BY <1>5 DEF ReadHit, Live, Cached
  <2>2. stale' = stale
    BY <1>1, <1>5 DEF ReadHit, StaleKept, Clean, Dirty, Cached
  <2>3. Store!MayWriteBack /\ Store!Settle
    BY <1>1, <2>1, <2>2, WrittenCopiesLive, NothingSettled
  <2> QED BY <1>3, <2>1, <2>3 DEF Store!Read
<1>6. CASE ReadMiss(b)
  <2>1. /\ Live' = [Store!Settled EXCEPT ![b] = disk[b]]
        /\ Store!Settled[b] = disk[b]
        /\ stale' \subseteq stale
    BY <1>6, LiveAfterInsert DEF ReadMiss
  <2>2. Live' = Store!Settled /\ reply' = Live'[b]
    BY <1>6, <2>1 DEF ReadMiss, Store!Settled
  <2>3. Store!MayWriteBack
    BY <1>1, <1>6, WrittenCopiesLive DEF ReadMiss, Insert
  <2> QED BY <1>3, <2>1, <2>2, <2>3 DEF Store!Read, Store!Settle
<1>7. CASE ReadMissFails(b)
  <2>1. cacheMap' = KeptMap /\ disk' = Written(Evicted \cap Dirty) /\ initialized
    BY <1>7 DEF ReadMissFails
  <2>2. Cached' = Cached \ Evicted /\ \A c \in Cached' : cacheMap'[c] = cacheMap[c]
    BY <2>1 DEF KeptMap, Restrict, Cached
  <2>3. stale' \subseteq stale /\ \A c \in Block : c \in stale \ stale' <=> c \in stale \ Cached'
    BY <1>1, <2>2 DEF StaleKept, Clean, Dirty
  <2>4. ASSUME NEW c \in Block PROVE Live'[c] = Store!Settled[c]
    <3>1. Store!Settled[c] = IF c \in stale \ Cached' THEN disk[c] ELSE Live[c]
      BY <2>3 DEF Store!Settled
    <3>2. Live'[c] = IF c \in Cached' THEN cacheMap'[c].data ELSE disk'[c]
      BY DEF Live
    <3> QED BY <2>1, <2>2, <3>1, <3>2, LiveAfterEviction
  <2>5. Store!Settle
    BY <2>3, <2>4 DEF Live, Store!Settled, Store!Settle
  <2> QED BY <1>2, <1>7, <2>1, <2>5, FlushIsAllowed DEF ReadMissFails
<1>8. CASE EvictionFails(b)
  <2>1. PICK victim \in Evicted \cap Dirty : WriteBackFails({}, victim)
    BY <1>8 DEF EvictionFails
  <2> QED BY <1>2, <2>1, FailedWriteBackIsFlush
<1>9. CASE FlushBlock(b)
  <2>1. disk' = Written({b} \cap Dirty) /\ cacheMap' = Cleaned({b} \cap Dirty) /\ reply' = "ok"
    BY <1>9 DEF FlushBlock, WriteBack
  <2>2. Store!Settle
    BY <2>1, LiveAfterCleaning
  <2> QED BY <1>2, <2>1, <2>2, FlushIsAllowed
<1>10. CASE FlushBlockFails(b)
  BY <1>2, <1>10, FailedWriteBackIsFlush DEF FlushBlockFails
<1>11. CASE Invalidate(b)
  <2>1. Cached' = Cached \ {b} /\ \A c \in Cached' : cacheMap'[c] = cacheMap[c]
    BY <1>11 DEF Invalidate, Forget, Restrict, Cached
  <2>2. Live' = [Live EXCEPT ![b] = disk[b]]
    BY <1>11, <2>1 DEF Invalidate, Live
  <2>3. stale' = stale \ {b}
    BY <1>1, <2>1 DEF StaleKept, Clean, Dirty
  <2> QED BY <1>11, <2>2, <2>3 DEF Invalidate, Store!Discard
<1> QED BY <1>4, <1>5, <1>6, <1>7, <1>8, <1>9, <1>10, <1>11 DEF BlockStep

\* ... those that bring a content with them...
LEMMA ValueStepImplements ==
    ASSUME Shape, NEW b \in Block, NEW v \in Value, ValueStep(b, v), StaleKept
    PROVE  Store!Next
<1> USE DEF Store!Next
<1>1. /\ Cached \subseteq Block /\ disk = Written({}) /\ disk \in [Block -> Value]
      /\ stale \subseteq Clean
  BY NothingWritten DEF Shape
<1>2. ASSUME Store!Write(b, v) PROVE Store!Next
  BY <1>2
<1>3. ASSUME Store!Install(b, v) PROVE Store!Next
  BY <1>3
<1>4. CASE WriteDirect(b, v)
  <2>1. Cached = {} /\ Cached' = {} /\ Live = disk /\ stale = {} /\ stale' = {}
    BY <1>1, <1>4, CachedIsFinite DEF WriteDirect, memory, Live, StaleKept, Clean, Cached
  <2>2. CASE disk' = disk /\ reply' = "error"
    <3>1. Live' = Live
      BY <2>1, <2>2 DEF Live
    <3>2. Store!Settle
      BY <2>1, <3>1, NothingSettled
    <3>3. Store!Flush
      BY <1>1, <2>2, <3>2, FlushIsAllowed
    <3> QED BY <3>3
  <2>3. CASE disk' = [disk EXCEPT ![b] = v] /\ reply' \in {"ok", "error"}
    <3>1. Live' = disk'
      BY <1>1, <2>1, <2>3 DEF Live
    <3> QED BY <1>3, <2>1, <2>3, <3>1 DEF Store!Install
  <2> QED BY <1>4, <2>2, <2>3 DEF WriteDirect
<1>5. CASE WriteHit(b, v)
  <2>1. Live' = [Live EXCEPT ![b] = v] /\ disk' = disk /\ reply' = "ok"
    BY <1>5 DEF WriteHit, Live, Cached
  <2>2. stale' = stale \ {b}
    BY <1>1, <1>5 DEF WriteHit, StaleKept, Clean, Dirty, Cached
  <2>3. [Store!Settled EXCEPT ![b] = v] = [Live EXCEPT ![b] = v]
    BY <2>2 DEF Store!Settled, Live
  <2>4. Store!MayWriteBack
    BY <1>1, <2>1, WrittenCopiesLive
  <2> QED BY <1>2, <2>1, <2>2, <2>3, <2>4 DEF Store!Write
<1>6. CASE WriteMiss(b, v)
  <2>1. Live' = [Store!Settled EXCEPT ![b] = v] /\ stale' \subseteq stale \ {b} /\ reply' = "ok"
    BY <1>6, LiveAfterInsert DEF WriteMiss
  <2>2. Store!MayWriteBack
    BY <1>1, <1>6, WrittenCopiesLive DEF WriteMiss, Insert
  <2> QED BY <1>2, <2>1, <2>2 DEF Store!Write
<1>7. CASE JournalInstall(b, v)
  <2>1. Cached' = Cached \ {b} /\ \A c \in Cached' : cacheMap'[c] = cacheMap[c]
    BY <1>7 DEF JournalInstall, Forget, Restrict, Cached
  <2>2. Live' = [Live EXCEPT ![b] = v]
    BY <1>1, <1>7, <2>1 DEF JournalInstall, Live
  <2>3. stale' = stale \ {b}
    BY <1>1, <2>1 DEF StaleKept, Clean, Dirty
  <2> QED BY <1>3, <1>7, <2>2, <2>3 DEF JournalInstall, Store!Install
<1> QED BY <1>4, <1>5, <1>6, <1>7 DEF ValueStep

\* ... the journal write that fails: it changed nothing, or what the readers
\* see, or what is hidden from them...
LEMMA FailedJournalWriteImplements ==
    ASSUME Shape, NEW b \in Block, NEW v \in Value, JournalWriteFails(b, v)
    PROVE  Store!Next
<1> USE DEF Store!Next
<1>1. disk = Written({}) /\ disk \in [Block -> Value] /\ stale \subseteq Clean
  BY NothingWritten DEF Shape
<1>2. Cached' = Cached /\ cacheMap' = cacheMap /\ reply' = "error"
  BY DEF JournalWriteFails, memory, Cached
<1>3. CASE disk' = disk /\ stale' = stale
  <2>1. Store!Settle
    BY <1>2, <1>3, NothingSettled DEF Live
  <2>2. Store!Flush
    BY <1>1, <1>2, <1>3, <2>1, FlushIsAllowed
  <2> QED BY <2>2
<1>4. CASE disk' = [disk EXCEPT ![b] = v] /\ stale' = stale \cup ({b} \cap Clean)
  <2>1. CASE b \in Cached
    <3>1. Live' = Live
      BY <1>1, <1>2, <1>4, <2>1 DEF Live
    <3>2. stale' \in {stale, stale \cup {b}}
      BY <1>4
    <3>3. Store!InstallHidden(b, v)
      BY <1>2, <1>4, <3>1, <3>2 DEF Store!InstallHidden
    <3> QED BY <3>3
  <2>2. CASE b \notin Cached
    <3>1. Live' = [Live EXCEPT ![b] = v]
      BY <1>1, <1>2, <1>4, <2>2 DEF Live
    <3>2. stale' = stale \ {b}
      BY <1>1, <1>4, <2>2 DEF Clean
    <3>3. Store!Install(b, v)
      BY <1>2, <1>4, <3>1, <3>2 DEF Store!Install
    <3> QED BY <3>3
  <2> QED BY <2>1, <2>2
<1> QED BY <1>3, <1>4 DEF JournalWriteFails

\* ... and every step of the cache is a step of the store, or changes nothing it shows.
LEMMA StepImplements ==
    ASSUME Shape, [Next]_vars
    PROVE  [Store!Next]_(Store!vars)
<1>1. ASSUME NEW b \in Block, BlockStep(b), StaleKept PROVE Store!Next
  BY <1>1, BlockStepImplements
<1>2. ASSUME NEW b \in Block, NEW v \in Value, ValueStep(b, v), StaleKept PROVE Store!Next
  BY <1>2, ValueStepImplements
<1>3. ASSUME NEW c \in Capacities, CacheInit(c), StaleKept PROVE Store!Next
  <2>1. disk' = Written(Dirty) /\ cacheMap' = << >> /\ reply' = "ok"
    BY <1>3 DEF CacheInit
  <2>2. Store!Settle
    BY <1>3, <2>1, EmptyingSettles
  <2>3. Store!Flush
    BY <2>1, <2>2, FlushIsAllowed
  <2> QED BY <2>3 DEF Store!Next
<1>4. CASE FlushAll /\ StaleKept
  <2>1. disk' = Written(Dirty) /\ cacheMap' = Cleaned(Dirty) /\ reply' = "synced"
    BY <1>4 DEF FlushAll, WriteBack
  <2>2. Store!Settle
    BY <1>4, <2>1, LiveAfterCleaning
  <2>3. Store!WriteBack(Block \ stale)
    BY <2>1, AllWrittenIsLive DEF Store!WriteBack
  <2> QED BY <2>1, <2>2, <2>3 DEF Store!Next, Store!Sync
<1>5. CASE FlushAllFails /\ StaleKept
  <2>1. PICK S \in SUBSET Dirty : \E b \in Dirty \ S : WriteBackFails(S, b)
    BY <1>5 DEF FlushAllFails
  <2>2. Store!Flush
    BY <1>5, <2>1, FailedWriteBackIsFlush
  <2> QED BY <2>2 DEF Store!Next
<1>6. CASE Shutdown /\ StaleKept
  <2>1. disk' = Written(Dirty) /\ cacheMap' = << >> /\ reply' = "synced"
    BY <1>6 DEF Shutdown
  <2>2. Store!Settle /\ Store!WriteBack(Block \ stale)
    BY <1>6, <2>1, EmptyingSettles
  <2> QED BY <2>1, <2>2 DEF Store!Next, Store!Sync
<1>7. CASE Crash /\ StaleKept
  <2>1. Cached' = {} /\ disk' = disk /\ reply' = "none"
    BY <1>7 DEF Crash, Cached
  <2>2. Live' = disk /\ stale' = {}
    BY <1>7, <2>1 DEF Live, StaleKept, Clean, Shape
  <2> QED BY <2>1, <2>2 DEF Store!Next, Store!Crash
<1>8. ASSUME NEW b \in Block, NEW v \in Value, JournalWriteFails(b, v) PROVE Store!Next
  BY <1>8, FailedJournalWriteImplements
<1>9. CASE UNCHANGED vars
  BY <1>9 DEF vars, memory, Store!vars, Live, Cached
<1> QED BY <1>1, <1>2, <1>3, <1>4, <1>5, <1>6, <1>7, <1>8, <1>9 DEF Next, Call

\* The cache keeps the promise of the block store: a block reads as what was
\* last written to it, for any capacity and any order of evictions and failures,
\* but for the old copies that a failed journal write leaves behind.
THEOREM CacheImplementsBlockStore == Spec => ImplementsBlockStore
<1>1. Init => Store!Init
  BY DEF Init, Store!Init, Live, Cached
<1>2. IInv /\ [Next]_vars => [Store!Next]_(Store!vars)
  BY StepImplements DEF IInv
<1> QED BY <1>1, <1>2, CacheInvariant, PTL DEF Spec, ImplementsBlockStore, Store!Spec
=============================================================================
