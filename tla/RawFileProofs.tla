---------------------------- MODULE RawFileProofs ----------------------------
(***************************************************************************)
(* Proofs about RawFile.tla, for any size of blocks and any number of      *)
(* them: the loop of read and write, the type invariant, what is kept      *)
(* behind the end of the file, and the implementation of ByteFile.         *)
(***************************************************************************)
EXTENDS RawFile, WellFoundedInduction, TLAPS

-----------------------------------------------------------------------------
(***************************************************************************)
(* Numbers                                                                 *)
(***************************************************************************)

LEMMA Sizes ==
    /\ BlockSize \in Nat /\ BlockSize >= 1 /\ MaxBlocks \in Nat /\ MaxBlocks >= 1
    /\ MaxSize \in Nat /\ MaxLength \in Nat /\ MaxBlocks * BlockSize \in Nat
    /\ MaxSize >= MaxBlocks * BlockSize /\ MaxBlocks * BlockSize >= 1
    /\ Zero \in Byte
<1>1. /\ BlockSize \in Nat /\ BlockSize >= 1 /\ MaxBlocks \in Nat /\ MaxBlocks >= 1
      /\ MaxSize \in Nat /\ MaxLength \in Nat /\ MaxSize >= MaxBlocks * BlockSize /\ Zero \in Byte
  BY RawFileAssumption
<1>2. \A m, b \in Nat : m >= 1 /\ b >= 1 => m * b \in Nat /\ m * b >= 1
  <2> SUFFICES ASSUME NEW m \in Nat, NEW b \in Nat, m >= 1, b >= 1 PROVE m * b \in Nat /\ m * b >= 1
    OBVIOUS
  <2>1. m - 1 \in Nat /\ m * b = (m - 1) * b + b
    OBVIOUS
  <2>2. (m - 1) * b \in Nat
    BY <2>1
  <2> QED BY <2>1, <2>2
<1> QED BY <1>1, <1>2

\* Where byte x lies: in block x \div BlockSize, at place x % BlockSize.
LEMMA DivMod ==
    ASSUME NEW x \in Nat
    PROVE  /\ x \div BlockSize \in Nat
           /\ x % BlockSize \in 0..(BlockSize - 1)
           /\ x = (x \div BlockSize) * BlockSize + (x % BlockSize)
<1>1. ASSUME NEW b \in Nat, b >= 1
      PROVE  x \div b \in Nat /\ x % b \in 0..(b - 1) /\ x = (x \div b) * b + (x % b)
  <2>1. x \div b \in Nat
    BY <1>1
  <2>2. x % b \in 0..(b - 1)
    BY <1>1
  <2>3. x = (x \div b) * b + (x % b)
    BY <1>1
  <2> QED BY <2>1, <2>2, <2>3
<1> QED BY <1>1, Sizes

\* Blocks do not overlap.
LEMMA OneBlock ==
    ASSUME NEW q \in Nat, NEW k \in Nat, NEW i \in 0..(BlockSize - 1), NEW j \in 0..(BlockSize - 1),
           q * BlockSize + i = k * BlockSize + j
    PROVE  q = k /\ i = j
<1>1. BlockSize \in Nat /\ BlockSize >= 1
  BY Sizes
<1>2. ASSUME NEW a \in Nat, NEW b \in Nat, a < b
      PROVE  a * BlockSize + BlockSize <= b * BlockSize /\ a * BlockSize \in Nat /\ b * BlockSize \in Nat
  <2>1. b - a - 1 \in Nat /\ b * BlockSize = a * BlockSize + BlockSize + (b - a - 1) * BlockSize
    BY <1>1, <1>2
  <2>2. \A c \in Nat : c * BlockSize \in Nat
    BY <1>1
  <2>3. (b - a - 1) * BlockSize \in Nat /\ a * BlockSize \in Nat /\ b * BlockSize \in Nat
    BY <2>1, <2>2
  <2> QED BY <1>1, <2>1, <2>3
<1>3. ~(q < k)
  <2> SUFFICES ASSUME q < k PROVE FALSE
    OBVIOUS
  <2>1. q * BlockSize + BlockSize <= k * BlockSize /\ q * BlockSize \in Nat /\ k * BlockSize \in Nat
    BY <1>2
  <2> QED BY <1>1, <2>1
<1>4. ~(k < q)
  <2> SUFFICES ASSUME k < q PROVE FALSE
    OBVIOUS
  <2>1. k * BlockSize + BlockSize <= q * BlockSize /\ q * BlockSize \in Nat /\ k * BlockSize \in Nat
    BY <1>2
  <2> QED BY <1>1, <2>1
<1>5. q = k
  BY <1>3, <1>4
<1>6. q * BlockSize \in Nat
  BY <1>1
<1> QED BY <1>5, <1>6

LEMMA BlockOf ==
    ASSUME NEW q \in Nat, NEW i \in 0..(BlockSize - 1)
    PROVE  /\ q * BlockSize + i \in Nat
           /\ (q * BlockSize + i) \div BlockSize = q
           /\ (q * BlockSize + i) % BlockSize = i
<1>1. BlockSize \in Nat /\ BlockSize >= 1
  BY Sizes
<1>2. q * BlockSize \in Nat
  BY <1>1
<1>3. q * BlockSize + i \in Nat
  BY <1>1, <1>2
<1> DEFINE x == q * BlockSize + i
<1>4. /\ x \div BlockSize \in Nat /\ x % BlockSize \in 0..(BlockSize - 1)
      /\ x = (x \div BlockSize) * BlockSize + (x % BlockSize)
  BY <1>3, DivMod
<1>5. ASSUME NEW k \in Nat, NEW j \in 0..(BlockSize - 1), x = k * BlockSize + j
      PROVE  k = q /\ j = i
  BY <1>5, OneBlock
<1> HIDE DEF x
<1>6. x \div BlockSize = q /\ x % BlockSize = i
  BY <1>4, <1>5
<1> QED BY <1>3, <1>6 DEF x

\* Induction on the natural numbers, for a set of numbers.
LEMMA SetInduction ==
    ASSUME NEW T, 0 \in T, \A n \in Nat : n \in T => n + 1 \in T
    PROVE  \A n \in Nat : n \in T
<1> DEFINE U == Nat \ T
           R == OpToRel(<, Nat)
<1> SUFFICES ASSUME U # {} PROVE FALSE
  OBVIOUS
<1>1. U \subseteq Nat
  OBVIOUS
<1>2. PICK m \in U : \A k \in U : ~(<<k, m>> \in R)
  <2> HIDE DEF U, R
  <2>1. IsWellFoundedOn(R, Nat)
    BY NatLessThanWellFounded, Zenon DEF R
  <2> QED BY <1>1, <2>1, WFMin
<1>3. m # 0 /\ m - 1 \in Nat /\ m - 1 < m /\ m - 1 + 1 = m
  OBVIOUS
<1>4. m - 1 \in T
  <2> SUFFICES ASSUME m - 1 \notin T PROVE FALSE
    OBVIOUS
  <2>1. m - 1 \in U
    BY <1>3
  <2>2. <<m - 1, m>> \in R
    BY <1>3, Zenon DEF OpToRel
  <2> QED BY <1>2, <2>1, <2>2
<1> QED BY <1>3, <1>4

-----------------------------------------------------------------------------
(***************************************************************************)
(* The chunks of a read or a write                                         *)
(***************************************************************************)

LEMMA MinOfTwo ==
    ASSUME NEW a \in Int, NEW b \in Int
    PROVE  Min({a, b}) = IF a <= b THEN a ELSE b
<1> DEFINE m == IF a <= b THEN a ELSE b
<1>1. m \in {a, b} /\ \A y \in {a, b} : m <= y
  OBVIOUS
<1>2. \A x \in {a, b} : (\A y \in {a, b} : x <= y) => x = m
  OBVIOUS
<1> HIDE DEF m
<1>3. Min({a, b}) = m
  BY <1>1, <1>2 DEF Min
<1> QED BY <1>3 DEF m

Chunk == [block : Nat, from : Nat, len : Nat, done : Nat]

LEMMA ChunkFacts ==
    ASSUME NEW o \in Nat, NEW n \in Nat, NEW done \in Nat, done < n
    PROVE  LET c == ChunkAt(o, n, done)
           IN  /\ c \in Chunk /\ c.done = done
               /\ c.from \in 0..(BlockSize - 1)
               /\ c.len >= 1 /\ done + c.len <= n /\ c.from + c.len <= BlockSize
               /\ o + done = c.block * BlockSize + c.from
               /\ done + c.len = n \/ c.from + c.len = BlockSize
<1> DEFINE from == (o + done) % BlockSize
           len == Min({BlockSize - from, n - done})
           block == (o + done) \div BlockSize
<1>1. ChunkAt(o, n, done) = [block |-> block, from |-> from, len |-> len, done |-> done]
  BY DEF ChunkAt
<1>2. o + done \in Nat
  OBVIOUS
<1>3. block \in Nat /\ from \in 0..(BlockSize - 1) /\ o + done = block * BlockSize + from
  BY <1>2, DivMod
<1>4. BlockSize \in Nat /\ BlockSize >= 1
  BY Sizes
<1> HIDE DEF from, block
<1>5. BlockSize - from \in Int /\ n - done \in Int
  BY <1>3, <1>4
<1>6. len = IF BlockSize - from <= n - done THEN BlockSize - from ELSE n - done
  BY <1>5, MinOfTwo
<1> HIDE DEF len
<1>7. /\ from \in Nat /\ len \in Nat /\ len >= 1 /\ done + len <= n /\ from + len <= BlockSize
      /\ done + len = n \/ from + len = BlockSize
  BY <1>3, <1>4, <1>6
<1> QED BY <1>1, <1>3, <1>7 DEF Chunk

\* The loop from byte n - k on.
IsCut(f, k, o, n) ==
    f = [done \in (n - k)..n |->
           IF done = n THEN << >>
           ELSE <<ChunkAt(o, n, done)>> \o f[done + ChunkAt(o, n, done).len]]

LEMMA CutExists ==
    ASSUME NEW o \in Nat, NEW n \in Nat
    PROVE  \A k \in Nat : k <= n => \E f : IsCut(f, k, o, n)
<1> DEFINE T == {k \in Nat : k <= n => \E f : IsCut(f, k, o, n)}
<1>1. 0 \in T
  <2> DEFINE f == [done \in (n - 0)..n |-> << >>]
             h == [done \in (n - 0)..n |->
                     IF done = n THEN << >>
                     ELSE <<ChunkAt(o, n, done)>> \o f[done + ChunkAt(o, n, done).len]]
  <2>1. \A done \in (n - 0)..n : done = n
    OBVIOUS
  <2>2. \A done \in (n - 0)..n : f[done] = h[done]
    BY <2>1
  <2>3. f = [done \in (n - 0)..n |-> f[done]] /\ h = [done \in (n - 0)..n |-> h[done]]
    OBVIOUS
  <2>a. h = [done \in (n - 0)..n |->
                     IF done = n THEN << >>
                     ELSE <<ChunkAt(o, n, done)>> \o f[done + ChunkAt(o, n, done).len]]
    OBVIOUS
  <2> HIDE DEF f, h
  <2>4. f = h
    BY <2>2, <2>3
  <2>5. IsCut(f, 0, o, n)
    BY <2>4, <2>a DEF IsCut
  <2> QED BY <2>5
<1>2. ASSUME NEW k \in Nat, k \in T PROVE k + 1 \in T
  <2> SUFFICES ASSUME k + 1 <= n PROVE \E f : IsCut(f, k + 1, o, n)
    OBVIOUS
  <2>1. PICK f : IsCut(f, k, o, n)
    <3>1. k <= n
      OBVIOUS
    <3> QED BY <1>2, <3>1
  <2> DEFINE d == n - (k + 1)
             Step(g, x) == IF x = n THEN << >>
                           ELSE <<ChunkAt(o, n, x)>> \o g[x + ChunkAt(o, n, x).len]
             g == [x \in d..n |-> IF x = d THEN Step(f, d) ELSE f[x]]
             h == [x \in d..n |-> Step(g, x)]
  <2>2. d \in Nat /\ d < n /\ d + 1 = n - k /\ \A x \in d..n : x \in Nat /\ (x = d \/ x \in (n - k)..n)
    OBVIOUS
  <2>3. \A x \in (n - k)..n : x \in d..n /\ x # d
    BY <2>2
  <2>4. \A x \in (n - k)..n : f[x] = Step(f, x)
    BY <2>1 DEF IsCut
  <2>5. ASSUME NEW x \in d..n, x # n
        PROVE  x + ChunkAt(o, n, x).len \in (n - k)..n
    <3>1. x \in Nat /\ x < n
      BY <2>2, <2>5
    <3>2. ChunkAt(o, n, x).len \in Nat /\ ChunkAt(o, n, x).len >= 1 /\ x + ChunkAt(o, n, x).len <= n
      BY <3>1, ChunkFacts DEF Chunk
    <3> HIDE DEF d
    <3>3. x >= d
      BY <2>2
    <3> QED BY <2>2, <3>1, <3>2, <3>3
  <2>a. /\ \A x \in d..n : g[x] = IF x = d THEN Step(f, d) ELSE f[x]
        /\ \A x \in d..n : h[x] = Step(g, x)
        /\ g = [x \in d..n |-> g[x]] /\ h = [x \in d..n |-> h[x]]
    <3> HIDE DEF d, Step
    <3>1. \A x \in d..n : g[x] = IF x = d THEN Step(f, d) ELSE f[x]
      OBVIOUS
    <3>2. g = [x \in d..n |-> g[x]]
      OBVIOUS
    <3> HIDE DEF g
    <3>3. \A x \in d..n : h[x] = Step(g, x)
      OBVIOUS
    <3>4. h = [x \in d..n |-> h[x]]
      OBVIOUS
    <3> QED BY <3>1, <3>2, <3>3, <3>4
  <2>6. \A x \in (n - k)..n : g[x] = f[x]
    BY <2>3, <2>a
  <2>b. h = [x \in d..n |-> Step(g, x)]
    OBVIOUS
  <2> HIDE DEF d, g, h
  <2>7. ASSUME NEW x \in d..n PROVE Step(g, x) = Step(f, x)
    <3>1. x # n => g[x + ChunkAt(o, n, x).len] = f[x + ChunkAt(o, n, x).len]
      BY <2>5, <2>6
    <3> QED BY <3>1
  <2> HIDE DEF Step
  <2>8. ASSUME NEW x \in d..n PROVE g[x] = h[x]
    <3>1. CASE x = d
      BY <2>7, <2>a, <3>1
    <3>2. CASE x # d
      <4>1. x \in (n - k)..n
        BY <2>2, <3>2
      <4> QED BY <2>4, <2>6, <2>7, <2>a, <4>1
    <3> QED BY <3>1, <3>2
  <2>9. g = h
    BY <2>8, <2>a
  <2>10. IsCut(g, k + 1, o, n)
    <3>1. g = [x \in d..n |-> Step(g, x)]
      BY <2>9, <2>b
    <3> QED BY <3>1 DEF IsCut, Step, d
  <2> QED BY <2>10
<1> HIDE DEF T
<1>3. \A k \in Nat : k \in T
  BY <1>1, <1>2, SetInduction
<1> QED BY <1>3 DEF T

LEMMA ChunksAreCut ==
    ASSUME NEW o \in Nat, NEW n \in Nat
    PROVE  \E f : IsCut(f, n, o, n) /\ Chunks(o, n) = f[0]
<1> DEFINE IsAll(f) == f = [done \in 0..n |->
                             IF done = n THEN << >>
                             ELSE LET c == ChunkAt(o, n, done) IN <<c>> \o f[done + c.len]]
           A == CHOOSE f : IsAll(f)
<1>1. PICK f : IsCut(f, n, o, n)
  BY CutExists
<1>2. (n - n)..n = 0..n
  OBVIOUS
<1>3. \A g : IsAll(g) <=> IsCut(g, n, o, n)
  BY <1>2 DEF IsCut
<1>4. IsAll(A)
  <2> HIDE DEF IsAll
  <2>1. IsAll(f)
    BY <1>1, <1>3
  <2> QED BY <2>1
<1>5. Chunks(o, n) = A[0]
  BY DEF Chunks
<1> HIDE DEF A, IsAll
<1> QED BY <1>3, <1>4, <1>5

\* q cuts the bytes d, d + 1, ... n - 1 into chunks, one after the other.
Cut(q, d, o, n) ==
    /\ q \in Seq(Chunk)
    /\ d = n => q = << >>
    /\ d < n => Len(q) >= 1 /\ q[1].done = d /\ q[Len(q)].done + q[Len(q)].len = n
    /\ \A i \in 1..Len(q) : q[i].done \in d..(n - 1) /\ q[i] = ChunkAt(o, n, q[i].done)
    /\ \A i \in 1..(Len(q) - 1) : q[i + 1].done = q[i].done + q[i].len

LEMMA CutGrows ==
    ASSUME NEW o \in Nat, NEW n \in Nat, NEW d \in Nat, d < n,
           NEW e, e = d + ChunkAt(o, n, d).len, NEW q, Cut(q, e, o, n)
    PROVE  Cut(<<ChunkAt(o, n, d)>> \o q, d, o, n)
<1> DEFINE c == ChunkAt(o, n, d)
           r == <<c>> \o q
<1>1. c \in Chunk /\ c.done = d /\ c.len \in Nat /\ c.len >= 1 /\ d + c.len <= n
  BY ChunkFacts DEF Chunk
<1>2. e \in Nat /\ e > d /\ e <= n /\ e = c.done + c.len
  <2> HIDE DEF c
  <2>1. e = d + c.len
    BY DEF c
  <2> QED BY <1>1, <2>1
<1>3. q \in Seq(Chunk) /\ Len(q) \in Nat
  BY DEF Cut
<1> HIDE DEF c
<1>4. /\ r \in Seq(Chunk) /\ Len(r) = Len(q) + 1 /\ r[1] = c
      /\ \A i \in 1..Len(q) : r[i + 1] = q[i]
  BY <1>1, <1>3
<1> HIDE DEF r
<1>5. ASSUME NEW i \in 1..Len(r) PROVE r[i].done \in d..(n - 1) /\ r[i] = ChunkAt(o, n, r[i].done)
  <2>1. CASE i = 1
    BY <1>1, <1>4, <2>1 DEF c
  <2>2. CASE i # 1
    <3>1. i - 1 \in 1..Len(q) /\ i - 1 + 1 = i
      BY <1>3, <1>4, <2>2
    <3>2. r[i] = q[i - 1]
      BY <1>4, <3>1
    <3>3. q[i - 1].done \in e..(n - 1) /\ q[i - 1] = ChunkAt(o, n, q[i - 1].done)
      BY <3>1 DEF Cut
    <3> QED BY <1>2, <3>2, <3>3
  <2> QED BY <2>1, <2>2
<1>6. ASSUME NEW i \in 1..(Len(r) - 1) PROVE r[i + 1].done = r[i].done + r[i].len
  <2>1. i \in 1..Len(q) /\ r[i + 1] = q[i]
    BY <1>3, <1>4
  <2>2. CASE i = 1
    <3>1. e < n
      BY <1>2, <1>3, <2>1 DEF Cut
    <3> QED BY <1>2, <1>4, <2>1, <2>2, <3>1 DEF Cut
  <2>3. CASE i # 1
    <3>1. i - 1 \in 1..(Len(q) - 1) /\ i - 1 + 1 = i /\ i - 1 \in 1..Len(q)
      BY <1>3, <2>1, <2>3
    <3>2. r[i] = q[i - 1]
      BY <1>4, <3>1
    <3>3. q[i].done = q[i - 1].done + q[i - 1].len
      BY <3>1 DEF Cut
    <3> QED BY <2>1, <3>2, <3>3
  <2> QED BY <2>2, <2>3
<1>7. r[Len(r)].done + r[Len(r)].len = n
  <2>1. CASE e = n
    <3>1. Len(q) = 0
      BY <2>1 DEF Cut
    <3> QED BY <1>2, <1>4, <2>1, <3>1
  <2>2. CASE e # n
    <3>1. e < n
      BY <1>2, <2>2
    <3>2. Len(q) >= 1 /\ q[Len(q)].done + q[Len(q)].len = n
      BY <3>1 DEF Cut
    <3>3. r[Len(r)] = q[Len(q)]
      BY <1>3, <1>4, <3>2
    <3> QED BY <3>2, <3>3
  <2> QED BY <2>1, <2>2
<1>8. Cut(r, d, o, n)
  <2>1. Len(r) >= 1 /\ d # n /\ r[1].done = d
    BY <1>1, <1>3, <1>4
  <2> QED BY <1>4, <1>5, <1>6, <1>7, <2>1 DEF Cut
<1> QED BY <1>8 DEF r, c

LEMMA ChunksCut ==
    ASSUME NEW o \in Nat, NEW n \in Nat
    PROVE  Cut(Chunks(o, n), 0, o, n)
<1>1. PICK f : IsCut(f, n, o, n) /\ Chunks(o, n) = f[0]
  BY ChunksAreCut
<1>2. ASSUME NEW d \in 0..n
      PROVE  f[d] = IF d = n THEN << >> ELSE <<ChunkAt(o, n, d)>> \o f[d + ChunkAt(o, n, d).len]
  <2>1. d \in (n - n)..n
    OBVIOUS
  <2> QED BY <1>1, <2>1 DEF IsCut
<1> DEFINE T == {k \in Nat : k <= n => \A d \in (n - k)..n : Cut(f[d], d, o, n)}
<1>3. 0 \in T
  <2> SUFFICES ASSUME NEW d \in (n - 0)..n PROVE Cut(f[d], d, o, n)
    OBVIOUS
  <2>1. d = n /\ d \in 0..n /\ ~(d < n)
    OBVIOUS
  <2>2. f[d] = << >>
    BY <1>2, <2>1
  <2> QED BY <2>1, <2>2 DEF Cut
<1>4. ASSUME NEW k \in Nat, k \in T PROVE k + 1 \in T
  <2> SUFFICES ASSUME k + 1 <= n, NEW d \in (n - (k + 1))..n PROVE Cut(f[d], d, o, n)
    OBVIOUS
  <2>1. k <= n /\ d \in 0..n /\ (d \in (n - k)..n \/ d = n - k - 1)
    OBVIOUS
  <2>2. \A x \in (n - k)..n : Cut(f[x], x, o, n)
    BY <1>4, <2>1
  <2>3. CASE d \in (n - k)..n
    BY <2>2, <2>3
  <2>4. CASE d = n - k - 1
    <3>1. d \in Nat /\ d < n /\ d # n
      BY <2>1, <2>4
    <3> DEFINE e == d + ChunkAt(o, n, d).len
    <3>2. e \in (n - k)..n
      <4>1. ChunkAt(o, n, d).len \in Nat /\ ChunkAt(o, n, d).len >= 1 /\ d + ChunkAt(o, n, d).len <= n
        BY <3>1, ChunkFacts DEF Chunk
      <4> QED BY <2>4, <4>1
    <3>3. f[d] = <<ChunkAt(o, n, d)>> \o f[e]
      BY <1>2, <2>1, <3>1
    <3>4. Cut(f[e], e, o, n)
      BY <2>2, <3>2
    <3>5. Cut(<<ChunkAt(o, n, d)>> \o f[e], d, o, n)
      BY <3>1, <3>4, CutGrows
    <3> QED BY <3>3, <3>5
  <2> QED BY <2>1, <2>3, <2>4
<1> HIDE DEF T
<1>5. n \in T
  BY <1>3, <1>4, SetInduction
<1>6. Cut(f[0], 0, o, n)
  <2>1. 0 \in (n - n)..n
    OBVIOUS
  <2> QED BY <1>5, <2>1 DEF T
<1> QED BY <1>1, <1>6

\* How many bytes the first j chunks cover.
End(cs, j) == IF j = 0 THEN 0 ELSE cs[j].done + cs[j].len

\* What one chunk covers.
LEMMA ChunkOf ==
    ASSUME NEW o \in Nat, NEW n \in Nat, NEW cs, Cut(cs, 0, o, n), NEW i \in 1..Len(cs)
    PROVE  /\ cs[i].block \in Nat /\ cs[i].from \in 0..(BlockSize - 1)
           /\ cs[i].len \in Nat /\ cs[i].len >= 1 /\ cs[i].done \in Nat
           /\ cs[i].done < n /\ cs[i].done + cs[i].len <= n
           /\ cs[i].from + cs[i].len <= BlockSize
           /\ o + cs[i].done = cs[i].block * BlockSize + cs[i].from
           /\ cs[i].done + cs[i].len = n \/ cs[i].from + cs[i].len = BlockSize
<1>1. cs[i].done \in 0..(n - 1) /\ cs[i] = ChunkAt(o, n, cs[i].done)
  BY DEF Cut
<1>2. cs[i].done \in Nat /\ cs[i].done < n
  BY <1>1
<1> DEFINE d == cs[i].done
           c == ChunkAt(o, n, d)
<1>3. /\ c \in Chunk /\ c.from \in 0..(BlockSize - 1)
      /\ c.len >= 1 /\ d + c.len <= n /\ c.from + c.len <= BlockSize
      /\ o + d = c.block * BlockSize + c.from
      /\ d + c.len = n \/ c.from + c.len = BlockSize
  <2> HIDE DEF d
  <2>1. d \in Nat /\ d < n
    BY <1>2 DEF d
  <2> QED BY <2>1, ChunkFacts
<1>4. c = cs[i]
  BY <1>1
<1>5. c.block \in Nat /\ c.len \in Nat
  BY <1>3 DEF Chunk
<1> HIDE DEF c
<1> QED BY <1>2, <1>3, <1>4, <1>5

\* Where a chunk lies, as one fact.
LiesAt(c, o, n) ==
    /\ o + c.done = c.block * BlockSize + c.from
    /\ c.from \in 0..(BlockSize - 1) /\ c.done \in Nat /\ c.done < n

LEMMA ChunkLies ==
    ASSUME NEW o \in Nat, NEW n \in Nat, NEW cs, Cut(cs, 0, o, n), NEW i \in 1..Len(cs)
    PROVE  LiesAt(cs[i], o, n)
BY ChunkOf DEF LiesAt

\* The chunks follow one another.
LEMMA ChunkRow ==
    ASSUME NEW o \in Nat, NEW n \in Nat, NEW cs, Cut(cs, 0, o, n)
    PROVE  /\ Len(cs) \in Nat /\ (n = 0 <=> Len(cs) = 0)
           /\ End(cs, Len(cs)) = n
           /\ \A i \in 1..Len(cs) : cs[i].done = End(cs, i - 1)
           /\ \A j \in 0..Len(cs) : End(cs, j) \in 0..n
<1>1. /\ cs \in Seq(Chunk) /\ Len(cs) \in Nat
      /\ 0 = n => cs = << >>
      /\ 0 < n => Len(cs) >= 1 /\ cs[1].done = 0 /\ cs[Len(cs)].done + cs[Len(cs)].len = n
      /\ \A i \in 1..(Len(cs) - 1) : cs[i + 1].done = cs[i].done + cs[i].len
  BY DEF Cut
<1>2. n = 0 <=> Len(cs) = 0
  <2>1. n = 0 => Len(cs) = 0
    BY <1>1
  <2>2. n # 0 => Len(cs) >= 1
    BY <1>1
  <2> QED BY <2>1, <2>2
<1>3. End(cs, Len(cs)) = n
  BY <1>1, <1>2 DEF End
<1>4. ASSUME NEW i \in 1..Len(cs) PROVE cs[i].done = End(cs, i - 1)
  <2>1. CASE i = 1
    BY <1>1, <1>2, <2>1 DEF End
  <2>2. CASE i # 1
    <3>1. i - 1 \in 1..(Len(cs) - 1) /\ i - 1 + 1 = i /\ i - 1 # 0
      BY <1>1, <2>2
    <3>2. cs[i - 1 + 1].done = cs[i - 1].done + cs[i - 1].len
      BY <1>1, <3>1
    <3> QED BY <3>1, <3>2 DEF End
  <2> QED BY <2>1, <2>2
<1>5. ASSUME NEW j \in 0..Len(cs) PROVE End(cs, j) \in 0..n
  <2>1. CASE j = 0
    BY <2>1 DEF End
  <2>2. CASE j # 0
    <3>1. j \in 1..Len(cs)
      BY <1>1, <2>2
    <3>2. cs[j].len \in Nat /\ cs[j].done \in Nat /\ cs[j].done + cs[j].len <= n
      BY <3>1, ChunkOf
    <3>3. cs[j].done + cs[j].len \in 0..n
      BY <3>2
    <3> QED BY <2>2, <3>3 DEF End
  <2> QED BY <2>1, <2>2
<1> QED BY <1>1, <1>2, <1>3, <1>4, <1>5

\* They cover every byte.
LEMMA ChunksCover ==
    ASSUME NEW o \in Nat, NEW n \in Nat, NEW cs, Cut(cs, 0, o, n)
    PROVE  \A j \in 0..Len(cs) : \A x \in Nat :
             x < End(cs, j) <=> \E m \in 1..j : cs[m].done <= x /\ x < cs[m].done + cs[m].len
<1> DEFINE In(m, x) == cs[m].done <= x /\ x < cs[m].done + cs[m].len
           T == {j \in Nat : j <= Len(cs) => \A x \in Nat : x < End(cs, j) <=> \E m \in 1..j : In(m, x)}
<1>1. 0 \in T
  BY DEF End
<1>2. ASSUME NEW j \in Nat, j \in T PROVE j + 1 \in T
  <2> SUFFICES ASSUME j + 1 <= Len(cs), NEW x \in Nat
      PROVE  x < End(cs, j + 1) <=> \E m \in 1..(j + 1) : In(m, x)
    OBVIOUS
  <2>a. Len(cs) \in Nat
    BY ChunkRow
  <2>1. j + 1 \in 1..Len(cs) /\ j \in 0..Len(cs) /\ j <= Len(cs) /\ j + 1 - 1 = j
    BY <2>a
  <2>2. x < End(cs, j) <=> \E m \in 1..j : In(m, x)
    BY <1>2, <2>1
  <2>3. cs[j + 1].done = End(cs, j) /\ cs[j + 1].len \in Nat /\ cs[j + 1].done \in Nat
    <3>1. cs[j + 1].done = End(cs, j + 1 - 1)
      BY <2>1, ChunkRow
    <3>2. cs[j + 1].len \in Nat /\ cs[j + 1].done \in Nat
      BY <2>1, ChunkOf
    <3> QED BY <2>1, <3>1, <3>2
  <2>4. End(cs, j + 1) = cs[j + 1].done + cs[j + 1].len
    BY DEF End
  <2>5. x < End(cs, j + 1) <=> x < End(cs, j) \/ In(j + 1, x)
    BY <2>3, <2>4
  <2>6. 1..(j + 1) = 1..j \cup {j + 1}
    OBVIOUS
  <2> HIDE DEF In
  <2> QED BY <2>2, <2>5, <2>6
<1> HIDE DEF T
<1>3. \A j \in Nat : j \in T
  BY <1>1, <1>2, SetInduction
<1>4. Len(cs) \in Nat
  BY ChunkRow
<1> QED BY <1>3, <1>4 DEF T

\* Every chunk is in a block of its own.
LEMMA ChunkBlocks ==
    ASSUME NEW o \in Nat, NEW n \in Nat, NEW cs, Cut(cs, 0, o, n)
    PROVE  /\ \A i \in 1..Len(cs) : cs[i].block = cs[1].block + i - 1
           /\ \A i, k \in 1..Len(cs) : cs[i].block = cs[k].block => i = k
<1>a. Len(cs) \in Nat
  BY ChunkRow
<1>b. BlockSize \in Nat /\ BlockSize >= 1
  BY Sizes
<1> DEFINE T == {j \in Nat : j + 1 <= Len(cs) => cs[j + 1].block = cs[1].block + j}
<1>1. 0 \in T
  <2> SUFFICES ASSUME 1 <= Len(cs) PROVE cs[1].block = cs[1].block + 0
    OBVIOUS
  <2>1. 1 \in 1..Len(cs)
    BY <1>a
  <2>2. cs[1].block \in Nat
    BY <2>1, ChunkOf
  <2> QED BY <2>2
<1>2. ASSUME NEW j \in Nat, j \in T PROVE j + 1 \in T
  <2> SUFFICES ASSUME j + 1 + 1 <= Len(cs) PROVE cs[j + 1 + 1].block = cs[1].block + (j + 1)
    OBVIOUS
  <2>1. /\ 1 \in 1..Len(cs) /\ j + 1 \in 1..Len(cs) /\ j + 1 <= Len(cs)
        /\ j + 1 + 1 \in 1..Len(cs) /\ j + 1 + 1 - 1 = j + 1 /\ j + 1 # 0
    BY <1>a
  <2>2. cs[j + 1].block = cs[1].block + j
    BY <1>2, <2>1
  <2>a. \A i \in 1..Len(cs) :
          /\ cs[i].block \in Nat /\ cs[i].from \in 0..(BlockSize - 1)
          /\ cs[i].len \in Nat /\ cs[i].done \in Nat /\ cs[i].done < n
          /\ o + cs[i].done = cs[i].block * BlockSize + cs[i].from
          /\ cs[i].done + cs[i].len = n \/ cs[i].from + cs[i].len = BlockSize
    BY ChunkOf
  <2>b. \A i \in 1..Len(cs) : cs[i].done = End(cs, i - 1)
    BY ChunkRow
  <2> DEFINE c == cs[j + 1]
             e == cs[j + 1 + 1]
  <2>3. /\ c.block \in Nat /\ c.from \in 0..(BlockSize - 1) /\ c.len \in Nat /\ c.done \in Nat
        /\ o + c.done = c.block * BlockSize + c.from
        /\ c.done + c.len = n \/ c.from + c.len = BlockSize
    BY <2>1, <2>a
  <2>4. /\ e.block \in Nat /\ e.from \in 0..(BlockSize - 1) /\ e.done \in Nat /\ e.done < n
        /\ o + e.done = e.block * BlockSize + e.from
    BY <2>1, <2>a
  <2>5. e.done = c.done + c.len
    <3>1. e.done = End(cs, j + 1)
      BY <2>1, <2>b
    <3> QED BY <2>1, <3>1 DEF End
  <2> HIDE DEF c, e
  <2>6. c.from + c.len = BlockSize
    BY <2>3, <2>4, <2>5
  <2>7. c.block * BlockSize + BlockSize = (c.block + 1) * BlockSize + 0
    BY <1>b, <2>3
  <2>8. c.block * BlockSize \in Nat /\ e.block * BlockSize \in Nat
    <3>1. \A x \in Nat : x * BlockSize \in Nat
      BY <1>b
    <3> QED BY <2>3, <2>4, <3>1
  <2>9. e.block * BlockSize + e.from = c.block * BlockSize + BlockSize
    <3>2. c.from \in Nat /\ e.from \in Nat
      BY <1>b, <2>3, <2>4
    <3> DEFINE x == c.block * BlockSize
               y == e.block * BlockSize
    <3>3. /\ x \in Nat /\ y \in Nat /\ o + c.done = x + c.from /\ o + e.done = y + e.from
      BY <2>3, <2>4, <2>8
    <3> HIDE DEF x, y
    <3>4. y + e.from = x + BlockSize
      <4>1. c.done \in Nat /\ c.len \in Nat /\ e.done \in Nat
        BY <2>3, <2>4
      <4>2. y + e.from = o + (c.done + c.len)
        BY <2>5, <3>3
      <4>3. o + (c.done + c.len) = (o + c.done) + c.len
        BY <4>1
      <4>4. (o + c.done) + c.len = (x + c.from) + c.len
        BY <3>3
      <4>5. (x + c.from) + c.len = x + (c.from + c.len)
        BY <3>2, <3>3, <4>1
      <4> QED BY <2>6, <4>2, <4>3, <4>4, <4>5
    <3> QED BY <3>4 DEF x, y
  <2>10. c.block + 1 \in Nat /\ 0 \in 0..(BlockSize - 1)
    BY <1>b, <2>3
  <2>11. e.block = c.block + 1
    BY <2>4, <2>7, <2>9, <2>10, OneBlock
  <2>12. cs[1].block \in Nat
    BY <2>1, ChunkOf
  <2>13. e.block = cs[1].block + (j + 1)
    <3>1. c.block = cs[1].block + j
      BY <2>2 DEF c
    <3>2. \A x \in Nat : x + j + 1 = x + (j + 1)
      OBVIOUS
    <3> QED BY <2>11, <2>12, <3>1, <3>2
  <2> QED BY <2>13 DEF e
<1> HIDE DEF T
<1>3. \A j \in Nat : j \in T
  BY <1>1, <1>2, SetInduction
<1>4. ASSUME NEW i \in 1..Len(cs) PROVE cs[i].block = cs[1].block + i - 1 /\ cs[1].block \in Nat
  <2>1. i - 1 \in Nat /\ i - 1 + 1 = i /\ i - 1 + 1 <= Len(cs) /\ 1 \in 1..Len(cs)
    BY <1>a
  <2>2. cs[i - 1 + 1].block = cs[1].block + (i - 1)
    BY <1>3, <2>1 DEF T
  <2>3. cs[1].block \in Nat
    BY <2>1, ChunkOf
  <2> QED BY <2>1, <2>2, <2>3
<1>5. ASSUME NEW i \in 1..Len(cs), NEW k \in 1..Len(cs), cs[i].block = cs[k].block PROVE i = k
  <2>1. cs[1].block \in Nat /\ cs[1].block + i - 1 = cs[1].block + k - 1
    BY <1>4, <1>5
  <2> QED BY <2>1
<1> QED BY <1>4, <1>5

-----------------------------------------------------------------------------
(***************************************************************************)
(* Blocks as bytes                                                         *)
(***************************************************************************)

Capacity == MaxBlocks * BlockSize
Position == 0..(Capacity - 1)
Map == [Logical -> Content \cup {Hole}]

\* What block l of the map b reads as.
As(b, l) == IF b[l] = Hole THEN Zeroes ELSE b[l]

\* The bytes of the map b.
Bytes(b) == [p \in Position |-> As(b, p \div BlockSize)[p % BlockSize]]

LEMMA PlaceOf ==
    ASSUME NEW p \in Position
    PROVE  /\ p \in Nat /\ p \div BlockSize \in Logical /\ p % BlockSize \in 0..(BlockSize - 1)
           /\ p = (p \div BlockSize) * BlockSize + (p % BlockSize)
<1>1. /\ BlockSize \in Nat /\ BlockSize >= 1 /\ MaxBlocks \in Nat /\ Capacity \in Nat
      /\ Capacity = MaxBlocks * BlockSize
  BY Sizes DEF Capacity
<1>2. p \in Nat /\ p < Capacity
  BY <1>1 DEF Position
<1> DEFINE q == p \div BlockSize
           r == p % BlockSize
<1>3. q \in Nat /\ r \in 0..(BlockSize - 1) /\ p = q * BlockSize + r
  BY <1>2, DivMod
<1> HIDE DEF q, r
<1>4. q < MaxBlocks
  <2> SUFFICES ASSUME q >= MaxBlocks PROVE FALSE
    BY <1>1, <1>3
  <2>1. q - MaxBlocks \in Nat /\ q = MaxBlocks + (q - MaxBlocks)
    BY <1>1, <1>3
  <2>2. \A a, b, c \in Nat : (a + b) * c = a * c + b * c /\ b * c \in Nat
    OBVIOUS
  <2>3. /\ (MaxBlocks + (q - MaxBlocks)) * BlockSize = Capacity + (q - MaxBlocks) * BlockSize
        /\ (q - MaxBlocks) * BlockSize \in Nat
    BY <1>1, <2>1, <2>2
  <2>4. q * BlockSize = Capacity + (q - MaxBlocks) * BlockSize
    BY <2>1, <2>3
  <2> DEFINE x == (q - MaxBlocks) * BlockSize
  <2>5. x \in Nat /\ p = (Capacity + x) + r
    BY <1>3, <2>3, <2>4
  <2> HIDE DEF x
  <2>6. r \in Nat
    BY <1>1, <1>3
  <2> QED BY <1>1, <1>2, <2>5, <2>6
<1>5. q \in Logical
  BY <1>1, <1>3, <1>4 DEF Logical
<1> QED BY <1>2, <1>3, <1>5 DEF q, r

LEMMA PositionOf ==
    ASSUME NEW l \in Nat, NEW i \in 0..(BlockSize - 1)
    PROVE  /\ l * BlockSize + i \in Nat
           /\ l \in Logical <=> l * BlockSize + i < Capacity
           /\ l \in Logical <=> l * BlockSize + i \in Position
           /\ (l * BlockSize + i) \div BlockSize = l
           /\ (l * BlockSize + i) % BlockSize = i
<1>1. /\ BlockSize \in Nat /\ BlockSize >= 1 /\ MaxBlocks \in Nat /\ Capacity \in Nat
      /\ Capacity = MaxBlocks * BlockSize
  BY Sizes DEF Capacity
<1> DEFINE x == l * BlockSize + i
<1>2. x \in Nat /\ x \div BlockSize = l /\ x % BlockSize = i
  BY BlockOf
<1>3. ASSUME l \in Logical PROVE x < Capacity
  <2>1. MaxBlocks - l - 1 \in Nat /\ MaxBlocks = l + 1 + (MaxBlocks - l - 1)
    BY <1>1, <1>3 DEF Logical
  <2>2. \A a, b, c \in Nat : (a + 1 + b) * c = a * c + c + b * c /\ b * c \in Nat /\ a * c \in Nat
    OBVIOUS
  <2>3. (l + 1 + (MaxBlocks - l - 1)) * BlockSize = l * BlockSize + BlockSize + (MaxBlocks - l - 1) * BlockSize
        /\ (MaxBlocks - l - 1) * BlockSize \in Nat /\ l * BlockSize \in Nat
    BY <1>1, <2>1, <2>2
  <2> DEFINE y == (MaxBlocks - l - 1) * BlockSize
             z == l * BlockSize
  <2>4. Capacity = z + BlockSize + y /\ y \in Nat /\ z \in Nat /\ x = z + i
    BY <1>1, <2>1, <2>3
  <2> HIDE DEF x, y, z
  <2> QED BY <1>1, <2>4
<1>4. ASSUME x < Capacity PROVE l \in Logical
  <2>1. x \in Position
    BY <1>1, <1>2, <1>4 DEF Position
  <2>2. x \div BlockSize \in Logical
    BY <2>1, PlaceOf
  <2> QED BY <1>2, <2>2
<1>5. x < Capacity <=> x \in Position
  BY <1>1, <1>2 DEF Position
<1> HIDE DEF x
<1>6. /\ x \in Nat /\ (l \in Logical <=> x < Capacity) /\ (l \in Logical <=> x \in Position)
      /\ x \div BlockSize = l /\ x % BlockSize = i
  BY <1>2, <1>3, <1>4, <1>5
<1> QED BY <1>6 DEF x

LEMMA ReadsBytes ==
    ASSUME NEW b \in Map, NEW l \in Logical
    PROVE  As(b, l) \in Content
<1>1. Zeroes \in Content
  BY Sizes DEF Zeroes, Content
<1> QED BY <1>1 DEF As, Map

LEMMA HoleIsNoContent == Hole \notin Content
  BY RawFileAssumption DEF Content

\* What the bytes of a map are.
LEMMA BytesOf ==
    ASSUME NEW b \in Map
    PROVE  /\ Bytes(b) \in [Position -> Byte]
           /\ \A l \in Logical, i \in 0..(BlockSize - 1) : Bytes(b)[l * BlockSize + i] = As(b, l)[i]
<1>1. ASSUME NEW p \in Position PROVE As(b, p \div BlockSize)[p % BlockSize] \in Byte
  BY PlaceOf, ReadsBytes DEF Content
<1>2. Bytes(b) \in [Position -> Byte]
  BY <1>1 DEF Bytes
<1>3. ASSUME NEW l \in Logical, NEW i \in 0..(BlockSize - 1)
      PROVE  Bytes(b)[l * BlockSize + i] = As(b, l)[i]
  <2>1. l \in Nat
    BY Sizes DEF Logical
  <2> DEFINE p == l * BlockSize + i
  <2>2. p \in Position /\ p \div BlockSize = l /\ p % BlockSize = i
    BY <2>1, PositionOf
  <2> HIDE DEF p
  <2>3. Bytes(b)[p] = As(b, l)[i]
    BY <2>2 DEF Bytes
  <2> QED BY <2>3 DEF p
<1> QED BY <1>2, <1>3

-----------------------------------------------------------------------------
(***************************************************************************)
(* What a write does                                                       *)
(***************************************************************************)

\* Block c.block with chunk c of the data in it.
Patched(data, c) ==
    [i \in 0..(BlockSize - 1) |->
        IF i \in c.from..(c.from + c.len - 1) THEN data[c.done + i - c.from + 1]
        ELSE ReadAs(c.block)[i]]

LEMMA InsideData ==
    ASSUME NEW done \in Nat, NEW from \in Nat, NEW len \in Nat, NEW i \in Nat, NEW n \in Nat,
           done + len <= n, i \in from..(from + len - 1)
    PROVE  done + i - from + 1 \in 1..n
OBVIOUS

LEMMA PatchedIsContent ==
    ASSUME NEW o \in Nat, NEW n \in Nat, NEW data \in [1..n -> Byte],
           NEW cs, Cut(cs, 0, o, n), NEW m \in 1..Len(cs), cs[m].block \in Logical, blocks \in Map
    PROVE  Patched(data, cs[m]) \in Content
<1> DEFINE c == cs[m]
<1>1. /\ c.from \in 0..(BlockSize - 1) /\ c.len \in Nat /\ c.done \in Nat
      /\ c.done + c.len <= n /\ BlockSize \in Nat
  BY ChunkOf, Sizes
<1>2. c.block \in Logical
  OBVIOUS
<1> HIDE DEF c
<1>3. ASSUME NEW i \in 0..(BlockSize - 1)
      PROVE  (IF i \in c.from..(c.from + c.len - 1) THEN data[c.done + i - c.from + 1]
              ELSE ReadAs(c.block)[i]) \in Byte
  <2>1. ASSUME i \in c.from..(c.from + c.len - 1) PROVE data[c.done + i - c.from + 1] \in Byte
    <3>1. i \in Nat /\ c.from \in Nat
      BY <1>1
    <3>2. c.done + i - c.from + 1 \in 1..n
      BY <1>1, <2>1, <3>1, InsideData
    <3> QED BY <3>2
  <2>2. ReadAs(c.block)[i] \in Byte
    <3>1. ReadAs(c.block) = As(blocks, c.block)
      BY DEF ReadAs, As
    <3> QED BY <1>2, <3>1, ReadsBytes DEF Content
  <2> QED BY <2>1, <2>2
<1>4. Patched(data, c) \in Content
  BY <1>3 DEF Patched, Content
<1> QED BY <1>4 DEF c

\* A write of its first j chunks changes the blocks of these chunks.
LEMMA WrittenBlocks ==
    ASSUME NEW o \in Nat, NEW n \in Nat, NEW data \in [1..n -> Byte],
           NEW j \in 0..Len(Chunks(o, n)), blocks \in Map
    PROVE  LET cs == Chunks(o, n)
               new == WrittenTo(o, data, j)
           IN  /\ new \in Map
               /\ \A m \in 1..j : cs[m].block \in Logical => new[cs[m].block] = Patched(data, cs[m])
               /\ \A l \in Logical : (\A m \in 1..j : cs[m].block # l) => new[l] = blocks[l]
<1> DEFINE cs == Chunks(o, n)
           Hit(l) == \E i \in 1..j : cs[i].block = l
           new == [l \in Logical |-> IF Hit(l) THEN Patched(data, cs[CHOOSE i \in 1..j : cs[i].block = l])
                                     ELSE blocks[l]]
<1>1. Len(data) = n
  <2>1. data \in Seq(Byte) /\ Len(data) = n
    OBVIOUS
  <2> QED BY <2>1
<1>2. WrittenTo(o, data, j) = new
  BY <1>1 DEF WrittenTo, Patched
<1>a. Cut(cs, 0, o, n) /\ j \in 0..Len(cs)
  BY ChunksCut
<1> HIDE DEF cs
<1>3. Len(cs) \in Nat /\ \A i, k \in 1..Len(cs) : cs[i].block = cs[k].block => i = k
  BY <1>a, ChunkRow, ChunkBlocks
<1>4. \A i \in 1..j : i \in 1..Len(cs)
  BY <1>3, <1>a
<1>5. ASSUME NEW l \in Logical, NEW m \in 1..j, cs[m].block = l
      PROVE  new[l] = Patched(data, cs[m])
  <2>1. Hit(l)
    BY <1>5
  <2>2. PICK k \in 1..j : cs[k].block = l /\ k = CHOOSE i \in 1..j : cs[i].block = l
    BY <2>1
  <2>3. k = m
    BY <1>3, <1>4, <1>5, <2>2
  <2> QED BY <2>1, <2>2, <2>3
<1>6. ASSUME NEW l \in Logical, \A m \in 1..j : cs[m].block # l
      PROVE  new[l] = blocks[l]
  BY <1>6
<1>7. new = [l \in Logical |-> new[l]]
  OBVIOUS
<1> HIDE DEF new
<1>8. new \in Map
  <2> SUFFICES ASSUME NEW l \in Logical PROVE new[l] \in Content \cup {Hole}
    BY <1>7 DEF Map
  <2>1. CASE Hit(l)
    <3>1. PICK m \in 1..j : cs[m].block = l
      BY <2>1
    <3>2. Patched(data, cs[m]) \in Content
      BY <1>4, <1>a, <3>1, PatchedIsContent
    <3> QED BY <1>5, <3>1, <3>2
  <2>2. CASE ~Hit(l)
    BY <1>6, <2>2 DEF Map
  <2> QED BY <2>1, <2>2
<1> QED BY <1>2, <1>5, <1>6, <1>8 DEF cs

\* A byte lies in a chunk where its block is the one of the chunk and its place
\* there is one of the chunk's.
LEMMA InChunk ==
    ASSUME NEW o \in Nat, NEW n \in Nat, NEW cs, Cut(cs, 0, o, n), NEW m \in 1..Len(cs), NEW p \in Nat
    PROVE  LET c == cs[m]
               i == p % BlockSize
           IN  /\ o + c.done <= p /\ p < o + c.done + c.len
                  <=> c.block = p \div BlockSize /\ i \in c.from..(c.from + c.len - 1)
               /\ i \in Nat
               /\ c.block = p \div BlockSize => c.done + i - c.from + 1 = p - o + 1
<1> DEFINE c == cs[m]
           b == c.block * BlockSize
           l == p \div BlockSize
           i == p % BlockSize
           x == l * BlockSize
<1>1. /\ c.block \in Nat /\ c.from \in 0..(BlockSize - 1) /\ c.len \in Nat /\ c.done \in Nat
      /\ c.from + c.len <= BlockSize /\ o + c.done = b + c.from
  BY ChunkOf
<1>2. l \in Nat /\ i \in 0..(BlockSize - 1) /\ p = x + i
  BY DivMod
<1>3. BlockSize \in Nat /\ BlockSize >= 1 /\ \A u \in Nat : u * BlockSize \in Nat
  BY Sizes
<1> HIDE DEF c, l, i
<1>4. b \in Nat /\ x \in Nat
  BY <1>1, <1>2, <1>3
<1>5. c.block = l => b = x
  OBVIOUS
<1>6. ASSUME NEW y \in 0..(BlockSize - 1), p = b + y PROVE c.block = l /\ y = i
  <2>1. l * BlockSize + i = c.block * BlockSize + y
    BY <1>2, <1>6
  <2> QED BY <1>1, <1>2, <2>1, OneBlock
<1> HIDE DEF b, x
<1> DEFINE f == c.from
           d == c.done
           e == c.len
<1>7. f \in Nat /\ d \in Nat /\ e \in Nat /\ f + e <= BlockSize /\ i \in Nat /\ o + d = b + f
  BY <1>1, <1>2, <1>3
<1> HIDE DEF f, d, e
<1>8. b = x => d + i - f + 1 = p - o + 1 /\ ((o + d <= p /\ p < o + d + e) <=> i \in f..(f + e - 1))
  BY <1>2, <1>4, <1>7
<1>9. ASSUME o + d <= p, p < o + d + e PROVE c.block = l
  <2> DEFINE y == p - b
  <2>1. y \in 0..(BlockSize - 1) /\ p = b + y
    BY <1>3, <1>4, <1>7, <1>9
  <2> HIDE DEF y
  <2> QED BY <1>6, <2>1
<1>10. /\ o + d <= p /\ p < o + d + e <=> c.block = l /\ i \in f..(f + e - 1)
       /\ i \in Nat
       /\ c.block = l => d + i - f + 1 = p - o + 1
  BY <1>5, <1>7, <1>8, <1>9
<1> QED BY <1>10 DEF c, l, i, f, d, e

LEMMA ShiftRange ==
    ASSUME NEW p \in Nat, NEW o \in Nat, NEW k \in Nat
    PROVE  p \in o..(o + k - 1) <=> o <= p /\ p - o < k
OBVIOUS

LEMMA ShiftChunk ==
    ASSUME NEW p \in Nat, NEW o \in Nat, NEW d \in Nat, NEW e \in Nat
    PROVE  /\ o <= p /\ d <= p - o /\ p - o < d + e <=> o + d <= p /\ p < o + d + e
           /\ o <= p => p - o \in Nat
OBVIOUS

\* The first j chunks hold the bytes from o to o + End(cs, j).
LEMMA InChunks ==
    ASSUME NEW o \in Nat, NEW n \in Nat, NEW cs, Cut(cs, 0, o, n), NEW j \in 0..Len(cs), NEW p \in Nat
    PROVE  p \in o..(o + End(cs, j) - 1)
             <=> \E m \in 1..j : /\ cs[m].block = p \div BlockSize
                                 /\ p % BlockSize \in cs[m].from..(cs[m].from + cs[m].len - 1)
<1> DEFINE K == End(cs, j)
           At(m) == o + cs[m].done <= p /\ p < o + cs[m].done + cs[m].len
           Has(m) == cs[m].block = p \div BlockSize
                     /\ p % BlockSize \in cs[m].from..(cs[m].from + cs[m].len - 1)
<1>1. K \in Nat /\ \A m \in 1..j : m \in 1..Len(cs)
  BY ChunkRow
<1>2. p \in o..(o + K - 1) <=> o <= p /\ p - o < K
  <2> HIDE DEF K
  <2> QED BY <1>1, ShiftRange
<1>3. \A x \in Nat : x < K <=> \E m \in 1..j : cs[m].done <= x /\ x < cs[m].done + cs[m].len
  BY ChunksCover
<1>4. \A m \in 1..j : cs[m].done \in Nat /\ cs[m].len \in Nat
  BY <1>1, ChunkOf
<1>5. o <= p => p - o \in Nat
  OBVIOUS
<1>6. \A m \in 1..j : o <= p /\ cs[m].done <= p - o /\ p - o < cs[m].done + cs[m].len <=> At(m)
  BY <1>4, ShiftChunk
<1>7. \A m \in 1..j : At(m) <=> Has(m)
  BY <1>1, InChunk
<1> HIDE DEF K, At, Has
<1>8. p \in o..(o + K - 1) <=> \E m \in 1..j : At(m)
  BY <1>2, <1>3, <1>5, <1>6, Zenon
<1>9. p \in o..(o + K - 1) <=> \E m \in 1..j : Has(m)
  BY <1>7, <1>8
<1> QED BY <1>9 DEF K, Has

\* In bytes: the first part of the data, in its place.
LEMMA WrittenBytes ==
    ASSUME NEW o \in Nat, NEW n \in Nat, NEW data \in [1..n -> Byte],
           NEW j \in 0..Len(Chunks(o, n)), blocks \in Map, NEW p \in Position
    PROVE  Bytes(WrittenTo(o, data, j))[p] =
             IF p \in o..(o + End(Chunks(o, n), j) - 1) THEN data[p - o + 1] ELSE Bytes(blocks)[p]
<1> DEFINE cs == Chunks(o, n)
           new == WrittenTo(o, data, j)
           l == p \div BlockSize
           i == p % BlockSize
           In == p \in o..(o + End(cs, j) - 1)
<1>a. Cut(cs, 0, o, n) /\ j \in 0..Len(cs)
  BY ChunksCut
<1>1. /\ new \in Map
      /\ \A m \in 1..j : cs[m].block \in Logical => new[cs[m].block] = Patched(data, cs[m])
      /\ \A x \in Logical : (\A m \in 1..j : cs[m].block # x) => new[x] = blocks[x]
  BY WrittenBlocks
<1>2. l \in Logical /\ i \in 0..(BlockSize - 1) /\ p \in Nat
  BY PlaceOf
<1>3. Bytes(new)[p] = As(new, l)[i] /\ Bytes(blocks)[p] = As(blocks, l)[i]
  BY DEF Bytes
<1> HIDE DEF cs
<1>4. \A m \in 1..j : m \in 1..Len(cs)
  BY <1>a, ChunkRow
<1>5. In <=> \E m \in 1..j : cs[m].block = l /\ i \in cs[m].from..(cs[m].from + cs[m].len - 1)
  BY <1>2, <1>a, InChunks
<1>6. \A m \in 1..j : cs[m].block = l => cs[m].done + i - cs[m].from + 1 = p - o + 1
  BY <1>2, <1>4, <1>a, InChunk
<1> HIDE DEF new, l, i, In
<1>7. ASSUME NEW m \in 1..j, cs[m].block = l
      PROVE  Bytes(new)[p] = IF i \in cs[m].from..(cs[m].from + cs[m].len - 1) THEN data[p - o + 1]
                             ELSE Bytes(blocks)[p]
  <2>1. new[l] = Patched(data, cs[m]) /\ Patched(data, cs[m]) \in Content
    <3>1. cs[m].block \in Logical
      BY <1>2, <1>7
    <3>2. Patched(data, cs[m]) \in Content
      BY <1>4, <1>a, <3>1, PatchedIsContent
    <3> QED BY <1>1, <1>7, <3>1, <3>2
  <2>2. As(new, l) = Patched(data, cs[m])
    BY <2>1, HoleIsNoContent DEF As
  <2>3. ReadAs(cs[m].block) = As(blocks, l)
    BY <1>7 DEF ReadAs, As
  <2> DEFINE S == cs[m].from..(cs[m].from + cs[m].len - 1)
             at == cs[m].done + i - cs[m].from + 1
  <2>4. Patched(data, cs[m])[i] = IF i \in S THEN data[at] ELSE ReadAs(cs[m].block)[i]
    BY <1>2 DEF Patched
  <2>5. at = p - o + 1
    BY <1>6, <1>7
  <2> HIDE DEF S, at
  <2>6. Bytes(new)[p] = IF i \in S THEN data[p - o + 1] ELSE Bytes(blocks)[p]
    BY <1>3, <2>2, <2>3, <2>4, <2>5
  <2> QED BY <2>6 DEF S
<1>8. CASE In
  <2>1. PICK m \in 1..j : cs[m].block = l /\ i \in cs[m].from..(cs[m].from + cs[m].len - 1)
    BY <1>5, <1>8
  <2>2. Bytes(new)[p] = data[p - o + 1]
    BY <1>7, <2>1
  <2> QED BY <1>8, <2>2 DEF In, cs, new
<1>9. CASE ~In
  <2>1. Bytes(new)[p] = Bytes(blocks)[p]
    <3>1. CASE \E m \in 1..j : cs[m].block = l
      <4>1. PICK m \in 1..j : cs[m].block = l
        BY <3>1
      <4>2. i \notin cs[m].from..(cs[m].from + cs[m].len - 1)
        BY <1>5, <1>9, <4>1
      <4> QED BY <1>7, <4>1, <4>2
    <3>2. CASE \A m \in 1..j : cs[m].block # l
      <4>1. new[l] = blocks[l]
        BY <1>1, <1>2, <3>2
      <4> QED BY <1>3, <4>1 DEF As
    <3> QED BY <3>1, <3>2
  <2> QED BY <1>9, <2>1 DEF In, cs, new
<1> QED BY <1>8, <1>9
-----------------------------------------------------------------------------
(***************************************************************************)
(* Where a read or a write ends                                            *)
(***************************************************************************)

\* A chunk lies within the map where its last byte does.
LEMMA ChunkFits ==
    ASSUME NEW o \in Nat, NEW n \in Nat, NEW cs, Cut(cs, 0, o, n), NEW m \in 1..Len(cs)
    PROVE  /\ cs[m].block \in Logical <=> o + End(cs, m) <= Capacity
           /\ cs[m].block \in Logical => o + cs[m].done < Capacity
<1> DEFINE c == cs[m]
           b == c.block * BlockSize
<1>1. /\ c.block \in Nat /\ c.from \in 0..(BlockSize - 1) /\ c.len \in Nat /\ c.len >= 1 /\ c.done \in Nat
      /\ c.from + c.len <= BlockSize /\ o + c.done = b + c.from
  BY ChunkOf
<1>2. BlockSize \in Nat /\ BlockSize >= 1 /\ Capacity \in Nat /\ \A u \in Nat : u * BlockSize \in Nat
  BY Sizes DEF Capacity
<1>3. b \in Nat
  BY <1>1, <1>2
<1>4. End(cs, m) = c.done + c.len
  BY DEF End
<1> HIDE DEF c
<1> DEFINE f == c.from
           d == c.done
           e == c.len
           i == f + e - 1
<1>5. f \in Nat /\ d \in Nat /\ e \in Nat /\ e >= 1 /\ f + e <= BlockSize /\ o + d = b + f
  BY <1>1, <1>2
<1>6. i \in 0..(BlockSize - 1)
  BY <1>2, <1>5
<1>7. c.block \in Logical <=> c.block * BlockSize + i < Capacity
  <2> HIDE DEF i
  <2> QED BY <1>1, <1>6, PositionOf
<1> HIDE DEF b, f, d, e
<1>8. b + i < Capacity <=> o + (d + e) <= Capacity
  BY <1>2, <1>3, <1>5
<1>9. b + i < Capacity => o + d < Capacity
  BY <1>2, <1>3, <1>5
<1> HIDE DEF i
<1>10. /\ c.block \in Logical <=> o + (d + e) <= Capacity
       /\ c.block \in Logical => o + d < Capacity
  BY <1>7, <1>8, <1>9 DEF b
<1> QED BY <1>4, <1>10 DEF c, d, e

\* All chunks lie within the map where the last byte does.
LEMMA ChunksFit ==
    ASSUME NEW o \in Nat, NEW n \in Nat, NEW cs, Cut(cs, 0, o, n)
    PROVE  (\A i \in 1..Len(cs) : cs[i].block \in Logical) <=> n = 0 \/ o + n <= Capacity
<1>1. Len(cs) \in Nat /\ (n = 0 <=> Len(cs) = 0) /\ End(cs, Len(cs)) = n
  BY ChunkRow
<1>2. CASE n = 0
  BY <1>1, <1>2
<1>3. CASE n # 0
  <2> DEFINE k == Len(cs)
  <2>1. k \in 1..Len(cs) /\ 1 \in 1..Len(cs) /\ End(cs, k) = n
    BY <1>1, <1>3
  <2> HIDE DEF k
  <2>2. cs[k].block \in Logical <=> o + n <= Capacity
    BY <2>1, ChunkFits
  <2>3. ASSUME cs[k].block \in Logical, NEW i \in 1..Len(cs) PROVE cs[i].block \in Logical
    <3>1. /\ \A x \in 1..Len(cs) : cs[x].block = cs[1].block + x - 1
          /\ cs[1].block \in Nat
      BY <2>1, ChunkBlocks, ChunkOf
    <3>2. cs[i].block = cs[1].block + i - 1 /\ cs[k].block = cs[1].block + k - 1
      BY <2>1, <3>1
    <3>3. \A u \in Nat : u + k - 1 \in Logical => u + i - 1 \in Logical
      BY <1>1, Sizes DEF Logical, k
    <3> QED BY <2>3, <3>1, <3>2, <3>3
  <2> QED BY <1>3, <2>1, <2>2, <2>3
<1> QED BY <1>2, <1>3

\* Where a read's chunks lie within the map, byte i of what it returns is byte
\* o + i - 1 of the file.
LEMMA ReadByte ==
    ASSUME NEW o \in Nat, NEW n \in Nat, n # 0 => o + n <= Capacity, blocks \in Map, NEW i \in 1..n
    PROVE  LET cs == Chunks(o, n)
               c == CHOOSE c \in {cs[k] : k \in 1..Len(cs)} : i \in (c.done + 1)..(c.done + c.len)
           IN  /\ ReadAs(c.block)[c.from + i - c.done - 1] = Bytes(blocks)[o + i - 1]
               /\ o + i - 1 \in Position
<1> DEFINE cs == Chunks(o, n)
           C == {cs[k] : k \in 1..Len(cs)}
           c == CHOOSE c \in C : i \in (c.done + 1)..(c.done + c.len)
           p == o + i - 1
<1>1. Cut(cs, 0, o, n)
  BY ChunksCut
<1> HIDE DEF cs
<1>2. Len(cs) \in Nat /\ End(cs, Len(cs)) = n /\ i - 1 \in Nat /\ i - 1 < n /\ Len(cs) \in 0..Len(cs)
  <2>1. Len(cs) \in Nat /\ End(cs, Len(cs)) = n
    BY <1>1, ChunkRow, SMTT(60)
  <2> QED BY <2>1
<1>3. PICK k \in 1..Len(cs) : cs[k].done <= i - 1 /\ i - 1 < cs[k].done + cs[k].len
  BY <1>1, <1>2, ChunksCover
<1>4. \A m \in 1..Len(cs) : cs[m].done \in Nat /\ cs[m].len \in Nat
  BY <1>1, ChunkOf
<1>5. i \in (cs[k].done + 1)..(cs[k].done + cs[k].len)
  BY <1>2, <1>3, <1>4
<1>6. c \in C /\ i \in (c.done + 1)..(c.done + c.len)
  BY <1>5
<1> HIDE DEF c
<1>7. PICK m \in 1..Len(cs) : c = cs[m]
  BY <1>6
<1>8. /\ c.block \in Nat /\ c.from \in 0..(BlockSize - 1) /\ c.len \in Nat /\ c.done \in Nat
      /\ BlockSize \in Nat
  BY <1>1, <1>7, ChunkOf, Sizes
<1>a. c.from \in Nat
  BY <1>8
<1>9. p \in Nat
  BY <1>2
<1>10. o + c.done <= p /\ p < o + c.done + c.len
  <2>1. \A d, e \in Nat : i \in (d + 1)..(d + e) => o + d <= p /\ p < o + d + e
    BY <1>2
  <2> HIDE DEF p
  <2> QED BY <1>6, <1>8, <2>1
<1>11. c.block = p \div BlockSize /\ p % BlockSize \in Nat
       /\ c.done + (p % BlockSize) - c.from + 1 = p - o + 1
  <2> HIDE DEF p
  <2> HIDE DEF C
  <2>0. m \in 1..Len(cs)
    OBVIOUS
  <2> DEFINE At == o + cs[m].done <= p /\ p < o + cs[m].done + cs[m].len
             Has == cs[m].block = p \div BlockSize
                    /\ p % BlockSize \in cs[m].from..(cs[m].from + cs[m].len - 1)
  <2>a. At <=> Has
    BY <1>1, <1>9, <2>0, InChunk
  <2>b. p % BlockSize \in Nat
    BY <1>1, <1>9, <2>0, InChunk
  <2>c. cs[m].block = p \div BlockSize => cs[m].done + (p % BlockSize) - cs[m].from + 1 = p - o + 1
    BY <1>1, <1>9, <2>0, InChunk
  <2> QED BY <1>7, <1>10, <2>a, <2>b, <2>c
<1>12. c.from + i - c.done - 1 = p % BlockSize
  <2> DEFINE r == p % BlockSize
  <2>1. c.done + r - c.from + 1 = p - o + 1 /\ r \in Nat
    BY <1>11
  <2> HIDE DEF r
  <2>2. \A d, f \in Nat : d + r - f + 1 = p - o + 1 => f + i - d - 1 = r
    BY <1>2, <2>1
  <2>3. c.from + i - c.done - 1 = r
    BY <2>1, <2>2, <1>8, <1>a
  <2> QED BY <2>3 DEF r
<1>13. p \in Position
  <2>1. n # 0 /\ Capacity \in Nat
    BY <1>2, Sizes DEF Capacity
  <2> QED BY <1>2, <1>9, <2>1 DEF Position
<1> HIDE DEF p
<1>14. Bytes(blocks)[p] = ReadAs(c.block)[c.from + i - c.done - 1]
  BY <1>11, <1>12, <1>13 DEF Bytes, As, ReadAs
<1> QED BY <1>13, <1>14 DEF c, p, cs
-----------------------------------------------------------------------------
(***************************************************************************)
(* What a write leaves behind, whole or failed                             *)
(***************************************************************************)

LEMMA Row ==
    ASSUME NEW n \in Nat, NEW data \in [1..n -> Byte]
    PROVE  data \in Seq(Byte) /\ Len(data) = n /\ (data = << >> <=> n = 0)
<1>1. data \in Seq(Byte) /\ Len(data) = n
  OBVIOUS
<1>2. n = 0 => data = << >>
  BY <1>1
<1> QED BY <1>1, <1>2

\* The bytes with a row put at o over them.
Put(b, o, k, data) == [p \in Position |-> IF p \in o..(o + k - 1) THEN data[p - o + 1] ELSE b[p]]

LEMMA WrittenPut ==
    ASSUME NEW o \in Nat, NEW n \in Nat, NEW data \in [1..n -> Byte],
           NEW j \in 0..Len(Chunks(o, n)), blocks \in Map
    PROVE  Bytes(WrittenTo(o, data, j)) = Put(Bytes(blocks), o, End(Chunks(o, n), j), data)
<1> DEFINE new == WrittenTo(o, data, j)
           k == End(Chunks(o, n), j)
<1>1. \A p \in Position : Bytes(new)[p] = IF p \in o..(o + k - 1) THEN data[p - o + 1] ELSE Bytes(blocks)[p]
  BY WrittenBytes
<1>2. Bytes(new) = [p \in Position |-> Bytes(new)[p]]
  BY DEF Bytes
<1> HIDE DEF new, k
<1>3. Bytes(new) = Put(Bytes(blocks), o, k, data)
  BY <1>1, <1>2 DEF Put
<1> QED BY <1>3 DEF new, k

LEMMA WriteIsPut ==
    ASSUME blocks \in Map, size \in Nat, NEW o \in Nat, NEW n \in Nat, NEW data \in [1..n -> Byte],
           WriteSucceeds(o, data)
    PROVE  /\ blocks' \in Map
           /\ n = 0 \/ o + n <= Capacity
           /\ Bytes(blocks') = Put(Bytes(blocks), o, n, data)
           /\ size' = IF n = 0 \/ size >= o + n THEN size ELSE o + n
           /\ \A l \in Logical : l * BlockSize >= o + n => blocks'[l] = blocks[l]
           /\ reply' = Done(<< >>) /\ failed' = failed /\ loose' = loose
<1> DEFINE cs == Chunks(o, n)
<1>1. Len(data) = n /\ (data = << >> <=> n = 0)
  BY Row
<1>2. /\ \A i \in 1..Len(cs) : cs[i].block \in Logical
      /\ blocks' = WrittenTo(o, data, Len(cs))
      /\ size' = IF n # 0 /\ o + n > size THEN o + n ELSE size
      /\ reply' = Done(<< >>) /\ failed' = failed /\ loose' = loose
  BY <1>1 DEF WriteSucceeds, Longer
<1>3. Cut(cs, 0, o, n)
  BY ChunksCut
<1>4. Len(cs) \in Nat /\ End(cs, Len(cs)) = n
  <2> HIDE DEF cs
  <2> QED BY <1>3, ChunkRow
<1>5. Len(cs) \in 0..Len(cs)
  BY <1>4
<1>6. blocks' \in Map
  BY <1>2, <1>5, WrittenBlocks
<1>7. n = 0 \/ o + n <= Capacity
  <2> HIDE DEF cs
  <2> QED BY <1>2, <1>3, ChunksFit
<1>8. Bytes(blocks') = Put(Bytes(blocks), o, n, data)
  BY <1>2, <1>4, <1>5, WrittenPut
<1>9. ASSUME NEW l \in Logical, l * BlockSize >= o + n
      PROVE  blocks'[l] = blocks[l]
  <2>1. ASSUME NEW m \in 1..Len(cs) PROVE cs[m].block # l
    <3> SUFFICES ASSUME cs[m].block = l PROVE FALSE
      OBVIOUS
    <3> HIDE DEF cs
    <3>0. LiesAt(cs[m], o, n)
      BY <1>3, ChunkLies
    <3>1. /\ o + cs[m].done = l * BlockSize + cs[m].from /\ cs[m].from \in 0..(BlockSize - 1)
          /\ cs[m].done \in Nat /\ cs[m].done < n
      BY <3>0, Zenon DEF LiesAt
    <3>2. BlockSize \in Nat /\ l * BlockSize \in Nat /\ l \in Nat
      BY Sizes DEF Logical
    <3> DEFINE x == l * BlockSize
               d == cs[m].done
               f == cs[m].from
    <3>3. x \in Nat /\ d \in Nat /\ f \in Nat /\ d < n /\ o + d = x + f /\ x >= o + n
      BY <1>9, <3>1, <3>2
    <3> HIDE DEF x, d, f
    <3> QED BY <3>3
  <2>2. blocks'[l] = blocks[l]
    BY <1>2, <1>5, <2>1, WrittenBlocks
  <2> QED BY <2>2
<1>10. size' = IF n = 0 \/ size >= o + n THEN size ELSE o + n
  BY <1>2
<1> QED BY <1>2, <1>6, <1>7, <1>8, <1>9, <1>10

\* The first k bytes of a row of n are put, and the new end only with all of them.
PartPut(o, n, data, k) ==
    /\ Bytes(blocks') = Put(Bytes(blocks), o, k, data)
    /\ o >= Capacity => k = 0
    /\ \/ size' = size
       \/ /\ k = n /\ n # 0 /\ o + n <= Capacity
          /\ size' = IF n = 0 \/ size >= o + n THEN size ELSE o + n

LEMMA FailedWriteIsPut ==
    ASSUME blocks \in Map, size \in Nat, NEW o \in Nat, NEW n \in Nat, NEW data \in [1..n -> Byte],
           WriteFails(o, data)
    PROVE  /\ blocks' \in Map
           /\ \E k \in 0..n : PartPut(o, n, data, k)
           /\ reply' = Error /\ failed' = TRUE /\ loose' = loose
<1> DEFINE cs == Chunks(o, n)
<1>1. Len(data) = n /\ (data = << >> <=> n = 0)
  BY Row
<1>2. PICK j \in 1..Len(cs) :
        LET before == WrittenTo(o, data, j - 1)
            l == cs[j].block
        IN  /\ \A i \in 1..(j - 1) : cs[i].block \in Logical
            /\ \/ blocks' = before /\ size' = size
               \/ /\ l \in Logical
                  /\ blocks[l] = Hole
                  /\ blocks' = [before EXCEPT ![l] = Zeroes]
                  /\ size' = size
               \/ /\ l \in Logical
                  /\ blocks' = WrittenTo(o, data, j)
                  /\ size' \in {size} \cup (IF j = Len(cs) THEN {Longer(o, data)} ELSE {})
  BY <1>1 DEF WriteFails
<1>3. reply' = Error /\ failed' = TRUE /\ loose' = loose
  BY DEF WriteFails
<1>4. Cut(cs, 0, o, n)
  BY ChunksCut
<1> DEFINE before == WrittenTo(o, data, j - 1)
           l == cs[j].block
           k == End(cs, j - 1)
<1>5. Len(cs) \in Nat /\ j \in 1..Len(cs) /\ j \in Nat /\ j - 1 \in 0..Len(cs) /\ \A i \in 1..(j - 1) : i \in 1..Len(cs) /\ i # j
  <2>1. Len(cs) \in Nat
    <3> HIDE DEF cs
    <3> QED BY <1>4, ChunkRow
  <2> QED BY <2>1
<1>6. before \in Map /\ \A x \in Logical : (\A m \in 1..(j - 1) : cs[m].block # x) => before[x] = blocks[x]
  BY <1>5, WrittenBlocks
<1>7. Bytes(before) = Put(Bytes(blocks), o, k, data)
  BY <1>5, WrittenPut
<1> DEFINE new == WrittenTo(o, data, j)
           e == End(cs, j)
<1>a. j \in 0..Len(cs)
  BY <1>5
<1>b. new \in Map /\ Bytes(new) = Put(Bytes(blocks), o, e, data)
  BY <1>a, WrittenBlocks, WrittenPut
<1>c. Longer(o, data) = IF n = 0 \/ size >= o + n THEN size ELSE o + n
  BY <1>1 DEF Longer
<1> HIDE DEF cs, new
<1>8. k \in 0..n
  <2>1. cs[j].done = k
    <3>1. \A i \in 1..Len(cs) : cs[i].done = End(cs, i - 1)
      BY <1>4, ChunkRow, SMTT(60)
    <3> QED BY <1>5, <3>1
  <2>2. cs[j].done \in Nat /\ cs[j].done < n
    BY <1>4, <1>5, ChunkOf
  <2> QED BY <2>1, <2>2
<1>9. o >= Capacity => k = 0
  <2>1. CASE j = 1
    BY <2>1 DEF End
  <2>2. CASE j # 1
    <3>1. j - 1 \in 1..(j - 1) /\ j - 1 \in 1..Len(cs)
      BY <1>5, <2>2
    <3>2. cs[j - 1].block \in Logical
      BY <1>2, <3>1
    <3>3. o + cs[j - 1].done < Capacity /\ cs[j - 1].done \in Nat
      BY <1>4, <3>1, <3>2, ChunkFits, ChunkOf
    <3>4. Capacity \in Nat
      BY Sizes DEF Capacity
    <3> QED BY <3>3, <3>4
  <2> QED BY <2>1, <2>2
<1>12. CASE /\ l \in Logical
            /\ blocks' = new
            /\ size' \in {size} \cup (IF j = Len(cs) THEN {Longer(o, data)} ELSE {})
  <2>1. e \in 0..n /\ End(cs, Len(cs)) = n /\ (n = 0 <=> Len(cs) = 0)
    BY <1>4, <1>a, ChunkRow
  <2>2. (l \in Logical <=> o + End(cs, j) <= Capacity) /\ (l \in Logical => o + cs[j].done < Capacity)
    BY <1>4, <1>5, ChunkFits
  <2>3. cs[j].done \in Nat
    BY <1>4, <1>5, ChunkOf
  <2>4. Capacity \in Nat
    BY Sizes DEF Capacity
  <2>5. ~(o >= Capacity)
    BY <1>12, <2>2, <2>3, <2>4
  <2>6. CASE size' = size
    BY <1>3, <1>b, <1>12, <2>1, <2>5, <2>6 DEF PartPut
  <2>7. CASE j = Len(cs) /\ size' = Longer(o, data)
    <3>1. e = n /\ n # 0 /\ o + n <= Capacity
      BY <1>5, <1>12, <2>1, <2>2, <2>7
    <3> HIDE DEF e
    <3> QED BY <1>3, <1>b, <1>c, <1>12, <2>1, <2>5, <2>7, <3>1 DEF PartPut
  <2> QED BY <1>12, <2>6, <2>7
<1> HIDE DEF before, k
<1>10. CASE blocks' = before /\ size' = size
  BY <1>3, <1>6, <1>7, <1>8, <1>9, <1>10 DEF PartPut
<1>11. CASE l \in Logical /\ blocks[l] = Hole /\ blocks' = [before EXCEPT ![l] = Zeroes] /\ size' = size
  <2>1. before[l] = Hole
    <3>1. \A m \in 1..(j - 1) : cs[m].block # l
      BY <1>4, <1>5, ChunkBlocks
    <3> QED BY <1>6, <1>11, <3>1
  <2> HIDE DEF l
  <2>2. Zeroes \in Content /\ Zeroes # Hole
    BY Sizes, HoleIsNoContent DEF Zeroes, Content
  <2>3. blocks' \in Map
    BY <1>6, <1>11, <2>2 DEF Map
  <2>4. \A x \in Logical : As(blocks', x) = As(before, x)
    BY <1>6, <1>11, <2>1, <2>2 DEF As, Map
  <2>5. Bytes(blocks') = Bytes(before)
    BY <2>4, PlaceOf DEF Bytes
  <2> QED BY <1>3, <1>7, <1>8, <1>9, <1>11, <2>3, <2>5 DEF PartPut
<1> QED BY <1>2, <1>10, <1>11, <1>12 DEF before, new, l
-----------------------------------------------------------------------------
(***************************************************************************)
(* What a truncation leaves behind                                         *)
(***************************************************************************)

LEMMA BlockBefore ==
    ASSUME NEW a \in Nat, NEW b \in Nat, a < b
    PROVE  a * BlockSize + BlockSize <= b * BlockSize /\ a * BlockSize \in Nat /\ b * BlockSize \in Nat
<1>1. BlockSize \in Nat
  BY Sizes
<1>2. b - a - 1 \in Nat /\ b * BlockSize = a * BlockSize + BlockSize + (b - a - 1) * BlockSize
  BY <1>1
<1>3. \A c \in Nat : c * BlockSize \in Nat
  BY <1>1
<1>4. (b - a - 1) * BlockSize \in Nat /\ a * BlockSize \in Nat /\ b * BlockSize \in Nat
  BY <1>2, <1>3
<1> QED BY <1>1, <1>2, <1>4

\* Which bytes lie before the end of n bytes.
LEMMA LastBlock ==
    ASSUME NEW n \in Nat, n >= 1, NEW l \in Nat, NEW i \in 0..(BlockSize - 1)
    PROVE  /\ Last(n) \in Nat
           /\ l < Last(n) => l * BlockSize + i < n
           /\ l > Last(n) => l * BlockSize + i >= n
           /\ l = Last(n) => (l * BlockSize + i < n <=> n % BlockSize = 0 \/ i < n % BlockSize)
<1> DEFINE m == Last(n)
           r == (n - 1) % BlockSize
           t == n % BlockSize
           x == l * BlockSize
           y == m * BlockSize
<1>1. BlockSize \in Nat /\ BlockSize >= 1 /\ i \in Nat /\ i < BlockSize
  BY Sizes
<1>2. m \in Nat /\ r \in 0..(BlockSize - 1) /\ n - 1 = y + r
  <2>1. n - 1 \in Nat
    OBVIOUS
  <2> QED BY <2>1, DivMod DEF Last
<1> HIDE DEF m, r
<1>3. \A u \in Nat : u * BlockSize \in Nat
  BY <1>1
<1>4. x \in Nat /\ y \in Nat /\ r \in Nat
  BY <1>1, <1>2, <1>3
<1>5. l < m => x + BlockSize <= y
  BY <1>2, BlockBefore
<1>6. l > m => y + BlockSize <= x
  BY <1>2, BlockBefore
<1>7. l = m => x = y
  OBVIOUS
<1>8. t = IF r + 1 < BlockSize THEN r + 1 ELSE 0
  <2>1. CASE r + 1 < BlockSize
    <3>1. r + 1 \in 0..(BlockSize - 1)
      BY <1>1, <1>4, <2>1
    <3>2. (m * BlockSize + (r + 1)) % BlockSize = r + 1
      BY <1>2, <3>1, BlockOf
    <3>3. n = y + (r + 1)
      <4> HIDE DEF y
      <4> QED BY <1>2, <1>4
    <3> QED BY <2>1, <3>2, <3>3
  <2>2. CASE ~(r + 1 < BlockSize)
    <3>1. 0 \in 0..(BlockSize - 1) /\ m + 1 \in Nat /\ (m + 1) * BlockSize = m * BlockSize + BlockSize
      BY <1>1, <1>2
    <3>2. ((m + 1) * BlockSize + 0) % BlockSize = 0
      BY <3>1, BlockOf
    <3>3. n = (m + 1) * BlockSize + 0
      <4>1. r + 1 = BlockSize
        BY <1>1, <1>2, <2>2
      <4>2. n = y + BlockSize
        <5> HIDE DEF y
        <5> QED BY <1>2, <1>4, <4>1
      <4>3. (m + 1) * BlockSize \in Nat
        BY <1>3, <3>1
      <4>4. \A z \in Nat : z + 0 = z
        OBVIOUS
      <4> QED BY <3>1, <4>2, <4>3, <4>4
    <3> QED BY <2>2, <3>2, <3>3
  <2> QED BY <2>1, <2>2
<1> HIDE DEF x, y, t
<1>9. l < m => x + i < n
  BY <1>1, <1>2, <1>4, <1>5
<1>10. l > m => x + i >= n
  BY <1>1, <1>2, <1>4, <1>6
<1>11. l = m => (x + i < n <=> t = 0 \/ i < t)
  BY <1>1, <1>2, <1>4, <1>7, <1>8
<1> QED BY <1>2, <1>9, <1>10, <1>11 DEF m, x, t

\* How the bytes c follow from the bytes b when a file of s bytes is cut to n, and
\* how they may if the call does not end well.
IsTruncated(b, c, s, n, ok) ==
    \A p \in Position :
        c[p] \in IF p < n \/ n >= s THEN {b[p]}
                 ELSE IF p >= s \/ ~ok THEN {b[p], Zero}
                 ELSE {Zero}

LEMMA ZeroHoles == \A i \in 0..(BlockSize - 1) : Zeroes[i] = Zero
  BY DEF Zeroes

LEMMA WithoutBlocks ==
    ASSUME blocks \in Map, NEW S
    PROVE  /\ Without(S) \in Map
           /\ \A p \in Position :
                Bytes(Without(S))[p] = IF p \div BlockSize \in S THEN Zero ELSE Bytes(blocks)[p]
<1>1. Without(S) \in Map
  BY DEF Without, Map
<1>2. ASSUME NEW p \in Position
      PROVE  Bytes(Without(S))[p] = IF p \div BlockSize \in S THEN Zero ELSE Bytes(blocks)[p]
  <2> DEFINE l == p \div BlockSize
             i == p % BlockSize
  <2>1. l \in Logical /\ i \in 0..(BlockSize - 1)
    BY PlaceOf
  <2>2. Bytes(Without(S))[p] = As(Without(S), l)[i] /\ Bytes(blocks)[p] = As(blocks, l)[i]
    BY DEF Bytes
  <2> HIDE DEF l, i
  <2>3. Without(S)[l] = IF l \in S THEN Hole ELSE blocks[l]
    BY <2>1 DEF Without
  <2>4. Bytes(Without(S))[p] = IF l \in S THEN Zero ELSE Bytes(blocks)[p]
    BY <2>1, <2>2, <2>3, ZeroHoles DEF As
  <2> QED BY <2>4 DEF l
<1> QED BY <1>1, <1>2

\* What was cut may be so also where it need not be.
LEMMA CutAnyway ==
    ASSUME NEW b, NEW c, NEW s, NEW n, NEW ok \in BOOLEAN, IsTruncated(b, c, s, n, TRUE)
    PROVE  IsTruncated(b, c, s, n, ok)
BY DEF IsTruncated

LEMMA CutToCuts ==
    ASSUME blocks \in Map, size \in Nat, NEW n \in 1..(size - 1), blocks' = CutTo(n)
    PROVE  /\ blocks' \in Map
           /\ IsTruncated(Bytes(blocks), Bytes(blocks'), size, n, TRUE)
           /\ \A l \in Logical : l * BlockSize >= n =>
                blocks'[l] = Hole \/ (blocks'[l] = blocks[l] /\ l * BlockSize >= size)
<1> DEFINE t == n % BlockSize
           Kept(l) == [i \in 0..(BlockSize - 1) |-> IF i >= t THEN Zero ELSE blocks[l][i]]
           Gone(l) == l \in (Last(n) + 1)..Last(size)
           Partial(l) == l = Last(n) /\ t # 0 /\ blocks[l] # Hole
<1>1. n \in Nat /\ n >= 1 /\ n < size /\ size >= 1
  OBVIOUS
<1>2. \A l \in Logical : blocks'[l] = IF Gone(l) THEN Hole ELSE IF Partial(l) THEN Kept(l) ELSE blocks[l]
  BY DEF CutTo, Behind
<1>3. blocks' = [l \in Logical |-> blocks'[l]]
  BY DEF CutTo
<1>4. BlockSize \in Nat /\ BlockSize >= 1 /\ Logical \subseteq Nat
  BY Sizes DEF Logical
<1>5. Last(n) \in Nat /\ Last(size) \in Nat
  <2>1. 0 \in Nat /\ 0 \in 0..(BlockSize - 1)
    BY <1>4
  <2> QED BY <1>1, <2>1, LastBlock
<1>6. ASSUME NEW l \in Logical, Partial(l)
      PROVE  Kept(l) \in Content
  <2>1. blocks[l] \in Content
    BY <1>6 DEF Map
  <2>2. \A i \in 0..(BlockSize - 1) : (IF i >= t THEN Zero ELSE blocks[l][i]) \in Byte
    BY <2>1, Sizes DEF Content
  <2> QED BY <2>2 DEF Content
<1>7. blocks' \in Map
  <2> HIDE DEF Gone, Partial, Kept
  <2>1. \A l \in Logical : blocks'[l] \in Content \cup {Hole}
    BY <1>2, <1>6 DEF Map
  <2> QED BY <1>3, <2>1 DEF Map
<1>8. ASSUME NEW l \in Logical, l * BlockSize >= n
      PROVE  blocks'[l] = Hole \/ (blocks'[l] = blocks[l] /\ l * BlockSize >= size)
  <2>1. l \in Nat /\ 0 \in 0..(BlockSize - 1) /\ l * BlockSize \in Nat /\ t \in Nat
    <3>1. l \in Nat /\ \A u \in Nat : u * BlockSize \in Nat
      BY <1>4
    <3>2. t \in 0..(BlockSize - 1)
      BY DivMod
    <3> QED BY <1>4, <3>1, <3>2
  <2> DEFINE x == l * BlockSize
  <2>2. x + 0 = x /\ x >= n
    <3>1. x \in Nat
      BY <2>1
    <3> HIDE DEF x
    <3>2. x + 0 = x
      BY <3>1
    <3> QED BY <1>8, <3>2 DEF x
  <2>3. /\ l < Last(n) => x + 0 < n
        /\ l = Last(n) => (x + 0 < n <=> t = 0 \/ 0 < t)
        /\ l > Last(size) => x + 0 >= size
    BY <1>1, <2>1, LastBlock
  <2>4. x \in Nat
    BY <2>1
  <2> HIDE DEF x, t
  <2>5. l > Last(n)
    BY <1>5, <2>1, <2>2, <2>3, <2>4
  <2>6. CASE l <= Last(size)
    <3>1. Gone(l)
      BY <1>5, <2>1, <2>5, <2>6
    <3> QED BY <1>2, <3>1
  <2>7. CASE l > Last(size)
    <3>1. ~Gone(l) /\ ~Partial(l) /\ x >= size
      BY <1>5, <2>1, <2>2, <2>3, <2>5, <2>7
    <3> HIDE DEF Gone, Partial
    <3> QED BY <1>2, <3>1 DEF x
  <2> QED BY <1>5, <2>1, <2>6, <2>7
<1>9. ASSUME NEW p \in Position
      PROVE  Bytes(blocks')[p] \in IF p < n \/ n >= size THEN {Bytes(blocks)[p]}
                                   ELSE IF p >= size \/ ~TRUE THEN {Bytes(blocks)[p], Zero}
                                   ELSE {Zero}
  <2> DEFINE l == p \div BlockSize
             i == p % BlockSize
  <2>1. p \in Nat /\ l \in Logical /\ i \in 0..(BlockSize - 1) /\ p = l * BlockSize + i
    BY PlaceOf
  <2>2. Bytes(blocks')[p] = As(blocks', l)[i] /\ Bytes(blocks)[p] = As(blocks, l)[i]
    BY DEF Bytes
  <2> HIDE DEF l, i
  <2>3. /\ l < Last(n) => l * BlockSize + i < n
        /\ l > Last(n) => l * BlockSize + i >= n
        /\ l = Last(n) => (l * BlockSize + i < n <=> t = 0 \/ i < t)
        /\ l > Last(size) => l * BlockSize + i >= size
    BY <1>1, <1>4, <2>1, LastBlock
  <2>4. /\ l < Last(n) => p < n
        /\ l > Last(n) => p >= n
        /\ l = Last(n) => (p < n <=> t = 0 \/ i < t)
        /\ l > Last(size) => p >= size
    BY <2>1, <2>3, Zenon
  <2>a. i \in Nat /\ t \in Nat /\ l \in Nat
    <3>1. t \in 0..(BlockSize - 1)
      BY DivMod
    <3> QED BY <1>4, <2>1, <3>1
  <2>5. CASE Gone(l)
    <3>1. p >= n
      BY <1>5, <2>4, <2>5, <2>a
    <3>2. Bytes(blocks')[p] = Zero
      <4> HIDE DEF Gone
      <4>1. blocks'[l] = Hole
        BY <1>2, <2>1, <2>5
      <4> QED BY <2>1, <2>2, <4>1, ZeroHoles DEF As
    <3> QED BY <1>1, <2>1, <3>1, <3>2
  <2>6. CASE ~Gone(l) /\ Partial(l)
    <3>1. As(blocks', l) = Kept(l)
      <4>1. Kept(l) # Hole
        <5> HIDE DEF Kept, Partial
        <5> QED BY <1>6, <2>1, <2>6, HoleIsNoContent
      <4>2. blocks'[l] = Kept(l)
        <5> HIDE DEF Kept, Gone, Partial
        <5> QED BY <1>2, <2>1, <2>6
      <4> HIDE DEF Kept
      <4> QED BY <4>1, <4>2 DEF As
    <3>2. Kept(l)[i] = IF i >= t THEN Zero ELSE blocks[l][i]
      BY <2>1
    <3>3. As(blocks, l) = blocks[l]
      BY <2>6 DEF As
    <3>4. p < n <=> i < t
      BY <2>4, <2>6
    <3> HIDE DEF Kept
    <3>5. Bytes(blocks')[p] = IF i >= t THEN Zero ELSE Bytes(blocks)[p]
      BY <2>2, <3>1, <3>2, <3>3
    <3> HIDE DEF t
    <3>6. p < n => Bytes(blocks')[p] = Bytes(blocks)[p]
      BY <2>a, <3>4, <3>5
    <3>7. ~(p < n) => Bytes(blocks')[p] = Zero
      BY <2>a, <3>4, <3>5
    <3> QED BY <1>1, <2>1, <3>6, <3>7
  <2>7. CASE ~Gone(l) /\ ~Partial(l)
    <3>1. blocks'[l] = blocks[l]
      <4> HIDE DEF Kept, Gone, Partial
      <4> QED BY <1>2, <2>1, <2>7
    <3>2. Bytes(blocks')[p] = Bytes(blocks)[p]
      BY <2>2, <3>1 DEF As
    <3>3. ASSUME ~(p < n), p < size PROVE Bytes(blocks')[p] = Zero
      <4>1. l = Last(n) /\ t # 0
        <5> HIDE DEF t
        <5> QED BY <1>1, <1>5, <2>1, <2>4, <2>7, <2>a, <3>3
      <4>2. blocks[l] = Hole
        BY <2>7, <4>1
      <4> QED BY <2>1, <2>2, <3>1, <4>2, ZeroHoles DEF As
    <3> QED BY <1>1, <2>1, <3>2, <3>3
  <2> QED BY <2>5, <2>6, <2>7
<1>10. IsTruncated(Bytes(blocks), Bytes(blocks'), size, n, TRUE)
  BY <1>9 DEF IsTruncated
<1> QED BY <1>7, <1>8, <1>10

\* Releasing blocks behind the new last one loses nothing before the new end.
LEMMA ReleaseCuts ==
    ASSUME blocks \in Map, size \in Nat, NEW n \in 1..(size - 1), NEW S,
           \A l \in S : l \in Nat /\ l > Last(n), blocks' = Without(S)
    PROVE  blocks' \in Map /\ IsTruncated(Bytes(blocks), Bytes(blocks'), size, n, FALSE)
<1>1. /\ blocks' \in Map
      /\ \A p \in Position : Bytes(blocks')[p] = IF p \div BlockSize \in S THEN Zero ELSE Bytes(blocks)[p]
  BY WithoutBlocks
<1>2. n \in Nat /\ n >= 1 /\ ~(n >= size)
  OBVIOUS
<1>3. ASSUME NEW p \in Position, p < n PROVE p \div BlockSize \notin S
  <2> DEFINE l == p \div BlockSize
             i == p % BlockSize
  <2>1. p \in Nat /\ l \in Nat /\ i \in 0..(BlockSize - 1) /\ p = l * BlockSize + i
    BY PlaceOf, Sizes DEF Logical
  <2> HIDE DEF l, i
  <2>2. Last(n) \in Nat /\ (l > Last(n) => p >= n)
    <3>1. Last(n) \in Nat /\ (l > Last(n) => l * BlockSize + i >= n)
      BY <1>2, <2>1, LastBlock
    <3> QED BY <2>1, <3>1, Zenon
  <2>3. ~(l > Last(n))
    BY <1>2, <1>3, <2>1, <2>2
  <2> QED BY <2>3 DEF l
<1> QED BY <1>1, <1>2, <1>3 DEF IsTruncated

\* What a failed truncation leaves.
HalfCut(n) ==
    /\ size' \in {size, n}
    /\ loose' \in {loose, loose \/ n < size}
    /\ IsTruncated(Bytes(blocks), Bytes(blocks'), size, n, size' = n)

LEMMA GrowFailsHalf ==
    ASSUME blocks \in Map, size \in Nat, NEW n \in Nat, GrowFails(n)
    PROVE  blocks' \in Map /\ HalfCut(n)
BY DEF GrowFails, HalfCut, IsTruncated

LEMMA EmptyCuts ==
    ASSUME blocks \in Map, size \in Nat, size > 0, blocks' = Without(Logical)
    PROVE  /\ blocks' \in Map
           /\ IsTruncated(Bytes(blocks), Bytes(blocks'), size, 0, TRUE)
           /\ \A l \in Logical : blocks'[l] = Hole
<1>1. blocks' \in Map /\ \A p \in Position : Bytes(blocks')[p] = Zero
  BY WithoutBlocks, PlaceOf
<1>2. \A l \in Logical : blocks'[l] = Hole
  BY DEF Without
<1>3. IsTruncated(Bytes(blocks), Bytes(blocks'), size, 0, TRUE)
  BY <1>1, PlaceOf DEF IsTruncated
<1> QED BY <1>1, <1>2, <1>3

LEMMA EmptyFailsHalf ==
    ASSUME blocks \in Map, size \in Nat, NEW n \in Nat, EmptyFails(n)
    PROVE  blocks' \in Map /\ HalfCut(n)
<1>1. n = 0 /\ size > 0 /\ n < size
  BY DEF EmptyFails
<1>2. CASE blocks' = blocks /\ size' = size /\ loose' \in {loose, TRUE}
  <2>1. IsTruncated(Bytes(blocks), Bytes(blocks'), size, n, size' = n)
    BY <1>1, <1>2 DEF IsTruncated
  <2> QED BY <1>1, <1>2, <2>1 DEF HalfCut
<1>3. CASE blocks' = Without(Logical) /\ size' \in {size, 0} /\ loose' = loose
  <2>1. blocks' \in Map /\ IsTruncated(Bytes(blocks), Bytes(blocks'), size, n, TRUE)
    BY <1>1, <1>3, EmptyCuts
  <2>2. IsTruncated(Bytes(blocks), Bytes(blocks'), size, n, size' = n)
    BY <2>1, CutAnyway
  <2> QED BY <1>1, <1>3, <2>1, <2>2 DEF HalfCut
<1> QED BY <1>2, <1>3 DEF EmptyFails

LEMMA ShrinkFailsHalf ==
    ASSUME blocks \in Map, size \in Nat, NEW n \in Nat, ShrinkFails(n)
    PROVE  blocks' \in Map /\ HalfCut(n)
<1>1. n \in 1..(size - 1) /\ n < size /\ size # n
  BY DEF ShrinkFails
<1>2. Last(n) \in Nat /\ Last(size) \in Nat
  <2>1. 0 \in Nat /\ 0 \in 0..(BlockSize - 1)
    BY Sizes
  <2> QED BY <1>1, <2>1, LastBlock
<1>3. ASSUME NEW S, \A l \in S : l \in Nat /\ l > Last(n), blocks' = Without(S),
             size' = size, loose' \in {loose, TRUE}
      PROVE  blocks' \in Map /\ HalfCut(n)
  <2>1. blocks' \in Map /\ IsTruncated(Bytes(blocks), Bytes(blocks'), size, n, FALSE)
    BY <1>1, <1>3, ReleaseCuts
  <2>2. (size' = n) = FALSE
    BY <1>1, <1>3
  <2>3. IsTruncated(Bytes(blocks), Bytes(blocks'), size, n, size' = n)
    BY <2>1, <2>2
  <2> QED BY <1>1, <1>3, <2>1, <2>3 DEF HalfCut
<1>4. ASSUME NEW l \in Behind(n),
             blocks' \in {Without((Last(n) + 1)..(l - 1)), Without(((Last(n) + 1)..(l - 1)) \cup {l})},
             size' = size, loose' \in {loose, TRUE}
      PROVE  blocks' \in Map /\ HalfCut(n)
  <2>1. l \in Nat /\ l > Last(n)
    BY <1>2 DEF Behind
  <2>2. \A x \in (Last(n) + 1)..(l - 1) : x \in Nat /\ x > Last(n)
    BY <1>2, <2>1
  <2>3. CASE blocks' = Without((Last(n) + 1)..(l - 1))
    <3> DEFINE S == (Last(n) + 1)..(l - 1)
    <3>1. \A x \in S : x \in Nat /\ x > Last(n)
      BY <2>2
    <3>2. blocks' = Without(S)
      BY <2>3
    <3> HIDE DEF S
    <3> QED BY <1>3, <1>4, <3>1, <3>2
  <2>4. CASE blocks' = Without(((Last(n) + 1)..(l - 1)) \cup {l})
    <3> DEFINE S == ((Last(n) + 1)..(l - 1)) \cup {l}
    <3>1. \A x \in S : x \in Nat /\ x > Last(n)
      BY <2>1, <2>2
    <3>2. blocks' = Without(S)
      BY <2>4
    <3> HIDE DEF S
    <3> QED BY <1>3, <1>4, <3>1, <3>2
  <2> QED BY <1>4, <2>3, <2>4
<1>5. CASE blocks' = Without(Behind(n)) /\ size' = size /\ loose' = loose
  <2>1. \A x \in Behind(n) : x \in Nat /\ x > Last(n)
    BY <1>2 DEF Behind
  <2> QED BY <1>3, <1>5, <2>1
<1>6. CASE blocks' = CutTo(n) /\ size' \in {size, n} /\ loose' = loose
  <2>1. blocks' \in Map /\ IsTruncated(Bytes(blocks), Bytes(blocks'), size, n, TRUE)
    BY <1>1, <1>6, CutToCuts
  <2>2. IsTruncated(Bytes(blocks), Bytes(blocks'), size, n, size' = n)
    BY <2>1, CutAnyway
  <2> QED BY <1>6, <2>1, <2>2 DEF HalfCut
<1>7. \/ \E l \in Behind(n) :
             /\ blocks' \in {Without((Last(n) + 1)..(l - 1)), Without(((Last(n) + 1)..(l - 1)) \cup {l})}
             /\ size' = size /\ loose' \in {loose, TRUE}
      \/ blocks' = Without(Behind(n)) /\ size' = size /\ loose' = loose
      \/ blocks' = CutTo(n) /\ size' \in {size, n} /\ loose' = loose
  BY DEF ShrinkFails
<1> QED BY <1>4, <1>5, <1>6, <1>7

\* A truncation cuts the file, or fails halfway.
LEMMA TruncateCuts ==
    ASSUME blocks \in Map, size \in Nat, NEW n \in Nat, Truncated(n) \/ TruncateFails(n)
    PROVE  /\ blocks' \in Map
           /\ \/ /\ reply' = Done(<< >>) /\ size' = n /\ failed' = failed /\ loose' = loose
                 /\ IsTruncated(Bytes(blocks), Bytes(blocks'), size, n, TRUE)
                 /\ \A l \in Logical : l * BlockSize >= n =>
                      blocks'[l] = Hole \/ (blocks'[l] = blocks[l] /\ l * BlockSize >= size)
              \/ reply' = Error /\ failed' = TRUE /\ HalfCut(n)
<1>1. CASE Truncated(n) /\ Grow(n)
  <2>1. n >= size /\ size' = n /\ reply' = Done(<< >>) /\ blocks' = blocks /\ failed' = failed /\ loose' = loose
    BY <1>1 DEF Truncated, Grow
  <2>2. \A l \in Logical : l * BlockSize \in Nat
    BY Sizes DEF Logical
  <2>3. \A l \in Logical : l * BlockSize >= n => l * BlockSize >= size
    <3>1. \A x \in Nat : x >= n => x >= size
      BY <2>1
    <3> QED BY <2>2, <3>1
  <2>4. IsTruncated(Bytes(blocks), Bytes(blocks'), size, n, TRUE)
    BY <2>1 DEF IsTruncated
  <2> QED BY <2>1, <2>3, <2>4
<1>2. CASE Truncated(n) /\ Empty(n)
  <2>1. /\ n = 0 /\ size > 0 /\ size' = 0 /\ reply' = Done(<< >>) /\ failed' = failed /\ loose' = loose
        /\ blocks' = Without(Logical)
    BY <1>2 DEF Truncated, Empty
  <2>2. /\ blocks' \in Map /\ IsTruncated(Bytes(blocks), Bytes(blocks'), size, n, TRUE)
        /\ \A l \in Logical : blocks'[l] = Hole
    BY <2>1, EmptyCuts
  <2> QED BY <2>1, <2>2
<1>3. CASE Truncated(n) /\ Shrink(n)
  <2>1. /\ reply' = Done(<< >>) /\ size' = n /\ failed' = failed /\ loose' = loose
        /\ n \in 1..(size - 1) /\ blocks' = CutTo(n)
    BY <1>3 DEF Truncated, Shrink
  <2> QED BY <2>1, CutToCuts
<1>4. CASE TruncateFails(n)
  <2>1. reply' = Error /\ failed' = TRUE
    BY <1>4 DEF TruncateFails
  <2>2. blocks' \in Map /\ HalfCut(n)
    BY <1>4, GrowFailsHalf, EmptyFailsHalf, ShrinkFailsHalf DEF TruncateFails
  <2> QED BY <2>1, <2>2
<1> QED BY <1>1, <1>2, <1>3, <1>4 DEF Truncated

-----------------------------------------------------------------------------
(***************************************************************************)
(* Types, and what is behind the end                                       *)
(***************************************************************************)

\* What zero_range has still to write lies within what was asked for.
ZeroingInRange == zeroing # NoRange => zeroing.left >= 1 /\ zeroing.at + zeroing.left <= 2 * MaxSize

\* The invariant in bytes.
CleanEnd ==
    ~failed => /\ \A l \in Logical : l * BlockSize >= size => blocks[l] = Hole
               /\ \A p \in Position : p >= size => Bytes(blocks)[p] = Zero

\* Only a truncation that has failed gives blocks up and keeps their records.
LooseFailed == loose => failed

IInv == TypeOK /\ ZeroingInRange /\ CleanEnd /\ LooseFailed

LEMMA TypeFacts ==
    ASSUME TypeOK
    PROVE  /\ blocks \in Map /\ size \in Nat /\ size <= MaxSize
           /\ \A fd \in Fd : offset[fd] \in Nat /\ offset[fd] <= MaxSize + MaxLength
           /\ zeroing.at \in Nat /\ zeroing.left \in Nat /\ zeroing.left <= MaxSize
BY Sizes DEF TypeOK, Map

LEMMA EndInBytes ==
    ASSUME blocks \in Map, size \in Nat
    PROVE  CleanEnd => NothingPastEnd
<1> SUFFICES ASSUME CleanEnd, ~failed, NEW l \in Logical,
                    NEW i \in 0..(BlockSize - 1), l * BlockSize + i >= size
             PROVE  ReadAs(l)[i] = Zero
  BY DEF NothingPastEnd, CleanEnd
<1> DEFINE p == l * BlockSize + i
<1>1. p \in Position /\ Bytes(blocks)[p] = As(blocks, l)[i]
  <2>1. l \in Nat
    BY Sizes DEF Logical
  <2> QED BY <2>1, PositionOf, BytesOf
<1>2. p >= size
  OBVIOUS
<1> HIDE DEF p
<1>3. Bytes(blocks)[p] = Zero
  BY <1>1, <1>2 DEF CleanEnd
<1> QED BY <1>1, <1>3 DEF ReadAs, As

\* A write that succeeds leaves nothing behind its end.
LEMMA WriteKeepsEnd ==
    ASSUME blocks \in Map, size \in Nat, CleanEnd, NEW o \in Nat, NEW n \in Nat,
           NEW data \in [1..n -> Byte], WriteSucceeds(o, data)
    PROVE  CleanEnd'
<1> SUFFICES ASSUME ~failed'
             PROVE  /\ \A l \in Logical : l * BlockSize >= size' => blocks'[l] = Hole
                    /\ \A p \in Position : p >= size' => Bytes(blocks')[p] = Zero
  BY DEF CleanEnd, Bytes, As
<1>1. /\ blocks' \in Map
      /\ Bytes(blocks') = Put(Bytes(blocks), o, n, data)
      /\ size' = IF n = 0 \/ size >= o + n THEN size ELSE o + n
      /\ \A l \in Logical : l * BlockSize >= o + n => blocks'[l] = blocks[l]
      /\ failed' = failed
  BY WriteIsPut
<1>2. size' \in Nat /\ size' >= size /\ (n = 0 \/ size' >= o + n)
  BY <1>1
<1>3. /\ \A l \in Logical : l * BlockSize >= size => blocks[l] = Hole
      /\ \A p \in Position : p >= size => Bytes(blocks)[p] = Zero
  BY <1>1 DEF CleanEnd
<1>4. ASSUME NEW p \in Position, p >= size' PROVE Bytes(blocks')[p] = Zero
  <2>1. p \in Nat
    BY PlaceOf
  <2>2. p >= size /\ p \notin o..(o + n - 1)
    BY <1>2, <1>4, <2>1
  <2> QED BY <1>1, <1>3, <2>2 DEF Put
<1>5. ASSUME NEW l \in Logical, l * BlockSize >= size' PROVE blocks'[l] = Hole
  <2> DEFINE x == l * BlockSize
  <2>1. x \in Nat
    <3>1. l \in Nat /\ \A u \in Nat : u * BlockSize \in Nat
      BY Sizes DEF Logical
    <3> QED BY <3>1
  <2>2. x >= size'
    BY <1>5
  <2> HIDE DEF x
  <2>3. x >= size
    BY <1>2, <2>1, <2>2
  <2>4. blocks[l] = Hole
    BY <1>3, <2>3 DEF x
  <2>5. CASE n = 0
    <3>1. WrittenTo(o, data, 0) = blocks
      BY DEF WrittenTo, Map
    <3>2. Len(Chunks(o, Len(data))) = 0 /\ blocks' = WrittenTo(o, data, Len(Chunks(o, Len(data))))
      <4>1. Len(data) = 0
        BY <2>5, Row
      <4>2. Cut(Chunks(o, 0), 0, o, 0)
        BY ChunksCut
      <4>3. Len(Chunks(o, 0)) = 0
        BY <4>2 DEF Cut
      <4> QED BY <4>1, <4>3 DEF WriteSucceeds
    <3> QED BY <2>4, <3>1, <3>2
  <2>6. CASE n # 0
    <3>1. x >= o + n
      BY <1>2, <2>1, <2>2, <2>6
    <3> QED BY <1>1, <2>4, <3>1 DEF x
  <2> QED BY <2>5, <2>6
<1> QED BY <1>4, <1>5

\* Neither does a truncation.
LEMMA TruncateKeepsEnd ==
    ASSUME blocks \in Map, size \in Nat, CleanEnd, NEW n \in Nat, Truncated(n) \/ TruncateFails(n)
    PROVE  CleanEnd'
<1> SUFFICES ASSUME ~failed'
             PROVE  /\ \A l \in Logical : l * BlockSize >= size' => blocks'[l] = Hole
                    /\ \A p \in Position : p >= size' => Bytes(blocks')[p] = Zero
  BY DEF CleanEnd, Bytes, As
<1>1. /\ size' = n /\ failed' = failed
      /\ IsTruncated(Bytes(blocks), Bytes(blocks'), size, n, TRUE)
      /\ \A l \in Logical : l * BlockSize >= n =>
           blocks'[l] = Hole \/ (blocks'[l] = blocks[l] /\ l * BlockSize >= size)
  BY TruncateCuts
<1>2. /\ \A l \in Logical : l * BlockSize >= size => blocks[l] = Hole
      /\ \A p \in Position : p >= size => Bytes(blocks)[p] = Zero
  BY <1>1 DEF CleanEnd
<1>3. ASSUME NEW p \in Position, p >= n PROVE Bytes(blocks')[p] = Zero
  <2>1. p \in Nat
    BY PlaceOf
  <2>2. Bytes(blocks')[p] \in IF p < n \/ n >= size THEN {Bytes(blocks)[p]}
                              ELSE IF p >= size \/ ~TRUE THEN {Bytes(blocks)[p], Zero}
                              ELSE {Zero}
    BY <1>1 DEF IsTruncated
  <2>3. n >= size => p >= size
    BY <1>3, <2>1
  <2>4. ~(p < n)
    BY <1>3, <2>1
  <2> QED BY <1>2, <2>2, <2>3, <2>4
<1>4. \A l \in Logical : l * BlockSize >= n => blocks'[l] = Hole
  BY <1>1, <1>2
<1> QED BY <1>1, <1>3, <1>4
-----------------------------------------------------------------------------
(***************************************************************************)
(* The steps                                                               *)
(***************************************************************************)

\* What sys_read returns: the bytes up to the end, or an error behind the map.
LEMMA ReadIsBytes ==
    ASSUME blocks \in Map, size \in Nat, NEW fd \in Fd, offset[fd] \in Nat, NEW n \in Nat, Read(fd, n)
    PROVE  LET o == offset[fd]
               m == IF o >= size THEN 0 ELSE IF n < size - o THEN n ELSE size - o
           IN  /\ m \in 0..n /\ (m # 0 => o + m <= size)
               /\ \/ /\ m = 0 \/ o + m <= Capacity
                     /\ reply' = Done([i \in 1..m |-> Bytes(blocks)[o + i - 1]])
                     /\ [i \in 1..m |-> Bytes(blocks)[o + i - 1]] \in [1..m -> Byte]
                     /\ offset' = [offset EXCEPT ![fd] = @ + m]
                  \/ /\ reply' = Error
                     /\ offset' = offset
               /\ UNCHANGED <<blocks, size, zeroing, failed, loose>>
<1> DEFINE o == offset[fd]
           m == IF o >= size THEN 0 ELSE IF n < size - o THEN n ELSE size - o
           cs == Chunks(o, m)
           Out(i) == LET c == CHOOSE c \in {cs[k] : k \in 1..Len(cs)} : i \in (c.done + 1)..(c.done + c.len)
                     IN  ReadAs(c.block)[c.from + i - c.done - 1]
<1>1. m = IF o >= size THEN 0 ELSE Min({n, size - o})
  <2>1. CASE o >= size
    BY <2>1
  <2>2. CASE ~(o >= size)
    <3>1. size - o \in Int
      OBVIOUS
    <3> DEFINE d == size - o
    <3> HIDE DEF d
    <3>2. Min({n, d}) = IF n <= d THEN n ELSE d
      BY <3>1, MinOfTwo DEF d
    <3>3. Min({n, d}) = IF n < d THEN n ELSE d
      BY <3>1, <3>2 DEF d
    <3> QED BY <2>2, <3>3 DEF d
  <2> QED BY <2>1, <2>2
<1>2. /\ \/ /\ \A i \in 1..Len(cs) : cs[i].block \in Logical
            /\ reply' = Done([i \in 1..m |-> Out(i)])
            /\ offset' = [offset EXCEPT ![fd] = @ + m]
         \/ reply' = Error /\ offset' = offset
      /\ UNCHANGED <<blocks, size, zeroing, failed, loose>>
  <2> DEFINE e == IF o >= size THEN 0 ELSE Min({n, size - o})
             At(x, i) == LET c == CHOOSE c \in {Chunks(o, x)[k] : k \in 1..Len(Chunks(o, x))} :
                                    i \in (c.done + 1)..(c.done + c.len)
                         IN  ReadAs(c.block)[c.from + i - c.done - 1]
             Answer(x) ==
               \/ /\ \A i \in 1..Len(Chunks(o, x)) : Chunks(o, x)[i].block \in Logical
                  /\ reply' = Done([i \in 1..x |-> At(x, i)])
                  /\ offset' = [offset EXCEPT ![fd] = @ + x]
               \/ reply' = Error /\ offset' = offset
  <2>1. Answer(e)
    BY DEF Read
  <2>2. UNCHANGED <<blocks, size, zeroing, failed, loose>>
    BY DEF Read
  <2>3. m = e
    BY <1>1
  <2>4. Answer(m)
    <3> HIDE DEF Answer, m, e
    <3> QED BY <2>1, <2>3
  <2> HIDE DEF m
  <2> QED BY <2>2, <2>4
<1>3. m \in 0..n /\ m \in Nat /\ (m # 0 => o + m <= size) /\ o \in Nat
  OBVIOUS
<1> HIDE DEF o, m
<1>4. (\A i \in 1..Len(cs) : cs[i].block \in Logical) <=> m = 0 \/ o + m <= Capacity
  <2>1. Cut(cs, 0, o, m)
    BY <1>3, ChunksCut
  <2> HIDE DEF cs
  <2> QED BY <1>3, <2>1, ChunksFit
<1>5. Capacity \in Nat
  BY Sizes DEF Capacity
<1> DEFINE there == [i \in 1..m |-> Bytes(blocks)[o + i - 1]]
<1>6. ASSUME m = 0 \/ o + m <= Capacity
      PROVE  [i \in 1..m |-> Out(i)] = there /\ there \in [1..m -> Byte]
  <2>1. m # 0 => o + m <= Capacity
    BY <1>6
  <2>2. \A i \in 1..m : Out(i) = Bytes(blocks)[o + i - 1] /\ o + i - 1 \in Position
    BY <1>3, <2>1, ReadByte
  <2> HIDE DEF Out
  <2>3. Bytes(blocks) \in [Position -> Byte]
    BY BytesOf
  <2>4. \A i \in 1..m : Bytes(blocks)[o + i - 1] \in Byte
    BY <2>2, <2>3
  <2> QED BY <2>2, <2>4
<1> HIDE DEF Out, cs, there
<1>8. \/ /\ m = 0 \/ o + m <= Capacity
         /\ reply' = Done(there)
         /\ there \in [1..m -> Byte]
         /\ offset' = [offset EXCEPT ![fd] = @ + m]
      \/ reply' = Error /\ offset' = offset
  BY <1>2, <1>4, <1>6
<1> QED BY <1>2, <1>3, <1>8 DEF o, m, there

LEMMA RowOfData ==
    ASSUME NEW data \in Data
    PROVE  \E n \in 0..MaxLength : data \in [1..n -> Byte]
BY DEF Data

LEMMA Replies == Done(<< >>) \in [ok : BOOLEAN, data : Data] /\ Error \in [ok : BOOLEAN, data : Data]
<1>1. << >> \in Data
  <2>1. << >> \in [1..0 -> Byte] /\ 0 \in 0..MaxLength
    BY Sizes
  <2> QED BY <2>1 DEF Data
<1> QED BY <1>1 DEF Done, Error

\* A step of a descriptor that moves only its offset to o, and the file to what has
\* been shown of it, keeps the types.
LEMMA OffsetTyped ==
    ASSUME TypeOK, NEW fd \in Fd, NEW o \in Nat, o <= MaxSize + MaxLength
    PROVE  [offset EXCEPT ![fd] = o] \in [Fd -> 0..(MaxSize + MaxLength)]
BY Sizes DEF TypeOK

LEMMA TypesTogether ==
    ASSUME blocks' \in Map, size' \in Nat, size' <= MaxSize,
           offset' \in [Fd -> 0..(MaxSize + MaxLength)],
           reply' \in [ok : BOOLEAN, data : Data],
           zeroing' \in [at : 0..(2 * MaxSize), left : 0..MaxSize],
           failed' \in BOOLEAN, loose' \in BOOLEAN
    PROVE  TypeOK'
BY Sizes DEF TypeOK, Map

LEMMA WriteKeepsInv ==
    ASSUME IInv, NEW fd \in Fd, NEW data \in Data, Write(fd, data)
    PROVE  IInv'
<1> DEFINE o == offset[fd]
<1>1. PICK n \in 0..MaxLength : data \in [1..n -> Byte]
  BY RowOfData
<1>2. /\ blocks \in Map /\ size \in Nat /\ size <= MaxSize /\ o \in Nat /\ o <= MaxSize + MaxLength
      /\ n \in Nat /\ n <= MaxLength /\ Len(data) = n
  BY <1>1, TypeFacts, Row, Sizes DEF IInv
<1>3. zeroing' = zeroing
  BY DEF Write
<1>4. Capacity \in Nat /\ Capacity <= MaxSize /\ MaxSize \in Nat /\ MaxLength \in Nat
  BY Sizes DEF Capacity
<1>5. /\ offset \in [Fd -> 0..(MaxSize + MaxLength)] /\ failed \in BOOLEAN /\ loose \in BOOLEAN
      /\ zeroing \in [at : 0..(2 * MaxSize), left : 0..MaxSize]
  BY DEF IInv, TypeOK
<1>6. CASE WriteSucceeds(o, data) /\ offset' = [offset EXCEPT ![fd] = @ + Len(data)]
  <2>1. /\ blocks' \in Map /\ (n = 0 \/ o + n <= Capacity)
        /\ size' = IF n = 0 \/ size >= o + n THEN size ELSE o + n
        /\ reply' = Done(<< >>) /\ failed' = failed /\ loose' = loose
    BY <1>1, <1>2, <1>6, WriteIsPut
  <2>2. CleanEnd'
    BY <1>1, <1>2, <1>6, WriteKeepsEnd DEF IInv
  <2> HIDE DEF o
  <2>3. size' \in Nat /\ size' <= MaxSize /\ o + n \in Nat /\ o + n <= MaxSize + MaxLength
    BY <1>2, <1>4, <2>1
  <2>4. offset' \in [Fd -> 0..(MaxSize + MaxLength)]
    <3>1. offset' = [offset EXCEPT ![fd] = o + n]
      BY <1>2, <1>6 DEF o
    <3> QED BY <2>3, <3>1, OffsetTyped DEF IInv
  <2>5. TypeOK'
    BY <1>3, <1>5, <2>1, <2>3, <2>4, Replies, TypesTogether
  <2> QED BY <1>3, <2>1, <2>2, <2>5 DEF IInv, ZeroingInRange, LooseFailed
<1>7. CASE WriteFails(o, data) /\ offset' = offset
  <2>1. blocks' \in Map /\ reply' = Error /\ failed' = TRUE /\ loose' = loose
    BY <1>1, <1>2, <1>7, FailedWriteIsPut
  <2>2. CleanEnd'
    BY <2>1 DEF CleanEnd
  <2>3. size' \in Nat /\ size' <= MaxSize
    <3>1. PICK k \in 0..n : PartPut(o, n, data, k)
      BY <1>1, <1>2, <1>7, FailedWriteIsPut
    <3> HIDE DEF o
    <3> QED BY <1>2, <1>4, <3>1 DEF PartPut
  <2>4. TypeOK'
    BY <1>3, <1>5, <1>7, <2>1, <2>3, Replies, TypesTogether
  <2> QED BY <1>3, <2>1, <2>2, <2>4 DEF IInv, ZeroingInRange, LooseFailed
<1> QED BY <1>6, <1>7 DEF Write

LEMMA ReadKeepsInv ==
    ASSUME IInv, NEW fd \in Fd, NEW n \in 0..MaxLength, Read(fd, n)
    PROVE  IInv'
<1> DEFINE o == offset[fd]
           m == IF o >= size THEN 0 ELSE IF n < size - o THEN n ELSE size - o
           there == [i \in 1..m |-> Bytes(blocks)[o + i - 1]]
<1>1. /\ blocks \in Map /\ size \in Nat /\ size <= MaxSize /\ o \in Nat /\ o <= MaxSize + MaxLength
      /\ n \in Nat /\ n <= MaxLength /\ MaxLength \in Nat /\ MaxSize \in Nat
  BY TypeFacts, Sizes DEF IInv
<1>2. /\ m \in 0..n /\ (m # 0 => o + m <= size)
      /\ \/ /\ reply' = Done(there) /\ there \in [1..m -> Byte]
            /\ offset' = [offset EXCEPT ![fd] = @ + m]
         \/ reply' = Error /\ offset' = offset
      /\ UNCHANGED <<blocks, size, zeroing, failed, loose>>
  BY <1>1, ReadIsBytes
<1>3. /\ offset \in [Fd -> 0..(MaxSize + MaxLength)] /\ failed \in BOOLEAN /\ loose \in BOOLEAN
      /\ zeroing \in [at : 0..(2 * MaxSize), left : 0..MaxSize]
  BY DEF IInv, TypeOK
<1> HIDE DEF m, o, there
<1>4. m \in Nat /\ m <= MaxLength /\ o + m \in Nat /\ o + m <= MaxSize + MaxLength
  BY <1>1, <1>2
<1>5. reply' \in [ok : BOOLEAN, data : Data]
  <2>1. CASE reply' = Done(there) /\ there \in [1..m -> Byte]
    <3>1. there \in Data
      BY <1>1, <1>4, <2>1 DEF Data
    <3> QED BY <2>1, <3>1 DEF Done
  <2> QED BY <1>2, <2>1, Replies
<1>6. offset' \in [Fd -> 0..(MaxSize + MaxLength)]
  <2>1. CASE offset' = [offset EXCEPT ![fd] = @ + m]
    <3>1. offset' = [offset EXCEPT ![fd] = o + m]
      BY <2>1 DEF o
    <3> QED BY <1>4, <3>1, OffsetTyped DEF IInv
  <2> QED BY <1>2, <1>3, <2>1
<1>7. TypeOK'
  BY <1>1, <1>2, <1>3, <1>5, <1>6, TypesTogether
<1>8. CleanEnd'
  BY <1>2 DEF IInv, CleanEnd, Bytes, As
<1> QED BY <1>2, <1>7, <1>8 DEF IInv, ZeroingInRange, LooseFailed

LEMMA MoveKeepsInv ==
    ASSUME IInv, NEW fd \in Fd, NEW o \in 0..MaxSize, MoveTo(fd, o)
    PROVE  IInv'
<1>1. /\ offset' = [offset EXCEPT ![fd] = o] /\ reply' = Done(<< >>)
      /\ UNCHANGED <<blocks, size, zeroing, failed, loose>>
  BY DEF MoveTo
<1>2. o \in Nat /\ o <= MaxSize + MaxLength
  BY Sizes
<1>3. offset' \in [Fd -> 0..(MaxSize + MaxLength)]
  BY <1>1, <1>2, OffsetTyped DEF IInv
<1>4. TypeOK'
  BY <1>1, <1>3, Replies DEF IInv, TypeOK
<1>5. CleanEnd'
  BY <1>1 DEF IInv, CleanEnd, Bytes, As
<1> QED BY <1>1, <1>4, <1>5 DEF IInv, ZeroingInRange, LooseFailed

LEMMA TruncateKeepsInv ==
    ASSUME IInv, NEW n \in 0..MaxSize, Truncated(n) \/ TruncateFails(n), zeroing' = zeroing,
           offset' \in [Fd -> 0..(MaxSize + MaxLength)]
    PROVE  IInv'
<1>1. blocks \in Map /\ size \in Nat /\ size <= MaxSize /\ n \in Nat /\ n <= MaxSize /\ CleanEnd
  BY TypeFacts, Sizes DEF IInv
<1>2. /\ failed \in BOOLEAN /\ loose \in BOOLEAN /\ LooseFailed
      /\ zeroing \in [at : 0..(2 * MaxSize), left : 0..MaxSize]
  BY DEF IInv, TypeOK
<1>3. /\ blocks' \in Map
      /\ \/ reply' = Done(<< >>) /\ size' = n /\ failed' = failed /\ loose' = loose
         \/ reply' = Error /\ size' \in {size, n} /\ failed' = TRUE /\ loose' \in BOOLEAN
  BY <1>1, <1>2, TruncateCuts DEF HalfCut
<1>4. CleanEnd'
  BY <1>1, TruncateKeepsEnd
<1>5. reply' \in [ok : BOOLEAN, data : Data] /\ failed' \in BOOLEAN /\ loose' \in BOOLEAN
  BY <1>2, <1>3, Replies
<1>6. size' \in Nat /\ size' <= MaxSize
  BY <1>1, <1>3
<1>7. TypeOK'
  BY <1>2, <1>3, <1>5, <1>6, TypesTogether
<1>8. LooseFailed'
  <2>1. CASE failed' = TRUE
    BY <2>1 DEF LooseFailed
  <2>2. CASE failed' = failed /\ loose' = loose
    BY <1>2, <2>2 DEF LooseFailed
  <2> QED BY <1>3, <2>1, <2>2
<1>9. ZeroingInRange'
  BY DEF IInv, ZeroingInRange
<1> QED BY <1>4, <1>7, <1>8, <1>9 DEF IInv

\* A block given up is written by others: that happens only after a failure.
LEMMA OverwrittenKeepsInv ==
    ASSUME IInv, Overwritten
    PROVE  IInv'
<1>1. /\ loose /\ UNCHANGED <<size, offset, reply, zeroing, failed, loose>>
      /\ \E l \in Logical, c \in Content \cup {Hole} : blocks' = [blocks EXCEPT ![l] = c]
  BY DEF Overwritten
<1>2. TypeOK'
  BY <1>1 DEF IInv, TypeOK
<1>3. CleanEnd'
  BY <1>1 DEF IInv, LooseFailed, CleanEnd
<1> QED BY <1>1, <1>2, <1>3 DEF IInv, ZeroingInRange, LooseFailed

LEMMA ZeroKeepsInv ==
    ASSUME IInv, ZeroNext
    PROVE  IInv'
<1> DEFINE n == Min({BlockSize, zeroing.left})
           data == [i \in 1..n |-> Zero]
           o == zeroing.at
<1>1. /\ blocks \in Map /\ size \in Nat /\ size <= MaxSize /\ o \in Nat
      /\ zeroing.left \in Nat /\ zeroing.left <= MaxSize
      /\ zeroing.left >= 1 /\ o + zeroing.left <= 2 * MaxSize /\ CleanEnd
  BY TypeFacts DEF IInv, ZeroingInRange, ZeroNext
<1>2. BlockSize \in Nat /\ BlockSize >= 1 /\ Capacity \in Nat /\ Capacity <= MaxSize /\ MaxSize \in Nat
  BY Sizes DEF Capacity
<1>3. n \in Nat /\ n >= 1 /\ n <= zeroing.left
  <2>1. n = IF BlockSize <= zeroing.left THEN BlockSize ELSE zeroing.left
    BY <1>1, <1>2, MinOfTwo
  <2> HIDE DEF n
  <2> QED BY <1>1, <1>2, <2>1
<1>4. data \in [1..n -> Byte]
  BY Sizes
<1>5. /\ offset' = offset /\ offset \in [Fd -> 0..(MaxSize + MaxLength)]
      /\ failed \in BOOLEAN /\ loose \in BOOLEAN /\ LooseFailed
  BY DEF ZeroNext, IInv, TypeOK
<1>6. \/ /\ WriteSucceeds(o, data)
         /\ zeroing' = IF n = zeroing.left THEN NoRange
                       ELSE [at |-> o + n, left |-> zeroing.left - n]
      \/ WriteFails(o, data) /\ zeroing' = NoRange
  BY DEF ZeroNext
<1> HIDE DEF data, n, o
<1>7. NoRange \in [at : 0..(2 * MaxSize), left : 0..MaxSize]
  BY <1>2 DEF NoRange
<1>8. ASSUME zeroing' = [at |-> o + n, left |-> zeroing.left - n], n # zeroing.left
      PROVE  zeroing' \in [at : 0..(2 * MaxSize), left : 0..MaxSize] /\ ZeroingInRange'
  <2>1. o + n \in 0..(2 * MaxSize) /\ zeroing.left - n \in 0..MaxSize /\ zeroing.left - n >= 1
    BY <1>1, <1>2, <1>3, <1>8
  <2>2. zeroing' \in [at : 0..(2 * MaxSize), left : 0..MaxSize]
    BY <1>8, <2>1
  <2>3. zeroing'.at = o + n /\ zeroing'.left = zeroing.left - n
    BY <1>8
  <2>4. zeroing'.left >= 1 /\ zeroing'.at + zeroing'.left <= 2 * MaxSize
    <3> DEFINE x == zeroing.left
    <3>1. x \in Nat /\ o + x <= 2 * MaxSize /\ zeroing'.left = x - n
      BY <1>1, <2>3
    <3> HIDE DEF x
    <3>2. (o + n) + (x - n) = o + x
      BY <1>1, <1>3, <3>1
    <3> QED BY <2>1, <2>3, <3>1, <3>2
  <2> QED BY <2>2, <2>4 DEF ZeroingInRange
<1>9. ASSUME zeroing' = NoRange
      PROVE  zeroing' \in [at : 0..(2 * MaxSize), left : 0..MaxSize] /\ ZeroingInRange'
  BY <1>7, <1>9 DEF ZeroingInRange, NoRange
<1>10. zeroing' \in [at : 0..(2 * MaxSize), left : 0..MaxSize] /\ ZeroingInRange'
  BY <1>6, <1>8, <1>9
<1>11. CASE WriteSucceeds(o, data)
  <2>1. /\ blocks' \in Map /\ (n = 0 \/ o + n <= Capacity)
        /\ size' = IF n = 0 \/ size >= o + n THEN size ELSE o + n
        /\ reply' = Done(<< >>) /\ failed' = failed /\ loose' = loose
    BY <1>1, <1>3, <1>4, <1>11, WriteIsPut
  <2>2. CleanEnd'
    BY <1>1, <1>3, <1>4, <1>11, WriteKeepsEnd
  <2>3. size' \in Nat /\ size' <= MaxSize
    BY <1>1, <1>2, <1>3, <2>1
  <2>4. TypeOK'
    BY <1>5, <1>10, <2>1, <2>3, Replies, TypesTogether
  <2> QED BY <1>5, <1>10, <2>1, <2>2, <2>4 DEF IInv, LooseFailed
<1>12. CASE WriteFails(o, data)
  <2>1. blocks' \in Map /\ reply' = Error /\ failed' = TRUE /\ loose' = loose
    BY <1>1, <1>3, <1>4, <1>12, FailedWriteIsPut
  <2>2. CleanEnd'
    BY <2>1 DEF CleanEnd
  <2>3. size' \in Nat /\ size' <= MaxSize
    <3>1. PICK k \in 0..n : PartPut(o, n, data, k)
      BY <1>1, <1>3, <1>4, <1>12, FailedWriteIsPut
    <3> QED BY <1>1, <1>2, <1>3, <3>1 DEF PartPut
  <2>4. TypeOK'
    BY <1>5, <1>10, <2>1, <2>3, Replies, TypesTogether
  <2> QED BY <1>5, <1>10, <2>1, <2>2, <2>4 DEF IInv, LooseFailed
<1> QED BY <1>6, <1>11, <1>12

LEMMA RawFileInit == Init => IInv
<1> SUFFICES ASSUME Init PROVE IInv
  OBVIOUS
<1>1. /\ blocks = [l \in Logical |-> Hole] /\ size = 0 /\ offset = [fd \in Fd |-> 0]
      /\ reply = Done(<< >>) /\ zeroing = NoRange /\ failed = FALSE /\ loose = FALSE
  BY DEF Init
<1>2. TypeOK
  <2>1. NoRange \in [at : 0..(2 * MaxSize), left : 0..MaxSize]
    BY Sizes DEF NoRange
  <2>2. offset \in [Fd -> 0..(MaxSize + MaxLength)] /\ size \in 0..MaxSize
    BY <1>1, Sizes
  <2> QED BY <1>1, <2>1, <2>2, Replies DEF TypeOK
<1>3. CleanEnd
  <2>1. \A p \in Position : Bytes(blocks)[p] = Zero
    BY <1>1, PlaceOf, ZeroHoles DEF Bytes, As
  <2> QED BY <1>1, <2>1 DEF CleanEnd
<1> QED BY <1>1, <1>2, <1>3 DEF IInv, ZeroingInRange, LooseFailed

LEMMA RawFileNext == IInv /\ [Next]_vars => IInv'
<1> SUFFICES ASSUME IInv, [Next]_vars PROVE IInv'
  OBVIOUS
<1>1. TypeOK /\ size \in 0..MaxSize /\ 0 \in 0..MaxSize /\ offset \in [Fd -> 0..(MaxSize + MaxLength)]
  BY Sizes DEF IInv, TypeOK
<1>2. ASSUME NEW fd \in Fd, NEW data \in Data, Write(fd, data) PROVE IInv'
  BY <1>2, WriteKeepsInv
<1>3. ASSUME NEW fd \in Fd, NEW n \in 0..MaxLength, Read(fd, n) PROVE IInv'
  BY <1>3, ReadKeepsInv
<1>4. ASSUME NEW fd \in Fd, NEW o \in 0..MaxSize, Seek(fd, o) PROVE IInv'
  BY <1>4, MoveKeepsInv DEF Seek
<1>5. ASSUME NEW fd \in Fd, NEW append \in BOOLEAN, Open(fd, append) PROVE IInv'
  <2>1. (IF append THEN size ELSE 0) \in 0..MaxSize
    BY <1>1
  <2> QED BY <1>5, <2>1, MoveKeepsInv DEF Open
<1>6. ASSUME NEW fd \in Fd, TruncateFd(fd) PROVE IInv'
  <2>1. /\ Truncated(0) \/ TruncateFails(0)
        /\ offset' \in {offset, [offset EXCEPT ![fd] = 0]}
        /\ zeroing' = zeroing
    BY <1>6 DEF TruncateFd
  <2>2. offset' \in [Fd -> 0..(MaxSize + MaxLength)]
    BY <1>1, <2>1, Sizes, OffsetTyped
  <2> QED BY <1>1, <2>1, <2>2, TruncateKeepsInv
<1>7. ASSUME NEW n \in 0..MaxSize, Truncate(n) PROVE IInv'
  BY <1>1, <1>7, TruncateKeepsInv DEF Truncate
<1>8. ASSUME NEW o \in 0..MaxSize, NEW n \in 0..MaxSize, ZeroRange(o, n) PROVE IInv'
  <2>1. n > 0 /\ zeroing' = [at |-> o, left |-> n] /\ UNCHANGED <<blocks, size, offset, reply, failed, loose>>
    BY <1>8 DEF ZeroRange
  <2>2. o \in 0..(2 * MaxSize) /\ n \in 0..MaxSize /\ n >= 1 /\ o + n <= 2 * MaxSize
    BY <2>1, Sizes
  <2>3. zeroing' \in [at : 0..(2 * MaxSize), left : 0..MaxSize] /\ zeroing'.at = o /\ zeroing'.left = n
    BY <2>1, <2>2
  <2>4. TypeOK'
    BY <2>1, <2>3 DEF IInv, TypeOK
  <2>5. CleanEnd'
    BY <2>1 DEF IInv, CleanEnd, Bytes, As
  <2>6. ZeroingInRange'
    BY <2>2, <2>3 DEF ZeroingInRange
  <2> QED BY <2>1, <2>4, <2>5, <2>6 DEF IInv, LooseFailed
<1>9. CASE ZeroNext
  BY <1>9, ZeroKeepsInv
<1>10. CASE UNCHANGED vars
  BY <1>10 DEF vars, IInv, TypeOK, ZeroingInRange, CleanEnd, LooseFailed, Bytes, As
<1>11. CASE Overwritten
  BY <1>11, OverwrittenKeepsInv
<1> QED BY <1>2, <1>3, <1>4, <1>5, <1>6, <1>7, <1>8, <1>9, <1>10, <1>11 DEF Next

LEMMA RawFileInvariant == Spec => []IInv
BY RawFileInit, RawFileNext, PTL DEF Spec

\* The state of a file has its types, for any size of blocks and of the map.
THEOREM RawFileTypeOK == Spec => []TypeOK
<1>1. IInv => TypeOK
  BY DEF IInv
<1> QED BY <1>1, RawFileInvariant, PTL

\* Until a call of raw_file.cpp fails midway nothing is kept behind the end of the
\* file: a later growth reads zeroes.
THEOREM RawFileNothingPastEnd == Spec => []NothingPastEnd
<1>1. IInv => NothingPastEnd
  BY TypeFacts, EndInBytes DEF IInv
<1> QED BY <1>1, RawFileInvariant, PTL
-----------------------------------------------------------------------------
(***************************************************************************)
(* The implementation of ByteFile                                          *)
(***************************************************************************)

LEMMA Shown ==
    /\ [p \in 0..(MaxBlocks * BlockSize - 1) |-> ReadAs(p \div BlockSize)[p % BlockSize]] = Bytes(blocks)
    /\ [p \in 0..(MaxBlocks * BlockSize - 1) |-> ReadAs(p \div BlockSize)[p % BlockSize]]' = Bytes(blocks')
    /\ File!Position = Position
<1>1. [p \in 0..(MaxBlocks * BlockSize - 1) |-> ReadAs(p \div BlockSize)[p % BlockSize]] = Bytes(blocks)
  BY DEF Bytes, As, ReadAs, Position, Capacity
<1>2. [p \in 0..(MaxBlocks * BlockSize - 1) |-> ReadAs(p \div BlockSize)[p % BlockSize]]' = Bytes(blocks')
  BY DEF Bytes, As, ReadAs, Position, Capacity
<1>3. File!Position = Position
  BY DEF File!Position, Position, Capacity
<1> QED BY <1>1, <1>2, <1>3

\* A row put over the bytes, all of it or its first part.
LEMMA PutImplements ==
    ASSUME NEW o \in Nat, NEW n \in Nat, NEW data \in [1..n -> Byte], size \in Nat
    PROVE  /\ /\ n = 0 \/ o + n <= Capacity
              /\ Bytes(blocks') = Put(Bytes(blocks), o, n, data)
              /\ size' = IF n = 0 \/ size >= o + n THEN size ELSE o + n
              /\ reply' = Done(<< >>)
              => File!Put(o, data)
           /\ /\ \E k \in 0..n : PartPut(o, n, data, k)
              /\ reply' = Error
              => File!Put(o, data)
<1>1. data \in Seq(Byte) /\ Len(data) = n /\ (data = << >> <=> n = 0)
  BY Row
<1> DEFINE b == [p \in 0..(MaxBlocks * BlockSize - 1) |-> ReadAs(p \div BlockSize)[p % BlockSize]]
           c == [p \in 0..(MaxBlocks * BlockSize - 1) |-> ReadAs(p \div BlockSize)[p % BlockSize]]'
           Over(row) == [p \in File!Position |-> IF p \in o..(o + Len(row) - 1) THEN row[p - o + 1] ELSE b[p]]
<1>2. b = Bytes(blocks) /\ c = Bytes(blocks') /\ File!Position = Position
  BY Shown
<1>3. File!Put(o, data) <=>
        \/ /\ data = << >> \/ o + Len(data) <= MaxBlocks * BlockSize
           /\ c = Over(data)
           /\ size' = IF data = << >> THEN size ELSE IF size > o + Len(data) THEN size ELSE o + Len(data)
           /\ reply' = Done(<< >>)
        \/ /\ \E k \in 0..Len(data) :
                /\ c = Over(SubSeq(data, 1, k))
                /\ \/ size' = size
                   \/ /\ size' = IF data = << >> THEN size ELSE IF size > o + Len(data) THEN size ELSE o + Len(data)
                      /\ k = Len(data)
           /\ reply' = Error
  BY DEF File!Put, File!Over, File!Longer, File!Larger, File!Done, File!Error, Done, Error
<1> HIDE DEF b, c
<1>4. Over(data) = Put(Bytes(blocks), o, n, data)
  BY <1>1, <1>2 DEF Put
<1>5. ASSUME NEW k \in 0..n
      PROVE  Over(SubSeq(data, 1, k)) = Put(Bytes(blocks), o, k, data)
  <2> DEFINE row == SubSeq(data, 1, k)
  <2>1. Len(row) = k /\ \A i \in 1..k : row[i] = data[i]
    BY <1>1
  <2>2. ASSUME NEW p \in Position, p \in o..(o + k - 1) PROVE row[p - o + 1] = data[p - o + 1]
    <3>1. p - o + 1 \in 1..k
      BY <2>2
    <3> QED BY <2>1, <3>1
  <2> HIDE DEF row
  <2>3. Over(row) = Put(Bytes(blocks), o, k, data)
    BY <1>2, <2>1, <2>2 DEF Put
  <2> QED BY <2>3 DEF row
<1> HIDE DEF Over
<1>6. ASSUME n = 0 \/ o + n <= Capacity,
             Bytes(blocks') = Put(Bytes(blocks), o, n, data),
             size' = IF n = 0 \/ size >= o + n THEN size ELSE o + n,
             reply' = Done(<< >>)
      PROVE  File!Put(o, data)
  <2>1. c = Over(data)
    BY <1>2, <1>4, <1>6
  <2>2. data = << >> \/ o + Len(data) <= MaxBlocks * BlockSize
    BY <1>1, <1>6 DEF Capacity
  <2>3. size' = IF data = << >> THEN size ELSE IF size > o + Len(data) THEN size ELSE o + Len(data)
    <3>1. size' = IF n = 0 THEN size ELSE IF size > o + n THEN size ELSE o + n
      BY <1>6
    <3> QED BY <1>1, <3>1, Zenon
  <2> QED BY <1>3, <1>6, <2>1, <2>2, <2>3
<1>7. ASSUME \E k \in 0..n : PartPut(o, n, data, k), reply' = Error
      PROVE  File!Put(o, data)
  <2>1. PICK k \in 0..n : PartPut(o, n, data, k)
    BY <1>7
  <2>2. c = Over(SubSeq(data, 1, k)) /\ k \in 0..Len(data)
    BY <1>1, <1>2, <1>5, <2>1 DEF PartPut
  <2>3. \/ size' = size
        \/ /\ size' = IF data = << >> THEN size ELSE IF size > o + Len(data) THEN size ELSE o + Len(data)
           /\ k = Len(data)
    <3>1. \/ size' = size
          \/ size' = (IF n = 0 THEN size ELSE IF size > o + n THEN size ELSE o + n) /\ k = n
      BY <2>1 DEF PartPut
    <3> QED BY <1>1, <3>1, Zenon
  <2> QED BY <1>3, <1>7, <2>2, <2>3
<1> QED BY <1>6, <1>7

LEMMA WriteImplements ==
    ASSUME IInv, NEW fd \in Fd, NEW data \in Data, Write(fd, data)
    PROVE  File!Next
<1> DEFINE o == offset[fd]
<1>0. loose' = loose
  BY DEF Write, WriteSucceeds, WriteFails
<1>1. PICK n \in 0..MaxLength : data \in [1..n -> Byte]
  BY RowOfData
<1>2. blocks \in Map /\ size \in Nat /\ o \in Nat /\ n \in Nat
  BY <1>1, TypeFacts, Sizes DEF IInv
<1>3. File!Put(o, data) /\ offset' = IF reply'.ok THEN [offset EXCEPT ![fd] = @ + Len(data)] ELSE offset
  <2>1. CASE WriteSucceeds(o, data) /\ offset' = [offset EXCEPT ![fd] = @ + Len(data)]
    <3>1. /\ (n = 0 \/ o + n <= Capacity)
          /\ Bytes(blocks') = Put(Bytes(blocks), o, n, data)
          /\ size' = IF n = 0 \/ size >= o + n THEN size ELSE o + n
          /\ reply' = Done(<< >>)
      BY <1>1, <1>2, <2>1, WriteIsPut
    <3>2. File!Put(o, data)
      <4> HIDE DEF o
      <4> QED BY <1>1, <1>2, <3>1, PutImplements
    <3>3. reply'.ok
      BY <3>1 DEF Done
    <3> QED BY <2>1, <3>2, <3>3
  <2>2. CASE WriteFails(o, data) /\ offset' = offset
    <3>1. (\E k \in 0..n : PartPut(o, n, data, k)) /\ reply' = Error
      BY <1>1, <1>2, <2>2, FailedWriteIsPut
    <3>2. File!Put(o, data)
      <4> HIDE DEF o
      <4> QED BY <1>1, <1>2, <3>1, PutImplements
    <3>3. ~reply'.ok
      BY <3>1 DEF Error
    <3> QED BY <2>2, <3>2, <3>3
  <2> QED BY <2>1, <2>2 DEF Write
<1>4. File!Write(fd, data)
  BY <1>0, <1>3 DEF File!Write
<1> QED BY <1>4 DEF File!Next

Zeros(n) == [i \in 1..n |-> Zero]
Clears(o, n) == WriteSucceeds(o, Zeros(n))
ClearFails(o, n) == WriteFails(o, Zeros(n))

\* A write of zeroes that ends within the map, or within what may be asked for...
LEMMA ZeroesPut ==
    ASSUME blocks \in Map, size \in Nat, NEW o \in Nat, NEW n \in Nat, n >= 1,
           Clears(o, n) \/ (ClearFails(o, n) /\ o < Capacity), offset' = offset
    PROVE  File!ZeroSome(o, n) /\ o < Capacity
<1> DEFINE data == Zeros(n)
<1>1. data \in [1..n -> Byte]
  BY Sizes DEF Zeros
<1>2. Capacity \in Nat
  BY Sizes DEF Capacity
<1> HIDE DEF data
<1>3. ASSUME WriteSucceeds(o, data) PROVE File!Put(o, data) /\ o < Capacity
  <2>1. /\ n = 0 \/ o + n <= Capacity
        /\ Bytes(blocks') = Put(Bytes(blocks), o, n, data)
        /\ size' = IF n = 0 \/ size >= o + n THEN size ELSE o + n
        /\ reply' = Done(<< >>)
    BY <1>1, <1>3, WriteIsPut
  <2>2. o < Capacity
    BY <1>2, <2>1
  <2> QED BY <1>1, <2>1, <2>2, PutImplements
<1>4. ASSUME WriteFails(o, data), o < Capacity PROVE File!Put(o, data) /\ o < Capacity
  <2>1. (\E k \in 0..n : PartPut(o, n, data, k)) /\ reply' = Error
    BY <1>1, <1>4, FailedWriteIsPut
  <2> QED BY <1>1, <1>4, <2>1, PutImplements
<1>5. File!Put(o, data) /\ o < Capacity
  BY <1>3, <1>4 DEF Clears, ClearFails, data
<1>6. loose' = loose
  BY DEF Clears, ClearFails, WriteSucceeds, WriteFails
<1> QED BY <1>5, <1>6 DEF File!ZeroSome, data, Zeros

\* ... and one behind it, which puts down nothing.
LEMMA NothingPut ==
    ASSUME blocks \in Map, size \in Nat, NEW o \in Nat, NEW n \in Nat,
           ClearFails(o, n), o >= Capacity, offset' = offset
    PROVE  File!ZeroSome(0, 1)
<1> DEFINE data == Zeros(n)
           one == Zeros(1)
<1>1. data \in [1..n -> Byte] /\ one \in [1..1 -> Byte]
  BY Sizes DEF Zeros
<1> HIDE DEF data, one
<1>2. WriteFails(o, data)
  BY DEF ClearFails, data
<1>3. PICK k \in 0..n : PartPut(o, n, data, k)
  BY <1>1, <1>2, FailedWriteIsPut
<1>4. reply' = Error /\ loose' = loose
  BY <1>1, <1>2, FailedWriteIsPut
<1>5. k = 0 /\ size' = size /\ Bytes(blocks') = Put(Bytes(blocks), o, k, data)
  <2>1. Capacity \in Nat
    BY Sizes DEF Capacity
  <2> QED BY <1>3, <2>1 DEF PartPut
<1>6. Put(Bytes(blocks), o, k, data) = Put(Bytes(blocks), 0, 0, one)
  <2>1. \A p \in Position : p \notin o..(o + 0 - 1) /\ p \notin 0..(0 + 0 - 1)
    OBVIOUS
  <2> QED BY <1>5, <2>1 DEF Put
<1>7. 0 \in 0..1 /\ 0 \in Nat /\ 1 \in Nat
  OBVIOUS
<1>8. \E m \in 0..1 : PartPut(0, 1, one, m)
  BY <1>5, <1>6, <1>7 DEF PartPut
<1>9. File!Put(0, one)
  BY <1>1, <1>4, <1>7, <1>8, PutImplements
<1> QED BY <1>4, <1>9 DEF File!ZeroSome, one, Zeros

LEMMA ZeroImplements ==
    ASSUME IInv, ZeroNext
    PROVE  File!Next
<1> DEFINE n == Min({BlockSize, zeroing.left})
           at == zeroing.at
<1>1. /\ blocks \in Map /\ size \in Nat /\ at \in Nat /\ zeroing.left \in Nat /\ zeroing.left <= MaxSize
      /\ zeroing.left >= 1
  BY TypeFacts DEF IInv, ZeroingInRange, ZeroNext
<1>2. /\ BlockSize \in Nat /\ BlockSize >= 1 /\ Capacity \in Nat /\ Capacity <= MaxSize /\ MaxSize \in Nat
      /\ Capacity >= 1
  BY Sizes DEF Capacity
<1>3. n \in Nat /\ n >= 1 /\ n <= zeroing.left
  <2>1. n = IF BlockSize <= zeroing.left THEN BlockSize ELSE zeroing.left
    BY <1>1, <1>2, MinOfTwo
  <2> HIDE DEF n
  <2> QED BY <1>1, <1>2, <2>1
<1>4. PICK o \in Nat, k \in Nat : o = at /\ k = n
  BY <1>1, <1>3
<1>5. offset' = offset /\ (Clears(o, k) \/ ClearFails(o, k))
  <2>1. offset' = offset /\ (WriteSucceeds(at, [i \in 1..n |-> Zero]) \/ WriteFails(at, [i \in 1..n |-> Zero]))
    BY DEF ZeroNext
  <2>2. [i \in 1..n |-> Zero] = Zeros(k)
    BY <1>4 DEF Zeros
  <2> DEFINE data == [i \in 1..n |-> Zero]
  <2>3. data = Zeros(k) /\ at = o
    BY <1>4, <2>2
  <2> HIDE DEF data, at
  <2>4. WriteSucceeds(at, data) => WriteSucceeds(o, Zeros(k))
    BY <2>3 DEF WriteSucceeds
  <2>5. WriteFails(at, data) => WriteFails(o, Zeros(k))
    BY <2>3 DEF WriteFails
  <2> QED BY <2>1, <2>4, <2>5 DEF data, Clears, ClearFails
<1> HIDE DEF at, n
<1>6. CASE ClearFails(o, k) /\ o >= Capacity
  <2>1. File!ZeroSome(0, 1)
    BY <1>1, <1>5, <1>6, NothingPut
  <2>2. 0 \in 0..MaxSize /\ 1 \in 0..MaxSize
    BY <1>2
  <2> QED BY <2>1, <2>2 DEF File!Next
<1>7. CASE Clears(o, k) \/ (ClearFails(o, k) /\ o < Capacity)
  <2>1. File!ZeroSome(o, k) /\ o < Capacity
    BY <1>1, <1>3, <1>4, <1>5, <1>7, ZeroesPut
  <2>2. o \in 0..MaxSize /\ k \in 0..MaxSize
    BY <1>1, <1>2, <1>3, <1>4, <2>1
  <2> QED BY <2>1, <2>2 DEF File!Next
<1> QED BY <1>2, <1>4, <1>5, <1>6, <1>7

LEMMA ReadImplements ==
    ASSUME IInv, NEW fd \in Fd, NEW n \in 0..MaxLength, Read(fd, n)
    PROVE  File!Next
<1> DEFINE o == offset[fd]
           m == IF o >= size THEN 0 ELSE IF n < size - o THEN n ELSE size - o
           b == [p \in 0..(MaxBlocks * BlockSize - 1) |-> ReadAs(p \div BlockSize)[p % BlockSize]]
           c == [p \in 0..(MaxBlocks * BlockSize - 1) |-> ReadAs(p \div BlockSize)[p % BlockSize]]'
<1>1. blocks \in Map /\ size \in Nat /\ size <= MaxSize /\ o \in Nat /\ n \in Nat /\ MaxSize \in Nat
  BY TypeFacts, Sizes DEF IInv
<1>2. /\ m \in 0..n /\ (m # 0 => o + m <= size)
      /\ \/ /\ m = 0 \/ o + m <= Capacity
            /\ reply' = Done([i \in 1..m |-> Bytes(blocks)[o + i - 1]])
            /\ offset' = [offset EXCEPT ![fd] = @ + m]
         \/ reply' = Error /\ offset' = offset
      /\ UNCHANGED <<blocks, size, zeroing, failed, loose>>
  BY <1>1, ReadIsBytes
<1>3. b = Bytes(blocks) /\ c = Bytes(blocks')
  BY Shown
<1>4. c = b
  BY <1>2, <1>3
\* The same bytes are read when only they are asked for.
<1>5. m = IF o >= size THEN 0 ELSE IF m < size - o THEN m ELSE size - o
  BY <1>1
<1>6. m \in 0..MaxSize
  BY <1>1, <1>2
<1> DEFINE Answer(x) ==
             /\ \/ /\ x = 0 \/ o + x <= MaxBlocks * BlockSize
                   /\ reply' = Done([i \in 1..x |-> b[o + i - 1]])
                   /\ offset' = [offset EXCEPT ![fd] = @ + x]
                \/ reply' = Error /\ offset' = offset
             /\ c = b /\ size' = size /\ loose' = loose
           e == IF o >= size THEN 0 ELSE IF m < size - o THEN m ELSE size - o
<1>7. File!Read(fd, m) <=> Answer(e)
  <2> HIDE DEF m
  <2> QED BY DEF File!Read, File!Done, File!Error, Done, Error
<1> HIDE DEF o, m, b, c
<1>8. Answer(m)
  <2>1. Capacity = MaxBlocks * BlockSize
    BY DEF Capacity
  <2> QED BY <1>2, <1>3, <1>4, <2>1, Zenon
<1>9. File!Read(fd, m)
  <2>1. m = e
    BY <1>5
  <2> HIDE DEF Answer, e
  <2>2. Answer(e)
    BY <1>8, <2>1
  <2> QED BY <1>7, <2>2
<1> QED BY <1>6, <1>9 DEF File!Next

LEMMA MoveImplements ==
    ASSUME NEW fd \in Fd, NEW o, MoveTo(fd, o)
    PROVE  File!Seek(fd, o)
<1>1. /\ blocks' = blocks /\ size' = size /\ loose' = loose
      /\ offset' = [offset EXCEPT ![fd] = o] /\ reply' = Done(<< >>)
  BY DEF MoveTo
<1>2. [p \in 0..(MaxBlocks * BlockSize - 1) |-> ReadAs(p \div BlockSize)[p % BlockSize]]'
      = [p \in 0..(MaxBlocks * BlockSize - 1) |-> ReadAs(p \div BlockSize)[p % BlockSize]]
  BY <1>1, Shown
<1> QED BY <1>1, <1>2 DEF File!Seek, File!Done, Done

LEMMA TruncateImplements ==
    ASSUME IInv, NEW n \in 0..MaxSize, Truncated(n) \/ TruncateFails(n)
    PROVE  File!Truncate(n)
<1> DEFINE b == [p \in 0..(MaxBlocks * BlockSize - 1) |-> ReadAs(p \div BlockSize)[p % BlockSize]]
           c == [p \in 0..(MaxBlocks * BlockSize - 1) |-> ReadAs(p \div BlockSize)[p % BlockSize]]'
<1>1. blocks \in Map /\ size \in Nat /\ n \in Nat
  BY TypeFacts DEF IInv
<1>2. /\ blocks' \in Map
      /\ \/ /\ reply' = Done(<< >>) /\ size' = n /\ loose' = loose
            /\ IsTruncated(Bytes(blocks), Bytes(blocks'), size, n, TRUE)
         \/ reply' = Error /\ HalfCut(n)
  BY <1>1, TruncateCuts
<1>3. b = Bytes(blocks) /\ c = Bytes(blocks') /\ File!Position = Position
  BY Shown
<1>4. c \in [Position -> Byte]
  BY <1>2, <1>3, BytesOf
<1>5. File!Truncate(n) <=>
        /\ c \in [File!Position -> Byte]
        /\ \A p \in File!Position :
             c[p] \in IF p < n \/ n >= size THEN {b[p]}
                      ELSE IF p >= size \/ size' # n THEN {b[p], Zero}
                      ELSE {Zero}
        /\ \/ reply' = Done(<< >>) /\ size' = n /\ loose' = loose
           \/ reply' = Error /\ size' \in {size, n} /\ loose' \in {loose, loose \/ n < size}
  BY DEF File!Truncate, File!Done, File!Error, Done, Error
<1> HIDE DEF b, c
<1>6. ASSUME IsTruncated(Bytes(blocks), Bytes(blocks'), size, n, size' = n)
      PROVE  \A p \in File!Position :
               c[p] \in IF p < n \/ n >= size THEN {b[p]}
                        ELSE IF p >= size \/ size' # n THEN {b[p], Zero}
                        ELSE {Zero}
  BY <1>3, <1>6 DEF IsTruncated
<1>7. CASE /\ reply' = Done(<< >>) /\ size' = n /\ loose' = loose
           /\ IsTruncated(Bytes(blocks), Bytes(blocks'), size, n, TRUE)
  <2>1. IsTruncated(Bytes(blocks), Bytes(blocks'), size, n, size' = n)
    BY <1>7, CutAnyway
  <2> QED BY <1>3, <1>4, <1>5, <1>6, <1>7, <2>1
<1>8. CASE reply' = Error /\ HalfCut(n)
  <2>1. /\ IsTruncated(Bytes(blocks), Bytes(blocks'), size, n, size' = n)
        /\ size' \in {size, n} /\ loose' \in {loose, loose \/ n < size}
    BY <1>8 DEF HalfCut
  <2> QED BY <1>3, <1>4, <1>5, <1>6, <1>8, <2>1
<1> QED BY <1>2, <1>7, <1>8

\* What others write into a block given up changes bytes only.
LEMMA OverwrittenImplements ==
    ASSUME IInv, Overwritten
    PROVE  File!Overwritten
<1>1. /\ loose /\ UNCHANGED <<size, offset, reply, loose>>
      /\ \E l \in Logical, c \in Content \cup {Hole} : blocks' = [blocks EXCEPT ![l] = c]
  BY DEF Overwritten
<1>2. blocks' \in Map
  BY <1>1, TypeFacts DEF IInv, Map
<1>3. Bytes(blocks') \in [Position -> Byte]
  BY <1>2, BytesOf
<1> QED BY <1>1, <1>3, Shown DEF File!Overwritten

\* Every step of the file is a step of the row of bytes, or does not show.
LEMMA StepImplements ==
    ASSUME IInv, [Next]_vars
    PROVE  [File!Next]_<<[p \in 0..(MaxBlocks * BlockSize - 1) |-> ReadAs(p \div BlockSize)[p % BlockSize]],
                         size, offset, reply, loose>>
<1>1. 0 \in 0..MaxSize
  BY Sizes
<1>2. ASSUME NEW fd \in Fd, NEW data \in Data, Write(fd, data) PROVE File!Next
  BY <1>2, WriteImplements
<1>3. ASSUME NEW fd \in Fd, NEW n \in 0..MaxLength, Read(fd, n) PROVE File!Next
  BY <1>3, ReadImplements
<1>4. ASSUME NEW fd \in Fd, NEW o \in 0..MaxSize, Seek(fd, o) PROVE File!Next
  <2>1. File!Seek(fd, o)
    BY <1>4, MoveImplements DEF Seek
  <2> QED BY <2>1 DEF File!Next
<1>5. ASSUME NEW fd \in Fd, NEW append \in BOOLEAN, Open(fd, append) PROVE File!Next
  <2>1. File!Seek(fd, IF append THEN size ELSE 0)
    BY <1>5, MoveImplements DEF Open
  <2>2. File!Open(fd, append)
    BY <2>1 DEF File!Open
  <2> QED BY <2>2 DEF File!Next
<1>6. ASSUME NEW fd \in Fd, TruncateFd(fd) PROVE File!Next
  <2>1. File!Truncate(0)
    BY <1>1, <1>6, TruncateImplements DEF TruncateFd
  <2>2. \/ reply' = Done(<< >>) /\ offset' = [offset EXCEPT ![fd] = 0]
        \/ reply' = Error /\ offset' = offset
    BY <1>6 DEF TruncateFd, Truncated, TruncateFails
  <2>3. offset' = IF reply'.ok THEN [offset EXCEPT ![fd] = 0] ELSE offset
    BY <2>2 DEF Done, Error
  <2>4. File!TruncateFd(fd)
    BY <2>1, <2>3 DEF File!TruncateFd
  <2> QED BY <2>4 DEF File!Next
<1>7. ASSUME NEW n \in 0..MaxSize, Truncate(n) PROVE File!Next
  <2>1. File!Truncate(n) /\ offset' = offset
    BY <1>7, TruncateImplements DEF Truncate
  <2> QED BY <2>1 DEF File!Next
<1>8. ASSUME UNCHANGED <<blocks, size, offset, reply, loose>>
      PROVE  UNCHANGED <<[p \in 0..(MaxBlocks * BlockSize - 1) |-> ReadAs(p \div BlockSize)[p % BlockSize]],
                         size, offset, reply, loose>>
  <2>1. [p \in 0..(MaxBlocks * BlockSize - 1) |-> ReadAs(p \div BlockSize)[p % BlockSize]]'
        = [p \in 0..(MaxBlocks * BlockSize - 1) |-> ReadAs(p \div BlockSize)[p % BlockSize]]
    BY <1>8, Shown
  <2> QED BY <1>8, <2>1
<1>9. ASSUME NEW o \in 0..MaxSize, NEW n \in 0..MaxSize, ZeroRange(o, n)
      PROVE  UNCHANGED <<blocks, size, offset, reply, loose>>
  BY <1>9 DEF ZeroRange
<1>10. CASE ZeroNext
  BY <1>10, ZeroImplements
<1>11. CASE UNCHANGED vars
  BY <1>8, <1>11 DEF vars
<1>12. CASE Overwritten
  BY <1>12, OverwrittenImplements DEF File!Next
<1> QED BY <1>2, <1>3, <1>4, <1>5, <1>6, <1>7, <1>8, <1>9, <1>10, <1>11, <1>12 DEF Next

\* The block-by-block loops keep the promise of a row of bytes, for any size of
\* blocks, whichever calls fail at whichever of their blocks or at the inode; what
\* a file that shares blocks after a failed release still keeps is its size and
\* its offsets.
THEOREM RawFileImplementsByteFile == Spec => ImplementsByteFile
<1>1. Init => File!Init
  <2> SUFFICES ASSUME Init PROVE File!Init
    OBVIOUS
  <2>1. \A p \in Position : Bytes(blocks)[p] = Zero
    BY PlaceOf, ZeroHoles DEF Init, Bytes, As
  <2>2. [p \in 0..(MaxBlocks * BlockSize - 1) |-> ReadAs(p \div BlockSize)[p % BlockSize]]
        = [p \in File!Position |-> Zero]
    <3>1. Bytes(blocks) = [p \in Position |-> Bytes(blocks)[p]]
      BY DEF Bytes
    <3>2. Bytes(blocks) = [p \in Position |-> Zero]
      BY <2>1, <3>1
    <3> QED BY <3>2, Shown
  <2> QED BY <2>2 DEF Init, File!Init, File!Done, Done
<1>2. IInv /\ [Next]_vars
        => [File!Next]_<<[p \in 0..(MaxBlocks * BlockSize - 1) |-> ReadAs(p \div BlockSize)[p % BlockSize]],
                         size, offset, reply, loose>>
  BY StepImplements
<1> QED BY <1>1, <1>2, RawFileInvariant, PTL DEF Spec, ImplementsByteFile, File!Spec
=============================================================================
