--------------------------- MODULE GroupChainProofs ---------------------------
(***************************************************************************)
(* Proofs about GroupChain.tla, for any set of data blocks, any group size *)
(* and any number of crashes and of failed writes.  First the lemmas on    *)
(* chains, then the inductive invariant.                                   *)
(***************************************************************************)
EXTENDS GroupChain, SequenceTheorems, TLAPS

-----------------------------------------------------------------------------
(***************************************************************************)
(* The inductive invariant                                                 *)
(***************************************************************************)

\* Which call the records and the block in hand belong to, and what it takes for a
\* block to be left free and recorded.
Owners ==
    /\ leaving \subseteq refs
    /\ pc \notin {"free", "release"} => leaving = {}
    /\ pc = "format" => refs = {} /\ transit = {} /\ dirty = {}
    /\ pc = "down" => chain = dChain /\ sb = dsb /\ transit = {} /\ dirty = {}
    /\ (cur = NoBlock) <=> (pc # "alloc")
    /\ spoilt \/ exposed # {} => crashes # 0 \/ faults # 0

\* A superblock and a chain that belong together.
Chained(s, c, contents) ==
    /\ s \in Super
    /\ c \in Seq(Group)
    /\ Spells(s, c, contents)
    /\ NoRepeats(c)

\* What is free, what is in use, and that nothing is cached for a free block.
Apart ==
    /\ (refs \cup transit) \cap (Blocks(chain) \cup Blocks(dChain)) \subseteq leaving \cup exposed
    /\ refs \cap transit = {}
    /\ pc = "alloc" => cur \notin refs \cup transit \cup Blocks(chain)
    /\ leaving \subseteq Blocks(chain)
    /\ dirty \cap (Blocks(chain) \cup Blocks(dChain)) = {}
    /\ pc = "format" => Blocks(dChain) = {}

Sound ==
    /\ Chained(sb, chain, content)
    /\ Chained(dsb, dChain, content)
    /\ Apart
    /\ NothingLost

\* The chain is sound as long as no block that is free and recorded has been used;
\* the rest holds whatever becomes of it.
IInv ==
    /\ TypeOK
    /\ Owners
    /\ ~spoilt => Sound

-----------------------------------------------------------------------------
(***************************************************************************)
(* Chains as sequences of groups                                           *)
(***************************************************************************)

\* What is known of a chain and of each of its groups.
LEMMA ChainFacts ==
    ASSUME NEW c \in Seq(Group)
    PROVE  /\ Len(c) \in Nat
           /\ DOMAIN c = 1..Len(c)
           /\ \A i \in DOMAIN c : /\ c[i] \in Group
                                /\ Len(c[i]) \in Nat
                                /\ DOMAIN c[i] = 1..Len(c[i])
                                /\ \A p \in DOMAIN c[i] : c[i][p] \in Block
<1>1. Len(c) \in Nat /\ DOMAIN c = 1..Len(c)
  BY LenProperties
<1>2. \A i \in DOMAIN c : c[i] \in Group
  BY <1>1, ElementOfSeq
<1>3. ASSUME NEW g \in Group
      PROVE  Len(g) \in Nat /\ DOMAIN g = 1..Len(g) /\ \A p \in DOMAIN g : g[p] \in Block
  BY LenProperties, ElementOfSeq DEF Group
<1> QED BY <1>1, <1>2, <1>3

\* The same of a single group.
LEMMA GroupFacts ==
    ASSUME NEW g \in Group
    PROVE  /\ Len(g) \in Nat
           /\ DOMAIN g = 1..Len(g)
           /\ \A p \in DOMAIN g : g[p] \in Block
           /\ g # << >> => Len(g) >= 1
           /\ Len(g) >= 1 => g # << >>
  BY LenProperties, ElementOfSeq, EmptySeq DEF Group

\* A block is in a chain if some group has it at some place.
LEMMA InBlocks ==
    ASSUME NEW c, NEW b
    PROVE  b \in Blocks(c) <=> \E i \in DOMAIN c : \E p \in DOMAIN c[i] : c[i][p] = b
  BY DEF Blocks, Range

\* The blocks of a chain are data blocks.
LEMMA BlocksAreBlocks ==
    ASSUME NEW c \in Seq(Group)
    PROVE  Blocks(c) \subseteq Block
  BY ChainFacts, InBlocks

\* What follows the first group.
LEMMA RestFacts ==
    ASSUME NEW c \in Seq(Group)
    PROVE  /\ Rest(c) \in Seq(Group)
           /\ Len(c) >= 1 => /\ Len(Rest(c)) = Len(c) - 1
                             /\ \A i \in 1..(Len(c) - 1) : Rest(c)[i] = c[i + 1]
<1>1. Len(c) \in Nat /\ \A i \in 2..Len(c) : c[i] \in Group
  BY ChainFacts
<1>2. /\ SubSeq(c, 2, Len(c)) \in Seq(Group)
      /\ Len(SubSeq(c, 2, Len(c))) = IF 2 <= Len(c) THEN Len(c) - 2 + 1 ELSE 0
      /\ \A i \in 1..(Len(c) - 2 + 1) : SubSeq(c, 2, Len(c))[i] = c[2 + i - 1]
  BY <1>1, SubSeqProperties
<1>3. \A i \in 1..(Len(c) - 1) : i \in 1..(Len(c) - 2 + 1) /\ 2 + i - 1 = i + 1
  BY <1>1
<1>4. Rest(c) = SubSeq(c, 2, Len(c))
  BY DEF Rest
<1>5. \A i \in 1..(Len(c) - 1) : Rest(c)[i] = c[i + 1]
  <2> SUFFICES ASSUME NEW i \in 1..(Len(c) - 1) PROVE Rest(c)[i] = c[i + 1]
    OBVIOUS
  <2>1. i \in 1..(Len(c) - 2 + 1) /\ 2 + i - 1 = i + 1
    BY <1>3
  <2>2. SubSeq(c, 2, Len(c))[i] = c[2 + i - 1]
    BY <1>2, <2>1
  <2> HIDE DEF Rest
  <2> QED BY <1>4, <2>1, <2>2, Zenon
<1>6. Len(c) >= 1 => Len(Rest(c)) = Len(c) - 1
  <2> SUFFICES ASSUME Len(c) >= 1 PROVE Len(Rest(c)) = Len(c) - 1
    OBVIOUS
  <2> DEFINE k == Len(c)
             m == Len(SubSeq(c, 2, Len(c)))
  <2>2. m = IF 2 <= k THEN k - 2 + 1 ELSE 0
    BY <1>2, Zenon
  <2>3. k \in Nat /\ k >= 1
    BY <1>1
  <2> HIDE DEF k, m
  <2>4. m = k - 1
    BY <2>2, <2>3
  <2>1. Len(SubSeq(c, 2, Len(c))) = Len(c) - 1
    BY <2>4 DEF k, m
  <2> QED BY <1>4, <2>1, Zenon
<1>7. Rest(c) \in Seq(Group)
  BY <1>2, <1>4, Zenon
<1> QED BY <1>5, <1>6, <1>7

\* Exchanging the first group of a chain.
LEMMA FirstExchanged ==
    ASSUME NEW c \in Seq(Group), Len(c) >= 1, NEW g \in Group
    PROVE  LET d == <<g>> \o Rest(c)
           IN  /\ d \in Seq(Group)
               /\ Len(d) = Len(c)
               /\ DOMAIN d = 1..Len(c)
               /\ d[1] = g
               /\ \A i \in 2..Len(c) : d[i] = c[i]
<1> DEFINE d == <<g>> \o Rest(c)
<1>1. Len(c) \in Nat /\ c # << >>
  BY ChainFacts, EmptySeq
<1>2. /\ Rest(c) \in Seq(Group)
      /\ Len(Rest(c)) = Len(c) - 1
      /\ \A i \in 1..(Len(c) - 1) : Rest(c)[i] = c[i + 1]
  BY <1>1, RestFacts
<1>3. <<g>> \in Seq(Group) /\ Len(<<g>>) = 1 /\ <<g>>[1] = g
  OBVIOUS
<1>4. /\ d \in Seq(Group)
      /\ Len(d) = Len(c)
      /\ \A i \in 1..Len(c) : d[i] = IF i <= 1 THEN <<g>>[i] ELSE Rest(c)[i - 1]
  BY <1>1, <1>2, <1>3, ConcatProperties
<1>5. \A i \in 2..Len(c) : d[i] = c[i]
  BY <1>1, <1>2, <1>4
<1>6. d[1] = g
  BY <1>1, <1>3, <1>4
<1> QED BY <1>4, <1>5, <1>6, LenProperties

\* Putting a group in front of a chain.
LEMMA FirstAdded ==
    ASSUME NEW c \in Seq(Group), NEW g \in Group
    PROVE  LET d == <<g>> \o c
           IN  /\ d \in Seq(Group)
               /\ Len(d) = Len(c) + 1
               /\ DOMAIN d = 1..(Len(c) + 1)
               /\ d[1] = g
               /\ \A i \in 2..(Len(c) + 1) : d[i] = c[i - 1]
<1> DEFINE d == <<g>> \o c
<1>1. Len(c) \in Nat
  BY ChainFacts
<1>2. <<g>> \in Seq(Group) /\ Len(<<g>>) = 1 /\ <<g>>[1] = g
  OBVIOUS
<1>3. /\ d \in Seq(Group)
      /\ Len(d) = Len(c) + 1
      /\ \A i \in 1..(Len(c) + 1) : d[i] = IF i <= 1 THEN <<g>>[i] ELSE c[i - 1]
  BY <1>1, <1>2, ConcatProperties
<1>4. \A i \in 2..(Len(c) + 1) : d[i] = c[i - 1]
  BY <1>1, <1>3
<1>5. d[1] = g
  BY <1>1, <1>2, <1>3
<1> QED BY <1>3, <1>4, <1>5, LenProperties

\* Taking the first group off a chain.
LEMMA FirstTaken ==
    ASSUME NEW c \in Seq(Group), Len(c) >= 2
    PROVE  LET d == Rest(c)
           IN  /\ d \in Seq(Group)
               /\ Len(d) = Len(c) - 1
               /\ DOMAIN d = 1..(Len(c) - 1)
               /\ \A i \in 1..(Len(c) - 1) : d[i] = c[i + 1]
<1>1. Len(c) \in Nat /\ c # << >>
  BY ChainFacts, EmptySeq
<1> QED BY <1>1, RestFacts, LenProperties

\* Appending a block to a group, and taking its last block off.
LEMMA GroupLonger ==
    ASSUME NEW g \in Group, NEW b \in Block
    PROVE  LET h == Append(g, b)
           IN  /\ h \in Group
               /\ Len(h) = Len(g) + 1
               /\ DOMAIN h = 1..(Len(g) + 1)
               /\ \A p \in 1..Len(g) : h[p] = g[p]
               /\ h[Len(g) + 1] = b
  BY AppendProperties, LenProperties DEF Group

LEMMA GroupShorter ==
    ASSUME NEW g \in Group, Len(g) >= 1
    PROVE  LET h == Front(g)
           IN  /\ h \in Group
               /\ Len(h) = Len(g) - 1
               /\ DOMAIN h = 1..(Len(g) - 1)
               /\ \A p \in 1..(Len(g) - 1) : h[p] = g[p]
               /\ Last(g) = g[Len(g)]
               /\ Last(g) \in Block
<1>1. Len(g) \in Nat /\ DOMAIN g = 1..Len(g) /\ \A p \in DOMAIN g : g[p] \in Block
  BY GroupFacts
<1>2. Front(g) = SubSeq(g, 1, Len(g) - 1)
  BY DEF Front
<1>3. /\ Front(g) \in Seq(Block)
      /\ Len(Front(g)) = Len(g) - 1
      /\ \A p \in 1..(Len(g) - 1) : Front(g)[p] = g[p]
  BY <1>1, <1>2, SubSeqProperties
<1>4. Last(g) = g[Len(g)] /\ Last(g) \in Block
  BY <1>1 DEF Last
<1> QED BY <1>3, <1>4, LenProperties DEF Group

-----------------------------------------------------------------------------
(***************************************************************************)
(* What the operations do to a chain                                       *)
(***************************************************************************)

\* The arithmetic of a superblock that spells out a chain.
LEMMA ChainedFacts ==
    ASSUME NEW s, NEW c, NEW contents, Chained(s, c, contents)
    PROVE  /\ s.group \in Group /\ s.count \in Nat
           /\ Len(s.group) \in Nat /\ DOMAIN s.group = 1..Len(s.group)
           /\ Len(s.group) <= GroupSize
           /\ Len(c) \in Nat /\ Len(c) >= 1 /\ DOMAIN c = 1..Len(c)
           /\ c[1] = s.group
           /\ s.count = Len(s.group) + GroupSize * (Len(c) - 1)
           /\ Len(c) >= 2 => Len(s.group) >= 1
           /\ GroupSize \in Nat \ {0}
<1>1. s.group \in Group /\ s.count \in Nat /\ c \in Seq(Group)
  BY DEF Chained, Super
<1>2. Len(s.group) \in Nat /\ DOMAIN s.group = 1..Len(s.group)
  BY <1>1, GroupFacts
<1>3. Len(c) \in Nat /\ DOMAIN c = 1..Len(c)
  BY <1>1, ChainFacts
<1>4. /\ Len(c) >= 1 /\ c[1] = s.group /\ Len(s.group) <= GroupSize
      /\ s.count = Len(s.group) + GroupSize * (Len(c) - 1)
      /\ \A i \in 2..Len(c) : c[i-1] # << >>
  BY DEF Chained, Spells
<1>5. Len(c) >= 2 => Len(s.group) >= 1
  <2> SUFFICES ASSUME Len(c) >= 2 PROVE Len(s.group) >= 1
    OBVIOUS
  <2>1. 2 \in 2..Len(c)
    BY <1>3
  <2>2. c[2-1] # << >>
    BY <1>4, <2>1
  <2>3. s.group # << >>
    BY <1>4, <2>2
  <2> QED BY <1>1, <2>3, GroupFacts
<1> QED BY <1>1, <1>2, <1>3, <1>4, <1>5, GroupAssumption

\* Writing a block that is not in the chain leaves the chain alone.
LEMMA WriteKeepsChain ==
    ASSUME NEW s, NEW c, NEW contents, Chained(s, c, contents),
           contents \in [Block -> Group], NEW b, b \notin Blocks(c), NEW g
    PROVE  Chained(s, c, [contents EXCEPT ![b] = g])
<1> DEFINE new == [contents EXCEPT ![b] = g]
<1>1. c \in Seq(Group) /\ Len(c) \in Nat /\ DOMAIN c = 1..Len(c)
  BY ChainFacts DEF Chained
<1>2. ASSUME NEW i \in 2..Len(c)
      PROVE  new[c[i-1][1]] = c[i]
  <2>1. i - 1 \in DOMAIN c /\ c[i-1] # << >> /\ c[i-1] \in Group /\ contents[c[i-1][1]] = c[i]
    BY <1>1, ChainFacts DEF Chained, Spells
  <2>2. 1 \in DOMAIN c[i-1] /\ c[i-1][1] \in Block
    BY <2>1, GroupFacts
  <2>3. c[i-1][1] # b
    BY <2>1, <2>2, InBlocks
  <2> QED BY <2>1, <2>2, <2>3
<1> QED BY <1>2 DEF Chained, Spells

\* A freed block joins the first group.
LEMMA PushKeepsChain ==
    ASSUME NEW s, NEW c, NEW contents, Chained(s, c, contents),
           NEW b \in Block, b \notin Blocks(c), Len(s.group) < GroupSize,
           NEW h \in Group, Len(h) = Len(s.group) + 1,
           \A p \in 1..Len(s.group) : h[p] = s.group[p],
           h[Len(s.group) + 1] = b
    PROVE  LET d == <<h>> \o Rest(c)
           IN  /\ Chained([group |-> h, count |-> s.count + 1], d, contents)
               /\ Blocks(d) = Blocks(c) \cup {b}
<1> DEFINE d == <<h>> \o Rest(c)
           t == [group |-> h, count |-> s.count + 1]
           n == Len(c)
           m == Len(s.group)
<1>1. /\ s.group \in Group /\ s.count \in Nat
      /\ m \in Nat /\ DOMAIN s.group = 1..m
      /\ n \in Nat /\ n >= 1 /\ DOMAIN c = 1..n
      /\ c[1] = s.group
      /\ n >= 2 => m >= 1
      /\ GroupSize \in Nat \ {0}
  BY ChainedFacts
<1>2. /\ h \in Group /\ Len(h) = m + 1 /\ DOMAIN h = 1..(m + 1)
      /\ \A p \in 1..m : h[p] = s.group[p]
      /\ h[m + 1] = b
  BY <1>1, GroupFacts
<1>3. c \in Seq(Group)
  BY DEF Chained
<1>4. /\ d \in Seq(Group) /\ Len(d) = n /\ DOMAIN d = 1..n
      /\ d[1] = h /\ \A i \in 2..n : d[i] = c[i]
  BY <1>1, <1>2, <1>3, FirstExchanged
<1> HIDE DEF d
<1>5. t \in Super /\ t.group = h /\ t.count = s.count + 1
  BY <1>1, <1>2 DEF Super
<1> HIDE DEF t
<1>6. Spells(t, d, contents)
  <2>1. ASSUME NEW i \in 2..n
        PROVE  Len(d[i]) = GroupSize /\ d[i-1] # << >> /\ contents[d[i-1][1]] = d[i]
    <3>1. Len(c[i]) = GroupSize /\ c[i-1] # << >> /\ contents[c[i-1][1]] = c[i] /\ d[i] = c[i]
      BY <1>1, <1>4 DEF Chained, Spells
    <3>2. CASE i = 2
      <4>1. i - 1 = 1 /\ m >= 1
        BY <1>1, <3>2
      <4>2. d[i-1] = h /\ h # << >> /\ h[1] = c[i-1][1]
        BY <1>1, <1>2, <1>4, <4>1, GroupFacts
      <4> QED BY <3>1, <4>2
    <3>3. CASE i # 2
      <4>1. i - 1 \in 2..n
        BY <1>1, <3>3
      <4> QED BY <1>4, <3>1, <4>1
    <3> QED BY <3>2, <3>3
  <2>2. t.count = Len(t.group) + GroupSize * (Len(d) - 1)
    <3> DEFINE rest == GroupSize * (n - 1)
    <3>1. s.count = m + rest
      BY ChainedFacts
    <3>2. rest \in Nat
      BY <1>1
    <3> HIDE DEF rest
    <3>3. s.count + 1 = (m + 1) + rest
      BY <1>1, <3>1, <3>2
    <3> QED BY <1>2, <1>4, <1>5, <3>3 DEF rest
  <2>3. /\ Len(d) >= 1 /\ d[1] = t.group
        /\ Len(t.group) <= GroupSize
    BY <1>1, <1>2, <1>4, <1>5
  <2> QED BY <1>4, <2>1, <2>2, <2>3 DEF Spells
<1>7. ASSUME NEW i \in DOMAIN d, NEW p \in DOMAIN d[i]
      PROVE  \/ i \in DOMAIN c /\ p \in DOMAIN c[i] /\ d[i][p] = c[i][p]
             \/ i = 1 /\ p = m + 1 /\ d[i][p] = b
  BY <1>1, <1>2, <1>4
<1>8. NoRepeats(d)
  <2> SUFFICES ASSUME NEW i \in DOMAIN d, NEW j \in DOMAIN d,
                      NEW p \in DOMAIN d[i], NEW q \in DOMAIN d[j], d[i][p] = d[j][q]
               PROVE  i = j /\ p = q
    BY DEF NoRepeats
  <2>1. CASE d[i][p] = b
    <3>1. \A k \in DOMAIN c : \A x \in DOMAIN c[k] : c[k][x] # b
      BY InBlocks
    <3>2. i = 1 /\ p = m + 1
      BY <1>7, <2>1, <3>1
    <3>3. d[j][q] = b
      BY <2>1
    <3>4. j = 1 /\ q = m + 1
      BY <1>7, <3>1, <3>3
    <3> QED BY <3>2, <3>4
  <2>2. CASE d[i][p] # b
    BY <1>7, <2>2 DEF Chained, NoRepeats
  <2> QED BY <2>1, <2>2
<1>9. Blocks(d) = Blocks(c) \cup {b}
  <2>1. ASSUME NEW x \in Blocks(d) PROVE x \in Blocks(c) \cup {b}
    BY <1>7, <2>1, InBlocks
  <2>2. ASSUME NEW x \in Blocks(c) PROVE x \in Blocks(d)
    <3>a. PICK i \in DOMAIN c : \E p \in DOMAIN c[i] : c[i][p] = x
      BY InBlocks
    <3>1. PICK p \in DOMAIN c[i] : c[i][p] = x
      BY <3>a
    <3>2. i \in DOMAIN d /\ p \in DOMAIN d[i] /\ d[i][p] = x
      BY <1>1, <1>2, <1>4, <3>1
    <3> QED BY <3>2, InBlocks
  <2>3. b \in Blocks(d)
    <3>1. 1 \in DOMAIN d /\ m + 1 \in DOMAIN d[1] /\ d[1][m + 1] = b
      BY <1>1, <1>2, <1>4
    <3> QED BY <3>1, InBlocks
  <2> QED BY <2>1, <2>2, <2>3
<1> QED BY <1>4, <1>5, <1>6, <1>8, <1>9 DEF Chained, t, d

\* A freed block starts a new group and keeps the full one in its content.
LEMMA StoreKeepsChain ==
    ASSUME NEW s, NEW c, NEW contents, Chained(s, c, contents), contents \in [Block -> Group],
           NEW b \in Block, b \notin Blocks(c), Len(s.group) >= GroupSize
    PROVE  LET d == << <<b>> >> \o c
           IN  /\ Chained([group |-> <<b>>, count |-> s.count + 1], d, [contents EXCEPT ![b] = s.group])
               /\ Blocks(d) = Blocks(c) \cup {b}
<1> DEFINE h == <<b>>
           d == <<h>> \o c
           t == [group |-> h, count |-> s.count + 1]
           new == [contents EXCEPT ![b] = s.group]
           n == Len(c)
<1>1. /\ s.group \in Group /\ s.count \in Nat
      /\ Len(s.group) \in Nat /\ Len(s.group) <= GroupSize
      /\ n \in Nat /\ n >= 1 /\ DOMAIN c = 1..n
      /\ c[1] = s.group
      /\ GroupSize \in Nat \ {0}
  BY ChainedFacts
<1>2. h \in Group /\ Len(h) = 1 /\ DOMAIN h = 1..1 /\ h[1] = b /\ h # << >>
  BY GroupFacts DEF Group
<1>3. c \in Seq(Group)
  BY DEF Chained
<1>4. /\ d \in Seq(Group) /\ Len(d) = n + 1 /\ DOMAIN d = 1..(n + 1)
      /\ d[1] = h /\ \A i \in 2..(n + 1) : d[i] = c[i - 1]
  BY <1>2, <1>3, FirstAdded
<1>5. Chained(s, c, new)
  BY WriteKeepsChain
<1>6. new[b] = s.group
  OBVIOUS
<1> HIDE DEF h, d, new
<1>7. t \in Super /\ t.group = h /\ t.count = s.count + 1
  BY <1>1, <1>2 DEF Super
<1> HIDE DEF t
<1>8. Spells(t, d, new)
  <2>1. ASSUME NEW i \in 2..(n + 1)
        PROVE  Len(d[i]) = GroupSize /\ d[i-1] # << >> /\ new[d[i-1][1]] = d[i]
    <3>1. CASE i = 2
      <4>1. d[i-1] = h /\ d[i] = s.group
        BY <1>1, <1>4, <3>1
      <4> QED BY <1>1, <1>2, <1>6, <4>1
    <3>2. CASE i # 2
      <4> DEFINE j == i - 1
      <4>1. j \in 2..n /\ i - 1 = j /\ i \in 2..(n + 1) /\ j \in 2..(n + 1)
        BY <1>1, <3>2
      <4> HIDE DEF j
      <4>2. d[i] = c[j] /\ d[i - 1] = c[j - 1]
        BY <1>4, <4>1
      <4> QED BY <1>5, <4>1, <4>2 DEF Chained, Spells
    <3> QED BY <3>1, <3>2
  <2>2. t.count = Len(t.group) + GroupSize * (Len(d) - 1)
    <3>1. Len(s.group) = GroupSize /\ Len(d) - 1 = n
      BY <1>1, <1>4
    <3>2. s.count = GroupSize + GroupSize * (n - 1)
      BY <3>1, ChainedFacts
    <3>3. GroupSize + GroupSize * (n - 1) = GroupSize * n
      BY <1>1
    <3>4. s.count + 1 = 1 + GroupSize * n
      BY <1>1, <3>2, <3>3
    <3> QED BY <1>2, <1>7, <3>1, <3>4
  <2>3. Len(d) >= 1 /\ d[1] = t.group
    BY <1>1, <1>4, <1>7
  <2>4. Len(t.group) <= GroupSize
    <3>1. 1 <= GroupSize
      BY <1>1
    <3> QED BY <1>2, <1>7, <3>1
  <2> QED BY <1>4, <2>1, <2>2, <2>3, <2>4 DEF Spells
<1>9. ASSUME NEW i \in DOMAIN d, NEW p \in DOMAIN d[i]
      PROVE  \/ i - 1 \in DOMAIN c /\ p \in DOMAIN c[i - 1] /\ d[i][p] = c[i - 1][p]
             \/ i = 1 /\ p = 1 /\ d[i][p] = b
  BY <1>1, <1>2, <1>4
<1>10. NoRepeats(d)
  <2> SUFFICES ASSUME NEW i \in DOMAIN d, NEW j \in DOMAIN d,
                      NEW p \in DOMAIN d[i], NEW q \in DOMAIN d[j], d[i][p] = d[j][q]
               PROVE  i = j /\ p = q
    BY DEF NoRepeats
  <2>1. i \in Int /\ j \in Int
    BY <1>1, <1>4
  <2>2. CASE d[i][p] = b
    <3>1. \A k \in DOMAIN c : \A x \in DOMAIN c[k] : c[k][x] # b
      BY InBlocks
    <3>2. i = 1 /\ p = 1
      BY <1>9, <2>2, <3>1
    <3>3. d[j][q] = b
      BY <2>2
    <3>4. j = 1 /\ q = 1
      BY <1>9, <3>1, <3>3
    <3> QED BY <3>2, <3>4
  <2>3. CASE d[i][p] # b
    <3>1. /\ i - 1 \in DOMAIN c /\ p \in DOMAIN c[i - 1] /\ d[i][p] = c[i - 1][p]
          /\ j - 1 \in DOMAIN c /\ q \in DOMAIN c[j - 1] /\ d[j][q] = c[j - 1][q]
      BY <1>9, <2>3
    <3>2. c[i - 1][p] = c[j - 1][q]
      BY <3>1
    <3>3. \A k \in DOMAIN c, l \in DOMAIN c : \A x \in DOMAIN c[k], y \in DOMAIN c[l] :
            c[k][x] = c[l][y] => k = l /\ x = y
      BY DEF Chained, NoRepeats
    <3>4. i - 1 = j - 1 /\ p = q
      BY <3>1, <3>2, <3>3
    <3> QED BY <2>1, <3>4
  <2> QED BY <2>2, <2>3
<1>11. Blocks(d) = Blocks(c) \cup {b}
  <2>1. ASSUME NEW x \in Blocks(d) PROVE x \in Blocks(c) \cup {b}
    BY <1>9, <2>1, InBlocks
  <2>2. ASSUME NEW x \in Blocks(c) PROVE x \in Blocks(d)
    <3>a. PICK i \in DOMAIN c : \E p \in DOMAIN c[i] : c[i][p] = x
      BY InBlocks
    <3>1. PICK p \in DOMAIN c[i] : c[i][p] = x
      BY <3>a
    <3>2. i + 1 \in DOMAIN d /\ d[i + 1] = c[i]
      BY <1>1, <1>4, <3>1
    <3>3. p \in DOMAIN d[i + 1] /\ d[i + 1][p] = x
      BY <3>1, <3>2
    <3> QED BY <3>2, <3>3, InBlocks
  <2>3. b \in Blocks(d)
    <3>1. 1 \in DOMAIN d /\ 1 \in DOMAIN d[1] /\ d[1][1] = b
      BY <1>1, <1>2, <1>4
    <3> QED BY <3>1, InBlocks
  <2> QED BY <2>1, <2>2, <2>3
<1> QED BY <1>4, <1>7, <1>8, <1>10, <1>11 DEF Chained, t, d, h, new

\* The last block of the first group is taken off.
LEMMA PopKeepsChain ==
    ASSUME NEW s, NEW c, NEW contents, Chained(s, c, contents), Len(s.group) > 1
    PROVE  LET d == <<Front(s.group)>> \o Rest(c)
           IN  /\ Last(s.group) \in Block
               /\ Chained([group |-> Front(s.group), count |-> s.count - 1], d, contents)
               /\ Blocks(c) = Blocks(d) \cup {Last(s.group)}
               /\ Last(s.group) \notin Blocks(d)
<1> DEFINE h == Front(s.group)
           b == Last(s.group)
           d == <<h>> \o Rest(c)
           t == [group |-> h, count |-> s.count - 1]
           n == Len(c)
           m == Len(s.group)
<1>1. /\ s.group \in Group /\ s.count \in Nat
      /\ m \in Nat /\ m >= 2 /\ m <= GroupSize /\ DOMAIN s.group = 1..m
      /\ n \in Nat /\ n >= 1 /\ DOMAIN c = 1..n
      /\ c[1] = s.group
      /\ GroupSize \in Nat \ {0}
  BY ChainedFacts
<1>2. /\ h \in Group /\ Len(h) = m - 1 /\ DOMAIN h = 1..(m - 1)
      /\ \A p \in 1..(m - 1) : h[p] = s.group[p]
      /\ b = s.group[m] /\ b \in Block
  BY <1>1, GroupShorter
<1>3. c \in Seq(Group)
  BY DEF Chained
<1>4. /\ d \in Seq(Group) /\ Len(d) = n /\ DOMAIN d = 1..n
      /\ d[1] = h /\ \A i \in 2..n : d[i] = c[i]
  BY <1>1, <1>2, <1>3, FirstExchanged
<1> HIDE DEF h, d, b
<1>5. s.count - 1 = (m - 1) + GroupSize * (n - 1) /\ s.count - 1 \in Nat
  <2> DEFINE rest == GroupSize * (n - 1)
  <2>1. s.count = m + rest
    BY ChainedFacts
  <2>2. rest \in Nat
    BY <1>1
  <2> HIDE DEF rest
  <2>3. s.count - 1 = (m - 1) + rest /\ s.count - 1 \in Nat
    BY <1>1, <2>1, <2>2
  <2> QED BY <2>3 DEF rest
<1>6. t \in Super /\ t.group = h /\ t.count = s.count - 1
  BY <1>2, <1>5 DEF Super
<1> HIDE DEF t
<1>7. Spells(t, d, contents)
  <2>1. ASSUME NEW i \in 2..n
        PROVE  Len(d[i]) = GroupSize /\ d[i-1] # << >> /\ contents[d[i-1][1]] = d[i]
    <3>1. Len(c[i]) = GroupSize /\ c[i-1] # << >> /\ contents[c[i-1][1]] = c[i] /\ d[i] = c[i]
      BY <1>1, <1>4 DEF Chained, Spells
    <3>2. CASE i = 2
      <4>1. i - 1 = 1 /\ c[i-1] = s.group
        BY <1>1, <3>2
      <4>2. d[i-1] = h /\ h # << >> /\ h[1] = c[i-1][1]
        BY <1>1, <1>2, <1>4, <4>1, GroupFacts
      <4> QED BY <3>1, <4>2
    <3>3. CASE i # 2
      <4>1. i - 1 \in 2..n
        BY <1>1, <3>3
      <4> QED BY <1>4, <3>1, <4>1
    <3> QED BY <3>2, <3>3
  <2>2. t.count = Len(t.group) + GroupSize * (Len(d) - 1)
    BY <1>2, <1>4, <1>5, <1>6
  <2>3. Len(d) >= 1 /\ d[1] = t.group
    BY <1>1, <1>4, <1>6
  <2>4. Len(t.group) <= GroupSize
    <3>1. m - 1 <= GroupSize
      BY <1>1
    <3> QED BY <1>2, <1>6, <3>1
  <2> QED BY <1>4, <2>1, <2>2, <2>3, <2>4 DEF Spells
<1>8. ASSUME NEW i \in DOMAIN d, NEW p \in DOMAIN d[i]
      PROVE  i \in DOMAIN c /\ p \in DOMAIN c[i] /\ d[i][p] = c[i][p] /\ ~(i = 1 /\ p = m)
  <2>1. CASE i = 1
    <3>1. p \in 1..(m - 1) /\ d[i] = h /\ c[i] = s.group
      BY <1>1, <1>2, <1>4, <2>1
    <3>2. p \in 1..m /\ p # m
      BY <1>1, <3>1
    <3> QED BY <1>1, <1>2, <2>1, <3>1, <3>2
  <2>2. CASE i # 1
    <3>1. i \in DOMAIN c /\ d[i] = c[i]
      BY <1>1, <1>4, <2>2
    <3> QED BY <2>2, <3>1
  <2> QED BY <2>1, <2>2
<1>9. 1 \in DOMAIN c /\ m \in DOMAIN c[1] /\ c[1][m] = b
  BY <1>1, <1>2
<1>10. \A k \in DOMAIN c, l \in DOMAIN c : \A x \in DOMAIN c[k], y \in DOMAIN c[l] :
         c[k][x] = c[l][y] => k = l /\ x = y
  BY DEF Chained, NoRepeats
<1>11. NoRepeats(d)
  BY <1>8, <1>10 DEF NoRepeats
<1>12. b \notin Blocks(d)
  <2>1. ASSUME NEW i \in DOMAIN d, NEW p \in DOMAIN d[i] PROVE d[i][p] # b
    BY <1>8, <1>9, <1>10
  <2> QED BY <2>1, InBlocks
<1>13. Blocks(c) = Blocks(d) \cup {b}
  <2>1. ASSUME NEW x \in Blocks(d) PROVE x \in Blocks(c)
    BY <1>8, <2>1, InBlocks
  <2>2. ASSUME NEW x \in Blocks(c), x # b PROVE x \in Blocks(d)
    <3>1. PICK i \in DOMAIN c : \E p \in DOMAIN c[i] : c[i][p] = x
      BY InBlocks
    <3>2. PICK p \in DOMAIN c[i] : c[i][p] = x
      BY <3>1
    <3>3. CASE i = 1
      <4>1. p \in 1..m /\ p # m
        BY <1>1, <1>9, <2>2, <3>2, <3>3
      <4>2. i \in DOMAIN d /\ p \in DOMAIN d[i] /\ d[i][p] = x
        BY <1>1, <1>2, <1>4, <3>2, <3>3, <4>1
      <4> QED BY <4>2, InBlocks
    <3>4. CASE i # 1
      <4>1. i \in DOMAIN d /\ d[i] = c[i]
        BY <1>1, <1>4, <3>4
      <4> QED BY <3>2, <4>1, InBlocks
    <3> QED BY <3>3, <3>4
  <2>3. b \in Blocks(c)
    BY <1>9, InBlocks
  <2> QED BY <2>1, <2>2, <2>3
<1> QED BY <1>2, <1>4, <1>6, <1>7, <1>11, <1>12, <1>13 DEF Chained, t, d, h, b

\* The last free block is taken.
LEMMA LastKeepsChain ==
    ASSUME NEW s, NEW c, NEW contents, Chained(s, c, contents), Len(s.group) = 1, s.count = 1
    PROVE  /\ s.group[1] \in Block
           /\ Chained([group |-> << >>, count |-> 0], << << >> >>, contents)
           /\ Blocks(c) = {s.group[1]}
           /\ Blocks(<< << >> >>) = {}
<1> DEFINE d == << << >> >>
           t == [group |-> << >>, count |-> 0]
<1>1. /\ s.group \in Group /\ DOMAIN s.group = 1..1 /\ s.group[1] \in Block
      /\ Len(c) \in Nat /\ Len(c) >= 1 /\ DOMAIN c = 1..Len(c) /\ c[1] = s.group
      /\ GroupSize \in Nat \ {0}
  BY ChainedFacts, GroupFacts
<1>2. Len(c) = 1
  <2>1. GroupSize * (Len(c) - 1) = 0
    <3> DEFINE rest == GroupSize * (Len(c) - 1)
    <3>1. 1 = 1 + rest
      BY ChainedFacts
    <3>2. rest \in Nat
      BY <1>1
    <3> HIDE DEF rest
    <3>3. rest = 0
      BY <3>1, <3>2
    <3> QED BY <3>3 DEF rest
  <2> QED BY <1>1, <2>1
<1>3. << >> \in Group /\ Len(<< >>) = 0 /\ DOMAIN << >> = {}
  BY EmptySeq DEF Group
<1>4. d \in Seq(Group) /\ Len(d) = 1 /\ DOMAIN d = {1} /\ d[1] = << >>
  BY <1>3
<1>5. t \in Super /\ t.group = << >> /\ t.count = 0
  BY <1>3 DEF Super
<1> HIDE DEF d, t
<1>6. Spells(t, d, contents)
  BY <1>1, <1>3, <1>4, <1>5 DEF Spells
<1>7. NoRepeats(d) /\ Blocks(d) = {}
  BY <1>3, <1>4 DEF NoRepeats, Blocks, Range
<1>8. Blocks(c) = {s.group[1]}
  <2>1. DOMAIN c = {1} /\ DOMAIN c[1] = {1}
    BY <1>1, <1>2
  <2> QED BY <1>1, <2>1, InBlocks
<1> QED BY <1>1, <1>4, <1>5, <1>6, <1>7, <1>8 DEF Chained, d, t

\* The last block of the first group is taken, and its content is the next one.
LEMMA LoadKeepsChain ==
    ASSUME NEW s, NEW c, NEW contents, Chained(s, c, contents), Len(s.group) = 1, s.count > 1
    PROVE  /\ s.group[1] \in Block
           /\ Chained([group |-> contents[s.group[1]], count |-> s.count - 1], Rest(c), contents)
           /\ Blocks(c) = Blocks(Rest(c)) \cup {s.group[1]}
           /\ s.group[1] \notin Blocks(Rest(c))
<1> DEFINE b == s.group[1]
           d == Rest(c)
           t == [group |-> contents[b], count |-> s.count - 1]
           n == Len(c)
<1>1. /\ s.group \in Group /\ DOMAIN s.group = 1..1 /\ b \in Block /\ s.count \in Nat
      /\ n \in Nat /\ n >= 1 /\ DOMAIN c = 1..n /\ c[1] = s.group
      /\ GroupSize \in Nat \ {0}
  BY ChainedFacts, GroupFacts
<1>2. c \in Seq(Group)
  BY DEF Chained
<1>3. s.count = 1 + GroupSize * (n - 1)
  BY ChainedFacts
<1>4. n >= 2
  <2> SUFFICES ASSUME n = 1 PROVE FALSE
    BY <1>1
  <2>1. GroupSize * (n - 1) = 0
    BY <1>1
  <2> QED BY <1>3, <2>1
<1>5. /\ d \in Seq(Group) /\ Len(d) = n - 1 /\ DOMAIN d = 1..(n - 1)
      /\ \A i \in 1..(n - 1) : d[i] = c[i + 1]
  BY <1>2, <1>4, FirstTaken
<1>6. c[2] \in Group /\ Len(c[2]) = GroupSize /\ contents[b] = c[2] /\ d[1] = c[2]
  <2>1. 2 \in 2..n /\ 2 \in DOMAIN c /\ 1 \in 1..(n - 1) /\ 2 - 1 = 1 /\ 1 + 1 = 2
    BY <1>1, <1>4
  <2>2. Len(c[2]) = GroupSize /\ contents[c[1][1]] = c[2]
    BY <2>1 DEF Chained, Spells
  <2>3. d[1] = c[2]
    BY <1>5, <2>1
  <2> QED BY <1>1, <1>2, <2>1, <2>2, <2>3, ChainFacts
<1>7. s.count - 1 = GroupSize + GroupSize * (n - 2) /\ s.count - 1 \in Nat
  <2>1. GroupSize * (n - 1) = GroupSize + GroupSize * (n - 2)
    BY <1>1
  <2>2. GroupSize * (n - 1) \in Nat
    BY <1>1
  <2>3. s.count - 1 = GroupSize * (n - 1)
    BY <1>3, <2>2
  <2> QED BY <2>1, <2>2, <2>3
<1> HIDE DEF d, b
<1>8. t \in Super /\ t.group = c[2] /\ t.count = s.count - 1
  BY <1>6, <1>7 DEF Super
<1> HIDE DEF t
<1>9. Spells(t, d, contents)
  <2>1. ASSUME NEW i \in 2..(n - 1)
        PROVE  Len(d[i]) = GroupSize /\ d[i-1] # << >> /\ contents[d[i-1][1]] = d[i]
    <3> DEFINE j == i + 1
    <3>1. j \in 2..n /\ j - 1 = i /\ i \in 1..(n - 1) /\ i - 1 \in 1..(n - 1) /\ (i - 1) + 1 = i /\ i + 1 = j
      BY <1>1
    <3> HIDE DEF j
    <3>2. d[i] = c[j] /\ d[i - 1] = c[i]
      BY <1>5, <3>1
    <3>3. Len(c[j]) = GroupSize /\ c[j-1] # << >> /\ contents[c[j-1][1]] = c[j]
      BY <3>1 DEF Chained, Spells
    <3> QED BY <3>1, <3>2, <3>3
  <2>2. t.count = Len(t.group) + GroupSize * (Len(d) - 1)
    <3>1. Len(d) - 1 = n - 2
      BY <1>1, <1>5
    <3> QED BY <1>6, <1>7, <1>8, <3>1
  <2>3. Len(d) >= 1 /\ d[1] = t.group
    BY <1>1, <1>4, <1>5, <1>6, <1>8
  <2>4. Len(t.group) <= GroupSize
    BY <1>1, <1>6, <1>8
  <2> QED BY <1>5, <2>1, <2>2, <2>3, <2>4 DEF Spells
<1>10. ASSUME NEW i \in DOMAIN d
       PROVE  i + 1 \in DOMAIN c /\ d[i] = c[i + 1] /\ i \in Int /\ i + 1 # 1
  BY <1>1, <1>5
<1>11. \A k \in DOMAIN c, l \in DOMAIN c : \A x \in DOMAIN c[k], y \in DOMAIN c[l] :
         c[k][x] = c[l][y] => k = l /\ x = y
  BY DEF Chained, NoRepeats
<1>12. 1 \in DOMAIN c /\ 1 \in DOMAIN c[1] /\ c[1][1] = b
  BY <1>1 DEF b
<1>13. NoRepeats(d)
  <2> SUFFICES ASSUME NEW i \in DOMAIN d, NEW j \in DOMAIN d,
                      NEW p \in DOMAIN d[i], NEW q \in DOMAIN d[j], d[i][p] = d[j][q]
               PROVE  i = j /\ p = q
    BY DEF NoRepeats
  <2>1. i + 1 = j + 1 /\ p = q
    BY <1>10, <1>11
  <2> QED BY <1>10, <2>1
<1>14. b \notin Blocks(d)
  <2>1. ASSUME NEW i \in DOMAIN d, NEW p \in DOMAIN d[i] PROVE d[i][p] # b
    BY <1>10, <1>11, <1>12
  <2> QED BY <2>1, InBlocks
<1>15. Blocks(c) = Blocks(d) \cup {b}
  <2>1. ASSUME NEW x \in Blocks(d) PROVE x \in Blocks(c)
    <3>1. PICK i \in DOMAIN d : \E p \in DOMAIN d[i] : d[i][p] = x
      BY <2>1, InBlocks
    <3>2. i + 1 \in DOMAIN c /\ \E p \in DOMAIN c[i + 1] : c[i + 1][p] = x
      BY <1>10, <3>1
    <3> QED BY <3>2, InBlocks
  <2>2. ASSUME NEW x \in Blocks(c), x # b PROVE x \in Blocks(d)
    <3>1. PICK i \in DOMAIN c : \E p \in DOMAIN c[i] : c[i][p] = x
      BY InBlocks
    <3>2. i # 1
      <4>1. \A p \in DOMAIN c[1] : p = 1
        BY <1>1
      <4> QED BY <1>12, <2>2, <3>1, <4>1
    <3>3. i - 1 \in DOMAIN d /\ d[i - 1] = c[i]
      <4>1. i - 1 \in 1..(n - 1) /\ (i - 1) + 1 = i
        BY <1>1, <3>2
      <4> QED BY <1>5, <4>1
    <3> QED BY <3>1, <3>3, InBlocks
  <2>3. b \in Blocks(c)
    BY <1>12, InBlocks
  <2> QED BY <2>1, <2>2, <2>3
<1> QED BY <1>1, <1>5, <1>8, <1>9, <1>13, <1>14, <1>15 DEF Chained, t, d, b

-----------------------------------------------------------------------------
(***************************************************************************)
(* Types and owners, whatever becomes of the chain                         *)
(***************************************************************************)

LEMMA InternalFreeTypes ==
    ASSUME TypeOK, NEW b \in Block, InternalFree(b)
    PROVE  /\ sb' \in Super /\ chain' \in Seq(Group)
           /\ content' \in [Block -> Group] /\ dirty' \subseteq Block /\ dirty' \subseteq dirty
<1>1. /\ sb.group \in Group /\ sb.count \in Nat /\ chain \in Seq(Group) /\ Rest(chain) \in Seq(Group)
      /\ content \in [Block -> Group] /\ dirty \subseteq Block
  BY RestFacts DEF TypeOK, Super
<1>2. CASE Push(b)
  <2>1. /\ sb' = [group |-> Append(sb.group, b), count |-> sb.count + 1]
        /\ chain' = <<Append(sb.group, b)>> \o Rest(chain) /\ content' = content
    BY <1>2 DEF Push
  <2>2. Append(sb.group, b) \in Group
    BY <1>1, GroupLonger
  <2>3. sb' \in Super
    BY <1>1, <2>1, <2>2 DEF Super
  <2>4. chain' \in Seq(Group)
    BY <1>1, <2>1, <2>2
  <2> QED BY <1>1, <2>1, <2>3, <2>4 DEF InternalFree
<1>3. CASE Store(b)
  <2>1. /\ sb' = [group |-> <<b>>, count |-> sb.count + 1]
        /\ chain' = << <<b>> >> \o chain /\ content' = [content EXCEPT ![b] = sb.group]
    BY <1>3 DEF Store
  <2>2. <<b>> \in Group
    BY DEF Group
  <2>3. sb' \in Super
    BY <1>1, <2>1, <2>2 DEF Super
  <2>4. chain' \in Seq(Group)
    BY <1>1, <2>1, <2>2
  <2>5. content' \in [Block -> Group]
    BY <1>1, <2>1
  <2> QED BY <1>1, <2>3, <2>4, <2>5 DEF InternalFree
<1> QED BY <1>2, <1>3 DEF InternalFree

LEMMA AllocTypes ==
    ASSUME TypeOK, Alloc
    PROVE  sb' \in Super /\ chain' \in Seq(Group) /\ cur' \in Block
<1>1. /\ sb.group \in Group /\ sb.count \in Nat /\ sb.count # 0 /\ Rest(chain) \in Seq(Group)
      /\ content \in [Block -> Group]
  BY RestFacts DEF TypeOK, Super, Alloc
<1>2. sb.count - 1 \in Nat
  BY <1>1
<1>3. CASE AllocPop
  <2>1. /\ Front(sb.group) \in Group /\ Last(sb.group) \in Block
    <3>1. Len(sb.group) \in Nat /\ Len(sb.group) > 1
      BY <1>1, <1>3, GroupFacts DEF AllocPop
    <3>2. Len(sb.group) >= 1
      BY <3>1
    <3> QED BY <1>1, <3>2, GroupShorter
  <2>2. sb' \in Super
    BY <1>2, <1>3, <2>1 DEF AllocPop, Super
  <2>3. chain' \in Seq(Group)
    BY <1>1, <1>3, <2>1 DEF AllocPop
  <2> QED BY <1>3, <2>1, <2>2, <2>3 DEF AllocPop
<1>4. ASSUME Len(sb.group) = 1 PROVE sb.group[1] \in Block
  BY <1>1, <1>4, GroupFacts
<1>5. << >> \in Group
  BY EmptySeq DEF Group
<1>6. CASE AllocLast
  <2>1. sb' \in Super /\ chain' \in Seq(Group)
    BY <1>5, <1>6 DEF AllocLast, Super
  <2> QED BY <1>4, <1>6, <2>1 DEF AllocLast
<1>7. CASE AllocLoad
  <2>1. sb.group[1] \in Block
    BY <1>4, <1>7 DEF AllocLoad
  <2>2. sb' \in Super
    BY <1>1, <1>2, <1>7, <2>1 DEF AllocLoad, Super
  <2> QED BY <1>1, <1>7, <2>1, <2>2 DEF AllocLoad
<1> QED BY <1>3, <1>6, <1>7 DEF Alloc

LEMMA NextTypes == TypeOK /\ Owners /\ [Next]_vars => TypeOK' /\ Owners'
<1> SUFFICES ASSUME TypeOK, Owners, [Next]_vars PROVE TypeOK' /\ Owners'
  OBVIOUS
<1>a. NoBlock \notin Block
  BY GroupAssumption
<1>b. \A m \in Nat : \A f \in 0..m : f < m => f + 1 \in 0..m /\ f + 1 # 0
  OBVIOUS
<1>c. /\ faults < MaxFaults => faults + 1 \in 0..MaxFaults /\ faults + 1 # 0
      /\ crashes < MaxCrashes => crashes + 1 \in 0..MaxCrashes /\ crashes + 1 # 0
  BY <1>b, GroupAssumption DEF TypeOK
<1>d. ASSUME NEW b, Used(b) PROVE /\ spoilt' \in BOOLEAN
                                  /\ spoilt' => spoilt \/ exposed # {}
  BY <1>d DEF Used, TypeOK
<1>1. ASSUME NEW b \in Block, Format(b) PROVE TypeOK' /\ Owners'
  <2>1. /\ pc = "format" /\ InternalFree(b)
        /\ UNCHANGED <<dsb, refs, transit, leaving, exposed, spoilt, pc, cur, dChain, crashes, faults>>
    BY <1>1 DEF Format
  <2>2. /\ sb' \in Super /\ chain' \in Seq(Group)
        /\ content' \in [Block -> Group] /\ dirty' \subseteq Block /\ dirty' \subseteq dirty
    BY <2>1, InternalFreeTypes
  <2> QED BY <2>1, <2>2 DEF TypeOK, Owners
<1>2. CASE FormatSync
  BY <1>2 DEF FormatSync, SuperSync, TypeOK, Owners
<1>3. CASE Alloc
  <2>1. /\ pc = "idle" /\ pc' = "alloc" /\ Used(cur')
        /\ UNCHANGED <<dsb, content, dirty, refs, transit, leaving, exposed, dChain, crashes, faults>>
    BY <1>3 DEF Alloc
  <2>2. sb' \in Super /\ chain' \in Seq(Group) /\ cur' \in Block
    BY <1>3, AllocTypes
  <2>3. TypeOK'
    BY <1>d, <2>1, <2>2 DEF TypeOK
  <2>4. cur' # NoBlock
    BY <1>a, <2>2
  <2> QED BY <1>d, <2>1, <2>3, <2>4 DEF Owners
<1>4. CASE AllocReturn
  <2>1. cur \in Block /\ pc = "alloc"
    BY <1>4 DEF AllocReturn, TypeOK, Owners
  <2> QED BY <1>4, <2>1 DEF AllocReturn, SuperSync, TypeOK, Owners
<1>5. CASE AllocFails
  BY <1>5, <1>c DEF AllocFails, SuperSync, TypeOK, Owners
<1>6. ASSUME NEW b \in refs, Free(b) PROVE TypeOK' /\ Owners'
  <2>1. /\ pc \in {"idle", "release"} /\ pc' = "free" /\ InternalFree(b) /\ Used(b)
        /\ leaving' = leaving \cup {b}
        /\ UNCHANGED <<dsb, refs, transit, exposed, cur, dChain, crashes, faults>>
    BY <1>6 DEF Free
  <2>2. b \in Block
    BY DEF TypeOK
  <2>3. /\ sb' \in Super /\ chain' \in Seq(Group)
        /\ content' \in [Block -> Group] /\ dirty' \subseteq Block
    BY <2>1, <2>2, InternalFreeTypes
  <2>4. TypeOK'
    BY <1>d, <2>1, <2>2, <2>3 DEF TypeOK
  <2> QED BY <1>d, <2>1, <2>4 DEF Owners
<1>7. ASSUME NEW b \in refs, FreeStoreFails(b) PROVE TypeOK' /\ Owners'
  <2>1. /\ pc \in {"idle", "release"} /\ Used(b)
        /\ content' \in {content, [content EXCEPT ![b] = sb.group]} /\ dirty' = dirty \ {b}
        /\ faults < MaxFaults /\ faults' = faults + 1
        /\ exposed' = exposed \cup leaving /\ leaving' = {} /\ pc' = "idle"
        /\ UNCHANGED <<sb, dsb, refs, transit, cur, chain, dChain, crashes>>
    BY <1>7 DEF FreeStoreFails, CallerReturns
  <2>2. sb.group \in Group /\ content \in [Block -> Group]
    BY DEF TypeOK, Super
  <2>3. content' \in [Block -> Group]
    BY <2>1, <2>2
  <2>4. TypeOK'
    BY <1>c, <1>d, <2>1, <2>3 DEF TypeOK
  <2> QED BY <1>c, <2>1, <2>4 DEF Owners
<1>8. CASE FreeReturn
  BY <1>8 DEF FreeReturn, SuperSync, TypeOK, Owners
<1>9. CASE FreeSyncFails
  BY <1>9, <1>c DEF FreeSyncFails, CallerReturns, SuperSync, TypeOK, Owners
<1>10. ASSUME NEW b \in leaving, Unlink(b) PROVE TypeOK' /\ Owners'
  BY <1>10 DEF Unlink, TypeOK, Owners
<1>11. ASSUME NEW b \in transit, Link(b) PROVE TypeOK' /\ Owners'
  BY <1>11 DEF Link, TypeOK, Owners
<1>12. ASSUME NEW b \in refs \cup transit, OwnerWrite(b) PROVE TypeOK' /\ Owners'
  <2>1. TypeOK'
    BY <1>d, <1>12 DEF OwnerWrite, TypeOK
  <2> QED BY <1>d, <1>12, <2>1 DEF OwnerWrite, Owners
<1>13. ASSUME NEW b \in dirty, WriteBack(b) PROVE TypeOK' /\ Owners'
  <2>1. << >> \in Group /\ content \in [Block -> Group]
    BY EmptySeq DEF Group, TypeOK
  <2>2. content' \in [Block -> Group]
    BY <1>13, <2>1 DEF WriteBack, NoGroup
  <2>3. TypeOK'
    BY <1>13, <2>2 DEF WriteBack, TypeOK
  <2> QED BY <1>13, <2>3 DEF WriteBack, Owners
<1>14. CASE Sync
  BY <1>14 DEF Sync, SuperSync, TypeOK, Owners
<1>15. CASE Crash
  <2>1. TypeOK'
    BY <1>15, <1>c DEF Crash, TypeOK
  <2> QED BY <1>15, <1>c, <2>1 DEF Crash, Owners
<1>16. CASE Mount
  BY <1>16 DEF Mount, TypeOK, Owners
<1>17. CASE UNCHANGED vars
  BY <1>17 DEF vars, TypeOK, Owners
<1> QED
  BY <1>1, <1>2, <1>3, <1>4, <1>5, <1>6, <1>7, <1>8, <1>9, <1>10, <1>11, <1>12, <1>13, <1>14,
     <1>15, <1>16, <1>17 DEF Next, Work

\* A chain once spoilt stays so.
LEMMA SpoiltStays == TypeOK /\ [Next]_vars => (spoilt => spoilt')
<1> SUFFICES ASSUME TypeOK, [Next]_vars, spoilt PROVE spoilt'
  OBVIOUS
<1>1. ASSUME NEW b, Alloc \/ Free(b) \/ FreeStoreFails(b) \/ OwnerWrite(b) PROVE spoilt'
  BY <1>1 DEF Alloc, Free, FreeStoreFails, OwnerWrite, Used, TypeOK
<1>2. ASSUME NEW b, \/ Format(b) \/ FormatSync \/ AllocReturn \/ AllocFails \/ FreeReturn \/ FreeSyncFails
                    \/ Unlink(b) \/ Link(b) \/ WriteBack(b) \/ Sync \/ Crash \/ Mount
      PROVE  spoilt'
  BY <1>2 DEF Format, FormatSync, AllocReturn, AllocFails, FreeReturn, FreeSyncFails, Unlink, Link,
     WriteBack, Sync, Crash, Mount
<1>3. CASE UNCHANGED vars
  BY <1>3 DEF vars
<1> QED BY <1>1, <1>2, <1>3 DEF Next, Work

-----------------------------------------------------------------------------
(***************************************************************************)
(* The chain stays sound until a block free and recorded is used           *)
(***************************************************************************)

\* What the invariant says of the two chains, in one place.
LEMMA InvChained ==
    ASSUME IInv, ~spoilt
    PROVE  /\ Chained(sb, chain, content)
           /\ Chained(dsb, dChain, content)
           /\ content \in [Block -> Group]
           /\ Blocks(chain) \subseteq Block
           /\ Blocks(dChain) \subseteq Block
  BY BlocksAreBlocks DEF IInv, TypeOK, Sound, Chained

\* The chain of a file system that is being formatted is empty.
LEMMA EmptyChain ==
    ASSUME NEW contents
    PROVE  /\ Chained([group |-> << >>, count |-> 0], << << >> >>, contents)
           /\ Blocks(<< << >> >>) = {}
<1> DEFINE d == << << >> >>
           t == [group |-> << >>, count |-> 0]
<1>1. << >> \in Group /\ Len(<< >>) = 0 /\ DOMAIN << >> = {} /\ GroupSize \in Nat \ {0}
  BY EmptySeq, GroupAssumption DEF Group
<1>2. d \in Seq(Group) /\ Len(d) = 1 /\ DOMAIN d = {1} /\ d[1] = << >>
  BY <1>1
<1>3. t \in Super /\ t.group = << >> /\ t.count = 0
  BY <1>1 DEF Super
<1> HIDE DEF d, t
<1>4. Spells(t, d, contents)
  BY <1>1, <1>2, <1>3 DEF Spells
<1>5. NoRepeats(d) /\ Blocks(d) = {}
  BY <1>1, <1>2 DEF NoRepeats, Blocks, Range
<1> QED BY <1>2, <1>3, <1>4, <1>5 DEF Chained, d, t

LEMMA InitInv == Init => IInv
<1> SUFFICES ASSUME Init PROVE IInv
  OBVIOUS
<1>1. /\ sb = [group |-> << >>, count |-> 0] /\ dsb = sb
      /\ chain = << << >> >> /\ dChain = chain
      /\ content = [b \in Block |-> << >>]
      /\ dirty = {} /\ refs = {} /\ transit = {} /\ leaving = {} /\ exposed = {} /\ spoilt = FALSE
      /\ pc = "format" /\ cur = NoBlock /\ crashes = 0 /\ faults = 0
  BY DEF Init, NoGroup
<1>2. Chained(sb, chain, content) /\ Chained(dsb, dChain, content)
  BY <1>1, EmptyChain
<1>3. Blocks(chain) = {} /\ Blocks(dChain) = {}
  BY <1>1, EmptyChain
<1>4. << >> \in Group
  BY EmptySeq DEF Group
<1>5. 0 \in 0..MaxCrashes /\ 0 \in 0..MaxFaults
  BY GroupAssumption
<1>6. TypeOK
  BY <1>1, <1>2, <1>4, <1>5 DEF TypeOK, Chained
<1>7. Owners /\ Apart /\ NothingLost
  BY <1>1, <1>3 DEF Owners, Apart, NothingLost
<1> QED BY <1>2, <1>6, <1>7 DEF IInv, Sound

\* Freeing a block that is in neither chain.
LEMMA FreedJoinsChain ==
    ASSUME IInv, ~spoilt, NEW b \in Block, b \notin Blocks(chain), b \notin Blocks(dChain),
           InternalFree(b)
    PROVE  /\ Chained(sb', chain', content')
           /\ Chained(dsb, dChain, content')
           /\ content' \in [Block -> Group]
           /\ Blocks(chain') = Blocks(chain) \cup {b}
           /\ dirty' = dirty \ {b}
<1>1. Chained(sb, chain, content) /\ Chained(dsb, dChain, content) /\ content \in [Block -> Group]
  BY InvChained
<1>2. CASE Push(b)
  <2> DEFINE h == Append(sb.group, b)
  <2>1. Len(sb.group) < GroupSize /\ content' = content
    BY <1>2 DEF Push
  <2>2. sb' = [group |-> h, count |-> sb.count + 1] /\ chain' = <<h>> \o Rest(chain)
    BY <1>2 DEF Push
  <2>3. /\ h \in Group /\ Len(h) = Len(sb.group) + 1
        /\ \A p \in 1..Len(sb.group) : h[p] = sb.group[p]
        /\ h[Len(sb.group) + 1] = b
    BY <1>1, ChainedFacts, GroupLonger
  <2> HIDE DEF h
  <2>4. /\ Chained([group |-> h, count |-> sb.count + 1], <<h>> \o Rest(chain), content)
        /\ Blocks(<<h>> \o Rest(chain)) = Blocks(chain) \cup {b}
    <3>1. Chained(sb, chain, content) /\ b \in Block /\ b \notin Blocks(chain)
      BY <1>1
    <3> HIDE DEF h
    <3> QED BY <3>1, <2>1, <2>3, PushKeepsChain, SMTT(60)
  <2> QED BY <1>1, <2>1, <2>2, <2>4 DEF InternalFree
<1>3. CASE Store(b)
  <2>1. sb.group \in Group
    BY <1>1, ChainedFacts
  <2>2. content' = [content EXCEPT ![b] = sb.group] /\ content' \in [Block -> Group]
    BY <1>1, <1>3, <2>1 DEF Store
  <2>3. Chained(dsb, dChain, content')
    BY <1>1, <2>2, WriteKeepsChain
  <2>4. Chained(sb', chain', content') /\ Blocks(chain') = Blocks(chain) \cup {b}
    BY <1>1, <1>3, StoreKeepsChain DEF Store
  <2> QED BY <2>2, <2>3, <2>4 DEF InternalFree
<1> QED BY <1>2, <1>3 DEF InternalFree

\* Allocating takes one block out of the chain.
LEMMA AllocatedLeavesChain ==
    ASSUME IInv, ~spoilt, Alloc
    PROVE  /\ Chained(sb', chain', content)
           /\ cur' \in Block
           /\ Blocks(chain) = Blocks(chain') \cup {cur'}
           /\ cur' \notin Blocks(chain')
<1>1. Chained(sb, chain, content)
  BY InvChained
<1>2. CASE AllocPop
  BY <1>1, <1>2, PopKeepsChain DEF AllocPop
<1>3. CASE AllocLast
  BY <1>1, <1>3, LastKeepsChain DEF AllocLast
<1>4. CASE AllocLoad
  BY <1>1, <1>4, LoadKeepsChain DEF AllocLoad
<1> QED BY <1>2, <1>3, <1>4 DEF Alloc

\* Every step that leaves the chain unspoilt leaves it sound.
LEMMA NextSound ==
    ASSUME IInv, [Next]_vars, ~spoilt'
    PROVE  Sound'
<1>a. TypeOK /\ Owners /\ ~spoilt /\ Apart /\ NothingLost
  BY SpoiltStays DEF IInv, Sound
<1>b. /\ Chained(sb, chain, content) /\ Chained(dsb, dChain, content)
      /\ content \in [Block -> Group]
      /\ Blocks(chain) \subseteq Block /\ Blocks(dChain) \subseteq Block
  BY <1>a, InvChained
<1>c. NoBlock \notin Block /\ faults \in Nat /\ crashes \in Nat
  BY <1>a, GroupAssumption DEF TypeOK
<1>d. ASSUME NEW b, Used(b) PROVE b \notin exposed
  BY <1>d DEF Used
<1>e. faults + 1 # 0 /\ crashes + 1 # 0
  BY <1>c
<1>1. ASSUME NEW b \in Block, Format(b) PROVE Sound'
  <2>1. /\ pc = "format" /\ InternalFree(b) /\ b \notin Blocks(chain)
        /\ UNCHANGED <<dsb, refs, transit, leaving, exposed, pc, cur, dChain, crashes, faults>>
    BY <1>1 DEF Format
  <2>2. refs = {} /\ transit = {} /\ leaving = {} /\ dirty = {} /\ Blocks(dChain) = {}
    BY <1>a, <2>1 DEF Owners, Apart
  <2>3. /\ Chained(sb', chain', content') /\ Chained(dsb, dChain, content')
        /\ Blocks(chain') = Blocks(chain) \cup {b} /\ dirty' = dirty \ {b}
    BY <1>a, <2>1, <2>2, FreedJoinsChain
  <2>4. Apart' /\ NothingLost'
    BY <1>a, <2>1, <2>2, <2>3 DEF Apart, NothingLost
  <2> QED BY <2>1, <2>3, <2>4 DEF Sound
<1>2. CASE FormatSync
  <2>1. /\ pc = "format" /\ pc' = "idle" /\ dsb' = sb /\ dChain' = chain /\ Blocks(chain) = Block
        /\ UNCHANGED <<sb, content, dirty, refs, transit, leaving, exposed, cur, chain, crashes, faults>>
    BY <1>2 DEF FormatSync, SuperSync
  <2>2. refs = {} /\ transit = {} /\ leaving = {} /\ dirty = {} /\ cur = NoBlock
    BY <1>a, <2>1 DEF Owners
  <2>3a. Apart'
    BY <1>a, <1>b, <2>1, <2>2 DEF Apart
  <2>3. Apart' /\ NothingLost'
    BY <1>a, <1>c, <2>1, <2>2, <2>3a DEF NothingLost
  <2> QED BY <1>b, <2>1, <2>3 DEF Sound
<1>3. CASE Alloc
  <2>1. /\ pc = "idle" /\ pc' = "alloc" /\ cur' \notin exposed
        /\ UNCHANGED <<dsb, content, dirty, refs, transit, leaving, exposed, dChain, crashes, faults>>
    BY <1>3, <1>d DEF Alloc
  <2>2. /\ Chained(sb', chain', content) /\ cur' \in Block
        /\ Blocks(chain) = Blocks(chain') \cup {cur'} /\ cur' \notin Blocks(chain')
    BY <1>3, <1>a, AllocatedLeavesChain
  <2>3. leaving = {} /\ cur = NoBlock
    BY <1>a, <2>1 DEF Owners
  <2>4. Apart'
    BY <1>a, <2>1, <2>2, <2>3 DEF Apart
  <2>5. NothingLost'
    BY <1>a, <1>c, <2>1, <2>2, <2>3 DEF NothingLost
  <2> QED BY <1>b, <2>1, <2>2, <2>4, <2>5 DEF Sound
<1>4. CASE AllocReturn
  <2>1. /\ pc = "alloc" /\ pc' = "idle" /\ dsb' = sb /\ dChain' = chain
        /\ dirty' = dirty \cup {cur} /\ transit' = transit \cup {cur} /\ cur' = NoBlock
        /\ UNCHANGED <<sb, content, refs, leaving, exposed, chain, crashes, faults>>
    BY <1>4 DEF AllocReturn, SuperSync
  <2>2. leaving = {} /\ cur \in Block /\ cur # NoBlock
    BY <1>a, <2>1 DEF Owners, TypeOK
  <2>3. Apart'
    BY <1>a, <2>1, <2>2 DEF Apart
  <2>4. NothingLost'
    BY <1>a, <2>1, <2>2 DEF NothingLost
  <2> QED BY <1>b, <2>1, <2>3, <2>4 DEF Sound
<1>5. CASE AllocFails
  <2>1. /\ pc = "alloc" /\ pc' = "idle" /\ cur' = NoBlock /\ faults' = faults + 1
        /\ UNCHANGED <<sb, content, dirty, refs, transit, leaving, exposed, chain, crashes>>
    BY <1>5 DEF AllocFails
  <2>2. (dsb' = sb /\ dChain' = chain) \/ (dsb' = dsb /\ dChain' = dChain)
    BY <1>5 DEF AllocFails, SuperSync
  <2>3. Apart' /\ NothingLost'
    BY <1>a, <1>e, <2>1, <2>2 DEF Apart, NothingLost
  <2> QED BY <1>b, <2>1, <2>2, <2>3 DEF Sound
<1>6. ASSUME NEW b \in refs, Free(b) PROVE Sound'
  <2>1. /\ pc \in {"idle", "release"} /\ pc' = "free" /\ b \notin leaving /\ InternalFree(b)
        /\ leaving' = leaving \cup {b} /\ b \notin exposed
        /\ UNCHANGED <<dsb, refs, transit, exposed, cur, dChain, crashes, faults>>
    BY <1>6, <1>d DEF Free
  <2>2. b \in Block /\ b \notin Blocks(chain) /\ b \notin Blocks(dChain)
    BY <1>a, <2>1 DEF TypeOK, Apart
  <2>3. /\ Chained(sb', chain', content') /\ Chained(dsb, dChain, content')
        /\ Blocks(chain') = Blocks(chain) \cup {b} /\ dirty' = dirty \ {b}
    BY <1>a, <2>1, <2>2, FreedJoinsChain
  <2>4. Apart'
    BY <1>a, <2>1, <2>3 DEF Apart
  <2>5. NothingLost'
    BY <1>a, <2>1, <2>3 DEF NothingLost
  <2> QED BY <2>1, <2>3, <2>4, <2>5 DEF Sound
<1>7. ASSUME NEW b \in refs, FreeStoreFails(b) PROVE Sound'
  <2>1. /\ pc \in {"idle", "release"} /\ b \notin leaving /\ b \notin exposed
        /\ content' \in {content, [content EXCEPT ![b] = sb.group]} /\ dirty' = dirty \ {b}
        /\ faults' = faults + 1
        /\ exposed' = exposed \cup leaving /\ leaving' = {} /\ pc' = "idle"
        /\ UNCHANGED <<sb, dsb, refs, transit, cur, chain, dChain, crashes>>
    BY <1>7, <1>d DEF FreeStoreFails, CallerReturns
  <2>2. b \notin Blocks(chain) /\ b \notin Blocks(dChain)
    BY <1>a, <2>1 DEF Apart
  <2>3. Chained(sb, chain, content') /\ Chained(dsb, dChain, content')
    BY <1>b, <2>1, <2>2, WriteKeepsChain
  <2>4. Apart' /\ NothingLost'
    BY <1>a, <1>e, <2>1 DEF Apart, NothingLost
  <2> QED BY <2>1, <2>3, <2>4 DEF Sound
<1>8. CASE FreeReturn
  <2>1. /\ pc = "free" /\ pc' = "release" /\ dsb' = sb /\ dChain' = chain
        /\ UNCHANGED <<sb, content, dirty, refs, transit, leaving, exposed, cur, chain, crashes, faults>>
    BY <1>8 DEF FreeReturn, SuperSync
  <2>2. Apart' /\ NothingLost'
    BY <1>a, <2>1 DEF Apart, NothingLost
  <2> QED BY <1>b, <2>1, <2>2 DEF Sound
<1>9. CASE FreeSyncFails
  <2>1. /\ pc = "free" /\ faults' = faults + 1
        /\ exposed' = exposed \cup leaving /\ leaving' = {} /\ pc' = "idle"
        /\ UNCHANGED <<sb, content, dirty, refs, transit, cur, chain, crashes>>
    BY <1>9 DEF FreeSyncFails, CallerReturns
  <2>2. (dsb' = sb /\ dChain' = chain) \/ (dsb' = dsb /\ dChain' = dChain)
    BY <1>9 DEF FreeSyncFails, SuperSync
  <2>3. Apart' /\ NothingLost'
    BY <1>a, <1>e, <2>1, <2>2 DEF Apart, NothingLost
  <2> QED BY <1>b, <2>1, <2>2, <2>3 DEF Sound
<1>10. ASSUME NEW b \in leaving, Unlink(b) PROVE Sound'
  <2>1. /\ pc = "release" /\ refs' = refs \ {b} /\ leaving' = leaving \ {b}
        /\ pc' = IF leaving = {b} THEN "idle" ELSE pc
        /\ UNCHANGED <<sb, dsb, content, dirty, transit, exposed, cur, chain, dChain, crashes, faults>>
    BY <1>10 DEF Unlink
  <2>2. b \in refs /\ b \in Blocks(chain) /\ b \notin transit
    BY <1>a, <2>1 DEF Owners, Apart
  <2>3. Apart'
    BY <1>a, <2>1, <2>2 DEF Apart
  <2>4. NothingLost'
    BY <1>a, <2>1, <2>2 DEF NothingLost
  <2> QED BY <1>b, <2>1, <2>3, <2>4 DEF Sound
<1>11. ASSUME NEW b \in transit, Link(b) PROVE Sound'
  <2>1. /\ pc = "idle" /\ refs' = refs \cup {b} /\ transit' = transit \ {b}
        /\ UNCHANGED <<sb, dsb, content, dirty, leaving, exposed, pc, cur, chain, dChain, crashes, faults>>
    BY <1>11 DEF Link
  <2>2. Apart' /\ NothingLost'
    BY <1>a, <2>1 DEF Apart, NothingLost
  <2> QED BY <1>b, <2>1, <2>2 DEF Sound
<1>12. ASSUME NEW b \in refs \cup transit, OwnerWrite(b) PROVE Sound'
  <2>1. /\ pc = "idle" /\ dirty' = dirty \cup {b} /\ b \notin exposed
        /\ UNCHANGED <<sb, dsb, content, refs, transit, leaving, exposed, pc, cur, chain, dChain, crashes,
                       faults>>
    BY <1>12, <1>d DEF OwnerWrite
  <2>2. leaving = {}
    BY <1>a, <2>1 DEF Owners
  <2>3. Apart' /\ NothingLost'
    BY <1>a, <2>1, <2>2 DEF Apart, NothingLost
  <2> QED BY <1>b, <2>1, <2>3 DEF Sound
<1>13. ASSUME NEW b \in dirty, WriteBack(b) PROVE Sound'
  <2>1. /\ pc = "idle" /\ content' = [content EXCEPT ![b] = << >>] /\ dirty' = dirty \ {b}
        /\ UNCHANGED <<sb, dsb, refs, transit, leaving, exposed, pc, cur, chain, dChain, crashes, faults>>
    BY <1>13 DEF WriteBack, NoGroup
  <2>2. b \notin Blocks(chain) /\ b \notin Blocks(dChain)
    BY <1>a DEF Apart
  <2>3. Chained(sb, chain, content') /\ Chained(dsb, dChain, content')
    BY <1>b, <2>1, <2>2, WriteKeepsChain
  <2>4. Apart' /\ NothingLost'
    BY <1>a, <2>1 DEF Apart, NothingLost
  <2> QED BY <2>1, <2>3, <2>4 DEF Sound
<1>14. CASE Sync
  <2>1. /\ pc = "idle" /\ dsb' = sb /\ dChain' = chain
        /\ UNCHANGED <<sb, content, dirty, refs, transit, leaving, exposed, pc, cur, chain, crashes, faults>>
    BY <1>14 DEF Sync, SuperSync
  <2>2. Apart' /\ NothingLost'
    BY <1>a, <2>1 DEF Apart, NothingLost
  <2> QED BY <1>b, <2>1, <2>2 DEF Sound
<1>15. CASE Crash
  <2>1. /\ crashes' = crashes + 1 /\ sb' = dsb /\ chain' = dChain
        /\ dirty' = {} /\ transit' = {} /\ pc' = "down" /\ cur' = NoBlock
        /\ exposed' = (exposed \cup leaving) \cap Blocks(dChain) /\ leaving' = {}
        /\ UNCHANGED <<dsb, content, refs, dChain, faults>>
    BY <1>15 DEF Crash
  <2>2. Apart' /\ NothingLost'
    BY <1>a, <1>e, <2>1 DEF Apart, NothingLost
  <2> QED BY <1>b, <2>1, <2>2 DEF Sound
<1>16. CASE Mount
  <2>1. /\ pc = "down" /\ pc' = "idle"
        /\ UNCHANGED <<sb, dsb, content, dirty, refs, transit, leaving, exposed, cur, chain, dChain,
                       crashes, faults>>
    BY <1>16 DEF Mount
  <2>2. Apart' /\ NothingLost'
    BY <1>a, <2>1 DEF Apart, NothingLost
  <2> QED BY <1>b, <2>1, <2>2 DEF Sound
<1>17. CASE UNCHANGED vars
  <2>1. UNCHANGED <<sb, dsb, content, dirty, refs, transit, leaving, exposed, pc, cur, chain, dChain,
                    crashes, faults>>
    BY <1>17 DEF vars
  <2>2. Apart' /\ NothingLost'
    BY <1>a, <2>1 DEF Apart, NothingLost
  <2> QED BY <1>b, <2>1, <2>2 DEF Sound
<1> QED
  BY <1>1, <1>2, <1>3, <1>4, <1>5, <1>6, <1>7, <1>8, <1>9, <1>10, <1>11, <1>12, <1>13, <1>14,
     <1>15, <1>16, <1>17 DEF Next, Work

\* Every step keeps the invariant.
LEMMA NextInv == IInv /\ [Next]_vars => IInv'
<1> SUFFICES ASSUME IInv, [Next]_vars PROVE IInv'
  OBVIOUS
<1>1. TypeOK' /\ Owners'
  BY NextTypes DEF IInv
<1>2. ~spoilt' => Sound'
  BY NextSound
<1> QED BY <1>1, <1>2 DEF IInv

-----------------------------------------------------------------------------
(***************************************************************************)
(* The theorems                                                            *)
(***************************************************************************)

\* The invariant holds in every state of every behaviour.
THEOREM GroupChainInvariant == Spec => []IInv
  BY InitInv, NextInv, PTL DEF Spec

\* What the invariant says of the properties checked.
LEMMA InvImplies ==
    ASSUME IInv
    PROVE  ChainIntact /\ CrashImageIntact /\ NoDoubleUse /\ NothingLost
<1>1. ChainIntact /\ CrashImageIntact
  BY DEF IInv, Sound, Chained, ChainIntact, CrashImageIntact
<1>2. NoDoubleUse
  BY DEF IInv, Sound, Apart, NoDoubleUse
<1>3. NothingLost
  <2>1. crashes = 0 /\ faults = 0 => ~spoilt
    BY DEF IInv, Owners
  <2>2. ~spoilt => NothingLost
    BY DEF IInv, Sound
  <2> QED BY <2>1, <2>2 DEF NothingLost
<1> QED BY <1>1, <1>2, <1>3

\* Every variable keeps its type, also once the chain is spoilt: no group ever holds
\* anything but data blocks, and the count never falls below zero.
THEOREM GroupChainTypeOK == Spec => []TypeOK
<1>1. IInv => TypeOK
  BY DEF IInv
<1> QED BY <1>1, GroupChainInvariant, PTL

\* The chain the running process follows is intact until a block that a call cut short
\* has left free and recorded is used: alloc and free never lose, duplicate or
\* overwrite a link of it (block_alloc.cpp:206-266, 337-428).
THEOREM GroupChainIntact == Spec => []ChainIntact
<1>1. IInv => ChainIntact
  BY InvImplies
<1> QED BY <1>1, GroupChainInvariant, PTL

\* Until then, a process killed between any two writes of alloc or free leaves an
\* image whose superblock and linked groups spell out a chain without a repeat.
THEOREM GroupChainCrashImageIntact == Spec => []CrashImageIntact
<1>1. IInv => CrashImageIntact
  BY InvImplies
<1> QED BY <1>1, GroupChainInvariant, PTL

\* The blocks both free and in use are those that the running call, or one cut short,
\* has freed and not cleared the record of; and until one of them is used none is
\* handed out twice.
THEOREM GroupChainNoDoubleUse == Spec => []NoDoubleUse
<1>1. IInv => NoDoubleUse
  BY InvImplies
<1> QED BY <1>1, GroupChainInvariant, PTL

\* Until a crash or a failed write, every block is free, recorded or in hand.
THEOREM GroupChainNothingLost == Spec => []NothingLost
<1>1. IInv => NothingLost
  BY InvImplies
<1> QED BY <1>1, GroupChainInvariant, PTL
=============================================================================
