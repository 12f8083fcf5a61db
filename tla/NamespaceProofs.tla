---------------------------- MODULE NamespaceProofs ----------------------------
EXTENDS Namespace, FiniteSetTheorems, SequenceTheorems, WellFoundedInduction, TLAPS

(***************************************************************************)
(* What the path and file layer keeps up whatever it is asked for and      *)
(* wherever it is killed: the rows of writes that can be waiting are those *)
(* of the stages below, an inode in use is marked in the bitmap, and what  *)
(* it counts is right: the free inodes, the names and the descriptors of   *)
(* each inode, and the inodes that nothing leads to.                       *)
(***************************************************************************)

-----------------------------------------------------------------------------
(***************************************************************************)
(* What is left of a call                                                  *)
(***************************************************************************)

\* The steps that need nothing of the ones around them.
PlainStep ==
    [op : {"truncate", "remember", "save"}, ino : Ino]
      \cup [op : {"write"}, ino : Ino, slot : Slot, what : {"users", "text"}]
      \cup [op : {"reopen"}, dir : Ino, name : Name]
      \cup [op : {"closeAll"}, then : {<< >>, <<Step("save", Root), Step("halt", Root)>>}]
LastStep == {Step("halt", Root)}
Plain(s) == s \in Seq(PlainStep \cup LastStep)

AnyStep ==
    PlainStep \cup LastStep
      \cup [op : {"mark", "free", "unmark", "incLink", "decLink", "incOpen", "decOpen", "resetOpens", "truncate"},
            ino : Ino]
      \cup [op : {"table"}, ino : Ino, inode : InodeRecord]
      \cup [op : {"count"}, by : {-1, 1}]
      \cup [op : {"remove"}, dir : Ino, name : Name]
      \cup [op : {"init"}, dir : Ino, name : Name, ino : Ino]
      \cup [op : {"add"}, dir : Ino, name : Name, ino : Ino,
            then : Seq(PlainStep \cup [op : {"incLink"}, ino : Ino]), else : Seq([op : {"free"}, ino : Ino])]

\* alloc, and an entry for the new inode i, which a directory has to fill first
Made == {NewInode("file"), NewInode("dir")}
FirstEntry(i, step) ==
    \/ \E d \in Ino, n \in Name, then \in Seq(PlainStep), else \in {<< >>, <<Step("free", i)>>} :
         step = AddStep(d, n, i, then, else)
    \/ \E d \in Ino, n \in Name : step = InitStep(d, n, i)
AddNew(i, s) == s # << >> /\ FirstEntry(i, Head(s)) /\ Plain(Tail(s))
CountNew(i, s) == s # << >> /\ Head(s) = CountBy(-1) /\ AddNew(i, Tail(s))
WriteNew(i, s) == s # << >> /\ CountNew(i, Tail(s)) /\ \E inode \in Made : Head(s) = WriteEntry(i, inode)
MarkNew(i, s) == s # << >> /\ Head(s) = Step("mark", i) /\ WriteNew(i, Tail(s))

\* free
CountFreed(s) == s # << >> /\ Head(s) = CountBy(1) /\ Plain(Tail(s))
UnmarkFreed(i, s) == s # << >> /\ Head(s) = Step("unmark", i) /\ CountFreed(Tail(s))
WriteFreed(i, s) == s # << >> /\ Head(s) = WriteEntry(i, FreeInode) /\ UnmarkFreed(i, Tail(s))
FreeIt(i, s) == s # << >> /\ Head(s) = Step("free", i) /\ Plain(Tail(s))

\* link
AddLink(i, s) ==
    /\ s # << >> /\ Plain(Tail(s))
    /\ \E d \in Ino, n \in Name : Head(s) = AddStep(d, n, i, <<Step("incLink", i)>>, << >>)
CountLink(i, s) == s # << >> /\ Head(s) = Step("incLink", i) /\ Plain(Tail(s))

\* delete and rmdir
DropLink(i, s) == s # << >> /\ Head(s) = Step("decLink", i) /\ Plain(Tail(s))
EmptyAndDrop(i, s) == s # << >> /\ Head(s) = Step("truncate", i) /\ DropLink(i, Tail(s))
RemoveAndDrop(i, s) ==
    /\ s # << >>
    /\ \E d \in Ino, n \in Name : Head(s) = [op |-> "remove", dir |-> d, name |-> n]
    /\ DropLink(i, Tail(s)) \/ EmptyAndDrop(i, Tail(s))

\* open and close, and create, which does both
Opening(i, s) == s # << >> /\ Head(s) = Step("incOpen", i) /\ Plain(Tail(s))
Closing(i, s) == s # << >> /\ Head(s) = Step("decOpen", i) /\ Plain(Tail(s))
Passing(i, s) == s # << >> /\ Head(s) = Step("incOpen", i) /\ Closing(i, Tail(s))

Mounting(s) == s # << >> /\ Head(s) = Step("resetOpens", Root) /\ Plain(Tail(s))

Making(i, s) == WriteNew(i, s) \/ CountNew(i, s) \/ AddNew(i, s)
Freeing(i, s) == FreeIt(i, s) \/ WriteFreed(i, s)
Dropping(i, s) == DropLink(i, s) \/ EmptyAndDrop(i, s)

Shape(s) ==
    \/ Plain(s) \/ Mounting(s) \/ CountFreed(s)
    \/ \E i \in Ino : Opening(i, s) \/ Passing(i, s) \/ Closing(i, s)
    \/ \E i \in Ino \ {Root} :
         \/ MarkNew(i, s) \/ Making(i, s)
         \/ Freeing(i, s) \/ UnmarkFreed(i, s)
         \/ AddLink(i, s) \/ CountLink(i, s)
         \/ RemoveAndDrop(i, s) \/ Dropping(i, s)

-----------------------------------------------------------------------------
(***************************************************************************)
(* The least of some numbers                                               *)
(***************************************************************************)

LEMMA MinIsIn ==
    ASSUME NEW S, S \subseteq Nat, S # {}
    PROVE  Min(S) \in S /\ \A y \in S : Min(S) =< y
  <1> DEFINE R == {ss \in Nat \X Nat : ss[1] < ss[2]}
  <1>1. IsWellFoundedOn(R, Nat)
    BY NatLessThanWellFounded DEF OpToRel
  <1>2. \A x, y \in Nat : y < x => <<y, x>> \in R
    OBVIOUS
  <1> HIDE DEF R
  <1>3. PICK x \in S : \A y \in S : ~(<<y, x>> \in R)
    BY <1>1, WFMin
  <1>4. ASSUME NEW y \in S
        PROVE  x =< y
    <2>1. ~(y < x)
      BY <1>2, <1>3
    <2> QED BY <2>1
  <1> QED BY <1>4 DEF Min

LEMMA NewInoIsFree ==
    ASSUME used \subseteq Ino, used # Ino
    PROVE  NewIno \in Ino \ used
  BY MinIsIn, Ino \ used # {}, Ino \ used \subseteq Nat DEF NewIno, Ino

-----------------------------------------------------------------------------
(***************************************************************************)
(* Steps in a row                                                          *)
(***************************************************************************)

LEMMA Singleton ==
    ASSUME NEW S
    PROVE  << >> \in Seq(S) /\ \A a \in S : <<a>> \in Seq(S)
  OBVIOUS

LEMMA First ==
    ASSUME NEW S, NEW a \in S, NEW s \in Seq(S)
    PROVE  Cons(a, s) \in Seq(S) /\ Cons(a, s) # << >> /\ Head(Cons(a, s)) = a /\ Tail(Cons(a, s)) = s
  BY DEF Cons

LEMMA One ==
    ASSUME NEW a, NEW s
    PROVE  <<a>> \o s = Cons(a, s)
  BY DEF Cons

LEMMA TwoInRow ==
    ASSUME NEW S, NEW a \in S, NEW b \in S, NEW s \in Seq(S)
    PROVE  <<a, b>> \o s = Cons(a, Cons(b, s))
  <1> DEFINE l == <<a, b>> \o s
             r == <<a>> \o (<<b>> \o s)
  <1>1. l \in Seq(S) /\ r \in Seq(S) /\ Len(l) = Len(r)
    OBVIOUS
  <1>2. \A k \in 1..Len(l) : l[k] = r[k]
    OBVIOUS
  <1> HIDE DEF l, r
  <1>3. l = r
    BY <1>1, <1>2, SeqEqual
  <1> QED BY <1>3 DEF l, r, Cons

LEMMA ThreeInRow ==
    ASSUME NEW S, NEW a \in S, NEW b \in S, NEW c \in S, NEW s \in Seq(S)
    PROVE  <<a, b, c>> \o s = Cons(a, Cons(b, Cons(c, s)))
  <1>1. <<a, b, c>> \o s = <<a>> \o (<<b, c>> \o s)
    OBVIOUS
  <1>2. <<b, c>> \o s = Cons(b, Cons(c, s))
    BY TwoInRow
  <1> QED BY <1>1, <1>2 DEF Cons

LEMMA FourInRow ==
    ASSUME NEW S, NEW a \in S, NEW b \in S, NEW c \in S, NEW d \in S, NEW s \in Seq(S)
    PROVE  (<<a, b, c>> \o <<d>>) \o s = Cons(a, Cons(b, Cons(c, Cons(d, s))))
  <1> DEFINE l == (<<a, b, c>> \o <<d>>) \o s
             r == <<a, b, c>> \o (<<d>> \o s)
  <1>1. l \in Seq(S) /\ r \in Seq(S) /\ Len(l) = Len(r)
    OBVIOUS
  <1>2. \A k \in 1..Len(l) : l[k] = r[k]
    OBVIOUS
  <1> HIDE DEF l, r
  <1>3. l = r
    BY <1>1, <1>2, SeqEqual
  <1>4. Cons(d, s) \in Seq(S) /\ r = <<a, b, c>> \o Cons(d, s)
    BY First DEF r, Cons
  <1> DEFINE x == Cons(d, s)
  <1> HIDE DEF x
  <1>5. x \in Seq(S) /\ r = <<a, b, c>> \o x
    BY <1>4 DEF x
  <1>6. <<a, b, c>> \o x = Cons(a, Cons(b, Cons(c, x)))
    BY <1>5, ThreeInRow
  <1> QED BY <1>3, <1>5, <1>6 DEF l, x

\* The same without anything behind.
LEMMA NothingBehind ==
    ASSUME NEW S, NEW s \in Seq(S)
    PROVE  s \o << >> = s /\ << >> \o s = s
  OBVIOUS

LEMMA PlainIsAny ==
    ASSUME NEW s, Plain(s)
    PROVE  s \in Seq(AnyStep) /\ (s # << >> => Plain(Tail(s)) /\ Head(s) \in PlainStep \cup LastStep)
  BY HeadTailProperties DEF Plain, AnyStep

LEMMA PlainMore ==
    ASSUME NEW a \in PlainStep, NEW s, Plain(s)
    PROVE  Plain(Cons(a, s)) /\ Cons(a, s) # << >>
  BY First DEF Plain

LEMMA FirstEntryIsStep ==
    ASSUME NEW i \in Ino, NEW e, FirstEntry(i, e)
    PROVE  e \in AnyStep
  <1>1. ASSUME NEW d \in Ino, NEW n \in Name, NEW then \in Seq(PlainStep), NEW else \in {<< >>, <<Step("free", i)>>}
        PROVE  AddStep(d, n, i, then, else) \in AnyStep
    <2>1. then \in Seq(PlainStep \cup [op : {"incLink"}, ino : Ino])
      OBVIOUS
    <2>2. else \in Seq([op : {"free"}, ino : Ino])
      <3>1. Step("free", i) \in [op : {"free"}, ino : Ino]
        BY DEF Step
      <3> QED BY <3>1, Singleton
    <2> QED BY <2>1, <2>2 DEF AnyStep, AddStep
  <1>2. ASSUME NEW d \in Ino, NEW n \in Name
        PROVE  InitStep(d, n, i) \in AnyStep
    BY DEF AnyStep, InitStep
  <1> QED BY <1>1, <1>2 DEF FirstEntry

\* The rows of steps that the calls begin with.
LEMMA AllocRow ==
    ASSUME NEW i \in Ino, NEW type \in {"file", "dir"}, NEW e, FirstEntry(i, e), NEW s, Plain(s),
           NEW row, row = (<<Step("mark", i), WriteEntry(i, NewInode(type)), CountBy(-1)>> \o <<e>>) \o s
    PROVE  row \in Seq(AnyStep) /\ MarkNew(i, row)
  <1> DEFINE a == Step("mark", i)
             b == WriteEntry(i, NewInode(type))
             c == CountBy(-1)
  <1>1. a \in AnyStep
    BY DEF AnyStep, Step
  <1>2. b \in AnyStep
    <2>1. NewInode(type) \in InodeRecord
      BY DEF NewInode, InodeRecord
    <2> QED BY <2>1 DEF AnyStep, WriteEntry
  <1>3. c \in AnyStep
    BY DEF AnyStep, CountBy
  <1>4. e \in AnyStep
    BY FirstEntryIsStep
  <1>5. s \in Seq(AnyStep)
    BY PlainIsAny
  <1> HIDE DEF a, b, c
  <1>6. row = Cons(a, Cons(b, Cons(c, Cons(e, s))))
    BY <1>1, <1>2, <1>3, <1>4, <1>5, FourInRow DEF a, b, c
  <1> DEFINE x == Cons(e, s)
  <1>7. x \in Seq(AnyStep) /\ x # << >> /\ Head(x) = e /\ Tail(x) = s
    BY <1>4, <1>5, First
  <1> HIDE DEF x
  <1> DEFINE y == Cons(c, x)
  <1>8. y \in Seq(AnyStep) /\ y # << >> /\ Head(y) = c /\ Tail(y) = x
    BY <1>3, <1>7, First
  <1> HIDE DEF y
  <1> DEFINE z == Cons(b, y)
  <1>9. z \in Seq(AnyStep) /\ z # << >> /\ Head(z) = b /\ Tail(z) = y
    BY <1>2, <1>8, First
  <1> HIDE DEF z
  <1>10. row \in Seq(AnyStep) /\ row # << >> /\ Head(row) = a /\ Tail(row) = z
    <2> DEFINE r == Cons(a, z)
    <2>1. r \in Seq(AnyStep) /\ r # << >> /\ Head(r) = a /\ Tail(r) = z
      BY <1>1, <1>9, First
    <2>2. row = r
      BY <1>6 DEF x, y, z
    <2> HIDE DEF r
    <2> QED BY <2>1, <2>2
  <1>11. AddNew(i, x)
    BY <1>7 DEF AddNew
  <1>12. CountNew(i, y)
    BY <1>8, <1>11 DEF CountNew, c
  <1>13. WriteNew(i, z)
    BY <1>9, <1>12 DEF WriteNew, b, Made
  <1> QED BY <1>10, <1>13 DEF MarkNew, a

LEMMA FreeRow ==
    ASSUME NEW i \in Ino, NEW s, Plain(s),
           NEW row, row = <<WriteEntry(i, FreeInode), Step("unmark", i), CountBy(1)>> \o s
    PROVE  row \in Seq(AnyStep) /\ WriteFreed(i, row)
  <1> DEFINE a == WriteEntry(i, FreeInode)
             b == Step("unmark", i)
             c == CountBy(1)
  <1>1. a \in AnyStep
    <2>1. FreeInode \in InodeRecord
      BY DEF FreeInode, InodeRecord
    <2> QED BY <2>1 DEF AnyStep, WriteEntry
  <1>2. b \in AnyStep
    BY DEF AnyStep, Step
  <1>3. c \in AnyStep
    BY DEF AnyStep, CountBy
  <1>4. s \in Seq(AnyStep)
    BY PlainIsAny
  <1> HIDE DEF a, b, c
  <1>5. row = Cons(a, Cons(b, Cons(c, s)))
    BY <1>1, <1>2, <1>3, <1>4, ThreeInRow DEF a, b, c
  <1> DEFINE x == Cons(c, s)
  <1>6. x \in Seq(AnyStep) /\ x # << >> /\ Head(x) = c /\ Tail(x) = s
    BY <1>3, <1>4, First
  <1> HIDE DEF x
  <1> DEFINE y == Cons(b, x)
  <1>7. y \in Seq(AnyStep) /\ y # << >> /\ Head(y) = b /\ Tail(y) = x
    BY <1>2, <1>6, First
  <1> HIDE DEF y
  <1>8. row \in Seq(AnyStep) /\ row # << >> /\ Head(row) = a /\ Tail(row) = y
    <2> DEFINE r == Cons(a, y)
    <2>1. r \in Seq(AnyStep) /\ r # << >> /\ Head(r) = a /\ Tail(r) = y
      BY <1>1, <1>7, First
    <2>2. row = r
      BY <1>5 DEF x, y
    <2> HIDE DEF r
    <2> QED BY <2>1, <2>2
  <1>9. CountFreed(x)
    BY <1>6 DEF CountFreed, c
  <1>10. UnmarkFreed(i, y)
    BY <1>7, <1>9 DEF UnmarkFreed, b
  <1> QED BY <1>8, <1>10 DEF WriteFreed, a

LEMMA RowOfOne ==
    ASSUME NEW a \in AnyStep, NEW s, Plain(s), NEW row, row = <<a>> \o s
    PROVE  row \in Seq(AnyStep) /\ row # << >> /\ Head(row) = a /\ Tail(row) = s /\ Plain(Tail(row))
  <1>1. s \in Seq(AnyStep)
    BY PlainIsAny
  <1> DEFINE r == Cons(a, s)
  <1>2. r \in Seq(AnyStep) /\ r # << >> /\ Head(r) = a /\ Tail(r) = s
    BY <1>1, First
  <1>3. row = r
    BY DEF Cons
  <1> HIDE DEF r
  <1> QED BY <1>2, <1>3

TwoThen(row, a, b, s) ==
    /\ row \in Seq(AnyStep) /\ row # << >> /\ Head(row) = a
    /\ Tail(row) # << >> /\ Head(Tail(row)) = b /\ Tail(Tail(row)) = s

LEMMA RowOfTwo ==
    ASSUME NEW a \in AnyStep, NEW b \in AnyStep, NEW s \in Seq(AnyStep)
    PROVE  TwoThen(<<a, b>> \o s, a, b, s)
  <1>1. <<a, b>> \o s = Cons(a, Cons(b, s))
    BY TwoInRow
  <1> DEFINE x == Cons(b, s)
  <1>2. x \in Seq(AnyStep) /\ x # << >> /\ Head(x) = b /\ Tail(x) = s
    BY First
  <1> HIDE DEF x
  <1> DEFINE row == Cons(a, x)
  <1>3. row \in Seq(AnyStep) /\ row # << >> /\ Head(row) = a /\ Tail(row) = x
    BY <1>2, First
  <1> HIDE DEF row
  <1>4. TwoThen(row, a, b, s)
    BY <1>2, <1>3 DEF TwoThen
  <1> QED BY <1>1, <1>4 DEF row, x

ThreeThen(row, a, b, c, s) == row # << >> /\ Head(row) = a /\ TwoThen(Tail(row), b, c, s) /\ row \in Seq(AnyStep)

LEMMA RowOfThree ==
    ASSUME NEW a \in AnyStep, NEW b \in AnyStep, NEW c \in AnyStep, NEW s \in Seq(AnyStep)
    PROVE  ThreeThen(<<a, b, c>> \o s, a, b, c, s)
  <1>1. <<a, b, c>> \o s = Cons(a, Cons(b, Cons(c, s))) /\ <<b, c>> \o s = Cons(b, Cons(c, s))
    BY ThreeInRow, TwoInRow
  <1> DEFINE x == Cons(b, Cons(c, s))
  <1>2. x = <<b, c>> \o s
    BY <1>1
  <1>3. TwoThen(<<b, c>> \o s, b, c, s)
    BY RowOfTwo
  <1> HIDE DEF x
  <1>4. TwoThen(x, b, c, s) /\ x \in Seq(AnyStep)
    BY <1>2, <1>3 DEF TwoThen
  <1> DEFINE row == Cons(a, x)
  <1>5. row \in Seq(AnyStep) /\ row # << >> /\ Head(row) = a /\ Tail(row) = x
    BY <1>4, First
  <1> HIDE DEF row
  <1>6. ThreeThen(row, a, b, c, s)
    BY <1>4, <1>5 DEF ThreeThen
  <1> QED BY <1>1, <1>6 DEF row, x

LEMMA PlainRows ==
    ASSUME NEW s, Plain(s)
    PROVE  /\ Plain(<< >>) /\ << >> \o s = s /\ s \o << >> = s
           /\ \A a \in PlainStep : Plain(<<a>> \o s)
           /\ \A a, b \in PlainStep : Plain(<<a, b>> \o s)
           /\ \A t \in Seq(PlainStep) : Plain(t \o s)
  BY DEF Plain

\* What the first step tells of a row.
LEMMA PlainHead ==
    ASSUME NEW s, Plain(s), s # << >>
    PROVE  Head(s).op \in {"truncate", "remember", "save", "closeAll", "halt", "write", "reopen"}
  <1>1. Head(s) \in PlainStep \cup LastStep
    BY PlainIsAny
  <1> QED BY <1>1 DEF PlainStep, LastStep, Step

LEMMA Heads ==
    ASSUME NEW s
    PROVE  /\ Mounting(s) => s # << >> /\ Head(s).op = "resetOpens"
           /\ CountFreed(s) => s # << >> /\ Head(s).op = "count" /\ Head(s).by = 1
           /\ \A i :
                /\ MarkNew(i, s) => s # << >> /\ Head(s).op = "mark" /\ Head(s).ino = i
                /\ WriteNew(i, s) => s # << >> /\ Head(s).op = "table" /\ Head(s).ino = i /\ Head(s).inode # FreeInode
                /\ CountNew(i, s) => s # << >> /\ Head(s).op = "count" /\ Head(s).by = -1
                /\ AddNew(i, s) => s # << >> /\ Head(s).op \in {"add", "init"} /\ Head(s).ino = i
                /\ WriteFreed(i, s) => s # << >> /\ Head(s).op = "table" /\ Head(s).ino = i /\ Head(s).inode = FreeInode
                /\ UnmarkFreed(i, s) => s # << >> /\ Head(s).op = "unmark" /\ Head(s).ino = i
                /\ FreeIt(i, s) => s # << >> /\ Head(s).op = "free" /\ Head(s).ino = i
                /\ AddLink(i, s) => s # << >> /\ Head(s).op = "add" /\ Head(s).ino = i
                /\ CountLink(i, s) => s # << >> /\ Head(s).op = "incLink" /\ Head(s).ino = i
                /\ DropLink(i, s) => s # << >> /\ Head(s).op = "decLink" /\ Head(s).ino = i
                /\ EmptyAndDrop(i, s) => s # << >> /\ Head(s).op = "truncate" /\ Head(s).ino = i
                /\ RemoveAndDrop(i, s) => s # << >> /\ Head(s).op = "remove"
                /\ Opening(i, s) => s # << >> /\ Head(s).op = "incOpen" /\ Head(s).ino = i
                /\ Closing(i, s) => s # << >> /\ Head(s).op = "decOpen" /\ Head(s).ino = i
                /\ Passing(i, s) => s # << >> /\ Head(s).op = "incOpen" /\ Head(s).ino = i
  <1>1. ASSUME NEW i, AddNew(i, s)
        PROVE  s # << >> /\ Head(s).op \in {"add", "init"} /\ Head(s).ino = i
    BY <1>1 DEF AddNew, FirstEntry, AddStep, InitStep
  <1>2. ASSUME NEW i, WriteNew(i, s)
        PROVE  s # << >> /\ Head(s).op = "table" /\ Head(s).ino = i /\ Head(s).inode # FreeInode
    BY <1>2 DEF WriteNew, WriteEntry, Made, NewInode, FreeInode
  <1>3. Mounting(s) => s # << >> /\ Head(s).op = "resetOpens"
    BY DEF Mounting, Step
  <1>4. CountFreed(s) => s # << >> /\ Head(s).op = "count" /\ Head(s).by = 1
    BY DEF CountFreed, CountBy
  <1>5. ASSUME NEW i
        PROVE  /\ MarkNew(i, s) => s # << >> /\ Head(s).op = "mark" /\ Head(s).ino = i
               /\ CountNew(i, s) => s # << >> /\ Head(s).op = "count" /\ Head(s).by = -1
               /\ WriteFreed(i, s) => s # << >> /\ Head(s).op = "table" /\ Head(s).ino = i /\ Head(s).inode = FreeInode
               /\ UnmarkFreed(i, s) => s # << >> /\ Head(s).op = "unmark" /\ Head(s).ino = i
               /\ FreeIt(i, s) => s # << >> /\ Head(s).op = "free" /\ Head(s).ino = i
    BY DEF MarkNew, CountNew, WriteFreed, UnmarkFreed, FreeIt, Step, CountBy, WriteEntry
  <1>6. ASSUME NEW i
        PROVE  /\ AddLink(i, s) => s # << >> /\ Head(s).op = "add" /\ Head(s).ino = i
               /\ CountLink(i, s) => s # << >> /\ Head(s).op = "incLink" /\ Head(s).ino = i
               /\ DropLink(i, s) => s # << >> /\ Head(s).op = "decLink" /\ Head(s).ino = i
               /\ EmptyAndDrop(i, s) => s # << >> /\ Head(s).op = "truncate" /\ Head(s).ino = i
               /\ RemoveAndDrop(i, s) => s # << >> /\ Head(s).op = "remove"
    BY DEF AddLink, CountLink, DropLink, EmptyAndDrop, RemoveAndDrop, Step, AddStep
  <1>7. ASSUME NEW i
        PROVE  /\ Opening(i, s) => s # << >> /\ Head(s).op = "incOpen" /\ Head(s).ino = i
               /\ Closing(i, s) => s # << >> /\ Head(s).op = "decOpen" /\ Head(s).ino = i
               /\ Passing(i, s) => s # << >> /\ Head(s).op = "incOpen" /\ Head(s).ino = i
    BY DEF Opening, Closing, Passing, Step
  <1> QED BY <1>1, <1>2, <1>3, <1>4, <1>5, <1>6, <1>7

LEMMA NewOrLinked ==
    ASSUME NEW s, NEW i, AddNew(i, s), NEW j, AddLink(j, s)
    PROVE  FALSE
  <1>1. PICK then \in Seq(PlainStep) : Head(s).then = then
    BY DEF AddNew, FirstEntry, AddLink, AddStep, InitStep
  <1>2. Head(s).then = <<Step("incLink", j)>>
    BY DEF AddLink, AddStep
  <1>3. then = <<Step("incLink", j)>>
    BY <1>1, <1>2
  <1>4. then[1] \in PlainStep /\ then[1].op = "incLink"
    BY <1>3 DEF Step
  <1> QED BY <1>4 DEF PlainStep

LEMMA Kinds ==
    ASSUME NEW s, Shape(s), s # << >>
    PROVE  LET o == Head(s).op
               i == Head(s).ino
           IN  /\ o = "mark" => i \in Ino \ {Root} /\ MarkNew(i, s)
               /\ o = "table" => i \in Ino \ {Root} /\ (WriteNew(i, s) \/ WriteFreed(i, s))
               /\ o = "count" => CountFreed(s) \/ \E j \in Ino \ {Root} : CountNew(j, s)
               /\ o = "init" => i \in Ino \ {Root} /\ AddNew(i, s)
               /\ o = "add" => i \in Ino \ {Root} /\ (AddNew(i, s) \/ AddLink(i, s))
               /\ o = "free" => i \in Ino \ {Root} /\ FreeIt(i, s)
               /\ o = "unmark" => i \in Ino \ {Root} /\ UnmarkFreed(i, s)
               /\ o = "incLink" => i \in Ino \ {Root} /\ CountLink(i, s)
               /\ o = "decLink" => i \in Ino \ {Root} /\ DropLink(i, s)
               /\ o = "remove" => \E j \in Ino \ {Root} : RemoveAndDrop(j, s)
               /\ o = "truncate" => Plain(s) \/ (i \in Ino \ {Root} /\ EmptyAndDrop(i, s))
               /\ o = "incOpen" => i \in Ino /\ (Opening(i, s) \/ Passing(i, s))
               /\ o = "decOpen" => i \in Ino /\ Closing(i, s)
               /\ o = "resetOpens" => Mounting(s)
               /\ o \in {"write", "reopen", "save", "remember", "closeAll", "halt"} => Plain(s)
  <1>1. CASE Plain(s)
    BY <1>1, PlainHead
  <1>2. CASE Mounting(s) \/ CountFreed(s)
    BY <1>2, Heads
  <1>3. ASSUME NEW i \in Ino, Opening(i, s) \/ Passing(i, s) \/ Closing(i, s)
        PROVE  \/ Head(s).op = "incOpen" /\ Head(s).ino = i /\ (Opening(i, s) \/ Passing(i, s))
               \/ Head(s).op = "decOpen" /\ Head(s).ino = i /\ Closing(i, s)
    BY <1>3, Heads
  <1>4. ASSUME NEW i \in Ino \ {Root},
               MarkNew(i, s) \/ Making(i, s) \/ Freeing(i, s) \/ UnmarkFreed(i, s)
        PROVE  \/ Head(s).op = "mark" /\ Head(s).ino = i /\ MarkNew(i, s)
               \/ Head(s).op = "table" /\ Head(s).ino = i /\ (WriteNew(i, s) \/ WriteFreed(i, s))
               \/ Head(s).op = "count" /\ CountNew(i, s)
               \/ Head(s).op \in {"add", "init"} /\ Head(s).ino = i /\ AddNew(i, s)
               \/ Head(s).op = "free" /\ Head(s).ino = i /\ FreeIt(i, s)
               \/ Head(s).op = "unmark" /\ Head(s).ino = i /\ UnmarkFreed(i, s)
    BY <1>4, Heads DEF Making, Freeing
  <1>5. ASSUME NEW i \in Ino \ {Root},
               AddLink(i, s) \/ CountLink(i, s) \/ RemoveAndDrop(i, s) \/ Dropping(i, s)
        PROVE  \/ Head(s).op = "add" /\ Head(s).ino = i /\ AddLink(i, s)
               \/ Head(s).op = "incLink" /\ Head(s).ino = i /\ CountLink(i, s)
               \/ Head(s).op = "remove" /\ RemoveAndDrop(i, s)
               \/ Head(s).op = "decLink" /\ Head(s).ino = i /\ DropLink(i, s)
               \/ Head(s).op = "truncate" /\ Head(s).ino = i /\ EmptyAndDrop(i, s)
    BY <1>5, Heads DEF Dropping
  <1>6. CASE \E i \in Ino : Opening(i, s) \/ Passing(i, s) \/ Closing(i, s)
    BY <1>3, <1>6
  <1>7. CASE \E i \in Ino \ {Root} : MarkNew(i, s) \/ Making(i, s) \/ Freeing(i, s) \/ UnmarkFreed(i, s)
    BY <1>4, <1>7
  <1>8. CASE \E i \in Ino \ {Root} : AddLink(i, s) \/ CountLink(i, s) \/ RemoveAndDrop(i, s) \/ Dropping(i, s)
    BY <1>5, <1>8
  <1> QED BY <1>1, <1>2, <1>6, <1>7, <1>8 DEF Shape

-----------------------------------------------------------------------------
(***************************************************************************)
(* The state is well formed                                                *)
(***************************************************************************)

Types ==
    /\ table \in [Ino -> InodeRecord]
    /\ used \subseteq Ino
    /\ freeInodes \in Int
    /\ content \in [Ino -> [Slot -> Piece]]
    /\ todo \in Seq(AnyStep)
    /\ running \in BOOLEAN
    /\ fds \in [Fd -> Ino \cup {None}]
    /\ store \in Ino
    /\ calls \in 0..MaxCalls
    /\ crashes \in 0..MaxCrashes
    /\ uncounted \subseteq Ino
    /\ lost \subseteq Ino

RootKept == Root \in used /\ table[Root].type = "dir" /\ table[Root].links = 2

Stages ==
    /\ ~running => todo = << >> /\ fds = NoFds
    /\ Mounting(todo) => fds = NoFds
    /\ CountFreed(todo) => used # Ino
    /\ \A i \in Ino :
         /\ MarkNew(i, todo) => i \notin used
         /\ WriteNew(i, todo) => i \in used /\ table[i] = FreeInode
         /\ CountNew(i, todo) \/ AddNew(i, todo) => i \in used /\ table[i] \in Made
         /\ WriteFreed(i, todo) => i \in used
         /\ UnmarkFreed(i, todo) => i \in used /\ table[i] = FreeInode
         /\ AddLink(i, todo) => table[i].type # "dir"
         /\ RemoveAndDrop(i, todo) =>
              LET d == Head(todo).dir
                  n == Head(todo).name
              IN  Matching(d, n) # {} /\ content[d][Found(d, n)].ino = i

WellFormed == Types /\ Shape(todo) /\ Stages /\ RootKept /\ InUseIsMarked

LEMMA TodoTail ==
    ASSUME Types, todo # << >>
    PROVE  /\ Tail(todo) \in Seq(AnyStep) /\ Head(todo) \in AnyStep
           /\ Then(<< >>) => todo' = Tail(todo)
  <1>1. Tail(todo) \in Seq(AnyStep) /\ Head(todo) \in AnyStep
    BY HeadTailProperties DEF Types
  <1> QED BY <1>1 DEF Then

LEMMA WorkRuns ==
    ASSUME Stages, todo # << >>
    PROVE  running
  BY DEF Stages

\* A row of plain steps asks nothing of the state.
LEMMA StagesOfPlain ==
    ASSUME NEW s, Plain(s)
    PROVE  /\ ~Mounting(s) /\ ~CountFreed(s)
           /\ \A i : /\ ~MarkNew(i, s) /\ ~WriteNew(i, s) /\ ~CountNew(i, s) /\ ~AddNew(i, s)
                     /\ ~WriteFreed(i, s) /\ ~UnmarkFreed(i, s) /\ ~AddLink(i, s) /\ ~RemoveAndDrop(i, s)
                     /\ ~FreeIt(i, s) /\ ~CountLink(i, s) /\ ~DropLink(i, s) /\ ~EmptyAndDrop(i, s)
                     /\ ~Opening(i, s) /\ ~Closing(i, s) /\ ~Passing(i, s)
  <1>1. CASE s = << >>
    BY <1>1, Heads
  <1>2. CASE s # << >>
    <2>1. Head(s).op \in {"truncate", "remember", "save", "closeAll", "halt", "write", "reopen"}
      BY <1>2, PlainHead
    <2>2. ASSUME NEW i, EmptyAndDrop(i, s) PROVE FALSE
      <3>1. Plain(Tail(s)) /\ Tail(s) # << >> /\ Head(Tail(s)).op = "decLink"
        BY <1>2, <2>2, PlainIsAny DEF EmptyAndDrop, DropLink, Step
      <3> QED BY <3>1, PlainHead
    <2> QED BY <2>1, <2>2, Heads
  <1> QED BY <1>1, <1>2

\* A row of plain steps is well formed, whatever comes before it.
LEMMA PlainFits ==
    ASSUME Plain(todo'), Types', ~running' => todo' = << >> /\ fds' = NoFds, RootKept', InUseIsMarked'
    PROVE  WellFormed'
  <1>1. Shape(todo')
    BY DEF Shape
  <1>2. Stages'
    BY StagesOfPlain DEF Stages
  <1> QED BY <1>1, <1>2 DEF WellFormed

LEMMA MarkFits ==
    ASSUME WellFormed, Mark, UNCHANGED <<running, fds, store, calls, crashes, uncounted>>, lost' \subseteq Ino
    PROVE  WellFormed' /\ WriteNew(Head(todo).ino, todo')
  <1> DEFINE i == Head(todo).ino
  <1>1. todo # << >> /\ i \in Ino \ {Root} /\ MarkNew(i, todo) /\ todo' = Tail(todo)
    BY Kinds, TodoTail DEF WellFormed, Mark, Doing
  <1>2. WriteNew(i, todo')
    BY <1>1 DEF MarkNew
  <1>3. Types'
    BY <1>1, TodoTail DEF WellFormed, Mark, Types
  <1>4. Shape(todo')
    BY <1>1, <1>2 DEF Shape, Making
  <1>5. i \notin used /\ table[i] = FreeInode
    BY <1>1 DEF WellFormed, Stages, InUseIsMarked
  <1>6. used' = used \cup {i} /\ table' = table /\ content' = content
    BY DEF Mark
  <1>7. Stages'
    <2>1. /\ ~Mounting(todo') /\ ~CountFreed(todo')
          /\ \A j : /\ ~MarkNew(j, todo') /\ ~CountNew(j, todo') /\ ~AddNew(j, todo')
                    /\ ~WriteFreed(j, todo') /\ ~UnmarkFreed(j, todo') /\ ~AddLink(j, todo') /\ ~RemoveAndDrop(j, todo')
                    /\ WriteNew(j, todo') => j = i
      <3>1. /\ ~Mounting(todo') /\ ~CountFreed(todo')
            /\ \A j : /\ ~MarkNew(j, todo') /\ ~CountNew(j, todo') /\ ~AddNew(j, todo')
                      /\ ~UnmarkFreed(j, todo') /\ ~AddLink(j, todo') /\ ~RemoveAndDrop(j, todo')
        BY <1>2, Heads
      <3>2. \A j : ~WriteFreed(j, todo') /\ (WriteNew(j, todo') => j = i)
        BY <1>2, Heads
      <3> QED BY <3>1, <3>2
    <2>2. running' /\ running
      BY <1>1, WorkRuns DEF WellFormed
    <2> QED BY <1>5, <1>6, <2>1, <2>2 DEF Stages
  <1>8. RootKept' /\ InUseIsMarked'
    BY <1>6 DEF WellFormed, RootKept, InUseIsMarked
  <1> QED BY <1>2, <1>3, <1>4, <1>7, <1>8 DEF WellFormed

LEMMA WriteTableFits ==
    ASSUME WellFormed, WriteTable, UNCHANGED <<running, fds, store, calls, crashes, uncounted>>, lost' \subseteq Ino
    PROVE  /\ WellFormed'
           /\ \/ WriteNew(Head(todo).ino, todo) /\ CountNew(Head(todo).ino, todo')
              \/ WriteFreed(Head(todo).ino, todo) /\ UnmarkFreed(Head(todo).ino, todo')
  <1> DEFINE i == Head(todo).ino
             inode == Head(todo).inode
  <1>1. /\ todo # << >> /\ i \in Ino \ {Root} /\ (WriteNew(i, todo) \/ WriteFreed(i, todo))
        /\ todo' = Tail(todo) /\ running
    BY Kinds, TodoTail, WorkRuns DEF WellFormed, WriteTable, Doing
  <1>2. /\ table' = [table EXCEPT ![i] = inode] /\ used' = used /\ content' = content /\ freeInodes' = freeInodes
        /\ table \in [Ino -> InodeRecord] /\ i \in used
    BY <1>1 DEF WriteTable, WellFormed, Types, Stages
  <1>3. CASE WriteNew(i, todo)
    <2>1. CountNew(i, todo') /\ inode \in Made
      BY <1>1, <1>3 DEF WriteNew, WriteEntry
    <2>2. Types'
      <3>1. inode \in InodeRecord
        BY <2>1 DEF Made, NewInode, InodeRecord
      <3> QED BY <1>1, <1>2, <3>1, TodoTail DEF WellFormed, Types
    <2>3. Shape(todo')
      BY <1>1, <2>1 DEF Shape, Making
    <2>4. Stages'
      <3>1. /\ ~Mounting(todo') /\ ~CountFreed(todo')
            /\ \A j : /\ ~MarkNew(j, todo') /\ ~WriteNew(j, todo') /\ ~AddNew(j, todo')
                      /\ ~WriteFreed(j, todo') /\ ~UnmarkFreed(j, todo') /\ ~AddLink(j, todo') /\ ~RemoveAndDrop(j, todo')
        BY <2>1, Heads
      <3>2. ASSUME NEW j \in Ino, CountNew(j, todo')
            PROVE  j = i
        <4>1. Head(Tail(todo')).ino = i /\ Head(Tail(todo')).ino = j
          BY <2>1, <3>2, Heads DEF CountNew
        <4> QED BY <4>1
      <3>3. table'[i] = inode
        BY <1>1, <1>2
      <3> QED BY <1>1, <1>2, <2>1, <3>1, <3>2, <3>3 DEF Stages
    <2>5. RootKept' /\ InUseIsMarked'
      BY <1>1, <1>2 DEF WellFormed, RootKept, InUseIsMarked
    <2> QED BY <1>3, <2>1, <2>2, <2>3, <2>4, <2>5 DEF WellFormed
  <1>4. CASE WriteFreed(i, todo)
    <2>1. UnmarkFreed(i, todo') /\ inode = FreeInode
      BY <1>1, <1>4 DEF WriteFreed, WriteEntry
    <2>2. Types'
      <3>1. inode \in InodeRecord
        BY <2>1 DEF FreeInode, InodeRecord
      <3> QED BY <1>1, <1>2, <3>1, TodoTail DEF WellFormed, Types
    <2>3. Shape(todo')
      BY <1>1, <2>1 DEF Shape
    <2>4. Stages'
      <3>1. /\ ~Mounting(todo') /\ ~CountFreed(todo')
            /\ \A j : /\ ~MarkNew(j, todo') /\ ~WriteNew(j, todo') /\ ~CountNew(j, todo') /\ ~AddNew(j, todo')
                      /\ ~WriteFreed(j, todo') /\ ~AddLink(j, todo') /\ ~RemoveAndDrop(j, todo')
                      /\ UnmarkFreed(j, todo') => j = i
        <4>1. /\ ~Mounting(todo') /\ ~CountFreed(todo')
              /\ \A j : /\ ~MarkNew(j, todo') /\ ~WriteNew(j, todo') /\ ~CountNew(j, todo') /\ ~AddNew(j, todo')
                        /\ ~WriteFreed(j, todo') /\ ~AddLink(j, todo') /\ ~RemoveAndDrop(j, todo')
          BY <2>1, Heads
        <4>2. \A j : UnmarkFreed(j, todo') => j = i
          BY <2>1, Heads
        <4> QED BY <4>1, <4>2
      <3>2. table'[i] = FreeInode
        BY <1>1, <1>2, <2>1
      <3> QED BY <1>1, <1>2, <3>1, <3>2 DEF Stages
    <2>5. RootKept' /\ InUseIsMarked'
      BY <1>1, <1>2 DEF WellFormed, RootKept, InUseIsMarked
    <2> QED BY <1>4, <2>1, <2>2, <2>3, <2>4, <2>5 DEF WellFormed
  <1> QED BY <1>1, <1>3, <1>4

LEMMA CountFits ==
    ASSUME WellFormed, Count, UNCHANGED <<running, fds, store, calls, crashes, uncounted>>, lost' \subseteq Ino
    PROVE  /\ WellFormed'
           /\ \/ CountFreed(todo) /\ Plain(todo')
              \/ \E i \in Ino \ {Root} : CountNew(i, todo) /\ AddNew(i, todo')
  <1>1. /\ todo # << >> /\ (CountFreed(todo) \/ \E i \in Ino \ {Root} : CountNew(i, todo))
        /\ todo' = Tail(todo) /\ running
    BY Kinds, TodoTail, WorkRuns DEF WellFormed, Count, Doing
  <1>2. Types'
    <2>1. Head(todo).by \in {-1, 1}
      BY <1>1, Heads
    <2> QED BY <1>1, <2>1, TodoTail DEF WellFormed, Types, Count
  <1>3. RootKept' /\ InUseIsMarked'
    BY DEF Count, WellFormed, RootKept, InUseIsMarked
  <1>4. CASE CountFreed(todo)
    <2>1. Plain(todo')
      BY <1>1, <1>4 DEF CountFreed
    <2> QED BY <1>1, <1>2, <1>3, <1>4, <2>1, PlainFits
  <1>5. ASSUME NEW i \in Ino \ {Root}, CountNew(i, todo)
        PROVE  WellFormed' /\ AddNew(i, todo')
    <2>1. AddNew(i, todo')
      BY <1>1, <1>5 DEF CountNew
    <2>2. Shape(todo')
      BY <2>1 DEF Shape, Making
    <2>3. i \in used /\ table[i] \in Made
      BY <1>5 DEF WellFormed, Stages
    <2>4. Stages'
      <3>1. /\ ~Mounting(todo') /\ ~CountFreed(todo')
            /\ \A j : /\ ~MarkNew(j, todo') /\ ~WriteNew(j, todo') /\ ~CountNew(j, todo')
                      /\ ~WriteFreed(j, todo') /\ ~UnmarkFreed(j, todo') /\ ~RemoveAndDrop(j, todo')
                      /\ AddNew(j, todo') => j = i
        BY <2>1, Heads
      <3>2. ASSUME NEW j, AddLink(j, todo')
            PROVE  FALSE
        BY <2>1, <3>2, NewOrLinked
      <3> QED BY <1>1, <2>3, <3>1, <3>2 DEF Stages, Count
    <2> QED BY <1>2, <1>3, <2>1, <2>2, <2>4 DEF WellFormed
  <1> QED BY <1>1, <1>4, <1>5

LEMMA FreeFits ==
    ASSUME WellFormed, Free, UNCHANGED <<running, fds, store, calls, crashes, uncounted>>, lost' \subseteq Ino
    PROVE  WellFormed' /\ FreeIt(Head(todo).ino, todo) /\ WriteFreed(Head(todo).ino, todo')
  <1> DEFINE i == Head(todo).ino
  <1>1. todo # << >> /\ i \in Ino \ {Root} /\ FreeIt(i, todo) /\ running /\ i \in used
    BY Kinds, WorkRuns DEF WellFormed, Free, Doing, Valid
  <1>2. Plain(Tail(todo))
    BY <1>1 DEF FreeIt
  <1>3. todo' \in Seq(AnyStep) /\ WriteFreed(i, todo')
    BY <1>1, <1>2, FreeRow DEF Free, Then
  <1>4. content' = [content EXCEPT ![i] = Empty] /\ UNCHANGED <<table, used, freeInodes>>
    BY DEF Free
  <1>5. Types'
    <2>1. Empty \in [Slot -> Piece]
      BY DEF Empty, Piece
    <2> QED BY <1>1, <1>3, <1>4, <2>1 DEF WellFormed, Types
  <1>6. Shape(todo')
    BY <1>1, <1>3 DEF Shape, Freeing
  <1>7. Stages'
    <2>1. /\ ~Mounting(todo') /\ ~CountFreed(todo')
          /\ \A j : /\ ~MarkNew(j, todo') /\ ~WriteNew(j, todo') /\ ~CountNew(j, todo') /\ ~AddNew(j, todo')
                    /\ ~UnmarkFreed(j, todo') /\ ~AddLink(j, todo') /\ ~RemoveAndDrop(j, todo')
                    /\ WriteFreed(j, todo') => j = i
      BY <1>3, Heads
    <2> QED BY <1>1, <1>4, <2>1 DEF Stages
  <1>8. RootKept' /\ InUseIsMarked'
    <2>1. \A s \in Slot : Empty[s].kind # "entry"
      BY DEF Empty, Nothing
    <2> QED BY <1>4, <2>1 DEF WellFormed, RootKept, InUseIsMarked, Types
  <1> QED BY <1>1, <1>3, <1>5, <1>6, <1>7, <1>8 DEF WellFormed

LEMMA UnmarkFits ==
    ASSUME WellFormed, Unmark, UNCHANGED <<running, fds, store, calls, crashes, uncounted>>, lost' \subseteq Ino
    PROVE  WellFormed' /\ UnmarkFreed(Head(todo).ino, todo) /\ CountFreed(todo')
  <1> DEFINE i == Head(todo).ino
  <1>1. /\ todo # << >> /\ i \in Ino \ {Root} /\ UnmarkFreed(i, todo) /\ running
        /\ todo' = Tail(todo) /\ table[i] = FreeInode
    BY Kinds, WorkRuns, TodoTail DEF WellFormed, Unmark, Doing, Stages
  <1>2. CountFreed(todo')
    BY <1>1 DEF UnmarkFreed
  <1>3. used' = used \ {i} /\ UNCHANGED <<table, content, freeInodes>>
    BY DEF Unmark
  <1>4. Types'
    BY <1>1, <1>3, TodoTail DEF WellFormed, Types
  <1>5. Stages'
    <2>1. /\ ~Mounting(todo')
          /\ \A j : /\ ~MarkNew(j, todo') /\ ~WriteNew(j, todo') /\ ~CountNew(j, todo') /\ ~AddNew(j, todo')
                    /\ ~WriteFreed(j, todo') /\ ~UnmarkFreed(j, todo') /\ ~AddLink(j, todo') /\ ~RemoveAndDrop(j, todo')
      BY <1>2, Heads
    <2> QED BY <1>1, <1>3, <2>1 DEF Stages
  <1>6. RootKept' /\ InUseIsMarked'
    BY <1>1, <1>3 DEF WellFormed, RootKept, InUseIsMarked
  <1> QED BY <1>1, <1>2, <1>4, <1>5, <1>6 DEF WellFormed, Shape

\* What writes counts into the entry of an inode that the bitmap has.
LEMMA CountsFit ==
    ASSUME WellFormed, NEW i \in Ino, i \in used, NEW inode \in InodeRecord,
           inode.type = table[i].type, i = Root => inode.links = 2,
           table' = [table EXCEPT ![i] = inode], UNCHANGED <<used, content>>
    PROVE  RootKept' /\ InUseIsMarked' /\ table' \in [Ino -> InodeRecord]
  BY DEF WellFormed, Types, RootKept, InUseIsMarked

LEMMA WriteOrFreeFits ==
    ASSUME WellFormed, NEW i \in Ino, i \in used, NEW inode \in InodeRecord,
           inode.type = table[i].type, i = Root => inode.links = 2,
           WriteOrFree(i, inode), todo # << >>, Plain(Tail(todo)), running,
           UNCHANGED <<running, fds, store, calls, crashes, uncounted>>, lost' \subseteq Ino
    PROVE  WellFormed' /\ IF inode.links = 0 /\ inode.opens = 0 THEN FreeIt(i, todo') ELSE Plain(todo')
  <1>1. CASE inode.links = 0 /\ inode.opens = 0
    <2>1. todo' = <<Step("free", i)>> \o Tail(todo) /\ UNCHANGED <<table, used, freeInodes, content>>
      BY <1>1 DEF WriteOrFree, Then
    <2>2. Step("free", i) \in AnyStep
      BY DEF AnyStep, Step
    <2>3. todo' \in Seq(AnyStep) /\ FreeIt(i, todo')
      BY <2>1, <2>2, RowOfOne DEF FreeIt
    <2>4. i \in Ino \ {Root}
      BY <1>1
    <2>5. Types'
      BY <2>1, <2>3 DEF WellFormed, Types
    <2>6. Stages'
      <3>1. /\ ~Mounting(todo') /\ ~CountFreed(todo')
            /\ \A j : /\ ~MarkNew(j, todo') /\ ~WriteNew(j, todo') /\ ~CountNew(j, todo') /\ ~AddNew(j, todo')
                      /\ ~WriteFreed(j, todo') /\ ~UnmarkFreed(j, todo') /\ ~AddLink(j, todo') /\ ~RemoveAndDrop(j, todo')
        BY <2>3, Heads
      <3> QED BY <3>1 DEF Stages
    <2>7. RootKept' /\ InUseIsMarked'
      BY <2>1 DEF WellFormed, RootKept, InUseIsMarked
    <2>8. Shape(todo')
      BY <2>3, <2>4 DEF Shape, Freeing
    <2> QED BY <1>1, <2>3, <2>5, <2>6, <2>7, <2>8 DEF WellFormed
  <1>2. CASE ~(inode.links = 0 /\ inode.opens = 0)
    <2>1. todo' = Tail(todo) /\ table' = [table EXCEPT ![i] = inode] /\ UNCHANGED <<used, freeInodes, content>>
      BY <1>2, TodoTail DEF WriteOrFree, WellFormed
    <2>2. Types' /\ RootKept' /\ InUseIsMarked'
      BY <2>1, CountsFit, TodoTail DEF WellFormed, Types
    <2> QED BY <1>2, <2>1, <2>2, PlainFits
  <1> QED BY <1>1, <1>2

LEMMA IncLinkFits ==
    ASSUME WellFormed, IncLink, UNCHANGED <<running, fds, store, calls, crashes, uncounted>>, lost' \subseteq Ino
    PROVE  WellFormed' /\ CountLink(Head(todo).ino, todo) /\ Plain(todo')
  <1> DEFINE i == Head(todo).ino
             inode == [table[i] EXCEPT !.links = @ + 1]
  <1>1. /\ todo # << >> /\ i \in Ino \ {Root} /\ CountLink(i, todo) /\ running /\ i \in used
        /\ todo' = Tail(todo) /\ Plain(todo')
    BY Kinds, WorkRuns, TodoTail DEF WellFormed, IncLink, Doing, Valid, CountLink
  <1>2. inode \in InodeRecord /\ inode.type = table[i].type
    <2>1. table[i] \in InodeRecord
      BY <1>1 DEF WellFormed, Types
    <2> QED BY <2>1 DEF InodeRecord
  <1>3. table' = [table EXCEPT ![i] = inode] /\ UNCHANGED <<used, freeInodes, content>>
    BY <1>1 DEF IncLink, WellFormed, Types
  <1>4. RootKept' /\ InUseIsMarked' /\ table' \in [Ino -> InodeRecord]
    BY <1>1, <1>2, <1>3, CountsFit
  <1>5. Types'
    BY <1>1, <1>3, <1>4, TodoTail DEF WellFormed, Types
  <1> QED BY <1>1, <1>4, <1>5, PlainFits

LEMMA LessIsNat ==
    ASSUME NEW n \in Nat
    PROVE  Less(n) \in Nat /\ Less(n) <= n /\ (n > 0 => Less(n) = n - 1) /\ (n = 0 => Less(n) = 0)
  BY DEF Less

LEMMA DecLinkFits ==
    ASSUME WellFormed, DecLink, UNCHANGED <<running, fds, store, calls, crashes, uncounted>>, lost' \subseteq Ino
    PROVE  /\ WellFormed'
           /\ DropLink(Head(todo).ino, todo)
           /\ IF Less(table[Head(todo).ino].links) = 0 /\ table[Head(todo).ino].opens = 0
              THEN FreeIt(Head(todo).ino, todo') ELSE Plain(todo')
  <1> DEFINE i == Head(todo).ino
             inode == [table[i] EXCEPT !.links = Less(@)]
  <1>1. todo # << >> /\ i \in Ino \ {Root} /\ running /\ i \in used /\ DropLink(i, todo) /\ Plain(Tail(todo))
    BY Kinds, WorkRuns DEF WellFormed, DecLink, Doing, Valid, DropLink
  <1>2. inode \in InodeRecord /\ inode.type = table[i].type /\ inode.links = Less(table[i].links) /\ inode.opens = table[i].opens
    <2>1. table[i] \in InodeRecord
      BY <1>1 DEF WellFormed, Types
    <2> QED BY <2>1, LessIsNat DEF InodeRecord
  <1>3. WriteOrFree(i, inode)
    BY DEF DecLink
  <1> QED BY <1>1, <1>2, <1>3, WriteOrFreeFits

LEMMA IncOpenFits ==
    ASSUME WellFormed, IncOpen, UNCHANGED <<running, fds, store, calls, crashes, uncounted>>, lost' \subseteq Ino
    PROVE  /\ WellFormed'
           /\ \/ Opening(Head(todo).ino, todo) /\ Plain(todo')
              \/ Passing(Head(todo).ino, todo) /\ Closing(Head(todo).ino, todo')
  <1> DEFINE i == Head(todo).ino
             inode == [table[i] EXCEPT !.opens = @ + 1]
  <1>1. /\ todo # << >> /\ i \in Ino /\ (Opening(i, todo) \/ Passing(i, todo)) /\ running /\ i \in used
        /\ todo' = Tail(todo)
    BY Kinds, WorkRuns, TodoTail DEF WellFormed, IncOpen, Doing, Valid
  <1>2. inode \in InodeRecord /\ inode.type = table[i].type /\ inode.links = table[i].links
    <2>1. table[i] \in InodeRecord
      BY <1>1 DEF WellFormed, Types
    <2> QED BY <2>1 DEF InodeRecord
  <1>3. table' = [table EXCEPT ![i] = inode] /\ UNCHANGED <<used, freeInodes, content>>
    BY <1>1 DEF IncOpen, WellFormed, Types
  <1>4. RootKept' /\ InUseIsMarked' /\ table' \in [Ino -> InodeRecord]
    <2>1. i = Root => inode.links = 2
      BY <1>2 DEF WellFormed, RootKept
    <2> QED BY <1>1, <1>2, <1>3, <2>1, CountsFit
  <1>5. Types'
    BY <1>1, <1>3, <1>4, TodoTail DEF WellFormed, Types
  <1>6. CASE Opening(i, todo)
    BY <1>1, <1>4, <1>5, <1>6, PlainFits DEF Opening
  <1>7. CASE Passing(i, todo)
    <2>1. Closing(i, todo')
      BY <1>1, <1>7 DEF Passing
    <2>2. Stages'
      <3>1. /\ ~Mounting(todo') /\ ~CountFreed(todo')
            /\ \A j : /\ ~MarkNew(j, todo') /\ ~WriteNew(j, todo') /\ ~CountNew(j, todo') /\ ~AddNew(j, todo')
                      /\ ~WriteFreed(j, todo') /\ ~UnmarkFreed(j, todo') /\ ~AddLink(j, todo') /\ ~RemoveAndDrop(j, todo')
        BY <2>1, Heads
      <3> QED BY <1>1, <3>1 DEF Stages
    <2>3. Shape(todo')
      BY <1>1, <2>1 DEF Shape
    <2> QED BY <1>4, <1>5, <1>7, <2>1, <2>2, <2>3 DEF WellFormed
  <1> QED BY <1>1, <1>6, <1>7

LEMMA DecOpenFits ==
    ASSUME WellFormed, DecOpen, UNCHANGED <<running, fds, store, calls, crashes, uncounted>>, lost' \subseteq Ino
    PROVE  /\ WellFormed'
           /\ Closing(Head(todo).ino, todo)
           /\ IF table[Head(todo).ino].links = 0 /\ Less(table[Head(todo).ino].opens) = 0
              THEN FreeIt(Head(todo).ino, todo') ELSE Plain(todo')
  <1> DEFINE i == Head(todo).ino
             inode == [table[i] EXCEPT !.opens = Less(@)]
  <1>1. todo # << >> /\ i \in Ino /\ running /\ i \in used /\ Closing(i, todo) /\ Plain(Tail(todo))
    BY Kinds, WorkRuns DEF WellFormed, DecOpen, Doing, Valid, Closing
  <1>2. inode \in InodeRecord /\ inode.type = table[i].type /\ inode.links = table[i].links /\ inode.opens = Less(table[i].opens)
    <2>1. table[i] \in InodeRecord
      BY <1>1 DEF WellFormed, Types
    <2> QED BY <2>1, LessIsNat DEF InodeRecord
  <1>3. WriteOrFree(i, inode)
    BY DEF DecOpen
  <1>4. i = Root => inode.links = 2
    BY <1>2 DEF WellFormed, RootKept
  <1> QED BY <1>1, <1>2, <1>3, <1>4, WriteOrFreeFits

LEMMA ResetOpenCountsFits ==
    ASSUME WellFormed, ResetOpenCounts, UNCHANGED <<running, fds, store, calls, crashes, uncounted>>, lost' \subseteq Ino
    PROVE  WellFormed' /\ Mounting(todo) /\ Plain(todo')
  <1>1. todo # << >> /\ Mounting(todo) /\ todo' = Tail(todo) /\ running
    BY Kinds, WorkRuns, TodoTail DEF WellFormed, ResetOpenCounts, Doing
  <1>2. Plain(todo')
    BY <1>1 DEF Mounting
  <1>3. UNCHANGED <<used, freeInodes, content>>
    BY DEF ResetOpenCounts
  <1>4. /\ table' \in [Ino -> InodeRecord]
        /\ \A i \in Ino : /\ table'[i].type = table[i].type /\ table'[i].links = table[i].links
                          /\ i \notin used => table'[i] = table[i]
    BY DEF ResetOpenCounts, WellFormed, Types, InodeRecord, Valid
  <1>5. Types'
    BY <1>1, <1>3, <1>4, TodoTail DEF WellFormed, Types
  <1>6. RootKept' /\ InUseIsMarked'
    BY <1>3, <1>4 DEF WellFormed, RootKept, InUseIsMarked, Types
  <1> QED BY <1>1, <1>2, <1>5, <1>6, PlainFits

LEMMA SlotOf ==
    ASSUME NEW S \in SUBSET Slot, S # {}
    PROVE  Min(S) \in S /\ Min(S) \in Slot
  <1>1. S \subseteq Nat
    BY InodesAssumption DEF Slot
  <1>2. Min(S) \in S
    BY <1>1, MinIsIn
  <1> QED BY <1>2

\* One piece of data is written.
LEMMA PieceFits ==
    ASSUME WellFormed, NEW d \in Ino, NEW s \in Slot, NEW piece \in Piece,
           content' = [content EXCEPT ![d][s] = piece], UNCHANGED <<table, used>>
    PROVE  content' \in [Ino -> [Slot -> Piece]] /\ RootKept' /\ InUseIsMarked'
  <1>1. content' \in [Ino -> [Slot -> Piece]]
    BY DEF WellFormed, Types
  <1> QED BY <1>1 DEF WellFormed, RootKept, InUseIsMarked

\* All of them are.
LEMMA EmptyFits ==
    ASSUME WellFormed, NEW d \in Ino, content' = [content EXCEPT ![d] = Empty], UNCHANGED <<table, used>>
    PROVE  content' \in [Ino -> [Slot -> Piece]] /\ RootKept' /\ InUseIsMarked'
  <1>1. Empty \in [Slot -> Piece]
    BY DEF Empty, Piece
  <1> QED BY <1>1 DEF WellFormed, RootKept, InUseIsMarked, Types

LEMMA NamedInIsIno ==
    ASSUME Types, NEW i \in Ino, NEW slots
    PROVE  NamedIn(i, slots) \subseteq Ino
  <1>1. ASSUME NEW s \in EntrySlots(i)
        PROVE  content[i][s].ino \in Ino
    <2>1. content[i][s] \in Piece /\ content[i][s].kind = "entry"
      BY <1>1 DEF EntrySlots, Types
    <2> QED BY <2>1 DEF Piece, Nothing, Data, Dots, Entry
  <1> QED BY <1>1 DEF NamedIn

LEMMA AddEntryFits ==
    ASSUME WellFormed, AddEntry, UNCHANGED <<running, fds, calls, crashes>>
    PROVE  /\ WellFormed'
           /\ \/ /\ AddNew(Head(todo).ino, todo)
                 /\ Plain(todo') \/ (FreeSlots(Head(todo).dir) = {} /\ FreeIt(Head(todo).ino, todo'))
              \/ /\ AddLink(Head(todo).ino, todo)
                 /\ IF FreeSlots(Head(todo).dir) # {} THEN CountLink(Head(todo).ino, todo') ELSE Plain(todo')
  <1> DEFINE step == Head(todo)
             d == step.dir
             i == step.ino
  <1>1. /\ todo # << >> /\ i \in Ino \ {Root} /\ (AddNew(i, todo) \/ AddLink(i, todo)) /\ running
        /\ Plain(Tail(todo))
    BY Kinds, WorkRuns DEF WellFormed, AddEntry, Doing, AddNew, AddLink
  <1>2. d \in Ino /\ step.name \in Name
    BY <1>1 DEF AddNew, FirstEntry, AddLink, AddStep, InitStep
  <1>3. UNCHANGED <<table, used, freeInodes, store, uncounted>>
    BY DEF AddEntry
  <1>4. /\ lost' \subseteq Ino /\ content' \in [Ino -> [Slot -> Piece]] /\ RootKept' /\ InUseIsMarked'
    <2>1. CASE FreeSlots(d) # {}
      <3> DEFINE s == Min(FreeSlots(d))
                 piece == Entry(Stored[step.name], i)
      <3>1. s \in Slot
        BY <2>1, SlotOf DEF FreeSlots
      <3>2. piece \in Piece
        BY <1>1, <1>2, NamespaceAssumption DEF Piece, Entry
      <3>3. content' = [content EXCEPT ![d][s] = piece] /\ lost' = lost
        BY <2>1 DEF AddEntry
      <3> QED BY <1>2, <1>3, <3>1, <3>2, <3>3, PieceFits DEF WellFormed, Types
    <2>2. CASE FreeSlots(d) = {}
      <3>1. content' = content /\ lost' \subseteq lost \cup {i}
        BY <2>2 DEF AddEntry
      <3> QED BY <1>1, <1>3, <3>1 DEF WellFormed, Types, RootKept, InUseIsMarked
    <2> QED BY <2>1, <2>2
  <1>5. ASSUME todo' \in Seq(AnyStep)
        PROVE  Types'
    BY <1>3, <1>4, <1>5 DEF WellFormed, Types
  <1>6. IF FreeSlots(d) # {} THEN Then(step.then) ELSE Then(step.else)
    BY DEF AddEntry
  <1>7. CASE AddNew(i, todo)
    <2>1. step.then \in Seq(PlainStep) /\ (step.else = << >> \/ step.else = <<Step("free", i)>>)
      BY <1>7 DEF AddEntry, Doing, AddNew, FirstEntry, AddStep, InitStep
    <2>2. CASE FreeSlots(d) # {} \/ step.else = << >>
      <3>1. Plain(todo')
        BY <1>1, <1>6, <2>1, <2>2, PlainRows DEF Then
      <3> QED BY <1>1, <1>4, <1>5, <1>7, <3>1, PlainFits, PlainIsAny
    <2>3. CASE FreeSlots(d) = {} /\ step.else = <<Step("free", i)>>
      <3>1. Step("free", i) \in AnyStep
        BY <1>1 DEF AnyStep, Step
      <3>2. todo' \in Seq(AnyStep) /\ FreeIt(i, todo')
        <4> DEFINE a == Step("free", i)
        <4>1. a \in AnyStep /\ todo' = <<a>> \o Tail(todo)
          BY <1>6, <2>3, <3>1 DEF Then
        <4> HIDE DEF a
        <4>2. todo' \in Seq(AnyStep) /\ todo' # << >> /\ Head(todo') = a /\ Plain(Tail(todo'))
          BY <1>1, <4>1, RowOfOne
        <4> QED BY <4>2 DEF FreeIt, a
      <3>3. Stages'
        <4>1. /\ ~Mounting(todo') /\ ~CountFreed(todo')
              /\ \A j : /\ ~MarkNew(j, todo') /\ ~WriteNew(j, todo') /\ ~CountNew(j, todo') /\ ~AddNew(j, todo')
                        /\ ~WriteFreed(j, todo') /\ ~UnmarkFreed(j, todo') /\ ~AddLink(j, todo') /\ ~RemoveAndDrop(j, todo')
          BY <3>2, Heads
        <4> QED BY <1>1, <4>1 DEF Stages
      <3>4. Shape(todo')
        BY <1>1, <3>2 DEF Shape, Freeing
      <3> QED BY <1>4, <1>5, <1>7, <2>3, <3>2, <3>3, <3>4 DEF WellFormed
    <2> QED BY <2>1, <2>2, <2>3
  <1>8. CASE AddLink(i, todo)
    <2>1. step.then = <<Step("incLink", i)>> /\ step.else = << >>
      BY <1>8 DEF AddLink, AddStep
    <2>2. CASE FreeSlots(d) = {}
      <3>1. Plain(todo')
        BY <1>1, <1>6, <2>1, <2>2, PlainRows DEF Then
      <3> QED BY <1>1, <1>4, <1>5, <1>8, <2>2, <3>1, PlainFits, PlainIsAny
    <2>3. CASE FreeSlots(d) # {}
      <3>1. Step("incLink", i) \in AnyStep
        BY <1>1 DEF AnyStep, Step
      <3>2. todo' \in Seq(AnyStep) /\ CountLink(i, todo')
        <4> DEFINE a == Step("incLink", i)
        <4>1. a \in AnyStep /\ todo' = <<a>> \o Tail(todo)
          BY <1>6, <2>1, <2>3, <3>1 DEF Then
        <4> HIDE DEF a
        <4>2. todo' \in Seq(AnyStep) /\ todo' # << >> /\ Head(todo') = a /\ Plain(Tail(todo'))
          BY <1>1, <4>1, RowOfOne
        <4> QED BY <4>2 DEF CountLink, a
      <3>3. Stages'
        <4>1. /\ ~Mounting(todo') /\ ~CountFreed(todo')
              /\ \A j : /\ ~MarkNew(j, todo') /\ ~WriteNew(j, todo') /\ ~CountNew(j, todo') /\ ~AddNew(j, todo')
                        /\ ~WriteFreed(j, todo') /\ ~UnmarkFreed(j, todo') /\ ~AddLink(j, todo') /\ ~RemoveAndDrop(j, todo')
          BY <3>2, Heads
        <4> QED BY <1>1, <4>1 DEF Stages
      <3>4. Shape(todo')
        BY <1>1, <3>2 DEF Shape
      <3> QED BY <1>4, <1>5, <1>8, <2>3, <3>2, <3>3, <3>4 DEF WellFormed
    <2> QED BY <2>2, <2>3
  <1> QED BY <1>1, <1>7, <1>8

\* Nothing but what is left of the call changes.
LEMMA DataStays ==
    ASSUME WellFormed, UNCHANGED <<table, used, freeInodes, content>>
    PROVE  RootKept' /\ InUseIsMarked'
  BY DEF WellFormed, RootKept, InUseIsMarked

LEMMA InitDirFits ==
    ASSUME WellFormed, InitDir, UNCHANGED <<running, fds, calls, crashes>>
    PROVE  /\ WellFormed' /\ AddNew(Head(todo).ino, todo)
           /\ \/ AddNew(Head(todo).ino, todo') /\ UNCHANGED lost
              \/ Plain(todo') /\ lost' = lost \cup {Head(todo).ino}
  <1> DEFINE d == Head(todo).dir
             n == Head(todo).name
             i == Head(todo).ino
             a == AddStep(d, n, i, << >>, << >>)
  <1>1. /\ todo # << >> /\ i \in Ino \ {Root} /\ AddNew(i, todo) /\ running
        /\ Plain(Tail(todo)) /\ Head(todo).op = "init"
    BY Kinds, WorkRuns DEF WellFormed, InitDir, Doing, AddNew
  <1>2. d \in Ino /\ n \in Name
    BY <1>1 DEF AddNew, FirstEntry, AddStep, InitStep
  <1>3. UNCHANGED <<table, used, freeInodes, content, store, uncounted>>
    BY DEF InitDir
  <1>4. \/ todo' = <<a>> \o Tail(todo) /\ lost' = lost
        \/ todo' = << >> \o Tail(todo) /\ lost' = lost \cup {i}
    BY DEF InitDir, Then
  <1>5. RootKept' /\ InUseIsMarked'
    BY <1>3, DataStays
  <1>6. ASSUME todo' \in Seq(AnyStep)
        PROVE  Types'
    <2>1. lost' \subseteq Ino
      BY <1>1, <1>4 DEF WellFormed, Types
    <2> QED BY <1>3, <1>6, <2>1 DEF WellFormed, Types
  <1>7. CASE todo' = << >> \o Tail(todo) /\ lost' = lost \cup {i}
    <2>1. Plain(todo')
      BY <1>1, <1>7, PlainRows
    <2> QED BY <1>1, <1>5, <1>6, <1>7, <2>1, PlainFits, PlainIsAny
  <1>8. CASE todo' = <<a>> \o Tail(todo) /\ lost' = lost
    <2>1. FirstEntry(i, a)
      <3>1. << >> \in Seq(PlainStep)
        OBVIOUS
      <3> QED BY <1>2, <3>1 DEF FirstEntry
    <2> HIDE DEF a
    <2>2. a \in AnyStep
      BY <1>1, <2>1, FirstEntryIsStep
    <2>3. todo' \in Seq(AnyStep) /\ todo' # << >> /\ Head(todo') = a /\ Plain(Tail(todo'))
      BY <1>1, <1>8, <2>2, RowOfOne
    <2>4. AddNew(i, todo')
      BY <2>1, <2>3 DEF AddNew
    <2>5. Stages'
      <3>1. /\ ~Mounting(todo') /\ ~CountFreed(todo')
            /\ \A j : /\ ~MarkNew(j, todo') /\ ~WriteNew(j, todo') /\ ~CountNew(j, todo')
                      /\ ~WriteFreed(j, todo') /\ ~UnmarkFreed(j, todo') /\ ~RemoveAndDrop(j, todo')
                      /\ AddNew(j, todo') => j = i
        BY <2>4, Heads, SMTT(60)
      <3>2. \A j : ~AddLink(j, todo')
        BY <2>4, NewOrLinked
      <3>3. i \in used' /\ table'[i] \in Made
        BY <1>1, <1>3 DEF WellFormed, Stages
      <3> QED BY <1>1, <3>1, <3>2, <3>3 DEF Stages
    <2>6. Shape(todo')
      BY <1>1, <2>4 DEF Shape, Making
    <2> QED BY <1>1, <1>5, <1>6, <1>8, <2>3, <2>4, <2>5, <2>6 DEF WellFormed
  <1> QED BY <1>4, <1>7, <1>8

LEMMA FoundIsSlot ==
    ASSUME NEW d, NEW n, Matching(d, n) # {}
    PROVE  Found(d, n) \in Slot /\ content[d][Found(d, n)].kind = "entry" /\ content[d][Found(d, n)].name = n
  <1>1. Matching(d, n) \in SUBSET Slot
    BY DEF Matching, EntrySlots
  <1>2. Found(d, n) \in Matching(d, n)
    BY <1>1, SlotOf DEF Found
  <1> QED BY <1>1, <1>2 DEF Matching, EntrySlots

LEMMA RemoveEntryFits ==
    ASSUME WellFormed, RemoveEntry, UNCHANGED <<running, fds, calls, crashes>>
    PROVE  WellFormed' /\ \E i \in Ino \ {Root} : RemoveAndDrop(i, todo) /\ Dropping(i, todo')
  <1> DEFINE d == Head(todo).dir
             n == Head(todo).name
  <1>1. PICK i \in Ino \ {Root} : RemoveAndDrop(i, todo)
    BY Kinds DEF WellFormed, RemoveEntry, Doing
  <1>2. todo # << >> /\ running /\ todo' = Tail(todo) /\ d \in Ino
    BY <1>1, WorkRuns, TodoTail, Heads DEF WellFormed, RemoveEntry, Doing, RemoveAndDrop
  <1>3. Found(d, n) \in Slot
    BY <1>1, FoundIsSlot DEF WellFormed, Stages
  <1>4. content' = [content EXCEPT ![d][Found(d, n)] = Nothing] /\ UNCHANGED <<table, used, freeInodes, store, uncounted, lost>>
    BY DEF RemoveEntry
  <1>5. content' \in [Ino -> [Slot -> Piece]] /\ RootKept' /\ InUseIsMarked'
    <2>1. Nothing \in Piece
      BY DEF Piece
    <2> QED BY <1>2, <1>3, <1>4, <2>1, PieceFits
  <1>6. Types'
    BY <1>2, <1>4, <1>5, TodoTail DEF WellFormed, Types
  <1>7. Dropping(i, todo')
    BY <1>1, <1>2 DEF RemoveAndDrop, Dropping
  <1>8. Stages'
    <2>1. /\ ~Mounting(todo') /\ ~CountFreed(todo')
          /\ \A j : /\ ~MarkNew(j, todo') /\ ~WriteNew(j, todo') /\ ~CountNew(j, todo') /\ ~AddNew(j, todo')
                    /\ ~WriteFreed(j, todo') /\ ~UnmarkFreed(j, todo') /\ ~AddLink(j, todo') /\ ~RemoveAndDrop(j, todo')
      BY <1>7, Heads DEF Dropping
    <2> QED BY <1>2, <2>1 DEF Stages
  <1> QED BY <1>1, <1>5, <1>6, <1>7, <1>8 DEF WellFormed, Shape

LEMMA TruncateFits ==
    ASSUME WellFormed, Truncate, UNCHANGED <<running, fds, calls, crashes>>
    PROVE  /\ WellFormed'
           /\ \/ Plain(todo) /\ Plain(todo')
              \/ EmptyAndDrop(Head(todo).ino, todo) /\ DropLink(Head(todo).ino, todo')
  <1> DEFINE i == Head(todo).ino
  <1>1. /\ todo # << >> /\ running /\ todo' = Tail(todo)
        /\ Plain(todo) \/ (i \in Ino \ {Root} /\ EmptyAndDrop(i, todo))
    BY Kinds, WorkRuns, TodoTail DEF WellFormed, Truncate, Doing
  <1>2. UNCHANGED <<table, used, freeInodes, store, uncounted>>
    BY DEF Truncate
  <1>3. lost' \subseteq Ino /\ content' \in [Ino -> [Slot -> Piece]] /\ RootKept' /\ InUseIsMarked'
    <2>1. CASE Valid(i) /\ table[i].type # "free"
      <3>1. i \in Ino
        BY <2>1 DEF Valid, WellFormed, Types
      <3>2. content' = [content EXCEPT ![i] = Empty] /\ lost' = lost \cup NamedIn(i, Slot)
        BY <2>1 DEF Truncate
      <3> QED BY <1>2, <3>1, <3>2, EmptyFits, NamedInIsIno DEF WellFormed, Types
    <2>2. CASE ~(Valid(i) /\ table[i].type # "free")
      BY <1>2, <2>2 DEF Truncate, WellFormed, Types, RootKept, InUseIsMarked
    <2> QED BY <2>1, <2>2
  <1>4. Types'
    BY <1>1, <1>2, <1>3, TodoTail DEF WellFormed, Types
  <1>5. CASE Plain(todo)
    <2>1. Plain(todo')
      BY <1>1, <1>5, PlainIsAny
    <2> QED BY <1>1, <1>3, <1>4, <1>5, <2>1, PlainFits
  <1>6. CASE i \in Ino \ {Root} /\ EmptyAndDrop(i, todo)
    <2>1. DropLink(i, todo')
      BY <1>1, <1>6 DEF EmptyAndDrop
    <2>2. Stages'
      <3>1. /\ ~Mounting(todo') /\ ~CountFreed(todo')
            /\ \A j : /\ ~MarkNew(j, todo') /\ ~WriteNew(j, todo') /\ ~CountNew(j, todo') /\ ~AddNew(j, todo')
                      /\ ~WriteFreed(j, todo') /\ ~UnmarkFreed(j, todo') /\ ~AddLink(j, todo') /\ ~RemoveAndDrop(j, todo')
        BY <2>1, Heads
      <3> QED BY <1>1, <3>1 DEF Stages
    <2>3. Shape(todo')
      BY <1>6, <2>1 DEF Shape, Dropping
    <2> QED BY <1>3, <1>4, <1>6, <2>1, <2>2, <2>3 DEF WellFormed
  <1> QED BY <1>1, <1>5, <1>6

LEMMA WrittenIsPiece ==
    ASSUME NEW i, NEW piece \in Written(i)
    PROVE  piece \in Piece /\ Names(piece) \subseteq Ino
  <1>1. piece \in Piece
    BY NamespaceAssumption DEF Written, Piece
  <1> QED BY <1>1 DEF Piece, Names, Nothing, Data, Dots, Entry

LEMMA WriteDataFits ==
    ASSUME WellFormed, WriteData, UNCHANGED <<running, fds, calls, crashes>>
    PROVE  WellFormed' /\ Plain(todo) /\ Plain(todo')
  <1> DEFINE i == Head(todo).ino
             s == Head(todo).slot
  <1>1. todo # << >> /\ running /\ todo' = Tail(todo) /\ Plain(todo) /\ Plain(todo')
    BY Kinds, WorkRuns, TodoTail, PlainIsAny DEF WellFormed, WriteData, Doing
  <1>2. s \in Slot
    <2>1. Head(todo) \in PlainStep \cup LastStep /\ Head(todo).op = "write"
      BY <1>1, PlainIsAny DEF WriteData, Doing
    <2> QED BY <2>1 DEF PlainStep, LastStep, Step
  <1>3. UNCHANGED <<table, used, freeInodes, store>>
    BY DEF WriteData
  <1>4. /\ lost' \subseteq Ino /\ uncounted' \subseteq Ino
        /\ content' \in [Ino -> [Slot -> Piece]] /\ RootKept' /\ InUseIsMarked'
    <2>1. CASE Valid(i) /\ table[i].type # "free"
      <3>1. i \in Ino
        BY <2>1 DEF Valid, WellFormed, Types
      <3>2. PICK piece \in Written(i) :
              /\ content' = [content EXCEPT ![i][s] = piece]
              /\ lost' = lost \cup (NamedIn(i, {s}) \ Names(piece))
              /\ uncounted' = uncounted \cup (Names(piece) \ NamedIn(i, {s}))
        BY <2>1 DEF WriteData
      <3>3. piece \in Piece /\ Names(piece) \subseteq Ino
        BY WrittenIsPiece
      <3>4. NamedIn(i, {s}) \subseteq Ino
        BY <3>1, NamedInIsIno DEF WellFormed
      <3>5. lost' \subseteq Ino /\ uncounted' \subseteq Ino
        BY <3>2, <3>3, <3>4 DEF WellFormed, Types
      <3> QED BY <1>2, <1>3, <3>1, <3>2, <3>3, <3>5, PieceFits
    <2>2. CASE ~(Valid(i) /\ table[i].type # "free")
      BY <1>3, <2>2 DEF WriteData, WellFormed, Types, RootKept, InUseIsMarked
    <2> QED BY <2>1, <2>2
  <1>5. Types'
    BY <1>1, <1>3, <1>4, TodoTail DEF WellFormed, Types
  <1> QED BY <1>1, <1>4, <1>5, PlainFits

LEMMA ResolveIsInode ==
    ASSUME NEW d, NEW n, Resolve(d, n) # None
    PROVE  /\ Resolve(d, n) \in used /\ Matching(d, n) # {} /\ Found(d, n) \in Slot
           /\ content[d][Found(d, n)].kind = "entry" /\ content[d][Found(d, n)].ino = Resolve(d, n)
  BY FoundIsSlot DEF Resolve, Valid

\* What is deleted or removed is not the root: it is a directory, and a path
\* leads nowhere when it is empty.
LEMMA RemovedIsNotRoot ==
    ASSUME WellFormed, NEW d \in Dirs, NEW n \in Name, Delete(d, n) \/ Rmdir(d, n)
    PROVE  Resolve(d, n) \in Ino \ {Root}
  <1>1. Resolve(d, n) # None /\ Resolve(d, n) \in Ino
    BY ResolveIsInode DEF Delete, Rmdir, WellFormed, Types
  <1>2. CASE Delete(d, n)
    BY <1>1, <1>2 DEF Delete, WellFormed, RootKept
  <1>3. CASE Rmdir(d, n) /\ Resolve(d, n) = Root
    <2>1. \A m : Resolve(Root, m) = None
      <3>1. IsEmpty(Root)
        BY <1>3 DEF Rmdir
      <3>2. \A s \in Slot : content[Root][s].kind # "entry"
        BY <3>1 DEF IsEmpty, Nothing, Dots
      <3>3. \A m : Matching(Root, m) = {}
        BY <3>2 DEF Matching, EntrySlots
      <3> QED BY <3>3 DEF Resolve
    <2>2. d # Root
      BY <1>1, <2>1
    <2>3. {Root} \in SUBSET (used \ {d})
      BY <2>2 DEF WellFormed, RootKept
    <2>4. \E e \in {Root}, m \in Name : Resolve(e, m) \notin {Root} \cup {None}
      BY <2>3 DEF Dirs, Reached
    <2> QED BY <2>1, <2>4
  <1> QED BY <1>1, <1>2, <1>3

LEMMA OpenAndCloseFits ==
    ASSUME WellFormed, OpenAndClose, UNCHANGED <<running, fds, calls, crashes>>
    PROVE  WellFormed' /\ Plain(todo) /\ (Plain(todo') \/ \E i \in Ino : Passing(i, todo'))
  <1> DEFINE i == Resolve(Head(todo).dir, Head(todo).name)
  <1>1. todo # << >> /\ running /\ Plain(todo) /\ Plain(Tail(todo))
    BY Kinds, WorkRuns, PlainIsAny DEF WellFormed, OpenAndClose, Doing
  <1>2. UNCHANGED <<table, used, freeInodes, content, store, uncounted, lost>>
    BY DEF OpenAndClose
  <1>3. RootKept' /\ InUseIsMarked'
    BY <1>2, DataStays
  <1>4. ASSUME todo' \in Seq(AnyStep)
        PROVE  Types'
    BY <1>2, <1>4 DEF WellFormed, Types
  <1>5. CASE Then(<< >>)
    <2>1. Plain(todo')
      BY <1>1, <1>5, PlainRows DEF Then
    <2> QED BY <1>1, <1>3, <1>4, <2>1, PlainFits, PlainIsAny
  <1>6. CASE i # None /\ Then(<<Step("incOpen", i), Step("decOpen", i)>>)
    <2>1. i \in Ino
      BY <1>6, ResolveIsInode DEF WellFormed, Types
    <2>2. Step("incOpen", i) \in AnyStep /\ Step("decOpen", i) \in AnyStep
      BY <2>1 DEF AnyStep, Step
    <2>3. todo' \in Seq(AnyStep) /\ Passing(i, todo')
      <3> DEFINE a == Step("incOpen", i)
                 b == Step("decOpen", i)
                 t == Tail(todo)
      <3>1. a \in AnyStep /\ b \in AnyStep /\ Plain(t) /\ todo' = <<a, b>> \o t
        BY <1>1, <1>6, <2>2 DEF Then
      <3> HIDE DEF a, b, t
      <3>2. TwoThen(<<a, b>> \o t, a, b, t)
        BY <3>1, RowOfTwo, PlainIsAny
      <3>3. TwoThen(todo', a, b, t)
        BY <3>1, <3>2
      <3> QED BY <3>1, <3>3 DEF TwoThen, Passing, Closing, a, b
    <2>4. Stages'
      <3>1. /\ ~Mounting(todo') /\ ~CountFreed(todo')
            /\ \A j : /\ ~MarkNew(j, todo') /\ ~WriteNew(j, todo') /\ ~CountNew(j, todo') /\ ~AddNew(j, todo')
                      /\ ~WriteFreed(j, todo') /\ ~UnmarkFreed(j, todo') /\ ~AddLink(j, todo') /\ ~RemoveAndDrop(j, todo')
        BY <2>3, Heads
      <3> QED BY <1>1, <3>1 DEF Stages
    <2>5. Shape(todo')
      BY <2>1, <2>3 DEF Shape
    <2> QED BY <1>1, <1>3, <1>4, <2>1, <2>3, <2>4, <2>5 DEF WellFormed
  <1> QED BY <1>5, <1>6 DEF OpenAndClose

LEMMA OverwritePlain ==
    ASSUME NEW i \in Ino
    PROVE  Overwrite(i) \in Seq(PlainStep) /\ Step("remember", i) \in PlainStep
  <1>1. 1 \in Slot
    BY InodesAssumption DEF Slot
  <1>2. /\ Step("truncate", i) \in PlainStep /\ WriteStep(i, 1, "users") \in PlainStep
        /\ Step("remember", i) \in PlainStep
    BY <1>1 DEF PlainStep, Step, WriteStep
  <1> QED BY <1>2 DEF Overwrite

\* A new inode is going to be made.
LEMMA AllocFits ==
    ASSUME WellFormed, Types', RootKept', InUseIsMarked', running', used' = used,
           NEW i \in Ino \ used, MarkNew(i, todo')
    PROVE  WellFormed'
  <1>1. i # Root
    BY DEF WellFormed, RootKept
  <1>2. Shape(todo')
    BY <1>1 DEF Shape
  <1>3. Stages'
    <2>1. Head(todo').op = "mark" /\ Head(todo').ino = i
      BY Heads
    <2>2. ~Mounting(todo') /\ ~CountFreed(todo')
      BY <2>1, Heads
    <2>3. \A j : ~WriteNew(j, todo') /\ ~CountNew(j, todo') /\ ~AddNew(j, todo') /\ ~WriteFreed(j, todo')
      BY <2>1, Heads
    <2>4. \A j : ~UnmarkFreed(j, todo') /\ ~AddLink(j, todo') /\ ~RemoveAndDrop(j, todo') /\ (MarkNew(j, todo') => j = i)
      BY <2>1, Heads
    <2> QED BY <2>2, <2>3, <2>4 DEF Stages
  <1> QED BY <1>2, <1>3 DEF WellFormed

LEMMA SaveUsersFits ==
    ASSUME WellFormed, SaveUsers, UNCHANGED <<running, fds, calls, crashes>>
    PROVE  WellFormed' /\ Plain(todo) /\ (Plain(todo') \/ (CanAlloc /\ MarkNew(NewIno, todo')))
  <1> DEFINE named == Resolve(Root, UsersName)
  <1>1. todo # << >> /\ running /\ Plain(todo) /\ Plain(Tail(todo))
    BY Kinds, WorkRuns, PlainIsAny DEF WellFormed, SaveUsers, Doing
  <1>2. UNCHANGED <<table, used, freeInodes, content, uncounted, lost>>
    BY DEF SaveUsers
  <1>3. RootKept' /\ InUseIsMarked'
    BY <1>2, DataStays
  <1>4. ASSUME todo' \in Seq(AnyStep), store' \in Ino
        PROVE  Types'
    BY <1>2, <1>4 DEF WellFormed, Types
  <1>5. ASSUME NEW i \in Ino, Then(Overwrite(i)), store' \in Ino
        PROVE  WellFormed' /\ Plain(todo')
    <2>1. Plain(todo')
      BY <1>1, <1>5, OverwritePlain, PlainRows DEF Then
    <2> QED BY <1>1, <1>3, <1>4, <1>5, <2>1, PlainFits, PlainIsAny
  <1>6. store \in Ino
    BY DEF WellFormed, Types
  <1>7. CASE store # 0 /\ Then(Overwrite(store)) /\ UNCHANGED store
    BY <1>1, <1>5, <1>6, <1>7
  <1>8. CASE store = 0 /\ named # None /\ Then(Overwrite(named)) /\ store' = named
    <2>1. named \in Ino
      BY <1>8, ResolveIsInode DEF WellFormed, Types
    <2> QED BY <1>1, <1>5, <1>8, <2>1
  <1>9. CASE CanAlloc /\ Then(AllocSteps("file") \o
                           <<AddStep(Root, UsersName, NewIno,
                                     <<Step("remember", NewIno)>> \o Overwrite(NewIno),
                                     <<Step("free", NewIno)>>)>>) /\ UNCHANGED store
    <2> DEFINE i == NewIno
               then == <<Step("remember", i)>> \o Overwrite(i)
    <2>1. i \in Ino \ used
      BY <1>9, NewInoIsFree DEF CanAlloc, WellFormed, Types
    <2>2. then \in Seq(PlainStep)
      BY <2>1, OverwritePlain
    <2>3. Root \in Ino /\ UsersName \in Name
      BY NamespaceAssumption, InodesAssumption DEF Root, Ino
    <2> HIDE DEF i, then
    <2> DEFINE e == AddStep(Root, UsersName, i, then, <<Step("free", i)>>)
    <2>7. FirstEntry(i, e)
      BY <2>2, <2>3 DEF FirstEntry
    <2>4. todo' = (<<Step("mark", i), WriteEntry(i, NewInode("file")), CountBy(-1)>> \o <<e>>) \o Tail(todo)
      BY <1>9 DEF Then, AllocSteps, i, then
    <2> HIDE DEF e
    <2>5. todo' \in Seq(AnyStep) /\ MarkNew(i, todo')
      BY <1>1, <2>1, <2>4, <2>7, AllocRow
    <2>6. WellFormed'
      BY <1>1, <1>2, <1>3, <1>4, <1>6, <1>9, <2>1, <2>5, AllocFits
    <2> QED BY <1>1, <1>9, <2>5, <2>6 DEF i
  <1>10. CASE Then(<< >>) /\ UNCHANGED store
    <2>1. Plain(todo')
      BY <1>1, <1>10, PlainRows DEF Then
    <2> QED BY <1>1, <1>3, <1>4, <1>6, <1>10, <2>1, PlainFits, PlainIsAny
  <1> QED BY <1>7, <1>8, <1>9, <1>10 DEF SaveUsers

LEMMA RememberFits ==
    ASSUME WellFormed, Remember, UNCHANGED <<running, fds, calls, crashes>>
    PROVE  WellFormed' /\ Plain(todo) /\ Plain(todo')
  <1>1. todo # << >> /\ running /\ Plain(todo) /\ todo' = Tail(todo) /\ Plain(todo')
    BY Kinds, WorkRuns, TodoTail, PlainIsAny DEF WellFormed, Remember, Doing
  <1>2. store' \in Ino
    <2>1. Head(todo) \in PlainStep \cup LastStep /\ Head(todo).op = "remember"
      BY <1>1, PlainIsAny DEF Remember, Doing
    <2> QED BY <2>1 DEF PlainStep, LastStep, Step, Remember
  <1>3. UNCHANGED <<table, used, freeInodes, content, uncounted, lost>>
    BY DEF Remember
  <1>4. Types'
    BY <1>1, <1>2, <1>3, TodoTail DEF WellFormed, Types
  <1> QED BY <1>1, <1>3, <1>4, DataStays, PlainFits

LEMMA FdOf ==
    ASSUME NEW S \in SUBSET Fd, S # {}
    PROVE  Min(S) \in S /\ Min(S) \in Fd
  <1>1. S \subseteq Nat
    BY NamespaceAssumption DEF Fd
  <1>2. Min(S) \in S
    BY <1>1, MinIsIn
  <1> QED BY <1>2

LEMMA CloseAllFits ==
    ASSUME WellFormed, CloseAll
    PROVE  /\ WellFormed' /\ Plain(todo)
           /\ LET open == {f \in Fd : fds[f] # None}
              IN  IF open = {} THEN Plain(todo') ELSE Closing(fds[Min(open)], todo')
  <1> DEFINE open == {f \in Fd : fds[f] # None}
  <1>1. todo # << >> /\ running /\ Plain(todo) /\ Plain(Tail(todo))
    BY Kinds, WorkRuns, PlainIsAny DEF WellFormed, CloseAll, Doing
  <1>2. UNCHANGED <<table, used, freeInodes, content, running, store, calls, crashes, uncounted, lost>>
    BY DEF CloseAll
  <1>3. RootKept' /\ InUseIsMarked'
    BY <1>2, DataStays
  <1>4. Head(todo) \in PlainStep /\ Head(todo).then \in {<< >>, <<Step("save", Root), Step("halt", Root)>>}
    <2>1. Head(todo) \in PlainStep \cup LastStep /\ Head(todo).op = "closeAll"
      BY <1>1, PlainIsAny DEF CloseAll, Doing
    <2> QED BY <2>1 DEF PlainStep, LastStep, Step
  <1>5. CASE open = {}
    <2>1. Then(Head(todo).then) /\ fds' = fds
      BY <1>5 DEF CloseAll
    <2>2. Plain(todo')
      <3>1. Step("save", Root) \in PlainStep /\ Step("halt", Root) \in LastStep
        BY InodesAssumption DEF PlainStep, LastStep, Step, Root, Ino
      <3>2. Head(todo).then \in Seq(PlainStep \cup LastStep)
        <4> DEFINE S == PlainStep \cup LastStep
        <4>1. Step("save", Root) \in S /\ Step("halt", Root) \in S
          BY <3>1
        <4> HIDE DEF S
        <4>2. << >> \in Seq(S) /\ <<Step("save", Root), Step("halt", Root)>> \in Seq(S)
          BY <4>1
        <4> QED BY <1>4, <4>2 DEF S
      <3> QED BY <1>1, <2>1, <3>2 DEF Plain, Then
    <2>3. Types'
      BY <1>2, <2>1, <2>2, PlainIsAny DEF WellFormed, Types
    <2> QED BY <1>1, <1>2, <1>3, <1>5, <2>2, <2>3, PlainFits
  <1>6. CASE open # {}
    <2> DEFINE f == Min(open)
               i == fds[f]
    <2>1. f \in Fd /\ i # None
      BY <1>6, FdOf
    <2>2. i \in Ino
      BY <2>1 DEF WellFormed, Types
    <2>3. Then(<<Step("decOpen", i), Head(todo)>>) /\ fds' = [fds EXCEPT ![f] = None]
      BY <1>6 DEF CloseAll
    <2> HIDE DEF f, i
    <2>4. Step("decOpen", i) \in AnyStep /\ Head(todo) \in AnyStep
      BY <1>4, <2>2 DEF AnyStep, Step
    <2>5. /\ todo' \in Seq(AnyStep) /\ todo' # << >> /\ Head(todo') = Step("decOpen", i)
          /\ Tail(todo') = <<Head(todo)>> \o Tail(todo)
      <3>1. todo' = <<Step("decOpen", i), Head(todo)>> \o Tail(todo)
        BY <2>3 DEF Then
      <3>2. Tail(todo) \in Seq(AnyStep)
        BY <1>1, PlainIsAny
      <3> DEFINE x == Cons(Head(todo), Tail(todo))
      <3>3. todo' = Cons(Step("decOpen", i), x)
        <4> DEFINE a == Step("decOpen", i)
                   b == Head(todo)
                   t == Tail(todo)
        <4>1. a \in AnyStep /\ b \in AnyStep /\ t \in Seq(AnyStep) /\ todo' = <<a, b>> \o t
          BY <2>4, <3>1, <3>2
        <4> HIDE DEF a, b, t
        <4>2. <<a, b>> \o t = Cons(a, Cons(b, t))
          BY <4>1, TwoInRow
        <4> QED BY <4>1, <4>2 DEF a, b, t
      <3>4. x \in Seq(AnyStep)
        BY <2>4, <3>2, First
      <3> HIDE DEF x
      <3>5. /\ todo' \in Seq(AnyStep) /\ todo' # << >> /\ Head(todo') = Step("decOpen", i)
            /\ Tail(todo') = x
        BY <2>4, <3>3, <3>4, First
      <3> QED BY <3>5 DEF x, Cons
    <2>6. Closing(i, todo')
      <3>1. Plain(Tail(todo'))
        BY <1>1, <1>4, <2>5, PlainRows
      <3> QED BY <2>5, <3>1 DEF Closing
    <2>7. Types'
      BY <1>2, <2>1, <2>3, <2>5 DEF WellFormed, Types
    <2>8. Stages'
      <3>1. /\ ~Mounting(todo') /\ ~CountFreed(todo')
            /\ \A j : /\ ~MarkNew(j, todo') /\ ~WriteNew(j, todo') /\ ~CountNew(j, todo') /\ ~AddNew(j, todo')
                      /\ ~WriteFreed(j, todo') /\ ~UnmarkFreed(j, todo') /\ ~AddLink(j, todo') /\ ~RemoveAndDrop(j, todo')
        BY <2>6, Heads
      <3> QED BY <1>1, <1>2, <3>1 DEF Stages
    <2>9. Shape(todo')
      BY <2>2, <2>6 DEF Shape
    <2>10. WellFormed'
      BY <1>3, <2>7, <2>8, <2>9 DEF WellFormed
    <2> QED BY <1>1, <1>6, <2>6, <2>10 DEF f, i
  <1> QED BY <1>5, <1>6

LEMMA HaltOrCrashFits ==
    ASSUME WellFormed, Halt \/ Crash
    PROVE  WellFormed'
  <1>1. /\ todo' = << >> /\ running' = FALSE /\ fds' = NoFds /\ store' = 0
        /\ UNCHANGED <<table, used, freeInodes, content, calls>>
    BY DEF Halt, Crash
  <1>2. NoFds \in [Fd -> Ino \cup {None}] /\ 0 \in Ino
    BY InodesAssumption DEF NoFds, Ino
  <1>3. crashes' \in 0..MaxCrashes
    BY NamespaceAssumption DEF WellFormed, Types, Halt, Crash
  <1>4. uncounted' \subseteq Ino
    <2>1. Doing("incLink") => Head(todo).ino \in Ino
      BY Kinds DEF Doing, WellFormed
    <2> QED BY <2>1 DEF WellFormed, Types, Halt, Crash
  <1>5. lost' \subseteq Ino
    <2>1. CASE Halt
      BY <2>1 DEF Halt, WellFormed, Types
    <2>2. CASE Crash
      <3>1. Doing("decLink") \/ Doing("incLink") => Head(todo).ino \in Ino
        BY Kinds DEF Doing, WellFormed
      <3>2. CutShort \subseteq Ino
        BY <3>1 DEF CutShort, WellFormed, Types
      <3> QED BY <2>2, <3>2 DEF Crash, WellFormed, Types
    <2> QED BY <2>1, <2>2
  <1>6. Plain(todo') /\ todo' \in Seq(AnyStep)
    BY <1>1 DEF Plain
  <1>7. Types'
    BY <1>1, <1>2, <1>3, <1>4, <1>5, <1>6 DEF WellFormed, Types
  <1> QED BY <1>1, <1>6, <1>7, DataStays, PlainFits

LEMMA MountFits ==
    ASSUME WellFormed, Mount
    PROVE  WellFormed' /\ Mounting(todo')
  <1>1. /\ running' = TRUE /\ UNCHANGED <<table, used, freeInodes, content, fds, store, calls, crashes, uncounted, lost>>
        /\ fds = NoFds
    BY DEF Mount, WellFormed, Stages
  <1>2. Step("resetOpens", Root) \in AnyStep /\ Step("save", Root) \in PlainStep
    BY InodesAssumption DEF AnyStep, PlainStep, Step, Root, Ino
  <1>3. Plain(<<Step("save", Root)>>)
    BY <1>2 DEF Plain
  <1>4. todo' \in Seq(AnyStep) /\ Mounting(todo')
    <2>1. todo' = <<Step("resetOpens", Root)>> \o <<Step("save", Root)>>
      BY DEF Mount
    <2> DEFINE a == Step("resetOpens", Root)
               t == <<Step("save", Root)>>
    <2>2. a \in AnyStep /\ Plain(t) /\ todo' = <<a>> \o t
      BY <1>2, <1>3, <2>1
    <2> HIDE DEF a, t
    <2>3. todo' \in Seq(AnyStep) /\ todo' # << >> /\ Head(todo') = a /\ Plain(Tail(todo'))
      BY <2>2, RowOfOne
    <2> QED BY <2>3 DEF Mounting, a
  <1>5. Types'
    BY <1>1, <1>4 DEF WellFormed, Types
  <1>6. Stages'
    <2>1. /\ ~CountFreed(todo')
          /\ \A j : /\ ~MarkNew(j, todo') /\ ~WriteNew(j, todo') /\ ~CountNew(j, todo') /\ ~AddNew(j, todo')
                    /\ ~WriteFreed(j, todo') /\ ~UnmarkFreed(j, todo') /\ ~AddLink(j, todo') /\ ~RemoveAndDrop(j, todo')
      BY <1>4, Heads
    <2> QED BY <1>1, <2>1 DEF Stages
  <1>7. Shape(todo')
    BY <1>4 DEF Shape
  <1> QED BY <1>1, <1>4, <1>5, <1>6, <1>7, DataStays DEF WellFormed

-----------------------------------------------------------------------------
(***************************************************************************)
(* The commands                                                            *)
(***************************************************************************)

LEMMA AllocAlone ==
    ASSUME NEW i \in Ino, NEW type \in {"file", "dir"}, NEW e, FirstEntry(i, e),
           NEW row, row = <<Step("mark", i), WriteEntry(i, NewInode(type)), CountBy(-1)>> \o <<e>>
    PROVE  row \in Seq(AnyStep) /\ MarkNew(i, row)
  <1> DEFINE x == <<Step("mark", i), WriteEntry(i, NewInode(type)), CountBy(-1)>>
  <1>1. x \in Seq({x[1], x[2], x[3]}) /\ <<e>> \in Seq({e})
    OBVIOUS
  <1> HIDE DEF x
  <1>2. row = (x \o <<e>>) \o << >>
    <2>1. row = x \o <<e>>
      BY DEF x
    <2>2. x \o <<e>> \in Seq({x[1], x[2], x[3]} \cup {e})
      BY <1>1
    <2>3. (x \o <<e>>) \o << >> = x \o <<e>>
      BY <2>2
    <2> QED BY <2>1, <2>2, <2>3
  <1>3. Plain(<< >>)
    BY DEF Plain
  <1> QED BY <1>2, <1>3, AllocRow DEF x

LEMMA RunFits ==
    ASSUME WellFormed, Idle, UNCHANGED <<table, used, freeInodes, content, running, store, crashes, uncounted>>,
           calls' \in 0..MaxCalls, fds' \in [Fd -> Ino \cup {None}], lost' \subseteq Ino
    PROVE  running' /\ RootKept' /\ InUseIsMarked' /\ (todo' \in Seq(AnyStep) => Types')
  <1>1. RootKept' /\ InUseIsMarked'
    BY DataStays
  <1>2. running'
    BY DEF Idle
  <1> QED BY <1>1, <1>2 DEF WellFormed, Types

LEMMA CallFits ==
    ASSUME WellFormed, Idle, UNCHANGED <<table, used, freeInodes, content, running, store, crashes, uncounted>>,
           calls + crashes < MaxCalls, calls' = calls + 1, fds' = fds, lost' = lost
    PROVE  running' /\ RootKept' /\ InUseIsMarked' /\ (todo' \in Seq(AnyStep) => Types')
  <1>1. calls' \in 0..MaxCalls /\ fds' \in [Fd -> Ino \cup {None}] /\ lost' \subseteq Ino
    BY NamespaceAssumption DEF WellFormed, Types
  <1> QED BY <1>1, RunFits

\* The same for a command that is one row of plain steps.
LEMMA PlainCallFits ==
    ASSUME WellFormed, running', RootKept', InUseIsMarked', todo' \in Seq(AnyStep) => Types', Plain(todo')
    PROVE  WellFormed'
  BY PlainFits, PlainIsAny

LEMMA DirsInUse ==
    ASSUME WellFormed
    PROVE  Reached \subseteq used /\ Reached \subseteq Ino /\ Dirs \subseteq used /\ Dirs \subseteq Ino
  BY DEF Reached, Dirs, WellFormed, Types

LEMMA ReopenPlain ==
    ASSUME NEW d \in Ino, NEW n \in Name
    PROVE  Reopen(d, n) \in Seq(PlainStep) /\ [op |-> "reopen", dir |-> d, name |-> n] \in PlainStep
  <1>1. [op |-> "reopen", dir |-> d, name |-> n] \in PlainStep
    BY DEF PlainStep
  <1> QED BY <1>1, Singleton DEF Reopen

LEMMA MakeFits ==
    ASSUME WellFormed, NEW d \in Dirs, NEW n \in Name, Mkdir(d, n) \/ CreateNew(d, n)
    PROVE  WellFormed' /\ CanAlloc /\ MarkNew(NewIno, todo')
  <1> DEFINE i == NewIno
  <1>1. /\ Idle /\ UNCHANGED <<table, used, freeInodes, content, running, store, crashes, uncounted>>
        /\ calls + crashes < MaxCalls /\ calls' = calls + 1 /\ fds' = fds /\ lost' = lost /\ CanAlloc
    BY DEF Mkdir, CreateNew, Call, Run
  <1>2. running' /\ RootKept' /\ InUseIsMarked' /\ (todo' \in Seq(AnyStep) => Types')
    BY <1>1, CallFits
  <1>3. i \in Ino \ used
    BY <1>1, NewInoIsFree DEF CanAlloc, WellFormed, Types
  <1>4. \E type \in {"file", "dir"} : \E e :
          FirstEntry(i, e) /\ todo' = <<Step("mark", i), WriteEntry(i, NewInode(type)), CountBy(-1)>> \o <<e>>
    <2>1. Reopen(d, n) \in Seq(PlainStep) /\ d \in Ino
      BY DirsInUse, ReopenPlain
    <2>2. CASE Mkdir(d, n)
      <3> DEFINE e == InitStep(d, n, i)
      <3>1. todo' = <<Step("mark", i), WriteEntry(i, NewInode("dir")), CountBy(-1)>> \o <<e>>
        BY <2>2 DEF Mkdir, Call, Run, AllocSteps
      <3>2. FirstEntry(i, e)
        BY <2>1 DEF FirstEntry
      <3> HIDE DEF e
      <3> QED BY <3>1, <3>2
    <2>3. CASE CreateNew(d, n)
      <3> DEFINE e == AddStep(d, n, i, Reopen(d, n), << >>)
      <3>1. todo' = <<Step("mark", i), WriteEntry(i, NewInode("file")), CountBy(-1)>> \o <<e>>
        BY <2>3 DEF CreateNew, Call, Run, AllocSteps
      <3>2. FirstEntry(i, e)
        BY <2>1 DEF FirstEntry
      <3> HIDE DEF e
      <3> QED BY <3>1, <3>2
    <2> QED BY <2>2, <2>3
  <1> HIDE DEF i
  <1>5. todo' \in Seq(AnyStep) /\ MarkNew(i, todo')
    BY <1>3, <1>4, AllocAlone
  <1>6. WellFormed'
    BY <1>1, <1>2, <1>3, <1>5, AllocFits
  <1> QED BY <1>1, <1>5, <1>6 DEF i

LEMMA CreateExistingFits ==
    ASSUME WellFormed, NEW d \in Dirs, NEW n \in Name, CreateExisting(d, n)
    PROVE  WellFormed' /\ Plain(todo')
  <1> DEFINE i == Resolve(d, n)
  <1>1. running' /\ RootKept' /\ InUseIsMarked' /\ (todo' \in Seq(AnyStep) => Types')
    BY CallFits DEF CreateExisting, Call, Run
  <1>2. i \in Ino
    BY ResolveIsInode DEF CreateExisting, WellFormed, Types
  <1>3. Step("truncate", i) \in PlainStep /\ Reopen(d, n) \in Seq(PlainStep)
    BY <1>2, DirsInUse, ReopenPlain DEF PlainStep, Step
  <1>4. todo' = <<Step("truncate", i)>> \o Reopen(d, n)
    BY DEF CreateExisting, Call, Run
  <1>5. Plain(todo')
    BY <1>3, <1>4 DEF Plain
  <1> QED BY <1>1, <1>5, PlainCallFits

\* A file is opened.
LEMMA OpenFits ==
    ASSUME WellFormed, NEW i \in Reached, NEW t \in BOOLEAN, Open(i, t)
    PROVE  WellFormed' /\ Opening(i, todo')
  <1> DEFINE a == Step("incOpen", i)
             rest == IF t THEN <<Step("truncate", i)>> ELSE << >>
  <1>1. i \in Ino
    BY DirsInUse
  <1>2. Min(FreeFds) \in Fd
    BY FdOf DEF FreeFds, Open
  <1>3. fds' \in [Fd -> Ino \cup {None}] /\ lost' \subseteq Ino /\ calls' \in 0..MaxCalls
    BY <1>1, <1>2, NamespaceAssumption DEF Open, Call, WellFormed, Types
  <1>4. running' /\ RootKept' /\ InUseIsMarked' /\ (todo' \in Seq(AnyStep) => Types')
    BY <1>3, RunFits DEF Open, Call, Run
  <1>5. Plain(rest) /\ a \in AnyStep
    <2>1. Step("truncate", i) \in PlainStep /\ a \in AnyStep
      BY <1>1 DEF PlainStep, AnyStep, Step
    <2>2. Plain(<<Step("truncate", i)>>) /\ Plain(<< >>)
      BY <2>1 DEF Plain
    <2> QED BY <2>1, <2>2
  <1>6. todo' = <<a>> \o rest
    BY DEF Open, Call, Run
  <1> HIDE DEF a, rest
  <1>7. todo' \in Seq(AnyStep) /\ todo' # << >> /\ Head(todo') = a /\ Plain(Tail(todo'))
    BY <1>5, <1>6, RowOfOne
  <1>8. Opening(i, todo')
    BY <1>7 DEF Opening, a
  <1>9. Stages'
    <2>1. /\ ~Mounting(todo') /\ ~CountFreed(todo')
          /\ \A j : /\ ~MarkNew(j, todo') /\ ~WriteNew(j, todo') /\ ~CountNew(j, todo') /\ ~AddNew(j, todo')
                    /\ ~WriteFreed(j, todo') /\ ~UnmarkFreed(j, todo') /\ ~AddLink(j, todo') /\ ~RemoveAndDrop(j, todo')
      BY <1>8, Heads
    <2> QED BY <1>4, <2>1 DEF Stages
  <1>10. Shape(todo')
    BY <1>1, <1>8 DEF Shape
  <1> QED BY <1>4, <1>7, <1>8, <1>9, <1>10 DEF WellFormed

LEMMA CloseFits ==
    ASSUME WellFormed, NEW f \in Fd, Close(f)
    PROVE  WellFormed' /\ Closing(fds[f], todo')
  <1> DEFINE i == fds[f]
             a == Step("decOpen", i)
  <1>1. i \in Ino
    BY DEF WellFormed, Types, Close
  <1>2. fds' \in [Fd -> Ino \cup {None}] /\ lost' \subseteq Ino /\ calls' \in 0..MaxCalls
    BY NamespaceAssumption DEF Close, Call, WellFormed, Types
  <1>3. running' /\ RootKept' /\ InUseIsMarked' /\ (todo' \in Seq(AnyStep) => Types')
    BY <1>2, RunFits DEF Close, Call, Run
  <1>4. a \in AnyStep /\ Plain(<< >>)
    BY <1>1 DEF AnyStep, Step, Plain
  <1>5. todo' = <<a>>
    BY DEF Close, Call, Run
  <1> HIDE DEF a, i
  <1>6. todo' \in Seq(AnyStep) /\ todo' # << >> /\ Head(todo') = a /\ Plain(Tail(todo'))
    BY <1>4, <1>5
  <1>7. Closing(i, todo')
    BY <1>6 DEF Closing, a
  <1>8. Stages'
    <2>1. /\ ~Mounting(todo') /\ ~CountFreed(todo')
          /\ \A j : /\ ~MarkNew(j, todo') /\ ~WriteNew(j, todo') /\ ~CountNew(j, todo') /\ ~AddNew(j, todo')
                    /\ ~WriteFreed(j, todo') /\ ~UnmarkFreed(j, todo') /\ ~AddLink(j, todo') /\ ~RemoveAndDrop(j, todo')
      BY <1>7, Heads
    <2> QED BY <1>3, <2>1 DEF Stages
  <1>9. Shape(todo')
    BY <1>1, <1>7 DEF Shape
  <1>10. WellFormed'
    BY <1>3, <1>6, <1>8, <1>9 DEF WellFormed
  <1> QED BY <1>7, <1>10 DEF i

LEMMA PlainCommandFits ==
    ASSUME WellFormed, (\E f \in Fd, s \in Slot : Write(f, s)) \/ ChangeUsers \/ Logout \/ Exit
    PROVE  WellFormed' /\ Plain(todo')
  <1>1. CASE \E f \in Fd, s \in Slot : Write(f, s)
    <2>1. PICK f \in Fd, s \in Slot : Write(f, s)
      BY <1>1
    <2>2. WriteStep(fds[f], s, "text") \in PlainStep
      BY <2>1 DEF Write, WriteStep, PlainStep, WellFormed, Types
    <2>3. running' /\ RootKept' /\ InUseIsMarked' /\ (todo' \in Seq(AnyStep) => Types')
      BY <2>1, CallFits DEF Write, Call, Run
    <2>4. Plain(todo')
      BY <2>1, <2>2 DEF Write, Call, Run, Plain
    <2> QED BY <2>3, <2>4, PlainCallFits
  <1>2. CASE ChangeUsers
    <2>1. Step("save", Root) \in PlainStep
      BY InodesAssumption DEF PlainStep, Step, Root, Ino
    <2>2. running' /\ RootKept' /\ InUseIsMarked' /\ (todo' \in Seq(AnyStep) => Types')
      BY <1>2, CallFits DEF ChangeUsers, Call, Run
    <2>3. Plain(todo')
      BY <1>2, <2>1 DEF ChangeUsers, Call, Run, Plain
    <2> QED BY <2>2, <2>3, PlainCallFits
  <1>3. CASE Logout
    <2>1. CloseAllStep(<< >>) \in PlainStep
      BY DEF PlainStep, CloseAllStep
    <2>2. running' /\ RootKept' /\ InUseIsMarked' /\ (todo' \in Seq(AnyStep) => Types')
      BY <1>3, CallFits DEF Logout, Call, Run
    <2>3. Plain(todo')
      BY <1>3, <2>1 DEF Logout, Call, Run, Plain
    <2> QED BY <2>2, <2>3, PlainCallFits
  <1>4. CASE Exit
    <2> DEFINE a == CloseAllStep(<<Step("save", Root), Step("halt", Root)>>)
    <2>1. a \in PlainStep
      BY DEF PlainStep, CloseAllStep
    <2>2. running' /\ RootKept' /\ InUseIsMarked' /\ (todo' \in Seq(AnyStep) => Types')
      <3>1. calls' \in 0..MaxCalls /\ fds' \in [Fd -> Ino \cup {None}] /\ lost' \subseteq Ino
        BY <1>4 DEF Exit, Run, WellFormed, Types
      <3> QED BY <1>4, <3>1, RunFits DEF Exit, Run
    <2>3. todo' = <<a>>
      BY <1>4 DEF Exit, Run
    <2> HIDE DEF a
    <2>4. Plain(todo')
      BY <2>1, <2>3 DEF Plain
    <2> QED BY <2>2, <2>4, PlainCallFits
  <1> QED BY <1>1, <1>2, <1>3, <1>4

LEMMA RemoveAndDropFits ==
    ASSUME WellFormed, NEW d \in Dirs, NEW n \in Name, Delete(d, n) \/ Rmdir(d, n)
    PROVE  /\ WellFormed' /\ RemoveAndDrop(Resolve(d, n), todo')
           /\ \/ Delete(d, n) /\ DropLink(Resolve(d, n), Tail(todo'))
              \/ Rmdir(d, n) /\ EmptyAndDrop(Resolve(d, n), Tail(todo'))
  <1> DEFINE i == Resolve(d, n)
             a == [op |-> "remove", dir |-> d, name |-> n]
             b == Step("truncate", i)
             c == Step("decLink", i)
  <1>1. d \in Ino /\ i # None
    BY DirsInUse DEF Delete, Rmdir
  <1>2. i \in Ino \ {Root}
    BY RemovedIsNotRoot
  <1>3. Matching(d, n) # {} /\ content[d][Found(d, n)].ino = i
    BY <1>1, ResolveIsInode
  <1>4. running' /\ RootKept' /\ InUseIsMarked' /\ (todo' \in Seq(AnyStep) => Types')
    <2>1. calls' \in 0..MaxCalls /\ fds' \in [Fd -> Ino \cup {None}] /\ lost' \subseteq Ino
      BY <1>2, NamespaceAssumption DEF Delete, Rmdir, Call, WellFormed, Types
    <2>2. Idle /\ UNCHANGED <<table, used, freeInodes, content, running, store, crashes, uncounted>>
      BY DEF Delete, Rmdir, Call, Run
    <2> QED BY <2>1, <2>2, RunFits
  <1>5. a \in AnyStep /\ b \in AnyStep /\ c \in AnyStep
    BY <1>1, <1>2 DEF AnyStep, Step
  <1>6. (Delete(d, n) /\ todo' = <<a, c>>) \/ (Rmdir(d, n) /\ todo' = <<a, b, c>>)
    BY DEF Delete, Rmdir, Call, Run
  <1>7. content' = content
    BY DEF Delete, Rmdir, Call, Run
  <1> HIDE DEF a, b, c, i
  <1>8. /\ todo' \in Seq(AnyStep) /\ RemoveAndDrop(i, todo') /\ Head(todo') = a
        /\ (Delete(d, n) /\ DropLink(i, Tail(todo'))) \/ (Rmdir(d, n) /\ EmptyAndDrop(i, Tail(todo')))
    <2>1. Plain(<< >>) /\ << >> \in Seq(AnyStep)
      BY DEF Plain
    <2>2. <<a, c>> \o << >> = <<a, c>> /\ <<a, b, c>> \o << >> = <<a, b, c>>
      BY <1>5
    <2>3. CASE Delete(d, n) /\ todo' = <<a, c>>
      <3>1. TwoThen(<<a, c>>, a, c, << >>)
        BY <1>5, <2>1, <2>2, RowOfTwo
      <3>2. TwoThen(todo', a, c, << >>)
        BY <2>3, <3>1
      <3> QED BY <1>1, <2>1, <2>3, <3>2 DEF TwoThen, RemoveAndDrop, DropLink, a, c
    <2>4. CASE Rmdir(d, n) /\ todo' = <<a, b, c>>
      <3>1. ThreeThen(<<a, b, c>>, a, b, c, << >>)
        BY <1>5, <2>1, <2>2, RowOfThree
      <3>2. ThreeThen(todo', a, b, c, << >>)
        BY <2>4, <3>1
      <3> QED BY <1>1, <2>1, <2>4, <3>2 DEF ThreeThen, TwoThen, RemoveAndDrop, DropLink, EmptyAndDrop, a, b, c
    <2> QED BY <1>6, <2>3, <2>4
  <1>9. Stages'
    <2>1. /\ ~Mounting(todo') /\ ~CountFreed(todo')
          /\ \A j : /\ ~MarkNew(j, todo') /\ ~WriteNew(j, todo') /\ ~CountNew(j, todo') /\ ~AddNew(j, todo')
                    /\ ~WriteFreed(j, todo') /\ ~UnmarkFreed(j, todo') /\ ~AddLink(j, todo')
      BY <1>8, Heads
    <2>2. ASSUME NEW j, RemoveAndDrop(j, todo')
          PROVE  j = i
      <3>1. Head(Tail(todo')).ino = i
        BY <1>8 DEF RemoveAndDrop, DropLink, EmptyAndDrop, Step
      <3>2. Head(Tail(todo')).ino = j
        BY <2>2 DEF RemoveAndDrop, DropLink, EmptyAndDrop, Step
      <3> QED BY <3>1, <3>2
    <2>3. Head(todo').dir = d /\ Head(todo').name = n
      BY <1>8 DEF a
    <2>4. Matching(d, n)' # {} /\ content'[d][Found(d, n)'].ino = i
      BY <1>3, <1>7 DEF Matching, EntrySlots, Found
    <2> QED BY <1>4, <2>1, <2>2, <2>3, <2>4 DEF Stages
  <1>10. Shape(todo')
    BY <1>2, <1>8 DEF Shape
  <1>11. WellFormed'
    BY <1>4, <1>8, <1>9, <1>10 DEF WellFormed
  <1> QED BY <1>8, <1>11 DEF i

LEMMA LinkFits ==
    ASSUME WellFormed, NEW i \in Reached, NEW d \in Reached, NEW n \in Name, Link(i, d, n)
    PROVE  WellFormed' /\ AddLink(i, todo')
  <1> DEFINE a == AddStep(d, n, i, <<Step("incLink", i)>>, << >>)
  <1>1. i \in Ino /\ d \in Ino /\ table[i].type # "dir"
    BY DirsInUse DEF Link
  <1>2. i # Root
    BY <1>1 DEF WellFormed, RootKept
  <1>3. running' /\ RootKept' /\ InUseIsMarked' /\ (todo' \in Seq(AnyStep) => Types')
    BY CallFits DEF Link, Call, Run
  <1>4. a \in AnyStep
    <2>1. <<Step("incLink", i)>> \in Seq(PlainStep \cup [op : {"incLink"}, ino : Ino])
      <3>1. Step("incLink", i) \in PlainStep \cup [op : {"incLink"}, ino : Ino]
        BY <1>1 DEF Step
      <3> QED BY <3>1, Singleton
    <2>2. << >> \in Seq([op : {"free"}, ino : Ino])
      OBVIOUS
    <2> QED BY <1>1, <2>1, <2>2 DEF AnyStep, AddStep
  <1>5. todo' = <<a>> /\ table' = table
    BY DEF Link, Call, Run
  <1> HIDE DEF a
  <1>6. todo' \in Seq(AnyStep) /\ todo' # << >> /\ Head(todo') = a /\ Plain(Tail(todo'))
    BY <1>4, <1>5 DEF Plain
  <1>7. AddLink(i, todo')
    BY <1>1, <1>6 DEF AddLink, a
  <1>8. Stages'
    <2>1. /\ ~Mounting(todo') /\ ~CountFreed(todo')
          /\ \A j : /\ ~MarkNew(j, todo') /\ ~WriteNew(j, todo') /\ ~CountNew(j, todo')
                    /\ ~WriteFreed(j, todo') /\ ~UnmarkFreed(j, todo') /\ ~RemoveAndDrop(j, todo')
                    /\ AddLink(j, todo') => j = i
      BY <1>7, Heads
    <2>2. ASSUME NEW j, AddNew(j, todo')
          PROVE  FALSE
      BY <1>7, <2>2, NewOrLinked
    <2> QED BY <1>1, <1>3, <1>5, <2>1, <2>2 DEF Stages
  <1>9. Shape(todo')
    BY <1>1, <1>2, <1>7 DEF Shape
  <1> QED BY <1>3, <1>6, <1>7, <1>8, <1>9 DEF WellFormed

-----------------------------------------------------------------------------
(***************************************************************************)
(* Every step keeps the state well formed                                  *)
(***************************************************************************)

LEMMA InitWellFormed ==
    ASSUME Init
    PROVE  WellFormed
  <1>1. Plain(todo) /\ todo \in Seq(AnyStep)
    BY DEF Init, Plain
  <1>2. Shape(todo)
    BY <1>1 DEF Shape
  <1>3. Types
    <2>1. Empty \in [Slot -> Piece] /\ NewInode("dir") \in InodeRecord /\ FreeInode \in InodeRecord
      BY DEF Empty, Piece, NewInode, FreeInode, InodeRecord
    <2>2. 0 \in Ino /\ LastIno \in Int /\ NoFds \in [Fd -> Ino \cup {None}]
      BY InodesAssumption DEF Ino, NoFds
    <2> QED BY <1>1, <2>1, <2>2, NamespaceAssumption DEF Init, Types, Root
  <1>4. Stages
    BY <1>1, StagesOfPlain DEF Stages, Init
  <1>5. RootKept /\ InUseIsMarked
    <2>1. Root \in Ino
      BY InodesAssumption DEF Ino, Root
    <2> QED BY <2>1 DEF Init, RootKept, InUseIsMarked, NewInode
  <1> QED BY <1>2, <1>3, <1>4, <1>5 DEF WellFormed

LEMMA WorkFits ==
    ASSUME WellFormed, Work
    PROVE  WellFormed'
  <1>1. CASE InodeStep /\ lost' = (lost \cup FreeLoses) \cap used' /\ UNCHANGED <<store, uncounted>>
    <2>1. lost' \subseteq Ino
      <3>1. lost' \subseteq used \cup {Head(todo).ino} /\ (Doing("mark") \/ lost' \subseteq used)
        BY <1>1 DEF InodeStep, Mark, WriteTable, Count, Free, Unmark, IncLink, DecLink, IncOpen, DecOpen,
                    ResetOpenCounts, WriteOrFree
      <3>2. Doing("mark") => Head(todo).ino \in Ino
        BY Kinds DEF Doing, WellFormed
      <3> QED BY <3>1, <3>2 DEF WellFormed, Types
    <2>2. UNCHANGED <<running, fds, store, calls, crashes, uncounted>>
      BY <1>1 DEF Work
    <2> QED BY <1>1, <2>1, <2>2, MarkFits, WriteTableFits, CountFits, FreeFits, UnmarkFits, IncLinkFits,
               DecLinkFits, IncOpenFits, DecOpenFits, ResetOpenCountsFits DEF InodeStep
  <1>2. CASE InitDir \/ AddEntry \/ RemoveEntry \/ Truncate \/ WriteData
    BY <1>2, InitDirFits, AddEntryFits, RemoveEntryFits, TruncateFits, WriteDataFits DEF Work
  <1>3. CASE OpenAndClose \/ SaveUsers \/ Remember
    BY <1>3, OpenAndCloseFits, SaveUsersFits, RememberFits DEF Work
  <1> QED BY <1>1, <1>2, <1>3 DEF Work

LEMMA CommandFits ==
    ASSUME WellFormed, Command
    PROVE  WellFormed'
  <1>1. CASE \E d \in Dirs, n \in Name :
               Mkdir(d, n) \/ CreateNew(d, n) \/ CreateExisting(d, n) \/ Delete(d, n) \/ Rmdir(d, n)
    BY <1>1, MakeFits, CreateExistingFits, RemoveAndDropFits
  <1>2. CASE \E i, d \in Reached, n \in Name : Link(i, d, n)
    BY <1>2, LinkFits
  <1>3. CASE \E i \in Reached, t \in BOOLEAN : Open(i, t)
    BY <1>3, OpenFits
  <1>4. CASE \E f \in Fd : Close(f) \/ \E s \in Slot : Write(f, s)
    BY <1>4, CloseFits, PlainCommandFits
  <1>5. CASE ChangeUsers \/ Logout \/ Exit
    BY <1>5, PlainCommandFits
  <1> QED BY <1>1, <1>2, <1>3, <1>4, <1>5 DEF Command

LEMMA NextWellFormed ==
    ASSUME WellFormed, [Next]_vars
    PROVE  WellFormed'
  <1>1. CASE Next
    BY <1>1, CommandFits, WorkFits, CloseAllFits, HaltOrCrashFits, MountFits DEF Next
  <1>2. CASE UNCHANGED vars
    BY <1>2 DEF vars, inodeVars, WellFormed, Types, Stages, RootKept, InUseIsMarked, Matching, EntrySlots, Found
  <1> QED BY <1>1, <1>2

\* Every variable has its type but for the free inode count, the writes that are
\* still to be made are the rest of one call, the root is never freed, and an inode
\* in use is marked in the bitmap: what the other theorems start from.
THEOREM StaysWellFormed == Spec => []WellFormed
  <1>1. Init => WellFormed
    BY InitWellFormed
  <1>2. WellFormed /\ [Next]_vars => WellFormed'
    BY NextWellFormed
  <1> QED BY <1>1, <1>2, PTL DEF Spec

\* Whatever a kill leaves behind, an inode whose table entry is in use is marked
\* in the bitmap, so that it is never handed out a second time.
THEOREM NeverHandedOutTwice == Spec => []InUseIsMarked
  <1>1. WellFormed => InUseIsMarked
    BY DEF WellFormed
  <1> QED BY <1>1, StaysWellFormed, PTL

-----------------------------------------------------------------------------
(***************************************************************************)
(* The free inode count, and the inodes that fsck finds wrong              *)
(***************************************************************************)

\* What is still to be added to the free inode count.
Owed(s) ==
    IF \E i \in Ino \ {Root} : WriteNew(i, s) \/ CountNew(i, s) THEN -1
    ELSE IF CountFreed(s) THEN 1 ELSE 0

\* The inode that the running call is about to put right.
InWork(s) == {i \in Ino : WriteNew(i, s) \/ UnmarkFreed(i, s)}

CountRight == freeInodes + Owed(todo) - Cardinality(Ino \ used) \in -crashes..crashes
StatesRight == Cardinality(WrongState \ InWork(todo)) <= crashes

Quiet(s) == ~CountFreed(s) /\ \A i : ~WriteNew(i, s) /\ ~CountNew(i, s) /\ ~UnmarkFreed(i, s)

LEMMA QuietRows ==
    ASSUME NEW s,
           \/ Plain(s) \/ Mounting(s)
           \/ \E i : \/ MarkNew(i, s) \/ AddNew(i, s) \/ FreeIt(i, s) \/ WriteFreed(i, s)
                     \/ AddLink(i, s) \/ CountLink(i, s) \/ RemoveAndDrop(i, s) \/ EmptyAndDrop(i, s) \/ DropLink(i, s)
                     \/ Opening(i, s) \/ Passing(i, s) \/ Closing(i, s)
    PROVE  Quiet(s)
  <1>1. CASE Plain(s)
    BY <1>1, StagesOfPlain DEF Quiet
  <1>2. CASE Mounting(s)
    BY <1>2, Heads DEF Quiet
  <1>3. CASE \E i : MarkNew(i, s) \/ AddNew(i, s) \/ FreeIt(i, s)
    BY <1>3, Heads DEF Quiet
  <1>4. CASE \E i : WriteFreed(i, s)
    BY <1>4, Heads DEF Quiet
  <1>5. CASE \E i : AddLink(i, s) \/ CountLink(i, s) \/ RemoveAndDrop(i, s)
    BY <1>5, Heads DEF Quiet
  <1>6. CASE \E i : EmptyAndDrop(i, s) \/ DropLink(i, s)
    BY <1>6, Heads DEF Quiet
  <1>7. CASE \E i : Opening(i, s) \/ Passing(i, s) \/ Closing(i, s)
    BY <1>7, Heads DEF Quiet
  <1> QED BY <1>1, <1>2, <1>3, <1>4, <1>5, <1>6, <1>7

LEMMA NothingIsQuiet == Plain(<< >>) /\ Quiet(<< >>)
  <1>1. Plain(<< >>)
    BY DEF Plain
  <1> QED BY <1>1, QuietRows

LEMMA QuietOwesNothing ==
    ASSUME NEW s, Quiet(s)
    PROVE  Owed(s) = 0 /\ InWork(s) = {}
  BY DEF Quiet, Owed, InWork

\* Most steps leave both counts and the state of every inode alone.
QuietStep ==
    /\ Quiet(todo) /\ Quiet(todo')
    /\ UNCHANGED <<used, freeInodes, crashes>>
    /\ \A i \in Ino : table'[i].type = table[i].type

LEMMA CountsKeepTypes ==
    ASSUME WellFormed, NEW j, NEW n,
           \/ WriteOrFree(j, [table[j] EXCEPT !.links = n])
           \/ WriteOrFree(j, [table[j] EXCEPT !.opens = n])
    PROVE  \A i \in Ino : table'[i].type = table[i].type
  <1>1. \/ table' = table
        \/ table' = [table EXCEPT ![j] = [table[j] EXCEPT !.links = n]]
        \/ table' = [table EXCEPT ![j] = [table[j] EXCEPT !.opens = n]]
    BY DEF WriteOrFree
  <1>2. table \in [Ino -> InodeRecord]
    BY DEF WellFormed, Types
  <1>3. ASSUME NEW i \in Ino
        PROVE  table'[i].type = table[i].type
    <2>1. table[i] \in InodeRecord
      BY <1>2
    <2> QED BY <1>1, <1>2, <2>1 DEF InodeRecord
  <1> QED BY <1>3

LEMMA InodeStepIsQuiet ==
    ASSUME WellFormed, Free \/ IncLink \/ DecLink \/ IncOpen \/ DecOpen \/ ResetOpenCounts,
           UNCHANGED <<running, fds, store, calls, crashes, uncounted>>, lost' \subseteq Ino
    PROVE  QuietStep
  <1>1. CASE Free
    <2>1. FreeIt(Head(todo).ino, todo) /\ WriteFreed(Head(todo).ino, todo')
      BY <1>1, FreeFits
    <2> QED BY <1>1, <2>1, QuietRows DEF QuietStep, Free
  <1>2. CASE IncLink
    <2>1. CountLink(Head(todo).ino, todo) /\ Plain(todo')
      BY <1>2, IncLinkFits
    <2>2. \A i \in Ino : table'[i].type = table[i].type
      BY <1>2 DEF IncLink, WellFormed, Types, InodeRecord
    <2> QED BY <1>2, <2>1, <2>2, QuietRows DEF QuietStep, IncLink
  <1>3. CASE DecLink
    <2>1. DropLink(Head(todo).ino, todo) /\ (FreeIt(Head(todo).ino, todo') \/ Plain(todo'))
      BY <1>3, DecLinkFits
    <2>2. \A i \in Ino : table'[i].type = table[i].type
      BY <1>3, CountsKeepTypes DEF DecLink
    <2> QED BY <1>3, <2>1, <2>2, QuietRows DEF QuietStep, DecLink, WriteOrFree
  <1>4. CASE IncOpen
    <2>1. /\ Opening(Head(todo).ino, todo) \/ Passing(Head(todo).ino, todo)
          /\ Plain(todo') \/ Closing(Head(todo).ino, todo')
      BY <1>4, IncOpenFits
    <2>2. \A i \in Ino : table'[i].type = table[i].type
      BY <1>4 DEF IncOpen, WellFormed, Types, InodeRecord
    <2> QED BY <1>4, <2>1, <2>2, QuietRows DEF QuietStep, IncOpen
  <1>5. CASE DecOpen
    <2>1. Closing(Head(todo).ino, todo) /\ (FreeIt(Head(todo).ino, todo') \/ Plain(todo'))
      BY <1>5, DecOpenFits
    <2>2. \A i \in Ino : table'[i].type = table[i].type
      BY <1>5, CountsKeepTypes DEF DecOpen
    <2> QED BY <1>5, <2>1, <2>2, QuietRows DEF QuietStep, DecOpen, WriteOrFree
  <1>6. CASE ResetOpenCounts
    <2>1. Mounting(todo) /\ Plain(todo')
      BY <1>6, ResetOpenCountsFits
    <2>2. \A i \in Ino : table'[i].type = table[i].type
      BY <1>6 DEF ResetOpenCounts, WellFormed, Types, InodeRecord
    <2> QED BY <1>6, <2>1, <2>2, QuietRows DEF QuietStep, ResetOpenCounts
  <1> QED BY <1>1, <1>2, <1>3, <1>4, <1>5, <1>6

LEMMA OtherWorkIsQuiet ==
    ASSUME WellFormed, UNCHANGED <<running, fds, calls, crashes>>,
           \/ InitDir \/ AddEntry \/ RemoveEntry \/ Truncate \/ WriteData
           \/ OpenAndClose \/ SaveUsers \/ Remember
    PROVE  QuietStep
  <1>1. Quiet(todo) /\ Quiet(todo')
    <2>1. CASE AddEntry
      <3>1. /\ AddNew(Head(todo).ino, todo) \/ AddLink(Head(todo).ino, todo)
            /\ Plain(todo') \/ FreeIt(Head(todo).ino, todo') \/ CountLink(Head(todo).ino, todo')
        BY <2>1, AddEntryFits
      <3> QED BY <3>1, QuietRows
    <2>2. CASE RemoveEntry
      <3>1. PICK i : RemoveAndDrop(i, todo) /\ Dropping(i, todo')
        BY <2>2, RemoveEntryFits
      <3> QED BY <3>1, QuietRows DEF Dropping
    <2>3. CASE Truncate
      <3>1. /\ Plain(todo) \/ EmptyAndDrop(Head(todo).ino, todo)
            /\ Plain(todo') \/ DropLink(Head(todo).ino, todo')
        BY <2>3, TruncateFits
      <3> QED BY <3>1, QuietRows
    <2>4. CASE WriteData
      BY <2>4, WriteDataFits, QuietRows
    <2>5. CASE OpenAndClose
      <3>1. Plain(todo) /\ (Plain(todo') \/ \E i \in Ino : Passing(i, todo'))
        BY <2>5, OpenAndCloseFits
      <3> QED BY <3>1, QuietRows
    <2>6. CASE SaveUsers
      <3>1. Plain(todo) /\ (Plain(todo') \/ MarkNew(NewIno, todo'))
        BY <2>6, SaveUsersFits
      <3> QED BY <3>1, QuietRows
    <2>7. CASE Remember
      BY <2>7, RememberFits, QuietRows
    <2>8. CASE InitDir
      <3>1. AddNew(Head(todo).ino, todo) /\ (AddNew(Head(todo).ino, todo') \/ Plain(todo'))
        BY <2>8, InitDirFits
      <3> QED BY <3>1, QuietRows
    <2> QED BY <2>1, <2>2, <2>3, <2>4, <2>5, <2>6, <2>7, <2>8
  <1> QED BY <1>1 DEF QuietStep, InitDir, AddEntry, RemoveEntry, Truncate, WriteData, OpenAndClose, SaveUsers, Remember

LEMMA CommandIsQuiet ==
    ASSUME WellFormed, Idle, Command
    PROVE  QuietStep
  <1>1. Quiet(todo)
    BY NothingIsQuiet DEF Idle
  <1>2. UNCHANGED <<table, used, freeInodes, crashes>>
    BY DEF Command, Mkdir, CreateNew, CreateExisting, Delete, Rmdir, Link, Open, Close, Write, ChangeUsers, Logout,
           Exit, Call, Run
  <1>3. Quiet(todo')
    <2>1. ASSUME NEW d \in Dirs, NEW n \in Name, Mkdir(d, n) \/ CreateNew(d, n)
          PROVE  Quiet(todo')
      BY <2>1, MakeFits, QuietRows
    <2>2. ASSUME NEW d \in Dirs, NEW n \in Name, CreateExisting(d, n)
          PROVE  Quiet(todo')
      BY <2>2, CreateExistingFits, QuietRows
    <2>3. ASSUME NEW d \in Dirs, NEW n \in Name, Delete(d, n) \/ Rmdir(d, n)
          PROVE  Quiet(todo')
      BY <2>3, RemoveAndDropFits, QuietRows
    <2>4. ASSUME NEW i \in Reached, NEW d \in Reached, NEW n \in Name, Link(i, d, n)
          PROVE  Quiet(todo')
      BY <2>4, LinkFits, QuietRows
    <2>5. ASSUME NEW i \in Reached, NEW t \in BOOLEAN, Open(i, t)
          PROVE  Quiet(todo')
      BY <2>5, OpenFits, QuietRows
    <2>6. ASSUME NEW f \in Fd, Close(f)
          PROVE  Quiet(todo')
      BY <2>6, CloseFits, QuietRows
    <2>7. ASSUME (\E f \in Fd, s \in Slot : Write(f, s)) \/ ChangeUsers \/ Logout \/ Exit
          PROVE  Quiet(todo')
      BY <2>7, PlainCommandFits, QuietRows
    <2> QED BY <2>1, <2>2, <2>3, <2>4, <2>5, <2>6, <2>7 DEF Command
  <1> QED BY <1>1, <1>2, <1>3 DEF QuietStep

LEMMA CloseAllIsQuiet ==
    ASSUME WellFormed, CloseAll
    PROVE  QuietStep
  <1>1. Plain(todo) /\ (Plain(todo') \/ \E i : Closing(i, todo'))
    BY CloseAllFits
  <1> QED BY <1>1, QuietRows DEF QuietStep, CloseAll

LEMMA HaltOrMountIsQuiet ==
    ASSUME WellFormed, Halt \/ Mount
    PROVE  QuietStep
  <1>1. Quiet(todo)
    <2>1. CASE Halt
      BY <2>1, Kinds, QuietRows DEF Halt, Doing, WellFormed
    <2>2. CASE Mount
      BY <2>2, NothingIsQuiet DEF Mount, WellFormed, Stages
    <2> QED BY <2>1, <2>2
  <1>2. Quiet(todo')
    <2>1. CASE Halt
      BY <2>1, NothingIsQuiet DEF Halt
    <2>2. CASE Mount
      BY <2>2, MountFits, QuietRows
    <2> QED BY <2>1, <2>2
  <1> QED BY <1>1, <1>2 DEF QuietStep, Halt, Mount

InoIsFinite == IsFiniteSet(Ino) /\ Cardinality(Ino) = LastIno + 1

LEMMA SizeOfIno == InoIsFinite
  BY FS_Interval, InodesAssumption DEF InoIsFinite, Ino

LEMMA SizeOfPart ==
    ASSUME NEW S \in SUBSET Ino
    PROVE  /\ IsFiniteSet(S) /\ Cardinality(S) \in Nat /\ Cardinality(S) <= LastIno + 1
           /\ \A x : /\ IsFiniteSet(S \ {x}) /\ Cardinality(S \ {x}) \in Nat
                     /\ x \in S => Cardinality(S \ {x}) = Cardinality(S) - 1 /\ Cardinality(S) > 0
                     /\ x \notin S => S \ {x} = S
           /\ \A T \in SUBSET S : IsFiniteSet(T) /\ Cardinality(T) \in Nat /\ Cardinality(T) <= Cardinality(S)
  <1>1. IsFiniteSet(S) /\ Cardinality(S) <= LastIno + 1
    BY SizeOfIno, FS_Subset DEF InoIsFinite
  <1>2. Cardinality(S) \in Nat
    BY <1>1, FS_CardinalityType
  <1>3. ASSUME NEW x
        PROVE  /\ IsFiniteSet(S \ {x}) /\ Cardinality(S \ {x}) \in Nat
               /\ x \in S => Cardinality(S \ {x}) = Cardinality(S) - 1 /\ Cardinality(S) > 0
               /\ x \notin S => S \ {x} = S
    <2>1. IsFiniteSet(S \ {x}) /\ Cardinality(S \ {x}) = IF x \in S THEN Cardinality(S) - 1 ELSE Cardinality(S)
      BY <1>1, FS_RemoveElement
    <2>2. Cardinality(S \ {x}) \in Nat
      BY <2>1, FS_CardinalityType
    <2> QED BY <1>2, <2>1, <2>2
  <1>4. ASSUME NEW T \in SUBSET S
        PROVE  IsFiniteSet(T) /\ Cardinality(T) \in Nat /\ Cardinality(T) <= Cardinality(S)
    BY <1>1, FS_Subset, FS_CardinalityType
  <1> QED BY <1>1, <1>2, <1>3, <1>4

LEMMA QuietKeepsCounts ==
    ASSUME WellFormed, QuietStep, CountRight, StatesRight
    PROVE  CountRight' /\ StatesRight'
  <1>1. WrongState' = WrongState
    BY DEF QuietStep, WrongState
  <1>2. Owed(todo) = 0 /\ Owed(todo') = 0 /\ InWork(todo) = {} /\ InWork(todo') = {}
    BY QuietOwesNothing DEF QuietStep
  <1> QED BY <1>1, <1>2 DEF QuietStep, CountRight, StatesRight

LEMMA FormsOfWork ==
    ASSUME NEW s, NEW i \in Ino
    PROVE  /\ WriteNew(i, s) => InWork(s) = {i} /\ (i # Root => Owed(s) = -1)
           /\ CountNew(i, s) => InWork(s) = {} /\ (i # Root => Owed(s) = -1)
           /\ UnmarkFreed(i, s) => InWork(s) = {i} /\ Owed(s) = 0
  <1>1. ASSUME WriteNew(i, s)
        PROVE  InWork(s) = {i} /\ (i # Root => Owed(s) = -1)
    <2>1. \A j : ~UnmarkFreed(j, s) /\ (WriteNew(j, s) => j = i)
      BY <1>1, Heads
    <2> QED BY <1>1, <2>1 DEF InWork, Owed
  <1>2. ASSUME CountNew(i, s)
        PROVE  InWork(s) = {} /\ (i # Root => Owed(s) = -1)
    <2>1. \A j : ~UnmarkFreed(j, s) /\ ~WriteNew(j, s)
      BY <1>2, Heads
    <2> QED BY <1>2, <2>1 DEF InWork, Owed
  <1>3. ASSUME UnmarkFreed(i, s)
        PROVE  InWork(s) = {i} /\ Owed(s) = 0
    <2>1. ~CountFreed(s) /\ \A j : ~WriteNew(j, s) /\ ~CountNew(j, s)
      BY <1>3, Heads
    <2>2. \A j : UnmarkFreed(j, s) => j = i
      BY <1>3, Heads
    <2> QED BY <1>3, <2>1, <2>2 DEF InWork, Owed
  <1> QED BY <1>1, <1>2, <1>3

LEMMA FreedIsOwed ==
    ASSUME NEW s, CountFreed(s)
    PROVE  InWork(s) = {} /\ Owed(s) = 1
  <1>1. \A j : ~WriteNew(j, s) /\ ~CountNew(j, s) /\ ~UnmarkFreed(j, s)
    BY Heads
  <1> QED BY <1>1 DEF InWork, Owed

\* Fewer inodes are wrong.
LEMMA FewerWrong ==
    ASSUME StatesRight, WrongState' \ InWork(todo') \subseteq WrongState \ InWork(todo), UNCHANGED crashes,
           crashes \in Nat
    PROVE  StatesRight'
  <1>1. WrongState \ InWork(todo) \subseteq Ino
    BY DEF WrongState
  <1>2. /\ Cardinality(WrongState' \ InWork(todo')) \in Nat /\ Cardinality(WrongState \ InWork(todo)) \in Nat
        /\ Cardinality(WrongState' \ InWork(todo')) <= Cardinality(WrongState \ InWork(todo))
    BY <1>1, SizeOfPart
  <1> DEFINE m == Cardinality(WrongState \ InWork(todo))
             n == Cardinality(WrongState' \ InWork(todo'))
  <1>3. m <= crashes /\ n <= m /\ m \in Nat /\ n \in Nat
    BY <1>2 DEF StatesRight
  <1> HIDE DEF m, n
  <1>4. n <= crashes
    BY <1>3
  <1>5. (Cardinality(WrongState \ InWork(todo)))' = n
    BY DEF n
  <1> QED BY <1>4, <1>5 DEF StatesRight, n

LEMMA MarkKeepsCounts ==
    ASSUME WellFormed, Mark, UNCHANGED <<running, fds, store, calls, crashes, uncounted>>, lost' \subseteq Ino,
           CountRight, StatesRight
    PROVE  CountRight' /\ StatesRight'
  <1> DEFINE i == Head(todo).ino
  <1>1. todo # << >> /\ i \in Ino \ {Root} /\ MarkNew(i, todo)
    BY Kinds DEF WellFormed, Mark, Doing
  <1>2. WriteNew(i, todo')
    BY MarkFits
  <1>3. i \notin used /\ table[i] = FreeInode /\ used' = used \cup {i} /\ UNCHANGED <<table, freeInodes>>
    BY <1>1 DEF WellFormed, Stages, InUseIsMarked, Mark
  <1>4. Owed(todo) = 0 /\ InWork(todo) = {} /\ Owed(todo') = -1 /\ InWork(todo') = {i}
    BY <1>1, <1>2, QuietRows, QuietOwesNothing, FormsOfWork
  <1>5. Cardinality(Ino \ used') = Cardinality(Ino \ used) - 1 /\ Cardinality(Ino \ used) \in Nat
    <2>1. Ino \ used' = (Ino \ used) \ {i} /\ i \in Ino \ used
      BY <1>1, <1>3
    <2> QED BY <2>1, SizeOfPart
  <1>6. CountRight'
    BY <1>3, <1>4, <1>5 DEF CountRight, WellFormed, Types
  <1>7. WrongState' \ InWork(todo') \subseteq WrongState \ InWork(todo)
    BY <1>1, <1>3, <1>4 DEF WrongState
  <1> QED BY <1>6, <1>7, FewerWrong DEF WellFormed, Types

LEMMA WriteTableKeepsCounts ==
    ASSUME WellFormed, WriteTable, UNCHANGED <<running, fds, store, calls, crashes, uncounted>>, lost' \subseteq Ino,
           CountRight, StatesRight
    PROVE  CountRight' /\ StatesRight'
  <1> DEFINE i == Head(todo).ino
             inode == Head(todo).inode
  <1>1. todo # << >> /\ i \in Ino \ {Root}
    BY Kinds DEF WellFormed, WriteTable, Doing
  <1>2. \/ WriteNew(i, todo) /\ CountNew(i, todo')
        \/ WriteFreed(i, todo) /\ UnmarkFreed(i, todo')
    BY WriteTableFits
  <1>3. /\ table' = [table EXCEPT ![i] = inode] /\ table \in [Ino -> InodeRecord] /\ UNCHANGED <<used, freeInodes>>
        /\ crashes \in Nat
    BY DEF WriteTable, WellFormed, Types
  <1>4. CASE WriteNew(i, todo) /\ CountNew(i, todo')
    <2>1. Owed(todo) = -1 /\ InWork(todo) = {i} /\ Owed(todo') = -1 /\ InWork(todo') = {}
      BY <1>1, <1>4, FormsOfWork
    <2>2. inode.type # "free" /\ i \in used
      BY <1>1, <1>4 DEF WriteNew, WriteEntry, Made, NewInode, WellFormed, Stages
    <2>3. WrongState' \ InWork(todo') \subseteq WrongState \ InWork(todo)
      BY <1>1, <1>3, <2>1, <2>2 DEF WrongState
    <2> QED BY <1>3, <2>1, <2>3, FewerWrong DEF CountRight
  <1>5. CASE WriteFreed(i, todo) /\ UnmarkFreed(i, todo')
    <2>1. Owed(todo) = 0 /\ InWork(todo) = {} /\ Owed(todo') = 0 /\ InWork(todo') = {i}
      BY <1>1, <1>5, FormsOfWork, QuietRows, QuietOwesNothing
    <2>2. WrongState' \ InWork(todo') \subseteq WrongState \ InWork(todo)
      BY <1>1, <1>3, <2>1 DEF WrongState
    <2> QED BY <1>3, <2>1, <2>2, FewerWrong DEF CountRight
  <1> QED BY <1>2, <1>4, <1>5

LEMMA CountKeepsCounts ==
    ASSUME WellFormed, Count, UNCHANGED <<running, fds, store, calls, crashes, uncounted>>, lost' \subseteq Ino,
           CountRight, StatesRight
    PROVE  CountRight' /\ StatesRight'
  <1>1. todo # << >> /\ UNCHANGED <<table, used>> /\ freeInodes' = freeInodes + Head(todo).by /\ freeInodes \in Int
        /\ crashes \in Nat
    BY DEF Count, Doing, WellFormed, Types
  <1>2. Cardinality(Ino \ used) \in Nat /\ WrongState' = WrongState
    BY <1>1, SizeOfPart DEF WrongState
  <1>3. Head(todo).by = Owed(todo) /\ Owed(todo') = 0 /\ InWork(todo) = {} /\ InWork(todo') = {} /\ Owed(todo) \in Int
    <2>1. CASE CountFreed(todo) /\ Plain(todo')
      <3>1. Head(todo).by = 1
        BY <2>1, Heads
      <3> QED BY <2>1, <3>1, FreedIsOwed, QuietRows, QuietOwesNothing
    <2>2. CASE \E i \in Ino \ {Root} : CountNew(i, todo) /\ AddNew(i, todo')
      <3>1. PICK i \in Ino \ {Root} : CountNew(i, todo) /\ AddNew(i, todo')
        BY <2>2
      <3>2. Head(todo).by = -1
        BY <3>1, Heads
      <3> QED BY <3>1, <3>2, FormsOfWork, QuietRows, QuietOwesNothing
    <2> QED BY <2>1, <2>2, CountFits
  <1>4. CountRight'
    BY <1>1, <1>2, <1>3 DEF CountRight
  <1> QED BY <1>2, <1>3, <1>4, FewerWrong, <1>1

LEMMA UnmarkKeepsCounts ==
    ASSUME WellFormed, Unmark, UNCHANGED <<running, fds, store, calls, crashes, uncounted>>, lost' \subseteq Ino,
           CountRight, StatesRight
    PROVE  CountRight' /\ StatesRight'
  <1> DEFINE i == Head(todo).ino
  <1>1. todo # << >> /\ i \in Ino \ {Root} /\ UnmarkFreed(i, todo) /\ CountFreed(todo')
    BY Kinds, UnmarkFits DEF WellFormed, Unmark, Doing
  <1>2. i \in used /\ used' = used \ {i} /\ UNCHANGED <<table, freeInodes>> /\ table[i] = FreeInode /\ used \subseteq Ino
    BY <1>1 DEF Unmark, WellFormed, Stages, Types
  <1>3. Owed(todo) = 0 /\ InWork(todo) = {i} /\ Owed(todo') = 1 /\ InWork(todo') = {}
    BY <1>1, FormsOfWork, FreedIsOwed
  <1>4. Cardinality(Ino \ used) = Cardinality(Ino \ used') - 1 /\ Cardinality(Ino \ used') \in Nat
    <2>1. Ino \ used = (Ino \ used') \ {i} /\ i \in Ino \ used'
      BY <1>1, <1>2
    <2> QED BY <2>1, SizeOfPart
  <1>5. CountRight'
    BY <1>2, <1>3, <1>4 DEF CountRight, WellFormed, Types
  <1>6. WrongState' \ InWork(todo') \subseteq WrongState \ InWork(todo)
    BY <1>1, <1>2, <1>3 DEF WrongState, FreeInode
  <1> QED BY <1>5, <1>6, FewerWrong DEF WellFormed, Types

LEMMA CrashKeepsCounts ==
    ASSUME WellFormed, Crash, CountRight, StatesRight
    PROVE  CountRight' /\ StatesRight'
  <1>1. /\ UNCHANGED <<table, used, freeInodes>> /\ crashes' = crashes + 1 /\ todo' = << >>
        /\ crashes \in Nat /\ freeInodes \in Int
    BY DEF Crash, WellFormed, Types
  <1>2. Owed(todo') = 0 /\ InWork(todo') = {} /\ WrongState' = WrongState
    BY <1>1, NothingIsQuiet, QuietOwesNothing DEF WrongState
  <1>3. Cardinality(Ino \ used) \in Nat /\ Owed(todo) \in {-1, 0, 1}
    BY SizeOfPart DEF Owed
  <1>4. CountRight'
    BY <1>1, <1>2, <1>3 DEF CountRight
  <1> DEFINE m == Cardinality(WrongState \ InWork(todo))
             n == Cardinality(WrongState)
  <1>5. m \in Nat /\ n \in Nat /\ (InWork(todo) = {} => n = m)
    BY SizeOfPart, WrongState \subseteq Ino, WrongState \ InWork(todo) \subseteq Ino DEF WrongState
  <1>6. n <= m + 1
    <2>1. CASE InWork(todo) = {}
      BY <1>5, <2>1
    <2>2. CASE InWork(todo) # {}
      <3>1. PICK i \in Ino : InWork(todo) = {i}
        BY <2>2, FormsOfWork DEF InWork
      <3>2. WrongState \subseteq Ino
        BY DEF WrongState
      <3>3. Cardinality(WrongState \ {i}) = n \/ Cardinality(WrongState \ {i}) = n - 1
        BY <3>2, SizeOfPart
      <3> QED BY <1>5, <3>1, <3>3
    <2> QED BY <2>1, <2>2
  <1>7. StatesRight'
    <2>1. (Cardinality(WrongState \ InWork(todo)))' = n
      BY <1>2
    <2>2. m <= crashes
      BY DEF StatesRight
    <2> HIDE DEF m, n
    <2>3. n <= crashes + 1
      BY <1>1, <1>5, <1>6, <2>2
    <2> QED BY <1>1, <2>1, <2>3 DEF StatesRight
  <1> QED BY <1>4, <1>7

LEMMA WorkKeepsCounts ==
    ASSUME WellFormed, Work, CountRight, StatesRight
    PROVE  CountRight' /\ StatesRight'
  <1>1. CASE InodeStep /\ lost' = (lost \cup FreeLoses) \cap used' /\ UNCHANGED <<store, uncounted>>
    <2>1. lost' \subseteq Ino /\ UNCHANGED <<running, fds, store, calls, crashes, uncounted>>
      BY <1>1, WorkFits DEF Work, WellFormed, Types
    <2>2. CASE Mark \/ WriteTable \/ Count \/ Unmark
      BY <2>1, <2>2, MarkKeepsCounts, WriteTableKeepsCounts, CountKeepsCounts, UnmarkKeepsCounts
    <2>3. CASE Free \/ IncLink \/ DecLink \/ IncOpen \/ DecOpen \/ ResetOpenCounts
      BY <2>1, <2>3, InodeStepIsQuiet, QuietKeepsCounts
    <2> QED BY <1>1, <2>2, <2>3 DEF InodeStep
  <1>2. CASE \/ InitDir \/ AddEntry \/ RemoveEntry \/ Truncate \/ WriteData
             \/ OpenAndClose \/ SaveUsers \/ Remember
    BY <1>2, OtherWorkIsQuiet, QuietKeepsCounts DEF Work
  <1> QED BY <1>1, <1>2 DEF Work

LEMMA NextKeepsCounts ==
    ASSUME WellFormed, [Next]_vars, CountRight, StatesRight
    PROVE  CountRight' /\ StatesRight'
  <1>1. CASE Idle /\ Command
    BY <1>1, CommandIsQuiet, QuietKeepsCounts
  <1>2. CASE Work
    BY <1>2, WorkKeepsCounts
  <1>3. CASE CloseAll
    BY <1>3, CloseAllIsQuiet, QuietKeepsCounts
  <1>4. CASE Halt \/ Mount
    BY <1>4, HaltOrMountIsQuiet, QuietKeepsCounts
  <1>5. CASE Crash
    BY <1>5, CrashKeepsCounts
  <1>6. CASE UNCHANGED vars
    BY <1>6 DEF vars, inodeVars, CountRight, StatesRight, WrongState
  <1> QED BY <1>1, <1>2, <1>3, <1>4, <1>5, <1>6 DEF Next

LEMMA InitCounts ==
    ASSUME Init
    PROVE  CountRight /\ StatesRight
  <1>1. Owed(todo) = 0 /\ InWork(todo) = {}
    BY NothingIsQuiet, QuietOwesNothing DEF Init
  <1>2. Root \in Ino /\ used = {Root}
    BY InodesAssumption DEF Init, Root, Ino
  <1>3. Cardinality(Ino \ used) = LastIno
    <2>1. Cardinality(Ino \ {Root}) = Cardinality(Ino) - 1
      BY <1>2, SizeOfPart
    <2> QED BY <1>2, <2>1, SizeOfIno, InodesAssumption DEF InoIsFinite
  <1>4. WrongState = {}
    BY <1>2 DEF WrongState, Init, NewInode, FreeInode
  <1>5. Cardinality(WrongState \ InWork(todo)) = 0
    BY <1>1, <1>4, FS_EmptySet
  <1> QED BY <1>1, <1>3, <1>5, InodesAssumption DEF Init, CountRight, StatesRight

\* The free inode count, with what the running call still owes it, is off by at most
\* one for every kill, and so many inodes at most are wrong besides the one the call
\* is about to put right.
THEOREM CountsStayRight == Spec => [](WellFormed /\ CountRight /\ StatesRight)
  <1>1. Init => WellFormed /\ CountRight /\ StatesRight
    BY InitWellFormed, InitCounts
  <1>2. WellFormed /\ CountRight /\ StatesRight /\ [Next]_vars => (WellFormed /\ CountRight /\ StatesRight)'
    BY NextWellFormed, NextKeepsCounts
  <1> QED BY <1>1, <1>2, PTL DEF Spec

LEMMA CountHasRange ==
    ASSUME WellFormed, CountRight
    PROVE  freeInodes \in -MaxCrashes..(LastIno + MaxCrashes)
  <1> DEFINE n == Cardinality(Ino \ used)
             o == Owed(todo)
  <1>1. /\ freeInodes \in Int /\ crashes \in Nat /\ crashes <= MaxCrashes /\ MaxCrashes \in Nat
        /\ Root \in used /\ Root \in Ino /\ used \subseteq Ino /\ LastIno \in Nat
    BY NamespaceAssumption, InodesAssumption DEF WellFormed, Types, RootKept
  <1>2. n \in Nat /\ n <= LastIno
    <2>1. Cardinality(Ino \ {Root}) = LastIno
      BY <1>1, SizeOfPart, SizeOfIno DEF InoIsFinite
    <2>2. Ino \ used \subseteq Ino \ {Root} /\ Ino \ {Root} \subseteq Ino
      BY <1>1
    <2> QED BY <2>1, <2>2, SizeOfPart
  <1>3. o = -1 => n <= LastIno - 1
    <2>1. SUFFICES ASSUME o = -1 PROVE n <= LastIno - 1
      OBVIOUS
    <2>2. PICK i \in Ino \ {Root} : WriteNew(i, todo) \/ CountNew(i, todo)
      BY <2>1 DEF Owed
    <2>3. i \in used
      BY <2>2 DEF WellFormed, Stages
    <2>4. Cardinality(Ino \ {Root}) = LastIno
      BY <1>1, SizeOfPart, SizeOfIno DEF InoIsFinite
    <2>5. Cardinality((Ino \ {Root}) \ {i}) = LastIno - 1
      BY <2>2, <2>4, SizeOfPart
    <2>6. Ino \ used \subseteq (Ino \ {Root}) \ {i} /\ (Ino \ {Root}) \ {i} \subseteq Ino
      BY <1>1, <2>3
    <2> QED BY <2>5, <2>6, SizeOfPart
  <1>4. o = 1 => n >= 1
    <2>1. SUFFICES ASSUME o = 1 PROVE n >= 1
      OBVIOUS
    <2>2. CountFreed(todo)
      BY <2>1 DEF Owed
    <2>3. used # Ino
      BY <2>2 DEF WellFormed, Stages
    <2>4. PICK i \in Ino \ used : TRUE
      BY <1>1, <2>3
    <2>5. Cardinality(Ino \ used) > 0
      <3> DEFINE S == Ino \ used
      <3>1. S \in SUBSET Ino /\ i \in S
        BY <2>4
      <3> HIDE DEF S
      <3>2. Cardinality(S) > 0
        BY <3>1, SizeOfPart
      <3> QED BY <3>2 DEF S
    <2> QED BY <1>2, <2>5
  <1>5. o \in {-1, 0, 1}
    BY DEF Owed
  <1>6. freeInodes + o - n \in -crashes..crashes
    BY DEF CountRight
  <1> HIDE DEF n, o
  <1> QED BY <1>1, <1>2, <1>3, <1>4, <1>5, <1>6

\* Every variable of the path and file layer keeps its type, and whatever kills do
\* the free inode count stays near its range.
THEOREM TypeCorrect == Spec => []TypeOK
  <1>1. WellFormed /\ CountRight => TypeOK
    BY CountHasRange DEF WellFormed, Types, TypeOK
  <1> QED BY <1>1, CountsStayRight, PTL

\* Between calls fsck finds at most one inode wrong for every kill there has been,
\* and the free inode count off by at most as much.
THEOREM KillsLeaveLittleBehind == Spec => []KillsLeaveLittle
  <1>1. ASSUME WellFormed, CountRight, StatesRight
        PROVE  KillsLeaveLittle
    <2>1. SUFFICES ASSUME todo = << >>
                   PROVE  /\ Cardinality(WrongState) <= crashes
                          /\ freeInodes - Cardinality(Ino \ used) \in -crashes..crashes
      BY DEF KillsLeaveLittle
    <2>2. Owed(todo) = 0 /\ InWork(todo) = {}
      BY <2>1, NothingIsQuiet, QuietOwesNothing
    <2>3. Cardinality(WrongState) \in Nat /\ WrongState \ {} = WrongState /\ crashes \in Nat
      BY <1>1, SizeOfPart, WrongState \subseteq Ino DEF WrongState, WellFormed, Types
    <2>4. Cardinality(Ino \ used) \in Nat /\ freeInodes \in Int
      BY <1>1, SizeOfPart DEF WellFormed, Types
    <2> QED BY <1>1, <2>2, <2>3, <2>4 DEF CountRight, StatesRight
  <1> QED BY <1>1, CountsStayRight, PTL

-----------------------------------------------------------------------------
(***************************************************************************)
(* Names and link counts                                                   *)
(***************************************************************************)

\* What a row of steps says of the names of an inode.
About(i, s) ==
    \/ Making(i, s) \/ Freeing(i, s) \/ UnmarkFreed(i, s)
    \/ AddLink(i, s) \/ CountLink(i, s) \/ Dropping(i, s)

Covered(i) ==
    i \notin uncounted /\ NamedBy(i) # {} =>
        /\ i \in used
        /\ table[i].type # "free"
        /\ Cardinality(NamedBy(i)) <= table[i].links + (IF CountLink(i, todo) THEN 1 ELSE 0)
Guarded(i) ==
    i \notin uncounted =>
        /\ Making(i, todo) \/ Freeing(i, todo) \/ UnmarkFreed(i, todo) => NamedBy(i) = {}
        /\ AddLink(i, todo) => i \in used /\ table[i].type # "free"
        /\ Dropping(i, todo) => Cardinality(NamedBy(i)) < table[i].links

NamesCovered == \A i \in Ino : Covered(i) /\ Guarded(i)

LEMMA AboutNone ==
    ASSUME NEW s,
           \/ Plain(s) \/ Mounting(s) \/ CountFreed(s)
           \/ \E i : \/ MarkNew(i, s) \/ RemoveAndDrop(i, s)
                     \/ Opening(i, s) \/ Passing(i, s) \/ Closing(i, s)
    PROVE  \A j : ~About(j, s)
  <1>1. CASE Plain(s)
    BY <1>1, StagesOfPlain DEF About, Making, Freeing, Dropping
  <1>2. CASE Mounting(s)
    BY <1>2, Heads DEF About, Making, Freeing, Dropping
  <1>3. CASE CountFreed(s)
    BY <1>3, Heads DEF About, Making, Freeing, Dropping
  <1>4. CASE \E i : MarkNew(i, s)
    BY <1>4, Heads DEF About, Making, Freeing, Dropping
  <1>5. CASE \E i : RemoveAndDrop(i, s)
    BY <1>5, Heads DEF About, Making, Freeing, Dropping
  <1>6. CASE \E i : Opening(i, s) \/ Passing(i, s)
    BY <1>6, Heads DEF About, Making, Freeing, Dropping
  <1>7. CASE \E i : Closing(i, s)
    BY <1>7, Heads DEF About, Making, Freeing, Dropping
  <1> QED BY <1>1, <1>2, <1>3, <1>4, <1>5, <1>6, <1>7

LEMMA CountNewOnce ==
    ASSUME NEW s, NEW i, NEW j, CountNew(i, s), CountNew(j, s)
    PROVE  i = j
  <1>1. Head(Tail(s)).ino = i
    BY Heads DEF CountNew
  <1>2. Head(Tail(s)).ino = j
    BY Heads DEF CountNew
  <1> QED BY <1>1, <1>2

LEMMA AboutOne ==
    ASSUME NEW s, NEW i
    PROVE  /\ Making(i, s) =>
                \A j : About(j, s) => j = i /\ ~Freeing(j, s) /\ ~UnmarkFreed(j, s) /\ ~AddLink(j, s)
                                        /\ ~CountLink(j, s) /\ ~Dropping(j, s)
           /\ Freeing(i, s) \/ UnmarkFreed(i, s) =>
                \A j : About(j, s) => j = i /\ ~Making(j, s) /\ ~AddLink(j, s) /\ ~CountLink(j, s) /\ ~Dropping(j, s)
           /\ AddLink(i, s) =>
                \A j : About(j, s) => j = i /\ ~Making(j, s) /\ ~Freeing(j, s) /\ ~UnmarkFreed(j, s)
                                        /\ ~CountLink(j, s) /\ ~Dropping(j, s)
           /\ CountLink(i, s) =>
                \A j : About(j, s) => j = i /\ ~Making(j, s) /\ ~Freeing(j, s) /\ ~UnmarkFreed(j, s)
                                        /\ ~AddLink(j, s) /\ ~Dropping(j, s)
           /\ Dropping(i, s) =>
                \A j : About(j, s) => j = i /\ ~Making(j, s) /\ ~Freeing(j, s) /\ ~UnmarkFreed(j, s)
                                        /\ ~AddLink(j, s) /\ ~CountLink(j, s)
  <1> DEFINE o == Head(s).op
             h == Head(s).ino
  <1>1. ASSUME NEW j
        PROVE  /\ Making(j, s) => \/ o = "table" /\ h = j /\ Head(s).inode # FreeInode
                                  \/ o = "count" /\ Head(s).by = -1 /\ CountNew(j, s)
                                  \/ o \in {"add", "init"} /\ h = j /\ AddNew(j, s)
               /\ Freeing(j, s) => h = j /\ (o = "free" \/ (o = "table" /\ Head(s).inode = FreeInode))
               /\ UnmarkFreed(j, s) => o = "unmark" /\ h = j
               /\ AddLink(j, s) => o = "add" /\ h = j
               /\ CountLink(j, s) => o = "incLink" /\ h = j
               /\ Dropping(j, s) => h = j /\ (o = "decLink" \/ o = "truncate")
    <2>1. Making(j, s) => \/ o = "table" /\ h = j /\ Head(s).inode # FreeInode
                          \/ o = "count" /\ Head(s).by = -1 /\ CountNew(j, s)
                          \/ o \in {"add", "init"} /\ h = j /\ AddNew(j, s)
      BY Heads DEF Making
    <2>2. Freeing(j, s) => h = j /\ (o = "free" \/ (o = "table" /\ Head(s).inode = FreeInode))
      BY Heads DEF Freeing
    <2>3. /\ UnmarkFreed(j, s) => o = "unmark" /\ h = j
          /\ AddLink(j, s) => o = "add" /\ h = j
          /\ CountLink(j, s) => o = "incLink" /\ h = j
          /\ Dropping(j, s) => h = j /\ (o = "decLink" \/ o = "truncate")
      BY Heads DEF Dropping
    <2> QED BY <2>1, <2>2, <2>3
  <1> HIDE DEF o, h
  <1>2. ASSUME Making(i, s), NEW j, About(j, s)
        PROVE  j = i /\ ~Freeing(j, s) /\ ~UnmarkFreed(j, s) /\ ~AddLink(j, s) /\ ~CountLink(j, s) /\ ~Dropping(j, s)
    <2>1. CASE o \in {"add", "init"}
      <3>1. AddNew(i, s) /\ h = i
        BY <1>1, <1>2, <2>1
      <3>2. ~AddLink(j, s)
        BY <3>1, NewOrLinked
      <3> QED BY <1>1, <1>2, <2>1, <3>1, <3>2 DEF About
    <2>2. CASE o = "count"
      <3>1. CountNew(i, s)
        BY <1>1, <1>2, <2>2
      <3>2. CountNew(j, s)
        BY <1>1, <1>2, <2>2 DEF About
      <3>3. j = i
        BY <3>1, <3>2, CountNewOnce
      <3> QED BY <1>1, <2>2, <3>3
    <2>3. CASE o = "table"
      BY <1>1, <1>2, <2>3 DEF About
    <2> QED BY <1>1, <1>2, <2>1, <2>2, <2>3
  <1>3. ASSUME Freeing(i, s) \/ UnmarkFreed(i, s), NEW j, About(j, s)
        PROVE  j = i /\ ~Making(j, s) /\ ~AddLink(j, s) /\ ~CountLink(j, s) /\ ~Dropping(j, s)
    BY <1>1, <1>3 DEF About
  <1>4. ASSUME AddLink(i, s), NEW j, About(j, s)
        PROVE  j = i /\ ~Making(j, s) /\ ~Freeing(j, s) /\ ~UnmarkFreed(j, s) /\ ~CountLink(j, s) /\ ~Dropping(j, s)
    <2>1. ~AddNew(j, s)
      BY <1>4, NewOrLinked
    <2> QED BY <1>1, <1>4, <2>1 DEF About
  <1>5. ASSUME CountLink(i, s), NEW j, About(j, s)
        PROVE  j = i /\ ~Making(j, s) /\ ~Freeing(j, s) /\ ~UnmarkFreed(j, s) /\ ~AddLink(j, s) /\ ~Dropping(j, s)
    BY <1>1, <1>5 DEF About
  <1>6. ASSUME Dropping(i, s), NEW j, About(j, s)
        PROVE  j = i /\ ~Making(j, s) /\ ~Freeing(j, s) /\ ~UnmarkFreed(j, s) /\ ~AddLink(j, s) /\ ~CountLink(j, s)
    BY <1>1, <1>6 DEF About
  <1> QED BY <1>2, <1>3, <1>4, <1>5, <1>6

LEMMA PlacesAreFinite == IsFiniteSet(Ino \X Slot)
  <1>1. IsFiniteSet(Ino) /\ IsFiniteSet(Slot)
    BY FS_Interval, InodesAssumption DEF Ino, Slot
  <1> QED BY <1>1, FS_Product

LEMMA SizeOfPlaces ==
    ASSUME NEW S \in SUBSET (Ino \X Slot)
    PROVE  /\ IsFiniteSet(S) /\ Cardinality(S) \in Nat /\ (Cardinality(S) = 0 <=> S = {})
           /\ \A x : /\ x \in S => Cardinality(S \ {x}) = Cardinality(S) - 1
                     /\ x \notin S => Cardinality(S \cup {x}) = Cardinality(S) + 1
           /\ \A T \in SUBSET S : Cardinality(T) \in Nat /\ Cardinality(T) <= Cardinality(S)
  <1>1. IsFiniteSet(S)
    BY PlacesAreFinite, FS_Subset
  <1>2. Cardinality(S) \in Nat /\ (Cardinality(S) = 0 <=> S = {})
    BY <1>1, FS_CardinalityType, FS_EmptySet
  <1>3. \A x : /\ x \in S => Cardinality(S \ {x}) = Cardinality(S) - 1
               /\ x \notin S => Cardinality(S \cup {x}) = Cardinality(S) + 1
    BY <1>1, FS_AddElement, FS_RemoveElement
  <1>4. \A T \in SUBSET S : Cardinality(T) \in Nat /\ Cardinality(T) <= Cardinality(S)
    BY <1>1, FS_Subset, FS_CardinalityType
  <1> QED BY <1>1, <1>2, <1>3, <1>4

LEMMA NamedSize ==
    ASSUME NEW i
    PROVE  NamedBy(i) \in SUBSET (Ino \X Slot) /\ NamedBy(i)' \in SUBSET (Ino \X Slot)
  BY DEF NamedBy

LEMMA SameNames ==
    ASSUME content' = content
    PROVE  \A i : NamedBy(i)' = NamedBy(i)
  BY DEF NamedBy

LEMMA PieceNames ==
    ASSUME Types, NEW d \in Ino, NEW s \in Slot, NEW piece, content' = [content EXCEPT ![d][s] = piece], NEW i
    PROVE  NamedBy(i)' = IF piece.kind = "entry" /\ piece.ino = i THEN NamedBy(i) \cup {<<d, s>>}
                                                                  ELSE NamedBy(i) \ {<<d, s>>}
  <1>1. ASSUME NEW e \in Ino, NEW t \in Slot
        PROVE  content'[e][t] = IF e = d /\ t = s THEN piece ELSE content[e][t]
    BY DEF Types
  <1>2. ASSUME NEW p \in Ino \X Slot
        PROVE  p \in NamedBy(i)' <=>
                 IF p = <<d, s>> THEN piece.kind = "entry" /\ piece.ino = i ELSE p \in NamedBy(i)
    <2>1. PICK e \in Ino, t \in Slot : p = <<e, t>>
      OBVIOUS
    <2>2. p[1] = e /\ p[2] = t
      BY <2>1
    <2>3. p \in NamedBy(i)' <=> content'[e][t].kind = "entry" /\ content'[e][t].ino = i
      BY <2>2 DEF NamedBy
    <2>4. p \in NamedBy(i) <=> content[e][t].kind = "entry" /\ content[e][t].ino = i
      BY <2>2 DEF NamedBy
    <2>5. p = <<d, s>> <=> e = d /\ t = s
      BY <2>1
    <2> QED BY <1>1, <2>3, <2>4, <2>5
  <1>3. <<d, s>> \in Ino \X Slot
    OBVIOUS
  <1> QED BY <1>2, <1>3, NamedSize

LEMMA EmptyNames ==
    ASSUME Types, NEW d, content' = [content EXCEPT ![d] = Empty], NEW i
    PROVE  NamedBy(i)' \subseteq NamedBy(i) /\ \A p \in NamedBy(i) : p[1] # d => p \in NamedBy(i)'
  <1>1. ASSUME NEW e \in Ino
        PROVE  content'[e] = IF e = d THEN Empty ELSE content[e]
    BY DEF Types
  <1>2. \A s \in Slot : Empty[s].kind # "entry"
    BY DEF Empty, Nothing
  <1>3. ASSUME NEW p \in NamedBy(i)'
        PROVE  p \in NamedBy(i)
    <2>1. p \in Ino \X Slot /\ content'[p[1]][p[2]].kind = "entry" /\ content'[p[1]][p[2]].ino = i
      BY DEF NamedBy
    <2>2. p[1] \in Ino /\ p[2] \in Slot
      BY <2>1
    <2>3. p[1] # d
      BY <1>1, <1>2, <2>1, <2>2
    <2> QED BY <1>1, <2>1, <2>2, <2>3 DEF NamedBy
  <1>4. ASSUME NEW p \in NamedBy(i), p[1] # d
        PROVE  p \in NamedBy(i)'
    <2>1. p \in Ino \X Slot /\ content[p[1]][p[2]].kind = "entry" /\ content[p[1]][p[2]].ino = i
      BY DEF NamedBy
    <2>2. p[1] \in Ino
      BY <2>1
    <2> QED BY <1>1, <1>4, <2>1, <2>2 DEF NamedBy
  <1> QED BY <1>3, <1>4

\* Names only go away, and no named inode changes.
LEMMA FewerNames ==
    ASSUME Types, NamesCovered,
           uncounted \subseteq uncounted',
           \A j \in Ino \ uncounted' :
              /\ NamedBy(j)' \subseteq NamedBy(j)
              /\ NamedBy(j)' # {} /\ j \in used =>
                    j \in used' /\ table'[j].type = table[j].type /\ table'[j].links = table[j].links
              /\ ~CountLink(j, todo),
           \A j \in Ino : Guarded(j)'
    PROVE  NamesCovered'
  <1>1. SUFFICES ASSUME NEW j \in Ino, j \notin uncounted'
                 PROVE  Covered(j)'
    BY DEF NamesCovered, Covered
  <1>2. Covered(j) /\ ~CountLink(j, todo) /\ j \notin uncounted
    BY <1>1 DEF NamesCovered
  <1>3. SUFFICES ASSUME NamedBy(j)' # {}
                 PROVE  /\ j \in used' /\ table'[j].type # "free"
                        /\ Cardinality(NamedBy(j)') <= table'[j].links + (IF CountLink(j, todo') THEN 1 ELSE 0)
    BY DEF Covered
  <1>4. NamedBy(j)' \subseteq NamedBy(j) /\ NamedBy(j) # {}
    BY <1>1, <1>3
  <1>5. j \in used /\ table[j].type # "free" /\ Cardinality(NamedBy(j)) <= table[j].links
    BY <1>2, <1>4, NamedSize, SizeOfPlaces DEF Covered, Types, InodeRecord
  <1>6. j \in used' /\ table'[j].type = table[j].type /\ table'[j].links = table[j].links
    BY <1>1, <1>3, <1>5
  <1>7. Cardinality(NamedBy(j)') <= Cardinality(NamedBy(j)) /\ Cardinality(NamedBy(j)) \in Nat /\ Cardinality(NamedBy(j)') \in Nat
    BY <1>4, NamedSize, SizeOfPlaces
  <1>8. table[j].links \in Nat
    BY DEF Types, InodeRecord
  <1> QED BY <1>5, <1>6, <1>7, <1>8

LEMMA NoGuard ==
    ASSUME \A j : ~About(j, todo')
    PROVE  \A j : Guarded(j)'
  BY DEF Guarded, About

\* Rows that are about one inode without names.
LEMMA UnnamedGuard ==
    ASSUME NEW i, Making(i, todo') \/ Freeing(i, todo') \/ UnmarkFreed(i, todo'),
           i \notin uncounted' => NamedBy(i)' = {}
    PROVE  \A j : Guarded(j)'
  <1>1. CASE Making(i, todo')
    <2>1. ASSUME NEW j
          PROVE  Guarded(j)'
      <3>1. ~AddLink(j, todo') /\ ~Dropping(j, todo') /\ ~Freeing(j, todo') /\ ~UnmarkFreed(j, todo')
        BY <1>1, AboutOne DEF About
      <3>2. Making(j, todo') => j = i
        BY <1>1, AboutOne DEF About
      <3> QED BY <3>1, <3>2 DEF Guarded
    <2> QED BY <2>1
  <1>2. CASE Freeing(i, todo') \/ UnmarkFreed(i, todo')
    <2>1. ASSUME NEW j
          PROVE  Guarded(j)'
      <3>1. ~AddLink(j, todo') /\ ~Dropping(j, todo') /\ ~Making(j, todo')
        BY <1>2, AboutOne DEF About
      <3>2. Freeing(j, todo') \/ UnmarkFreed(j, todo') => j = i
        BY <1>2, AboutOne DEF About
      <3> QED BY <3>1, <3>2 DEF Guarded
    <2> QED BY <2>1
  <1> QED BY <1>1, <1>2

\* A row that is about no link being counted.
LEMMA NotCounting ==
    ASSUME NEW s,
           \/ \A j : ~About(j, s)
           \/ \E i : Making(i, s) \/ Freeing(i, s) \/ UnmarkFreed(i, s) \/ AddLink(i, s) \/ Dropping(i, s)
    PROVE  \A j : ~CountLink(j, s)
  <1>1. ASSUME NEW i, Making(i, s) \/ Freeing(i, s) \/ UnmarkFreed(i, s) \/ AddLink(i, s) \/ Dropping(i, s),
               NEW j, CountLink(j, s)
        PROVE  FALSE
    <2>1. About(i, s)
      BY <1>1 DEF About
    <2>2. ~Making(i, s) /\ ~Freeing(i, s) /\ ~UnmarkFreed(i, s) /\ ~AddLink(i, s) /\ ~Dropping(i, s)
      BY <1>1, <2>1, AboutOne
    <2> QED BY <1>1, <2>2
  <1> QED BY <1>1 DEF About

LEMMA MarkKeepsNames ==
    ASSUME WellFormed, NamesCovered, Mark, UNCHANGED <<running, fds, store, calls, crashes, uncounted>>, lost' \subseteq Ino
    PROVE  NamesCovered'
  <1> DEFINE i == Head(todo).ino
  <1>1. todo # << >> /\ i \in Ino \ {Root} /\ MarkNew(i, todo)
    BY Kinds DEF WellFormed, Mark, Doing
  <1>2. WriteNew(i, todo')
    BY MarkFits
  <1>3. i \notin used /\ used' = used \cup {i} /\ UNCHANGED <<table, content, uncounted>>
    BY <1>1 DEF WellFormed, Stages, Mark
  <1>4. \A j : NamedBy(j)' = NamedBy(j)
    BY <1>3, SameNames
  <1>5. \A j : ~CountLink(j, todo)
    BY <1>1, AboutNone, NotCounting
  <1>6. \A j : Guarded(j)'
    <2>1. i \notin uncounted => NamedBy(i) = {}
      BY <1>1, <1>3 DEF NamesCovered, Covered
    <2> QED BY <1>2, <1>3, <1>4, <2>1, UnnamedGuard DEF Making
  <1> QED BY <1>3, <1>4, <1>5, <1>6, FewerNames DEF WellFormed

LEMMA WriteTableKeepsNames ==
    ASSUME WellFormed, NamesCovered, WriteTable, UNCHANGED <<running, fds, store, calls, crashes, uncounted>>, lost' \subseteq Ino
    PROVE  NamesCovered'
  <1> DEFINE i == Head(todo).ino
  <1>1. todo # << >> /\ i \in Ino \ {Root}
    BY Kinds DEF WellFormed, WriteTable, Doing
  <1>2. \/ WriteNew(i, todo) /\ CountNew(i, todo')
        \/ WriteFreed(i, todo) /\ UnmarkFreed(i, todo')
    BY WriteTableFits
  <1>3. Making(i, todo) \/ Freeing(i, todo)
    BY <1>2 DEF Making, Freeing
  <1>4. Making(i, todo') \/ UnmarkFreed(i, todo')
    BY <1>2 DEF Making
  <1>5. UNCHANGED <<used, content, uncounted>> /\ \A j \in Ino : j # i => table'[j] = table[j]
    BY DEF WriteTable, WellFormed, Types
  <1>6. \A j : NamedBy(j)' = NamedBy(j)
    BY <1>5, SameNames
  <1>7. \A j : ~CountLink(j, todo)
    BY <1>3, NotCounting
  <1>8. i \notin uncounted => NamedBy(i) = {}
    BY <1>1, <1>3 DEF NamesCovered, Guarded
  <1>9. \A j : Guarded(j)'
    BY <1>4, <1>5, <1>6, <1>8, UnnamedGuard
  <1> QED BY <1>5, <1>6, <1>7, <1>8, <1>9, FewerNames DEF WellFormed

LEMMA CountKeepsNames ==
    ASSUME WellFormed, NamesCovered, Count, UNCHANGED <<running, fds, store, calls, crashes, uncounted>>, lost' \subseteq Ino
    PROVE  NamesCovered'
  <1>1. UNCHANGED <<table, used, content, uncounted>>
    BY DEF Count
  <1>2. \A j : NamedBy(j)' = NamedBy(j)
    BY <1>1, SameNames
  <1>3. CASE CountFreed(todo) /\ Plain(todo')
    <2>1. \A j : ~CountLink(j, todo) /\ Guarded(j)'
      BY <1>3, AboutNone, NotCounting, NoGuard
    <2> QED BY <1>1, <1>2, <2>1, FewerNames DEF WellFormed
  <1>4. ASSUME NEW i \in Ino \ {Root}, CountNew(i, todo), AddNew(i, todo')
        PROVE  NamesCovered'
    <2>1. Making(i, todo) /\ Making(i, todo')
      BY <1>4 DEF Making
    <2>2. i \notin uncounted => NamedBy(i) = {}
      BY <2>1 DEF NamesCovered, Guarded
    <2>3. \A j : Guarded(j)'
      BY <1>1, <1>2, <2>1, <2>2, UnnamedGuard
    <2>4. \A j : ~CountLink(j, todo)
      BY <2>1, NotCounting
    <2> QED BY <1>1, <1>2, <2>3, <2>4, FewerNames DEF WellFormed
  <1> QED BY <1>3, <1>4, CountFits

LEMMA FreeKeepsNames ==
    ASSUME WellFormed, NamesCovered, Free, UNCHANGED <<running, fds, store, calls, crashes, uncounted>>, lost' \subseteq Ino
    PROVE  NamesCovered'
  <1>0. PICK i : i = Head(todo).ino
    OBVIOUS
  <1>1. FreeIt(i, todo) /\ WriteFreed(i, todo')
    BY <1>0, FreeFits
  <1>2. i \in Ino
    BY <1>0, Kinds DEF WellFormed, Free, Doing
  <1>3. UNCHANGED <<table, used, uncounted>> /\ content' = [content EXCEPT ![i] = Empty]
    BY <1>0 DEF Free
  <1>4. \A j : NamedBy(j)' \subseteq NamedBy(j)
    BY <1>3, EmptyNames DEF WellFormed
  <1>5. Freeing(i, todo) /\ Freeing(i, todo')
    BY <1>1 DEF Freeing
  <1>6. i \notin uncounted' => NamedBy(i)' = {}
    <2>1. i \notin uncounted => NamedBy(i) = {}
      BY <1>2, <1>5 DEF NamesCovered, Guarded
    <2> QED BY <1>3, <1>4, <2>1
  <1>7. \A j : Guarded(j)'
    BY <1>5, <1>6, UnnamedGuard
  <1>8. \A j : ~CountLink(j, todo)
    BY <1>5, NotCounting
  <1> QED BY <1>3, <1>4, <1>7, <1>8, FewerNames DEF WellFormed

LEMMA UnmarkKeepsNames ==
    ASSUME WellFormed, NamesCovered, Unmark, UNCHANGED <<running, fds, store, calls, crashes, uncounted>>, lost' \subseteq Ino
    PROVE  NamesCovered'
  <1> DEFINE i == Head(todo).ino
  <1>1. UnmarkFreed(i, todo) /\ CountFreed(todo')
    BY UnmarkFits
  <1>2. i \in Ino
    BY Kinds DEF WellFormed, Unmark, Doing
  <1>3. UNCHANGED <<table, content, uncounted>> /\ used' = used \ {i}
    BY DEF Unmark
  <1>4. \A j : NamedBy(j)' = NamedBy(j)
    BY <1>3, SameNames
  <1>5. i \notin uncounted => NamedBy(i) = {}
    BY <1>1, <1>2 DEF NamesCovered, Guarded
  <1>6. \A j : ~CountLink(j, todo) /\ Guarded(j)'
    BY <1>1, AboutNone, NotCounting, NoGuard
  <1> QED BY <1>3, <1>4, <1>5, <1>6, FewerNames DEF WellFormed

LEMMA OpensKeepNames ==
    ASSUME WellFormed, NamesCovered, IncOpen \/ DecOpen \/ ResetOpenCounts,
           UNCHANGED <<running, fds, store, calls, crashes, uncounted>>, lost' \subseteq Ino
    PROVE  NamesCovered'
  <1> DEFINE i == Head(todo).ino
  <1>1. UNCHANGED <<used, content, uncounted>>
    BY DEF IncOpen, DecOpen, ResetOpenCounts, WriteOrFree
  <1>2. \A j : NamedBy(j)' = NamedBy(j)
    BY <1>1, SameNames
  <1>3. \A j \in Ino : table[j] \in InodeRecord
    BY DEF WellFormed, Types
  <1>4. \A j \in Ino : table'[j].type = table[j].type /\ table'[j].links = table[j].links
    <2>1. CASE IncOpen \/ ResetOpenCounts
      BY <1>3, <2>1 DEF IncOpen, ResetOpenCounts, WellFormed, Types, InodeRecord
    <2>2. CASE DecOpen
      <3>1. table' = table \/ table' = [table EXCEPT ![i] = [table[i] EXCEPT !.opens = Less(@)]]
        BY <2>2 DEF DecOpen, WriteOrFree
      <3>2. ASSUME NEW j \in Ino
            PROVE  table'[j].type = table[j].type /\ table'[j].links = table[j].links
        <4>1. table[j] \in InodeRecord /\ table \in [Ino -> InodeRecord]
          BY DEF WellFormed, Types
        <4> QED BY <3>1, <4>1 DEF InodeRecord
      <3> QED BY <3>2
    <2> QED BY <2>1, <2>2
  <1>5. /\ \A j : ~About(j, todo)
        /\ \/ \A j : ~About(j, todo')
           \/ i \in Ino /\ table[i].links = 0 /\ FreeIt(i, todo')
    <2>1. CASE IncOpen
      <3>1. Opening(i, todo) \/ Passing(i, todo)
        BY <2>1, IncOpenFits
      <3>2. Plain(todo') \/ Closing(i, todo')
        BY <2>1, IncOpenFits
      <3> QED BY <3>1, <3>2, AboutNone
    <2>2. CASE DecOpen
      <3>1. Closing(i, todo) /\ (Plain(todo') \/ (table[i].links = 0 /\ FreeIt(i, todo')))
        BY <2>2, DecOpenFits
      <3>2. i \in Ino
        BY <2>2, Kinds DEF WellFormed, DecOpen, Doing
      <3> QED BY <3>1, <3>2, AboutNone
    <2>3. CASE ResetOpenCounts
      <3>1. Mounting(todo) /\ Plain(todo')
        BY <2>3, ResetOpenCountsFits
      <3> QED BY <3>1, AboutNone
    <2> QED BY <2>1, <2>2, <2>3
  <1>6. \A j : ~CountLink(j, todo)
    BY <1>5, NotCounting
  <1>7. \A j : Guarded(j)'
    <2>1. CASE \A j : ~About(j, todo')
      BY <2>1, NoGuard
    <2>2. CASE i \in Ino /\ table[i].links = 0 /\ FreeIt(i, todo')
      <3>1. ASSUME i \notin uncounted
            PROVE  NamedBy(i) = {}
        <4>1. NamedBy(i) # {} => Cardinality(NamedBy(i)) <= 0
          BY <1>6, <2>2, <3>1 DEF NamesCovered, Covered
        <4> QED BY <4>1, NamedSize, SizeOfPlaces
      <3> QED BY <1>1, <1>2, <2>2, <3>1, UnnamedGuard DEF Freeing
    <2> QED BY <1>5, <2>1, <2>2
  <1> QED BY <1>1, <1>2, <1>4, <1>6, <1>7, FewerNames DEF WellFormed

\* An entry is taken out, or pieces that may be entries are overwritten.
LEMMA RemoveKeepsNames ==
    ASSUME WellFormed, NamesCovered, RemoveEntry, UNCHANGED <<running, fds, calls, crashes>>
    PROVE  NamesCovered'
  <1> DEFINE d == Head(todo).dir
             n == Head(todo).name
             s == Found(d, n)
  <1>1. PICK i \in Ino \ {Root} : RemoveAndDrop(i, todo) /\ Dropping(i, todo')
    BY RemoveEntryFits
  <1>2. Matching(d, n) # {} /\ content[d][s].ino = i
    BY <1>1 DEF WellFormed, Stages
  <1>3. s \in Slot /\ content[d][s].kind = "entry" /\ d \in Ino
    BY <1>1, <1>2, FoundIsSlot DEF RemoveAndDrop, WellFormed, Types, AnyStep, Doing
  <1>4. UNCHANGED <<table, used, uncounted>> /\ content' = [content EXCEPT ![d][s] = Nothing]
    BY DEF RemoveEntry
  <1>5. ASSUME NEW j
        PROVE  NamedBy(j)' = NamedBy(j) \ {<<d, s>>}
    <2>1. Nothing.kind # "entry"
      BY DEF Nothing
    <2> HIDE DEF s, d
    <2> QED BY <1>3, <1>4, <2>1, PieceNames DEF WellFormed
  <1>6. <<d, s>> \in NamedBy(i)
    BY <1>2, <1>3 DEF NamedBy
  <1>7. \A j : ~CountLink(j, todo)
    BY <1>1, AboutNone, NotCounting
  <1>8. ASSUME i \notin uncounted
        PROVE  Cardinality(NamedBy(i)') < table'[i].links
    <2>0. table[i].links \in Nat /\ NamedBy(i) # {} /\ Cardinality(NamedBy(i)) \in Nat
      BY <1>6, SizeOfPlaces, NamedSize DEF WellFormed, Types, InodeRecord
    <2>1. Cardinality(NamedBy(i)) <= table[i].links
      BY <1>7, <1>8, <2>0 DEF NamesCovered, Covered
    <2>2. Cardinality(NamedBy(i)') = Cardinality(NamedBy(i)) - 1 /\ Cardinality(NamedBy(i)) \in Nat
      BY <1>5, <1>6, SizeOfPlaces, NamedSize
    <2>3. table[i].links \in Nat
      BY DEF WellFormed, Types, InodeRecord
    <2> QED BY <1>4, <2>1, <2>2, <2>3
  <1>9. ASSUME NEW j
        PROVE  Guarded(j)'
    <2>1. ~Making(j, todo') /\ ~Freeing(j, todo') /\ ~UnmarkFreed(j, todo') /\ ~AddLink(j, todo')
      BY <1>1, AboutOne DEF About
    <2>2. Dropping(j, todo') => j = i
      BY <1>1, AboutOne DEF About
    <2> QED BY <1>4, <1>8, <2>1, <2>2 DEF Guarded
  <1> QED BY <1>4, <1>5, <1>7, <1>9, FewerNames DEF WellFormed

LEMMA TruncateKeepsNames ==
    ASSUME WellFormed, NamesCovered, Truncate, UNCHANGED <<running, fds, calls, crashes>>
    PROVE  NamesCovered'
  <1>0. PICK i : i = Head(todo).ino
    OBVIOUS
  <1>1. UNCHANGED <<table, used, uncounted>> /\ (content' = content \/ content' = [content EXCEPT ![i] = Empty])
    BY <1>0 DEF Truncate
  <1>2. \A j : NamedBy(j)' \subseteq NamedBy(j)
    BY <1>1, EmptyNames, SameNames DEF WellFormed
  <1>3. CASE Plain(todo) /\ Plain(todo')
    <2>1. \A j : ~CountLink(j, todo) /\ Guarded(j)'
      BY <1>3, AboutNone, NotCounting, NoGuard
    <2> QED BY <1>1, <1>2, <2>1, FewerNames DEF WellFormed
  <1>4. CASE EmptyAndDrop(i, todo) /\ DropLink(i, todo')
    <2>1. Dropping(i, todo) /\ Dropping(i, todo')
      BY <1>4 DEF Dropping
    <2>2. \A j : ~CountLink(j, todo)
      BY <2>1, NotCounting
    <2>3. i \in Ino
      <3>1. ~Plain(todo) /\ todo # << >> /\ Head(todo).op = "truncate"
        BY <1>4, StagesOfPlain DEF Truncate, Doing
      <3> QED BY <1>0, <3>1, Kinds DEF WellFormed
    <2>4. ASSUME i \notin uncounted
          PROVE  Cardinality(NamedBy(i)') < table'[i].links
      <3>1. Cardinality(NamedBy(i)) < table[i].links
        BY <2>1, <2>3, <2>4 DEF NamesCovered, Guarded
      <3>2. /\ Cardinality(NamedBy(i)') <= Cardinality(NamedBy(i))
            /\ Cardinality(NamedBy(i)) \in Nat /\ Cardinality(NamedBy(i)') \in Nat
        BY <1>2, NamedSize, SizeOfPlaces
      <3>3. table[i].links \in Nat
        BY <2>3 DEF WellFormed, Types, InodeRecord
      <3> QED BY <1>1, <3>1, <3>2, <3>3
    <2>5. ASSUME NEW j
          PROVE  Guarded(j)'
      <3>1. ~Making(j, todo') /\ ~Freeing(j, todo') /\ ~UnmarkFreed(j, todo') /\ ~AddLink(j, todo')
        BY <2>1, AboutOne DEF About
      <3>2. Dropping(j, todo') => j = i
        BY <2>1, AboutOne DEF About
      <3> QED BY <1>1, <2>4, <3>1, <3>2 DEF Guarded
    <2> QED BY <1>1, <1>2, <2>2, <2>5, FewerNames DEF WellFormed
  <1> QED BY <1>0, <1>3, <1>4, TruncateFits

LEMMA WriteDataKeepsNames ==
    ASSUME WellFormed, NamesCovered, WriteData, UNCHANGED <<running, fds, calls, crashes>>
    PROVE  NamesCovered'
  <1>0. PICK i, s : i = Head(todo).ino /\ s = Head(todo).slot
    OBVIOUS
  <1>1. Plain(todo) /\ Plain(todo')
    BY WriteDataFits
  <1>2. i \in Ino /\ s \in Slot
    <2>1. todo # << >> /\ Head(todo).op = "write"
      BY DEF WriteData, Doing
    <2>2. Head(todo) \in PlainStep \cup LastStep
      BY <1>1, <2>1, PlainIsAny
    <2> QED BY <1>0, <2>1, <2>2 DEF PlainStep, LastStep, Step
  <1>3. \A j : ~CountLink(j, todo) /\ Guarded(j)'
    BY <1>1, AboutNone, NotCounting, NoGuard
  <1>4. UNCHANGED <<table, used>>
    BY DEF WriteData
  <1>5. CASE UNCHANGED <<content, uncounted>>
    BY <1>3, <1>4, <1>5, SameNames, FewerNames DEF WellFormed
  <1>6. ASSUME NEW piece \in Written(i), content' = [content EXCEPT ![i][s] = piece],
               uncounted' = uncounted \cup (Names(piece) \ NamedIn(i, {s}))
        PROVE  NamesCovered'
    <2>0. content' = [content EXCEPT ![i][s] = piece] /\ Types
      BY <1>6 DEF WellFormed
    <2>1. ASSUME NEW j \in Ino \ uncounted'
          PROVE  NamedBy(j)' \subseteq NamedBy(j)
      <3>1. NamedBy(j)' = IF piece.kind = "entry" /\ piece.ino = j THEN NamedBy(j) \cup {<<i, s>>}
                                                                  ELSE NamedBy(j) \ {<<i, s>>}
        BY <1>2, <2>0, PieceNames
      <3>2. CASE piece.kind = "entry" /\ piece.ino = j
        <4>1. j \in Names(piece)
          BY <3>2 DEF Names
        <4>2. j \in NamedIn(i, {s})
          BY <1>6, <2>1, <4>1
        <4>3. <<i, s>> \in NamedBy(j)
          BY <1>2, <4>2 DEF NamedIn, NamedBy, EntrySlots
        <4> QED BY <3>1, <3>2, <4>3
      <3> QED BY <3>1, <3>2
    <2> QED BY <1>3, <1>4, <1>6, <2>1, FewerNames DEF WellFormed
  <1> QED BY <1>0, <1>5, <1>6 DEF WriteData

\* Steps that change no name and no inode, and say nothing of either.
LEMMA NamesStay ==
    ASSUME WellFormed, NamesCovered, UNCHANGED <<table, used, content, uncounted>>,
           \A j : ~CountLink(j, todo), \A j : ~About(j, todo')
    PROVE  NamesCovered'
  <1>1. \A j : NamedBy(j)' = NamedBy(j)
    BY SameNames
  <1>2. \A j : Guarded(j)'
    BY NoGuard
  <1> QED BY <1>1, <1>2, FewerNames DEF WellFormed

LEMMA InitDirKeepsNames ==
    ASSUME WellFormed, NamesCovered, InitDir, UNCHANGED <<running, fds, calls, crashes>>
    PROVE  NamesCovered'
  <1>0. PICK i : i = Head(todo).ino
    OBVIOUS
  <1>1. AddNew(i, todo) /\ (AddNew(i, todo') \/ Plain(todo'))
    BY <1>0, InitDirFits
  <1>2. i \in Ino
    BY <1>0, Kinds DEF WellFormed, InitDir, Doing
  <1>3. UNCHANGED <<table, used, content, uncounted>>
    BY DEF InitDir
  <1>4. \A j : NamedBy(j)' = NamedBy(j)
    BY <1>3, SameNames
  <1>5. Making(i, todo)
    BY <1>1 DEF Making
  <1>6. \A j : ~CountLink(j, todo)
    BY <1>5, NotCounting
  <1>7. CASE Plain(todo')
    BY <1>3, <1>6, <1>7, AboutNone, NamesStay
  <1>8. CASE AddNew(i, todo')
    <2>1. i \notin uncounted => NamedBy(i) = {}
      BY <1>2, <1>5 DEF NamesCovered, Guarded
    <2>2. \A j : Guarded(j)'
      BY <1>3, <1>4, <1>8, <2>1, UnnamedGuard DEF Making
    <2> QED BY <1>3, <1>4, <1>6, <2>2, FewerNames DEF WellFormed
  <1> QED BY <1>1, <1>7, <1>8

LEMMA OtherWorkKeepsNames ==
    ASSUME WellFormed, NamesCovered, OpenAndClose \/ SaveUsers \/ Remember,
           UNCHANGED <<running, fds, calls, crashes>>
    PROVE  NamesCovered'
  <1>1. UNCHANGED <<table, used, content, uncounted>>
    BY DEF OpenAndClose, SaveUsers, Remember
  <1>2. Plain(todo) /\ (Plain(todo') \/ \E i : Passing(i, todo') \/ MarkNew(i, todo'))
    BY OpenAndCloseFits, SaveUsersFits, RememberFits
  <1>3. \A j : ~CountLink(j, todo)
    BY <1>2, AboutNone, NotCounting
  <1>4. \A j : ~About(j, todo')
    BY <1>2, AboutNone
  <1> QED BY <1>1, <1>3, <1>4, NamesStay

LEMMA CloseAllKeepsNames ==
    ASSUME WellFormed, NamesCovered, CloseAll
    PROVE  NamesCovered'
  <1>1. UNCHANGED <<table, used, content, uncounted>>
    BY DEF CloseAll
  <1>2. Plain(todo) /\ (Plain(todo') \/ \E i : Closing(i, todo'))
    BY CloseAllFits
  <1>3. \A j : ~CountLink(j, todo)
    BY <1>2, AboutNone, NotCounting
  <1>4. \A j : ~About(j, todo')
    BY <1>2, AboutNone
  <1> QED BY <1>1, <1>3, <1>4, NamesStay

LEMMA HaltOrMountKeepsNames ==
    ASSUME WellFormed, NamesCovered, Halt \/ Mount
    PROVE  NamesCovered'
  <1>1. UNCHANGED <<table, used, content, uncounted>>
    BY DEF Halt, Mount
  <1>2. Plain(todo)
    <2>1. CASE Halt
      BY <2>1, Kinds DEF WellFormed, Halt, Doing
    <2>2. CASE Mount
      BY <2>2, NothingIsQuiet DEF WellFormed, Stages, Mount
    <2> QED BY <2>1, <2>2
  <1>3. Plain(todo') \/ Mounting(todo')
    BY NothingIsQuiet, MountFits DEF Halt
  <1>4. \A j : ~CountLink(j, todo)
    BY <1>2, AboutNone, NotCounting
  <1>5. \A j : ~About(j, todo')
    BY <1>3, AboutNone
  <1> QED BY <1>1, <1>4, <1>5, NamesStay

LEMMA CrashKeepsNames ==
    ASSUME WellFormed, NamesCovered, Crash
    PROVE  NamesCovered'
  <1>1. /\ UNCHANGED <<table, used, content>> /\ todo' = << >>
        /\ uncounted' = uncounted \cup (IF Doing("incLink") THEN {Head(todo).ino} ELSE {})
    BY DEF Crash
  <1>2. \A j : CountLink(j, todo) => j \in uncounted'
    <2>1. \A j : CountLink(j, todo) => Doing("incLink") /\ Head(todo).ino = j
      BY Heads DEF Doing
    <2> QED BY <1>1, <2>1
  <1>3. \A j : ~About(j, todo')
    BY <1>1, NothingIsQuiet, AboutNone
  <1>4. \A j : Guarded(j)'
    BY <1>3, NoGuard
  <1>5. \A j : NamedBy(j)' = NamedBy(j)
    BY <1>1, SameNames
  <1> QED BY <1>1, <1>2, <1>4, <1>5, FewerNames DEF WellFormed

\* A link count is raised or lowered, and nothing else changes.
LEMMA LinksOfOne ==
    ASSUME WellFormed, NEW i \in Ino, NEW n, table' = [table EXCEPT ![i] = [table[i] EXCEPT !.links = n]]
    PROVE  /\ \A j \in Ino : j # i => table'[j] = table[j]
           /\ table'[i].links = n /\ table'[i].type = table[i].type
           /\ table'[i].opens = table[i].opens
  <1>1. table \in [Ino -> InodeRecord] /\ table[i] \in InodeRecord
    BY DEF WellFormed, Types
  <1> QED BY <1>1 DEF InodeRecord

LEMMA IncLinkKeepsNames ==
    ASSUME WellFormed, NamesCovered, IncLink,
           UNCHANGED <<running, fds, store, calls, crashes, uncounted>>, lost' \subseteq Ino
    PROVE  NamesCovered'
  <1>0. PICK i : i = Head(todo).ino
    OBVIOUS
  <1>1. CountLink(i, todo) /\ Plain(todo')
    BY <1>0, IncLinkFits
  <1>2. i \in Ino
    BY <1>0, Kinds DEF WellFormed, IncLink, Doing
  <1>3. /\ UNCHANGED <<used, content, uncounted>>
        /\ table' = [table EXCEPT ![i] = [table[i] EXCEPT !.links = table[i].links + 1]]
    BY <1>0 DEF IncLink
  <1>4. /\ \A j \in Ino : j # i => table'[j] = table[j]
        /\ table'[i].links = table[i].links + 1 /\ table'[i].type = table[i].type
    BY <1>2, <1>3, LinksOfOne
  <1>5. \A j : NamedBy(j)' = NamedBy(j)
    BY <1>3, SameNames
  <1>6. \A j : ~About(j, todo') /\ ~CountLink(j, todo')
    BY <1>1, AboutNone, NotCounting
  <1>7. \A j : Guarded(j)'
    BY <1>6, NoGuard
  <1>8. \A j : CountLink(j, todo) => j = i
    BY <1>0, Heads
  <1>9. ASSUME NEW j \in Ino \ uncounted, NamedBy(j)' # {}
        PROVE  j \in used' /\ table'[j].type # "free" /\ Cardinality(NamedBy(j)') <= table'[j].links
    <2>1. /\ j \in used /\ table[j].type # "free"
          /\ Cardinality(NamedBy(j)) <= table[j].links + (IF CountLink(j, todo) THEN 1 ELSE 0)
      BY <1>5, <1>9 DEF NamesCovered, Covered
    <2>2. table[j].links \in Nat
      BY DEF WellFormed, Types, InodeRecord
    <2>3. CASE j = i
      BY <1>1, <1>3, <1>4, <1>5, <2>1, <2>3
    <2>4. CASE j # i
      BY <1>3, <1>4, <1>5, <1>8, <2>1, <2>2, <2>4
    <2> QED BY <2>3, <2>4
  <1>10. \A j \in Ino : table'[j].links + 0 = table'[j].links
    <2>1. ASSUME NEW j \in Ino
          PROVE  table'[j].links \in Nat
      <3>1. table[j].links \in Nat /\ table[i].links \in Nat
        BY <1>2 DEF WellFormed, Types, InodeRecord
      <3> QED BY <1>4, <3>1
    <2> QED BY <2>1
  <1>11. ASSUME NEW j \in Ino
         PROVE  Covered(j)'
    BY <1>3, <1>6, <1>9, <1>10, <1>11 DEF Covered
  <1> QED BY <1>3, <1>7, <1>11 DEF NamesCovered

LEMMA DecLinkKeepsNames ==
    ASSUME WellFormed, NamesCovered, DecLink,
           UNCHANGED <<running, fds, store, calls, crashes, uncounted>>, lost' \subseteq Ino
    PROVE  NamesCovered'
  <1>0. PICK i : i = Head(todo).ino
    OBVIOUS
  <1>1. /\ DropLink(i, todo)
        /\ Plain(todo') \/ (Less(table[i].links) = 0 /\ table[i].opens = 0 /\ FreeIt(i, todo'))
    BY <1>0, DecLinkFits
  <1>2. i \in Ino
    BY <1>0, Kinds DEF WellFormed, DecLink, Doing
  <1>3. /\ UNCHANGED <<used, content, uncounted>>
        /\ \/ table' = [table EXCEPT ![i] = [table[i] EXCEPT !.links = Less(table[i].links)]]
           \/ table' = table
        /\ table' = table => Less(table[i].links) = table[i].links \/ FreeIt(i, todo')
    <2>1. /\ UNCHANGED <<used, content, uncounted>>
          /\ \/ table' = [table EXCEPT ![i] = [table[i] EXCEPT !.links = Less(table[i].links)]]
             \/ table' = table /\ [table[i] EXCEPT !.links = Less(table[i].links)].links = 0
                  /\ [table[i] EXCEPT !.links = Less(table[i].links)].opens = 0
      BY <1>0 DEF DecLink, WriteOrFree
    <2>2. table[i] \in InodeRecord
      BY <1>2 DEF WellFormed, Types
    <2>3. /\ [table[i] EXCEPT !.links = Less(table[i].links)].links = Less(table[i].links)
          /\ [table[i] EXCEPT !.links = Less(table[i].links)].opens = table[i].opens
      BY <2>2 DEF InodeRecord
    <2>4. table' = [table EXCEPT ![i] = [table[i] EXCEPT !.links = Less(table[i].links)]]
             => table'[i].links = Less(table[i].links)
      BY <1>2, LinksOfOne
    <2>5. Less(table[i].links) = 0 /\ table[i].opens = 0 => FreeIt(i, todo')
      BY <1>0, DecLinkFits
    <2> QED BY <2>1, <2>3, <2>4, <2>5
  <1>4. \A j : NamedBy(j)' = NamedBy(j)
    BY <1>3, SameNames
  <1>5. Dropping(i, todo)
    BY <1>1 DEF Dropping
  <1>6. \A j : ~CountLink(j, todo)
    BY <1>5, NotCounting
  <1>7. \A j : ~CountLink(j, todo')
    <2>1. Plain(todo') \/ Freeing(i, todo')
      BY <1>1 DEF Freeing
    <2> QED BY <2>1, AboutNone, NotCounting
  <1>8. ASSUME i \notin uncounted
        PROVE  /\ Cardinality(NamedBy(i)) <= Less(table[i].links) /\ Cardinality(NamedBy(i)) \in Nat
               /\ Less(table[i].links) \in Nat /\ table[i].links \in Nat
    <2>1. Cardinality(NamedBy(i)) < table[i].links
      BY <1>2, <1>5, <1>8 DEF NamesCovered, Guarded
    <2>2. table[i].links \in Nat /\ Cardinality(NamedBy(i)) \in Nat
      BY <1>2, NamedSize, SizeOfPlaces DEF WellFormed, Types, InodeRecord
    <2> QED BY <2>1, <2>2, LessIsNat
  <1>9. ASSUME NEW j \in Ino
        PROVE  Guarded(j)'
    <2>1. CASE Plain(todo')
      BY <2>1, AboutNone, NoGuard
    <2>2. CASE Less(table[i].links) = 0 /\ FreeIt(i, todo')
      <3>1. i \notin uncounted' => NamedBy(i)' = {}
        BY <1>3, <1>4, <1>8, <2>2, NamedSize, SizeOfPlaces
      <3> QED BY <2>2, <3>1, UnnamedGuard DEF Freeing
    <2> QED BY <1>1, <2>1, <2>2
  <1>10. ASSUME NEW j \in Ino \ uncounted, NamedBy(j)' # {}
         PROVE  j \in used' /\ table'[j].type # "free" /\ Cardinality(NamedBy(j)') <= table'[j].links + 0
    <2>1. j \in used /\ table[j].type # "free" /\ Cardinality(NamedBy(j)) <= table[j].links + 0
      BY <1>4, <1>6, <1>10 DEF NamesCovered, Covered
    <2>2. CASE table' = table
      BY <1>3, <1>4, <2>1, <2>2
    <2>3. CASE table' = [table EXCEPT ![i] = [table[i] EXCEPT !.links = Less(table[i].links)]]
      <3>1. /\ \A k \in Ino : k # i => table'[k] = table[k]
            /\ table'[i].links = Less(table[i].links) /\ table'[i].type = table[i].type
        BY <1>2, <2>3, LinksOfOne
      <3>2. CASE j = i
        BY <1>3, <1>4, <1>8, <1>10, <2>1, <3>1, <3>2
      <3>3. CASE j # i
        BY <1>3, <1>4, <2>1, <3>1, <3>3
      <3> QED BY <3>2, <3>3
    <2> QED BY <1>3, <2>2, <2>3
  <1>11. ASSUME NEW j \in Ino
         PROVE  Covered(j)'
    BY <1>3, <1>7, <1>10, <1>11 DEF Covered
  <1> QED BY <1>3, <1>9, <1>11 DEF NamesCovered

\* An entry for a new inode, or one more for an old one.
LEMMA AddEntryKeepsNames ==
    ASSUME WellFormed, NamesCovered, AddEntry, UNCHANGED <<running, fds, calls, crashes>>
    PROVE  NamesCovered'
  <1>0. PICK i, d, s : i = Head(todo).ino /\ d = Head(todo).dir /\ s = Min(FreeSlots(Head(todo).dir))
    OBVIOUS
  <1>1. \/ AddNew(i, todo) /\ (Plain(todo') \/ (FreeSlots(d) = {} /\ FreeIt(i, todo')))
        \/ AddLink(i, todo) /\ IF FreeSlots(d) # {} THEN CountLink(i, todo') ELSE Plain(todo')
    BY <1>0, AddEntryFits
  <1>2. todo # << >> /\ i \in Ino \ {Root} /\ d \in Ino
    <2>1. todo # << >> /\ i \in Ino \ {Root}
      BY <1>0, Kinds DEF WellFormed, AddEntry, Doing
    <2> QED BY <1>0, <1>1, <2>1 DEF AddNew, FirstEntry, InitStep, AddLink, AddStep
  <1>3. UNCHANGED <<table, used, uncounted>>
    BY DEF AddEntry
  <1>4. Making(i, todo) \/ AddLink(i, todo)
    BY <1>1 DEF Making
  <1>5. \A j : ~CountLink(j, todo)
    BY <1>4, NotCounting
  <1>6. CASE FreeSlots(d) = {}
    <2>1. UNCHANGED content
      BY <1>0, <1>6 DEF AddEntry
    <2>2. \A j : NamedBy(j)' = NamedBy(j)
      BY <2>1, SameNames
    <2>3. CASE Plain(todo')
      BY <1>3, <1>5, <2>1, <2>3, AboutNone, NamesStay
    <2>4. CASE AddNew(i, todo) /\ FreeIt(i, todo')
      <3>1. i \notin uncounted => NamedBy(i) = {}
        BY <1>2, <2>4 DEF NamesCovered, Guarded, Making
      <3>2. \A j : Guarded(j)'
        BY <1>3, <2>2, <2>4, <3>1, UnnamedGuard DEF Freeing
      <3> QED BY <1>3, <1>5, <2>2, <3>2, FewerNames DEF WellFormed
    <2> QED BY <1>1, <1>6, <2>3, <2>4
  <1>7. CASE FreeSlots(d) # {}
    <2>0. s \in Slot /\ content[d][s] = Nothing
      BY <1>0, <1>7, SlotOf DEF FreeSlots
    <2>1. PICK n : content' = [content EXCEPT ![d][s] = Entry(n, i)]
      BY <1>0, <1>7 DEF AddEntry
    <2>2. ASSUME NEW j
          PROVE  NamedBy(j)' = IF j = i THEN NamedBy(j) \cup {<<d, s>>} ELSE NamedBy(j)
      <3> DEFINE piece == Entry(n, i)
      <3>1. piece.kind = "entry" /\ piece.ino = i
        BY DEF Entry
      <3> HIDE DEF piece
      <3>2. NamedBy(j)' = IF piece.kind = "entry" /\ piece.ino = j THEN NamedBy(j) \cup {<<d, s>>}
                                                                  ELSE NamedBy(j) \ {<<d, s>>}
        BY <1>2, <2>0, <2>1, PieceNames DEF WellFormed, piece
      <3>3. <<d, s>> \notin NamedBy(j)
        BY <2>0 DEF NamedBy, Nothing
      <3> QED BY <3>1, <3>2, <3>3
    <2>3. /\ Cardinality(NamedBy(i)') = Cardinality(NamedBy(i)) + 1
          /\ Cardinality(NamedBy(i)) \in Nat /\ NamedBy(i)' # {}
          /\ NamedBy(i) = {} => Cardinality(NamedBy(i)) = 0
      <3>1. <<d, s>> \notin NamedBy(i)
        BY <2>0 DEF NamedBy, Nothing
      <3> QED BY <2>2, <3>1, NamedSize, SizeOfPlaces
    <2>4. ASSUME i \notin uncounted
          PROVE  /\ i \in used /\ table[i].type # "free" /\ table[i].links \in Nat
                 /\ AddNew(i, todo) => Cardinality(NamedBy(i)') <= table[i].links
                 /\ AddLink(i, todo) => Cardinality(NamedBy(i)') <= table[i].links + 1
      <3>1. table[i].links \in Nat
        BY <1>2 DEF WellFormed, Types, InodeRecord
      <3>2. CASE AddNew(i, todo)
        <4>1. i \in used /\ table[i] \in Made
          BY <1>2, <3>2 DEF WellFormed, Stages
        <4>2. table[i].type # "free" /\ table[i].links >= 1
          BY <4>1 DEF Made, NewInode
        <4>3. NamedBy(i) = {}
          BY <1>2, <2>4, <3>2 DEF NamesCovered, Guarded, Making
        <4>4. ~AddLink(i, todo)
          BY <3>2, NewOrLinked
        <4> QED BY <2>3, <3>1, <4>1, <4>2, <4>3, <4>4
      <3>3. CASE AddLink(i, todo)
        <4>1. i \in used /\ table[i].type # "free"
          BY <1>2, <2>4, <3>3 DEF NamesCovered, Guarded
        <4>2. ~AddNew(i, todo)
          BY <3>3, NewOrLinked
        <4>3. NamedBy(i) # {} => Cardinality(NamedBy(i)) <= table[i].links + 0
          BY <1>2, <1>5, <2>4 DEF NamesCovered, Covered
        <4> QED BY <2>3, <3>1, <4>1, <4>2, <4>3
      <3> QED BY <1>1, <3>2, <3>3
    <2>5. \/ AddNew(i, todo) /\ \A j : ~About(j, todo')
          \/ AddLink(i, todo) /\ CountLink(i, todo')
      BY <1>1, <1>7, AboutNone
    <2>6. ASSUME NEW j
          PROVE  Guarded(j)'
      <3>1. CASE \A k : ~About(k, todo')
        BY <3>1, NoGuard
      <3>2. CASE CountLink(i, todo')
        <4>1. /\ ~Making(j, todo') /\ ~Freeing(j, todo') /\ ~UnmarkFreed(j, todo')
              /\ ~AddLink(j, todo') /\ ~Dropping(j, todo')
          BY <3>2, AboutOne DEF About
        <4> QED BY <4>1 DEF Guarded
      <3> QED BY <2>5, <3>1, <3>2
    <2>7. ASSUME NEW j \in Ino, j \notin uncounted
          PROVE  Covered(j)'
      <3>1. CASE j = i
        <4>1. Cardinality(NamedBy(i)') <= table[i].links + (IF CountLink(i, todo') THEN 1 ELSE 0)
          <5>1. CASE AddNew(i, todo) /\ \A k : ~About(k, todo')
            BY <2>3, <2>4, <2>7, <3>1, <5>1 DEF About
          <5>2. CASE AddLink(i, todo) /\ CountLink(i, todo')
            BY <2>4, <2>7, <3>1, <5>2
          <5> QED BY <2>5, <5>1, <5>2
        <4> QED BY <1>3, <2>4, <2>7, <3>1, <4>1 DEF Covered
      <3>2. CASE j # i
        <4>1. NamedBy(j)' = NamedBy(j)
          BY <2>2, <3>2
        <4>2. ~CountLink(j, todo')
          BY <2>5, <3>2, Heads DEF About
        <4>3. Covered(j) /\ ~CountLink(j, todo)
          BY <1>5, <2>7 DEF NamesCovered
        <4> QED BY <1>3, <4>1, <4>2, <4>3 DEF Covered
      <3> QED BY <3>1, <3>2
    <2>8. \A j \in Ino : Covered(j)'
      BY <1>3, <2>7 DEF Covered
    <2> QED BY <2>6, <2>8 DEF NamesCovered
  <1> QED BY <1>6, <1>7

\* Whatever some path leads to has a name, but for the root.
LEMMA ReachedIsNamed ==
    ASSUME WellFormed, NEW i \in Reached \ {Root}
    PROVE  i \in used /\ i \in Ino /\ NamedBy(i) # {}
  <1>1. i \in used /\ i \in Ino /\ used \subseteq Ino /\ Root \in used
    BY DEF Reached, WellFormed, Types, RootKept
  <1>2. PICK d \in used \ {i}, n \in Name : Resolve(d, n) \notin (used \ {i}) \cup {None}
    <2> DEFINE S == used \ {i}
    <2>1. S \in SUBSET (used \ {i}) /\ Root \in S
      BY <1>1
    <2> HIDE DEF S
    <2>2. \E d \in S, n \in Name : Resolve(d, n) \notin S \cup {None}
      BY <2>1 DEF Reached
    <2> QED BY <2>2 DEF S
  <1>3. Resolve(d, n) = i
    BY <1>2, ResolveIsInode
  <1>4. Found(d, n) \in Slot /\ content[d][Found(d, n)].kind = "entry" /\ content[d][Found(d, n)].ino = i
    BY <1>2, <1>3, ResolveIsInode
  <1>5. <<d, Found(d, n)>> \in NamedBy(i)
    BY <1>1, <1>2, <1>4 DEF NamedBy
  <1> QED BY <1>1, <1>5

LEMMA CommandKeepsNames ==
    ASSUME WellFormed, NamesCovered, Idle, Command
    PROVE  NamesCovered'
  <1>1. UNCHANGED <<table, used, content, uncounted>>
    BY DEF Command, Mkdir, CreateNew, CreateExisting, Delete, Rmdir, Link, Open, Close, Write,
           ChangeUsers, Logout, Exit, Call, Run
  <1>2. \A j : ~CountLink(j, todo)
    BY NothingIsQuiet, AboutNone, NotCounting DEF Idle
  <1>3. CASE \E d \in Dirs, n \in Name : Mkdir(d, n) \/ CreateNew(d, n)
    <2>1. MarkNew(NewIno, todo')
      BY <1>3, MakeFits
    <2> QED BY <1>1, <1>2, <2>1, AboutNone, NamesStay
  <1>4. CASE \E d \in Dirs, n \in Name : CreateExisting(d, n)
    <2>1. Plain(todo')
      BY <1>4, CreateExistingFits
    <2> QED BY <1>1, <1>2, <2>1, AboutNone, NamesStay
  <1>5. CASE \E d \in Dirs, n \in Name : Delete(d, n) \/ Rmdir(d, n)
    <2>1. \E i : RemoveAndDrop(i, todo')
      BY <1>5, RemoveAndDropFits
    <2>2. \A j : ~About(j, todo')
      BY <2>1, AboutNone
    <2> QED BY <1>1, <1>2, <2>2, NamesStay
  <1>6. CASE \E i \in Reached, t \in BOOLEAN : Open(i, t)
    <2>1. \E i : Opening(i, todo')
      BY <1>6, OpenFits
    <2>2. \A j : ~About(j, todo')
      BY <2>1, AboutNone
    <2> QED BY <1>1, <1>2, <2>2, NamesStay
  <1>7. CASE \E f \in Fd : Close(f)
    <2>1. \E i : Closing(i, todo')
      BY <1>7, CloseFits
    <2>2. \A j : ~About(j, todo')
      BY <2>1, AboutNone
    <2> QED BY <1>1, <1>2, <2>2, NamesStay
  <1>8. CASE (\E f \in Fd, s \in Slot : Write(f, s)) \/ ChangeUsers \/ Logout \/ Exit
    <2>1. Plain(todo')
      BY <1>8, PlainCommandFits
    <2> QED BY <1>1, <1>2, <2>1, AboutNone, NamesStay
  <1>9. ASSUME NEW i \in Reached, NEW d \in Reached, NEW n \in Name, Link(i, d, n)
        PROVE  NamesCovered'
    <2>1. AddLink(i, todo')
      BY <1>9, LinkFits
    <2>2. table[i].type # "dir"
      BY <1>9 DEF Link
    <2>3. i \in used /\ i \in Ino /\ NamedBy(i) # {}
      BY <2>2, ReachedIsNamed DEF WellFormed, RootKept
    <2>4. ASSUME i \notin uncounted
          PROVE  i \in used /\ table[i].type # "free"
      BY <2>3, <2>4 DEF NamesCovered, Covered
    <2>5. ASSUME NEW j
          PROVE  Guarded(j)'
      <3>1. ~Making(j, todo') /\ ~Freeing(j, todo') /\ ~UnmarkFreed(j, todo') /\ ~Dropping(j, todo')
        BY <2>1, AboutOne DEF About
      <3>2. AddLink(j, todo') => j = i
        BY <2>1, AboutOne DEF About
      <3> QED BY <1>1, <2>4, <3>1, <3>2 DEF Guarded
    <2>6. \A j : NamedBy(j)' = NamedBy(j)
      BY <1>1, SameNames
    <2> QED BY <1>1, <1>2, <2>5, <2>6, FewerNames DEF WellFormed
  <1> QED BY <1>3, <1>4, <1>5, <1>6, <1>7, <1>8, <1>9 DEF Command

LEMMA WorkKeepsNames ==
    ASSUME WellFormed, NamesCovered, Work
    PROVE  NamesCovered'
  <1>1. CASE InodeStep /\ lost' = (lost \cup FreeLoses) \cap used' /\ UNCHANGED <<store, uncounted>>
                       /\ UNCHANGED <<running, fds, calls, crashes>>
    <2>1. lost' \subseteq Ino
      <3>1. lost' \subseteq used'
        BY <1>1
      <3>2. used' \subseteq Ino
        BY WorkFits DEF WellFormed, Types
      <3> QED BY <3>1, <3>2
    <2> QED BY <1>1, <2>1, MarkKeepsNames, WriteTableKeepsNames, CountKeepsNames, FreeKeepsNames, UnmarkKeepsNames,
               IncLinkKeepsNames, DecLinkKeepsNames, OpensKeepNames DEF InodeStep
  <1>2. CASE (\/ InitDir \/ AddEntry \/ RemoveEntry \/ Truncate \/ WriteData
              \/ OpenAndClose \/ SaveUsers \/ Remember)
               /\ UNCHANGED <<running, fds, calls, crashes>>
    BY <1>2, InitDirKeepsNames, AddEntryKeepsNames, RemoveKeepsNames, TruncateKeepsNames, WriteDataKeepsNames, OtherWorkKeepsNames
  <1> QED BY <1>1, <1>2 DEF Work

LEMMA NextKeepsNames ==
    ASSUME WellFormed, NamesCovered, [Next]_vars
    PROVE  NamesCovered'
  <1>1. CASE UNCHANGED vars
    <2>1. UNCHANGED <<table, used, content, uncounted, todo>>
      BY <1>1 DEF vars, inodeVars
    <2>2. \A j : NamedBy(j)' = NamedBy(j)
      BY <2>1, SameNames
    <2> QED BY <2>1, <2>2 DEF NamesCovered, Covered, Guarded
  <1>2. CASE Next
    BY <1>2, CommandKeepsNames, WorkKeepsNames, CloseAllKeepsNames, HaltOrMountKeepsNames, CrashKeepsNames DEF Next
  <1> QED BY <1>1, <1>2

LEMMA InitNames ==
    ASSUME Init
    PROVE  NamesCovered
  <1>1. ASSUME NEW j
        PROVE  NamedBy(j) = {}
    <2>1. \A d \in Ino, s \in Slot : content[d][s].kind # "entry"
      BY DEF Init, Empty, Nothing
    <2> QED BY <2>1 DEF NamedBy
  <1>2. \A j : ~About(j, todo)
    BY NothingIsQuiet, AboutNone DEF Init
  <1> QED BY <1>1, <1>2 DEF NamesCovered, Covered, Guarded, About

\* The link count of an inode covers its names but for one that the running call is
\* about to count, and nothing names a free inode; not so for the inodes that a killed
\* link() or data written to a directory has given an entry.
THEOREM NamesStayCovered == Spec => [](WellFormed /\ NamesCovered)
  <1>1. Init => WellFormed /\ NamesCovered
    BY InitWellFormed, InitNames
  <1>2. WellFormed /\ NamesCovered /\ [Next]_vars => (WellFormed /\ NamesCovered)'
    BY NextWellFormed, NextKeepsNames
  <1> QED BY <1>1, <1>2, PTL DEF Spec

\* The link count of an inode covers the entries that name it, and nothing names a
\* free inode, but for the inodes to which a link() that was killed between its two
\* writes, or data written to a directory, has given an entry no count knows.
THEOREM LinkCountsCoverEntries == Spec => []LinksCoverEntries
  <1>1. ASSUME WellFormed, NamesCovered
        PROVE  LinksCoverEntries
    <2>1. SUFFICES ASSUME NEW i \in Ino \ uncounted, NamedBy(i) # {}
                   PROVE  /\ i \in used /\ table[i].type # "free"
                          /\ Cardinality(NamedBy(i)) <= table[i].links + Counting(i)
      BY DEF LinksCoverEntries
    <2>2. /\ i \in used /\ table[i].type # "free"
          /\ Cardinality(NamedBy(i)) <= table[i].links + (IF CountLink(i, todo) THEN 1 ELSE 0)
      BY <1>1, <2>1 DEF NamesCovered, Covered
    <2>3. CountLink(i, todo) => Counting(i) = 1
      BY Heads DEF Counting, Doing
    <2>4. Counting(i) \in {0, 1}
      BY DEF Counting
    <2>5. table[i].links \in Nat /\ Cardinality(NamedBy(i)) \in Nat
      BY <1>1, NamedSize, SizeOfPlaces DEF WellFormed, Types, InodeRecord
    <2> QED BY <2>2, <2>3, <2>4, <2>5
  <1> QED BY <1>1, NamesStayCovered, PTL

-----------------------------------------------------------------------------
(***************************************************************************)
(* Descriptors and open counts                                             *)
(***************************************************************************)

Openers(i) == {f \in Fd : fds[f] = i}

\* The open count lags behind the descriptors while one is opened or closed, and
\* says nothing while the inode is being freed.
OpensOf(i) ==
    IF Freeing(i, todo) THEN Openers(i) = {}
    ELSE table[i].opens = Cardinality(Openers(i)) + (IF Closing(i, todo) THEN 1 ELSE 0)
                                                  - (IF Opening(i, todo) THEN 1 ELSE 0)
OpensRight ==
    /\ running /\ ~Mounting(todo) => \A i \in Ino : OpensOf(i)
    /\ \A f \in Fd : fds[f] # None => fds[f] \in used
    /\ \A f \in Fd : fds[f] # None /\ (crashes = 0 \/ fds[f] \notin uncounted) => table[fds[f]].type # "free"

\* Rows of steps during which the open counts are right.
Settled(s) == ~Mounting(s) /\ \A i : ~Freeing(i, s) /\ ~Opening(i, s) /\ ~Closing(i, s)

LEMMA SettledRows ==
    ASSUME NEW s,
           \/ Plain(s) \/ CountFreed(s)
           \/ \E i : \/ MarkNew(i, s) \/ Making(i, s) \/ UnmarkFreed(i, s)
                     \/ AddLink(i, s) \/ CountLink(i, s) \/ RemoveAndDrop(i, s) \/ Dropping(i, s) \/ Passing(i, s)
    PROVE  Settled(s)
  <1>1. CASE Plain(s)
    BY <1>1, StagesOfPlain DEF Settled, Freeing
  <1>2. CASE CountFreed(s)
    BY <1>2, Heads DEF Settled, Freeing
  <1>3. CASE \E i : MarkNew(i, s) \/ UnmarkFreed(i, s)
    BY <1>3, Heads DEF Settled, Freeing
  <1>4. CASE \E i : Making(i, s)
    <2>1. CASE \E i : WriteNew(i, s)
      <3>1. s # << >> /\ Head(s).op = "table" /\ Head(s).inode # FreeInode
        BY <2>1, Heads
      <3> QED BY <3>1, Heads DEF Settled, Freeing
    <2>2. CASE \E i : CountNew(i, s) \/ AddNew(i, s)
      <3>1. Head(s).op \in {"count", "add", "init"}
        BY <2>2, Heads
      <3> QED BY <3>1, Heads DEF Settled, Freeing
    <2> QED BY <1>4, <2>1, <2>2 DEF Making
  <1>5. CASE \E i : AddLink(i, s) \/ CountLink(i, s) \/ RemoveAndDrop(i, s)
    <2>1. Head(s).op \in {"add", "incLink", "remove"}
      BY <1>5, Heads
    <2> QED BY <2>1, Heads DEF Settled, Freeing
  <1>6. CASE \E i : Dropping(i, s)
    <2>1. Head(s).op \in {"decLink", "truncate"}
      BY <1>6, Heads DEF Dropping
    <2> QED BY <2>1, Heads DEF Settled, Freeing
  <1>7. CASE \E i : Passing(i, s)
    <2>1. Head(s).op = "incOpen" /\ \E i : Closing(i, Tail(s))
      BY <1>7, Heads DEF Passing
    <2>2. ~Plain(Tail(s))
      BY <2>1, StagesOfPlain
    <2>3. \A i : ~Opening(i, s)
      BY <2>2 DEF Opening
    <2>4. ~Mounting(s) /\ \A i : ~Freeing(i, s) /\ ~Closing(i, s)
      BY <2>1, Heads DEF Freeing
    <2> QED BY <2>3, <2>4 DEF Settled
  <1> QED BY <1>1, <1>2, <1>3, <1>4, <1>5, <1>6, <1>7

LEMMA OpenersAreFinite ==
    ASSUME NEW S \in SUBSET Fd
    PROVE  /\ IsFiniteSet(S) /\ Cardinality(S) \in Nat /\ (Cardinality(S) = 0 <=> S = {})
           /\ \A f : /\ f \in S => Cardinality(S \ {f}) = Cardinality(S) - 1
                     /\ f \notin S => Cardinality(S \cup {f}) = Cardinality(S) + 1
  <1>1. IsFiniteSet(Fd)
    BY FS_Interval, NamespaceAssumption DEF Fd
  <1>2. IsFiniteSet(S)
    BY <1>1, FS_Subset
  <1> QED BY <1>2, FS_CardinalityType, FS_EmptySet, FS_AddElement, FS_RemoveElement

LEMMA OpenersSize ==
    ASSUME NEW i
    PROVE  /\ Openers(i) \in SUBSET Fd /\ Cardinality(Openers(i)) \in Nat
           /\ Cardinality(Openers(i)) = 0 <=> Openers(i) = {}
  <1>1. Openers(i) \in SUBSET Fd
    BY DEF Openers
  <1> QED BY <1>1, OpenersAreFinite

LEMMA SettledOpens ==
    ASSUME Settled(todo), OpensRight, running, WellFormed, NEW i \in Ino
    PROVE  table[i].opens = Cardinality(Openers(i))
  <1>1. table[i].opens = Cardinality(Openers(i)) + 0 - 0
    BY DEF OpensRight, OpensOf, Settled
  <1> QED BY <1>1, OpenersSize

\* Steps that change no open count and no descriptor.
LEMMA OpensStay ==
    ASSUME WellFormed, OpensRight, UNCHANGED <<running, fds, crashes>>, uncounted \subseteq uncounted',
           Settled(todo), Settled(todo'),
           \A i \in Ino : table'[i].opens = table[i].opens,
           \A i \in Ino : Openers(i) # {} =>
               (i \in used => i \in used') /\ (table[i].type # "free" => table'[i].type # "free")
    PROVE  OpensRight'
  <1>1. \A i : Openers(i)' = Openers(i)
    BY DEF Openers
  <1>2. ASSUME running', NEW i \in Ino
        PROVE  OpensOf(i)'
    <2>1. table[i].opens = Cardinality(Openers(i))
      BY <1>2, SettledOpens
    <2>2. table'[i].opens = Cardinality(Openers(i)') + 0 - 0
      BY <1>1, <2>1, OpenersSize
    <2>3. ~Freeing(i, todo') /\ ~Closing(i, todo') /\ ~Opening(i, todo')
      BY DEF Settled
    <2> QED BY <2>2, <2>3 DEF OpensOf
  <1>3. ASSUME NEW f \in Fd, fds'[f] # None
        PROVE  fds[f] \in Ino /\ fds[f] \in used /\ Openers(fds[f]) # {}
    BY <1>3 DEF OpensRight, Openers, WellFormed, Types
  <1>4. \A f \in Fd : fds'[f] # None => fds'[f] \in used'
    BY <1>3
  <1>5. \A f \in Fd : fds'[f] # None /\ (crashes' = 0 \/ fds'[f] \notin uncounted') => table'[fds'[f]].type # "free"
    BY <1>3 DEF OpensRight
  <1> QED BY <1>2, <1>4, <1>5 DEF OpensRight

LEMMA MarkKeepsOpens ==
    ASSUME WellFormed, OpensRight, Mark, UNCHANGED <<running, fds, store, calls, crashes, uncounted>>, lost' \subseteq Ino
    PROVE  OpensRight'
  <1>0. PICK i : i = Head(todo).ino
    OBVIOUS
  <1>1. MarkNew(i, todo) /\ WriteNew(i, todo')
    BY <1>0, Kinds, MarkFits DEF WellFormed, Mark, Doing
  <1>2. Settled(todo) /\ Settled(todo')
    BY <1>1, SettledRows DEF Making
  <1>3. table' = table /\ used \subseteq used'
    BY DEF Mark
  <1> QED BY <1>2, <1>3, OpensStay

LEMMA WriteTableKeepsOpens ==
    ASSUME WellFormed, OpensRight, WriteTable, UNCHANGED <<running, fds, store, calls, crashes, uncounted>>, lost' \subseteq Ino
    PROVE  OpensRight'
  <1>0. PICK i : i = Head(todo).ino
    OBVIOUS
  <1>1. /\ todo # << >> /\ i \in Ino \ {Root} /\ running
        /\ \/ WriteNew(i, todo) /\ CountNew(i, todo')
           \/ WriteFreed(i, todo) /\ UnmarkFreed(i, todo')
    BY <1>0, Kinds, WriteTableFits, WorkRuns DEF WellFormed, WriteTable, Doing
  <1>2. used' = used /\ table' = [table EXCEPT ![i] = Head(todo).inode]
    BY <1>0 DEF WriteTable
  <1>3. (\A j \in Ino : j # i => table'[j] = table[j]) /\ table'[i] = Head(todo).inode
    BY <1>1, <1>2 DEF WellFormed, Types
  <1>4. CASE WriteNew(i, todo) /\ CountNew(i, todo')
    <2>1. Settled(todo) /\ Settled(todo')
      BY <1>4, SettledRows DEF Making
    <2>2. table'[i].opens = 0 /\ table'[i].type # "free"
      BY <1>3, <1>4 DEF WriteNew, WriteEntry, Made, NewInode
    <2>3. table[i].opens = 0
      BY <1>1, <1>4 DEF WellFormed, Stages, FreeInode
    <2> QED BY <1>2, <1>3, <2>1, <2>2, <2>3, OpensStay
  <1>5. CASE WriteFreed(i, todo) /\ UnmarkFreed(i, todo')
    <2>1. Freeing(i, todo) /\ Settled(todo')
      BY <1>5, SettledRows DEF Freeing
    <2>2. ~Mounting(todo)
      BY <1>5, Heads
    <2>3. Openers(i) = {}
      BY <1>1, <2>1, <2>2 DEF OpensRight, OpensOf
    <2>4. table'[i].opens = 0
      BY <1>3, <1>5 DEF WriteFreed, WriteEntry, FreeInode
    <2>5. \A j : Openers(j)' = Openers(j)
      BY DEF Openers
    <2>6. ASSUME NEW j \in Ino
          PROVE  OpensOf(j)'
      <3>1. table'[j].opens = Cardinality(Openers(j))
        <4>1. CASE j = i
          BY <2>3, <2>4, <4>1, OpenersSize
        <4>2. CASE j # i
          <5>1. ~Freeing(j, todo) /\ ~Closing(j, todo) /\ ~Opening(j, todo)
            BY <1>5, <4>2, Heads, SMTT(60) DEF Freeing
          <5>2. table[j].opens = Cardinality(Openers(j)) + 0 - 0
            BY <1>1, <2>2, <5>1 DEF OpensRight, OpensOf
          <5> QED BY <1>3, <4>2, <5>2, OpenersSize
        <4> QED BY <4>1, <4>2
      <3>2. table'[j].opens = Cardinality(Openers(j)') + 0 - 0
        BY <2>5, <3>1, OpenersSize
      <3> QED BY <2>1, <3>2 DEF OpensOf, Settled
    <2>7. ASSUME NEW f \in Fd, fds'[f] # None
          PROVE  /\ fds'[f] \in used'
                 /\ crashes' = 0 \/ fds'[f] \notin uncounted' => table'[fds'[f]].type # "free"
      <3>1. fds[f] \in used /\ fds[f] \in Ino /\ fds[f] # i
        BY <2>3, <2>7 DEF OpensRight, Openers, WellFormed, Types
      <3> QED BY <1>2, <1>3, <2>7, <3>1 DEF OpensRight
    <2> QED BY <2>6, <2>7 DEF OpensRight
  <1> QED BY <1>1, <1>4, <1>5

LEMMA CountKeepsOpens ==
    ASSUME WellFormed, OpensRight, Count, UNCHANGED <<running, fds, store, calls, crashes, uncounted>>, lost' \subseteq Ino
    PROVE  OpensRight'
  <1>1. UNCHANGED <<table, used>>
    BY DEF Count
  <1>2. \/ CountFreed(todo) /\ Plain(todo')
        \/ \E i : Making(i, todo) /\ Making(i, todo')
    BY CountFits DEF Making
  <1>3. Settled(todo) /\ Settled(todo')
    BY <1>2, SettledRows
  <1> QED BY <1>1, <1>3, OpensStay

\* Freeing an inode begins where no descriptor leads to it.
LEMMA FreeingStarts ==
    ASSUME WellFormed, OpensRight, UNCHANGED <<running, fds, used, table, crashes, uncounted>>, running,
           NEW i \in Ino, Freeing(i, todo'), Openers(i) = {},
           ~Mounting(todo), \A j \in Ino : j # i => ~Freeing(j, todo) /\ ~Opening(j, todo) /\ ~Closing(j, todo)
    PROVE  OpensRight'
  <1>1. \A j : Openers(j)' = Openers(j)
    BY DEF Openers
  <1>a. Head(todo').op \in {"free", "table"} /\ Head(todo').ino = i
    BY Heads DEF Freeing
  <1>2. \A j : j # i => ~Freeing(j, todo')
    BY <1>a, Heads DEF Freeing
  <1>b. \A j : ~Opening(j, todo')
    BY <1>a, Heads
  <1>c. \A j : ~Closing(j, todo')
    BY <1>a, Heads
  <1>3. \A j : ~Opening(j, todo') /\ ~Closing(j, todo')
    BY <1>b, <1>c
  <1>4. ASSUME NEW j \in Ino
        PROVE  OpensOf(j)'
    <2>1. CASE j = i
      BY <1>1, <2>1 DEF OpensOf
    <2>2. CASE j # i
      <3>1. table[j].opens = Cardinality(Openers(j)) + 0 - 0
        BY <2>2 DEF OpensRight, OpensOf
      <3> QED BY <1>1, <1>2, <1>3, <2>2, <3>1 DEF OpensOf
    <2> QED BY <2>1, <2>2
  <1> QED BY <1>4 DEF OpensRight

LEMMA FreeKeepsOpens ==
    ASSUME WellFormed, OpensRight, Free, UNCHANGED <<running, fds, store, calls, crashes, uncounted>>, lost' \subseteq Ino
    PROVE  OpensRight'
  <1>0. PICK i : i = Head(todo).ino
    OBVIOUS
  <1>1. /\ todo # << >> /\ i \in Ino /\ running
        /\ FreeIt(i, todo) /\ WriteFreed(i, todo')
    BY <1>0, Kinds, FreeFits, WorkRuns DEF WellFormed, Free, Doing
  <1>2. Freeing(i, todo) /\ Freeing(i, todo')
    BY <1>1 DEF Freeing
  <1>3. ~Mounting(todo) /\ \A j \in Ino : j # i => ~Freeing(j, todo) /\ ~Opening(j, todo) /\ ~Closing(j, todo)
    BY <1>1, Heads DEF Freeing
  <1>4. Openers(i) = {}
    BY <1>1, <1>2, <1>3 DEF OpensRight, OpensOf
  <1>5. UNCHANGED <<table, used>>
    BY DEF Free
  <1> QED BY <1>1, <1>2, <1>3, <1>4, <1>5, FreeingStarts

LEMMA UnmarkKeepsOpens ==
    ASSUME WellFormed, OpensRight, Unmark, UNCHANGED <<running, fds, store, calls, crashes, uncounted>>, lost' \subseteq Ino
    PROVE  OpensRight'
  <1>0. PICK i : i = Head(todo).ino
    OBVIOUS
  <1>1. /\ todo # << >> /\ i \in Ino /\ running
        /\ UnmarkFreed(i, todo) /\ CountFreed(todo')
    BY <1>0, Kinds, UnmarkFits, WorkRuns DEF WellFormed, Unmark, Doing
  <1>2. Settled(todo) /\ Settled(todo')
    BY <1>1, SettledRows
  <1>3. table' = table /\ used' = used \ {i}
    BY <1>0 DEF Unmark
  <1>4. Openers(i) = {}
    <2>1. table[i].opens = 0
      BY <1>1 DEF WellFormed, Stages, FreeInode
    <2> QED BY <1>1, <1>2, <2>1, SettledOpens, OpenersSize
  <1> QED BY <1>2, <1>3, <1>4, OpensStay

LEMMA IncLinkKeepsOpens ==
    ASSUME WellFormed, OpensRight, IncLink, UNCHANGED <<running, fds, store, calls, crashes, uncounted>>, lost' \subseteq Ino
    PROVE  OpensRight'
  <1>0. PICK i : i = Head(todo).ino
    OBVIOUS
  <1>1. CountLink(i, todo) /\ Plain(todo') /\ i \in Ino
    BY <1>0, Kinds, IncLinkFits DEF WellFormed, IncLink, Doing
  <1>2. Settled(todo) /\ Settled(todo')
    BY <1>1, SettledRows
  <1>3. used' = used /\ table' = [table EXCEPT ![i] = [table[i] EXCEPT !.links = table[i].links + 1]]
    BY <1>0 DEF IncLink
  <1>4. /\ \A j \in Ino : j # i => table'[j] = table[j]
        /\ table'[i].type = table[i].type /\ table'[i].opens = table[i].opens
    BY <1>1, <1>3, LinksOfOne
  <1> QED BY <1>2, <1>3, <1>4, OpensStay

LEMMA DecLinkKeepsOpens ==
    ASSUME WellFormed, OpensRight, DecLink, UNCHANGED <<running, fds, store, calls, crashes, uncounted>>, lost' \subseteq Ino
    PROVE  OpensRight'
  <1>0. PICK i : i = Head(todo).ino
    OBVIOUS
  <1>1. /\ DropLink(i, todo) /\ i \in Ino /\ todo # << >> /\ running
        /\ IF Less(table[i].links) = 0 /\ table[i].opens = 0 THEN FreeIt(i, todo') ELSE Plain(todo')
    BY <1>0, Kinds, DecLinkFits, WorkRuns DEF WellFormed, DecLink, Doing
  <1>2. Settled(todo)
    BY <1>1, SettledRows DEF Dropping
  <1>3. used' = used
    BY DEF DecLink, WriteOrFree
  <1>4. table[i] \in InodeRecord
    BY <1>1 DEF WellFormed, Types
  <1> DEFINE inode == [table[i] EXCEPT !.links = Less(table[i].links)]
  <1>5. inode.links = Less(table[i].links) /\ inode.opens = table[i].opens
    BY <1>4 DEF InodeRecord
  <1>6. IF inode.links = 0 /\ inode.opens = 0 THEN table' = table ELSE table' = [table EXCEPT ![i] = inode]
    BY <1>0 DEF DecLink, WriteOrFree
  <1>7. CASE Less(table[i].links) = 0 /\ table[i].opens = 0
    <2>1. table' = table
      BY <1>5, <1>6, <1>7
    <2>2. Openers(i) = {}
      BY <1>1, <1>2, <1>7, SettledOpens, OpenersSize
    <2>3. Freeing(i, todo')
      BY <1>1, <1>7 DEF Freeing
    <2> QED BY <1>1, <1>2, <1>3, <2>1, <2>2, <2>3, FreeingStarts DEF Settled
  <1>8. CASE ~(Less(table[i].links) = 0 /\ table[i].opens = 0)
    <2>1. table' = [table EXCEPT ![i] = [table[i] EXCEPT !.links = Less(table[i].links)]]
      BY <1>5, <1>6, <1>8
    <2>2. /\ \A j \in Ino : j # i => table'[j] = table[j]
          /\ table'[i].type = table[i].type /\ table'[i].opens = table[i].opens
      BY <1>1, <2>1, LinksOfOne
    <2>3. Settled(todo')
      BY <1>1, <1>8, SettledRows
    <2> QED BY <1>2, <1>3, <2>2, <2>3, OpensStay
  <1> QED BY <1>7, <1>8

\* Only the open count of one inode changes, or what the row of steps says of it.
LEMMA OneCountMoves ==
    ASSUME WellFormed, OpensRight, UNCHANGED <<running, used, crashes, uncounted>>, ~Mounting(todo),
           NEW i \in Ino,
           \A j \in Ino : j # i => /\ ~Freeing(j, todo) /\ ~Opening(j, todo) /\ ~Closing(j, todo)
                                   /\ ~Freeing(j, todo') /\ ~Opening(j, todo') /\ ~Closing(j, todo')
                                   /\ table'[j] = table[j]
                                   /\ Openers(j)' = Openers(j),
           table'[i].type = table[i].type,
           running => OpensOf(i)',
           \A f \in Fd : fds'[f] = fds[f] \/ fds'[f] = None
              \/ (fds'[f] = i /\ i \in used /\ (crashes = 0 \/ i \notin uncounted => table[i].type # "free"))
    PROVE  OpensRight'
  <1>1. ASSUME running', NEW j \in Ino
        PROVE  OpensOf(j)'
    <2>1. CASE j = i
      BY <1>1, <2>1
    <2>2. CASE j # i
      <3>1. table[j].opens = Cardinality(Openers(j)) + 0 - 0
        BY <1>1, <2>2 DEF OpensRight, OpensOf
      <3> QED BY <2>2, <3>1 DEF OpensOf
    <2> QED BY <2>1, <2>2
  <1>2. \A j \in Ino : table'[j].type = table[j].type
    OBVIOUS
  <1>3. ASSUME NEW f \in Fd, fds'[f] # None
        PROVE  /\ fds'[f] \in used'
               /\ crashes' = 0 \/ fds'[f] \notin uncounted' => table'[fds'[f]].type # "free"
    <2>1. CASE fds'[f] = fds[f]
      <3>1. fds[f] \in Ino
        BY <1>3, <2>1 DEF WellFormed, Types
      <3> QED BY <1>2, <1>3, <2>1, <3>1 DEF OpensRight
    <2>2. CASE fds'[f] # fds[f]
      BY <1>2, <1>3, <2>2
    <2> QED BY <2>1, <2>2
  <1> QED BY <1>1, <1>3 DEF OpensRight

LEMMA OpenCountOfOne ==
    ASSUME WellFormed, NEW i \in Ino, NEW n, table' = [table EXCEPT ![i] = [table[i] EXCEPT !.opens = n]]
    PROVE  /\ \A j \in Ino : j # i => table'[j] = table[j]
           /\ table'[i].opens = n /\ table'[i].type = table[i].type
           /\ table'[i].links = table[i].links
  <1>1. table \in [Ino -> InodeRecord] /\ table[i] \in InodeRecord
    BY DEF WellFormed, Types
  <1> QED BY <1>1 DEF InodeRecord

LEMMA IncOpenKeepsOpens ==
    ASSUME WellFormed, OpensRight, IncOpen, UNCHANGED <<running, fds, store, calls, crashes, uncounted>>, lost' \subseteq Ino
    PROVE  OpensRight'
  <1>0. PICK i : i = Head(todo).ino
    OBVIOUS
  <1>1. /\ todo # << >> /\ i \in Ino /\ running
        /\ \/ Opening(i, todo) /\ Plain(todo')
           \/ Passing(i, todo) /\ Closing(i, todo')
    BY <1>0, Kinds, IncOpenFits, WorkRuns DEF WellFormed, IncOpen, Doing
  <1>2. used' = used /\ table' = [table EXCEPT ![i] = [table[i] EXCEPT !.opens = table[i].opens + 1]]
    BY <1>0 DEF IncOpen
  <1>3. /\ \A j \in Ino : j # i => table'[j] = table[j]
        /\ table'[i].opens = table[i].opens + 1 /\ table'[i].type = table[i].type
    BY <1>1, <1>2, OpenCountOfOne
  <1>4. \A j : Openers(j)' = Openers(j)
    BY DEF Openers
  <1>5. ~Mounting(todo) /\ \A j : ~Freeing(j, todo) /\ ~Closing(j, todo)
    BY <1>1, Heads DEF Freeing
  <1>6. \A j : j # i => ~Opening(j, todo) /\ ~Closing(j, todo')
    <2>1. Head(todo).op = "incOpen" /\ \A j : Opening(j, todo) => j = i
      BY <1>0, <1>1, Heads
    <2>2. \A j : Closing(j, todo') => j = i
      <3>1. CASE Plain(todo')
        BY <3>1, StagesOfPlain
      <3>2. CASE Closing(i, todo')
        <4>1. Head(todo').ino = i
          BY <3>2, Heads
        <4> QED BY <4>1, Heads
      <3> QED BY <1>1, <3>1, <3>2
    <2> QED BY <2>1, <2>2
  <1>7. \A j : ~Freeing(j, todo') /\ ~Opening(j, todo')
    <2>1. CASE Plain(todo')
      BY <2>1, StagesOfPlain DEF Freeing
    <2>2. CASE Closing(i, todo')
      BY <2>2, Heads DEF Freeing
    <2> QED BY <1>1, <2>1, <2>2
  <1>8. OpensOf(i)'
    <2>1. table[i].opens = Cardinality(Openers(i)) + 0 - (IF Opening(i, todo) THEN 1 ELSE 0)
      BY <1>1, <1>5 DEF OpensRight, OpensOf
    <2>2. CASE Opening(i, todo) /\ Plain(todo')
      <3>1. ~Closing(i, todo')
        BY <2>2, StagesOfPlain
      <3>2. table'[i].opens = Cardinality(Openers(i)') + 0 - 0
        BY <1>3, <1>4, <2>1, <2>2, OpenersSize
      <3> QED BY <1>7, <3>1, <3>2 DEF OpensOf
    <2>3. CASE Passing(i, todo) /\ Closing(i, todo')
      <3>1. ~Opening(i, todo)
        BY <2>3, SettledRows DEF Settled
      <3>2. table'[i].opens = Cardinality(Openers(i)') + 1 - 0
        BY <1>3, <1>4, <2>1, <3>1, OpenersSize
      <3> QED BY <1>7, <2>3, <3>2 DEF OpensOf
    <2> QED BY <1>1, <2>2, <2>3
  <1> QED BY <1>1, <1>2, <1>3, <1>4, <1>5, <1>6, <1>7, <1>8, OneCountMoves

LEMMA DecOpenKeepsOpens ==
    ASSUME WellFormed, OpensRight, DecOpen, UNCHANGED <<running, fds, store, calls, crashes, uncounted>>, lost' \subseteq Ino
    PROVE  OpensRight'
  <1>0. PICK i : i = Head(todo).ino
    OBVIOUS
  <1>1. /\ todo # << >> /\ i \in Ino /\ running /\ Closing(i, todo)
        /\ IF table[i].links = 0 /\ Less(table[i].opens) = 0 THEN FreeIt(i, todo') ELSE Plain(todo')
    BY <1>0, Kinds, DecOpenFits, WorkRuns DEF WellFormed, DecOpen, Doing
  <1>2. used' = used
    BY DEF DecOpen, WriteOrFree
  <1>3. table[i] \in InodeRecord
    BY <1>1 DEF WellFormed, Types
  <1> DEFINE inode == [table[i] EXCEPT !.opens = Less(table[i].opens)]
  <1>4. inode.opens = Less(table[i].opens) /\ inode.links = table[i].links
    BY <1>3 DEF InodeRecord
  <1>5. IF inode.links = 0 /\ inode.opens = 0 THEN table' = table ELSE table' = [table EXCEPT ![i] = inode]
    BY <1>0 DEF DecOpen, WriteOrFree
  <1>6. \A j : Openers(j)' = Openers(j)
    BY DEF Openers
  <1>7. ~Mounting(todo) /\ \A j : ~Freeing(j, todo) /\ ~Opening(j, todo) /\ (j # i => ~Closing(j, todo))
    BY <1>0, <1>1, Heads DEF Freeing
  <1>8. table[i].opens = Cardinality(Openers(i)) + 1 - 0
    BY <1>1, <1>7 DEF OpensRight, OpensOf
  <1>9. Less(table[i].opens) = Cardinality(Openers(i))
    <2>1. table[i].opens \in Nat /\ table[i].opens > 0 /\ Cardinality(Openers(i)) \in Nat
      BY <1>3, <1>8, OpenersSize DEF InodeRecord
    <2> QED BY <1>8, <2>1, LessIsNat
  <1>10. CASE table[i].links = 0 /\ Less(table[i].opens) = 0
    <2>1. Openers(i) = {} /\ Freeing(i, todo') /\ table' = table
      BY <1>1, <1>4, <1>5, <1>9, <1>10, OpenersSize DEF Freeing
    <2>2. \A j \in Ino : j # i => ~Freeing(j, todo) /\ ~Opening(j, todo) /\ ~Closing(j, todo)
      BY <1>7
    <2> QED BY <1>1, <1>2, <1>7, <2>1, <2>2, FreeingStarts
  <1>11. CASE ~(table[i].links = 0 /\ Less(table[i].opens) = 0)
    <2>1. /\ \A j \in Ino : j # i => table'[j] = table[j]
          /\ table'[i].opens = Less(table[i].opens) /\ table'[i].type = table[i].type
      BY <1>1, <1>4, <1>5, <1>11, OpenCountOfOne
    <2>2. \A j : ~Freeing(j, todo') /\ ~Opening(j, todo') /\ ~Closing(j, todo')
      BY <1>1, <1>11, SettledRows DEF Settled
    <2>3. table'[i].opens = Cardinality(Openers(i)') + 0 - 0
      BY <1>6, <1>9, <2>1, OpenersSize
    <2>4. OpensOf(i)'
      BY <2>2, <2>3 DEF OpensOf
    <2> QED BY <1>1, <1>2, <1>6, <1>7, <2>1, <2>2, <2>4, OneCountMoves
  <1> QED BY <1>10, <1>11

LEMMA ResetKeepsOpens ==
    ASSUME WellFormed, OpensRight, ResetOpenCounts, UNCHANGED <<running, fds, store, calls, crashes, uncounted>>, lost' \subseteq Ino
    PROVE  OpensRight'
  <1>1. Mounting(todo) /\ Plain(todo')
    BY ResetOpenCountsFits
  <1>2. fds = NoFds
    BY <1>1 DEF WellFormed, Stages
  <1>3. \A f \in Fd : fds'[f] = None
    BY <1>2 DEF NoFds
  <1>4. ASSUME NEW i \in Ino
        PROVE  OpensOf(i)'
    <2>1. Openers(i)' = {}
      BY <1>3, <1>4, NamespaceAssumption DEF Openers
    <2>2. table'[i].opens = 0
      <3>1. table'[i] = IF Valid(i) THEN [table[i] EXCEPT !.opens = 0] ELSE table[i]
        BY DEF ResetOpenCounts
      <3>2. table[i] \in InodeRecord
        BY DEF WellFormed, Types
      <3>3. i \notin used => table[i].opens = 0
        BY DEF WellFormed, InUseIsMarked, FreeInode
      <3> QED BY <3>1, <3>2, <3>3 DEF InodeRecord, Valid
    <2>3. Cardinality(Openers(i)') = 0
      BY <2>1, FS_EmptySet
    <2>4. ~Freeing(i, todo') /\ ~Opening(i, todo') /\ ~Closing(i, todo')
      BY <1>1, SettledRows DEF Settled
    <2> QED BY <2>2, <2>3, <2>4 DEF OpensOf
  <1> QED BY <1>3, <1>4 DEF OpensRight

LEMMA AddEntryKeepsOpens ==
    ASSUME WellFormed, OpensRight, AddEntry, UNCHANGED <<running, fds, calls, crashes>>
    PROVE  OpensRight'
  <1>0. PICK i : i = Head(todo).ino
    OBVIOUS
  <1>1. /\ AddNew(i, todo) \/ AddLink(i, todo)
        /\ Plain(todo') \/ CountLink(i, todo') \/ (AddNew(i, todo) /\ FreeIt(i, todo'))
    BY <1>0, AddEntryFits
  <1>2. todo # << >> /\ i \in Ino /\ running
    BY <1>0, Kinds, WorkRuns DEF WellFormed, AddEntry, Doing
  <1>3. UNCHANGED <<table, used, uncounted>>
    BY DEF AddEntry
  <1>4. Settled(todo)
    BY <1>1, SettledRows DEF Making
  <1>5. CASE Plain(todo') \/ CountLink(i, todo')
    <2>1. Settled(todo')
      BY <1>5, SettledRows
    <2> QED BY <1>3, <1>4, <2>1, OpensStay
  <1>6. CASE AddNew(i, todo) /\ FreeIt(i, todo')
    <2>1. table[i] \in Made
      BY <1>2, <1>6 DEF WellFormed, Stages
    <2>2. table[i].opens = 0
      BY <2>1 DEF Made, NewInode
    <2>3. Openers(i) = {}
      BY <1>2, <1>4, <2>2, SettledOpens, OpenersSize
    <2>4. Freeing(i, todo')
      BY <1>6 DEF Freeing
    <2> QED BY <1>2, <1>3, <1>4, <2>3, <2>4, FreeingStarts DEF Settled
  <1> QED BY <1>1, <1>5, <1>6

LEMMA OtherWorkKeepsOpens ==
    ASSUME WellFormed, OpensRight, UNCHANGED <<running, fds, calls, crashes>>,
           InitDir \/ RemoveEntry \/ Truncate \/ WriteData \/ OpenAndClose \/ SaveUsers \/ Remember
    PROVE  OpensRight'
  <1>1. UNCHANGED <<table, used>> /\ uncounted \subseteq uncounted'
    BY DEF InitDir, RemoveEntry, Truncate, WriteData, OpenAndClose, SaveUsers, Remember
  <1>2. Settled(todo) /\ Settled(todo')
    <2>1. CASE RemoveEntry
      <3>1. \E i : RemoveAndDrop(i, todo) /\ Dropping(i, todo')
        BY <2>1, RemoveEntryFits
      <3> QED BY <3>1, SettledRows
    <2>2. CASE Truncate
      <3>1. \/ Plain(todo) /\ Plain(todo')
            \/ \E i : Dropping(i, todo) /\ Dropping(i, todo')
        BY <2>2, TruncateFits DEF Dropping
      <3> QED BY <3>1, SettledRows
    <2>3. CASE WriteData \/ OpenAndClose \/ SaveUsers \/ Remember
      <3>1. Plain(todo) /\ (Plain(todo') \/ \E i : Passing(i, todo') \/ MarkNew(i, todo'))
        BY <2>3, WriteDataFits, OpenAndCloseFits, SaveUsersFits, RememberFits
      <3> QED BY <3>1, SettledRows
    <2>4. CASE InitDir
      <3>1. \E i : AddNew(i, todo) /\ (AddNew(i, todo') \/ Plain(todo'))
        BY <2>4, InitDirFits
      <3>2. \E i : Making(i, todo) /\ (Making(i, todo') \/ Plain(todo'))
        BY <3>1 DEF Making
      <3> QED BY <3>2, SettledRows
    <2> QED BY <2>1, <2>2, <2>3, <2>4
  <1> QED BY <1>1, <1>2, OpensStay

\* A descriptor is closed, and the open count is about to follow.
LEMMA ClosingKeepsOpens ==
    ASSUME WellFormed, OpensRight, UNCHANGED <<table, used, running, crashes, uncounted>>, Settled(todo), running,
           NEW f \in Fd, fds[f] # None, fds' = [fds EXCEPT ![f] = None], Closing(fds[f], todo')
    PROVE  OpensRight'
  <1>0. PICK i : i = fds[f]
    OBVIOUS
  <1>1. i \in Ino /\ Closing(i, todo')
    BY <1>0 DEF WellFormed, Types
  <1>2. \A g \in Fd : fds'[g] = IF g = f THEN None ELSE fds[g]
    BY DEF WellFormed, Types
  <1>3. \A j \in Ino : Openers(j)' = IF j = i THEN Openers(j) \ {f} ELSE Openers(j)
    BY <1>0, <1>2, NamespaceAssumption DEF Openers
  <1>4. \A j : ~Freeing(j, todo') /\ ~Opening(j, todo') /\ (j # i => ~Closing(j, todo'))
    BY <1>1, Heads, SMTT(60) DEF Freeing
  <1>5. OpensOf(i)'
    <2>1. table[i].opens = Cardinality(Openers(i))
      BY <1>1, SettledOpens
    <2>2. f \in Openers(i)
      BY <1>0 DEF Openers
    <2>3. Cardinality(Openers(i) \ {f}) = Cardinality(Openers(i)) - 1 /\ Cardinality(Openers(i)) \in Nat
      BY <2>2, OpenersSize, OpenersAreFinite
    <2>4. Openers(i)' = Openers(i) \ {f} /\ table'[i] = table[i]
      BY <1>1, <1>3
    <2>5. table'[i].opens = Cardinality(Openers(i)') + 1 - 0
      <3> DEFINE m == Cardinality(Openers(i))
                 n == Cardinality(Openers(i) \ {f})
      <3>1. n = m - 1 /\ m \in Nat /\ Cardinality(Openers(i)') = n /\ table'[i].opens = m
        BY <2>1, <2>3, <2>4
      <3> HIDE DEF m, n
      <3> QED BY <3>1
    <2> QED BY <1>1, <1>4, <2>5 DEF OpensOf
  <1>6. \A j \in Ino : j # i => Openers(j)' = Openers(j)
    BY <1>3
  <1> QED BY <1>1, <1>2, <1>4, <1>5, <1>6, OneCountMoves DEF Settled

LEMMA OpeningKeepsOpens ==
    ASSUME WellFormed, OpensRight, UNCHANGED <<table, used, running, crashes, uncounted>>, Settled(todo), running,
           NEW f \in Fd, fds[f] = None, NEW i \in Ino, i \in used, crashes = 0 \/ i \notin uncounted => table[i].type # "free",
           fds' = [fds EXCEPT ![f] = i], Opening(i, todo')
    PROVE  OpensRight'
  <1>1. \A g \in Fd : fds'[g] = IF g = f THEN i ELSE fds[g]
    BY DEF WellFormed, Types
  <1>2. \A j \in Ino : Openers(j)' = IF j = i THEN Openers(j) \cup {f} ELSE Openers(j)
    BY <1>1, NamespaceAssumption DEF Openers
  <1>a. Head(todo').op = "incOpen" /\ Head(todo').ino = i
    BY Heads
  <1>b. \A j : ~Freeing(j, todo')
    BY <1>a, Heads DEF Freeing
  <1>c. \A j : ~Closing(j, todo')
    BY <1>a, Heads
  <1>d. \A j : j # i => ~Opening(j, todo')
    BY <1>a, Heads
  <1>3. \A j : ~Freeing(j, todo') /\ ~Closing(j, todo') /\ (j # i => ~Opening(j, todo'))
    BY <1>b, <1>c, <1>d
  <1>4. OpensOf(i)'
    <2>1. table[i].opens = Cardinality(Openers(i))
      BY SettledOpens
    <2>2. f \notin Openers(i)
      BY NamespaceAssumption DEF Openers
    <2>3. Cardinality(Openers(i) \cup {f}) = Cardinality(Openers(i)) + 1 /\ Cardinality(Openers(i)) \in Nat
      BY <2>2, OpenersSize, OpenersAreFinite
    <2>4. table'[i].opens = Cardinality(Openers(i)') + 0 - 1
      BY <1>2, <2>1, <2>3
    <2> QED BY <1>3, <2>4 DEF OpensOf
  <1>5. \A j \in Ino : j # i => Openers(j)' = Openers(j)
    BY <1>2
  <1> QED BY <1>1, <1>3, <1>4, <1>5, OneCountMoves DEF Settled

LEMMA CloseAllKeepsOpens ==
    ASSUME WellFormed, OpensRight, CloseAll
    PROVE  OpensRight'
  <1> DEFINE open == {f \in Fd : fds[f] # None}
  <1>1. UNCHANGED <<table, used, running, crashes, uncounted>> /\ running
    BY WorkRuns DEF CloseAll, WellFormed, Doing
  <1>2. Plain(todo) /\ IF open = {} THEN Plain(todo') ELSE Closing(fds[Min(open)], todo')
    BY CloseAllFits
  <1>3. Settled(todo)
    BY <1>2, SettledRows
  <1>4. CASE open = {}
    <2>1. fds' = fds
      BY <1>4 DEF CloseAll
    <2>2. Settled(todo')
      BY <1>2, <1>4, SettledRows
    <2> QED BY <1>1, <1>3, <2>1, <2>2, OpensStay
  <1>5. CASE open # {}
    <2>1. Min(open) \in Fd /\ fds[Min(open)] # None
      BY <1>5, FdOf
    <2>2. fds' = [fds EXCEPT ![Min(open)] = None]
      BY <1>5 DEF CloseAll
    <2> HIDE DEF open
    <2> QED BY <1>1, <1>2, <1>3, <1>5, <2>1, <2>2, ClosingKeepsOpens
  <1> QED BY <1>4, <1>5

LEMMA StopOrStartKeepsOpens ==
    ASSUME WellFormed, OpensRight, Halt \/ Crash \/ Mount
    PROVE  OpensRight'
  <1>1. \A f \in Fd : fds'[f] = None
    BY DEF Halt, Crash, Mount, NoFds, WellFormed, Stages
  <1>2. ~running' \/ Mounting(todo')
    BY MountFits DEF Halt, Crash
  <1> QED BY <1>1, <1>2 DEF OpensRight

LEMMA CommandKeepsOpens ==
    ASSUME WellFormed, StatesRight, NamesCovered, OpensRight, Idle, Command
    PROVE  OpensRight'
  <1>1. UNCHANGED <<table, used, running, crashes, uncounted>> /\ running
    BY DEF Idle, Command, Mkdir, CreateNew, CreateExisting, Delete, Rmdir, Link, Open, Close, Write,
           ChangeUsers, Logout, Exit, Call, Run
  <1>2. Settled(todo)
    BY NothingIsQuiet, SettledRows DEF Idle
  <1>3. CASE \E d \in Dirs, n \in Name : Mkdir(d, n) \/ CreateNew(d, n)
    <2>1. fds' = fds /\ \E i : MarkNew(i, todo')
      BY <1>3, MakeFits DEF Mkdir, CreateNew
    <2>2. Settled(todo')
      BY <2>1, SettledRows
    <2> QED BY <1>1, <1>2, <2>1, <2>2, OpensStay
  <1>4. CASE \E d \in Dirs, n \in Name : CreateExisting(d, n)
    <2>1. fds' = fds /\ Plain(todo')
      BY <1>4, CreateExistingFits DEF CreateExisting
    <2> QED BY <1>1, <1>2, <2>1, SettledRows, OpensStay
  <1>5. CASE \E d \in Dirs, n \in Name : Delete(d, n) \/ Rmdir(d, n)
    <2>1. fds' = fds /\ \E i : RemoveAndDrop(i, todo')
      BY <1>5, RemoveAndDropFits DEF Delete, Rmdir
    <2>2. Settled(todo')
      BY <2>1, SettledRows
    <2> QED BY <1>1, <1>2, <2>1, <2>2, OpensStay
  <1>6. CASE \E i, d \in Reached, n \in Name : Link(i, d, n)
    <2>1. fds' = fds /\ \E i : AddLink(i, todo')
      BY <1>6, LinkFits DEF Link
    <2>2. Settled(todo')
      BY <2>1, SettledRows
    <2> QED BY <1>1, <1>2, <2>1, <2>2, OpensStay
  <1>7. CASE (\E f \in Fd, s \in Slot : Write(f, s)) \/ ChangeUsers \/ Logout \/ Exit
    <2>1. fds' = fds /\ Plain(todo')
      BY <1>7, PlainCommandFits DEF Write, ChangeUsers, Logout, Exit
    <2> QED BY <1>1, <1>2, <2>1, SettledRows, OpensStay
  <1>8. ASSUME NEW i \in Reached, NEW t \in BOOLEAN, Open(i, t)
        PROVE  OpensRight'
    <2>1. Opening(i, todo')
      BY <1>8, OpenFits
    <2>2. FreeFds # {} /\ fds' = [fds EXCEPT ![Min(FreeFds)] = i]
      BY <1>8 DEF Open
    <2>3. Min(FreeFds) \in Fd /\ fds[Min(FreeFds)] = None
      <3>1. FreeFds \in SUBSET Fd
        BY DEF FreeFds
      <3>2. Min(FreeFds) \in FreeFds
        BY <2>2, <3>1, FdOf
      <3> QED BY <3>2 DEF FreeFds
    <2>4. i \in used /\ i \in Ino
      BY DEF Reached, WellFormed, Types
    <2>5. ASSUME crashes = 0 \/ i \notin uncounted
          PROVE  table[i].type # "free"
      <3>1. CASE i = Root
        BY <3>1 DEF WellFormed, RootKept
      <3>2. CASE i # Root /\ i \notin uncounted
        <4>1. NamedBy(i) # {}
          BY <3>2, ReachedIsNamed
        <4> QED BY <2>4, <3>2, <4>1 DEF NamesCovered, Covered
      <3>3. CASE crashes = 0
        <4>1. InWork(todo) = {}
          BY NothingIsQuiet, QuietOwesNothing DEF Idle
        <4>2. WrongState \subseteq Ino /\ Cardinality(WrongState) \in Nat
          BY SizeOfPart DEF WrongState
        <4>3. WrongState \ {} = WrongState /\ crashes \in Nat
          BY DEF WellFormed, Types
        <4>4. Cardinality(WrongState) = 0
          BY <3>3, <4>1, <4>2, <4>3 DEF StatesRight
        <4>5. WrongState = {}
          BY <4>2, <4>4, SizeOfPart, FS_EmptySet
        <4> QED BY <2>4, <4>5 DEF WrongState
      <3> QED BY <2>5, <3>1, <3>2, <3>3
    <2> DEFINE f == Min(FreeFds)
    <2> HIDE DEF f
    <2>6. f \in Fd /\ fds[f] = None /\ fds' = [fds EXCEPT ![f] = i]
      BY <2>2, <2>3 DEF f
    <2> QED BY <1>1, <1>2, <2>1, <2>4, <2>5, <2>6, OpeningKeepsOpens
  <1>9. ASSUME NEW f \in Fd, Close(f)
        PROVE  OpensRight'
    <2>1. fds[f] # None /\ fds' = [fds EXCEPT ![f] = None] /\ Closing(fds[f], todo')
      BY <1>9, CloseFits DEF Close
    <2> QED BY <1>1, <1>2, <2>1, ClosingKeepsOpens
  <1> QED BY <1>3, <1>4, <1>5, <1>6, <1>7, <1>8, <1>9 DEF Command

LEMMA WorkKeepsOpens ==
    ASSUME WellFormed, OpensRight, Work
    PROVE  OpensRight'
  <1>1. CASE InodeStep /\ lost' = (lost \cup FreeLoses) \cap used' /\ UNCHANGED <<store, uncounted>>
                       /\ UNCHANGED <<running, fds, calls, crashes>>
    <2>1. lost' \subseteq Ino
      <3>1. lost' \subseteq used'
        BY <1>1
      <3>2. used' \subseteq Ino
        BY WorkFits DEF WellFormed, Types
      <3> QED BY <3>1, <3>2
    <2> QED BY <1>1, <2>1, MarkKeepsOpens, WriteTableKeepsOpens, CountKeepsOpens, FreeKeepsOpens, UnmarkKeepsOpens,
               IncLinkKeepsOpens, DecLinkKeepsOpens, IncOpenKeepsOpens, DecOpenKeepsOpens, ResetKeepsOpens DEF InodeStep
  <1>2. CASE (\/ InitDir \/ AddEntry \/ RemoveEntry \/ Truncate \/ WriteData
              \/ OpenAndClose \/ SaveUsers \/ Remember)
               /\ UNCHANGED <<running, fds, calls, crashes>>
    BY <1>2, AddEntryKeepsOpens, OtherWorkKeepsOpens
  <1> QED BY <1>1, <1>2 DEF Work

LEMMA NextKeepsOpens ==
    ASSUME WellFormed, StatesRight, NamesCovered, OpensRight, [Next]_vars
    PROVE  OpensRight'
  <1>1. CASE UNCHANGED vars
    BY <1>1 DEF vars, inodeVars, OpensRight, OpensOf, Openers
  <1>2. CASE Next
    BY <1>2, CommandKeepsOpens, WorkKeepsOpens, CloseAllKeepsOpens, StopOrStartKeepsOpens DEF Next
  <1> QED BY <1>1, <1>2

LEMMA InitOpens ==
    ASSUME Init
    PROVE  OpensRight
  BY DEF Init, OpensRight, NoFds

\* A file that is open stays in use, and its open count is the number of its
\* descriptors whenever no command runs.
THEOREM OpenFilesStay == Spec => []OpenFilesKept
  <1> DEFINE I == WellFormed /\ CountRight /\ StatesRight /\ NamesCovered /\ OpensRight
  <1>1. Init => I
    BY InitWellFormed, InitCounts, InitNames, InitOpens
  <1>2. I /\ [Next]_vars => I'
    BY NextWellFormed, NextKeepsCounts, NextKeepsNames, NextKeepsOpens
  <1>3. ASSUME I
        PROVE  OpenFilesKept
    <2>1. ASSUME running, todo = << >>, NEW i \in Ino
          PROVE  table[i].opens = Cardinality({f \in Fd : fds[f] = i})
      <3>1. Settled(todo)
        BY <2>1, NothingIsQuiet, SettledRows
      <3> QED BY <1>3, <2>1, <3>1, SettledOpens DEF Openers
    <2> QED BY <1>3, <2>1 DEF OpenFilesKept, OpensRight
  <1> QED BY <1>1, <1>2, <1>3, PTL DEF Spec

-----------------------------------------------------------------------------
(***************************************************************************)
(* Exits                                                                   *)
(***************************************************************************)

\* The process ends only after its descriptors have been closed.
Ending(s) == \E k \in 1..Len(s) : s[k].op = "halt"
EndsClosed == Ending(todo) => fds = NoFds

MildStep == {step \in AnyStep : step.op # "halt"}

LEMMA StepsAreMild ==
    /\ PlainStep \subseteq MildStep
    /\ \A i \in Ino, o \in {"mark", "free", "unmark", "incLink", "decLink", "incOpen", "decOpen", "resetOpens", "truncate"} :
         Step(o, i) \in MildStep
    /\ \A i \in Ino, inode \in InodeRecord : WriteEntry(i, inode) \in MildStep
    /\ CountBy(1) \in MildStep /\ CountBy(-1) \in MildStep
  BY DEF MildStep, AnyStep, PlainStep, Step, WriteEntry, CountBy

LEMMA EndOfTail ==
    ASSUME NEW s \in Seq(AnyStep), s # << >>, Ending(Tail(s))
    PROVE  Ending(s)
  <1>1. PICK k \in 1..Len(Tail(s)) : Tail(s)[k].op = "halt"
    BY DEF Ending
  <1>2. Len(s) \in Nat /\ Len(s) # 0 /\ Len(Tail(s)) = Len(s) - 1 /\ Tail(s)[k] = s[k + 1]
    OBVIOUS
  <1>3. k + 1 \in 1..Len(s)
    BY <1>2
  <1> QED BY <1>1, <1>2, <1>3 DEF Ending

LEMMA EndBehind ==
    ASSUME NEW s \in Seq(AnyStep), NEW t \in Seq(MildStep), Ending(t \o s)
    PROVE  Ending(s)
  <1>1. PICK k \in 1..Len(t \o s) : (t \o s)[k].op = "halt"
    BY DEF Ending
  <1>2. t \in Seq(AnyStep) /\ Len(t) \in Nat /\ Len(s) \in Nat /\ Len(t \o s) = Len(t) + Len(s)
    BY DEF MildStep
  <1>3. (t \o s)[k] = IF k <= Len(t) THEN t[k] ELSE s[k - Len(t)]
    BY <1>1, <1>2
  <1>4. k > Len(t)
    <2>1. ASSUME k <= Len(t)
          PROVE  FALSE
      <3>1. k \in 1..Len(t)
        BY <1>1, <1>2, <2>1
      <3>2. t[k] \in MildStep
        BY <3>1
      <3> QED BY <1>1, <1>3, <2>1, <3>2 DEF MildStep
    <2> QED BY <1>1, <1>2, <2>1
  <1>5. k - Len(t) \in 1..Len(s) /\ s[k - Len(t)].op = "halt"
    BY <1>1, <1>2, <1>3, <1>4
  <1> QED BY <1>5 DEF Ending

LEMMA NoEnding == \A t \in Seq(MildStep) : ~Ending(t)
  <1>1. ASSUME NEW t \in Seq(MildStep), NEW k \in 1..Len(t)
        PROVE  t[k].op # "halt"
    BY <1>1 DEF MildStep
  <1> QED BY <1>1 DEF Ending

\* What a step puts in front of the rest of the call never ends the process.
LEMMA MildThen ==
    ASSUME Types, todo # << >>, NEW more \in Seq(MildStep), Then(more), EndsClosed, fds' = fds
    PROVE  EndsClosed'
  <1>1. Tail(todo) \in Seq(AnyStep)
    BY TodoTail
  <1>2. Ending(todo') => Ending(todo)
    BY <1>1, EndBehind, EndOfTail DEF Then, Types
  <1> QED BY <1>2 DEF EndsClosed

LEMMA ShortRows ==
    ASSUME NEW S
    PROVE  /\ << >> \in Seq(S)
           /\ \A a \in S : <<a>> \in Seq(S)
           /\ \A a, b \in S : <<a, b>> \in Seq(S)
           /\ \A a, b, c \in S : <<a, b, c>> \in Seq(S)
           /\ \A s, t \in Seq(S) : s \o t \in Seq(S)
  OBVIOUS

LEMMA FirstEntryIsMild ==
    ASSUME NEW i \in Ino, NEW e, FirstEntry(i, e)
    PROVE  e \in MildStep
  <1>1. e \in AnyStep
    BY FirstEntryIsStep
  <1>2. e.op # "halt"
    BY DEF FirstEntry, AddStep, InitStep
  <1> QED BY <1>1, <1>2 DEF MildStep

LEMMA AllocIsMild ==
    ASSUME NEW i \in Ino, NEW type \in {"file", "dir"}, NEW e, FirstEntry(i, e),
           NEW row, row = <<Step("mark", i), WriteEntry(i, NewInode(type)), CountBy(-1)>> \o <<e>>
    PROVE  row \in Seq(MildStep)
  <1> DEFINE a == Step("mark", i)
             b == WriteEntry(i, NewInode(type))
             c == CountBy(-1)
  <1>1. NewInode(type) \in InodeRecord
    BY DEF NewInode, InodeRecord
  <1>2. a \in MildStep /\ b \in MildStep /\ c \in MildStep
    BY <1>1, StepsAreMild
  <1>3. e \in MildStep
    BY FirstEntryIsMild
  <1>4. row = <<a, b, c>> \o <<e>>
    OBVIOUS
  <1> HIDE DEF a, b, c
  <1>5. <<a, b, c>> \in Seq(MildStep) /\ <<e>> \in Seq(MildStep)
    BY <1>2, <1>3, ShortRows
  <1> QED BY <1>4, <1>5, ShortRows

LEMMA InodeStepEnds ==
    ASSUME WellFormed, EndsClosed, InodeStep, fds' = fds
    PROVE  EndsClosed'
  <1>1. CASE Mark \/ WriteTable \/ Count \/ Unmark \/ IncLink \/ IncOpen \/ ResetOpenCounts
    <2>1. todo # << >> /\ Then(<< >>)
      BY <1>1 DEF Mark, WriteTable, Count, Unmark, IncLink, IncOpen, ResetOpenCounts, Doing
    <2> QED BY <2>1, ShortRows, MildThen DEF WellFormed
  <1>2. CASE Free
    <2>0. PICK i : i = Head(todo).ino
      OBVIOUS
    <2>1. todo # << >> /\ i \in Ino
      BY <1>2, <2>0, Kinds DEF Free, Doing, WellFormed
    <2>2. Then(<<WriteEntry(i, FreeInode), Step("unmark", i), CountBy(1)>>)
      BY <1>2, <2>0 DEF Free
    <2>3. FreeInode \in InodeRecord
      BY DEF FreeInode, InodeRecord
    <2>4. WriteEntry(i, FreeInode) \in MildStep /\ Step("unmark", i) \in MildStep /\ CountBy(1) \in MildStep
      BY <2>1, <2>3, StepsAreMild
    <2>5. <<WriteEntry(i, FreeInode), Step("unmark", i), CountBy(1)>> \in Seq(MildStep)
      BY <2>4, ShortRows
    <2> QED BY <2>1, <2>2, <2>5, MildThen DEF WellFormed
  <1>3. CASE DecLink \/ DecOpen
    <2>0. PICK i : i = Head(todo).ino
      OBVIOUS
    <2>1. todo # << >> /\ i \in Ino
      BY <1>3, <2>0, Kinds DEF DecLink, DecOpen, Doing, WellFormed
    <2>2. Then(<< >>) \/ Then(<<Step("free", i)>>)
      BY <1>3, <2>0 DEF DecLink, DecOpen, WriteOrFree
    <2>3. <<Step("free", i)>> \in Seq(MildStep)
      BY <2>1, StepsAreMild, ShortRows
    <2> QED BY <2>1, <2>2, <2>3, ShortRows, MildThen DEF WellFormed
  <1> QED BY <1>1, <1>2, <1>3 DEF InodeStep

LEMMA OtherWorkEnds ==
    ASSUME WellFormed, EndsClosed, fds' = fds,
           InitDir \/ AddEntry \/ RemoveEntry \/ Truncate \/ WriteData \/ OpenAndClose \/ SaveUsers \/ Remember
    PROVE  EndsClosed'
  <1>1. CASE RemoveEntry \/ Truncate \/ WriteData \/ Remember
    <2>1. todo # << >> /\ Then(<< >>)
      BY <1>1 DEF RemoveEntry, Truncate, WriteData, Remember, Doing
    <2> QED BY <2>1, ShortRows, MildThen DEF WellFormed
  <1>2. CASE AddEntry
    <2>0. PICK i : i = Head(todo).ino
      OBVIOUS
    <2>1. todo # << >> /\ i \in Ino /\ (AddNew(i, todo) \/ AddLink(i, todo))
      BY <1>2, <2>0, Kinds DEF AddEntry, Doing, WellFormed
    <2>2. Step("free", i) \in MildStep /\ Step("incLink", i) \in MildStep
      BY <2>1, StepsAreMild
    <2>3. Head(todo).then \in Seq(MildStep) /\ Head(todo).else \in Seq(MildStep)
      <3>1. CASE AddNew(i, todo)
        <4>1. Head(todo).then \in Seq(PlainStep) /\ Head(todo).else \in {<< >>, <<Step("free", i)>>}
          <5>1. Head(todo).op = "add"
            BY <1>2 DEF AddEntry, Doing
          <5> QED BY <3>1, <5>1 DEF AddNew, FirstEntry, AddStep, InitStep
        <4>2. \A t \in Seq(PlainStep) : t \in Seq(MildStep)
          BY StepsAreMild
        <4>3. << >> \in Seq(MildStep) /\ <<Step("free", i)>> \in Seq(MildStep)
          BY <2>2, ShortRows
        <4> QED BY <4>1, <4>2, <4>3
      <3>2. CASE AddLink(i, todo)
        <4>1. Head(todo).then = <<Step("incLink", i)>> /\ Head(todo).else = << >>
          BY <3>2 DEF AddLink, AddStep
        <4> QED BY <2>2, <4>1, ShortRows
      <3> QED BY <2>1, <3>1, <3>2
    <2>4. Then(Head(todo).then) \/ Then(Head(todo).else)
      BY <1>2 DEF AddEntry
    <2> QED BY <2>1, <2>3, <2>4, MildThen DEF WellFormed
  <1>3. CASE OpenAndClose
    <2>0. PICK i : i = Resolve(Head(todo).dir, Head(todo).name)
      OBVIOUS
    <2>1. todo # << >> /\ (Then(<< >>) \/ (i # None /\ Then(<<Step("incOpen", i), Step("decOpen", i)>>)))
      BY <1>3, <2>0 DEF OpenAndClose, Doing
    <2>2. i # None => i \in Ino
      BY <2>0, ResolveIsInode DEF WellFormed, Types
    <2>3. i # None => <<Step("incOpen", i), Step("decOpen", i)>> \in Seq(MildStep)
      <3>1. i # None => Step("incOpen", i) \in MildStep /\ Step("decOpen", i) \in MildStep
        BY <2>2, StepsAreMild
      <3> QED BY <3>1, ShortRows
    <2> QED BY <2>1, <2>3, ShortRows, MildThen DEF WellFormed
  <1>4. CASE SaveUsers
    <2>1. todo # << >>
      BY <1>4 DEF SaveUsers, Doing
    <2>2. PICK more : Then(more) /\ \/ more = << >>
                                    \/ \E i \in Ino : more = Overwrite(i)
                                    \/ CanAlloc /\ more = AllocSteps("file") \o
                                         <<AddStep(Root, UsersName, NewIno,
                                                   <<Step("remember", NewIno)>> \o Overwrite(NewIno),
                                                   <<Step("free", NewIno)>>)>>
      <3>1. store \in Ino /\ \A d, n : Resolve(d, n) # None => Resolve(d, n) \in Ino
        BY ResolveIsInode DEF WellFormed, Types
      <3>2. CASE store # 0 /\ Then(Overwrite(store))
        BY <3>1, <3>2
      <3>3. CASE Resolve(Root, UsersName) # None /\ Then(Overwrite(Resolve(Root, UsersName)))
        BY <3>1, <3>3
      <3>4. CASE CanAlloc /\ Then(AllocSteps("file") \o
                                    <<AddStep(Root, UsersName, NewIno,
                                              <<Step("remember", NewIno)>> \o Overwrite(NewIno),
                                              <<Step("free", NewIno)>>)>>)
        BY <3>4
      <3>5. CASE Then(<< >>)
        BY <3>5
      <3> QED BY <1>4, <3>2, <3>3, <3>4, <3>5 DEF SaveUsers
    <2>3. more \in Seq(MildStep)
      <3>1. \A i \in Ino : Overwrite(i) \in Seq(MildStep)
        BY OverwritePlain, StepsAreMild
      <3>2. ASSUME CanAlloc, more = AllocSteps("file") \o
                                     <<AddStep(Root, UsersName, NewIno,
                                               <<Step("remember", NewIno)>> \o Overwrite(NewIno),
                                               <<Step("free", NewIno)>>)>>
            PROVE  more \in Seq(MildStep)
        <4>1. NewIno \in Ino /\ Root \in Ino
          BY <3>2, NewInoIsFree DEF CanAlloc, WellFormed, Types, RootKept
        <4> DEFINE then == <<Step("remember", NewIno)>> \o Overwrite(NewIno)
                   else == <<Step("free", NewIno)>>
        <4>2. then \in Seq(PlainStep)
          BY <4>1, OverwritePlain
        <4>3. else \in {<< >>, <<Step("free", NewIno)>>}
          OBVIOUS
        <4> DEFINE e == AddStep(Root, UsersName, NewIno, then, else)
        <4>4. more = AllocSteps("file") \o <<e>>
          BY <3>2
        <4> HIDE DEF then, else
        <4>5. FirstEntry(NewIno, e)
          BY <4>1, <4>2, <4>3, NamespaceAssumption DEF FirstEntry
        <4> HIDE DEF e
        <4> QED BY <4>1, <4>4, <4>5, AllocIsMild DEF AllocSteps
      <3> QED BY <2>2, <3>1, <3>2, ShortRows
    <2> QED BY <2>1, <2>2, <2>3, MildThen DEF WellFormed
  <1>5. CASE InitDir
    <2>0. PICK i, d, n : i = Head(todo).ino /\ d = Head(todo).dir /\ n = Head(todo).name
      OBVIOUS
    <2> DEFINE e == AddStep(d, n, i, << >>, << >>)
    <2>1. todo # << >> /\ i \in Ino /\ AddNew(i, todo)
      BY <1>5, <2>0, Kinds DEF InitDir, Doing, WellFormed
    <2>2. d \in Ino /\ n \in Name
      BY <2>0, <2>1 DEF AddNew, FirstEntry, AddStep, InitStep
    <2>3. Then(<< >>) \/ Then(<<e>>)
      BY <1>5, <2>0 DEF InitDir
    <2>4. FirstEntry(i, e)
      <3>1. << >> \in Seq(PlainStep)
        OBVIOUS
      <3> QED BY <2>2, <3>1 DEF FirstEntry
    <2> HIDE DEF e
    <2>5. e \in MildStep
      BY <2>1, <2>4, FirstEntryIsMild
    <2> QED BY <2>1, <2>3, <2>5, ShortRows, MildThen DEF WellFormed
  <1> QED BY <1>1, <1>2, <1>3, <1>4, <1>5

LEMMA CloseAllEnds ==
    ASSUME WellFormed, EndsClosed, CloseAll
    PROVE  EndsClosed'
  <1> DEFINE open == {f \in Fd : fds[f] # None}
  <1>1. todo # << >> /\ Head(todo).op = "closeAll"
    BY DEF CloseAll, Doing
  <1>2. CASE open = {}
    <2>1. fds = NoFds
      BY <1>2 DEF NoFds, WellFormed, Types
    <2>2. fds' = fds
      BY <1>2 DEF CloseAll
    <2> QED BY <2>1, <2>2 DEF EndsClosed, NoFds
  <1>3. CASE open # {}
    <2>0. PICK f : f = Min(open)
      OBVIOUS
    <2>1. f \in Fd /\ fds[f] \in Ino
      <3>1. open \in SUBSET Fd
        OBVIOUS
      <3>2. f \in open
        BY <1>3, <2>0, <3>1, FdOf
      <3>3. f \in Fd /\ fds[f] # None
        BY <3>2
      <3> QED BY <3>3 DEF WellFormed, Types
    <2>2. todo' = <<Step("decOpen", fds[f]), Head(todo)>> \o Tail(todo)
      BY <1>3, <2>0 DEF CloseAll, Then
    <2>3. <<Step("decOpen", fds[f]), Head(todo)>> \in Seq(MildStep) /\ Tail(todo) \in Seq(AnyStep)
      <3>1. Step("decOpen", fds[f]) \in MildStep
        BY <2>1, StepsAreMild
      <3>2. Head(todo) \in MildStep
        BY <1>1, TodoTail DEF MildStep, WellFormed
      <3> QED BY <1>1, <3>1, <3>2, ShortRows, TodoTail DEF WellFormed
    <2>4. Ending(todo') => Ending(todo)
      BY <1>1, <2>2, <2>3, EndBehind, EndOfTail DEF WellFormed, Types
    <2>5. fds = NoFds => open = {}
      BY DEF NoFds
    <2> QED BY <1>3, <2>4, <2>5 DEF EndsClosed
  <1> QED BY <1>2, <1>3

LEMMA StopOrStartEnds ==
    ASSUME WellFormed, EndsClosed, Halt \/ Crash \/ Mount
    PROVE  EndsClosed'
  <1>1. fds' = NoFds
    BY DEF Halt, Crash, Mount, WellFormed, Stages
  <1> QED BY <1>1 DEF EndsClosed, NoFds

LEMMA CommandEnds ==
    ASSUME WellFormed, Idle, Command
    PROVE  EndsClosed'
  <1>1. ASSUME NEW d \in Dirs, NEW n \in Name, Mkdir(d, n) \/ CreateNew(d, n)
        PROVE  todo' \in Seq(MildStep)
    <2>1. NewIno \in Ino /\ d \in Ino
      BY <1>1, NewInoIsFree, DirsInUse DEF Mkdir, CreateNew, CanAlloc, WellFormed, Types
    <2>2. Reopen(d, n) \in Seq(PlainStep)
      BY <2>1, ReopenPlain
    <2>3. CASE Mkdir(d, n)
      <3> DEFINE e == InitStep(d, n, NewIno)
      <3>1. todo' = AllocSteps("dir") \o <<e>>
        BY <2>3 DEF Mkdir, Call, Run
      <3>2. FirstEntry(NewIno, e)
        BY <2>1 DEF FirstEntry
      <3> HIDE DEF e
      <3> QED BY <2>1, <3>1, <3>2, AllocIsMild DEF AllocSteps
    <2>4. CASE CreateNew(d, n)
      <3> DEFINE e == AddStep(d, n, NewIno, Reopen(d, n), << >>)
      <3>1. todo' = AllocSteps("file") \o <<e>>
        BY <2>4 DEF CreateNew, Call, Run
      <3>2. FirstEntry(NewIno, e)
        BY <2>1, <2>2 DEF FirstEntry
      <3> HIDE DEF e
      <3> QED BY <2>1, <3>1, <3>2, AllocIsMild DEF AllocSteps
    <2> QED BY <1>1, <2>3, <2>4
  <1>2. ASSUME NEW d \in Dirs, NEW n \in Name, CreateExisting(d, n)
        PROVE  todo' \in Seq(MildStep)
    <2>1. Resolve(d, n) \in Ino /\ d \in Ino
      BY <1>2, ResolveIsInode, DirsInUse DEF CreateExisting, WellFormed, Types
    <2>2. Step("truncate", Resolve(d, n)) \in MildStep /\ Reopen(d, n) \in Seq(MildStep)
      <3>1. Step("truncate", Resolve(d, n)) \in MildStep
        BY <2>1, StepsAreMild
      <3>2. Reopen(d, n) \in Seq(PlainStep)
        BY <2>1, ReopenPlain
      <3> QED BY <3>1, <3>2, StepsAreMild
    <2>3. todo' = <<Step("truncate", Resolve(d, n))>> \o Reopen(d, n)
      BY <1>2 DEF CreateExisting, Call, Run
    <2> QED BY <2>2, <2>3, ShortRows
  <1>3. ASSUME NEW d \in Dirs, NEW n \in Name, Delete(d, n) \/ Rmdir(d, n)
        PROVE  todo' \in Seq(MildStep)
    <2>0. PICK i : i = Resolve(d, n)
      OBVIOUS
    <2>1. i \in Ino /\ d \in Ino
      BY <1>3, <2>0, ResolveIsInode, DirsInUse DEF Delete, Rmdir, WellFormed, Types
    <2> DEFINE a == [op |-> "remove", dir |-> d, name |-> n]
               b == Step("truncate", i)
               c == Step("decLink", i)
    <2>2. a \in MildStep /\ b \in MildStep /\ c \in MildStep
      <3>1. a \in AnyStep /\ a.op # "halt"
        BY <2>1 DEF AnyStep
      <3> QED BY <2>1, <3>1, StepsAreMild DEF MildStep
    <2>3. todo' = <<a, c>> \/ todo' = <<a, b, c>>
      BY <1>3, <2>0 DEF Delete, Rmdir, Call, Run
    <2> HIDE DEF a, b, c
    <2> QED BY <2>2, <2>3, ShortRows
  <1>4. ASSUME NEW i \in Reached, NEW d \in Reached, NEW n \in Name, Link(i, d, n)
        PROVE  todo' \in Seq(MildStep)
    <2>1. i \in Ino /\ d \in Ino
      BY DirsInUse
    <2> DEFINE then == <<Step("incLink", i)>>
               e == AddStep(d, n, i, then, << >>)
    <2>2. then \in Seq(PlainStep \cup [op : {"incLink"}, ino : Ino])
      BY <2>1 DEF Step
    <2>3. todo' = <<e>>
      BY <1>4 DEF Link, Call, Run
    <2> HIDE DEF then
    <2>4. << >> \in Seq([op : {"free"}, ino : Ino])
      OBVIOUS
    <2>5. e \in MildStep
      <3>1. e \in AnyStep
        BY <2>1, <2>2, <2>4 DEF AddStep, AnyStep
      <3> QED BY <3>1 DEF AddStep, MildStep
    <2> HIDE DEF e
    <2> QED BY <2>3, <2>5, ShortRows
  <1>5. ASSUME NEW i \in Reached, NEW t \in BOOLEAN, Open(i, t)
        PROVE  todo' \in Seq(MildStep)
    <2>1. i \in Ino
      BY DirsInUse
    <2> DEFINE a == Step("incOpen", i)
               b == Step("truncate", i)
    <2>2. a \in MildStep /\ b \in MildStep
      BY <2>1, StepsAreMild
    <2>3. todo' = <<a>> \o <<b>> \/ todo' = <<a>> \o << >>
      BY <1>5 DEF Open, Call, Run
    <2> HIDE DEF a, b
    <2> QED BY <2>2, <2>3, ShortRows
  <1>6. ASSUME NEW f \in Fd, Close(f)
        PROVE  todo' \in Seq(MildStep)
    <2>1. fds[f] \in Ino /\ todo' = <<Step("decOpen", fds[f])>>
      BY <1>6 DEF Close, Call, Run, WellFormed, Types
    <2> QED BY <2>1, StepsAreMild, ShortRows
  <1>7. ASSUME (\E f \in Fd, s \in Slot : Write(f, s)) \/ ChangeUsers \/ Logout \/ Exit
        PROVE  todo' \in Seq(MildStep)
    <2>1. ASSUME NEW f \in Fd, NEW s \in Slot, Write(f, s)
          PROVE  todo' \in Seq(MildStep)
      <3>1. fds[f] \in Ino /\ todo' = <<WriteStep(fds[f], s, "text")>>
        BY <2>1 DEF Write, Call, Run, WellFormed, Types
      <3>2. WriteStep(fds[f], s, "text") \in PlainStep
        BY <3>1 DEF WriteStep, PlainStep
      <3> QED BY <3>1, <3>2, StepsAreMild, ShortRows
    <2>2. CASE ChangeUsers
      <3>1. todo' = <<Step("save", Root)>>
        BY <2>2 DEF ChangeUsers, Call, Run
      <3>2. Step("save", Root) \in PlainStep
        BY DEF Step, PlainStep, WellFormed, RootKept, Types
      <3> QED BY <3>1, <3>2, StepsAreMild, ShortRows
    <2>3. CASE Logout \/ Exit
      <3> DEFINE end == <<Step("save", Root), Step("halt", Root)>>
      <3>1. todo' = <<CloseAllStep(<< >>)>> \/ todo' = <<CloseAllStep(end)>>
        BY <2>3 DEF Logout, Exit, Call, Run
      <3>2. CloseAllStep(<< >>) \in PlainStep /\ CloseAllStep(end) \in PlainStep
        BY DEF CloseAllStep, PlainStep
      <3> HIDE DEF end
      <3> QED BY <3>1, <3>2, StepsAreMild, ShortRows
    <2> QED BY <1>7, <2>1, <2>2, <2>3
  <1>8. todo' \in Seq(MildStep)
    BY <1>1, <1>2, <1>3, <1>4, <1>5, <1>6, <1>7 DEF Command
  <1> QED BY <1>8, NoEnding DEF EndsClosed

LEMMA NextEnds ==
    ASSUME WellFormed, EndsClosed, [Next]_vars
    PROVE  EndsClosed'
  <1>1. CASE UNCHANGED vars
    BY <1>1 DEF vars, inodeVars, EndsClosed, Ending, NoFds
  <1>2. CASE Work
    BY <1>2, InodeStepEnds, OtherWorkEnds DEF Work
  <1> QED BY <1>1, <1>2, CommandEnds, CloseAllEnds, StopOrStartEnds DEF Next

-----------------------------------------------------------------------------
(***************************************************************************)
(* Inodes that nothing leads to                                            *)
(***************************************************************************)

\* An inode that is being made or freed, and how many names any other one has.
Between(i, s) == Making(i, s) \/ Freeing(i, s) \/ UnmarkFreed(i, s)
Due(i) ==
    IF table[i].type = "dir" THEN 1
    ELSE table[i].links + (IF CountLink(i, todo) THEN 1 ELSE 0) - (IF DropLink(i, todo) THEN 1 ELSE 0)

Kept(i) ==
    /\ Cardinality(NamedBy(i)) = Due(i)
    /\ NamedBy(i) # {} \/ DropLink(i, todo) \/ (running /\ ~Mounting(todo) /\ table[i].opens > 0)
KnownLost(i) ==
    /\ DropLink(i, todo) => table[i].type # "dir" \/ i \in lost
    /\ EmptyAndDrop(i, todo) => i \in lost
    /\ RemoveAndDrop(i, todo) => i \in lost \/ (table[i].type # "dir" /\ DropLink(i, Tail(todo)))
KeptOrLost(i) ==
    KnownLost(i) /\ (i \in used \ (lost \cup uncounted \cup {Root}) /\ ~Between(i, todo) => Kept(i))

AllKept == \A i \in Ino : KeptOrLost(i)

\* The row says nothing of any inode but i.
Aside(i, s) == \A j : j # i => ~About(j, s) /\ ~RemoveAndDrop(j, s)

LEMMA AsideNone ==
    ASSUME NEW s,
           \/ Plain(s) \/ Mounting(s) \/ CountFreed(s)
           \/ \E i : MarkNew(i, s) \/ Opening(i, s) \/ Passing(i, s) \/ Closing(i, s)
    PROVE  \A j : ~About(j, s) /\ ~RemoveAndDrop(j, s)
  <1>1. \A j : ~About(j, s)
    BY AboutNone
  <1>2. CASE Plain(s)
    BY <1>1, <1>2, StagesOfPlain
  <1>3. CASE ~Plain(s)
    <2>1. Head(s).op # "remove"
      BY <1>3, Heads
    <2> QED BY <1>1, <2>1, Heads
  <1> QED BY <1>2, <1>3

LEMMA AsideOne ==
    ASSUME NEW s, NEW i, About(i, s)
    PROVE  Aside(i, s) /\ ~RemoveAndDrop(i, s)
  <1>1. \A j : About(j, s) => j = i
    BY AboutOne DEF About
  <1>2. Head(s).op # "remove"
    BY Heads DEF About, Making, Freeing, Dropping
  <1> QED BY <1>1, <1>2, Heads DEF Aside

LEMMA AsideRemoved ==
    ASSUME NEW s, NEW i, RemoveAndDrop(i, s)
    PROVE  Aside(i, s) /\ ~About(i, s)
  <1>1. \A j : ~About(j, s)
    BY AboutNone
  <1>2. \A j : RemoveAndDrop(j, s) => Head(Tail(s)).ino = j
    BY Heads DEF RemoveAndDrop
  <1> QED BY <1>1, <1>2 DEF Aside

\* A step that concerns one inode, or with None for i no inode.
LEMMA MostKept ==
    ASSUME WellFormed, AllKept, NEW i, uncounted \subseteq uncounted', Aside(i, todo), Aside(i, todo'),
           \A j \in Ino : j # i /\ j \in used' /\ j \notin lost' /\ j \notin uncounted' =>
               /\ j \in used /\ j \notin lost
               /\ NamedBy(j)' = NamedBy(j)
               /\ table'[j].type = table[j].type /\ table'[j].links = table[j].links
               /\ (running /\ ~Mounting(todo) /\ table[j].opens > 0) =>
                     NamedBy(j) # {} \/ (running' /\ ~Mounting(todo') /\ table'[j].opens > 0),
           i \in Ino => KeptOrLost(i)'
    PROVE  AllKept'
  <1>1. SUFFICES ASSUME NEW j \in Ino, j # i
                 PROVE  KeptOrLost(j)'
    BY DEF AllKept
  <1>2. /\ ~Between(j, todo) /\ ~CountLink(j, todo) /\ ~DropLink(j, todo)
        /\ ~CountLink(j, todo') /\ ~DropLink(j, todo') /\ ~EmptyAndDrop(j, todo') /\ ~RemoveAndDrop(j, todo')
    BY <1>1 DEF Aside, About, Between, Dropping
  <1>3. KnownLost(j)'
    BY <1>2 DEF KnownLost
  <1>4. ASSUME j \in used', j \notin lost', j \notin uncounted', j # Root
        PROVE  Kept(j)'
    <2>1. Kept(j)
      BY <1>1, <1>2, <1>4 DEF AllKept, KeptOrLost
    <2>2. Due(j)' = Due(j)
      BY <1>1, <1>2, <1>4 DEF Due
    <2>3. NamedBy(j)' = NamedBy(j)
      BY <1>1, <1>4
    <2>4. NamedBy(j) # {} \/ (running' /\ ~Mounting(todo') /\ table'[j].opens > 0)
      BY <1>1, <1>2, <1>4, <2>1 DEF Kept
    <2> QED BY <2>1, <2>2, <2>3, <2>4 DEF Kept
  <1> QED BY <1>3, <1>4 DEF KeptOrLost

\* An inode on its way in or out is neither kept nor lost.
LEMMA BetweenKept ==
    ASSUME NEW i, Between(i, todo')
    PROVE  KeptOrLost(i)'
  <1>1. About(i, todo')
    BY DEF Between, About
  <1>2. ~Dropping(i, todo')
    BY AboutOne, <1>1 DEF Between
  <1>3. ~RemoveAndDrop(i, todo')
    BY <1>1, AsideOne
  <1> QED BY <1>2, <1>3 DEF KeptOrLost, KnownLost, Dropping

\* The pieces that are overwritten name inodes that are lost by it.
LEMMA EmptyLoses ==
    ASSUME WellFormed, NEW d \in Ino, content' = [content EXCEPT ![d] = Empty],
           NEW j, j \notin NamedIn(d, Slot)
    PROVE  NamedBy(j)' = NamedBy(j)
  <1>1. ASSUME NEW p \in NamedBy(j)
        PROVE  p[1] # d
    <2>1. p \in Ino \X Slot /\ content[p[1]][p[2]].kind = "entry" /\ content[p[1]][p[2]].ino = j
      BY DEF NamedBy
    <2>2. p[2] \in Slot
      BY <2>1
    <2> QED BY <2>1, <2>2 DEF NamedIn, EntrySlots
  <1>2. Types
    BY DEF WellFormed
  <1>3. NamedBy(j)' \subseteq NamedBy(j) /\ \A p \in NamedBy(j) : p[1] # d => p \in NamedBy(j)'
    BY <1>2, EmptyNames
  <1> QED BY <1>1, <1>3

LEMMA DataLoses ==
    ASSUME WellFormed, NEW d \in Ino, NEW s \in Slot, NEW piece, content' = [content EXCEPT ![d][s] = piece],
           NEW j, j \notin NamedIn(d, {s}) \ Names(piece), j \notin Names(piece) \ NamedIn(d, {s})
    PROVE  NamedBy(j)' = NamedBy(j)
  <1>1. content' = [content EXCEPT ![d][s] = piece] /\ Types
    BY DEF WellFormed
  <1>2. NamedBy(j)' = IF piece.kind = "entry" /\ piece.ino = j THEN NamedBy(j) \cup {<<d, s>>}
                                                              ELSE NamedBy(j) \ {<<d, s>>}
    BY <1>1, PieceNames
  <1>3. <<d, s>> \in NamedBy(j) <=> j \in NamedIn(d, {s})
    BY DEF NamedBy, NamedIn, EntrySlots
  <1>4. piece.kind = "entry" /\ piece.ino = j <=> j \in Names(piece)
    BY DEF Names
  <1> QED BY <1>2, <1>3, <1>4

\* How the steps of the inodes change what is lost.
LostOrGone == lost' \subseteq Ino /\ lost' = (lost \cup FreeLoses) \cap used'

LEMMA MarkKeeps ==
    ASSUME WellFormed, AllKept, Mark, LostOrGone, UNCHANGED <<running, fds, store, calls, crashes, uncounted>>
    PROVE  AllKept'
  <1>0. PICK i : i = Head(todo).ino
    OBVIOUS
  <1>1. /\ todo # << >> /\ i \in Ino \ {Root} /\ running
        /\ MarkNew(i, todo) /\ WriteNew(i, todo')
    BY <1>0, Kinds, MarkFits, WorkRuns DEF WellFormed, Mark, Doing, LostOrGone
  <1>2. used' = used \cup {i} /\ UNCHANGED <<table, content>>
    BY <1>0 DEF Mark
  <1>3. Aside(i, todo)
    BY <1>1, AsideNone DEF Aside
  <1>4. Between(i, todo') /\ Aside(i, todo')
    BY <1>1, AsideOne DEF Between, Making, About
  <1>5. ~Mounting(todo')
    BY <1>1, Heads
  <1>6. \A j : NamedBy(j)' = NamedBy(j)
    BY <1>2, SameNames
  <1>7. \A j \in Ino : j # i /\ j \in used' /\ j \notin lost' => j \in used /\ j \notin lost
    BY <1>2 DEF LostOrGone
  <1> QED BY <1>1, <1>2, <1>3, <1>4, <1>5, <1>6, <1>7, BetweenKept, MostKept

LEMMA WriteTableKeeps ==
    ASSUME WellFormed, AllKept, WriteTable, LostOrGone, UNCHANGED <<running, fds, store, calls, crashes, uncounted>>
    PROVE  AllKept'
  <1>0. PICK i : i = Head(todo).ino
    OBVIOUS
  <1>1. /\ todo # << >> /\ i \in Ino \ {Root} /\ running
        /\ \/ WriteNew(i, todo) /\ CountNew(i, todo')
           \/ WriteFreed(i, todo) /\ UnmarkFreed(i, todo')
    BY <1>0, Kinds, WriteTableFits, WorkRuns DEF WellFormed, WriteTable, Doing, LostOrGone
  <1>2. UNCHANGED <<used, content>> /\ \A j \in Ino : j # i => table'[j] = table[j]
    BY <1>0 DEF WriteTable, WellFormed, Types
  <1>3. Between(i, todo) /\ Between(i, todo')
    BY <1>1 DEF Between, Making, Freeing
  <1>4. Aside(i, todo) /\ Aside(i, todo')
    BY <1>3, AsideOne DEF Between, About
  <1>5. ~Mounting(todo')
    BY <1>1, Heads
  <1>6. \A j : NamedBy(j)' = NamedBy(j)
    BY <1>2, SameNames
  <1>7. \A j \in Ino : j \in used' /\ j \notin lost' => j \in used /\ j \notin lost
    BY <1>2 DEF LostOrGone
  <1> QED BY <1>1, <1>2, <1>3, <1>4, <1>5, <1>6, <1>7, BetweenKept, MostKept

\* Steps that no inode is concerned by.
LEMMA NoneKept ==
    ASSUME WellFormed, AllKept, UNCHANGED <<table, used, content, running, uncounted>>, lost \cap used' \subseteq lost',
           \A j : ~About(j, todo) /\ ~RemoveAndDrop(j, todo),
           \A j : ~About(j, todo') /\ ~RemoveAndDrop(j, todo'),
           ~Mounting(todo')
    PROVE  AllKept'
  <1>1. \A j : NamedBy(j)' = NamedBy(j)
    BY SameNames
  <1>2. Aside(None, todo) /\ Aside(None, todo') /\ None \notin Ino
    BY NamespaceAssumption DEF Aside
  <1> QED BY <1>1, <1>2, MostKept

LEMMA CountKeeps ==
    ASSUME WellFormed, AllKept, Count, LostOrGone, UNCHANGED <<running, fds, store, calls, crashes, uncounted>>
    PROVE  AllKept'
  <1>1. UNCHANGED <<table, used, content>>
    BY DEF Count
  <1>2. lost \cap used' \subseteq lost'
    BY DEF LostOrGone
  <1>3. CASE CountFreed(todo) /\ Plain(todo')
    <2>1. ~Mounting(todo')
      BY <1>3, StagesOfPlain
    <2> QED BY <1>1, <1>2, <1>3, <2>1, AsideNone, NoneKept
  <1>4. ASSUME NEW i \in Ino \ {Root}, CountNew(i, todo), AddNew(i, todo')
        PROVE  AllKept'
    <2>1. Between(i, todo) /\ Between(i, todo')
      BY <1>4 DEF Between, Making
    <2>2. Aside(i, todo) /\ Aside(i, todo')
      BY <2>1, AsideOne DEF Between, About
    <2>3. ~Mounting(todo')
      BY <1>4, Heads
    <2>4. \A j : NamedBy(j)' = NamedBy(j)
      BY <1>1, SameNames
    <2> QED BY <1>1, <1>2, <2>1, <2>2, <2>3, <2>4, BetweenKept, MostKept
  <1> QED BY <1>3, <1>4, CountFits DEF LostOrGone

LEMMA FreeKeeps ==
    ASSUME WellFormed, AllKept, Free, LostOrGone, UNCHANGED <<running, fds, store, calls, crashes, uncounted>>
    PROVE  AllKept'
  <1>0. PICK i : i = Head(todo).ino
    OBVIOUS
  <1>1. /\ todo # << >> /\ i \in Ino /\ running
        /\ FreeIt(i, todo) /\ WriteFreed(i, todo')
    BY <1>0, Kinds, FreeFits, WorkRuns DEF WellFormed, Free, Doing, LostOrGone
  <1>2. UNCHANGED <<table, used>> /\ content' = [content EXCEPT ![i] = Empty]
    BY <1>0 DEF Free
  <1>3. Between(i, todo) /\ Between(i, todo')
    BY <1>1 DEF Between, Freeing
  <1>4. Aside(i, todo) /\ Aside(i, todo')
    BY <1>3, AsideOne DEF Between, About
  <1>5. ~Mounting(todo')
    BY <1>1, Heads
  <1>6. FreeLoses = NamedIn(i, Slot)
    BY <1>0 DEF FreeLoses, Free
  <1>7. ASSUME NEW j \in Ino, j \in used', j \notin lost'
        PROVE  j \in used /\ j \notin lost /\ NamedBy(j)' = NamedBy(j)
    <2>1. j \notin lost /\ j \notin NamedIn(i, Slot)
      BY <1>6, <1>7 DEF LostOrGone
    <2> QED BY <1>1, <1>2, <1>7, <2>1, EmptyLoses
  <1> QED BY <1>1, <1>2, <1>3, <1>4, <1>5, <1>7, BetweenKept, MostKept

LEMMA UnmarkKeeps ==
    ASSUME WellFormed, AllKept, Unmark, LostOrGone, UNCHANGED <<running, fds, store, calls, crashes, uncounted>>
    PROVE  AllKept'
  <1>0. PICK i : i = Head(todo).ino
    OBVIOUS
  <1>1. /\ todo # << >> /\ i \in Ino /\ running
        /\ UnmarkFreed(i, todo) /\ CountFreed(todo')
    BY <1>0, Kinds, UnmarkFits, WorkRuns DEF WellFormed, Unmark, Doing, LostOrGone
  <1>2. UNCHANGED <<table, content>> /\ used' = used \ {i}
    BY <1>0 DEF Unmark
  <1>3. About(i, todo)
    BY <1>1 DEF About
  <1>4. Aside(i, todo)
    BY <1>3, AsideOne
  <1>5. \A j : ~About(j, todo') /\ ~RemoveAndDrop(j, todo')
    BY <1>1, AsideNone
  <1>6. ~Mounting(todo')
    BY <1>1, Heads
  <1>7. \A j : NamedBy(j)' = NamedBy(j)
    BY <1>2, SameNames
  <1>8. KeptOrLost(i)'
    BY <1>2, <1>5 DEF KeptOrLost, KnownLost, About, Dropping
  <1>9. \A j \in Ino : j \in used' /\ j \notin lost' => j \in used /\ j \notin lost
    BY <1>2 DEF LostOrGone
  <1> QED BY <1>1, <1>2, <1>4, <1>5, <1>6, <1>7, <1>8, <1>9, MostKept DEF Aside

\* Where the row says nothing any more, an inode is kept if its names are as many
\* as its count says and it is named or open.
LEMMA KeptAgain ==
    ASSUME WellFormed', NEW i \in Ino, ~About(i, todo'), ~RemoveAndDrop(i, todo'),
           i \in used' /\ i \notin lost' /\ i \notin uncounted' /\ i # Root =>
               /\ Cardinality(NamedBy(i)') = IF table'[i].type = "dir" THEN 1 ELSE table'[i].links
               /\ NamedBy(i)' # {} \/ (running' /\ ~Mounting(todo') /\ table'[i].opens > 0)
    PROVE  KeptOrLost(i)'
  <1>1. ~CountLink(i, todo') /\ ~DropLink(i, todo') /\ ~EmptyAndDrop(i, todo')
    BY DEF About, Dropping
  <1>2. table'[i].links \in Nat
    BY DEF WellFormed, Types, InodeRecord
  <1>3. Due(i)' = IF table'[i].type = "dir" THEN 1 ELSE table'[i].links
    BY <1>1, <1>2 DEF Due
  <1> QED BY <1>1, <1>3 DEF KeptOrLost, KnownLost, Kept

LEMMA IncLinkKeeps ==
    ASSUME WellFormed, AllKept, IncLink, LostOrGone, UNCHANGED <<running, fds, store, calls, crashes, uncounted>>
    PROVE  AllKept'
  <1>0. PICK i : i = Head(todo).ino
    OBVIOUS
  <1>1. /\ i \in Ino \ {Root} /\ todo # << >> /\ running
        /\ CountLink(i, todo) /\ Plain(todo') /\ WellFormed'
    BY <1>0, Kinds, IncLinkFits, WorkRuns DEF WellFormed, IncLink, Doing, LostOrGone
  <1>2. UNCHANGED <<used, content>> /\ table' = [table EXCEPT ![i] = [table[i] EXCEPT !.links = table[i].links + 1]]
    BY <1>0 DEF IncLink
  <1>3. /\ \A j \in Ino : j # i => table'[j] = table[j]
        /\ table'[i].links = table[i].links + 1 /\ table'[i].type = table[i].type /\ table'[i].opens = table[i].opens
    BY <1>1, <1>2, LinksOfOne
  <1>4. About(i, todo) /\ ~Between(i, todo) /\ ~Dropping(i, todo) /\ ~Mounting(todo')
    BY <1>1, AboutOne, StagesOfPlain DEF About, Between
  <1>5. Aside(i, todo)
    BY <1>4, AsideOne
  <1>6. \A j : ~About(j, todo') /\ ~RemoveAndDrop(j, todo')
    BY <1>1, AsideNone
  <1>7. \A j : NamedBy(j)' = NamedBy(j)
    BY <1>2, SameNames
  <1>8. \A j \in Ino : j \in used' /\ j \notin lost' => j \in used /\ j \notin lost
    BY <1>2 DEF LostOrGone
  <1>9. KeptOrLost(i)'
    <2>1. SUFFICES ASSUME i \in used', i \notin lost', i \notin uncounted'
                   PROVE  /\ Cardinality(NamedBy(i)') = IF table'[i].type = "dir" THEN 1 ELSE table'[i].links
                          /\ NamedBy(i)' # {} \/ (running' /\ ~Mounting(todo') /\ table'[i].opens > 0)
      BY <1>1, <1>6, KeptAgain
    <2>2. Kept(i)
      BY <1>1, <1>4, <1>8, <2>1 DEF AllKept, KeptOrLost
    <2>3. table[i].links \in Nat
      BY <1>1 DEF WellFormed, Types, InodeRecord
    <2>4. Due(i) = IF table[i].type = "dir" THEN 1 ELSE table[i].links + 1
      BY <1>1, <1>4, <2>3 DEF Due, Dropping
    <2> QED BY <1>1, <1>3, <1>4, <1>7, <2>2, <2>4 DEF Kept, Dropping
  <1> QED BY <1>1, <1>3, <1>4, <1>5, <1>6, <1>7, <1>8, <1>9, MostKept DEF Aside

LEMMA DecLinkKeeps ==
    ASSUME WellFormed, AllKept, DecLink, LostOrGone, UNCHANGED <<running, fds, store, calls, crashes, uncounted>>
    PROVE  AllKept'
  <1>0. PICK i : i = Head(todo).ino
    OBVIOUS
  <1>1. /\ DropLink(i, todo) /\ i \in Ino \ {Root} /\ todo # << >> /\ running /\ WellFormed'
        /\ IF Less(table[i].links) = 0 /\ table[i].opens = 0 THEN FreeIt(i, todo') ELSE Plain(todo')
    BY <1>0, Kinds, DecLinkFits, WorkRuns DEF WellFormed, DecLink, Doing, LostOrGone
  <1>2. UNCHANGED <<used, content>>
    BY DEF DecLink, WriteOrFree
  <1>3. table[i] \in InodeRecord
    BY <1>1 DEF WellFormed, Types
  <1> DEFINE inode == [table[i] EXCEPT !.links = Less(table[i].links)]
  <1>4. inode.links = Less(table[i].links) /\ inode.opens = table[i].opens
    BY <1>3 DEF InodeRecord
  <1>5. IF inode.links = 0 /\ inode.opens = 0 THEN table' = table ELSE table' = [table EXCEPT ![i] = inode]
    BY <1>0 DEF DecLink, WriteOrFree
  <1>6. About(i, todo) /\ ~Between(i, todo) /\ ~CountLink(i, todo)
    BY <1>1, AboutOne DEF About, Between, Dropping
  <1>7. Aside(i, todo)
    BY <1>6, AsideOne
  <1>8. \A j : NamedBy(j)' = NamedBy(j)
    BY <1>2, SameNames
  <1>9. \A j \in Ino : j \in used' /\ j \notin lost' => j \in used /\ j \notin lost
    BY <1>2 DEF LostOrGone
  <1>10. ~Mounting(todo')
    BY <1>1, Heads, StagesOfPlain
  <1>11. CASE Less(table[i].links) = 0 /\ table[i].opens = 0
    <2>1. table' = table
      BY <1>4, <1>5, <1>11
    <2>2. Between(i, todo') /\ Aside(i, todo')
      BY <1>1, <1>11, AsideOne DEF Between, Freeing, About
    <2> QED BY <1>1, <1>7, <1>8, <1>9, <1>10, <2>1, <2>2, BetweenKept, MostKept
  <1>12. CASE ~(Less(table[i].links) = 0 /\ table[i].opens = 0)
    <2>1. table' = [table EXCEPT ![i] = [table[i] EXCEPT !.links = Less(table[i].links)]]
      BY <1>4, <1>5, <1>12
    <2>2. /\ \A j \in Ino : j # i => table'[j] = table[j]
          /\ table'[i].links = Less(table[i].links) /\ table'[i].type = table[i].type
          /\ table'[i].opens = table[i].opens
      BY <1>1, <2>1, LinksOfOne
    <2>3. \A j : ~About(j, todo') /\ ~RemoveAndDrop(j, todo')
      BY <1>1, <1>12, AsideNone
    <2>4. KeptOrLost(i)'
      <3>1. SUFFICES ASSUME i \in used', i \notin lost', i \notin uncounted'
                     PROVE  /\ Cardinality(NamedBy(i)') = IF table'[i].type = "dir" THEN 1 ELSE table'[i].links
                            /\ NamedBy(i)' # {} \/ (running' /\ ~Mounting(todo') /\ table'[i].opens > 0)
        BY <1>1, <2>3, KeptAgain
      <3>2. Kept(i) /\ table[i].type # "dir"
        BY <1>1, <1>6, <1>9, <3>1 DEF AllKept, KeptOrLost, KnownLost
      <3>3. table[i].links \in Nat /\ table[i].opens \in Nat
        BY <1>3 DEF InodeRecord
      <3>4. Cardinality(NamedBy(i)) = table[i].links - 1
        BY <1>1, <1>6, <3>2, <3>3 DEF Kept, Due
      <3>5. Cardinality(NamedBy(i)) \in Nat /\ (Cardinality(NamedBy(i)) = 0 <=> NamedBy(i) = {})
        BY NamedSize, SizeOfPlaces
      <3>6. Less(table[i].links) = Cardinality(NamedBy(i))
        BY <3>3, <3>4, <3>5, LessIsNat
      <3>7. NamedBy(i) = {} => table[i].opens > 0
        BY <1>12, <3>3, <3>5, <3>6
      <3> QED BY <1>1, <1>8, <1>10, <2>2, <3>2, <3>6, <3>7
    <2> QED BY <1>1, <1>7, <1>8, <1>9, <1>10, <2>2, <2>3, <2>4, MostKept DEF Aside
  <1> QED BY <1>11, <1>12

LEMMA IncOpenKeeps ==
    ASSUME WellFormed, AllKept, IncOpen, LostOrGone, UNCHANGED <<running, fds, store, calls, crashes, uncounted>>
    PROVE  AllKept'
  <1>0. PICK i : i = Head(todo).ino
    OBVIOUS
  <1>1. /\ i \in Ino /\ todo # << >> /\ running
        /\ \/ Opening(i, todo) /\ Plain(todo')
           \/ Passing(i, todo) /\ Closing(i, todo')
    BY <1>0, Kinds, IncOpenFits, WorkRuns DEF WellFormed, IncOpen, Doing, LostOrGone
  <1>2. UNCHANGED <<used, content>> /\ table' = [table EXCEPT ![i] = [table[i] EXCEPT !.opens = table[i].opens + 1]]
    BY <1>0 DEF IncOpen
  <1>3. /\ \A j \in Ino : j # i => table'[j] = table[j]
        /\ table'[i].links = table[i].links /\ table'[i].type = table[i].type /\ table'[i].opens = table[i].opens + 1
    BY <1>1, <1>2, OpenCountOfOne
  <1>4. table[i].opens \in Nat
    BY <1>1 DEF WellFormed, Types, InodeRecord
  <1>5. \A j \in Ino : /\ table'[j].links = table[j].links /\ table'[j].type = table[j].type
                       /\ table[j].opens > 0 => table'[j].opens > 0
    BY <1>3, <1>4
  <1>6. /\ \A j : ~About(j, todo) /\ ~RemoveAndDrop(j, todo)
        /\ \A j : ~About(j, todo') /\ ~RemoveAndDrop(j, todo')
    BY <1>1, AsideNone
  <1>7. ~Mounting(todo')
    BY <1>1, Heads, StagesOfPlain
  <1>8. \A j : NamedBy(j)' = NamedBy(j)
    BY <1>2, SameNames
  <1>9. \A j \in Ino : j \in used' /\ j \notin lost' => j \in used /\ j \notin lost
    BY <1>2 DEF LostOrGone
  <1>10. Aside(None, todo) /\ Aside(None, todo') /\ None \notin Ino
    BY <1>6, NamespaceAssumption DEF Aside
  <1> QED BY <1>1, <1>5, <1>7, <1>8, <1>9, <1>10, MostKept

LEMMA DecOpenKeeps ==
    ASSUME WellFormed, AllKept, DecOpen, LostOrGone, UNCHANGED <<running, fds, store, calls, crashes, uncounted>>
    PROVE  AllKept'
  <1>0. PICK i : i = Head(todo).ino
    OBVIOUS
  <1>1. /\ Closing(i, todo) /\ i \in Ino /\ todo # << >> /\ running /\ WellFormed'
        /\ IF table[i].links = 0 /\ Less(table[i].opens) = 0 THEN FreeIt(i, todo') ELSE Plain(todo')
    BY <1>0, Kinds, DecOpenFits, WorkRuns DEF WellFormed, DecOpen, Doing, LostOrGone
  <1>2. UNCHANGED <<used, content>>
    BY DEF DecOpen, WriteOrFree
  <1>3. table[i] \in InodeRecord
    BY <1>1 DEF WellFormed, Types
  <1> DEFINE inode == [table[i] EXCEPT !.opens = Less(table[i].opens)]
  <1>4. inode.opens = Less(table[i].opens) /\ inode.links = table[i].links
    BY <1>3 DEF InodeRecord
  <1>5. IF inode.links = 0 /\ inode.opens = 0 THEN table' = table ELSE table' = [table EXCEPT ![i] = inode]
    BY <1>0 DEF DecOpen, WriteOrFree
  <1>6. \A j : ~About(j, todo) /\ ~RemoveAndDrop(j, todo)
    BY <1>1, AsideNone
  <1>7. Aside(i, todo)
    BY <1>6 DEF Aside
  <1>8. \A j : NamedBy(j)' = NamedBy(j)
    BY <1>2, SameNames
  <1>9. \A j \in Ino : j \in used' /\ j \notin lost' => j \in used /\ j \notin lost
    BY <1>2 DEF LostOrGone
  <1>10. ~Mounting(todo')
    BY <1>1, Heads, StagesOfPlain
  <1>11. CASE table[i].links = 0 /\ Less(table[i].opens) = 0
    <2>1. table' = table
      BY <1>4, <1>5, <1>11
    <2>2. Between(i, todo') /\ Aside(i, todo')
      BY <1>1, <1>11, AsideOne DEF Between, Freeing, About
    <2> QED BY <1>1, <1>7, <1>8, <1>9, <1>10, <2>1, <2>2, BetweenKept, MostKept
  <1>12. CASE ~(table[i].links = 0 /\ Less(table[i].opens) = 0)
    <2>1. /\ \A j \in Ino : j # i => table'[j] = table[j]
          /\ table'[i].opens = Less(table[i].opens) /\ table'[i].type = table[i].type
          /\ table'[i].links = table[i].links
      BY <1>1, <1>4, <1>5, <1>12, OpenCountOfOne
    <2>2. \A j : ~About(j, todo') /\ ~RemoveAndDrop(j, todo')
      BY <1>1, <1>12, AsideNone
    <2>3. KeptOrLost(i)'
      <3>1. SUFFICES ASSUME i \in used', i \notin lost', i \notin uncounted', i # Root
                     PROVE  /\ Cardinality(NamedBy(i)') = IF table'[i].type = "dir" THEN 1 ELSE table'[i].links
                            /\ NamedBy(i)' # {} \/ (running' /\ ~Mounting(todo') /\ table'[i].opens > 0)
        BY <1>1, <2>2, KeptAgain
      <3>2. Kept(i)
        BY <1>1, <1>6, <1>9, <3>1 DEF AllKept, KeptOrLost, Between, About
      <3>3. table[i].links \in Nat /\ table[i].opens \in Nat /\ Less(table[i].opens) \in Nat
        BY <1>3, LessIsNat DEF InodeRecord
      <3>4. ~CountLink(i, todo) /\ ~DropLink(i, todo)
        BY <1>6 DEF About, Dropping
      <3>5. Cardinality(NamedBy(i)) = IF table[i].type = "dir" THEN 1 ELSE table[i].links
        BY <3>2, <3>3, <3>4 DEF Kept, Due
      <3>6. Cardinality(NamedBy(i)) \in Nat /\ (Cardinality(NamedBy(i)) = 0 <=> NamedBy(i) = {})
        BY NamedSize, SizeOfPlaces
      <3>7. NamedBy(i) = {} => Less(table[i].opens) > 0
        BY <1>12, <3>3, <3>5, <3>6
      <3> QED BY <1>1, <1>8, <1>10, <2>1, <3>5, <3>7
    <2> QED BY <1>1, <1>7, <1>8, <1>9, <1>10, <2>1, <2>2, <2>3, MostKept DEF Aside
  <1> QED BY <1>11, <1>12

LEMMA ResetKeeps ==
    ASSUME WellFormed, AllKept, ResetOpenCounts, LostOrGone, UNCHANGED <<running, fds, store, calls, crashes, uncounted>>
    PROVE  AllKept'
  <1>1. Mounting(todo) /\ Plain(todo')
    BY ResetOpenCountsFits DEF LostOrGone
  <1>2. UNCHANGED <<used, content>>
    BY DEF ResetOpenCounts
  <1>3. ASSUME NEW j \in Ino
        PROVE  table'[j].links = table[j].links /\ table'[j].type = table[j].type
    <2>1. table'[j] = IF Valid(j) THEN [table[j] EXCEPT !.opens = 0] ELSE table[j]
      BY DEF ResetOpenCounts
    <2>2. table[j] \in InodeRecord
      BY DEF WellFormed, Types
    <2> QED BY <2>1, <2>2 DEF InodeRecord
  <1>4. /\ \A j : ~About(j, todo) /\ ~RemoveAndDrop(j, todo)
        /\ \A j : ~About(j, todo') /\ ~RemoveAndDrop(j, todo')
    BY <1>1, AsideNone
  <1>5. \A j : NamedBy(j)' = NamedBy(j)
    BY <1>2, SameNames
  <1>6. \A j \in Ino : j \in used' /\ j \notin lost' => j \in used /\ j \notin lost
    BY <1>2 DEF LostOrGone
  <1>7. Aside(None, todo) /\ Aside(None, todo') /\ None \notin Ino
    BY <1>4, NamespaceAssumption DEF Aside
  <1> QED BY <1>1, <1>3, <1>5, <1>6, <1>7, MostKept

LEMMA InitDirKeeps ==
    ASSUME WellFormed, AllKept, InitDir, UNCHANGED <<running, fds, calls, crashes>>
    PROVE  AllKept'
  <1>0. PICK i : i = Head(todo).ino
    OBVIOUS
  <1>1. /\ WellFormed' /\ AddNew(i, todo)
        /\ \/ AddNew(i, todo') /\ UNCHANGED lost
           \/ Plain(todo') /\ lost' = lost \cup {i}
    BY <1>0, InitDirFits
  <1>2. i \in Ino
    BY <1>0, Kinds DEF WellFormed, InitDir, Doing
  <1>3. UNCHANGED <<table, used, content, uncounted>>
    BY DEF InitDir
  <1>4. Aside(i, todo)
    BY <1>1, AsideOne DEF About, Making
  <1>5. ~Mounting(todo') /\ Aside(i, todo') /\ KeptOrLost(i)'
    <2>1. CASE Plain(todo') /\ lost' = lost \cup {i}
      <3>1. \A j : ~About(j, todo') /\ ~RemoveAndDrop(j, todo')
        BY <2>1, AsideNone
      <3>2. KeptOrLost(i)'
        BY <1>1, <1>2, <2>1, <3>1, KeptAgain
      <3> QED BY <2>1, <3>1, <3>2, StagesOfPlain DEF Aside
    <2>2. CASE AddNew(i, todo')
      <3>1. Between(i, todo')
        BY <2>2 DEF Between, Making
      <3>2. About(i, todo')
        BY <3>1 DEF Between, About
      <3> QED BY <2>2, <3>1, <3>2, AsideOne, BetweenKept, Heads
    <2> QED BY <1>1, <2>1, <2>2
  <1>6. \A j : NamedBy(j)' = NamedBy(j)
    BY <1>3, SameNames
  <1>7. lost \subseteq lost'
    BY <1>1
  <1> QED BY <1>3, <1>4, <1>5, <1>6, <1>7, MostKept

LEMMA AddEntryKeeps ==
    ASSUME WellFormed, NamesCovered, AllKept, AddEntry, UNCHANGED <<running, fds, calls, crashes>>
    PROVE  AllKept'
  <1>0. PICK i, d, s : i = Head(todo).ino /\ d = Head(todo).dir /\ s = Min(FreeSlots(Head(todo).dir))
    OBVIOUS
  <1>1. /\ WellFormed'
        /\ \/ AddNew(i, todo) /\ (Plain(todo') \/ (FreeSlots(d) = {} /\ FreeIt(i, todo')))
           \/ AddLink(i, todo) /\ IF FreeSlots(d) # {} THEN CountLink(i, todo') ELSE Plain(todo')
    BY <1>0, AddEntryFits
  <1>2. todo # << >> /\ i \in Ino \ {Root} /\ d \in Ino /\ running
    <2>1. todo # << >> /\ i \in Ino \ {Root} /\ running
      BY <1>0, Kinds, WorkRuns DEF WellFormed, AddEntry, Doing
    <2> QED BY <1>0, <1>1, <2>1 DEF AddNew, FirstEntry, AddLink, AddStep, InitStep
  <1>3. UNCHANGED <<table, used, uncounted>>
    BY DEF AddEntry
  <1>4. About(i, todo) /\ Aside(i, todo)
    BY <1>1, AsideOne DEF About, Making
  <1>5. ~Mounting(todo') /\ Aside(i, todo')
    <2>1. CASE Plain(todo')
      BY <2>1, AsideNone, StagesOfPlain DEF Aside
    <2>2. CASE FreeIt(i, todo') \/ CountLink(i, todo')
      BY <2>2, AsideOne, Heads DEF About, Freeing
    <2> QED BY <1>1, <2>1, <2>2
  <1>6. CASE FreeSlots(d) = {}
    <2>1. content' = content /\ lost' = lost \cup ({i} \ {j \in Ino : NamedBy(j) # {}})
      BY <1>0, <1>6 DEF AddEntry
    <2>2. \A j : NamedBy(j)' = NamedBy(j)
      BY <2>1, SameNames
    <2>3. KeptOrLost(i)'
      <3>1. CASE FreeIt(i, todo')
        BY <3>1, BetweenKept DEF Between, Freeing
      <3>2. CASE Plain(todo')
        <4>1. \A j : ~About(j, todo') /\ ~RemoveAndDrop(j, todo')
          BY <3>2, AsideNone
        <4>2. CASE AddNew(i, todo)
          <5>1. i \notin uncounted => NamedBy(i) = {}
            BY <1>2, <1>3, <4>2 DEF NamesCovered, Guarded, Making
          <5>2. i \in lost' \/ i \in uncounted'
            BY <1>3, <2>1, <5>1
          <5> QED BY <1>1, <1>2, <4>1, <5>2, KeptAgain
        <4>3. CASE AddLink(i, todo)
          <5>1. ~Between(i, todo) /\ ~CountLink(i, todo) /\ ~DropLink(i, todo)
            BY <4>3, AboutOne DEF Between, About, Dropping
          <5>2. SUFFICES ASSUME i \in used', i \notin lost', i \notin uncounted', i # Root
                         PROVE  /\ Cardinality(NamedBy(i)') = IF table'[i].type = "dir" THEN 1 ELSE table'[i].links
                                /\ NamedBy(i)' # {} \/ (running' /\ ~Mounting(todo') /\ table'[i].opens > 0)
            BY <1>1, <1>2, <4>1, KeptAgain
          <5>3. Kept(i)
            BY <1>2, <1>3, <2>1, <5>1, <5>2 DEF AllKept, KeptOrLost
          <5>4. table[i].links \in Nat
            BY <1>2 DEF WellFormed, Types, InodeRecord
          <5>5. Due(i) = IF table[i].type = "dir" THEN 1 ELSE table[i].links
            BY <5>1, <5>4 DEF Due
          <5> QED BY <1>2, <1>3, <1>5, <2>2, <5>1, <5>3, <5>5 DEF Kept
        <4> QED BY <1>1, <4>2, <4>3
      <3> QED BY <1>1, <1>6, <3>1, <3>2
    <2> QED BY <1>2, <1>3, <1>4, <1>5, <2>1, <2>2, <2>3, MostKept
  <1>7. CASE FreeSlots(d) # {}
    <2>0. s \in Slot /\ content[d][s] = Nothing
      BY <1>0, <1>7, SlotOf DEF FreeSlots
    <2>1. lost' = lost /\ \E n : content' = [content EXCEPT ![d][s] = Entry(n, i)]
      BY <1>0, <1>7 DEF AddEntry
    <2>2. ASSUME NEW j
          PROVE  NamedBy(j)' = IF j = i THEN NamedBy(j) \cup {<<d, s>>} ELSE NamedBy(j)
      <3>0. PICK n : content' = [content EXCEPT ![d][s] = Entry(n, i)]
        BY <2>1
      <3> DEFINE piece == Entry(n, i)
      <3>1. piece.kind = "entry" /\ piece.ino = i
        BY DEF Entry
      <3> HIDE DEF piece
      <3>2. NamedBy(j)' = IF piece.kind = "entry" /\ piece.ino = j THEN NamedBy(j) \cup {<<d, s>>}
                                                                  ELSE NamedBy(j) \ {<<d, s>>}
        BY <1>2, <2>0, <3>0, PieceNames DEF WellFormed, piece
      <3>3. <<d, s>> \notin NamedBy(j)
        BY <2>0 DEF NamedBy, Nothing
      <3> QED BY <3>1, <3>2, <3>3
    <2>3. /\ Cardinality(NamedBy(i)') = Cardinality(NamedBy(i)) + 1
          /\ Cardinality(NamedBy(i)) \in Nat /\ NamedBy(i)' # {}
          /\ NamedBy(i) = {} => Cardinality(NamedBy(i)) = 0
      <3>1. <<d, s>> \notin NamedBy(i)
        BY <2>0 DEF NamedBy, Nothing
      <3> QED BY <2>2, <3>1, NamedSize, SizeOfPlaces
    <2>4. KeptOrLost(i)'
      <3>1. CASE AddNew(i, todo) /\ Plain(todo')
        <4>1. \A j : ~About(j, todo') /\ ~RemoveAndDrop(j, todo')
          BY <3>1, AsideNone
        <4>0. SUFFICES ASSUME i \notin uncounted'
                       PROVE  /\ Cardinality(NamedBy(i)') = IF table'[i].type = "dir" THEN 1 ELSE table'[i].links
                              /\ NamedBy(i)' # {} \/ (running' /\ ~Mounting(todo') /\ table'[i].opens > 0)
          BY <1>1, <1>2, <4>1, KeptAgain
        <4>2. NamedBy(i) = {}
          BY <1>2, <1>3, <3>1, <4>0 DEF NamesCovered, Guarded, Making
        <4>3. table[i] \in Made
          BY <1>2, <3>1 DEF WellFormed, Stages
        <4>4. table[i].links = IF table[i].type = "dir" THEN 2 ELSE 1
          BY <4>3 DEF Made, NewInode
        <4>5. Cardinality(NamedBy(i)') = 1
          BY <2>3, <4>2
        <4>6. Cardinality(NamedBy(i)') = IF table'[i].type = "dir" THEN 1 ELSE table'[i].links
          BY <1>3, <4>4, <4>5
        <4> QED BY <2>3, <4>6
      <3>2. CASE AddLink(i, todo) /\ CountLink(i, todo')
        <4>1. ~Between(i, todo) /\ ~CountLink(i, todo) /\ ~DropLink(i, todo)
          BY <3>2, AboutOne DEF Between, About, Dropping
        <4>2. ~Dropping(i, todo') /\ ~RemoveAndDrop(i, todo')
          BY <3>2, AboutOne, AsideOne DEF About
        <4>3. KnownLost(i)'
          BY <4>2 DEF KnownLost, Dropping
        <4>4. ASSUME i \in used', i \notin lost', i \notin uncounted', i # Root
              PROVE  Kept(i)'
          <5>1. Kept(i)
            BY <1>2, <1>3, <2>1, <4>1, <4>4 DEF AllKept, KeptOrLost
          <5>2. table[i].links \in Nat /\ table[i].type # "dir"
            BY <1>2, <3>2 DEF WellFormed, Types, InodeRecord, Stages
          <5>3. Due(i) = table[i].links
            BY <4>1, <5>2 DEF Due
          <5>4. Due(i)' = table[i].links + 1
            BY <1>3, <3>2, <4>2, <5>2 DEF Due, Dropping
          <5> QED BY <2>3, <5>1, <5>3, <5>4 DEF Kept
        <4> QED BY <4>3, <4>4 DEF KeptOrLost
      <3>3. ~FreeIt(i, todo') \/ ~AddNew(i, todo) \/ Plain(todo')
        BY <1>1, <1>7, NewOrLinked
      <3> QED BY <1>1, <1>7, <3>1, <3>2, <3>3
    <2> QED BY <1>2, <1>3, <1>4, <1>5, <2>1, <2>2, <2>4, MostKept
  <1> QED BY <1>6, <1>7

LEMMA RemoveKeeps ==
    ASSUME WellFormed, AllKept, RemoveEntry, UNCHANGED <<running, fds, calls, crashes>>
    PROVE  AllKept'
  <1>0. PICK d, n, s : d = Head(todo).dir /\ n = Head(todo).name /\ s = Found(Head(todo).dir, Head(todo).name)
    OBVIOUS
  <1>1. PICK i \in Ino \ {Root} : RemoveAndDrop(i, todo) /\ Dropping(i, todo')
    BY RemoveEntryFits
  <1>2. s \in Slot /\ content[d][s].kind = "entry" /\ content[d][s].ino = i /\ d \in Ino
    <2>1. Matching(d, n) # {} /\ content[d][s].ino = i
      BY <1>0, <1>1 DEF WellFormed, Stages
    <2>2. d \in Ino
      BY <1>0, <1>1, TodoTail, Heads DEF WellFormed, Doing, RemoveEntry, RemoveAndDrop, Types, AnyStep
    <2> QED BY <1>0, <2>1, <2>2, FoundIsSlot
  <1>3. UNCHANGED <<table, used, lost, uncounted, running>> /\ content' = [content EXCEPT ![d][s] = Nothing]
    BY <1>0 DEF RemoveEntry
  <1>4. todo # << >> /\ running /\ todo' = Tail(todo)
    BY WorkRuns, TodoTail DEF RemoveEntry, Doing, WellFormed
  <1>5. ASSUME NEW j
        PROVE  NamedBy(j)' = NamedBy(j) \ {<<d, s>>}
    <2>1. Nothing.kind # "entry"
      BY DEF Nothing
    <2>2. Types /\ content' = [content EXCEPT ![d][s] = Nothing]
      BY <1>3 DEF WellFormed
    <2>3. NamedBy(j)' = IF Nothing.kind = "entry" /\ Nothing.ino = j THEN NamedBy(j) \cup {<<d, s>>}
                                                                     ELSE NamedBy(j) \ {<<d, s>>}
      BY <1>2, <2>2, PieceNames
    <2> QED BY <2>1, <2>3
  <1>6. \A j : <<d, s>> \in NamedBy(j) <=> j = i
    BY <1>2 DEF NamedBy
  <1>7. Aside(i, todo) /\ ~About(i, todo)
    BY <1>1, AsideRemoved
  <1>8. About(i, todo') /\ Aside(i, todo')
    BY <1>1, AsideOne DEF About
  <1>9. ~Mounting(todo')
    BY <1>1, Heads DEF Dropping
  <1>10. KeptOrLost(i)'
    <2>1. ~Between(i, todo') /\ ~CountLink(i, todo') /\ ~RemoveAndDrop(i, todo')
      BY <1>1, <1>8, AboutOne, AsideOne DEF About, Between
    <2>2. KnownLost(i) /\ (i \in used \ (lost \cup uncounted \cup {Root}) => Kept(i))
      BY <1>3, <1>7 DEF AllKept, KeptOrLost, Between, About
    <2>3. CASE i \in lost
      BY <1>3, <2>1, <2>3 DEF KeptOrLost, KnownLost
    <2>4. CASE i \notin lost
      <3>1. table[i].type # "dir" /\ DropLink(i, todo')
        BY <1>1, <1>4, <2>2, <2>4 DEF KnownLost
      <3>2. ~EmptyAndDrop(i, todo')
        BY <3>1, Heads
      <3>3. ASSUME i \in used', i \notin uncounted'
            PROVE  Kept(i)'
        <4>1. Kept(i)
          BY <1>3, <2>2, <2>4, <3>3
        <4>2. table[i].links \in Nat
          BY DEF WellFormed, Types, InodeRecord
        <4>3. Due(i) = table[i].links
          BY <1>7, <3>1, <4>2 DEF Due, About, Dropping
        <4>4. Due(i)' = table[i].links - 1
          BY <1>3, <2>1, <3>1, <4>2 DEF Due
        <4>5. Cardinality(NamedBy(i)') = Cardinality(NamedBy(i)) - 1
          BY <1>5, <1>6, NamedSize, SizeOfPlaces
        <4> QED BY <3>1, <4>1, <4>3, <4>4, <4>5 DEF Kept
      <3> QED BY <1>3, <2>1, <3>1, <3>2, <3>3 DEF KeptOrLost, KnownLost
    <2> QED BY <2>3, <2>4
  <1>11. \A j : j # i => NamedBy(j)' = NamedBy(j)
    BY <1>5, <1>6
  <1> QED BY <1>3, <1>4, <1>7, <1>8, <1>9, <1>10, <1>11, MostKept

LEMMA TruncateKeeps ==
    ASSUME WellFormed, AllKept, Truncate, UNCHANGED <<running, fds, calls, crashes>>
    PROVE  AllKept'
  <1>0. PICK i : i = Head(todo).ino
    OBVIOUS
  <1>1. UNCHANGED <<table, used, running, uncounted>> /\ running
    BY WorkRuns DEF Truncate, Doing, WellFormed
  <1>2. \/ content' = content /\ lost' = lost
        \/ i \in used /\ content' = [content EXCEPT ![i] = Empty] /\ lost' = lost \cup NamedIn(i, Slot)
    BY <1>0 DEF Truncate, Valid
  <1>3. ASSUME NEW j \in Ino, j \notin lost'
        PROVE  j \notin lost /\ NamedBy(j)' = NamedBy(j)
    <2>1. CASE content' = content /\ lost' = lost
      BY <1>3, <2>1, SameNames
    <2>2. CASE i \in used /\ content' = [content EXCEPT ![i] = Empty] /\ lost' = lost \cup NamedIn(i, Slot)
      <3>1. i \in Ino
        BY <2>2 DEF WellFormed, Types
      <3> QED BY <1>3, <2>2, <3>1, EmptyLoses
    <2> QED BY <1>2, <2>1, <2>2
  <1>4. CASE Plain(todo) /\ Plain(todo')
    <2>1. Aside(None, todo) /\ Aside(None, todo') /\ None \notin Ino
      BY <1>4, AsideNone, NamespaceAssumption DEF Aside
    <2>2. ~Mounting(todo')
      BY <1>4, StagesOfPlain
    <2> QED BY <1>1, <1>3, <2>1, <2>2, MostKept
  <1>5. CASE EmptyAndDrop(i, todo) /\ DropLink(i, todo')
    <2>1. About(i, todo) /\ About(i, todo')
      BY <1>5 DEF About, Dropping
    <2>2. Aside(i, todo) /\ Aside(i, todo') /\ ~RemoveAndDrop(i, todo')
      BY <2>1, AsideOne
    <2>3. ~Mounting(todo')
      BY <1>5, Heads
    <2>4. ASSUME i \in Ino
          PROVE  KeptOrLost(i)'
      <3>1. i \in lost
        BY <1>1, <1>5, <2>4 DEF AllKept, KeptOrLost, KnownLost
      <3>2. i \in lost'
        BY <1>2, <3>1
      <3> QED BY <2>2, <3>2 DEF KeptOrLost, KnownLost
    <2> QED BY <1>1, <1>3, <2>2, <2>3, <2>4, MostKept
  <1> QED BY <1>0, <1>4, <1>5, TruncateFits

LEMMA WriteDataKeeps ==
    ASSUME WellFormed, AllKept, WriteData, UNCHANGED <<running, fds, calls, crashes>>
    PROVE  AllKept'
  <1>0. PICK i, s : i = Head(todo).ino /\ s = Head(todo).slot
    OBVIOUS
  <1>1. UNCHANGED <<table, used, running>> /\ running
    BY WorkRuns DEF WriteData, Doing, WellFormed
  <1>2. Plain(todo) /\ Plain(todo')
    BY WriteDataFits
  <1>3. i \in Ino /\ s \in Slot
    <2>1. todo # << >> /\ Head(todo).op = "write"
      BY DEF WriteData, Doing
    <2>2. Head(todo) \in PlainStep \cup LastStep
      BY <1>2, <2>1, PlainIsAny
    <2> QED BY <1>0, <2>1, <2>2 DEF PlainStep, LastStep, Step
  <1>4. \/ UNCHANGED <<content, lost, uncounted>>
        \/ \E piece : /\ content' = [content EXCEPT ![i][s] = piece]
                       /\ lost' = lost \cup (NamedIn(i, {s}) \ Names(piece))
                       /\ uncounted' = uncounted \cup (Names(piece) \ NamedIn(i, {s}))
    BY <1>0 DEF WriteData
  <1>5. /\ uncounted \subseteq uncounted'
        /\ \A j \in Ino : j \notin lost' /\ j \notin uncounted' => j \notin lost /\ NamedBy(j)' = NamedBy(j)
    <2>1. CASE UNCHANGED <<content, lost, uncounted>>
      BY <2>1, SameNames
    <2>2. ASSUME NEW piece, content' = [content EXCEPT ![i][s] = piece],
                 lost' = lost \cup (NamedIn(i, {s}) \ Names(piece)),
                 uncounted' = uncounted \cup (Names(piece) \ NamedIn(i, {s})),
                 NEW j \in Ino, j \notin lost', j \notin uncounted'
          PROVE  j \notin lost /\ NamedBy(j)' = NamedBy(j)
      <3>1. j \notin lost /\ j \notin NamedIn(i, {s}) \ Names(piece) /\ j \notin Names(piece) \ NamedIn(i, {s})
        BY <2>2
      <3>2. content' = [content EXCEPT ![i][s] = piece]
        BY <2>2
      <3> QED BY <1>3, <3>1, <3>2, DataLoses
    <2> QED BY <1>4, <2>1, <2>2
  <1>6. Aside(None, todo) /\ Aside(None, todo') /\ None \notin Ino
    BY <1>2, AsideNone, NamespaceAssumption DEF Aside
  <1>7. ~Mounting(todo')
    BY <1>2, StagesOfPlain
  <1> QED BY <1>1, <1>5, <1>6, <1>7, MostKept

LEMMA OtherWorkKeeps ==
    ASSUME WellFormed, AllKept, OpenAndClose \/ SaveUsers \/ Remember,
           UNCHANGED <<running, fds, calls, crashes>>
    PROVE  AllKept'
  <1>1. UNCHANGED <<table, used, content, uncounted, lost>>
    BY DEF OpenAndClose, SaveUsers, Remember
  <1>2. Plain(todo) /\ (Plain(todo') \/ \E i : Passing(i, todo') \/ MarkNew(i, todo'))
    BY OpenAndCloseFits, SaveUsersFits, RememberFits
  <1>3. /\ \A j : ~About(j, todo) /\ ~RemoveAndDrop(j, todo)
        /\ \A j : ~About(j, todo') /\ ~RemoveAndDrop(j, todo')
    BY <1>2, AsideNone
  <1>4. ~Mounting(todo')
    BY <1>2, Heads, StagesOfPlain
  <1> QED BY <1>1, <1>3, <1>4, NoneKept

LEMMA CloseAllKeeps ==
    ASSUME WellFormed, AllKept, CloseAll
    PROVE  AllKept'
  <1>1. UNCHANGED <<table, used, content, running, uncounted, lost>>
    BY DEF CloseAll
  <1>2. Plain(todo) /\ (Plain(todo') \/ \E i : Closing(i, todo'))
    BY CloseAllFits
  <1>3. /\ \A j : ~About(j, todo) /\ ~RemoveAndDrop(j, todo)
        /\ \A j : ~About(j, todo') /\ ~RemoveAndDrop(j, todo')
    BY <1>2, AsideNone
  <1>4. ~Mounting(todo')
    BY <1>2, Heads, StagesOfPlain
  <1> QED BY <1>1, <1>3, <1>4, NoneKept

LEMMA HaltKeeps ==
    ASSUME WellFormed, OpensRight, EndsClosed, AllKept, Halt
    PROVE  AllKept'
  <1>1. UNCHANGED <<table, used, content, uncounted, lost>> /\ todo' = << >> /\ todo # << >> /\ Head(todo).op = "halt"
    BY DEF Halt, Doing
  <1>2. Plain(todo) /\ running
    BY <1>1, Kinds, WorkRuns DEF WellFormed
  <1>3. fds = NoFds
    <2>1. Len(todo) \in Nat /\ Len(todo) # 0 /\ todo[1] = Head(todo)
      BY <1>1 DEF WellFormed, Types
    <2>2. Ending(todo)
      BY <1>1, <2>1 DEF Ending
    <2> QED BY <2>2 DEF EndsClosed
  <1>4. ASSUME NEW j \in Ino
        PROVE  table[j].opens = 0
    <2>1. Openers(j) = {}
      BY <1>3, NamespaceAssumption DEF Openers, NoFds
    <2>2. Settled(todo)
      BY <1>2, SettledRows
    <2> QED BY <1>2, <2>1, <2>2, SettledOpens, OpenersSize
  <1>5. /\ \A j : ~About(j, todo) /\ ~RemoveAndDrop(j, todo)
        /\ \A j : ~About(j, todo') /\ ~RemoveAndDrop(j, todo')
    BY <1>1, <1>2, NothingIsQuiet, AsideNone
  <1>6. Aside(None, todo) /\ Aside(None, todo') /\ None \notin Ino
    BY <1>5, NamespaceAssumption DEF Aside
  <1>7. \A j : NamedBy(j)' = NamedBy(j)
    BY <1>1, SameNames
  <1>8. \A j \in Ino : ~(table[j].opens > 0)
    BY <1>4
  <1> QED BY <1>1, <1>6, <1>7, <1>8, MostKept

LEMMA MountKeeps ==
    ASSUME WellFormed, AllKept, Mount
    PROVE  AllKept'
  <1>1. UNCHANGED <<table, used, content, uncounted, lost>> /\ ~running
    BY DEF Mount
  <1>2. Plain(todo) /\ Mounting(todo')
    BY <1>1, MountFits, NothingIsQuiet DEF WellFormed, Stages
  <1>3. Aside(None, todo) /\ Aside(None, todo') /\ None \notin Ino
    BY <1>2, AsideNone, NamespaceAssumption DEF Aside
  <1>4. \A j : NamedBy(j)' = NamedBy(j)
    BY <1>1, SameNames
  <1> QED BY <1>1, <1>3, <1>4, MostKept

\* The running call holds what it makes or frees, closes or drops.
LEMMA HeldByCall ==
    ASSUME Types, NEW i, \/ Between(i, todo) \/ DropLink(i, todo) \/ Closing(i, todo)
    PROVE  \E k \in DOMAIN todo : "ino" \in DOMAIN todo[k] /\ todo[k].ino = i
  <1>1. todo \in Seq(AnyStep) /\ DOMAIN todo = 1..Len(todo) /\ Len(todo) \in Nat
    BY DEF Types
  <1>2. CASE todo # << >> /\ "ino" \in DOMAIN Head(todo) /\ Head(todo).ino = i
    <2>1. 1 \in DOMAIN todo /\ todo[1] = Head(todo)
      BY <1>1, <1>2
    <2> QED BY <1>2, <2>1
  <1>3. CASE CountNew(i, todo)
    <2>1. todo # << >> /\ Tail(todo) # << >> /\ "ino" \in DOMAIN Head(Tail(todo)) /\ Head(Tail(todo)).ino = i
      BY <1>3 DEF CountNew, AddNew, FirstEntry, AddStep, InitStep
    <2>2. 2 \in DOMAIN todo /\ todo[2] = Head(Tail(todo))
      BY <1>1, <2>1
    <2> QED BY <2>1, <2>2
  <1>4. CASE WriteNew(i, todo) \/ WriteFreed(i, todo)
    <2>1. todo # << >> /\ "ino" \in DOMAIN Head(todo) /\ Head(todo).ino = i
      BY <1>4 DEF WriteNew, WriteFreed, WriteEntry
    <2> QED BY <1>2, <2>1
  <1>5. CASE AddNew(i, todo)
    <2>1. todo # << >> /\ "ino" \in DOMAIN Head(todo) /\ Head(todo).ino = i
      BY <1>5 DEF AddNew, FirstEntry, AddStep, InitStep
    <2> QED BY <1>2, <2>1
  <1>6. CASE FreeIt(i, todo) \/ UnmarkFreed(i, todo) \/ DropLink(i, todo) \/ Closing(i, todo)
    <2>1. todo # << >> /\ "ino" \in DOMAIN Head(todo) /\ Head(todo).ino = i
      BY <1>6 DEF FreeIt, UnmarkFreed, DropLink, Closing, Step
    <2> QED BY <1>2, <2>1
  <1> QED BY <1>3, <1>4, <1>5, <1>6 DEF Between, Making, Freeing

LEMMA CrashKeeps ==
    ASSUME WellFormed, NamesCovered, OpensRight, AllKept, Crash
    PROVE  AllKept'
  <1>1. /\ UNCHANGED <<table, used, content>> /\ todo' = << >> /\ running /\ crashes' = crashes + 1
        /\ uncounted' = uncounted \cup (IF Doing("incLink") THEN {Head(todo).ino} ELSE {})
        /\ lost' = lost \cup CutShort
    BY DEF Crash
  <1>2. WellFormed'
    BY HaltOrCrashFits
  <1>3. \A j : ~About(j, todo') /\ ~RemoveAndDrop(j, todo')
    BY <1>1, NothingIsQuiet, AsideNone
  <1>4. SUFFICES ASSUME NEW j \in Ino, j \in used, j \notin lost', j \notin uncounted', j # Root
                 PROVE  /\ Cardinality(NamedBy(j)') = IF table'[j].type = "dir" THEN 1 ELSE table'[j].links
                        /\ NamedBy(j)' # {}
    BY <1>1, <1>2, <1>3, KeptAgain DEF AllKept
  <1>5. /\ j \notin uncounted /\ ~(Doing("incLink") /\ Head(todo).ino = j)
        /\ j \notin lost /\ j \notin CutShort
    BY <1>1, <1>4
  <1>6. NamedBy(j)' = NamedBy(j)
    BY <1>1, SameNames
  <1>7. NamedBy(j) = {} => ~Between(j, todo) /\ ~Closing(j, todo) /\ Openers(j) = {}
    <2>1. ASSUME NamedBy(j) = {}, Between(j, todo) \/ Closing(j, todo)
          PROVE  j \in CutShort
      BY <1>4, <2>1, HeldByCall DEF CutShort, WellFormed
    <2>2. ASSUME NamedBy(j) = {}, Openers(j) # {}
          PROVE  j \in CutShort
      BY <1>4, <2>2 DEF CutShort, Openers
    <2> QED BY <1>5, <2>1, <2>2
  <1>8. ~Between(j, todo)
    BY <1>4, <1>5, <1>7 DEF NamesCovered, Guarded, Between
  <1>9. ~CountLink(j, todo) /\ ~DropLink(j, todo)
    <2>1. ~CountLink(j, todo)
      BY <1>5, Heads DEF Doing
    <2>2. ASSUME DropLink(j, todo)
          PROVE  j \in CutShort
      <3>1. Doing("decLink") /\ Head(todo).ino = j
        BY <2>2, Heads DEF Doing
      <3> QED BY <3>1 DEF CutShort
    <2> QED BY <1>5, <2>1, <2>2
  <1>10. Kept(j)
    BY <1>4, <1>5, <1>8 DEF AllKept, KeptOrLost
  <1>11. table[j].links \in Nat /\ table[j].opens \in Nat
    BY DEF WellFormed, Types, InodeRecord
  <1>12. Cardinality(NamedBy(j)) = IF table[j].type = "dir" THEN 1 ELSE table[j].links
    BY <1>9, <1>10, <1>11 DEF Kept, Due
  <1>13. NamedBy(j) # {}
    <2>1. SUFFICES ASSUME NamedBy(j) = {}
                   PROVE  FALSE
      OBVIOUS
    <2>2. ~Mounting(todo) /\ table[j].opens > 0
      BY <1>9, <1>10, <2>1 DEF Kept
    <2>3. ~Freeing(j, todo) /\ ~Closing(j, todo) /\ Openers(j) = {}
      BY <1>7, <2>1 DEF Between
    <2>4. table[j].opens = 0 + 0 - (IF Opening(j, todo) THEN 1 ELSE 0)
      BY <1>1, <2>2, <2>3, OpenersSize DEF OpensRight, OpensOf
    <2> QED BY <1>11, <2>2, <2>4
  <1> QED BY <1>1, <1>6, <1>12, <1>13

\* A command begins, and an inode that it concerns is still kept.
LEMMA StillKept ==
    ASSUME WellFormed, AllKept, Idle, NEW i \in Ino, UNCHANGED <<table, used, content, running, uncounted>>,
           lost \subseteq lost', ~CountLink(i, todo'), ~DropLink(i, todo'), ~Mounting(todo'),
           i \in used' \ (lost' \cup uncounted' \cup {Root})
    PROVE  Kept(i)'
  <1>1. \A j : ~About(j, todo)
    BY NothingIsQuiet, AboutNone DEF Idle
  <1>2. ~Between(i, todo) /\ ~CountLink(i, todo) /\ ~DropLink(i, todo)
    BY <1>1 DEF About, Between, Dropping
  <1>3. Kept(i)
    BY <1>2 DEF AllKept, KeptOrLost
  <1>4. Due(i)' = Due(i)
    BY <1>2 DEF Due
  <1>5. NamedBy(i)' = NamedBy(i)
    BY SameNames
  <1> QED BY <1>2, <1>3, <1>4, <1>5 DEF Kept

LEMMA CommandKeeps ==
    ASSUME WellFormed, AllKept, Idle, Command
    PROVE  AllKept'
  <1>1. UNCHANGED <<table, used, content, running, uncounted>> /\ running
    BY DEF Idle, Command, Mkdir, CreateNew, CreateExisting, Delete, Rmdir, Link, Open, Close, Write,
           ChangeUsers, Logout, Exit, Call, Run
  <1>2. \A j : ~About(j, todo) /\ ~RemoveAndDrop(j, todo)
    BY NothingIsQuiet, AsideNone DEF Idle
  <1>3. \A j : NamedBy(j)' = NamedBy(j)
    BY <1>1, SameNames
  <1>4. ASSUME lost' = lost, ~Mounting(todo'),
               Plain(todo') \/ \E i : MarkNew(i, todo') \/ Opening(i, todo') \/ Closing(i, todo')
        PROVE  AllKept'
    <2>1. \A j : ~About(j, todo') /\ ~RemoveAndDrop(j, todo')
      BY <1>4, AsideNone
    <2> QED BY <1>1, <1>2, <1>4, <2>1, NoneKept
  <1>5. CASE \E d \in Dirs, n \in Name : Mkdir(d, n) \/ CreateNew(d, n)
    <2>1. lost' = lost /\ \E i : MarkNew(i, todo')
      BY <1>5, MakeFits DEF Mkdir, CreateNew
    <2> QED BY <1>4, <2>1, Heads
  <1>6. CASE \E d \in Dirs, n \in Name : CreateExisting(d, n)
    <2>1. lost' = lost /\ Plain(todo')
      BY <1>6, CreateExistingFits DEF CreateExisting
    <2> QED BY <1>4, <2>1, StagesOfPlain
  <1>7. CASE \E i \in Reached, t \in BOOLEAN : Open(i, t)
    <2>1. lost' = lost /\ \E i : Opening(i, todo')
      BY <1>7, OpenFits DEF Open
    <2> QED BY <1>4, <2>1, Heads
  <1>8. CASE \E f \in Fd : Close(f)
    <2>1. lost' = lost /\ \E i : Closing(i, todo')
      BY <1>8, CloseFits DEF Close
    <2> QED BY <1>4, <2>1, Heads
  <1>9. CASE (\E f \in Fd, s \in Slot : Write(f, s)) \/ ChangeUsers \/ Logout \/ Exit
    <2>1. lost' = lost /\ Plain(todo')
      BY <1>9, PlainCommandFits DEF Write, ChangeUsers, Logout, Exit
    <2> QED BY <1>4, <2>1, StagesOfPlain
  <1>10. ASSUME NEW d \in Dirs, NEW n \in Name, Delete(d, n) \/ Rmdir(d, n)
         PROVE  AllKept'
    <2>0. PICK i : i = Resolve(d, n)
      OBVIOUS
    <2>1. /\ RemoveAndDrop(i, todo') /\ i \in Ino
          /\ \/ table[i].type # "dir" /\ lost' = lost /\ DropLink(i, Tail(todo'))
             \/ lost' = lost \cup {i}
      <3>1. d \in Ino /\ i # None
        BY <1>10, <2>0, DirsInUse DEF Delete, Rmdir
      <3>2. i \in Ino
        BY <2>0, <3>1, ResolveIsInode DEF WellFormed, Types
      <3> QED BY <1>10, <2>0, <3>2, RemoveAndDropFits DEF Delete, Rmdir
    <2>2. Aside(i, todo') /\ ~About(i, todo') /\ ~Mounting(todo')
      BY <2>1, AsideRemoved, Heads
    <2>3. ~CountLink(i, todo') /\ ~DropLink(i, todo') /\ ~EmptyAndDrop(i, todo')
      BY <2>2 DEF About, Dropping
    <2>4. KnownLost(i)'
      BY <1>1, <2>1, <2>3 DEF KnownLost
    <2>5. KeptOrLost(i)'
      BY <1>1, <2>1, <2>2, <2>3, <2>4, StillKept DEF KeptOrLost
    <2>6. lost \subseteq lost'
      BY <2>1
    <2> QED BY <1>1, <1>2, <1>3, <2>2, <2>5, <2>6, MostKept DEF Aside
  <1>11. ASSUME NEW i \in Reached, NEW d \in Reached, NEW n \in Name, Link(i, d, n)
         PROVE  AllKept'
    <2>1. AddLink(i, todo') /\ lost' = lost /\ i \in Ino
      BY <1>11, LinkFits, DirsInUse DEF Link
    <2>2. About(i, todo') /\ ~Mounting(todo')
      BY <2>1, Heads DEF About
    <2>3. Aside(i, todo') /\ ~RemoveAndDrop(i, todo')
      BY <2>2, AsideOne
    <2>4. ~CountLink(i, todo') /\ ~Dropping(i, todo')
      BY <2>1, <2>2, AboutOne
    <2>5. KnownLost(i)'
      BY <2>3, <2>4 DEF KnownLost, Dropping
    <2>6. KeptOrLost(i)'
      BY <1>1, <2>1, <2>2, <2>4, <2>5, StillKept DEF KeptOrLost, Dropping
    <2> QED BY <1>1, <1>2, <1>3, <2>1, <2>2, <2>3, <2>6, MostKept DEF Aside
  <1> QED BY <1>5, <1>6, <1>7, <1>8, <1>9, <1>10, <1>11 DEF Command

LEMMA WorkKeeps ==
    ASSUME WellFormed, NamesCovered, AllKept, Work
    PROVE  AllKept'
  <1>1. CASE InodeStep /\ lost' = (lost \cup FreeLoses) \cap used' /\ UNCHANGED <<store, uncounted>>
                       /\ UNCHANGED <<running, fds, calls, crashes>>
    <2>1. LostOrGone
      <3>1. used' \subseteq Ino
        BY WorkFits DEF WellFormed, Types
      <3> QED BY <1>1, <3>1 DEF LostOrGone
    <2> QED BY <1>1, <2>1, MarkKeeps, WriteTableKeeps, CountKeeps, FreeKeeps, UnmarkKeeps,
               IncLinkKeeps, DecLinkKeeps, IncOpenKeeps, DecOpenKeeps, ResetKeeps DEF InodeStep
  <1>2. CASE (\/ InitDir \/ AddEntry \/ RemoveEntry \/ Truncate \/ WriteData
              \/ OpenAndClose \/ SaveUsers \/ Remember)
               /\ UNCHANGED <<running, fds, calls, crashes>>
    BY <1>2, InitDirKeeps, AddEntryKeeps, RemoveKeeps, TruncateKeeps, WriteDataKeeps, OtherWorkKeeps
  <1> QED BY <1>1, <1>2 DEF Work

LEMMA NextKeeps ==
    ASSUME WellFormed, NamesCovered, OpensRight, EndsClosed, AllKept, [Next]_vars
    PROVE  AllKept'
  <1>1. CASE UNCHANGED vars
    <2>1. UNCHANGED <<table, used, content, uncounted, todo, running, lost>>
      BY <1>1 DEF vars, inodeVars
    <2>2. \A j : NamedBy(j)' = NamedBy(j)
      BY <2>1, SameNames
    <2> QED BY <2>1, <2>2 DEF AllKept, KeptOrLost, KnownLost, Kept, Due
  <1>2. CASE Next
    BY <1>2, CommandKeeps, WorkKeeps, CloseAllKeeps, HaltKeeps, MountKeeps, CrashKeeps DEF Next
  <1> QED BY <1>1, <1>2

LEMMA InitKept ==
    ASSUME Init
    PROVE  AllKept /\ EndsClosed
  <1>1. \A j : ~About(j, todo) /\ ~RemoveAndDrop(j, todo)
    BY NothingIsQuiet, AsideNone DEF Init
  <1>2. used = {Root}
    BY DEF Init
  <1>3. AllKept
    BY <1>1, <1>2 DEF AllKept, KeptOrLost, KnownLost, About, Dropping
  <1>4. EndsClosed
    BY DEF Init, EndsClosed
  <1> QED BY <1>3, <1>4

\* Nothing is lost but for a known cause: between calls every other inode in use is
\* named as often as its link count says, or is open without a name.
THEOREM NothingElseIsLost == Spec => []NothingLost
  <1> DEFINE I == /\ WellFormed /\ CountRight /\ StatesRight /\ NamesCovered /\ OpensRight
                  /\ EndsClosed /\ AllKept
  <1>1. Init => I
    BY InitWellFormed, InitCounts, InitNames, InitOpens, InitKept
  <1>2. I /\ [Next]_vars => I'
    BY NextWellFormed, NextKeepsCounts, NextKeepsNames, NextKeepsOpens, NextEnds, NextKeeps
  <1>3. ASSUME I
        PROVE  NothingLost
    <2>1. SUFFICES ASSUME todo = << >>, NEW i \in used \ (lost \cup uncounted \cup {Root})
                   PROVE  /\ Cardinality(NamedBy(i)) = (IF table[i].type = "dir" THEN 1 ELSE table[i].links)
                          /\ NamedBy(i) # {} \/ table[i].opens > 0
      BY DEF NothingLost
    <2>2. i \in Ino /\ table[i].links \in Nat
      BY <1>3 DEF WellFormed, Types, InodeRecord
    <2>3. \A j : ~About(j, todo)
      BY <2>1, NothingIsQuiet, AboutNone
    <2>4. ~Between(i, todo) /\ ~CountLink(i, todo) /\ ~DropLink(i, todo)
      BY <2>3 DEF About, Between, Dropping
    <2>5. Kept(i)
      BY <1>3, <2>1, <2>2, <2>4 DEF AllKept, KeptOrLost
    <2> QED BY <2>2, <2>4, <2>5 DEF Kept, Due
  <1> QED BY <1>1, <1>2, <1>3, PTL DEF Spec
=============================================================================
