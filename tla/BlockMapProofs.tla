----------------------------- MODULE BlockMapProofs -----------------------------
(***************************************************************************)
(* Proofs about BlockMap.tla without a cache: the trees of all files stay  *)
(* disjoint, and count their blocks until a call runs out of space; and    *)
(* BlockMap implements FileMap, one partial map for each file.             *)
(*                                                                         *)
(* A map is looked at through Holds, the flat function from places to      *)
(* pointers.  Each operation changes it at a few places (the lemmas on     *)
(* single trees), and what that does to all files together is said once    *)
(* for blocks joining (Joins) and once for blocks leaving (Leaves).  For   *)
(* the refinement the same lemmas say which places of data came or went    *)
(* (Adds, Drops): a logical block is what its place of data holds.         *)
(***************************************************************************)
EXTENDS BlockCheck, FunctionTheorems, FiniteSetTheorems, TLAPS

InodeMap == [direct : [0..(Direct - 1) -> Pointer], indirect1 : Pointer, indirect2 : Pointer, count : Nat]
Image == [Block -> [Slot -> Pointer]]

-----------------------------------------------------------------------------
(***************************************************************************)
(* Places                                                                  *)
(***************************************************************************)

LEMMA PlacesOfKinds ==
    /\ \A l \in 0..(Direct - 1) : <<"direct", l, 0>> \in Place
    /\ <<"indirect1", 0, 0>> \in Place /\ <<"indirect2", 0, 0>> \in Place
    /\ \A i \in Slot : <<"single", i, 0>> \in Place /\ <<"level1", i, 0>> \in Place
    /\ \A i, j \in Slot : <<"double", i, j>> \in Place
  BY DEF Place

\* The pointers of a map, kind by kind.
LEMMA HoldsAt ==
    ASSUME NEW ino \in InodeMap, NEW image \in Image
    PROVE  /\ Holds(ino, image) \in [Place -> Pointer]
           /\ \A l \in 0..(Direct - 1) : Holds(ino, image)[<<"direct", l, 0>>] = ino.direct[l]
           /\ Holds(ino, image)[<<"indirect1", 0, 0>>] = ino.indirect1
           /\ Holds(ino, image)[<<"indirect2", 0, 0>>] = ino.indirect2
           /\ \A i \in Slot :
                /\ Holds(ino, image)[<<"single", i, 0>>] = PointersIn(image, ino.indirect1)[i]
                /\ Holds(ino, image)[<<"level1", i, 0>>] = PointersIn(image, ino.indirect2)[i]
           /\ \A i, j \in Slot :
                Holds(ino, image)[<<"double", i, j>>] =
                  PointersIn(image, PointersIn(image, ino.indirect2)[i])[j]
  <1> DEFINE H == Holds(ino, image)
  <1>1. ASSUME NEW b \in Pointer PROVE PointersIn(image, b) \in [Slot -> Pointer]
    BY DEF PointersIn, Image, Pointer, NoPointers
  <1>2. ino.direct \in [0..(Direct - 1) -> Pointer] /\ ino.indirect1 \in Pointer /\ ino.indirect2 \in Pointer
    BY DEF InodeMap
  <1>3. \A l \in 0..(Direct - 1) : H[<<"direct", l, 0>>] = ino.direct[l]
    BY PlacesOfKinds DEF Holds
  <1>4. H[<<"indirect1", 0, 0>>] = ino.indirect1 /\ H[<<"indirect2", 0, 0>>] = ino.indirect2
    BY PlacesOfKinds DEF Holds
  <1>5. ASSUME NEW i \in Slot
        PROVE  /\ H[<<"single", i, 0>>] = PointersIn(image, ino.indirect1)[i]
               /\ H[<<"level1", i, 0>>] = PointersIn(image, ino.indirect2)[i]
    BY PlacesOfKinds DEF Holds
  <1>6. ASSUME NEW i \in Slot, NEW j \in Slot
        PROVE  H[<<"double", i, j>>] = PointersIn(image, PointersIn(image, ino.indirect2)[i])[j]
    BY PlacesOfKinds DEF Holds
  <1>7. H \in [Place -> {H[p] : p \in Place}]
    BY DEF Holds
  <1> HIDE DEF H
  <1>8. ASSUME NEW p \in Place PROVE H[p] \in Pointer
    <2>1. CASE \E l \in 0..(Direct - 1) : p = <<"direct", l, 0>>
      BY <2>1, <1>2, <1>3
    <2>2. CASE p = <<"indirect1", 0, 0>> \/ p = <<"indirect2", 0, 0>>
      BY <2>2, <1>2, <1>4
    <2>3. CASE \E i \in Slot : p = <<"single", i, 0>> \/ p = <<"level1", i, 0>>
      BY <2>3, <1>1, <1>2, <1>5
    <2>4. CASE \E i, j \in Slot : p = <<"double", i, j>>
      BY <2>4, <1>1, <1>2, <1>6
    <2> QED BY <2>1, <2>2, <2>3, <2>4 DEF Place
  <1>9. H \in [Place -> Pointer]
    BY <1>7, <1>8
  <1> QED BY <1>3, <1>4, <1>5, <1>6, <1>9 DEF H

LEMMA HoldsDirect ==
    ASSUME NEW ino \in InodeMap, NEW image \in Image, NEW l \in 0..(Direct - 1)
    PROVE  Holds(ino, image)[<<"direct", l, 0>>] = ino.direct[l]
  BY HoldsAt

LEMMA HoldsSingle ==
    ASSUME NEW ino \in InodeMap, NEW image \in Image, NEW i \in Slot
    PROVE  Holds(ino, image)[<<"single", i, 0>>] = PointersIn(image, ino.indirect1)[i]
  BY HoldsAt

LEMMA HoldsLevel1 ==
    ASSUME NEW ino \in InodeMap, NEW image \in Image, NEW i \in Slot
    PROVE  Holds(ino, image)[<<"level1", i, 0>>] = PointersIn(image, ino.indirect2)[i]
  BY HoldsAt

LEMMA HoldsDouble ==
    ASSUME NEW ino \in InodeMap, NEW image \in Image, NEW i \in Slot, NEW j \in Slot
    PROVE  Holds(ino, image)[<<"double", i, j>>] =
             PointersIn(image, PointersIn(image, ino.indirect2)[i])[j]
  BY HoldsAt

\* Two flat maps are equal if they are equal kind by kind.
LEMMA EqualByKind ==
    ASSUME NEW h \in [Place -> Pointer], NEW k \in [Place -> Pointer],
           \A l \in 0..(Direct - 1) : h[<<"direct", l, 0>>] = k[<<"direct", l, 0>>],
           h[<<"indirect1", 0, 0>>] = k[<<"indirect1", 0, 0>>],
           h[<<"indirect2", 0, 0>>] = k[<<"indirect2", 0, 0>>],
           \A i \in Slot : h[<<"single", i, 0>>] = k[<<"single", i, 0>>],
           \A i \in Slot : h[<<"level1", i, 0>>] = k[<<"level1", i, 0>>],
           \A i, j \in Slot : h[<<"double", i, j>>] = k[<<"double", i, j>>]
    PROVE  h = k
  <1>1. ASSUME NEW p \in Place PROVE h[p] = k[p]
    BY DEF Place
  <1> QED BY <1>1

-----------------------------------------------------------------------------
(***************************************************************************)
(* One tree                                                                *)
(***************************************************************************)

\* No block is in two places of a flat map.
Alone(h) == \A p, q \in Place : h[p] = h[q] /\ h[p] # Null => p = q

\* A map that is the same as another but at one place.
LEMMA DiffersAt ==
    ASSUME NEW ino \in InodeMap, NEW image \in Image, NEW new \in InodeMap, NEW other \in Image,
           NEW pl \in Place, NEW b \in Pointer,
           Holds(new, other)[pl] = b,
           \A l \in 0..(Direct - 1) : <<"direct", l, 0>> # pl => new.direct[l] = ino.direct[l],
           <<"indirect1", 0, 0>> # pl => new.indirect1 = ino.indirect1,
           <<"indirect2", 0, 0>> # pl => new.indirect2 = ino.indirect2,
           \A i \in Slot : <<"single", i, 0>> # pl =>
             PointersIn(other, new.indirect1)[i] = PointersIn(image, ino.indirect1)[i],
           \A i \in Slot : <<"level1", i, 0>> # pl =>
             PointersIn(other, new.indirect2)[i] = PointersIn(image, ino.indirect2)[i],
           \A i, j \in Slot : <<"double", i, j>> # pl =>
             PointersIn(other, PointersIn(other, new.indirect2)[i])[j]
               = PointersIn(image, PointersIn(image, ino.indirect2)[i])[j]
    PROVE  Holds(new, other) = [Holds(ino, image) EXCEPT ![pl] = b]
  <1> DEFINE H == Holds(ino, image)
             K == Holds(new, other)
  <1>1. H \in [Place -> Pointer] /\ K \in [Place -> Pointer]
    BY HoldsAt
  <1>2. ASSUME NEW l \in 0..(Direct - 1), <<"direct", l, 0>> # pl
        PROVE  K[<<"direct", l, 0>>] = H[<<"direct", l, 0>>]
    BY <1>2, HoldsDirect
  <1>3. <<"indirect1", 0, 0>> # pl => K[<<"indirect1", 0, 0>>] = H[<<"indirect1", 0, 0>>]
    BY HoldsAt
  <1>4. <<"indirect2", 0, 0>> # pl => K[<<"indirect2", 0, 0>>] = H[<<"indirect2", 0, 0>>]
    BY HoldsAt
  <1>5. ASSUME NEW i \in Slot, <<"single", i, 0>> # pl
        PROVE  K[<<"single", i, 0>>] = H[<<"single", i, 0>>]
    BY <1>5, HoldsSingle
  <1>6. ASSUME NEW i \in Slot, <<"level1", i, 0>> # pl
        PROVE  K[<<"level1", i, 0>>] = H[<<"level1", i, 0>>]
    BY <1>6, HoldsLevel1
  <1>7. ASSUME NEW i \in Slot, NEW j \in Slot, <<"double", i, j>> # pl
        PROVE  K[<<"double", i, j>>] = H[<<"double", i, j>>]
    <2>1. K[<<"double", i, j>>] = PointersIn(other, PointersIn(other, new.indirect2)[i])[j]
      BY HoldsDouble
    <2>2. H[<<"double", i, j>>] = PointersIn(image, PointersIn(image, ino.indirect2)[i])[j]
      BY HoldsDouble
    <2> QED BY <1>7, <2>1, <2>2
  <1>8. K[pl] = b
    OBVIOUS
  <1> HIDE DEF H, K
  <1>9. ASSUME NEW p \in Place, p # pl PROVE K[p] = H[p]
    BY <1>2, <1>3, <1>4, <1>5, <1>6, <1>7, <1>9 DEF Place
  <1>10. K = [H EXCEPT ![pl] = b]
    BY <1>1, <1>8, <1>9
  <1> QED BY <1>10 DEF H, K

\* A map does not change with the contents of blocks it does not hold.
LEMMA Untouched ==
    ASSUME NEW ino \in InodeMap, NEW image \in Image, NEW other \in Image,
           \A b \in Block : (\E p \in Place : Holds(ino, image)[p] = b) => other[b] = image[b]
    PROVE  Holds(ino, other) = Holds(ino, image)
  <1>1. PointersIn(other, ino.indirect1) = PointersIn(image, ino.indirect1)
    <2>1. Holds(ino, image)[<<"indirect1", 0, 0>>] = ino.indirect1 /\ ino.indirect1 \in Pointer
      BY HoldsAt DEF InodeMap
    <2> QED BY <2>1, PlacesOfKinds DEF PointersIn, Pointer
  <1>2. PointersIn(other, ino.indirect2) = PointersIn(image, ino.indirect2)
    <2>1. Holds(ino, image)[<<"indirect2", 0, 0>>] = ino.indirect2 /\ ino.indirect2 \in Pointer
      BY HoldsAt DEF InodeMap
    <2> QED BY <2>1, PlacesOfKinds DEF PointersIn, Pointer
  <1>3. ASSUME NEW i \in Slot
        PROVE  LET q == PointersIn(image, ino.indirect2)[i]
               IN  PointersIn(other, q) = PointersIn(image, q)
    <2> DEFINE q == PointersIn(image, ino.indirect2)[i]
    <2>1. Holds(ino, image)[<<"level1", i, 0>>] = q /\ <<"level1", i, 0>> \in Place
      BY HoldsAt, PlacesOfKinds
    <2>2. q \in Pointer
      BY <2>1, HoldsAt
    <2> HIDE DEF q
    <2> QED BY <2>1, <2>2 DEF PointersIn, Pointer, q
  <1> DEFINE H == Holds(ino, image)
             K == Holds(ino, other)
  <1>4. H \in [Place -> Pointer] /\ K \in [Place -> Pointer]
    BY HoldsAt
  <1>5. /\ \A l \in 0..(Direct - 1) : H[<<"direct", l, 0>>] = K[<<"direct", l, 0>>]
        /\ H[<<"indirect1", 0, 0>>] = K[<<"indirect1", 0, 0>>]
        /\ H[<<"indirect2", 0, 0>>] = K[<<"indirect2", 0, 0>>]
    BY HoldsAt
  <1>6. \A i \in Slot : H[<<"single", i, 0>>] = K[<<"single", i, 0>>]
    <2> TAKE i \in Slot
    <2>1. H[<<"single", i, 0>>] = PointersIn(image, ino.indirect1)[i]
      BY HoldsSingle
    <2>2. K[<<"single", i, 0>>] = PointersIn(other, ino.indirect1)[i]
      BY HoldsSingle
    <2> QED BY <1>1, <2>1, <2>2
  <1>7. \A i \in Slot : H[<<"level1", i, 0>>] = K[<<"level1", i, 0>>]
    <2> TAKE i \in Slot
    <2>1. H[<<"level1", i, 0>>] = PointersIn(image, ino.indirect2)[i]
      BY HoldsLevel1
    <2>2. K[<<"level1", i, 0>>] = PointersIn(other, ino.indirect2)[i]
      BY HoldsLevel1
    <2> QED BY <1>2, <2>1, <2>2
  <1>8. \A i, j \in Slot : H[<<"double", i, j>>] = K[<<"double", i, j>>]
    <2> TAKE i, j \in Slot
    <2>1. H[<<"double", i, j>>] = PointersIn(image, PointersIn(image, ino.indirect2)[i])[j]
      BY HoldsDouble
    <2>2. K[<<"double", i, j>>] = PointersIn(other, PointersIn(other, ino.indirect2)[i])[j]
      BY HoldsDouble
    <2> QED BY <1>2, <1>3, <2>1, <2>2
  <1> HIDE DEF H, K
  <1>9. H = K
    BY <1>4, <1>5, <1>6, <1>7, <1>8, EqualByKind
  <1> QED BY <1>9 DEF H, K

\* The pointers a map starts from have their type.
LEMMA RootsInPlace ==
    ASSUME NEW ino \in InodeMap, NEW image \in Image
    PROVE  /\ ino.indirect1 \in Pointer /\ ino.indirect2 \in Pointer
           /\ \A i \in Slot : PointersIn(image, ino.indirect2)[i] \in Pointer
           /\ ino.direct \in [0..(Direct - 1) -> Pointer]
  BY DEF InodeMap, PointersIn, Image, NoPointers, Pointer

\* The maps and images after one change.
WithCount(ino, n) == [ino EXCEPT !.count = n]
SetDirectOf(ino, l, b) == [ino EXCEPT !.direct[l] = b]
SetIndirect1Of(ino, b) == [ino EXCEPT !.indirect1 = b]
SetIndirect2Of(ino, b) == [ino EXCEPT !.indirect2 = b]
WithDirect(ino, l, b, n) == WithCount(SetDirectOf(ino, l, b), n)
WithIndirect1(ino, b, n) == WithCount(SetIndirect1Of(ino, b), n)
WithIndirect2(ino, b, n) == WithCount(SetIndirect2Of(ino, b), n)
Patched(image, p, i, b) == [image EXCEPT ![p] = [image[p] EXCEPT ![i] = b]]

LEMMA WithCountFields ==
    ASSUME NEW ino \in InodeMap, NEW n \in Nat
    PROVE  /\ WithCount(ino, n) \in InodeMap
           /\ WithCount(ino, n).direct = ino.direct
           /\ WithCount(ino, n).indirect1 = ino.indirect1
           /\ WithCount(ino, n).indirect2 = ino.indirect2
           /\ WithCount(ino, n).count = n
           /\ \A k \in Nat : WithCount(WithCount(ino, n), k) = WithCount(ino, k)
  <1>1. \A k \in Nat : WithCount(WithCount(ino, n), k) = WithCount(ino, k)
    BY DEF InodeMap, WithCount
  <1> QED BY <1>1 DEF InodeMap, WithCount

\* A direct pointer changes.
LEMMA SetDirect ==
    ASSUME NEW ino \in InodeMap, NEW image \in Image, NEW l \in 0..(Direct - 1),
           NEW b \in Pointer, NEW n \in Nat
    PROVE  /\ WithDirect(ino, l, b, n) \in InodeMap
           /\ Holds(WithDirect(ino, l, b, n), image) = [Holds(ino, image) EXCEPT ![<<"direct", l, 0>>] = b]
  <1> DEFINE new == WithDirect(ino, l, b, n)
  <1>1. /\ new \in InodeMap
        /\ new.indirect1 = ino.indirect1 /\ new.indirect2 = ino.indirect2
        /\ new.direct = [ino.direct EXCEPT ![l] = b]
    <2> DEFINE a == SetDirectOf(ino, l, b)
    <2>1. a \in InodeMap /\ a.direct = [ino.direct EXCEPT ![l] = b] /\ a.indirect1 = ino.indirect1 /\ a.indirect2 = ino.indirect2
      BY DEF InodeMap, SetDirectOf, SetIndirect1Of, SetIndirect2Of
    <2> HIDE DEF a
    <2>2. /\ WithCount(a, n) \in InodeMap /\ WithCount(a, n).direct = a.direct
          /\ WithCount(a, n).indirect1 = a.indirect1 /\ WithCount(a, n).indirect2 = a.indirect2
      BY <2>1, WithCountFields
    <2> QED BY <2>1, <2>2 DEF WithDirect, a
  <1> HIDE DEF new
  <1> DEFINE pl == <<"direct", l, 0>>
  <1>2. pl \in Place
    BY PlacesOfKinds
  <1>3. \A m \in 0..(Direct - 1) : <<"direct", m, 0>> # pl => new.direct[m] = ino.direct[m]
    BY <1>1, RootsInPlace
  <1>4. Holds(new, image)[pl] = b
    BY <1>1, HoldsDirect, RootsInPlace
  <1> HIDE DEF pl
  <1>5. Holds(new, image) = [Holds(ino, image) EXCEPT ![pl] = b]
    <2>1. new \in InodeMap /\ new.indirect1 = ino.indirect1 /\ new.indirect2 = ino.indirect2
      BY <1>1
    <2> QED BY <1>2, <1>3, <1>4, <2>1, DiffersAt
  <1> QED BY <1>1, <1>5 DEF new, pl

\* The single indirect pointer changes to a block with the same pointers, or comes
\* to be or is given up while there are none.
LEMMA SetIndirect1 ==
    ASSUME NEW ino \in InodeMap, NEW image \in Image, NEW b \in Pointer, NEW n \in Nat,
           PointersIn(image, b) = PointersIn(image, ino.indirect1)
    PROVE  /\ WithIndirect1(ino, b, n) \in InodeMap
           /\ Holds(WithIndirect1(ino, b, n), image) = [Holds(ino, image) EXCEPT ![<<"indirect1", 0, 0>>] = b]
  <1> DEFINE new == WithIndirect1(ino, b, n)
  <1>1. /\ new \in InodeMap
        /\ new.indirect1 = b /\ new.indirect2 = ino.indirect2
        /\ new.direct = ino.direct
    <2> DEFINE a == SetIndirect1Of(ino, b)
    <2>1. a \in InodeMap /\ a.direct = ino.direct /\ a.indirect1 = b /\ a.indirect2 = ino.indirect2
      BY DEF InodeMap, SetDirectOf, SetIndirect1Of, SetIndirect2Of
    <2> HIDE DEF a
    <2>2. /\ WithCount(a, n) \in InodeMap /\ WithCount(a, n).direct = a.direct
          /\ WithCount(a, n).indirect1 = a.indirect1 /\ WithCount(a, n).indirect2 = a.indirect2
      BY <2>1, WithCountFields
    <2> QED BY <2>1, <2>2 DEF WithIndirect1, a
  <1> HIDE DEF new
  <1>2. Holds(new, image)[<<"indirect1", 0, 0>>] = b
    BY <1>1, HoldsAt
  <1>3. Holds(new, image) = [Holds(ino, image) EXCEPT ![<<"indirect1", 0, 0>>] = b]
    BY <1>1, <1>2, DiffersAt, PlacesOfKinds
  <1> QED BY <1>1, <1>3 DEF new

\* The same for the double indirect pointer.
LEMMA SetIndirect2 ==
    ASSUME NEW ino \in InodeMap, NEW image \in Image, NEW b \in Pointer, NEW n \in Nat,
           PointersIn(image, b) = PointersIn(image, ino.indirect2)
    PROVE  /\ WithIndirect2(ino, b, n) \in InodeMap
           /\ Holds(WithIndirect2(ino, b, n), image) = [Holds(ino, image) EXCEPT ![<<"indirect2", 0, 0>>] = b]
  <1> DEFINE new == WithIndirect2(ino, b, n)
  <1>1. /\ new \in InodeMap
        /\ new.indirect2 = b /\ new.indirect1 = ino.indirect1
        /\ new.direct = ino.direct
    <2> DEFINE a == SetIndirect2Of(ino, b)
    <2>1. a \in InodeMap /\ a.direct = ino.direct /\ a.indirect1 = ino.indirect1 /\ a.indirect2 = b
      BY DEF InodeMap, SetDirectOf, SetIndirect1Of, SetIndirect2Of
    <2> HIDE DEF a
    <2>2. /\ WithCount(a, n) \in InodeMap /\ WithCount(a, n).direct = a.direct
          /\ WithCount(a, n).indirect1 = a.indirect1 /\ WithCount(a, n).indirect2 = a.indirect2
      BY <2>1, WithCountFields
    <2> QED BY <2>1, <2>2 DEF WithIndirect2, a
  <1> HIDE DEF new
  <1>2. Holds(new, image)[<<"indirect2", 0, 0>>] = b
    BY <1>1, HoldsAt
  <1>3. Holds(new, image) = [Holds(ino, image) EXCEPT ![<<"indirect2", 0, 0>>] = b]
    BY <1>1, <1>2, DiffersAt, PlacesOfKinds
  <1> QED BY <1>1, <1>3 DEF new

\* Whatever is written into a block p that a map holds at the place pl only, the other
\* pointer blocks of the map read the same.
LEMMA OtherBlocks ==
    ASSUME NEW ino \in InodeMap, NEW image \in Image, Alone(Holds(ino, image)),
           NEW p \in Block, NEW pl \in Place, Holds(ino, image)[pl] = p,
           NEW other \in Image, \A c \in Block \ {p} : other[c] = image[c]
    PROVE  /\ pl # <<"indirect1", 0, 0>> =>
                PointersIn(other, ino.indirect1) = PointersIn(image, ino.indirect1)
           /\ pl # <<"indirect2", 0, 0>> =>
                PointersIn(other, ino.indirect2) = PointersIn(image, ino.indirect2)
           /\ \A i \in Slot : pl # <<"level1", i, 0>> =>
                LET q == PointersIn(image, ino.indirect2)[i]
                IN  PointersIn(other, q) = PointersIn(image, q)
  <1> DEFINE H == Holds(ino, image)
  <1>1. \A q \in Place : q # pl => H[q] # p
    BY BlockMapAssumption DEF Alone
  <1>2. ASSUME NEW c \in Pointer, c # p PROVE PointersIn(other, c) = PointersIn(image, c)
    BY <1>2 DEF PointersIn, Pointer
  <1>3. H[<<"indirect1", 0, 0>>] = ino.indirect1 /\ H[<<"indirect2", 0, 0>>] = ino.indirect2
    BY HoldsAt
  <1> HIDE DEF H
  <1>4. pl # <<"indirect1", 0, 0>> =>
          PointersIn(other, ino.indirect1) = PointersIn(image, ino.indirect1)
    BY <1>1, <1>2, <1>3, RootsInPlace, PlacesOfKinds
  <1>5. pl # <<"indirect2", 0, 0>> =>
          PointersIn(other, ino.indirect2) = PointersIn(image, ino.indirect2)
    BY <1>1, <1>2, <1>3, RootsInPlace, PlacesOfKinds
  <1>6. ASSUME NEW i \in Slot, pl # <<"level1", i, 0>>
        PROVE  LET q == PointersIn(image, ino.indirect2)[i]
               IN  PointersIn(other, q) = PointersIn(image, q)
    <2> DEFINE q == PointersIn(image, ino.indirect2)[i]
    <2>1. H[<<"level1", i, 0>>] = q
      BY HoldsLevel1 DEF H
    <2>2. q \in Pointer
      BY RootsInPlace
    <2> HIDE DEF q
    <2>3. q # p
      BY <1>1, <1>6, <2>1, PlacesOfKinds
    <2> QED BY <1>2, <2>2, <2>3 DEF q
  <1> QED BY <1>4, <1>5, <1>6

\* A slot of the single indirect block changes.
LEMMA SetSingle ==
    ASSUME NEW ino \in InodeMap, NEW image \in Image, Alone(Holds(ino, image)),
           NEW p \in Block, p = ino.indirect1, NEW i \in Slot, NEW b \in Pointer
    PROVE  /\ Patched(image, p, i, b) \in Image
           /\ Holds(ino, Patched(image, p, i, b)) = [Holds(ino, image) EXCEPT ![<<"single", i, 0>>] = b]
  <1> DEFINE other == Patched(image, p, i, b)
             H == Holds(ino, image)
  <1>1. /\ other \in Image
        /\ \A c \in Block \ {p} : other[c] = image[c]
        /\ other[p] = [image[p] EXCEPT ![i] = b]
        /\ image[p] \in [Slot -> Pointer]
    BY DEF Image, Patched
  <1> HIDE DEF other
  <1>2. p # Null /\ Holds(ino, image)[<<"indirect1", 0, 0>>] = p
    BY HoldsAt, BlockMapAssumption
  <1>3. PointersIn(image, ino.indirect1) = image[p] /\ PointersIn(other, ino.indirect1) = [image[p] EXCEPT ![i] = b]
    BY <1>1, <1>2 DEF PointersIn
  <1>4. /\ PointersIn(other, ino.indirect2) = PointersIn(image, ino.indirect2)
        /\ \A j \in Slot : LET q == PointersIn(image, ino.indirect2)[j]
                           IN  PointersIn(other, q) = PointersIn(image, q)
    <2>1. <<"indirect1", 0, 0>> \in Place
      BY PlacesOfKinds
    <2> QED BY <1>1, <1>2, <2>1, OtherBlocks
  <1>5. Holds(ino, other)[<<"single", i, 0>>] = b
    BY <1>1, <1>3, HoldsSingle
  <1>6. \A j \in Slot : <<"single", j, 0>> # <<"single", i, 0>> =>
          PointersIn(other, ino.indirect1)[j] = PointersIn(image, ino.indirect1)[j]
    BY <1>1, <1>3
  <1>7. Holds(ino, other) = [Holds(ino, image) EXCEPT ![<<"single", i, 0>>] = b]
    <2>1. <<"single", i, 0>> \in Place
      BY PlacesOfKinds
    <2> QED BY <1>1, <1>4, <1>5, <1>6, <2>1, DiffersAt
  <1> QED BY <1>1, <1>7 DEF other

\* A slot of the double indirect block changes to a block with the same pointers.
LEMMA SetLevel1 ==
    ASSUME NEW ino \in InodeMap, NEW image \in Image, Alone(Holds(ino, image)),
           NEW p \in Block, p = ino.indirect2, NEW i \in Slot, NEW b \in Pointer, b # p,
           PointersIn(image, b) = PointersIn(image, image[p][i])
    PROVE  /\ Patched(image, p, i, b) \in Image
           /\ Holds(ino, Patched(image, p, i, b)) = [Holds(ino, image) EXCEPT ![<<"level1", i, 0>>] = b]
  <1> DEFINE other == Patched(image, p, i, b)
  <1>1. /\ other \in Image
        /\ \A c \in Block \ {p} : other[c] = image[c]
        /\ other[p] = [image[p] EXCEPT ![i] = b]
        /\ image[p] \in [Slot -> Pointer]
    BY DEF Image, Patched
  <1> HIDE DEF other
  <1>2. p # Null /\ Holds(ino, image)[<<"indirect2", 0, 0>>] = p
    BY HoldsAt, BlockMapAssumption
  <1>3. PointersIn(image, ino.indirect2) = image[p] /\ PointersIn(other, ino.indirect2) = [image[p] EXCEPT ![i] = b]
    BY <1>1, <1>2 DEF PointersIn
  <1>4. /\ PointersIn(other, ino.indirect1) = PointersIn(image, ino.indirect1)
        /\ \A j \in Slot : LET q == PointersIn(image, ino.indirect2)[j]
                           IN  PointersIn(other, q) = PointersIn(image, q)
    <2>1. <<"indirect2", 0, 0>> \in Place
      BY PlacesOfKinds
    <2> QED BY <1>1, <1>2, <2>1, OtherBlocks
  <1>5. PointersIn(other, b) = PointersIn(image, b)
    BY <1>1 DEF PointersIn, Pointer
  <1>6. ASSUME NEW j \in Slot
        PROVE  PointersIn(other, PointersIn(other, ino.indirect2)[j])
                 = PointersIn(image, PointersIn(image, ino.indirect2)[j])
    <2>1. CASE j = i
      BY <1>1, <1>3, <1>5, <2>1
    <2>2. CASE j # i
      BY <1>1, <1>3, <1>4, <2>2
    <2> QED BY <2>1, <2>2
  <1>7. Holds(ino, other)[<<"level1", i, 0>>] = b
    BY <1>1, <1>3, HoldsLevel1
  <1>8. \A j \in Slot : <<"level1", j, 0>> # <<"level1", i, 0>> =>
          PointersIn(other, ino.indirect2)[j] = PointersIn(image, ino.indirect2)[j]
    BY <1>1, <1>3
  <1>9. Holds(ino, other) = [Holds(ino, image) EXCEPT ![<<"level1", i, 0>>] = b]
    <2>1. <<"level1", i, 0>> \in Place
      BY PlacesOfKinds
    <2> QED BY <1>1, <1>4, <1>6, <1>7, <1>8, <2>1, DiffersAt
  <1> QED BY <1>1, <1>9 DEF other

\* A slot of a level 1 block changes.
LEMMA SetDouble ==
    ASSUME NEW ino \in InodeMap, NEW image \in Image, Alone(Holds(ino, image)),
           NEW p \in Block, p = ino.indirect2, NEW i \in Slot, NEW q \in Block, q = image[p][i],
           NEW j \in Slot, NEW b \in Pointer
    PROVE  /\ Patched(image, q, j, b) \in Image
           /\ Holds(ino, Patched(image, q, j, b)) = [Holds(ino, image) EXCEPT ![<<"double", i, j>>] = b]
  <1> DEFINE other == Patched(image, q, j, b)
  <1>1. /\ other \in Image
        /\ \A c \in Block \ {q} : other[c] = image[c]
        /\ other[q] = [image[q] EXCEPT ![j] = b]
        /\ image[q] \in [Slot -> Pointer]
    BY DEF Image, Patched
  <1> HIDE DEF other
  <1>2. p # Null /\ q # Null /\ PointersIn(image, ino.indirect2) = image[p]
    BY BlockMapAssumption DEF PointersIn
  <1>3. Holds(ino, image)[<<"level1", i, 0>>] = q
    BY <1>2, HoldsLevel1
  <1>4. /\ PointersIn(other, ino.indirect1) = PointersIn(image, ino.indirect1)
        /\ PointersIn(other, ino.indirect2) = PointersIn(image, ino.indirect2)
        /\ \A m \in Slot \ {i} : PointersIn(other, image[p][m]) = PointersIn(image, image[p][m])
    <2>1. <<"level1", i, 0>> \in Place
      BY PlacesOfKinds
    <2>2. \A m \in Slot \ {i} : <<"level1", i, 0>> # <<"level1", m, 0>>
      OBVIOUS
    <2> QED BY <1>1, <1>2, <1>3, <2>1, <2>2, OtherBlocks
  <1>5. PointersIn(other, q) = [image[q] EXCEPT ![j] = b] /\ PointersIn(image, q) = image[q]
    BY <1>1, <1>2 DEF PointersIn
  <1>6. ASSUME NEW m \in Slot, NEW k \in Slot, <<"double", m, k>> # <<"double", i, j>>
        PROVE  PointersIn(other, PointersIn(other, ino.indirect2)[m])[k]
                 = PointersIn(image, PointersIn(image, ino.indirect2)[m])[k]
    <2>1. CASE m = i
      <3>1. k # j
        BY <1>6, <2>1
      <3> QED BY <1>1, <1>2, <1>4, <1>5, <2>1, <3>1
    <2>2. CASE m # i
      BY <1>2, <1>4, <2>2
    <2> QED BY <2>1, <2>2
  <1>7. Holds(ino, other)[<<"double", i, j>>] = b
    <2>1. Holds(ino, other)[<<"double", i, j>>] = PointersIn(other, PointersIn(other, ino.indirect2)[i])[j]
      BY <1>1, HoldsDouble
    <2> QED BY <1>1, <1>2, <1>4, <1>5, <2>1
  <1>8. Holds(ino, other) = [Holds(ino, image) EXCEPT ![<<"double", i, j>>] = b]
    <2>1. <<"double", i, j>> \in Place
      BY PlacesOfKinds
    <2> QED BY <1>1, <1>4, <1>6, <1>7, <2>1, DiffersAt
  <1> QED BY <1>1, <1>8 DEF other

-----------------------------------------------------------------------------
(***************************************************************************)
(* All trees                                                               *)
(***************************************************************************)

\* What all files hold, when m are their maps and image the blocks.
AllHeld(m, image) == [f \in File |-> Holds(m[f], image)]
InUse(h) == {h[p] : p \in Place} \ {Null}

\* No block is in two places, or in a place and in F.
Sound(h, F) ==
    /\ h \in [File -> [Place -> Pointer]]
    /\ F \subseteq Block
    /\ \A f, g \in File : \A p, q \in Place : h[f][p] = h[g][q] /\ h[f][p] # Null => f = g /\ p = q
    /\ \A f \in File : \A p \in Place : h[f][p] \notin F

\* Every block is in a place or in F.
Covers(h, F) == \A b \in Block : b \in F \/ \E f \in File : \E p \in Place : h[f][p] = b

LEMMA InUseFinite ==
    ASSUME NEW h \in [Place -> Pointer]
    PROVE  /\ InUse(h) \subseteq Block /\ IsFiniteSet(InUse(h))
           /\ Cardinality(InUse(h)) \in Nat /\ Cardinality(InUse(h)) <= Cardinality(Block)
  <1>1. InUse(h) \subseteq Block
    BY DEF InUse, Pointer
  <1>2. IsFiniteSet(Block)
    BY BlockMapAssumption
  <1> QED BY <1>1, <1>2, FS_Subset, FS_CardinalityType

\* A block of F joins a map at a place that was empty.
LEMMA Joins ==
    ASSUME NEW h, NEW F, Sound(h, F), NEW f \in File, NEW p \in Place, h[f][p] = Null,
           NEW b \in F
    PROVE  LET k == [h EXCEPT ![f] = [h[f] EXCEPT ![p] = b]]
           IN  /\ Sound(k, F \ {b})
               /\ Covers(h, F) => Covers(k, F \ {b})
               /\ Cardinality(InUse(k[f])) = Cardinality(InUse(h[f])) + 1
  <1> DEFINE k == [h EXCEPT ![f] = [h[f] EXCEPT ![p] = b]]
  <1>1. /\ h \in [File -> [Place -> Pointer]] /\ F \subseteq Block
        /\ b \in Block /\ b # Null
    BY BlockMapAssumption DEF Sound
  <1>2. /\ k \in [File -> [Place -> Pointer]]
        /\ k[f][p] = b
        /\ \A q \in Place : q # p => k[f][q] = h[f][q]
        /\ \A g \in File : g # f => k[g] = h[g]
    BY <1>1 DEF Pointer
  <1> HIDE DEF k
  <1>3. \A g \in File : \A q \in Place : h[g][q] # b
    BY DEF Sound
  <1>4. \A g \in File : \A q \in Place : k[g][q] = b => g = f /\ q = p
    BY <1>2, <1>3
  <1>5. \A g \in File : \A q \in Place : k[g][q] # b => k[g][q] = h[g][q]
    BY <1>2
  <1>6. Sound(k, F \ {b})
    <2>1. ASSUME NEW g1 \in File, NEW g2 \in File, NEW q1 \in Place, NEW q2 \in Place,
                 k[g1][q1] = k[g2][q2], k[g1][q1] # Null
          PROVE  g1 = g2 /\ q1 = q2
      <3>1. CASE k[g1][q1] = b
        <4>1. g1 = f /\ q1 = p
          BY <1>4, <3>1
        <4>2. g2 = f /\ q2 = p
          BY <1>4, <2>1, <3>1
        <4> QED BY <4>1, <4>2
      <3>2. CASE k[g1][q1] # b
        BY <1>5, <2>1, <3>2 DEF Sound
      <3> QED BY <3>1, <3>2
    <2>2. ASSUME NEW g \in File, NEW q \in Place PROVE k[g][q] \notin F \ {b}
      BY <1>5 DEF Sound
    <2> QED BY <1>1, <1>2, <2>1, <2>2 DEF Sound
  <1>7. ASSUME Covers(h, F) PROVE Covers(k, F \ {b})
    <2> SUFFICES ASSUME NEW c \in Block, c \notin F \ {b}
                 PROVE  \E g \in File : \E q \in Place : k[g][q] = c
      BY DEF Covers
    <2>1. CASE c = b
      BY <1>2, <2>1
    <2>2. CASE c # b
      <3>1. PICK g \in File, q \in Place : h[g][q] = c
        BY <1>7, <2>2 DEF Covers
      <3>2. g # f \/ q # p
        BY <1>1, <3>1, BlockMapAssumption
      <3> QED BY <1>2, <3>1, <3>2
    <2> QED BY <2>1, <2>2
  <1>8. InUse(k[f]) = InUse(h[f]) \cup {b}
    <2>1. ASSUME NEW x \in InUse(k[f]) PROVE x \in InUse(h[f]) \cup {b}
      BY <1>2 DEF InUse
    <2>2. ASSUME NEW x \in InUse(h[f]) PROVE x \in InUse(k[f])
      <3>1. PICK q \in Place : h[f][q] = x /\ x # Null
        BY DEF InUse
      <3> QED BY <1>2, <3>1 DEF InUse
    <2>3. b \in InUse(k[f])
      BY <1>1, <1>2 DEF InUse
    <2> QED BY <2>1, <2>2, <2>3
  <1>9. b \notin InUse(h[f]) /\ IsFiniteSet(InUse(h[f]))
    BY <1>1, <1>3, InUseFinite DEF InUse
  <1> QED BY <1>6, <1>7, <1>8, <1>9, FS_AddElement DEF k

\* The block of a place leaves its map.
LEMMA Leaves ==
    ASSUME NEW h, NEW F, Sound(h, F), NEW f \in File, NEW p \in Place, h[f][p] # Null
    PROVE  LET k == [h EXCEPT ![f] = [h[f] EXCEPT ![p] = Null]]
           IN  /\ Sound(k, F \cup {h[f][p]})
               /\ Covers(h, F) => Covers(k, F \cup {h[f][p]})
               /\ Cardinality(InUse(k[f])) = Cardinality(InUse(h[f])) - 1
  <1> DEFINE b == h[f][p]
             k == [h EXCEPT ![f] = [h[f] EXCEPT ![p] = Null]]
  <1>1. /\ h \in [File -> [Place -> Pointer]] /\ F \subseteq Block
        /\ b \in Block
    BY DEF Sound, Pointer
  <1>2. /\ k \in [File -> [Place -> Pointer]]
        /\ k[f][p] = Null
        /\ \A q \in Place : q # p => k[f][q] = h[f][q]
        /\ \A g \in File : g # f => k[g] = h[g]
    BY <1>1 DEF Pointer
  <1> HIDE DEF k
  <1>3. \A g \in File : \A q \in Place : h[g][q] = b => g = f /\ q = p
    BY DEF Sound
  <1>4. \A g \in File : \A q \in Place : k[g][q] # Null => k[g][q] = h[g][q] /\ k[g][q] # b
    BY <1>2, <1>3
  <1>5. Sound(k, F \cup {b})
    <2>1. ASSUME NEW g1 \in File, NEW g2 \in File, NEW q1 \in Place, NEW q2 \in Place,
                 k[g1][q1] = k[g2][q2], k[g1][q1] # Null
          PROVE  g1 = g2 /\ q1 = q2
      BY <1>4, <2>1 DEF Sound
    <2>2. ASSUME NEW g \in File, NEW q \in Place PROVE k[g][q] \notin F \cup {b}
      <3>1. CASE k[g][q] = Null
        BY <1>1, <3>1, BlockMapAssumption
      <3>2. CASE k[g][q] # Null
        BY <1>4, <3>2 DEF Sound
      <3> QED BY <3>1, <3>2
    <2> HIDE DEF b
    <2> QED BY <1>1, <1>2, <2>1, <2>2 DEF Sound
  <1>6. ASSUME Covers(h, F) PROVE Covers(k, F \cup {b})
    <2> SUFFICES ASSUME NEW c \in Block, c \notin F \cup {b}
                 PROVE  \E g \in File : \E q \in Place : k[g][q] = c
      BY DEF Covers
    <2>1. PICK g \in File, q \in Place : h[g][q] = c
      BY <1>6 DEF Covers
    <2>2. g # f \/ q # p
      BY <2>1
    <2> QED BY <1>2, <2>1, <2>2
  <1>7. InUse(k[f]) = InUse(h[f]) \ {b}
    <2>1. ASSUME NEW x \in InUse(k[f]) PROVE x \in InUse(h[f]) \ {b}
      BY <1>4 DEF InUse
    <2>2. ASSUME NEW x \in InUse(h[f]) \ {b} PROVE x \in InUse(k[f])
      <3>1. PICK q \in Place : h[f][q] = x /\ x # Null
        BY DEF InUse
      <3> QED BY <1>2, <3>1 DEF InUse
    <2> QED BY <2>1, <2>2
  <1>8. b \in InUse(h[f]) /\ IsFiniteSet(InUse(h[f]))
    BY <1>1, InUseFinite DEF InUse
  <1> HIDE DEF b
  <1> QED BY <1>5, <1>6, <1>7, <1>8, FS_RemoveElement DEF b, k

\* A state of maps m, blocks image and free blocks F in which the trees are sound.
Good(m, image, F) ==
    /\ m \in [File -> InodeMap]
    /\ image \in Image
    /\ Sound(AllHeld(m, image), F)

LEMMA GoodAlone ==
    ASSUME NEW m, NEW image, NEW F, Good(m, image, F), NEW f \in File
    PROVE  /\ m[f] \in InodeMap /\ image \in Image
           /\ Holds(m[f], image) \in [Place -> Pointer]
           /\ Alone(Holds(m[f], image))
           /\ F \subseteq Block
           /\ \A b \in F : b # Null /\ b \in Block
           /\ \A b \in F : \A p \in Place : Holds(m[f], image)[p] # b
  <1>1. m[f] \in InodeMap /\ image \in Image
    BY DEF Good
  <1>2. Holds(m[f], image) \in [Place -> Pointer]
    BY <1>1, HoldsAt
  <1> QED BY <1>1, <1>2, BlockMapAssumption DEF Good, Sound, AllHeld, Alone

\* The map of f becomes ino and the blocks become other; nothing is written but into
\* free blocks and blocks of f.
LEMMA OthersKeep ==
    ASSUME NEW m, NEW image, NEW F, Good(m, image, F), NEW f \in File,
           NEW ino \in InodeMap, NEW other \in Image,
           \A b \in Block : other[b] # image[b] => b \in F \/ \E p \in Place : Holds(m[f], image)[p] = b
    PROVE  /\ [m EXCEPT ![f] = ino] \in [File -> InodeMap]
           /\ AllHeld([m EXCEPT ![f] = ino], other)
                = [AllHeld(m, image) EXCEPT ![f] = Holds(ino, other)]
  <1>1. m \in [File -> InodeMap] /\ image \in Image
    BY DEF Good
  <1>2. [m EXCEPT ![f] = ino] \in [File -> InodeMap]
    BY <1>1
  <1>3. ASSUME NEW g \in File, g # f
        PROVE  Holds(m[g], other) = Holds(m[g], image)
    <2>1. m[g] \in InodeMap
      BY <1>1
    <2>2. ASSUME NEW b \in Block, NEW p \in Place, Holds(m[g], image)[p] = b
          PROVE  other[b] = image[b]
      <3>1. b \notin F
        BY <2>2, GoodAlone
      <3>2. \A q \in Place : Holds(m[f], image)[q] # b
        BY <1>3, <2>2, BlockMapAssumption DEF Good, Sound, AllHeld
      <3> QED BY <3>1, <3>2
    <2> QED BY <1>1, <2>1, <2>2, Untouched
  <1> QED BY <1>1, <1>2, <1>3 DEF AllHeld

\* The places that hold the blocks of the file's bytes, not blocks of pointers.
Data ==
    {<<"direct", l, 0>> : l \in 0..(Direct - 1)}
    \cup {<<"single", i, 0>> : i \in Slot}
    \cup {<<"double", i, j>> : i \in Slot, j \in Slot}

LEMMA DataIsPlace == Data \subseteq Place
  BY DEF Data, Place

\* The flat map k has besides h only a block at D, where h has a hole; or h besides k.
Adds(h, k, D) == \A p \in Data : k[p] # h[p] => p = D /\ h[p] = Null
Drops(h, k, D) == \A p \in Data : k[p] # h[p] => p = D /\ k[p] = Null

\* A step in which the file f takes d blocks, or gives up -d, to the state m2, image2, F2.
\* Of the blocks of its bytes only the one at D comes or goes.
Changes(m, image, F, f, D, d, m2, image2, F2) ==
    /\ Good(m2, image2, F2)
    /\ Covers(AllHeld(m, image), F) => Covers(AllHeld(m2, image2), F2)
    /\ Cardinality(InUse(Holds(m2[f], image2))) = Cardinality(InUse(Holds(m[f], image))) + d
    /\ \A g \in File : g # f => m2[g] = m[g] /\ Holds(m2[g], image2) = Holds(m[g], image)
    /\ d >= 0 => Adds(Holds(m[f], image), Holds(m2[f], image2), D)
    /\ d <= 0 => Drops(Holds(m[f], image), Holds(m2[f], image2), D)

Takes(m, image, F, f, D, b, m2, image2) == Changes(m, image, F, f, D, 1, m2, image2, F \ {b})
Gives(m, image, F, f, D, b, m2, image2) == Changes(m, image, F, f, D, -1, m2, image2, F \cup {b})

\* Both steps take blocks, or both give some up.
SameSign(d, e) == (d >= 0 /\ e >= 0) \/ (d <= 0 /\ e <= 0)

LEMMA Ones ==
    /\ SameSign(1, 1) /\ SameSign(1 + 1, 1) /\ 1 \in Int /\ 1 + 1 \in Int
    /\ SameSign(-1, -1) /\ SameSign(-1 + -1, -1) /\ -1 \in Int /\ -1 + -1 \in Int
  <1>1. /\ 1 \in Int /\ 1 + 1 \in Int /\ 1 >= 0 /\ 1 + 1 >= 0
        /\ -1 \in Int /\ -1 + -1 \in Int /\ -1 <= 0 /\ -1 + -1 <= 0
    OBVIOUS
  <1>2. /\ \A d, e : d >= 0 /\ e >= 0 => SameSign(d, e)
        /\ \A d, e : d <= 0 /\ e <= 0 => SameSign(d, e)
    BY DEF SameSign
  <1> QED BY <1>1, <1>2

\* Steps of one file add up.
LEMMA ChangesAddUp ==
    ASSUME NEW m, NEW image, NEW F, NEW f \in File, NEW D, NEW d \in Int, NEW m2, NEW image2, NEW F2,
           Good(m, image, F), Changes(m, image, F, f, D, d, m2, image2, F2),
           NEW e \in Int, SameSign(d, e), NEW m3, NEW image3, NEW F3,
           Changes(m2, image2, F2, f, D, e, m3, image3, F3)
    PROVE  Changes(m, image, F, f, D, d + e, m3, image3, F3)
  <1>1. Cardinality(InUse(Holds(m[f], image))) \in Nat
    BY GoodAlone, InUseFinite
  <1>2. d + e >= 0 => Adds(Holds(m[f], image), Holds(m3[f], image3), D)
    <2> DEFINE h == Holds(m[f], image)
               k == Holds(m2[f], image2)
               l == Holds(m3[f], image3)
    <2>1. d >= 0 /\ e >= 0 => Adds(h, k, D) /\ Adds(k, l, D)
      BY DEF Changes
    <2>2. d <= 0 /\ e <= 0 /\ d + e >= 0 => d >= 0 /\ e >= 0
      OBVIOUS
    <2> HIDE DEF h, k, l
    <2>3. Adds(h, k, D) /\ Adds(k, l, D) => Adds(h, l, D)
      BY DEF Adds
    <2> QED BY <2>1, <2>2, <2>3 DEF h, l, SameSign
  <1>3. d + e <= 0 => Drops(Holds(m[f], image), Holds(m3[f], image3), D)
    <2> DEFINE h == Holds(m[f], image)
               k == Holds(m2[f], image2)
               l == Holds(m3[f], image3)
    <2>1. d <= 0 /\ e <= 0 => Drops(h, k, D) /\ Drops(k, l, D)
      BY DEF Changes
    <2>2. d >= 0 /\ e >= 0 /\ d + e <= 0 => d <= 0 /\ e <= 0
      OBVIOUS
    <2> HIDE DEF h, k, l
    <2>3. Drops(h, k, D) /\ Drops(k, l, D) => Drops(h, l, D)
      BY DEF Drops
    <2> QED BY <2>1, <2>2, <2>3 DEF h, l, SameSign
  <1> QED BY <1>1, <1>2, <1>3 DEF Changes

LEMMA TakesBlock ==
    ASSUME NEW m, NEW image, NEW F, Good(m, image, F), NEW f \in File,
           NEW b \in F, NEW p \in Place, Holds(m[f], image)[p] = Null,
           NEW D, p \in Data => p = D,
           NEW ino \in InodeMap, NEW other \in Image,
           Holds(ino, other) = [Holds(m[f], image) EXCEPT ![p] = b],
           \A c \in Block : other[c] # image[c] => c \in F \/ \E q \in Place : Holds(m[f], image)[q] = c
    PROVE  Takes(m, image, F, f, D, b, [m EXCEPT ![f] = ino], other)
  <1> DEFINE m2 == [m EXCEPT ![f] = ino]
             h == AllHeld(m, image)
             k == AllHeld(m2, other)
  <1>1. /\ m2 \in [File -> InodeMap]
        /\ k = [h EXCEPT ![f] = [h[f] EXCEPT ![p] = b]]
        /\ h[f] = Holds(m[f], image) /\ k[f] = Holds(m2[f], other)
    <2>1. m2 \in [File -> InodeMap] /\ k = [h EXCEPT ![f] = Holds(ino, other)]
      BY OthersKeep
    <2>2. h[f] = Holds(m[f], image) /\ k[f] = Holds(m2[f], other)
      BY DEF AllHeld
    <2> QED BY <2>1, <2>2
  <1>2. Sound(h, F) /\ h[f][p] = Null
    BY <1>1 DEF Good
  <1>3. \A g \in File : g # f => k[g] = h[g] /\ m2[g] = m[g]
    BY <1>1 DEF AllHeld, Good
  <1>4. \A g \in File : k[g] = Holds(m2[g], other) /\ h[g] = Holds(m[g], image)
    BY DEF AllHeld
  <1> HIDE DEF m2, h, k
  <1>5. /\ Sound(k, F \ {b})
        /\ Covers(h, F) => Covers(k, F \ {b})
        /\ Cardinality(InUse(k[f])) = Cardinality(InUse(h[f])) + 1
    <2>1. k = [h EXCEPT ![f] = [h[f] EXCEPT ![p] = b]]
      BY <1>1
    <2>2. LET e == [h EXCEPT ![f] = [h[f] EXCEPT ![p] = b]]
          IN  /\ Sound(e, F \ {b})
              /\ Covers(h, F) => Covers(e, F \ {b})
              /\ Cardinality(InUse(e[f])) = Cardinality(InUse(h[f])) + 1
      BY <1>2, b \in F, Joins, SMTT(30)
    <2> QED BY <2>1, <2>2
  <1>6. Good(m2, other, F \ {b})
    BY <1>1, <1>5 DEF Good, k
  <1>7. Adds(h[f], k[f], D)
    <2>1. h[f] \in [Place -> Pointer]
      BY <1>2 DEF Sound
    <2>2. \A r \in Place : r # p => k[f][r] = h[f][r]
      BY <1>1, <1>2, <2>1 DEF Sound
    <2>3. h[f][p] = Null
      BY <1>1, <1>2, <2>1 DEF Sound
    <2> QED BY <2>2, <2>3, DataIsPlace DEF Adds
  <1>8. Adds(Holds(m[f], image), Holds(m2[f], other), D)
    BY <1>4, <1>7
  <1>9. \A g \in File : g # f => m2[g] = m[g] /\ Holds(m2[g], other) = Holds(m[g], image)
    BY <1>3, <1>4
  <1>10. Cardinality(InUse(Holds(m2[f], other))) = Cardinality(InUse(Holds(m[f], image))) + 1
    BY <1>4, <1>5
  <1>11. ~(1 <= 0)
    OBVIOUS
  <1> QED BY <1>5, <1>6, <1>8, <1>9, <1>10, <1>11 DEF Takes, Changes, m2, h, k

LEMMA GivesBlock ==
    ASSUME NEW m, NEW image, NEW F, Good(m, image, F), NEW f \in File,
           NEW b \in Block, NEW p \in Place, Holds(m[f], image)[p] = b,
           NEW D, p \in Data => p = D,
           NEW ino \in InodeMap, NEW other \in Image,
           Holds(ino, other) = [Holds(m[f], image) EXCEPT ![p] = Null],
           \A c \in Block : other[c] # image[c] => c \in F \/ \E q \in Place : Holds(m[f], image)[q] = c
    PROVE  Gives(m, image, F, f, D, b, [m EXCEPT ![f] = ino], other)
  <1> DEFINE m2 == [m EXCEPT ![f] = ino]
             h == AllHeld(m, image)
             k == AllHeld(m2, other)
  <1>1. /\ m2 \in [File -> InodeMap]
        /\ k = [h EXCEPT ![f] = [h[f] EXCEPT ![p] = Null]]
        /\ h[f] = Holds(m[f], image) /\ k[f] = Holds(m2[f], other)
    <2>1. m2 \in [File -> InodeMap] /\ k = [h EXCEPT ![f] = Holds(ino, other)]
      BY OthersKeep
    <2>2. h[f] = Holds(m[f], image) /\ k[f] = Holds(m2[f], other)
      BY DEF AllHeld
    <2> QED BY <2>1, <2>2
  <1>2. Sound(h, F) /\ h[f][p] = b /\ b # Null
    BY <1>1, BlockMapAssumption DEF Good
  <1>3. \A g \in File : g # f => k[g] = h[g] /\ m2[g] = m[g]
    BY <1>1 DEF AllHeld, Good
  <1>4. \A g \in File : k[g] = Holds(m2[g], other) /\ h[g] = Holds(m[g], image)
    BY DEF AllHeld
  <1> HIDE DEF m2, h, k
  <1>5. /\ Sound(k, F \cup {b})
        /\ Covers(h, F) => Covers(k, F \cup {b})
        /\ Cardinality(InUse(k[f])) = Cardinality(InUse(h[f])) - 1
    <2>1. k = [h EXCEPT ![f] = [h[f] EXCEPT ![p] = Null]]
      BY <1>1
    <2>2. LET e == [h EXCEPT ![f] = [h[f] EXCEPT ![p] = Null]]
          IN  /\ Sound(e, F \cup {b})
              /\ Covers(h, F) => Covers(e, F \cup {b})
              /\ Cardinality(InUse(e[f])) = Cardinality(InUse(h[f])) - 1
      BY <1>2, Leaves, SMTT(30)
    <2> QED BY <2>1, <2>2
  <1>6. Good(m2, other, F \cup {b})
    BY <1>1, <1>5 DEF Good, k
  <1>7. Drops(h[f], k[f], D)
    <2>1. h[f] \in [Place -> Pointer]
      BY <1>2 DEF Sound
    <2>2. \A r \in Place : r # p => k[f][r] = h[f][r]
      BY <1>1, <1>2, <2>1 DEF Sound
    <2>3. k[f][p] = Null
      BY <1>1, <1>2, <2>1 DEF Sound
    <2> QED BY <2>2, <2>3, DataIsPlace DEF Drops
  <1>8. Drops(Holds(m[f], image), Holds(m2[f], other), D)
    BY <1>4, <1>7
  <1>9. \A g \in File : g # f => m2[g] = m[g] /\ Holds(m2[g], other) = Holds(m[g], image)
    BY <1>3, <1>4
  <1>10. Cardinality(InUse(Holds(m2[f], other))) = Cardinality(InUse(Holds(m[f], image))) - 1
    BY <1>4, <1>5
  <1>11. ~(-1 >= 0)
    OBVIOUS
  <1> QED BY <1>5, <1>6, <1>8, <1>9, <1>10, <1>11 DEF Gives, Changes, m2, h, k

-----------------------------------------------------------------------------
(***************************************************************************)
(* One block taken                                                         *)
(***************************************************************************)

Zeroed(image, b) == [image EXCEPT ![b] = NoPointers]

\* A free block is in no map, so that its zeroes are seen in none.
LEMMA ZeroedUnseen ==
    ASSUME NEW m, NEW image, NEW F, Good(m, image, F), NEW f \in File, NEW b \in F
    PROVE  /\ Zeroed(image, b) \in Image
           /\ Zeroed(image, b)[b] = NoPointers
           /\ \A c \in Block : c # b => Zeroed(image, b)[c] = image[c]
           /\ Holds(m[f], Zeroed(image, b)) = Holds(m[f], image)
           /\ PointersIn(Zeroed(image, b), b) = NoPointers
           /\ b # Null /\ b \in Pointer
  <1>1. /\ m[f] \in InodeMap /\ image \in Image /\ b \in Block /\ b # Null
        /\ \A p \in Place : Holds(m[f], image)[p] # b
    BY GoodAlone
  <1>2. /\ Zeroed(image, b) \in Image
        /\ Zeroed(image, b)[b] = NoPointers
        /\ \A c \in Block : c # b => Zeroed(image, b)[c] = image[c]
    BY <1>1 DEF Zeroed, Image, NoPointers, Pointer
  <1>3. Holds(m[f], Zeroed(image, b)) = Holds(m[f], image)
    BY <1>1, <1>2, Untouched
  <1> QED BY <1>1, <1>2, <1>3 DEF PointersIn, Pointer

LEMMA TakeDirect ==
    ASSUME NEW m, NEW image, NEW F, Good(m, image, F), NEW f \in File, NEW b \in F,
           NEW l \in 0..(Direct - 1), m[f].direct[l] = Null, NEW n \in Nat,
           NEW D, D = <<"direct", l, 0>>
    PROVE  Takes(m, image, F, f, D, b,
                 [m EXCEPT ![f] = WithDirect(m[f], l, b, n)], Zeroed(image, b))
  <1> DEFINE ino == WithDirect(m[f], l, b, n)
             other == Zeroed(image, b)
             p == <<"direct", l, 0>>
  <1>1. m[f] \in InodeMap /\ image \in Image
    BY GoodAlone
  <1>2. /\ other \in Image /\ Holds(m[f], other) = Holds(m[f], image) /\ b \in Pointer
        /\ \A c \in Block : c # b => other[c] = image[c]
    BY ZeroedUnseen
  <1> HIDE DEF other
  <1>3. ino \in InodeMap /\ Holds(ino, other) = [Holds(m[f], other) EXCEPT ![p] = b]
    BY <1>1, <1>2, SetDirect, SMTT(30)
  <1>4. p \in Place /\ Holds(m[f], image)[p] = Null
    BY <1>1, PlacesOfKinds, HoldsDirect
  <1>20. p \in Data => p = D
    BY DEF Data
  <1> HIDE DEF ino, p
  <1>5. Takes(m, image, F, f, D, b, [m EXCEPT ![f] = ino], other)
    BY <1>2, <1>3, <1>4, <1>20, TakesBlock
  <1> QED BY <1>5 DEF ino, other

LEMMA TakeIndirect1 ==
    ASSUME NEW m, NEW image, NEW F, Good(m, image, F), NEW f \in File, NEW b \in F,
           m[f].indirect1 = Null, NEW n \in Nat,
           NEW D
    PROVE  Takes(m, image, F, f, D, b,
                 [m EXCEPT ![f] = WithIndirect1(m[f], b, n)], Zeroed(image, b))
  <1> DEFINE ino == WithIndirect1(m[f], b, n)
             other == Zeroed(image, b)
             p == <<"indirect1", 0, 0>>
  <1>1. m[f] \in InodeMap /\ image \in Image
    BY GoodAlone
  <1>2. /\ other \in Image /\ Holds(m[f], other) = Holds(m[f], image) /\ b \in Pointer
        /\ \A c \in Block : c # b => other[c] = image[c]
        /\ PointersIn(other, b) = NoPointers
    BY ZeroedUnseen
  <1> HIDE DEF other
  <1>3. PointersIn(other, b) = PointersIn(other, m[f].indirect1)
    BY <1>2 DEF PointersIn
  <1>4. ino \in InodeMap /\ Holds(ino, other) = [Holds(m[f], other) EXCEPT ![p] = b]
    BY <1>1, <1>2, <1>3, SetIndirect1
  <1>5. p \in Place /\ Holds(m[f], image)[p] = Null
    BY <1>1, PlacesOfKinds, HoldsAt
  <1>20. p \in Data => p = D
    BY DEF Data
  <1> HIDE DEF ino, p
  <1>6. Takes(m, image, F, f, D, b, [m EXCEPT ![f] = ino], other)
    BY <1>2, <1>4, <1>5, <1>20, TakesBlock
  <1> QED BY <1>6 DEF ino, other

LEMMA TakeIndirect2 ==
    ASSUME NEW m, NEW image, NEW F, Good(m, image, F), NEW f \in File, NEW b \in F,
           m[f].indirect2 = Null, NEW n \in Nat,
           NEW D
    PROVE  Takes(m, image, F, f, D, b,
                 [m EXCEPT ![f] = WithIndirect2(m[f], b, n)], Zeroed(image, b))
  <1> DEFINE ino == WithIndirect2(m[f], b, n)
             other == Zeroed(image, b)
             p == <<"indirect2", 0, 0>>
  <1>1. m[f] \in InodeMap /\ image \in Image
    BY GoodAlone
  <1>2. /\ other \in Image /\ Holds(m[f], other) = Holds(m[f], image) /\ b \in Pointer
        /\ \A c \in Block : c # b => other[c] = image[c]
        /\ PointersIn(other, b) = NoPointers
    BY ZeroedUnseen
  <1> HIDE DEF other
  <1>3. PointersIn(other, b) = PointersIn(other, m[f].indirect2)
    BY <1>2 DEF PointersIn
  <1>4. ino \in InodeMap /\ Holds(ino, other) = [Holds(m[f], other) EXCEPT ![p] = b]
    BY <1>1, <1>2, <1>3, SetIndirect2
  <1>5. p \in Place /\ Holds(m[f], image)[p] = Null
    BY <1>1, PlacesOfKinds, HoldsAt
  <1>20. p \in Data => p = D
    BY DEF Data
  <1> HIDE DEF ino, p
  <1>6. Takes(m, image, F, f, D, b, [m EXCEPT ![f] = ino], other)
    BY <1>2, <1>4, <1>5, <1>20, TakesBlock
  <1> QED BY <1>6 DEF ino, other

\* The pointer block p gets the block b in the slot i; the inode may be written too.
Filled(image, p, i, b) ==
    Patched(Zeroed(image, b), p, i, b)

\* Counting does not change what a map holds.
LEMMA CountUnseen ==
    ASSUME NEW ino \in InodeMap, NEW image \in Image, NEW n \in Nat
    PROVE  /\ WithCount(ino, n) \in InodeMap
           /\ Holds(WithCount(ino, n), image) = Holds(ino, image)
  <1> DEFINE new == WithCount(ino, n)
  <1>1. /\ new \in InodeMap /\ new.direct = ino.direct
        /\ new.indirect1 = ino.indirect1 /\ new.indirect2 = ino.indirect2
    BY DEF InodeMap, WithCount
  <1> HIDE DEF new
  <1>2. Holds(new, image) = Holds(ino, image)
    BY <1>1 DEF Holds
  <1> QED BY <1>1, <1>2 DEF new

LEMMA TakeSingle ==
    ASSUME NEW m, NEW image, NEW F, Good(m, image, F), NEW f \in File, NEW b \in F,
           NEW p \in Block, p = m[f].indirect1, NEW i \in Slot, image[p][i] = Null, NEW n \in Nat,
           NEW D, D = <<"single", i, 0>>
    PROVE  Takes(m, image, F, f, D, b, [m EXCEPT ![f] = WithCount(m[f], n)], Filled(image, p, i, b))
  <1> DEFINE ino == WithCount(m[f], n)
             zero == Zeroed(image, b)
             other == Filled(image, p, i, b)
             pl == <<"single", i, 0>>
  <1>1. /\ m[f] \in InodeMap /\ image \in Image /\ Alone(Holds(m[f], image))
        /\ \A q \in Place : Holds(m[f], image)[q] # b
    BY GoodAlone
  <1>2. /\ zero \in Image /\ Holds(m[f], zero) = Holds(m[f], image) /\ b \in Pointer
        /\ \A c \in Block : c # b => zero[c] = image[c]
    BY ZeroedUnseen
  <1>3. Holds(m[f], image)[<<"indirect1", 0, 0>>] = p /\ <<"indirect1", 0, 0>> \in Place
    BY <1>1, HoldsAt, PlacesOfKinds
  <1>4. zero[p] = image[p] /\ p # b
    BY <1>1, <1>2, <1>3
  <1>5. other = Patched(zero, p, i, b)
    BY DEF Filled
  <1> HIDE DEF other, zero
  <1>6. other \in Image /\ Holds(m[f], other) = [Holds(m[f], zero) EXCEPT ![pl] = b]
    <2>1. Alone(Holds(m[f], zero))
      BY <1>1, <1>2
    <2> QED BY <1>1, <1>2, <1>5, <2>1, SetSingle
  <1>7. ino \in InodeMap /\ Holds(ino, other) = Holds(m[f], other)
    BY <1>1, <1>6, CountUnseen
  <1>8. pl \in Place /\ Holds(m[f], image)[pl] = Null
    <2>1. Holds(m[f], image)[pl] = PointersIn(image, p)[i]
      BY <1>1, HoldsSingle
    <2> QED BY <2>1, PlacesOfKinds, BlockMapAssumption DEF PointersIn
  <1>9. \A c \in Block : other[c] # image[c] => c = b \/ c = p
    BY <1>2, <1>5 DEF Image, Patched
  <1>20. pl \in Data => pl = D
    BY DEF Data
  <1> HIDE DEF ino, pl
  <1>10. Takes(m, image, F, f, D, b, [m EXCEPT ![f] = ino], other)
    BY <1>2, <1>3, <1>6, <1>7, <1>8, <1>9, <1>20, TakesBlock
  <1> QED BY <1>10 DEF ino, other

LEMMA TakeLevel1 ==
    ASSUME NEW m, NEW image, NEW F, Good(m, image, F), NEW f \in File, NEW b \in F,
           NEW p \in Block, p = m[f].indirect2, NEW i \in Slot, image[p][i] = Null, NEW n \in Nat,
           NEW D
    PROVE  Takes(m, image, F, f, D, b, [m EXCEPT ![f] = WithCount(m[f], n)], Filled(image, p, i, b))
  <1> DEFINE ino == WithCount(m[f], n)
             zero == Zeroed(image, b)
             other == Filled(image, p, i, b)
             pl == <<"level1", i, 0>>
  <1>1. /\ m[f] \in InodeMap /\ image \in Image /\ Alone(Holds(m[f], image))
        /\ \A q \in Place : Holds(m[f], image)[q] # b
    BY GoodAlone
  <1>2. /\ zero \in Image /\ Holds(m[f], zero) = Holds(m[f], image) /\ b \in Pointer
        /\ \A c \in Block : c # b => zero[c] = image[c]
        /\ PointersIn(zero, b) = NoPointers
    BY ZeroedUnseen
  <1>3. Holds(m[f], image)[<<"indirect2", 0, 0>>] = p /\ <<"indirect2", 0, 0>> \in Place
    BY <1>1, HoldsAt, PlacesOfKinds
  <1>4. zero[p] = image[p] /\ p # b
    BY <1>1, <1>2, <1>3
  <1>5. other = Patched(zero, p, i, b)
    BY DEF Filled
  <1>6. PointersIn(zero, zero[p][i]) = PointersIn(zero, b)
    BY <1>2, <1>4 DEF PointersIn
  <1> HIDE DEF other, zero
  <1>7. other \in Image /\ Holds(m[f], other) = [Holds(m[f], zero) EXCEPT ![pl] = b]
    <2>1. Alone(Holds(m[f], zero))
      BY <1>1, <1>2
    <2> QED BY <1>1, <1>2, <1>4, <1>5, <1>6, <2>1, SetLevel1
  <1>8. ino \in InodeMap /\ Holds(ino, other) = Holds(m[f], other)
    BY <1>1, <1>7, CountUnseen
  <1>9. pl \in Place /\ Holds(m[f], image)[pl] = Null
    <2>1. Holds(m[f], image)[pl] = PointersIn(image, p)[i]
      BY <1>1, HoldsLevel1
    <2> QED BY <2>1, PlacesOfKinds, BlockMapAssumption DEF PointersIn
  <1>10. \A c \in Block : other[c] # image[c] => c = b \/ c = p
    BY <1>2, <1>5 DEF Image, Patched
  <1>20. pl \in Data => pl = D
    BY DEF Data
  <1> HIDE DEF ino, pl
  <1>11. Takes(m, image, F, f, D, b, [m EXCEPT ![f] = ino], other)
    BY <1>2, <1>3, <1>7, <1>8, <1>9, <1>10, <1>20, TakesBlock
  <1> QED BY <1>11 DEF ino, other

LEMMA TakeDouble ==
    ASSUME NEW m, NEW image, NEW F, Good(m, image, F), NEW f \in File, NEW b \in F,
           NEW p \in Block, p = m[f].indirect2, NEW i \in Slot, NEW q \in Block, q = image[p][i],
           NEW j \in Slot, image[q][j] = Null, NEW n \in Nat,
           NEW D, D = <<"double", i, j>>
    PROVE  Takes(m, image, F, f, D, b, [m EXCEPT ![f] = WithCount(m[f], n)], Filled(image, q, j, b))
  <1> DEFINE ino == WithCount(m[f], n)
             zero == Zeroed(image, b)
             other == Filled(image, q, j, b)
             pl == <<"double", i, j>>
  <1>1. /\ m[f] \in InodeMap /\ image \in Image /\ Alone(Holds(m[f], image))
        /\ \A r \in Place : Holds(m[f], image)[r] # b
    BY GoodAlone
  <1>2. /\ zero \in Image /\ Holds(m[f], zero) = Holds(m[f], image) /\ b \in Pointer
        /\ \A c \in Block : c # b => zero[c] = image[c]
    BY ZeroedUnseen
  <1>3. /\ Holds(m[f], image)[<<"indirect2", 0, 0>>] = p /\ <<"indirect2", 0, 0>> \in Place
        /\ Holds(m[f], image)[<<"level1", i, 0>>] = q /\ <<"level1", i, 0>> \in Place
    <2>1. PointersIn(image, p) = image[p]
      BY BlockMapAssumption DEF PointersIn
    <2>2. Holds(m[f], image)[<<"level1", i, 0>>] = q
      BY <1>1, <2>1, HoldsLevel1
    <2> QED BY <1>1, <2>2, HoldsAt, PlacesOfKinds
  <1>4. zero[p] = image[p] /\ p # b /\ zero[q] = image[q] /\ q # b
    BY <1>1, <1>2, <1>3
  <1>5. other = Patched(zero, q, j, b)
    BY DEF Filled
  <1> HIDE DEF other, zero
  <1>6. other \in Image /\ Holds(m[f], other) = [Holds(m[f], zero) EXCEPT ![pl] = b]
    <2>1. Alone(Holds(m[f], zero))
      BY <1>1, <1>2
    <2>2. q = zero[p][i]
      BY <1>4
    <2> QED BY <1>1, <1>2, <1>5, <2>1, <2>2, SetDouble
  <1>7. ino \in InodeMap /\ Holds(ino, other) = Holds(m[f], other)
    BY <1>1, <1>6, CountUnseen
  <1>8. pl \in Place /\ Holds(m[f], image)[pl] = Null
    <2>1. Holds(m[f], image)[pl] = PointersIn(image, PointersIn(image, p)[i])[j]
      BY <1>1, HoldsDouble
    <2>2. PointersIn(image, p) = image[p] /\ PointersIn(image, q) = image[q]
      BY BlockMapAssumption DEF PointersIn
    <2> QED BY <2>1, <2>2, PlacesOfKinds
  <1>9. \A c \in Block : other[c] # image[c] => c = b \/ c = q
    BY <1>2, <1>5 DEF Image, Patched
  <1>20. pl \in Data => pl = D
    BY DEF Data
  <1> HIDE DEF ino, pl
  <1>10. Takes(m, image, F, f, D, b, [m EXCEPT ![f] = ino], other)
    BY <1>2, <1>3, <1>6, <1>7, <1>8, <1>9, <1>20, TakesBlock
  <1> QED BY <1>10 DEF ino, other

-----------------------------------------------------------------------------
(***************************************************************************)
(* One block given up                                                      *)
(***************************************************************************)

LEMMA GiveDirect ==
    ASSUME NEW m, NEW image, NEW F, Good(m, image, F), NEW f \in File,
           NEW l \in 0..(Direct - 1), NEW b \in Block, b = m[f].direct[l], NEW n \in Nat,
           NEW D, D = <<"direct", l, 0>>
    PROVE  Gives(m, image, F, f, D, b, [m EXCEPT ![f] = WithDirect(m[f], l, Null, n)], image)
  <1> DEFINE ino == WithDirect(m[f], l, Null, n)
             p == <<"direct", l, 0>>
  <1>1. m[f] \in InodeMap /\ image \in Image /\ Null \in Pointer
    BY GoodAlone DEF Pointer
  <1>2. ino \in InodeMap /\ Holds(ino, image) = [Holds(m[f], image) EXCEPT ![p] = Null]
    <2>1. \A x \in InodeMap :
            /\ WithDirect(x, l, Null, n) \in InodeMap
            /\ Holds(WithDirect(x, l, Null, n), image) = [Holds(x, image) EXCEPT ![<<"direct", l, 0>>] = Null]
      BY <1>1, SetDirect
    <2> QED BY <1>1, <2>1
  <1>3. p \in Place /\ Holds(m[f], image)[p] = b
    BY <1>1, PlacesOfKinds, HoldsDirect
  <1>20. p \in Data => p = D
    BY DEF Data
  <1> HIDE DEF ino, p
  <1>4. Gives(m, image, F, f, D, b, [m EXCEPT ![f] = ino], image)
    BY <1>1, <1>2, <1>3, <1>20, GivesBlock
  <1> QED BY <1>4 DEF ino

LEMMA GiveSingle ==
    ASSUME NEW m, NEW image, NEW F, Good(m, image, F), NEW f \in File,
           NEW p \in Block, p = m[f].indirect1, NEW i \in Slot,
           NEW b \in Block, b = image[p][i], NEW n \in Nat,
           NEW D, D = <<"single", i, 0>>
    PROVE  Gives(m, image, F, f, D, b, [m EXCEPT ![f] = WithCount(m[f], n)], Patched(image, p, i, Null))
  <1> DEFINE ino == WithCount(m[f], n)
             other == Patched(image, p, i, Null)
             pl == <<"single", i, 0>>
  <1>1. /\ m[f] \in InodeMap /\ image \in Image /\ Alone(Holds(m[f], image)) /\ Null \in Pointer
    BY GoodAlone DEF Pointer
  <1>2. other \in Image /\ Holds(m[f], other) = [Holds(m[f], image) EXCEPT ![pl] = Null]
    BY <1>1, SetSingle
  <1>3. ino \in InodeMap /\ Holds(ino, other) = Holds(m[f], other)
    BY <1>1, <1>2, CountUnseen
  <1>4. pl \in Place /\ Holds(m[f], image)[pl] = b
    <2>1. Holds(m[f], image)[pl] = PointersIn(image, p)[i]
      BY <1>1, HoldsSingle
    <2> QED BY <2>1, PlacesOfKinds, BlockMapAssumption DEF PointersIn
  <1>5. Holds(m[f], image)[<<"indirect1", 0, 0>>] = p /\ <<"indirect1", 0, 0>> \in Place
    BY <1>1, HoldsAt, PlacesOfKinds
  <1>6. \A c \in Block : other[c] # image[c] => c = p
    BY <1>1 DEF Image, Patched
  <1>20. pl \in Data => pl = D
    BY DEF Data
  <1> HIDE DEF ino, other, pl
  <1>7. Gives(m, image, F, f, D, b, [m EXCEPT ![f] = ino], other)
    BY <1>2, <1>3, <1>4, <1>5, <1>6, <1>20, GivesBlock
  <1> QED BY <1>7 DEF ino, other

LEMMA GiveDouble ==
    ASSUME NEW m, NEW image, NEW F, Good(m, image, F), NEW f \in File,
           NEW p \in Block, p = m[f].indirect2, NEW i \in Slot, NEW q \in Block, q = image[p][i],
           NEW j \in Slot, NEW b \in Block, b = image[q][j], NEW n \in Nat,
           NEW D, D = <<"double", i, j>>
    PROVE  Gives(m, image, F, f, D, b, [m EXCEPT ![f] = WithCount(m[f], n)], Patched(image, q, j, Null))
  <1> DEFINE ino == WithCount(m[f], n)
             other == Patched(image, q, j, Null)
             pl == <<"double", i, j>>
  <1>1. /\ m[f] \in InodeMap /\ image \in Image /\ Alone(Holds(m[f], image)) /\ Null \in Pointer
    BY GoodAlone DEF Pointer
  <1>2. other \in Image /\ Holds(m[f], other) = [Holds(m[f], image) EXCEPT ![pl] = Null]
    BY <1>1, SetDouble
  <1>3. ino \in InodeMap /\ Holds(ino, other) = Holds(m[f], other)
    BY <1>1, <1>2, CountUnseen
  <1>4. PointersIn(image, p) = image[p] /\ PointersIn(image, q) = image[q]
    BY BlockMapAssumption DEF PointersIn
  <1>5. pl \in Place /\ Holds(m[f], image)[pl] = b
    <2>1. Holds(m[f], image)[pl] = PointersIn(image, PointersIn(image, p)[i])[j]
      BY <1>1, HoldsDouble
    <2> QED BY <1>4, <2>1, PlacesOfKinds
  <1>6. Holds(m[f], image)[<<"level1", i, 0>>] = q /\ <<"level1", i, 0>> \in Place
    BY <1>1, <1>4, HoldsLevel1, PlacesOfKinds
  <1>7. \A c \in Block : other[c] # image[c] => c = q
    BY <1>1 DEF Image, Patched
  <1>20. pl \in Data => pl = D
    BY DEF Data
  <1> HIDE DEF ino, other, pl
  <1>8. Gives(m, image, F, f, D, b, [m EXCEPT ![f] = ino], other)
    BY <1>2, <1>3, <1>5, <1>6, <1>7, <1>20, GivesBlock
  <1> QED BY <1>8 DEF ino, other

\* A pointer block without pointers is given up.  What it will read as afterwards, in
\* other, does not matter any more.

LEMMA GiveIndirect1 ==
    ASSUME NEW m, NEW image, NEW F, Good(m, image, F), NEW f \in File,
           NEW p \in Block, p = m[f].indirect1, image[p] = NoPointers, NEW n \in Nat,
           NEW other \in Image, \A c \in Block : other[c] # image[c] => c = p,
           NEW D
    PROVE  Gives(m, image, F, f, D, p, [m EXCEPT ![f] = WithIndirect1(m[f], Null, n)], other)
  <1> DEFINE ino == WithIndirect1(m[f], Null, n)
             pl == <<"indirect1", 0, 0>>
  <1>1. /\ m[f] \in InodeMap /\ image \in Image /\ Alone(Holds(m[f], image)) /\ Null \in Pointer
        /\ Holds(m[f], image) \in [Place -> Pointer]
    BY GoodAlone DEF Pointer
  <1>2. PointersIn(image, Null) = PointersIn(image, m[f].indirect1)
    BY DEF PointersIn
  <1>3. ino \in InodeMap /\ Holds(ino, image) = [Holds(m[f], image) EXCEPT ![pl] = Null]
    BY <1>1, <1>2, SetIndirect1
  <1>4. pl \in Place /\ Holds(m[f], image)[pl] = p
    BY <1>1, PlacesOfKinds, HoldsAt
  <1>20. pl \in Data => pl = D
    BY DEF Data
  <1> HIDE DEF ino, pl
  <1>5. \A q \in Place : Holds(ino, image)[q] # p
    BY <1>1, <1>3, <1>4, BlockMapAssumption DEF Alone
  <1>6. Holds(ino, other) = Holds(ino, image)
    BY <1>1, <1>3, <1>5, Untouched
  <1>7. Gives(m, image, F, f, D, p, [m EXCEPT ![f] = ino], other)
    BY <1>3, <1>4, <1>6, <1>20, GivesBlock
  <1> QED BY <1>7 DEF ino

LEMMA GiveIndirect2 ==
    ASSUME NEW m, NEW image, NEW F, Good(m, image, F), NEW f \in File,
           NEW p \in Block, p = m[f].indirect2, image[p] = NoPointers, NEW n \in Nat,
           NEW other \in Image, \A c \in Block : other[c] # image[c] => c = p,
           NEW D
    PROVE  Gives(m, image, F, f, D, p, [m EXCEPT ![f] = WithIndirect2(m[f], Null, n)], other)
  <1> DEFINE ino == WithIndirect2(m[f], Null, n)
             pl == <<"indirect2", 0, 0>>
  <1>1. /\ m[f] \in InodeMap /\ image \in Image /\ Alone(Holds(m[f], image)) /\ Null \in Pointer
        /\ Holds(m[f], image) \in [Place -> Pointer]
    BY GoodAlone DEF Pointer
  <1>2. PointersIn(image, Null) = PointersIn(image, m[f].indirect2)
    BY DEF PointersIn
  <1>3. ino \in InodeMap /\ Holds(ino, image) = [Holds(m[f], image) EXCEPT ![pl] = Null]
    BY <1>1, <1>2, SetIndirect2
  <1>4. pl \in Place /\ Holds(m[f], image)[pl] = p
    BY <1>1, PlacesOfKinds, HoldsAt
  <1>20. pl \in Data => pl = D
    BY DEF Data
  <1> HIDE DEF ino, pl
  <1>5. \A q \in Place : Holds(ino, image)[q] # p
    BY <1>1, <1>3, <1>4, BlockMapAssumption DEF Alone
  <1>6. Holds(ino, other) = Holds(ino, image)
    BY <1>1, <1>3, <1>5, Untouched
  <1>7. Gives(m, image, F, f, D, p, [m EXCEPT ![f] = ino], other)
    BY <1>3, <1>4, <1>6, <1>20, GivesBlock
  <1> QED BY <1>7 DEF ino

LEMMA GiveLevel1 ==
    ASSUME NEW m, NEW image, NEW F, Good(m, image, F), NEW f \in File,
           NEW p \in Block, p = m[f].indirect2, NEW i \in Slot, NEW q \in Block, q = image[p][i],
           image[q] = NoPointers, NEW n \in Nat,
           NEW other \in Image, \A c \in Block : other[c] # Patched(image, p, i, Null)[c] => c = q,
           NEW D
    PROVE  Gives(m, image, F, f, D, q, [m EXCEPT ![f] = WithCount(m[f], n)], other)
  <1> DEFINE ino == WithCount(m[f], n)
             cut == Patched(image, p, i, Null)
             pl == <<"level1", i, 0>>
  <1>1. /\ m[f] \in InodeMap /\ image \in Image /\ Alone(Holds(m[f], image)) /\ Null \in Pointer
        /\ Holds(m[f], image) \in [Place -> Pointer] /\ Null # p
    BY GoodAlone, BlockMapAssumption DEF Pointer
  <1>2. PointersIn(image, Null) = PointersIn(image, image[p][i])
    BY DEF PointersIn
  <1>3. cut \in Image /\ Holds(m[f], cut) = [Holds(m[f], image) EXCEPT ![pl] = Null]
    BY <1>1, <1>2, SetLevel1
  <1>4. pl \in Place /\ Holds(m[f], image)[pl] = q
    <2>1. PointersIn(image, p) = image[p]
      BY <1>1 DEF PointersIn
    <2> QED BY <1>1, <2>1, HoldsLevel1, PlacesOfKinds
  <1>5. Holds(m[f], image)[<<"indirect2", 0, 0>>] = p /\ <<"indirect2", 0, 0>> \in Place
    BY <1>1, HoldsAt, PlacesOfKinds
  <1>6. \A c \in Block : cut[c] # image[c] => c = p
    BY <1>1 DEF Image, Patched
  <1>20. pl \in Data => pl = D
    BY DEF Data
  <1> HIDE DEF ino, pl, cut
  <1>7. \A r \in Place : Holds(m[f], cut)[r] # q
    BY <1>1, <1>3, <1>4, BlockMapAssumption DEF Alone
  <1>8. Holds(m[f], other) = Holds(m[f], cut)
    BY <1>1, <1>3, <1>7, Untouched DEF cut
  <1>9. ino \in InodeMap /\ Holds(ino, other) = Holds(m[f], other)
    BY <1>1, CountUnseen DEF ino
  <1>10. \A c \in Block : other[c] # image[c] => c = p \/ c = q
    BY <1>6 DEF cut
  <1>11. Gives(m, image, F, f, D, q, [m EXCEPT ![f] = ino], other)
    BY <1>3, <1>4, <1>5, <1>8, <1>9, <1>10, <1>20, GivesBlock
  <1> QED BY <1>11 DEF ino

-----------------------------------------------------------------------------
(***************************************************************************)
(* No place changes                                                        *)
(***************************************************************************)

\* A call that runs out of space keeps blocks that no map holds: they are neither free
\* nor used any more, whatever has been written into them.
LEMMA Lost ==
    ASSUME NEW m, NEW image, NEW F, Good(m, image, F), NEW G \in SUBSET F, NEW other \in Image,
           \A c \in Block : other[c] # image[c] => c \in F
    PROVE  Good(m, other, G) /\ \A f \in File : Holds(m[f], other) = Holds(m[f], image)
  <1>1. ASSUME NEW f \in File PROVE Holds(m[f], other) = Holds(m[f], image)
    <2>1. m[f] \in InodeMap /\ image \in Image /\ \A b \in F : \A p \in Place : Holds(m[f], image)[p] # b
      BY GoodAlone
    <2> QED BY <2>1, Untouched
  <1>2. AllHeld(m, other) = AllHeld(m, image)
    BY <1>1 DEF AllHeld
  <1>3. Sound(AllHeld(m, image), G)
    BY DEF Good, Sound
  <1> QED BY <1>1, <1>2, <1>3 DEF Good

\* All blocks of a file are given up at once.
LEMMA GiveAll ==
    ASSUME NEW m, NEW image, NEW F, Good(m, image, F), NEW f \in File
    PROVE  LET m2 == [m EXCEPT ![f] = NoBlocks]
               F2 == F \cup InUse(Holds(m[f], image))
           IN  /\ Good(m2, image, F2)
               /\ Covers(AllHeld(m, image), F) => Covers(AllHeld(m2, image), F2)
               /\ Cardinality(InUse(Holds(m2[f], image))) = 0
               /\ \A g \in File : g # f => m2[g] = m[g]
  <1> DEFINE m2 == [m EXCEPT ![f] = NoBlocks]
             F2 == F \cup InUse(Holds(m[f], image))
             h == AllHeld(m, image)
             k == AllHeld(m2, image)
  <1>1. m \in [File -> InodeMap] /\ image \in Image /\ Sound(h, F)
    BY DEF Good
  <1>2. NoBlocks \in InodeMap
    BY DEF NoBlocks, InodeMap, Pointer
  <1>3. m2 \in [File -> InodeMap] /\ m2[f] = NoBlocks /\ \A g \in File : g # f => m2[g] = m[g]
    BY <1>1, <1>2
  <1>4. \A p \in Place : Holds(NoBlocks, image)[p] = Null
    <2> DEFINE H == Holds(NoBlocks, image)
    <2>1. \A l \in 0..(Direct - 1) : H[<<"direct", l, 0>>] = Null
      BY <1>1, <1>2, HoldsAt DEF NoBlocks
    <2>2. H[<<"indirect1", 0, 0>>] = Null /\ H[<<"indirect2", 0, 0>>] = Null
      BY <1>1, <1>2, HoldsAt DEF NoBlocks
    <2>3. \A i \in Slot : PointersIn(image, Null)[i] = Null
      BY DEF PointersIn, NoPointers
    <2>4. NoBlocks.indirect1 = Null /\ NoBlocks.indirect2 = Null
      BY DEF NoBlocks
    <2>5. ASSUME NEW i \in Slot PROVE H[<<"single", i, 0>>] = Null /\ H[<<"level1", i, 0>>] = Null
      BY <1>1, <1>2, <2>3, <2>4, HoldsSingle, HoldsLevel1
    <2>6. ASSUME NEW i \in Slot, NEW j \in Slot PROVE H[<<"double", i, j>>] = Null
      BY <1>1, <1>2, <2>3, <2>4, HoldsDouble
    <2> HIDE DEF H
    <2>7. ASSUME NEW p \in Place PROVE H[p] = Null
      <3>1. CASE \E l \in 0..(Direct - 1) : p = <<"direct", l, 0>>
        BY <2>1, <3>1
      <3>2. CASE p = <<"indirect1", 0, 0>> \/ p = <<"indirect2", 0, 0>>
        BY <2>2, <3>2
      <3>3. CASE \E i \in Slot : p = <<"single", i, 0>> \/ p = <<"level1", i, 0>>
        BY <2>5, <3>3
      <3>4. CASE \E i, j \in Slot : p = <<"double", i, j>>
        BY <2>6, <3>4
      <3> QED BY <3>1, <3>2, <3>3, <3>4 DEF Place
    <2> QED BY <2>7 DEF H
  <1>5. /\ \A g \in File : h[g] = Holds(m[g], image) /\ k[g] = Holds(m2[g], image)
        /\ DOMAIN k = File
    BY DEF AllHeld
  <1>6. k \in [File -> [Place -> Pointer]]
    <2>1. ASSUME NEW g \in File PROVE Holds(m2[g], image) \in [Place -> Pointer]
      BY <1>1, <1>3, HoldsAt
    <2> QED BY <2>1 DEF AllHeld
  <1> HIDE DEF m2, h, k
  <1>7. /\ \A g \in File : g # f => k[g] = h[g]
        /\ \A p \in Place : k[f][p] = Null
        /\ InUse(Holds(m[f], image)) = InUse(h[f])
    BY <1>3, <1>4, <1>5
  <1>8. InUse(h[f]) \subseteq Block
    BY <1>1, InUseFinite DEF Sound
  <1>9. Sound(k, F \cup InUse(h[f]))
    <2>1. F \cup InUse(h[f]) \subseteq Block
      BY <1>1, <1>8 DEF Sound
    <2>2. ASSUME NEW g1 \in File, NEW g2 \in File, NEW p1 \in Place, NEW p2 \in Place,
                 k[g1][p1] = k[g2][p2], k[g1][p1] # Null
          PROVE  g1 = g2 /\ p1 = p2
      <3>1. g1 # f /\ g2 # f
        BY <1>7, <2>2
      <3> QED BY <1>1, <1>7, <2>2, <3>1 DEF Sound
    <2>3. ASSUME NEW g \in File, NEW p \in Place PROVE k[g][p] \notin F \cup InUse(h[f])
      <3>1. CASE g = f
        BY <1>7, <2>1, <3>1, BlockMapAssumption
      <3>2. CASE g # f
        BY <1>1, <1>7, <3>2 DEF Sound, InUse
      <3> QED BY <3>1, <3>2
    <2> QED BY <1>6, <2>1, <2>2, <2>3 DEF Sound
  <1>10. ASSUME Covers(h, F) PROVE Covers(k, F \cup InUse(h[f]))
    <2> SUFFICES ASSUME NEW c \in Block, c \notin F \cup InUse(h[f])
                 PROVE  \E g \in File : \E p \in Place : k[g][p] = c
      BY DEF Covers
    <2>1. PICK g \in File, p \in Place : h[g][p] = c
      BY <1>10 DEF Covers
    <2>2. g # f
      BY <2>1, BlockMapAssumption DEF InUse
    <2> QED BY <1>7, <2>1, <2>2
  <1>11. Cardinality(InUse(k[f])) = 0
    <2>1. InUse(k[f]) = {}
      BY <1>7 DEF InUse
    <2> QED BY <2>1, FS_EmptySet
  <1> QED BY <1>1, <1>3, <1>5, <1>7, <1>9, <1>10, <1>11 DEF Good, m2, h, k

-----------------------------------------------------------------------------
(***************************************************************************)
(* The inductive invariant                                                 *)
(***************************************************************************)

\* block_count is never above the blocks in use, and exact until a call runs out of
\* space midway.  It can fall behind: the call may leave a level 1 pointer block in its
\* place that the inode, which is not written, does not count.
Counted(m, image, F, bad) ==
    /\ Good(m, image, F)
    /\ \A f \in File : m[f].count <= Cardinality(InUse(Holds(m[f], image)))
    /\ ~bad => Covers(AllHeld(m, image), F)
    /\ ~bad => \A f \in File : m[f].count = Cardinality(InUse(Holds(m[f], image)))

IInv == failed \in BOOLEAN /\ Counted(inode, content, free, failed)

\* What block_count becomes when d blocks are taken, or -d given up.
NewCount(n, d) == IF n + d >= 0 THEN n + d ELSE 0

LEMMA CountKept ==
    ASSUME NEW m, NEW image, NEW F, NEW bad, Counted(m, image, F, bad), NEW f \in File, NEW D,
           NEW d \in Int, NEW m2, NEW image2, NEW F2, Changes(m, image, F, f, D, d, m2, image2, F2),
           m2[f].count = NewCount(m[f].count, d)
    PROVE  Counted(m2, image2, F2, bad)
  <1>1. /\ Good(m, image, F) /\ Good(m2, image2, F2)
        /\ \A g \in File : m[g].count <= Cardinality(InUse(Holds(m[g], image)))
        /\ ~bad => \A g \in File : m[g].count = Cardinality(InUse(Holds(m[g], image)))
    BY DEF Counted, Changes
  <1>2. /\ m[f].count \in Nat
        /\ Cardinality(InUse(Holds(m[f], image))) \in Nat
        /\ Cardinality(InUse(Holds(m2[f], image2))) \in Nat
    <2>1. m[f] \in InodeMap
      BY <1>1, GoodAlone
    <2> QED BY <1>1, <2>1, GoodAlone, InUseFinite DEF InodeMap
  <1>3. Cardinality(InUse(Holds(m2[f], image2))) = Cardinality(InUse(Holds(m[f], image))) + d
    BY DEF Changes
  <1>4. \A g \in File : g # f => m2[g] = m[g] /\ Holds(m2[g], image2) = Holds(m[g], image)
    BY DEF Changes
  <1>5. m2[f].count <= Cardinality(InUse(Holds(m2[f], image2)))
    BY <1>1, <1>2, <1>3 DEF NewCount
  <1>6. ~bad => m2[f].count = Cardinality(InUse(Holds(m2[f], image2)))
    BY <1>1, <1>2, <1>3 DEF NewCount
  <1>7. ~bad => Covers(AllHeld(m2, image2), F2)
    BY DEF Counted, Changes
  <1>8. \A g \in File : m2[g].count <= Cardinality(InUse(Holds(m2[g], image2)))
    BY <1>1, <1>4, <1>5
  <1>9. ~bad => \A g \in File : m2[g].count = Cardinality(InUse(Holds(m2[g], image2)))
    BY <1>1, <1>4, <1>6
  <1> QED BY <1>1, <1>7, <1>8, <1>9 DEF Counted

\* After a call that has run out of space only the bound on block_count is left.
LEMMA FailureKept ==
    ASSUME NEW m, NEW image, NEW F, NEW bad, Counted(m, image, F, bad),
           NEW image2, NEW F2, Good(m, image2, F2),
           \A f \in File : Cardinality(InUse(Holds(m[f], image2))) >= Cardinality(InUse(Holds(m[f], image)))
    PROVE  Counted(m, image2, F2, TRUE)
  <1>1. ASSUME NEW f \in File PROVE m[f].count <= Cardinality(InUse(Holds(m[f], image2)))
    <2>1. /\ m[f] \in InodeMap /\ Good(m, image, F)
          /\ m[f].count <= Cardinality(InUse(Holds(m[f], image)))
      BY GoodAlone DEF Counted
    <2>2. /\ m[f].count \in Nat
          /\ Cardinality(InUse(Holds(m[f], image))) \in Nat
          /\ Cardinality(InUse(Holds(m[f], image2))) \in Nat
      BY <2>1, GoodAlone, InUseFinite DEF InodeMap
    <2> QED BY <2>1, <2>2
  <1> QED BY <1>1 DEF Counted

LEMMA Ready ==
    ASSUME IInv, NEW f \in File
    PROVE  /\ Good(inode, content, free)
           /\ inode \in [File -> InodeMap] /\ inode[f] \in InodeMap /\ inode[f].count \in Nat
           /\ content \in Image
           /\ free \subseteq Block
  <1>1. Good(inode, content, free)
    BY DEF IInv, Counted
  <1>2. inode[f] \in InodeMap
    BY <1>1 DEF Good
  <1> QED BY <1>1, <1>2 DEF Good, Sound, InodeMap

\* In a step of f no place of another file changes, and of f's own bytes only the block
\* at D comes or goes.
Moves(f, D) ==
    /\ \A g \in File : g # f => Holds(inode'[g], content') = Holds(inode[g], content)
    /\ \/ Adds(Holds(inode[f], content), Holds(inode'[f], content'), D)
       \/ Drops(Holds(inode[f], content), Holds(inode'[f], content'), D)

\* A call that succeeds.
LEMMA StepKept ==
    ASSUME IInv, NEW f \in File, NEW D, NEW d \in Int,
           Changes(inode, content, free, f, D, d, inode', content', free'),
           inode'[f].count = NewCount(inode[f].count, d), failed' = failed
    PROVE  IInv' /\ Moves(f, D)
  <1>1. IInv'
    BY CountKept DEF IInv
  <1>2. Moves(f, D)
    BY DEF Changes, Moves
  <1> QED BY <1>1, <1>2

\* A call that runs out of space.
LEMMA FailKept ==
    ASSUME IInv, inode' = inode, Good(inode, content', free'), failed' = TRUE,
           \A f \in File : Cardinality(InUse(Holds(inode[f], content')))
                             >= Cardinality(InUse(Holds(inode[f], content)))
    PROVE  IInv'
  <1>1. Counted(inode, content, free, failed)
    BY DEF IInv
  <1>2. Counted(inode, content', free', TRUE)
    BY <1>1, FailureKept
  <1> QED BY <1>2 DEF IInv

\* The same, when it has only written into blocks that were free.
LEMMA LostKept ==
    ASSUME IInv, inode' = inode, content' \in Image, free' \subseteq free, failed' = TRUE,
           \A c \in Block : content'[c] # content[c] => c \in free
    PROVE  IInv' /\ \A f \in File : \A D : Moves(f, D)
  <1>1. Good(inode, content, free)
    BY DEF IInv, Counted
  <1>2. Good(inode, content', free') /\ \A f \in File : Holds(inode[f], content') = Holds(inode[f], content)
    BY <1>1, Lost
  <1>3. ASSUME NEW f \in File
        PROVE  Cardinality(InUse(Holds(inode[f], content'))) >= Cardinality(InUse(Holds(inode[f], content)))
    <2>1. Cardinality(InUse(Holds(inode[f], content))) \in Nat
      BY <1>1, GoodAlone, InUseFinite
    <2> QED BY <1>2, <2>1
  <1>4. ASSUME NEW f \in File, NEW D PROVE Moves(f, D)
    BY <1>2 DEF Moves, Adds
  <1> QED BY <1>2, <1>3, <1>4, FailKept

\* What a call that succeeds leaves, when ino are the pointers it writes.
LEMMA DoneLeaves ==
    ASSUME NEW f \in File, inode[f] \in InodeMap, NEW ino \in InodeMap, ino.count = inode[f].count,
           NEW image, NEW taken, NEW k \in Nat, Cardinality(taken) = k, Done(f, ino, image, taken)
    PROVE  /\ inode' = [inode EXCEPT ![f] = WithCount(ino, inode[f].count + k)]
           /\ content' = image /\ free' = free \ taken /\ failed' = failed
  BY DEF Done, WithCount

\* The map of one file is written twice.
LEMMA Rewritten ==
    ASSUME NEW m \in [File -> InodeMap], NEW f \in File, NEW x \in InodeMap, NEW y \in InodeMap
    PROVE  [[m EXCEPT ![f] = x] EXCEPT ![f] = y] = [m EXCEPT ![f] = y]
  OBVIOUS

\* The pointers of an inode with one of them changed.
LEMMA PointerSet ==
    ASSUME NEW ino \in InodeMap, NEW b \in Pointer
    PROVE  /\ \A l \in 0..(Direct - 1) :
                SetDirectOf(ino, l, b) \in InodeMap /\ SetDirectOf(ino, l, b).count = ino.count
           /\ SetIndirect1Of(ino, b) \in InodeMap /\ SetIndirect1Of(ino, b).count = ino.count
           /\ SetIndirect1Of(ino, b).indirect1 = b
           /\ SetIndirect2Of(ino, b) \in InodeMap /\ SetIndirect2Of(ino, b).count = ino.count
           /\ SetIndirect2Of(ino, b).indirect2 = b
           /\ b = ino.indirect1 => SetIndirect1Of(ino, b) = ino
           /\ b = ino.indirect2 => SetIndirect2Of(ino, b) = ino
  BY DEF InodeMap, SetDirectOf, SetIndirect1Of, SetIndirect2Of

LEMMA WithFields ==
    ASSUME NEW ino \in InodeMap, NEW b \in Pointer, NEW n \in Nat
    PROVE  /\ \A l \in 0..(Direct - 1) :
                WithDirect(ino, l, b, n) \in InodeMap /\ WithDirect(ino, l, b, n).count = n
           /\ WithIndirect1(ino, b, n) \in InodeMap
           /\ WithIndirect1(ino, b, n).count = n /\ WithIndirect1(ino, b, n).indirect1 = b
           /\ \A k \in Nat : WithCount(WithIndirect1(ino, b, n), k) = WithIndirect1(ino, b, k)
           /\ WithIndirect2(ino, b, n) \in InodeMap
           /\ WithIndirect2(ino, b, n).count = n /\ WithIndirect2(ino, b, n).indirect2 = b
           /\ \A k \in Nat : WithCount(WithIndirect2(ino, b, n), k) = WithIndirect2(ino, b, k)
  <1>1. ASSUME NEW l \in 0..(Direct - 1)
        PROVE  WithDirect(ino, l, b, n) \in InodeMap /\ WithDirect(ino, l, b, n).count = n
    <2> DEFINE a == SetDirectOf(ino, l, b)
    <2>1. a \in InodeMap
      BY PointerSet
    <2> HIDE DEF a
    <2> QED BY <2>1, WithCountFields DEF WithDirect, a
  <1>2. /\ WithIndirect1(ino, b, n) \in InodeMap
        /\ WithIndirect1(ino, b, n).count = n /\ WithIndirect1(ino, b, n).indirect1 = b
        /\ \A k \in Nat : WithCount(WithIndirect1(ino, b, n), k) = WithIndirect1(ino, b, k)
    <2> DEFINE a == SetIndirect1Of(ino, b)
    <2>1. a \in InodeMap /\ a.indirect1 = b
      BY PointerSet
    <2> HIDE DEF a
    <2> QED BY <2>1, WithCountFields DEF WithIndirect1, a
  <1>3. /\ WithIndirect2(ino, b, n) \in InodeMap
        /\ WithIndirect2(ino, b, n).count = n /\ WithIndirect2(ino, b, n).indirect2 = b
        /\ \A k \in Nat : WithCount(WithIndirect2(ino, b, n), k) = WithIndirect2(ino, b, k)
    <2> DEFINE a == SetIndirect2Of(ino, b)
    <2>1. a \in InodeMap /\ a.indirect2 = b
      BY PointerSet
    <2> HIDE DEF a
    <2> QED BY <2>1, WithCountFields DEF WithIndirect2, a
  <1> QED BY <1>1, <1>2, <1>3

LEMMA OneMore ==
    ASSUME NEW S, IsFiniteSet(S), NEW x, x \notin S
    PROVE  IsFiniteSet(S \cup {x}) /\ Cardinality(S \cup {x}) = Cardinality(S) + 1
  BY FS_AddElement

LEMMA SmallSets ==
    /\ Cardinality({}) = 0
    /\ \A a : Cardinality({a}) = 1
    /\ \A a, b : a # b => Cardinality({a, b}) = 2
    /\ \A a, b, c : a # b /\ a # c /\ b # c => Cardinality({a, b, c}) = 3
  <1>1. \A a : Cardinality({a}) = 1 /\ IsFiniteSet({a})
    BY FS_Singleton
  <1>2. ASSUME NEW a, NEW b, a # b PROVE Cardinality({a, b}) = 2 /\ IsFiniteSet({a, b})
    <2>1. {a, b} = {a} \cup {b} /\ b \notin {a}
      BY <1>2
    <2>2. IsFiniteSet({a} \cup {b}) /\ Cardinality({a} \cup {b}) = Cardinality({a}) + 1
      BY <1>1, <2>1, OneMore
    <2>3. Cardinality({a}) + 1 = 2
      BY <1>1
    <2> QED BY <2>1, <2>2, <2>3
  <1>3. ASSUME NEW a, NEW b, NEW c, a # b, a # c, b # c PROVE Cardinality({a, b, c}) = 3
    <2>1. {a, b, c} = {a, b} \cup {c} /\ c \notin {a, b}
      BY <1>3
    <2>2. Cardinality({a, b} \cup {c}) = Cardinality({a, b}) + 1
      BY <1>2, <1>3, <2>1, OneMore
    <2>3. a # b
      BY <1>3
    <2>4. Cardinality({a, b}) = 2
      BY <1>2, <2>3
    <2> QED BY <2>1, <2>2, <2>4
  <1>4. \A a, b : a # b => Cardinality({a, b}) = 2
    BY <1>2
  <1>5. \A a, b, c : a # b /\ a # c /\ b # c => Cardinality({a, b, c}) = 3
    BY <1>3
  <1> QED BY <1>1, <1>4, <1>5, FS_EmptySet

\* What alloc leaves of the blocks it hands out when there is no cache.
LEMMA Images ==
    ASSUME ~CacheOn, content \in Image
    PROVE  /\ HandedOut({}) = content
           /\ \A a \in Block : HandedOut({a}) = Zeroed(content, a)
           /\ \A a, b \in Block : HandedOut({a, b}) = Zeroed(Zeroed(content, a), b)
           /\ \A a, b, c \in Block : HandedOut({a, b, c}) = Zeroed(Zeroed(Zeroed(content, a), b), c)
  BY DEF HandedOut, Zeroed, Image

-----------------------------------------------------------------------------
(***************************************************************************)
(* The actions                                                             *)
(***************************************************************************)

LEMMA GetDirectKept ==
    ASSUME ~CacheOn, IInv, NEW f \in File, NEW l \in Logical, GetDirect(f, l),
           NEW D, D = <<"direct", l, 0>>
    PROVE  IInv' /\ Moves(f, D)
  <1> DEFINE n == inode[f].count + 1
  <1>1. PICK d \in free : Done(f, SetDirectOf(inode[f], l, d), HandedOut({d}), {d})
    BY DEF GetDirect, SetDirectOf
  <1>2. /\ Good(inode, content, free) /\ inode \in [File -> InodeMap] /\ inode[f] \in InodeMap
        /\ content \in Image /\ inode[f].count \in Nat /\ d \in Block /\ d \in Pointer
    BY Ready DEF Pointer
  <1>3. l \in 0..(Direct - 1) /\ inode[f].direct[l] = Null
    BY BlockMapAssumption DEF GetDirect, Logical
  <1>4. n \in Nat /\ NewCount(inode[f].count, 1) = n
    BY <1>2 DEF NewCount
  <1>5. /\ inode' = [inode EXCEPT ![f] = WithDirect(inode[f], l, d, n)]
        /\ content' = Zeroed(content, d) /\ free' = free \ {d} /\ failed' = failed
    <2> DEFINE ino == SetDirectOf(inode[f], l, d)
    <2>1. ino \in InodeMap /\ ino.count = inode[f].count
      BY <1>2, <1>3, PointerSet
    <2>2. Done(f, ino, HandedOut({d}), {d})
      BY <1>1
    <2>3. Cardinality({d}) = 1 /\ HandedOut({d}) = Zeroed(content, d)
      BY <1>2, SmallSets, Images
    <2> HIDE DEF ino
    <2>4. inode' = [inode EXCEPT ![f] = WithCount(ino, n)]
      BY <1>2, <2>1, <2>2, <2>3, DoneLeaves
    <2>5. content' = Zeroed(content, d) /\ free' = free \ {d} /\ failed' = failed
      BY <2>2, <2>3 DEF Done
    <2> QED BY <2>4, <2>5 DEF WithDirect, ino
  <1> HIDE DEF n
  <1>6. Takes(inode, content, free, f, D, d, inode', content')
    BY <1>2, <1>3, <1>4, <1>5, TakeDirect
  <1>7. inode'[f].count = NewCount(inode[f].count, 1)
    <2>1. WithDirect(inode[f], l, d, n).count = n
      BY <1>2, <1>3, <1>4, WithFields
    <2> QED BY <1>2, <1>4, <1>5, <2>1
  <1>8. Changes(inode, content, free, f, D, 1, inode', content', free')
    BY <1>5, <1>6 DEF Takes
  <1>9. failed' = failed
    BY <1>5
  <1> QED BY <1>7, <1>8, <1>9, StepKept

\* What a call for a block of the single indirect region may do once the pointer block
\* is p, with new the set of it if it has just been taken.
SingleOutcome(f, i, p, new) ==
    LET image == HandedOut(new)
        ino == SetIndirect1Of(inode[f], p)
    IN  \/ image[p][i] # Null /\ Done(f, ino, image, new)
        \/ /\ image[p][i] = Null
           /\ \E d \in free \ new :
                Done(f, ino, Patched(HandedOut(new \cup {d}), p, i, d), new \cup {d})
        \/ image[p][i] = Null /\ free = new /\ OutOfSpace(image, new)

LEMMA SingleThere ==
    ASSUME ~CacheOn, IInv, NEW f \in File, NEW i \in Slot,
           NEW p \in Block, p = inode[f].indirect1, SingleOutcome(f, i, p, {}),
           NEW D, D = <<"single", i, 0>>
    PROVE  IInv' /\ Moves(f, D)
  <1> DEFINE n == inode[f].count
  <1>1. /\ Good(inode, content, free) /\ inode \in [File -> InodeMap] /\ inode[f] \in InodeMap
        /\ content \in Image /\ n \in Nat /\ free \subseteq Block
    BY Ready
  <1>2. HandedOut({}) = content
    BY <1>1, Images
  <1>3. SetIndirect1Of(inode[f], p) = inode[f]
    BY <1>1, PointerSet DEF Pointer
  <1>4. CASE Done(f, inode[f], content, {})
    <2>1. inode' = [inode EXCEPT ![f] = WithCount(inode[f], n + 0)]
      BY <1>1, <1>4, SmallSets, DoneLeaves
    <2>2. n + 0 = n
      BY <1>1
    <2>3. WithCount(inode[f], n) = inode[f]
      BY <1>1 DEF WithCount, InodeMap
    <2>4. inode' = inode
      BY <1>1, <2>1, <2>2, <2>3
    <2>5. content' = content /\ free' = free /\ failed' = failed
      BY <1>4 DEF Done
    <2> QED BY <2>4, <2>5 DEF IInv, Moves, Adds
  <1>5. ASSUME NEW d \in free, content[p][i] = Null,
               Done(f, inode[f], Patched(HandedOut({d}), p, i, d), {d})
        PROVE  IInv' /\ Moves(f, D)
    <2> DEFINE k == n + 1
    <2>1. HandedOut({d}) = Zeroed(content, d) /\ Cardinality({d}) = 1
      BY <1>1, Images, SmallSets
    <2>2. inode' = [inode EXCEPT ![f] = WithCount(inode[f], k)]
      BY <1>1, <1>5, <2>1, DoneLeaves
    <2>3. content' = Filled(content, p, i, d) /\ free' = free \ {d} /\ failed' = failed
      BY <1>5, <2>1 DEF Done, Filled
    <2>4. k \in Nat /\ NewCount(inode[f].count, 1) = k
      BY <1>1 DEF NewCount
    <2> HIDE DEF n, k
    <2>5. inode'[f].count = NewCount(inode[f].count, 1)
      BY <1>1, <2>2, <2>4, WithCountFields
    <2>6. Takes(inode, content, free, f, D, d, inode', content')
      BY <1>1, <1>5, <2>2, <2>3, <2>4, TakeSingle
    <2>7. Changes(inode, content, free, f, D, 1, inode', content', free')
      BY <2>3, <2>6 DEF Takes
    <2>8. failed' = failed
      BY <2>3
    <2> QED BY <2>5, <2>7, <2>8, StepKept
  <1>6. CASE OutOfSpace(content, {})
    BY <1>1, <1>6, LostKept DEF OutOfSpace
  <1>7. /\ \A d : {} \cup {d} = {d}
        /\ free \ {} = free
    OBVIOUS
  <1> QED BY <1>2, <1>3, <1>4, <1>5, <1>6, <1>7 DEF SingleOutcome

LEMMA SingleFresh ==
    ASSUME ~CacheOn, IInv, NEW f \in File, NEW i \in Slot,
           NEW p \in free, inode[f].indirect1 = Null, SingleOutcome(f, i, p, {p}),
           NEW D, D = <<"single", i, 0>>
    PROVE  IInv' /\ Moves(f, D)
  <1> DEFINE n == inode[f].count
             image == Zeroed(content, p)
             ino == SetIndirect1Of(inode[f], p)
  <1>1. /\ Good(inode, content, free) /\ inode \in [File -> InodeMap] /\ inode[f] \in InodeMap
        /\ content \in Image /\ n \in Nat /\ free \subseteq Block /\ p \in Block /\ p \in Pointer
    BY Ready DEF Pointer
  <1>2. HandedOut({p}) = image
    BY <1>1, Images
  <1>3. ino \in InodeMap /\ ino.count = n
    BY <1>1, PointerSet
  <1>4. image \in Image /\ image[p] = NoPointers /\ image[p][i] = Null
    BY <1>1, ZeroedUnseen DEF NoPointers
  <1>5. ASSUME NEW d \in free \ {p},
               Done(f, ino, Patched(HandedOut({p, d}), p, i, d), {p, d})
        PROVE  IInv' /\ Moves(f, D)
    <2> DEFINE k == n + 1
               l == n + 2
               m2 == [inode EXCEPT ![f] = WithIndirect1(inode[f], p, k)]
               F2 == free \ {p}
    <2>1. k \in Nat /\ l \in Nat /\ NewCount(inode[f].count, 1 + 1) = l
      BY <1>1 DEF NewCount
    <2>2. inode' = [inode EXCEPT ![f] = WithCount(ino, l)]
      <3>1. Cardinality({p, d}) = 2
        BY SmallSets
      <3> HIDE DEF ino
      <3> QED BY <1>1, <1>3, <1>5, <3>1, DoneLeaves
    <2>3. HandedOut({p, d}) = Zeroed(image, d)
      BY <1>1, <1>5, Images
    <2>4. content' = Filled(image, p, i, d) /\ free' = F2 \ {d} /\ failed' = failed
      BY <1>5, <2>3 DEF Done, Filled
    <2>5. WithCount(ino, l) = WithIndirect1(inode[f], p, l)
      BY DEF WithIndirect1
    <2> HIDE DEF n, k, l, image, ino
    <2>6. Takes(inode, content, free, f, D, p, m2, image)
      BY <1>1, <2>1, TakeIndirect1 DEF image
    <2>7. Good(m2, image, F2) /\ d \in F2
      BY <2>6 DEF Takes, Changes
    <2>8. /\ WithIndirect1(inode[f], p, k) \in InodeMap /\ WithIndirect1(inode[f], p, l) \in InodeMap
          /\ WithIndirect1(inode[f], p, k).indirect1 = p
          /\ WithIndirect1(inode[f], p, l).count = l
          /\ WithCount(WithIndirect1(inode[f], p, k), l) = WithIndirect1(inode[f], p, l)
      BY <1>1, <2>1, WithFields
    <2>9. m2[f] = WithIndirect1(inode[f], p, k) /\ m2[f].indirect1 = p
      BY <1>1, <2>8
    <2>10. inode'[f].count = NewCount(inode[f].count, 1 + 1)
      BY <1>1, <2>1, <2>2, <2>5, <2>8
    <2>11. inode' = [m2 EXCEPT ![f] = WithCount(m2[f], l)]
      BY <1>1, <2>2, <2>5, <2>8, <2>9, Rewritten
    <2> HIDE DEF m2, F2
    <2>12. Takes(m2, image, F2, f, D, d, inode', content')
      BY <1>1, <1>4, <2>1, <2>4, <2>7, <2>9, <2>11, TakeSingle
    <2>13. Changes(inode, content, free, f, D, 1 + 1, inode', content', free')
      <3>1. Changes(inode, content, free, f, D, 1, m2, image, F2)
        BY <2>6 DEF Takes, F2
      <3>2. Changes(m2, image, F2, f, D, 1, inode', content', free')
        BY <2>4, <2>12 DEF Takes
      <3> QED BY <1>1, <3>1, <3>2, Ones, ChangesAddUp
    <2>14. failed' = failed /\ 1 + 1 \in Int
      BY <2>4
    <2> QED BY <2>10, <2>13, <2>14, StepKept
  <1>6. CASE OutOfSpace(image, {p})
    <2>1. \A c \in Block : image[c] # content[c] => c \in free
      BY <1>1 DEF Zeroed, Image
    <2> QED BY <1>1, <1>4, <1>6, <2>1, LostKept DEF OutOfSpace
  <1>7. \A d : {p} \cup {d} = {p, d}
    OBVIOUS
  <1> HIDE DEF image, ino
  <1> QED BY <1>2, <1>4, <1>5, <1>6, <1>7 DEF SingleOutcome, ino

LEMMA GetSingleKept ==
    ASSUME ~CacheOn, IInv, NEW f \in File, NEW l \in Logical, GetSingle(f, l),
           NEW D, D = <<"single", l - Direct, 0>>
    PROVE  IInv' /\ Moves(f, D)
  <1> DEFINE old == inode[f].indirect1
  <1>1. PICK p \in OrFresh(old, free) : SingleOutcome(f, l - Direct, p, {p} \ {old})
    BY DEF GetSingle, SingleOutcome, SetIndirect1Of, Patched
  <1>2. l - Direct \in Slot
    BY DEF GetSingle
  <1>3. old \in Pointer /\ free \subseteq Block
    BY Ready, RootsInPlace
  <1>4. CASE old = Null
    <2>1. p \in free /\ {p} \ {old} = {p}
      BY <1>1, <1>3, <1>4, BlockMapAssumption DEF OrFresh
    <2> QED BY <1>1, <1>2, <1>4, <2>1, SingleFresh
  <1>5. CASE old # Null
    <2>1. p = old /\ p \in Block /\ {p} \ {old} = {}
      BY <1>1, <1>3, <1>5 DEF OrFresh, Pointer
    <2> QED BY <1>1, <1>2, <2>1, SingleThere
  <1> QED BY <1>4, <1>5

\* What a call for a block of the double indirect region may do once the pointer blocks
\* are p and q, with taken those that have just been taken.
DoubleData(f, i, j, p, q, taken) ==
    LET image == Patched(HandedOut(taken), p, i, q)
        ino == SetIndirect2Of(inode[f], p)
    IN  \/ image[q][j] # Null /\ Done(f, ino, image, taken)
        \/ /\ image[q][j] = Null
           /\ \E d \in free \ taken :
                Done(f, ino, Patched(Patched(HandedOut(taken \cup {d}), p, i, q), q, j, d), taken \cup {d})
        \/ image[q][j] = Null /\ free = taken /\ OutOfSpace(image, taken)

DoubleOutcome(f, i, j, p, new) ==
    LET level1 == HandedOut(new)[p]
    IN  \/ level1[i] = Null /\ free = new /\ OutOfSpace(HandedOut(new), new)
        \/ \E q \in OrFresh(level1[i], free \ new) :
             DoubleData(f, i, j, p, q, new \cup ({q} \ {level1[i]}))

LEMMA SamePatch ==
    ASSUME NEW X \in Image, NEW p \in Block, NEW i \in Slot
    PROVE  Patched(X, p, i, X[p][i]) = X
  BY DEF Image, Patched

\* The image X once the fresh block q has become a level 1 block, and once the data block
\* d is in it too.
LEMMA Prepared ==
    ASSUME NEW X \in Image, NEW p \in Block, NEW i \in Slot, NEW q \in Block, q # p, NEW j \in Slot
    PROVE  /\ Filled(X, p, i, q) \in Image
           /\ Filled(X, p, i, q)[p][i] = q /\ Filled(X, p, i, q)[q][j] = Null
           /\ \A c \in Block : Filled(X, p, i, q)[c] # X[c] => c = p \/ c = q
           /\ \A d \in Block : d # p /\ d # q =>
                Filled(Filled(X, p, i, q), q, j, d)
                  = Patched(Patched(Zeroed(Zeroed(X, q), d), p, i, q), q, j, d)
  <1> DEFINE Z == Zeroed(X, q)
             Y == Patched(Z, p, i, q)
  <1>1. /\ Z \in Image /\ Z[q] = NoPointers
        /\ \A c \in Block : c # q => Z[c] = X[c]
    BY DEF Zeroed, Image, NoPointers, Pointer
  <1>2. q \in Pointer /\ NoPointers[j] = Null
    BY DEF Pointer, NoPointers
  <1> HIDE DEF Z
  <1>3. /\ Y \in Image /\ Y[p][i] = q /\ Y[q] = NoPointers
        /\ \A c \in Block : c # p => Y[c] = Z[c]
    BY <1>1, <1>2 DEF Patched, Image
  <1>4. ASSUME NEW d \in Block, d # p PROVE Zeroed(Y, d) = Patched(Zeroed(Z, d), p, i, q)
    BY <1>1, <1>4 DEF Zeroed, Patched, Image
  <1>5. Y = Filled(X, p, i, q)
    BY DEF Filled, Z
  <1> HIDE DEF Y
  <1>6. \A d \in Block : d # p /\ d # q =>
          Filled(Y, q, j, d) = Patched(Patched(Zeroed(Z, d), p, i, q), q, j, d)
    BY <1>4 DEF Filled
  <1> QED BY <1>1, <1>2, <1>3, <1>5, <1>6 DEF Z

\* Both pointer blocks are there.
LEMMA DoubleThere ==
    ASSUME ~CacheOn, IInv, NEW f \in File, NEW i \in Slot, NEW j \in Slot,
           NEW p \in Block, p = inode[f].indirect2, NEW q \in Block, q = content[p][i],
           DoubleData(f, i, j, p, q, {}),
           NEW D, D = <<"double", i, j>>
    PROVE  IInv' /\ Moves(f, D)
  <1> DEFINE n == inode[f].count
  <1>1. /\ Good(inode, content, free) /\ inode \in [File -> InodeMap] /\ inode[f] \in InodeMap
        /\ content \in Image /\ n \in Nat /\ free \subseteq Block
    BY Ready
  <1>2. Patched(HandedOut({}), p, i, q) = content
    BY <1>1, Images, SamePatch
  <1>3. SetIndirect2Of(inode[f], p) = inode[f]
    BY <1>1, PointerSet DEF Pointer
  <1>4. CASE Done(f, inode[f], content, {})
    <2>1. inode' = [inode EXCEPT ![f] = WithCount(inode[f], n + 0)]
      BY <1>1, <1>4, SmallSets, DoneLeaves
    <2>2. n + 0 = n
      BY <1>1
    <2>3. WithCount(inode[f], n) = inode[f]
      BY <1>1 DEF WithCount, InodeMap
    <2>4. inode' = inode
      BY <1>1, <2>1, <2>2, <2>3
    <2>5. content' = content /\ free' = free /\ failed' = failed
      BY <1>4 DEF Done
    <2> QED BY <2>4, <2>5 DEF IInv, Moves, Adds
  <1>5. ASSUME NEW d \in free, content[q][j] = Null,
               Done(f, inode[f], Patched(Patched(HandedOut({d}), p, i, q), q, j, d), {d})
        PROVE  IInv' /\ Moves(f, D)
    <2> DEFINE k == n + 1
    <2>1. HandedOut({d}) = Zeroed(content, d) /\ Cardinality({d}) = 1
      BY <1>1, Images, SmallSets
    <2>2. Patched(Zeroed(content, d), p, i, q) = Zeroed(content, d)
      <3>1. Holds(inode[f], content)[<<"indirect2", 0, 0>>] = p /\ <<"indirect2", 0, 0>> \in Place
        BY <1>1, HoldsAt, PlacesOfKinds
      <3>2. p # d
        BY <1>1, <3>1, GoodAlone
      <3>3. Zeroed(content, d) \in Image /\ Zeroed(content, d)[p] = content[p]
        BY <1>1, <3>2, ZeroedUnseen
      <3> QED BY <3>3, SamePatch
    <2>3. inode' = [inode EXCEPT ![f] = WithCount(inode[f], k)]
      BY <1>1, <1>5, <2>1, DoneLeaves
    <2>4. content' = Filled(content, q, j, d) /\ free' = free \ {d} /\ failed' = failed
      BY <1>5, <2>1, <2>2 DEF Done, Filled
    <2>5. k \in Nat /\ NewCount(inode[f].count, 1) = k
      BY <1>1 DEF NewCount
    <2> HIDE DEF n, k
    <2>6. inode'[f].count = NewCount(inode[f].count, 1)
      BY <1>1, <2>3, <2>5, WithCountFields
    <2>7. Takes(inode, content, free, f, D, d, inode', content')
      BY <1>1, <1>5, <2>3, <2>4, <2>5, TakeDouble
    <2>8. Changes(inode, content, free, f, D, 1, inode', content', free')
      BY <2>4, <2>7 DEF Takes
    <2>9. failed' = failed
      BY <2>4
    <2> QED BY <2>6, <2>8, <2>9, StepKept
  <1>6. CASE OutOfSpace(content, {})
    BY <1>1, <1>6, LostKept DEF OutOfSpace
  <1>7. /\ \A d : {} \cup {d} = {d}
        /\ free \ {} = free
    OBVIOUS
  <1> QED BY <1>2, <1>3, <1>4, <1>5, <1>6, <1>7 DEF DoubleData

\* The level 1 block q has just been taken.
LEMMA DoubleNewLevel1 ==
    ASSUME ~CacheOn, IInv, NEW f \in File, NEW i \in Slot, NEW j \in Slot,
           NEW p \in Block, p = inode[f].indirect2, content[p][i] = Null, NEW q \in free,
           DoubleData(f, i, j, p, q, {q}),
           NEW D, D = <<"double", i, j>>
    PROVE  IInv' /\ Moves(f, D)
  <1> DEFINE n == inode[f].count
             image == Filled(content, p, i, q)
  <1>1. /\ Good(inode, content, free) /\ inode \in [File -> InodeMap] /\ inode[f] \in InodeMap
        /\ content \in Image /\ n \in Nat /\ free \subseteq Block /\ q \in Block
    BY Ready
  <1>2. \A d \in free : d # p
    <2>1. Holds(inode[f], content)[<<"indirect2", 0, 0>>] = p /\ <<"indirect2", 0, 0>> \in Place
      BY <1>1, HoldsAt, PlacesOfKinds
    <2> QED BY <1>1, <2>1, GoodAlone
  <1>3. Patched(HandedOut({q}), p, i, q) = image
    BY <1>1, Images DEF Filled
  <1>4. image \in Image /\ image[p][i] = q /\ image[q][j] = Null
    BY <1>1, <1>2, Prepared
  <1>5. SetIndirect2Of(inode[f], p) = inode[f]
    BY <1>1, PointerSet DEF Pointer
  <1>6. ASSUME NEW d \in free \ {q},
               Done(f, inode[f], Patched(Patched(HandedOut({q, d}), p, i, q), q, j, d), {q, d})
        PROVE  IInv' /\ Moves(f, D)
    <2> DEFINE k == n + 1
               l == n + 2
               m2 == [inode EXCEPT ![f] = WithCount(inode[f], k)]
               F2 == free \ {q}
    <2>1. k \in Nat /\ l \in Nat /\ NewCount(inode[f].count, 1 + 1) = l
      BY <1>1 DEF NewCount
    <2>2. inode' = [inode EXCEPT ![f] = WithCount(inode[f], l)]
      <3>1. Cardinality({q, d}) = 2
        BY SmallSets
      <3> QED BY <1>1, <1>6, <3>1, DoneLeaves
    <2>3. Patched(Patched(HandedOut({q, d}), p, i, q), q, j, d) = Filled(image, q, j, d)
      <3>1. HandedOut({q, d}) = Zeroed(Zeroed(content, q), d)
        BY <1>1, <1>6, Images
      <3>2. d \in Block /\ d # p /\ d # q /\ q # p
        BY <1>1, <1>2, <1>6
      <3> QED BY <1>1, <3>1, <3>2, Prepared
    <2>4. content' = Filled(image, q, j, d) /\ free' = F2 \ {d} /\ failed' = failed
      BY <1>6, <2>3 DEF Done
    <2> HIDE DEF n, k, l, image
    <2>5. Takes(inode, content, free, f, D, q, m2, image)
      BY <1>1, <2>1, TakeLevel1 DEF image
    <2>6. Good(m2, image, F2) /\ d \in F2
      BY <2>5 DEF Takes, Changes
    <2>7. /\ WithCount(inode[f], k) \in InodeMap /\ WithCount(inode[f], l) \in InodeMap
          /\ WithCount(inode[f], k).indirect2 = p
          /\ WithCount(inode[f], l).count = l
          /\ WithCount(WithCount(inode[f], k), l) = WithCount(inode[f], l)
      BY <1>1, <2>1, WithCountFields
    <2>8. m2[f] = WithCount(inode[f], k) /\ m2[f].indirect2 = p
      BY <1>1, <2>7
    <2>9. inode'[f].count = NewCount(inode[f].count, 1 + 1)
      BY <1>1, <2>1, <2>2, <2>7
    <2>10. inode' = [m2 EXCEPT ![f] = WithCount(m2[f], l)]
      BY <1>1, <2>2, <2>7, <2>8, Rewritten
    <2> HIDE DEF m2, F2
    <2>11. Takes(m2, image, F2, f, D, d, inode', content')
      BY <1>1, <1>4, <2>1, <2>4, <2>6, <2>8, <2>10, TakeDouble
    <2>12. Changes(inode, content, free, f, D, 1 + 1, inode', content', free')
      <3>1. Changes(inode, content, free, f, D, 1, m2, image, F2)
        BY <2>5 DEF Takes, F2
      <3>2. Changes(m2, image, F2, f, D, 1, inode', content', free')
        BY <2>4, <2>11 DEF Takes
      <3> QED BY <1>1, <3>1, <3>2, Ones, ChangesAddUp
    <2>13. failed' = failed /\ 1 + 1 \in Int
      BY <2>4
    <2> QED BY <2>9, <2>12, <2>13, StepKept
  <1>7. CASE OutOfSpace(image, {q})
    <2>1. inode' = inode /\ content' = image /\ free' = free \ {q} /\ failed' = TRUE
      BY <1>7 DEF OutOfSpace
    <2>2. [inode EXCEPT ![f] = WithCount(inode[f], n)] = inode
      BY <1>1 DEF WithCount, InodeMap
    <2>3. Takes(inode, content, free, f, D, q, [inode EXCEPT ![f] = WithCount(inode[f], n)], image)
      BY <1>1, TakeLevel1
    <2> HIDE DEF image, n
    <2>4. Changes(inode, content, free, f, D, 1, inode, image, free \ {q})
      BY <2>2, <2>3 DEF Takes
    <2>5. Good(inode, content', free')
      BY <2>1, <2>4 DEF Changes
    <2>6. ASSUME NEW g \in File
          PROVE  Cardinality(InUse(Holds(inode[g], content'))) >= Cardinality(InUse(Holds(inode[g], content)))
      <3>1. Cardinality(InUse(Holds(inode[g], content))) \in Nat
        BY <1>1, GoodAlone, InUseFinite
      <3> QED BY <2>1, <2>4, <3>1 DEF Changes
    <2>7. Moves(f, D)
      BY <2>1, <2>4 DEF Changes, Moves
    <2> QED BY <2>1, <2>5, <2>6, <2>7, FailKept
  <1>8. \A d : {q} \cup {d} = {q, d}
    OBVIOUS
  <1> HIDE DEF image
  <1> QED BY <1>3, <1>4, <1>5, <1>6, <1>7, <1>8 DEF DoubleData

\* Both pointer blocks have just been taken.
LEMMA DoubleNew ==
    ASSUME ~CacheOn, IInv, NEW f \in File, NEW i \in Slot, NEW j \in Slot,
           NEW p \in free, inode[f].indirect2 = Null, NEW q \in free \ {p},
           DoubleData(f, i, j, p, q, {p, q}),
           NEW D, D = <<"double", i, j>>
    PROVE  IInv' /\ Moves(f, D)
  <1> DEFINE n == inode[f].count
             zero == Zeroed(content, p)
             image == Filled(zero, p, i, q)
             ino == SetIndirect2Of(inode[f], p)
  <1>1. /\ Good(inode, content, free) /\ inode \in [File -> InodeMap] /\ inode[f] \in InodeMap
        /\ content \in Image /\ n \in Nat /\ free \subseteq Block
        /\ p \in Block /\ p \in Pointer /\ q \in Block /\ q # p
    BY Ready DEF Pointer
  <1>2. ino \in InodeMap /\ ino.count = n
    BY <1>1, PointerSet
  <1>3. /\ zero \in Image /\ zero[p] = NoPointers /\ zero[p][i] = Null
        /\ \A c \in Block : c # p => zero[c] = content[c]
    BY <1>1, ZeroedUnseen DEF NoPointers
  <1>4. Patched(HandedOut({p, q}), p, i, q) = image
    BY <1>1, Images DEF Filled
  <1>5. /\ image \in Image /\ image[p][i] = q /\ image[q][j] = Null
        /\ \A c \in Block : image[c] # zero[c] => c = p \/ c = q
    <2> HIDE DEF zero
    <2> QED BY <1>1, <1>3, Prepared
  <1>6. ASSUME NEW d \in free \ {p, q},
               Done(f, ino, Patched(Patched(HandedOut({p, q, d}), p, i, q), q, j, d), {p, q, d})
        PROVE  IInv' /\ Moves(f, D)
    <2> DEFINE k1 == n + 1
               k2 == n + 2
               k3 == n + 3
               m2 == [inode EXCEPT ![f] = WithIndirect2(inode[f], p, k1)]
               F2 == free \ {p}
               m3 == [m2 EXCEPT ![f] = WithCount(m2[f], k2)]
               F3 == F2 \ {q}
    <2>1. k1 \in Nat /\ k2 \in Nat /\ k3 \in Nat /\ NewCount(inode[f].count, 1 + 1 + 1) = k3
      BY <1>1 DEF NewCount
    <2>2. inode' = [inode EXCEPT ![f] = WithCount(ino, k3)]
      <3>1. Cardinality({p, q, d}) = 3
        BY SmallSets
      <3> HIDE DEF ino
      <3> QED BY <1>1, <1>2, <1>6, <3>1, DoneLeaves
    <2>3. Patched(Patched(HandedOut({p, q, d}), p, i, q), q, j, d) = Filled(image, q, j, d)
      <3>1. HandedOut({p, q, d}) = Zeroed(Zeroed(zero, q), d)
        BY <1>1, <1>6, Images
      <3>2. d \in Block /\ d # p /\ d # q
        BY <1>1, <1>6
      <3> HIDE DEF zero
      <3> QED BY <1>1, <1>3, <3>1, <3>2, Prepared
    <2>4. content' = Filled(image, q, j, d) /\ free' = F3 \ {d} /\ failed' = failed
      BY <1>6, <2>3 DEF Done
    <2>5. WithCount(ino, k3) = WithIndirect2(inode[f], p, k3)
      BY DEF WithIndirect2
    <2> HIDE DEF n, k1, k2, k3, image, zero, ino
    <2>6. Takes(inode, content, free, f, D, p, m2, zero)
      BY <1>1, <2>1, TakeIndirect2 DEF zero
    <2>7. Good(m2, zero, F2) /\ q \in F2
      BY <2>6 DEF Takes, Changes
    <2>8. /\ WithIndirect2(inode[f], p, k1) \in InodeMap /\ WithIndirect2(inode[f], p, k2) \in InodeMap
          /\ WithIndirect2(inode[f], p, k3) \in InodeMap
          /\ WithIndirect2(inode[f], p, k1).indirect2 = p /\ WithIndirect2(inode[f], p, k2).indirect2 = p
          /\ WithIndirect2(inode[f], p, k3).count = k3
          /\ WithCount(WithIndirect2(inode[f], p, k1), k2) = WithIndirect2(inode[f], p, k2)
          /\ WithCount(WithIndirect2(inode[f], p, k2), k3) = WithIndirect2(inode[f], p, k3)
      <3>1. \A k \in Nat :
              /\ WithIndirect2(inode[f], p, k) \in InodeMap
              /\ WithIndirect2(inode[f], p, k).indirect2 = p
              /\ WithIndirect2(inode[f], p, k).count = k
        BY <1>1, WithFields
      <3>2. \A k, a \in Nat : WithCount(WithIndirect2(inode[f], p, k), a) = WithIndirect2(inode[f], p, a)
        BY <1>1, WithFields
      <3> QED BY <2>1, <3>1, <3>2
    <2>9. m2[f] = WithIndirect2(inode[f], p, k1) /\ m2[f].indirect2 = p /\ m2 \in [File -> InodeMap]
      BY <1>1, <2>8
    <2>10. /\ m3 = [inode EXCEPT ![f] = WithIndirect2(inode[f], p, k2)]
           /\ m3[f] = WithIndirect2(inode[f], p, k2) /\ m3[f].indirect2 = p
      <3>1. m3 = [inode EXCEPT ![f] = WithIndirect2(inode[f], p, k2)]
        BY <1>1, <2>8, <2>9, Rewritten
      <3>2. m3[f] = WithCount(m2[f], k2)
        BY <2>9
      <3> QED BY <2>8, <2>9, <3>1, <3>2
    <2>11. inode'[f].count = NewCount(inode[f].count, 1 + 1 + 1)
      BY <1>1, <2>1, <2>2, <2>5, <2>8
    <2>12. inode' = [m3 EXCEPT ![f] = WithCount(m3[f], k3)]
      <3> HIDE DEF m3
      <3> QED BY <1>1, <2>2, <2>5, <2>8, <2>10, Rewritten
    <2>13. Takes(m2, zero, F2, f, D, q, m3, image)
      <3> HIDE DEF m2, F2
      <3> QED BY <1>1, <1>3, <2>1, <2>7, <2>9, TakeLevel1 DEF image
    <2> HIDE DEF m2, F2, m3
    <2>14. Good(m3, image, F3) /\ d \in F3
      BY <1>6, <2>13 DEF Takes, Changes, F2
    <2> HIDE DEF F3
    <2>15. Takes(m3, image, F3, f, D, d, inode', content')
      BY <1>1, <1>5, <2>1, <2>4, <2>10, <2>12, <2>14, TakeDouble
    <2>16. Changes(inode, content, free, f, D, 1 + 1 + 1, inode', content', free')
      <3>1. Changes(inode, content, free, f, D, 1, m2, zero, F2)
        BY <2>6 DEF Takes, F2
      <3>2. Changes(m2, zero, F2, f, D, 1, m3, image, F3)
        BY <2>13 DEF Takes, F3
      <3>3. Changes(m3, image, F3, f, D, 1, inode', content', free')
        BY <2>4, <2>15 DEF Takes
      <3>4. Changes(inode, content, free, f, D, 1 + 1, m3, image, F3)
        BY <1>1, <3>1, <3>2, Ones, ChangesAddUp
      <3> QED BY <1>1, <3>3, <3>4, Ones, ChangesAddUp
    <2>17. failed' = failed /\ 1 + 1 + 1 \in Int
      BY <2>4
    <2> QED BY <2>11, <2>16, <2>17, StepKept
  <1>7. CASE OutOfSpace(image, {p, q})
    <2>1. inode' = inode /\ content' = image /\ free' = free \ {p, q} /\ failed' = TRUE
      BY <1>7 DEF OutOfSpace
    <2>2. \A c \in Block : image[c] # content[c] => c \in free
      BY <1>3, <1>5
    <2> HIDE DEF image
    <2> QED BY <1>5, <2>1, <2>2, LostKept
  <1>8. \A d : {p, q} \cup {d} = {p, q, d}
    OBVIOUS
  <1> HIDE DEF image, ino
  <1> QED BY <1>4, <1>5, <1>6, <1>7, <1>8 DEF DoubleData, ino

LEMMA DivMod ==
    ASSUME NEW r \in Nat, r < PerBlock * PerBlock
    PROVE  r \div PerBlock \in Slot /\ r % PerBlock \in Slot
  <1>1. PerBlock \in Nat \ {0}
    BY BlockMapAssumption
  <1>2. /\ r \div PerBlock \in Nat
        /\ (r % PerBlock) \in 0..(PerBlock - 1)
    BY <1>1
  <1>3. r \div PerBlock < PerBlock
    BY <1>1, SMTT(30)
  <1> QED BY <1>1, <1>2, <1>3 DEF Slot

LEMMA LogicalSlots ==
    ASSUME NEW l \in Logical
    PROVE  /\ l \in Nat
           /\ LET r == l - Direct - PerBlock
              IN  r >= 0 => r \div PerBlock \in Slot /\ r % PerBlock \in Slot
  <1>1. Direct \in Nat /\ PerBlock \in Nat /\ PerBlock * PerBlock \in Nat
    BY BlockMapAssumption
  <1>2. l \in Nat /\ l < Direct + PerBlock + PerBlock * PerBlock
    BY <1>1 DEF Logical
  <1>3. ASSUME l - Direct - PerBlock >= 0
        PROVE  l - Direct - PerBlock \in Nat /\ l - Direct - PerBlock < PerBlock * PerBlock
    BY <1>1, <1>2, <1>3
  <1> QED BY <1>2, <1>3, DivMod

\* The place of a logical block of the double indirect region.
DoubleAt(l) == <<"double", (l - Direct - PerBlock) \div PerBlock, (l - Direct - PerBlock) % PerBlock>>

LEMMA GetDoubleKept ==
    ASSUME ~CacheOn, IInv, NEW f \in File, NEW l \in Logical, GetDouble(f, l),
           NEW D, D = DoubleAt(l)
    PROVE  IInv' /\ Moves(f, D)
  <1> DEFINE old == inode[f].indirect2
             i == (l - Direct - PerBlock) \div PerBlock
             j == (l - Direct - PerBlock) % PerBlock
  <1>1. PICK p \in OrFresh(old, free) : DoubleOutcome(f, i, j, p, {p} \ {old})
    BY DEF GetDouble, DoubleOutcome, DoubleData, SetIndirect2Of, Patched
  <1>2. i \in Slot /\ j \in Slot
    BY LogicalSlots DEF GetDouble
  <1>3. /\ old \in Pointer /\ free \subseteq Block /\ content \in Image
        /\ \A s \in Slot : PointersIn(content, old)[s] \in Pointer
    BY Ready, RootsInPlace
  <1>6. D = <<"double", i, j>>
    BY DEF DoubleAt
  <1> HIDE DEF i, j
  <1>4. CASE old = Null
    <2> DEFINE image == HandedOut({p})
    <2>1. p \in free /\ p \in Block /\ {p} \ {old} = {p}
      BY <1>1, <1>3, <1>4, BlockMapAssumption DEF OrFresh
    <2>2. image = Zeroed(content, p)
      BY <1>3, <2>1, Images
    <2>3. image \in Image /\ image[p][i] = Null
      <3>1. Zeroed(content, p) \in Image /\ Zeroed(content, p)[p] = NoPointers
        BY <1>3, <2>1 DEF Zeroed, Image, NoPointers, Pointer
      <3>2. NoPointers[i] = Null
        BY <1>2 DEF NoPointers
      <3> QED BY <2>2, <3>1, <3>2
    <2>4. CASE free = {p} /\ OutOfSpace(image, {p})
      <3>1. \A c \in Block : image[c] # content[c] => c \in free
        BY <1>3, <2>1, <2>2 DEF Zeroed, Image
      <3> HIDE DEF image
      <3> QED BY <2>3, <2>4, <3>1, LostKept DEF OutOfSpace
    <2>5. ASSUME NEW q \in free \ {p}, DoubleData(f, i, j, p, q, {p} \cup ({q} \ {Null}))
          PROVE  IInv' /\ Moves(f, D)
      <3>1. {p} \cup ({q} \ {Null}) = {p, q}
        BY <1>3, BlockMapAssumption
      <3>2. DoubleData(f, i, j, p, q, {p, q})
        BY <2>5, <3>1
      <3> QED BY <1>2, <1>4, <2>1, <3>2, <1>6, DoubleNew
    <2> HIDE DEF image
    <2> QED BY <1>1, <2>1, <2>3, <2>4, <2>5 DEF DoubleOutcome, OrFresh, image
  <1>5. CASE old # Null
    <2>1. p = old /\ p \in Block /\ {p} \ {old} = {}
      BY <1>1, <1>3, <1>5 DEF OrFresh, Pointer
    <2>2. HandedOut({}) = content
      BY <1>3, Images
    <2>3. content[p][i] \in Pointer
      BY <1>2, <1>3, <1>5, <2>1 DEF PointersIn
    <2>4. CASE OutOfSpace(content, {})
      BY <1>3, <2>4, LostKept DEF OutOfSpace
    <2>5. ASSUME NEW q \in OrFresh(content[p][i], free \ {}),
                 DoubleData(f, i, j, p, q, {} \cup ({q} \ {content[p][i]}))
          PROVE  IInv' /\ Moves(f, D)
      <3>1. CASE content[p][i] = Null
        <4>1. q \in free /\ {} \cup ({q} \ {content[p][i]}) = {q}
          BY <1>3, <2>5, <3>1, BlockMapAssumption DEF OrFresh
        <4>2. DoubleData(f, i, j, p, q, {q})
          BY <2>5, <4>1
        <4> QED BY <1>2, <2>1, <3>1, <4>1, <4>2, <1>6, DoubleNewLevel1
      <3>2. CASE content[p][i] # Null
        <4>1. q = content[p][i] /\ q \in Block /\ {} \cup ({q} \ {content[p][i]}) = {}
          BY <2>3, <2>5, <3>2 DEF OrFresh, Pointer
        <4>2. DoubleData(f, i, j, p, q, {})
          BY <2>5, <4>1
        <4> QED BY <1>2, <2>1, <4>1, <4>2, <1>6, DoubleThere
      <3> QED BY <3>1, <3>2
    <2> QED BY <1>1, <2>1, <2>2, <2>4, <2>5 DEF DoubleOutcome
  <1> QED BY <1>4, <1>5

\* What a call that gives up k blocks leaves, when ino are the pointers it writes.
LEMMA FreedLeaves ==
    ASSUME NEW f \in File, inode[f] \in InodeMap, NEW ino \in InodeMap, ino.count = inode[f].count,
           NEW image, NEW released, NEW k \in Nat, Cardinality(released) = k, Freed(f, ino, image, released)
    PROVE  /\ inode' = [inode EXCEPT ![f] = WithCount(ino, NewCount(inode[f].count, -k))]
           /\ NewCount(inode[f].count, -k) \in Nat
           /\ content' = image /\ free' = free \cup released /\ failed' = failed
  <1>1. ino.count \in Nat
    BY DEF InodeMap
  <1>2. NewCount(inode[f].count, -k) = IF ino.count >= k THEN ino.count - k ELSE 0
    BY <1>1 DEF NewCount
  <1>3. NewCount(inode[f].count, -k) \in Nat
    BY <1>1, <1>2
  <1>4. [ino EXCEPT !.count = IF @ >= Cardinality(released) THEN @ - Cardinality(released) ELSE 0]
          = WithCount(ino, NewCount(inode[f].count, -k))
    BY <1>1, <1>2 DEF WithCount, InodeMap
  <1> QED BY <1>3, <1>4 DEF Freed

LEMMA ReleaseDirectKept ==
    ASSUME IInv, NEW f \in File, NEW l \in Logical, ReleaseDirect(f, l),
           NEW D, D = <<"direct", l, 0>>
    PROVE  IInv' /\ Moves(f, D)
  <1> DEFINE b == inode[f].direct[l]
             k == NewCount(inode[f].count, -1)
             ino == SetDirectOf(inode[f], l, Null)
  <1>1. /\ Good(inode, content, free) /\ inode \in [File -> InodeMap] /\ inode[f] \in InodeMap
        /\ content \in Image /\ Null \in Pointer
    BY Ready DEF Pointer
  <1>2. l \in 0..(Direct - 1)
    BY BlockMapAssumption, LogicalSlots DEF ReleaseDirect
  <1>3. b \in Block
    <2>1. b # Null
      BY DEF ReleaseDirect
    <2>2. b \in Pointer
      BY <1>1, <1>2, RootsInPlace
    <2> QED BY <2>1, <2>2 DEF Pointer
  <1>4. Freed(f, ino, content, {b})
    BY DEF ReleaseDirect, SetDirectOf
  <1>5. ino \in InodeMap /\ ino.count = inode[f].count /\ Cardinality({b}) = 1
    BY <1>1, <1>2, PointerSet, SmallSets
  <1>6. WithCount(ino, k) = WithDirect(inode[f], l, Null, k)
    BY DEF WithDirect
  <1> HIDE DEF ino, b
  <1>7. /\ inode' = [inode EXCEPT ![f] = WithCount(ino, k)]
        /\ k \in Nat
        /\ content' = content /\ free' = free \cup {b} /\ failed' = failed
    BY <1>1, <1>4, <1>5, FreedLeaves
  <1>8. inode'[f].count = NewCount(inode[f].count, -1)
    BY <1>1, <1>5, <1>7, WithCountFields
  <1> HIDE DEF k
  <1>9. Gives(inode, content, free, f, D, b, inode', content')
    BY <1>1, <1>2, <1>3, <1>6, <1>7, GiveDirect DEF b
  <1>10. Changes(inode, content, free, f, D, -1, inode', content', free')
    BY <1>7, <1>9 DEF Gives
  <1>11. failed' = failed /\ -1 \in Int
    BY <1>7
  <1> QED BY <1>8, <1>10, <1>11, StepKept

LEMMA ReleaseSingleKept ==
    ASSUME IInv, NEW f \in File, NEW l \in Logical, ReleaseSingle(f, l),
           NEW D, D = <<"single", l - Direct, 0>>
    PROVE  IInv' /\ Moves(f, D)
  <1> DEFINE i == l - Direct
             p == inode[f].indirect1
             b == content[p][i]
             cut == Patched(content, p, i, Null)
             ino == SetIndirect1Of(inode[f], Null)
  <1>1. /\ Good(inode, content, free) /\ inode \in [File -> InodeMap] /\ inode[f] \in InodeMap
        /\ content \in Image /\ Null \in Pointer
    BY Ready DEF Pointer
  <1>2. i \in Slot /\ p # Null /\ b # Null
    BY DEF ReleaseSingle
  <1>3. p \in Block /\ b \in Block
    <2>1. p \in Block
      BY <1>1, <1>2, RootsInPlace DEF Pointer
    <2>2. content[p][i] \in Pointer
      BY <1>1, <1>2, <2>1 DEF Image
    <2> QED BY <1>2, <2>1, <2>2 DEF Pointer
  <1>4. \/ cut[p] = NoPointers /\ Freed(f, ino, content, {b, p})
        \/ Freed(f, inode[f], cut, {b})
    <2>1. cut[p] = [content[p] EXCEPT ![i] = Null]
      BY <1>1, <1>3 DEF Patched, Image
    <2>2. cut = [content EXCEPT ![p] = [content[p] EXCEPT ![i] = Null]]
      BY DEF Patched
    <2> HIDE DEF cut, ino
    <2> QED BY <2>1, <2>2 DEF ReleaseSingle, SetIndirect1Of, ino
  <1>8. D = <<"single", i, 0>>
    OBVIOUS
  <1> HIDE DEF i
  <1>5. ASSUME NEW k \in Nat
        PROVE  Gives(inode, content, free, f, D, b, [inode EXCEPT ![f] = WithCount(inode[f], k)], cut)
    <2>1. b = content[p][i] /\ p = inode[f].indirect1
      OBVIOUS
    <2> HIDE DEF b, p
    <2> QED BY <1>1, <1>2, <1>3, <1>8, <2>1, GiveSingle
  <1>6. CASE cut[p] = NoPointers /\ Freed(f, ino, content, {b, p})
    <2> DEFINE k == NewCount(inode[f].count, -2)
               m2 == [inode EXCEPT ![f] = WithCount(inode[f], k)]
               F2 == free \cup {b}
    <2>1. b # p
      <3>1. Holds(inode[f], content)[<<"indirect1", 0, 0>>] = p /\ <<"indirect1", 0, 0>> \in Place
        BY <1>1, HoldsAt, PlacesOfKinds
      <3>2. Holds(inode[f], content)[<<"single", i, 0>>] = b /\ <<"single", i, 0>> \in Place
        <4>1. PointersIn(content, p) = content[p]
          BY <1>2 DEF PointersIn
        <4> QED BY <1>1, <1>2, <4>1, HoldsSingle, PlacesOfKinds
      <3>3. Alone(Holds(inode[f], content))
        BY <1>1, GoodAlone
      <3> HIDE DEF b, p
      <3> QED BY <1>2, <3>1, <3>2, <3>3 DEF Alone
    <2>2. ino \in InodeMap /\ ino.count = inode[f].count /\ Cardinality({b, p}) = 2
      <3>1. Cardinality({b, p}) = 2
        BY <2>1, SmallSets
      <3> QED BY <1>1, <3>1, PointerSet
    <2>3. WithCount(ino, k) = WithIndirect1(inode[f], Null, k)
      BY DEF WithIndirect1
    <2> HIDE DEF ino
    <2>4. /\ inode' = [inode EXCEPT ![f] = WithCount(ino, k)]
          /\ k \in Nat
          /\ content' = content /\ free' = free \cup {b, p} /\ failed' = failed
      BY <1>1, <1>6, <2>2, FreedLeaves
    <2>5. inode'[f].count = NewCount(inode[f].count, -1 + -1)
      <3>1. -1 + -1 = -2
        OBVIOUS
      <3> QED BY <1>1, <2>2, <2>4, <3>1, WithCountFields
    <2> HIDE DEF k
    <2>6. Gives(inode, content, free, f, D, b, m2, cut)
      BY <1>5, <2>4
    <2>7. Good(m2, cut, F2) /\ free' = F2 \cup {p}
      BY <2>4, <2>6 DEF Gives, Changes
    <2>8. /\ m2[f] = WithCount(inode[f], k) /\ m2[f] \in InodeMap
          /\ m2[f].indirect1 = p
      BY <1>1, <2>4, WithCountFields
    <2>9. WithIndirect1(m2[f], Null, k) = WithIndirect1(inode[f], Null, k)
      <3>1. SetIndirect1Of(inode[f], Null).direct = inode[f].direct
        BY <1>1 DEF SetIndirect1Of, InodeMap
      <3>2. SetIndirect1Of(WithCount(inode[f], k), Null) = WithCount(SetIndirect1Of(inode[f], Null), k)
        BY <1>1, <2>4 DEF SetIndirect1Of, WithCount, InodeMap
      <3>3. WithCount(WithCount(SetIndirect1Of(inode[f], Null), k), k) = WithCount(SetIndirect1Of(inode[f], Null), k)
        BY <1>1, <2>4, PointerSet, WithCountFields
      <3> QED BY <2>8, <3>2, <3>3 DEF WithIndirect1
    <2>10. inode' = [m2 EXCEPT ![f] = WithIndirect1(m2[f], Null, k)]
      <3>1. WithIndirect1(inode[f], Null, k) \in InodeMap
        BY <1>1, <2>4, WithFields
      <3> QED BY <1>1, <2>3, <2>4, <2>8, <2>9, <3>1, Rewritten
    <2>11. \A c \in Block : content[c] # cut[c] => c = p
      BY <1>1, <1>3 DEF Patched, Image
    <2>12. Gives(m2, cut, F2, f, D, p, inode', content')
      <3>1. content' \in Image /\ \A c \in Block : content'[c] # cut[c] => c = p
        BY <1>1, <2>4, <2>11
      <3> HIDE DEF m2, F2, cut, p
      <3>2. Good(m2, cut, F2) /\ p \in Block /\ p = m2[f].indirect1 /\ cut[p] = NoPointers
        BY <1>3, <1>6, <2>7, <2>8
      <3>3. Gives(m2, cut, F2, f, D, p, [m2 EXCEPT ![f] = WithIndirect1(m2[f], Null, k)], content')
        BY <2>4, <3>1, <3>2, GiveIndirect1
      <3> QED BY <2>10, <3>3
    <2> HIDE DEF m2, F2, cut, p
    <2>13. Changes(inode, content, free, f, D, -1 + -1, inode', content', free')
      <3>1. Changes(inode, content, free, f, D, -1, m2, cut, F2)
        BY <2>6 DEF Gives, F2
      <3>2. Changes(m2, cut, F2, f, D, -1, inode', content', free')
        BY <2>7, <2>12 DEF Gives
      <3> QED BY <1>1, <3>1, <3>2, Ones, ChangesAddUp
    <2>14. failed' = failed /\ -1 + -1 \in Int
      BY <2>4
    <2> QED BY <2>5, <2>13, <2>14, StepKept
  <1>7. CASE Freed(f, inode[f], cut, {b})
    <2> DEFINE k == NewCount(inode[f].count, -1)
    <2> HIDE DEF b, cut
    <2>1. /\ inode' = [inode EXCEPT ![f] = WithCount(inode[f], k)]
          /\ k \in Nat
          /\ content' = cut /\ free' = free \cup {b} /\ failed' = failed
      <3>1. Cardinality({b}) = 1
        BY SmallSets
      <3> QED BY <1>1, <1>7, <3>1, FreedLeaves
    <2>2. inode'[f].count = NewCount(inode[f].count, -1)
      BY <1>1, <2>1, WithCountFields
    <2>3. Gives(inode, content, free, f, D, b, inode', content')
      BY <1>5, <2>1
    <2>4. Changes(inode, content, free, f, D, -1, inode', content', free')
      BY <2>1, <2>3 DEF Gives
    <2>5. failed' = failed /\ -1 \in Int
      BY <2>1
    <2> QED BY <2>2, <2>4, <2>5, StepKept
  <1> QED BY <1>4, <1>6, <1>7

LEMMA ReleaseDoubleKept ==
    ASSUME IInv, NEW f \in File, NEW l \in Logical, ReleaseDouble(f, l),
           NEW D, D = DoubleAt(l)
    PROVE  IInv' /\ Moves(f, D)
  <1> DEFINE i == (l - Direct - PerBlock) \div PerBlock
             j == (l - Direct - PerBlock) % PerBlock
             p == inode[f].indirect2
             q == content[p][i]
             b == content[q][j]
             cut == Patched(content, q, j, Null)
             low == Patched(content, p, i, Null)
             ino == SetIndirect2Of(inode[f], Null)
             F2 == free \cup {b}
  <1>1. /\ Good(inode, content, free) /\ inode \in [File -> InodeMap] /\ inode[f] \in InodeMap
        /\ content \in Image /\ Null \in Pointer
    BY Ready DEF Pointer
  <1>2. i \in Slot /\ j \in Slot /\ p # Null /\ q # Null /\ b # Null
    BY LogicalSlots DEF ReleaseDouble
  <1>3. p \in Block /\ q \in Block /\ b \in Block
    <2>1. p \in Block
      BY <1>1, <1>2, RootsInPlace DEF Pointer
    <2> HIDE DEF i, j, p
    <2>2. content[p][i] \in Pointer
      BY <1>1, <1>2, <2>1 DEF Image
    <2>3. q \in Block
      BY <1>2, <2>2 DEF Pointer
    <2> HIDE DEF q
    <2>4. content[q][j] \in Pointer
      BY <1>1, <1>2, <2>3 DEF Image
    <2> QED BY <1>2, <2>1, <2>3, <2>4 DEF Pointer
  <1>4. /\ cut \in Image /\ cut[q] = [content[q] EXCEPT ![j] = Null] /\ cut = [content EXCEPT ![q] = cut[q]]
        /\ \A c \in Block : c # q => cut[c] = content[c]
        /\ low \in Image /\ low[p] = [content[p] EXCEPT ![i] = Null] /\ low = [content EXCEPT ![p] = low[p]]
        /\ \A c \in Block : c # p => low[c] = content[c]
    <2> HIDE DEF i, j, p, q
    <2> QED BY <1>1, <1>2, <1>3 DEF Patched, Image
  <1>5. \/ Freed(f, inode[f], cut, {b})
        \/ cut[q] = NoPointers /\ Freed(f, inode[f], low, {b, q})
        \/ cut[q] = NoPointers /\ low[p] = NoPointers /\ Freed(f, ino, content, {b, q, p})
    <2>1. cut[q] = [content[q] EXCEPT ![j] = Null] /\ low[p] = [content[p] EXCEPT ![i] = Null]
      BY <1>4
    <2>2. /\ cut = [content EXCEPT ![q] = [content[q] EXCEPT ![j] = Null]]
          /\ low = [content EXCEPT ![p] = [content[p] EXCEPT ![i] = Null]]
      BY DEF Patched
    <2> HIDE DEF cut, low, ino
    <2> QED BY <2>1, <2>2 DEF ReleaseDouble, SetIndirect2Of, ino
  <1>6. /\ PointersIn(content, p) = content[p] /\ PointersIn(content, q) = content[q]
    BY <1>2 DEF PointersIn
  <1>7. b # q /\ b # p /\ q # p
    <2> DEFINE H == Holds(inode[f], content)
    <2>1. H[<<"indirect2", 0, 0>>] = p /\ <<"indirect2", 0, 0>> \in Place
      BY <1>1, HoldsAt, PlacesOfKinds
    <2>2. H[<<"level1", i, 0>>] = q /\ <<"level1", i, 0>> \in Place
      <3>1. H[<<"level1", i, 0>>] = PointersIn(content, p)[i]
        BY <1>1, <1>2, HoldsLevel1
      <3> HIDE DEF H, i, p
      <3> QED BY <1>2, <1>6, <3>1, PlacesOfKinds
    <2>3. H[<<"double", i, j>>] = b /\ <<"double", i, j>> \in Place
      <3>1. H[<<"double", i, j>>] = PointersIn(content, PointersIn(content, p)[i])[j]
        BY <1>1, <1>2, HoldsDouble
      <3> HIDE DEF H, i, j, p
      <3> QED BY <1>2, <1>6, <3>1, PlacesOfKinds
    <2>4. Alone(H)
      BY <1>1, GoodAlone
    <2> HIDE DEF H, i, j, p, q, b
    <2> QED BY <1>2, <2>1, <2>2, <2>3, <2>4 DEF Alone
  <1>8. q = content[p][i] /\ b = content[q][j] /\ p = inode[f].indirect2
    OBVIOUS
  <1>15. D = <<"double", i, j>>
    BY DEF DoubleAt
  <1> HIDE DEF i, j, p, q, b
  <1>9. ASSUME NEW k \in Nat
        PROVE  Gives(inode, content, free, f, D, b, [inode EXCEPT ![f] = WithCount(inode[f], k)], cut)
    BY <1>1, <1>2, <1>3, <1>8, <1>15, GiveDouble
  <1>10. ASSUME NEW k \in Nat, cut[q] = NoPointers
         PROVE  LET m2 == [inode EXCEPT ![f] = WithCount(inode[f], k)]
                IN  Gives(m2, cut, F2, f, D, q, m2, low)
    <2> DEFINE m2 == [inode EXCEPT ![f] = WithCount(inode[f], k)]
    <2>1. Good(m2, cut, F2)
      BY <1>9 DEF Gives, Changes
    <2>2. /\ WithCount(inode[f], k) \in InodeMap /\ m2[f] = WithCount(inode[f], k)
          /\ m2[f].indirect2 = p
          /\ WithCount(m2[f], k) = WithCount(inode[f], k)
      BY <1>1, <1>8, WithCountFields
    <2>3. [m2 EXCEPT ![f] = WithCount(m2[f], k)] = m2
      BY <1>1, <2>2, Rewritten
    <2>4. cut[p] = content[p] /\ q = cut[p][i]
      BY <1>3, <1>4, <1>7, <1>8
    <2>5. \A c \in Block : low[c] # Patched(cut, p, i, Null)[c] => c = q
      <3> HIDE DEF cut
      <3>1. \A c \in Block : Patched(cut, p, i, Null)[c] = IF c = p THEN [cut[p] EXCEPT ![i] = Null] ELSE cut[c]
        BY <1>4 DEF Patched, Image
      <3> HIDE DEF low
      <3> QED BY <1>4, <2>4, <3>1
    <2> HIDE DEF m2, cut, low, F2
    <2>6. Gives(m2, cut, F2, f, D, q, [m2 EXCEPT ![f] = WithCount(m2[f], k)], low)
      <3>1. p \in Block /\ p = m2[f].indirect2 /\ q \in Block /\ q = cut[p][i] /\ cut[q] = NoPointers
        BY <1>3, <1>10, <2>2, <2>4
      <3>2. low \in Image /\ i \in Slot
        BY <1>2, <1>4
      <3> QED BY <2>1, <2>5, <3>1, <3>2, GiveLevel1, SMTT(60)
    <2> QED BY <2>3, <2>6 DEF m2
  <1>11. \A x : Cardinality({x}) = 1
    BY SmallSets
  <1>12. CASE Freed(f, inode[f], cut, {b})
    <2> DEFINE k == NewCount(inode[f].count, -1)
    <2> HIDE DEF cut
    <2>1. /\ inode' = [inode EXCEPT ![f] = WithCount(inode[f], k)]
          /\ k \in Nat
          /\ content' = cut /\ free' = free \cup {b} /\ failed' = failed
      <3>1. Cardinality({b}) = 1
        BY <1>11
      <3> QED BY <1>1, <1>12, <3>1, FreedLeaves
    <2>2. inode'[f].count = NewCount(inode[f].count, -1)
      BY <1>1, <2>1, WithCountFields
    <2>3. Gives(inode, content, free, f, D, b, inode', content')
      BY <1>9, <2>1
    <2>4. Changes(inode, content, free, f, D, -1, inode', content', free')
      BY <2>1, <2>3 DEF Gives
    <2>5. failed' = failed /\ -1 \in Int
      BY <2>1
    <2> QED BY <2>2, <2>4, <2>5, StepKept
  <1>13. CASE cut[q] = NoPointers /\ Freed(f, inode[f], low, {b, q})
    <2> DEFINE k == NewCount(inode[f].count, -2)
               m2 == [inode EXCEPT ![f] = WithCount(inode[f], k)]
    <2>1. Cardinality({b, q}) = 2
      BY <1>7, SmallSets
    <2> HIDE DEF cut, low
    <2>2. /\ inode' = m2
          /\ k \in Nat
          /\ content' = low /\ free' = free \cup {b, q} /\ failed' = failed
      BY <1>1, <1>13, <2>1, FreedLeaves
    <2>3. -1 + -1 = -2
      OBVIOUS
    <2>4. inode'[f].count = NewCount(inode[f].count, -1 + -1)
      BY <1>1, <2>2, <2>3, WithCountFields
    <2>5. Gives(inode, content, free, f, D, b, m2, cut)
      BY <1>9, <2>2
    <2>6. Gives(m2, cut, F2, f, D, q, m2, low)
      BY <1>10, <1>13, <2>2
    <2> HIDE DEF m2
    <2>7. free' = F2 \cup {q}
      BY <2>2
    <2>8. Changes(inode, content, free, f, D, -1 + -1, inode', content', free')
      <3>1. Changes(inode, content, free, f, D, -1, m2, cut, F2)
        BY <2>5 DEF Gives
      <3>2. Changes(m2, cut, F2, f, D, -1, inode', content', free')
        BY <2>2, <2>6, <2>7 DEF Gives
      <3> QED BY <1>1, <3>1, <3>2, Ones, ChangesAddUp
    <2>9. failed' = failed /\ -1 + -1 \in Int
      BY <2>2
    <2> QED BY <2>4, <2>8, <2>9, StepKept
  <1>14. CASE cut[q] = NoPointers /\ low[p] = NoPointers /\ Freed(f, ino, content, {b, q, p})
    <2> DEFINE k == NewCount(inode[f].count, -3)
               m2 == [inode EXCEPT ![f] = WithCount(inode[f], k)]
               F3 == F2 \cup {q}
    <2>1. Cardinality({b, q, p}) = 3
      <3>1. \A x, y, z : x # y /\ x # z /\ y # z => Cardinality({x, y, z}) = 3
        BY SmallSets
      <3> QED BY <1>7, <3>1
    <2>2. ino \in InodeMap /\ ino.count = inode[f].count
      BY <1>1, PointerSet
    <2>3. WithCount(ino, k) = WithIndirect2(inode[f], Null, k)
      BY DEF WithIndirect2
    <2>4. \A c \in Block : content[c] # low[c] => c = p
      BY <1>4
    <2> HIDE DEF cut, low, ino
    <2>5. /\ inode' = [inode EXCEPT ![f] = WithCount(ino, k)]
          /\ k \in Nat
          /\ content' = content /\ free' = free \cup {b, q, p} /\ failed' = failed
      BY <1>1, <1>14, <2>1, <2>2, FreedLeaves
    <2>6. inode'[f].count = NewCount(inode[f].count, -1 + -1 + -1)
      <3>1. -1 + -1 + -1 = -3
        OBVIOUS
      <3> QED BY <1>1, <2>2, <2>5, <3>1, WithCountFields
    <2> HIDE DEF k
    <2>7. Gives(inode, content, free, f, D, b, m2, cut)
      BY <1>9, <2>5
    <2>8. Gives(m2, cut, F2, f, D, q, m2, low)
      BY <1>10, <1>14, <2>5
    <2>9. Good(m2, low, F3) /\ free' = F3 \cup {p}
      BY <2>5, <2>8 DEF Gives, Changes
    <2>10. /\ m2[f] = WithCount(inode[f], k) /\ m2[f] \in InodeMap
           /\ m2[f].indirect2 = p
      BY <1>1, <1>8, <2>5, WithCountFields
    <2>11. WithIndirect2(m2[f], Null, k) = WithIndirect2(inode[f], Null, k)
      <3>1. SetIndirect2Of(WithCount(inode[f], k), Null) = WithCount(SetIndirect2Of(inode[f], Null), k)
        BY <1>1, <2>5 DEF SetIndirect2Of, WithCount, InodeMap
      <3>2. WithCount(WithCount(SetIndirect2Of(inode[f], Null), k), k) = WithCount(SetIndirect2Of(inode[f], Null), k)
        BY <1>1, <2>5, PointerSet, WithCountFields
      <3> QED BY <2>10, <3>1, <3>2 DEF WithIndirect2
    <2>12. inode' = [m2 EXCEPT ![f] = WithIndirect2(m2[f], Null, k)]
      <3>1. WithIndirect2(inode[f], Null, k) \in InodeMap
        BY <1>1, <2>5, WithFields
      <3> QED BY <1>1, <2>3, <2>5, <2>10, <2>11, <3>1, Rewritten
    <2>13. Gives(m2, low, F3, f, D, p, inode', content')
      <3>1. content' \in Image /\ \A c \in Block : content'[c] # low[c] => c = p
        BY <1>1, <2>4, <2>5
      <3> HIDE DEF m2, F3
      <3>2. Good(m2, low, F3) /\ p \in Block /\ p = m2[f].indirect2 /\ low[p] = NoPointers
        BY <1>3, <1>14, <2>9, <2>10
      <3>3. Gives(m2, low, F3, f, D, p, [m2 EXCEPT ![f] = WithIndirect2(m2[f], Null, k)], content')
        BY <2>5, <3>1, <3>2, GiveIndirect2
      <3> QED BY <2>12, <3>3
    <2> HIDE DEF m2
    <2>14. Changes(inode, content, free, f, D, -1 + -1 + -1, inode', content', free')
      <3>1. Changes(inode, content, free, f, D, -1, m2, cut, F2)
        BY <2>7 DEF Gives
      <3>2. Changes(m2, cut, F2, f, D, -1, m2, low, F3)
        BY <2>8 DEF Gives
      <3>3. Changes(m2, low, F3, f, D, -1, inode', content', free')
        BY <2>9, <2>13 DEF Gives
      <3>5. Changes(inode, content, free, f, D, -1 + -1, m2, low, F3)
        BY <1>1, <3>1, <3>2, Ones, ChangesAddUp
      <3> QED BY <1>1, <3>3, <3>5, Ones, ChangesAddUp
    <2>15. failed' = failed /\ -1 + -1 + -1 \in Int
      BY <2>5
    <2> QED BY <2>6, <2>14, <2>15, StepKept
  <1> QED BY <1>5, <1>12, <1>13, <1>14

LEMMA ReleaseAllKept ==
    ASSUME IInv, NEW f \in File, ReleaseAll(f)
    PROVE  IInv'
  <1> DEFINE F2 == free \cup InUse(Holds(inode[f], content))
             m2 == [inode EXCEPT ![f] = NoBlocks]
  <1>1. Counted(inode, content, free, failed) /\ Good(inode, content, free) /\ inode \in [File -> InodeMap]
    BY Ready DEF IInv
  <1>2. inode' = m2 /\ content' = content /\ free' = F2 /\ failed' = failed
    BY DEF ReleaseAll, Used, Held, InUse
  <1>3. /\ Good(m2, content, F2)
        /\ Covers(AllHeld(inode, content), free) => Covers(AllHeld(m2, content), F2)
        /\ Cardinality(InUse(Holds(m2[f], content))) = 0
        /\ \A g \in File : g # f => m2[g] = inode[g]
    BY <1>1, GiveAll
  <1>4. m2[f].count = 0
    BY <1>1 DEF NoBlocks
  <1> HIDE DEF m2, F2
  <1>5. Counted(m2, content, F2, failed)
    BY <1>1, <1>3, <1>4 DEF Counted
  <1> QED BY <1>2, <1>5 DEF IInv

-----------------------------------------------------------------------------
(***************************************************************************)
(* The theorems                                                            *)
(***************************************************************************)

LEMMA InitIInv == Init => IInv
  <1> SUFFICES ASSUME Init PROVE IInv
    OBVIOUS
  <1>1. NoBlocks \in InodeMap
    BY DEF NoBlocks, InodeMap, Pointer
  <1>2. inode \in [File -> InodeMap] /\ content \in Image /\ failed \in BOOLEAN /\ free = Block
    BY <1>1 DEF Init, Image, NoPointers, Pointer
  <1>3. ASSUME NEW f \in File, NEW p \in Place PROVE Holds(inode[f], content)[p] = Null
    <2> DEFINE H == Holds(inode[f], content)
    <2>1. /\ inode[f] \in InodeMap /\ inode[f] = NoBlocks
          /\ inode[f].indirect1 = Null /\ inode[f].indirect2 = Null
          /\ \A l \in 0..(Direct - 1) : inode[f].direct[l] = Null
      BY <1>1 DEF Init, NoBlocks
    <2>2. \A i \in Slot : PointersIn(content, Null)[i] = Null
      BY DEF PointersIn, NoPointers
    <2>3. \A l \in 0..(Direct - 1) : H[<<"direct", l, 0>>] = Null
      BY <1>2, <2>1, HoldsDirect
    <2>4. H[<<"indirect1", 0, 0>>] = Null /\ H[<<"indirect2", 0, 0>>] = Null
      BY <1>2, <2>1, HoldsAt
    <2>5. ASSUME NEW i \in Slot PROVE H[<<"single", i, 0>>] = Null /\ H[<<"level1", i, 0>>] = Null
      BY <1>2, <2>1, <2>2, HoldsSingle, HoldsLevel1
    <2>6. ASSUME NEW i \in Slot, NEW j \in Slot PROVE H[<<"double", i, j>>] = Null
      BY <1>2, <2>1, <2>2, HoldsDouble
    <2> HIDE DEF H
    <2>7. H[p] = Null
      <3>1. CASE \E l \in 0..(Direct - 1) : p = <<"direct", l, 0>>
        BY <2>3, <3>1
      <3>2. CASE p = <<"indirect1", 0, 0>> \/ p = <<"indirect2", 0, 0>>
        BY <2>4, <3>2
      <3>3. CASE \E i \in Slot : p = <<"single", i, 0>> \/ p = <<"level1", i, 0>>
        BY <2>5, <3>3
      <3>4. CASE \E i, j \in Slot : p = <<"double", i, j>>
        BY <2>6, <3>4
      <3> QED BY <3>1, <3>2, <3>3, <3>4 DEF Place
    <2> QED BY <2>7 DEF H
  <1>4. \A f \in File : Cardinality(InUse(Holds(inode[f], content))) = 0 /\ inode[f].count = 0
    <2> TAKE f \in File
    <2>1. InUse(Holds(inode[f], content)) = {}
      BY <1>3 DEF InUse
    <2> QED BY <2>1, FS_EmptySet DEF Init, NoBlocks
  <1>5. Sound(AllHeld(inode, content), free)
    <2>1. AllHeld(inode, content) \in [File -> [Place -> Pointer]]
      BY <1>2, HoldsAt DEF AllHeld
    <2>2. \A f \in File : \A p \in Place : AllHeld(inode, content)[f][p] = Null
      BY <1>3 DEF AllHeld
    <2> QED BY <1>2, <2>1, <2>2, BlockMapAssumption DEF Sound
  <1>6. Covers(AllHeld(inode, content), free)
    BY <1>2 DEF Covers
  <1> QED BY <1>2, <1>4, <1>5, <1>6 DEF IInv, Counted, Good

LEMMA NextIInv ==
    ASSUME ~CacheOn
    PROVE  IInv /\ [Next]_vars => IInv'
  <1> SUFFICES ASSUME IInv, [Next]_vars PROVE IInv'
    OBVIOUS
  <1>1. CASE UNCHANGED vars
    BY <1>1 DEF vars, IInv
  <1>2. ASSUME NEW f \in File, NEW l \in Logical, GetDirect(f, l) PROVE IInv'
    BY <1>2, GetDirectKept
  <1>3. ASSUME NEW f \in File, NEW l \in Logical, GetSingle(f, l) PROVE IInv'
    BY <1>3, GetSingleKept
  <1>4. ASSUME NEW f \in File, NEW l \in Logical, GetDouble(f, l) PROVE IInv'
    BY <1>4, GetDoubleKept
  <1>5. ASSUME NEW f \in File, NEW l \in Logical, ReleaseDirect(f, l) PROVE IInv'
    BY <1>5, ReleaseDirectKept
  <1>6. ASSUME NEW f \in File, NEW l \in Logical, ReleaseSingle(f, l) PROVE IInv'
    BY <1>6, ReleaseSingleKept
  <1>7. ASSUME NEW f \in File, NEW l \in Logical, ReleaseDouble(f, l) PROVE IInv'
    BY <1>7, ReleaseDoubleKept
  <1>8. ASSUME NEW f \in File, ReleaseAll(f) PROVE IInv'
    BY <1>8, ReleaseAllKept
  <1> QED BY <1>1, <1>2, <1>3, <1>4, <1>5, <1>6, <1>7, <1>8 DEF Next

LEMMA UsedIsInUse ==
    ASSUME NEW f \in File
    PROVE  Held(f) = AllHeld(inode, content)[f] /\ Used(f) = InUse(Holds(inode[f], content))
  BY DEF Held, Used, InUse, AllHeld

\* The parts of the invariant that the runs check.
LEMMA IInvTypeOK == IInv => TypeOK
  <1> SUFFICES ASSUME IInv PROVE TypeOK
    OBVIOUS
  <1>1. /\ Good(inode, content, free) /\ failed \in BOOLEAN
        /\ \A f \in File : inode[f].count <= Cardinality(InUse(Holds(inode[f], content)))
    BY DEF IInv, Counted
  <1>2. inode \in [File -> InodeMap] /\ content \in Image /\ free \subseteq Block
    BY <1>1 DEF Good, Sound
  <1>3. Cardinality(Block) \in Nat
    BY BlockMapAssumption, FS_CardinalityType
  <1>4. ASSUME NEW f \in File PROVE inode[f].count \in 0..Cardinality(Block)
    <2>1. /\ Cardinality(InUse(Holds(inode[f], content))) \in Nat
          /\ Cardinality(InUse(Holds(inode[f], content))) <= Cardinality(Block)
      BY <1>1, GoodAlone, InUseFinite
    <2>2. inode[f].count \in Nat
      BY <1>2 DEF InodeMap
    <2> QED BY <1>1, <1>3, <2>1, <2>2
  <1>5. ASSUME NEW f \in File
        PROVE  inode[f] \in [direct : [0..(Direct - 1) -> Pointer], indirect1 : Pointer,
                             indirect2 : Pointer, count : 0..Cardinality(Block)]
    <2>1. inode[f] \in InodeMap
      BY <1>2
    <2> QED BY <1>4, <2>1 DEF InodeMap
  <1> QED BY <1>1, <1>2, <1>5 DEF TypeOK, Image

LEMMA IInvUsedOnce == IInv => UsedOnce
  <1> SUFFICES ASSUME IInv PROVE UsedOnce
    OBVIOUS
  <1>1. Sound(AllHeld(inode, content), free)
    BY DEF IInv, Counted, Good
  <1>2. \A f, g \in File : \A p, q \in Place :
          Held(f)[p] = Held(g)[q] /\ Held(f)[p] # Null => f = g /\ p = q
    BY <1>1, UsedIsInUse DEF Sound
  <1>3. ASSUME NEW f \in File PROVE Used(f) \cap free = {}
    BY <1>1, UsedIsInUse DEF Sound, Used
  <1> QED BY <1>2, <1>3 DEF UsedOnce

LEMMA IInvAccounts == IInv => AccountsExact
  <1> SUFFICES ASSUME IInv, ~failed PROVE Block = free \cup UNION {Used(f) : f \in File}
                                          /\ \A f \in File : inode[f].count = Cardinality(Used(f))
    BY DEF AccountsExact
  <1>1. /\ Sound(AllHeld(inode, content), free) /\ Covers(AllHeld(inode, content), free)
        /\ \A f \in File : inode[f].count = Cardinality(InUse(Holds(inode[f], content)))
    BY DEF IInv, Counted, Good
  <1>2. \A f \in File : inode[f].count = Cardinality(Used(f))
    BY <1>1, UsedIsInUse
  <1>3. free \subseteq Block /\ \A f \in File : Used(f) \subseteq Block
    <2>1. ASSUME NEW f \in File PROVE Used(f) \subseteq Block
      <3>1. AllHeld(inode, content)[f] \in [Place -> Pointer]
        BY <1>1 DEF Sound
      <3> QED BY <3>1, UsedIsInUse DEF Used, Pointer
    <2> QED BY <1>1, <2>1 DEF Sound
  <1>4. ASSUME NEW b \in Block, b \notin free PROVE \E f \in File : b \in Used(f)
    <2>1. PICK f \in File, p \in Place : AllHeld(inode, content)[f][p] = b
      BY <1>1, <1>4 DEF Covers
    <2> QED BY <2>1, UsedIsInUse, BlockMapAssumption DEF Used
  <1>5. UNION {Used(f) : f \in File} \subseteq Block
    BY <1>3
  <1> QED BY <1>2, <1>3, <1>4, <1>5

-----------------------------------------------------------------------------
(***************************************************************************)
(* The scan: it meets every place of every map just once.                  *)
(***************************************************************************)

\* The scan of a map, without its file.
ScanOf(ino) == ScanDirect(ino) \cup ScanSingle(ino) \cup ScanDouble(ino)

LEMMA NonNullIn ==
    ASSUME NEW S, NEW pointers \in [S -> Pointer], NEW i
    PROVE  i \in NonNull(pointers) <=> i \in S /\ pointers[i] # Null
  BY DEF NonNull

LEMMA ScanDirectMeets ==
    ASSUME NEW ino \in InodeMap, content \in Image, NEW r
    PROVE  r \in ScanDirect(ino) <=>
             \E l \in 0..(Direct - 1) : /\ r = <<<<"direct", l, 0>>, ino.direct[l]>>
                                        /\ ino.direct[l] # Null
  <1>1. ino.direct \in [0..(Direct - 1) -> Pointer]
    BY RootsInPlace
  <1> QED BY <1>1, NonNullIn DEF ScanDirect

LEMMA ScanSingleMeets ==
    ASSUME NEW ino \in InodeMap, content \in Image, NEW r
    PROVE  r \in ScanSingle(ino) <=>
             \/ r = <<<<"indirect1", 0, 0>>, ino.indirect1>> /\ ino.indirect1 # Null
             \/ \E i \in Slot :
                  LET b == PointersIn(content, ino.indirect1)[i]
                  IN  r = <<<<"single", i, 0>>, b>> /\ b # Null
  <1> DEFINE p == ino.indirect1
  <1>1. p \in Pointer
    BY RootsInPlace
  <1> HIDE DEF p
  <1>2. CASE p = Null
    <2>1. \A i \in Slot : PointersIn(content, p)[i] = Null
      BY <1>2 DEF PointersIn, NoPointers
    <2>2. ScanSingle(ino) = {}
      BY <1>2 DEF ScanSingle, p
    <2> QED BY <1>2, <2>1, <2>2 DEF p
  <1>3. CASE p # Null
    <2>1. p \in Block /\ content[p] \in [Slot -> Pointer] /\ PointersIn(content, p) = content[p]
      BY <1>1, <1>3 DEF Pointer, Image, PointersIn
    <2>2. ScanSingle(ino) = {<<<<"indirect1", 0, 0>>, p>>}
                              \cup {<<<<"single", i, 0>>, content[p][i]>> : i \in NonNull(content[p])}
      BY <1>3 DEF ScanSingle, p
    <2>3. \A i : i \in NonNull(content[p]) <=> i \in Slot /\ content[p][i] # Null
      BY <2>1, NonNullIn
    <2> QED BY <1>3, <2>1, <2>2, <2>3 DEF p
  <1> QED BY <1>2, <1>3

LEMMA ScanLevel1Meets ==
    ASSUME content \in Image, NEW i, NEW q \in Block, NEW r
    PROVE  r \in ScanLevel1(i, q) <=>
             \/ r = <<<<"level1", i, 0>>, q>>
             \/ \E j \in Slot : /\ r = <<<<"double", i, j>>, PointersIn(content, q)[j]>>
                                /\ PointersIn(content, q)[j] # Null
  <1>1. content[q] \in [Slot -> Pointer] /\ PointersIn(content, q) = content[q]
    BY BlockMapAssumption DEF Image, PointersIn
  <1>2. \A j : j \in NonNull(content[q]) <=> j \in Slot /\ content[q][j] # Null
    BY <1>1, NonNullIn
  <1> QED BY <1>1, <1>2 DEF ScanLevel1

LEMMA ScanDoubleMeets ==
    ASSUME NEW ino \in InodeMap, content \in Image, NEW r
    PROVE  r \in ScanDouble(ino) <=>
             \/ r = <<<<"indirect2", 0, 0>>, ino.indirect2>> /\ ino.indirect2 # Null
             \/ \E i \in Slot :
                  LET q == PointersIn(content, ino.indirect2)[i]
                  IN  \/ r = <<<<"level1", i, 0>>, q>> /\ q # Null
                      \/ \E j \in Slot :
                           LET b == PointersIn(content, q)[j]
                           IN  r = <<<<"double", i, j>>, b>> /\ b # Null
  <1> DEFINE p == ino.indirect2
             q(i) == PointersIn(content, p)[i]
  <1>1. p \in Pointer
    BY RootsInPlace
  <1>a. \A j \in Slot : PointersIn(content, Null)[j] = Null
    BY DEF PointersIn, NoPointers
  <1> HIDE DEF p
  <1>2. CASE p = Null
    <2>1. \A i \in Slot : q(i) = Null
      BY <1>2, <1>a
    <2>2. ScanDouble(ino) = {}
      BY <1>2 DEF ScanDouble, p
    <2> QED BY <1>2, <1>a, <2>1, <2>2 DEF p
  <1>3. CASE p # Null
    <2>1. p \in Block /\ content[p] \in [Slot -> Pointer] /\ PointersIn(content, p) = content[p]
      BY <1>1, <1>3 DEF Pointer, Image, PointersIn
    <2>2. ScanDouble(ino) = {<<<<"indirect2", 0, 0>>, p>>}
                              \cup UNION {ScanLevel1(i, content[p][i]) : i \in NonNull(content[p])}
      BY <1>3 DEF ScanDouble, p
    <2>3. \A i : i \in NonNull(content[p]) <=> i \in Slot /\ content[p][i] # Null
      BY <2>1, NonNullIn
    <2>4. r \in ScanDouble(ino) <=>
            \/ r = <<<<"indirect2", 0, 0>>, p>>
            \/ \E i \in Slot : q(i) # Null /\ r \in ScanLevel1(i, q(i))
      BY <2>1, <2>2, <2>3
    <2>5. ASSUME NEW i \in Slot
          PROVE  q(i) # Null /\ r \in ScanLevel1(i, q(i)) <=>
                   \/ r = <<<<"level1", i, 0>>, q(i)>> /\ q(i) # Null
                   \/ \E j \in Slot : /\ r = <<<<"double", i, j>>, PointersIn(content, q(i))[j]>>
                                      /\ PointersIn(content, q(i))[j] # Null
      <3>1. q(i) \in Pointer
        BY <2>1
      <3>2. CASE q(i) = Null
        BY <1>a, <3>2
      <3>3. CASE q(i) # Null
        <4>1. q(i) \in Block
          BY <3>1, <3>3 DEF Pointer
        <4> HIDE DEF q
        <4> QED BY <3>3, <4>1, ScanLevel1Meets
      <3> QED BY <3>2, <3>3
    <2> HIDE DEF q
    <2>6. r \in ScanDouble(ino) <=>
            \/ r = <<<<"indirect2", 0, 0>>, p>>
            \/ \E i \in Slot :
                   \/ r = <<<<"level1", i, 0>>, q(i)>> /\ q(i) # Null
                   \/ \E j \in Slot : /\ r = <<<<"double", i, j>>, PointersIn(content, q(i))[j]>>
                                      /\ PointersIn(content, q(i))[j] # Null
      BY <2>4, <2>5
    <2> QED BY <1>3, <2>6 DEF p, q
  <1> QED BY <1>2, <1>3

\* What the scan of a map meets is what the map holds, place by place.
LEMMA ScanMeets ==
    ASSUME NEW ino \in InodeMap, content \in Image, NEW r
    PROVE  r \in ScanOf(ino) <=>
             \E p \in Place : r = <<p, Holds(ino, content)[p]>> /\ Holds(ino, content)[p] # Null
  <1> DEFINE H == Holds(ino, content)
             Meets(p) == r = <<p, H[p]>> /\ H[p] # Null
  <1>1. r \in ScanDirect(ino) <=> \E l \in 0..(Direct - 1) : Meets(<<"direct", l, 0>>)
    <2>1. \A l \in 0..(Direct - 1) : H[<<"direct", l, 0>>] = ino.direct[l]
      BY HoldsDirect
    <2>2. r \in ScanDirect(ino) <=>
            \E l \in 0..(Direct - 1) : r = <<<<"direct", l, 0>>, ino.direct[l]>> /\ ino.direct[l] # Null
      BY ScanDirectMeets
    <2> HIDE DEF H
    <2> QED BY <2>1, <2>2
  <1>2. r \in ScanSingle(ino) <=> \/ Meets(<<"indirect1", 0, 0>>)
                                  \/ \E i \in Slot : Meets(<<"single", i, 0>>)
    <2>1. H[<<"indirect1", 0, 0>>] = ino.indirect1
      BY HoldsAt
    <2>2. \A i \in Slot : H[<<"single", i, 0>>] = PointersIn(content, ino.indirect1)[i]
      BY HoldsSingle
    <2>3. r \in ScanSingle(ino) <=>
            \/ r = <<<<"indirect1", 0, 0>>, ino.indirect1>> /\ ino.indirect1 # Null
            \/ \E i \in Slot : /\ r = <<<<"single", i, 0>>, PointersIn(content, ino.indirect1)[i]>>
                               /\ PointersIn(content, ino.indirect1)[i] # Null
      BY ScanSingleMeets
    <2> HIDE DEF H
    <2> QED BY <2>1, <2>2, <2>3
  <1>3. r \in ScanDouble(ino) <=> \/ Meets(<<"indirect2", 0, 0>>)
                                  \/ \E i \in Slot : \/ Meets(<<"level1", i, 0>>)
                                                     \/ \E j \in Slot : Meets(<<"double", i, j>>)
    <2>1. H[<<"indirect2", 0, 0>>] = ino.indirect2
      BY HoldsAt
    <2>2. \A i \in Slot : H[<<"level1", i, 0>>] = PointersIn(content, ino.indirect2)[i]
      BY HoldsLevel1
    <2>3. \A i, j \in Slot :
            H[<<"double", i, j>>] = PointersIn(content, PointersIn(content, ino.indirect2)[i])[j]
      BY HoldsDouble
    <2> DEFINE q(i) == PointersIn(content, ino.indirect2)[i]
    <2>4. r \in ScanDouble(ino) <=>
            \/ r = <<<<"indirect2", 0, 0>>, ino.indirect2>> /\ ino.indirect2 # Null
            \/ \E i \in Slot :
                 \/ r = <<<<"level1", i, 0>>, q(i)>> /\ q(i) # Null
                 \/ \E j \in Slot : /\ r = <<<<"double", i, j>>, PointersIn(content, q(i))[j]>>
                                    /\ PointersIn(content, q(i))[j] # Null
      BY ScanDoubleMeets
    <2> HIDE DEF H, q
    <2>5. /\ \A i \in Slot : H[<<"level1", i, 0>>] = q(i)
          /\ \A i, j \in Slot : H[<<"double", i, j>>] = PointersIn(content, q(i))[j]
      BY <2>2, <2>3 DEF q
    <2> QED BY <2>1, <2>4, <2>5
  <1>4. r \in ScanOf(ino) <=> r \in ScanDirect(ino) \/ r \in ScanSingle(ino) \/ r \in ScanDouble(ino)
    BY DEF ScanOf
  <1> HIDE DEF Meets
  <1>5. r \in ScanOf(ino) => \E p \in Place : Meets(p)
    BY <1>1, <1>2, <1>3, <1>4, PlacesOfKinds
  <1>6. ASSUME NEW p \in Place, Meets(p) PROVE r \in ScanOf(ino)
    BY <1>1, <1>2, <1>3, <1>4, <1>6 DEF Place
  <1> QED BY <1>5, <1>6 DEF Meets

\* The scan of file f, as the owner of the file would count its blocks.
LEMMA ScanIsHeld ==
    ASSUME inode \in [File -> InodeMap], content \in Image, NEW f \in File
    PROVE  /\ Scan(f) = {<<p, Held(f)[p]>> : p \in {q \in Place : Held(f)[q] # Null}}
           /\ Scanned(f) = Used(f)
  <1>1. Scan(f) = ScanOf(inode[f]) /\ Held(f) = Holds(inode[f], content)
    BY DEF Scan, ScanOf, Held
  <1>2. \A r : r \in Scan(f) <=> \E p \in Place : r = <<p, Held(f)[p]>> /\ Held(f)[p] # Null
    BY <1>1, ScanMeets
  <1>3. Scan(f) = {<<p, Held(f)[p]>> : p \in {q \in Place : Held(f)[q] # Null}}
    BY <1>2
  <1>4. Scanned(f) = {Held(f)[p] : p \in {q \in Place : Held(f)[q] # Null}}
    <2>1. \A b : b \in Scanned(f) <=> \E p \in Place : Held(f)[p] # Null /\ b = <<p, Held(f)[p]>>[2]
      BY <1>3 DEF Scanned
    <2> QED BY <2>1
  <1> QED BY <1>3, <1>4 DEF Used

\* No block is met twice: references and blocks are as many.
LEMMA NoneMetTwice ==
    ASSUME IInv
    PROVE  DuplicatedUsed = 0
  <1> DEFINE R == UNION {{f} \X Scan(f) : f \in File}
             G == [r \in R |-> r[2][2]]
  <1>1. /\ inode \in [File -> InodeMap] /\ content \in Image
        /\ Sound(AllHeld(inode, content), free)
    BY DEF IInv, Counted, Good
  <1>2. ASSUME NEW r \in R
        PROVE  \E f \in File : \E p \in Place : /\ r = <<f, <<p, Held(f)[p]>>>>
                                                /\ Held(f)[p] # Null
    <2>1. PICK f \in File : r \in {f} \X Scan(f)
      OBVIOUS
    <2>2. r = <<f, r[2]>> /\ r[2] \in Scan(f)
      BY <2>1
    <2> QED BY <1>1, <2>2, ScanIsHeld
  <1>3. ASSUME NEW f \in File, NEW p \in Place, Held(f)[p] # Null
        PROVE  <<f, <<p, Held(f)[p]>>>> \in R
    <2>1. <<p, Held(f)[p]>> \in Scan(f)
      BY <1>1, <1>3, ScanIsHeld
    <2> QED BY <2>1
  <1>4. ScannedUsed = UNION {Used(f) : f \in File}
    BY <1>1, ScanIsHeld DEF ScannedUsed
  <1> HIDE DEF R
  <1>5. \A r \in R : G[r] \in ScannedUsed
    <2> TAKE r \in R
    <2>1. PICK f \in File, p \in Place : r = <<f, <<p, Held(f)[p]>>>> /\ Held(f)[p] # Null
      BY <1>2
    <2> QED BY <1>4, <2>1 DEF Used
  <1>6. \A r, s \in R : G[r] = G[s] => r = s
    <2> TAKE r, s \in R
    <2>1. PICK f \in File, p \in Place : r = <<f, <<p, Held(f)[p]>>>> /\ Held(f)[p] # Null
      BY <1>2
    <2>2. PICK g \in File, q \in Place : s = <<g, <<q, Held(g)[q]>>>> /\ Held(g)[q] # Null
      BY <1>2
    <2>3. SUFFICES ASSUME Held(f)[p] = Held(g)[q] PROVE r = s
      BY <2>1, <2>2
    <2>4. f = g /\ p = q
      BY <1>1, <2>1, <2>3, UsedIsInUse DEF Sound
    <2> QED BY <2>1, <2>2, <2>4
  <1>7. \A b \in ScannedUsed : \E r \in R : G[r] = b
    <2> TAKE b \in ScannedUsed
    <2>1. PICK f \in File, p \in Place : b = Held(f)[p] /\ Held(f)[p] # Null
      BY <1>4 DEF Used
    <2>2. <<f, <<p, b>>>> \in R
      BY <1>3, <2>1
    <2> QED BY <2>2
  <1>8. IsFiniteSet(ScannedUsed)
    <2>1. ASSUME NEW f \in File PROVE Used(f) \subseteq Block
      <3>1. AllHeld(inode, content)[f] \in [Place -> Pointer]
        BY <1>1 DEF Sound
      <3> QED BY <3>1, UsedIsInUse DEF Used, Pointer
    <2> QED BY <1>4, <2>1, BlockMapAssumption, FS_Subset
  <1>9. G \in Bijection(R, ScannedUsed)
    <2>1. G \in [R -> ScannedUsed]
      BY <1>5
    <2> HIDE DEF G
    <2> QED BY <1>6, <1>7, <2>1 DEF Bijection, Injection, Surjection, IsInjective
  <1>10. ExistsBijection(R, ScannedUsed)
    BY <1>9 DEF ExistsBijection
  <1>11. Cardinality(R) = Cardinality(ScannedUsed) /\ Cardinality(R) \in Nat
    <2>1. IsFiniteSet(R) /\ Cardinality(ScannedUsed) = Cardinality(R)
      <3>1. ExistsBijection(ScannedUsed, R)
        BY <1>10, Fun_ExistsBijSymmetric
      <3> QED BY <1>8, <3>1, FS_Bijection
    <2> QED BY <2>1, FS_CardinalityType
  <1> QED BY <1>11 DEF DuplicatedUsed, R

\* recover frees blocks that no file holds, and only after a call has run out of space.
LEMMA RecoverKept ==
    ASSUME IInv, Recover
    PROVE  IInv'
  <1>1. /\ inode \in [File -> InodeMap] /\ content \in Image
        /\ Sound(AllHeld(inode, content), free)
        /\ Counted(inode, content, free, failed) /\ failed \in BOOLEAN
    BY DEF IInv, Counted, Good
  <1>2. ScannedUsed = UNION {Used(f) : f \in File}
    BY <1>1, ScanIsHeld DEF ScannedUsed
  <1>3. Leaked \subseteq Block /\ Leaked # {} /\ free' = free \cup Leaked
        /\ inode' = inode /\ content' = content /\ failed' = failed
    BY DEF Recover, Leaked
  <1>4. \A f \in File : \A p \in Place : AllHeld(inode, content)[f][p] \notin Leaked
    <2> TAKE f \in File
    <2> TAKE p \in Place
    <2> SUFFICES ASSUME AllHeld(inode, content)[f][p] \in Leaked PROVE FALSE
      OBVIOUS
    <2>1. AllHeld(inode, content)[f][p] # Null
      BY <1>3, BlockMapAssumption
    <2>2. AllHeld(inode, content)[f][p] \in Used(f)
      BY <2>1, UsedIsInUse DEF Used
    <2> QED BY <1>2, <2>2 DEF Leaked
  <1>5. Sound(AllHeld(inode, content), free')
    BY <1>1, <1>3, <1>4 DEF Sound
  <1>6. failed
    <2> SUFFICES ASSUME ~failed PROVE Leaked = {}
      BY <1>1, <1>3
    <2>1. Covers(AllHeld(inode, content), free)
      BY <1>1 DEF Counted
    <2>2. ASSUME NEW b \in Leaked PROVE FALSE
      <3>1. b \in Block /\ b \notin free /\ b # Null
        BY BlockMapAssumption DEF Leaked
      <3>2. PICK f \in File, p \in Place : AllHeld(inode, content)[f][p] = b
        BY <2>1, <3>1 DEF Covers
      <3> QED BY <1>4, <3>2
    <2> QED BY <2>2
  <1> QED BY <1>1, <1>3, <1>5, <1>6 DEF IInv, Counted, Good

LEMMA CheckedNextIInv ==
    ASSUME ~CacheOn
    PROVE  IInv /\ [CheckedNext]_vars => IInv'
  <1>1. IInv /\ [Next]_vars => IInv'
    BY NextIInv
  <1> QED BY <1>1, RecoverKept DEF CheckedNext

THEOREM Inductive == ~CacheOn => (CheckedSpec => []IInv)
  <1> SUFFICES ASSUME ~CacheOn PROVE CheckedSpec => []IInv
    OBVIOUS
  <1>1. IInv /\ [CheckedNext]_vars => IInv'
    BY CheckedNextIInv
  <1> QED BY <1>1, InitIInv, PTL DEF CheckedSpec

\* Without a cache the maps, the image and the free set keep their types; block_count
\* never wraps and never exceeds the number of blocks.
THEOREM TypeCorrect == ~CacheOn => (CheckedSpec => []TypeOK)
  <1> SUFFICES ASSUME ~CacheOn PROVE CheckedSpec => []TypeOK
    OBVIOUS
  <1>1. CheckedSpec => []IInv
    BY Inductive
  <1> QED BY <1>1, IInvTypeOK, PTL

\* Without a cache no block is ever in two places, of one file or of two, or free and in
\* use, also after calls that ran out of space midway.
THEOREM BlocksUsedOnce == ~CacheOn => (CheckedSpec => []UsedOnce)
  <1> SUFFICES ASSUME ~CacheOn PROVE CheckedSpec => []UsedOnce
    OBVIOUS
  <1>1. CheckedSpec => []IInv
    BY Inductive
  <1> QED BY <1>1, IInvUsedOnce, PTL

\* Without a cache, until a call runs out of space midway, every block is free or in use
\* and every block_count is the number of blocks of its file.
THEOREM BlocksAccounted == ~CacheOn => (CheckedSpec => []AccountsExact)
  <1> SUFFICES ASSUME ~CacheOn PROVE CheckedSpec => []AccountsExact
    OBVIOUS
  <1>1. CheckedSpec => []IInv
    BY Inductive
  <1> QED BY <1>1, IInvAccounts, PTL
-----------------------------------------------------------------------------
(***************************************************************************)
(* The refinement: what a file's owner sees is the map at the places of    *)
(* the logical blocks.  A call changes it at one place, to or from a hole, *)
(* and a block that appears there can have been in no map, as it would     *)
(* still be there and no block is in two places.                           *)
(***************************************************************************)

PlaceOf(l) ==
    IF l < Direct THEN <<"direct", l, 0>>
    ELSE IF l - Direct < PerBlock THEN <<"single", l - Direct, 0>>
    ELSE DoubleAt(l)

\* A logical block has a place of its own.
LEMMA PlacesOfBlocks ==
    ASSUME NEW l \in Logical
    PROVE  /\ PlaceOf(l) \in Data
           /\ l < Direct => l \in 0..(Direct - 1)
           /\ l >= Direct /\ l - Direct < PerBlock => l - Direct \in Slot
           /\ l >= Direct /\ l - Direct >= PerBlock =>
                /\ (l - Direct - PerBlock) \div PerBlock \in Slot
                /\ (l - Direct - PerBlock) % PerBlock \in Slot
  <1>1. Direct \in Nat /\ PerBlock \in Nat /\ l \in Nat
    BY BlockMapAssumption, LogicalSlots
  <1>2. l < Direct => l \in 0..(Direct - 1)
    BY <1>1
  <1>3. l >= Direct /\ l - Direct < PerBlock => l - Direct \in Slot
    BY <1>1 DEF Slot
  <1>4. l >= Direct /\ l - Direct >= PerBlock =>
          /\ (l - Direct - PerBlock) \div PerBlock \in Slot
          /\ (l - Direct - PerBlock) % PerBlock \in Slot
    <2>1. l - Direct - PerBlock >= 0 =>
            (l - Direct - PerBlock) \div PerBlock \in Slot /\ (l - Direct - PerBlock) % PerBlock \in Slot
      BY LogicalSlots
    <2>2. l - Direct >= PerBlock => l - Direct - PerBlock >= 0
      BY <1>1
    <2> QED BY <2>1, <2>2
  <1>5. ASSUME l < Direct PROVE PlaceOf(l) \in Data
    BY <1>2, <1>5 DEF PlaceOf, Data
  <1>6. ASSUME l >= Direct /\ l - Direct < PerBlock PROVE PlaceOf(l) \in Data
    <2>1. PlaceOf(l) = <<"single", l - Direct, 0>>
      BY <1>1, <1>6 DEF PlaceOf
    <2> QED BY <1>3, <1>6, <2>1 DEF Data
  <1>7. ASSUME l >= Direct /\ l - Direct >= PerBlock PROVE PlaceOf(l) \in Data
    <2>1. PlaceOf(l) = DoubleAt(l)
      BY <1>1, <1>7 DEF PlaceOf
    <2> QED BY <1>4, <1>7, <2>1 DEF Data, DoubleAt
  <1>8. l < Direct \/ (l >= Direct /\ (l - Direct < PerBlock \/ l - Direct >= PerBlock))
    BY <1>1
  <1> QED BY <1>2, <1>3, <1>4, <1>5, <1>6, <1>7, <1>8

\* A number is told by its quotient and its remainder.
LEMMA DivModDetermine ==
    ASSUME NEW r \in Nat, NEW s \in Nat, NEW b \in Nat \ {0},
           r \div b = s \div b, r % b = s % b
    PROVE  r = s
  <1>1. \A x \in Nat : x = b * (x \div b) + (x % b)
    OBVIOUS
  <1> QED BY <1>1

LEMMA PlacesDiffer ==
    ASSUME NEW l \in Logical, NEW k \in Logical, PlaceOf(l) = PlaceOf(k)
    PROVE  l = k
  <1>1. Direct \in Nat /\ PerBlock \in Nat \ {0} /\ l \in Nat /\ k \in Nat
    BY BlockMapAssumption, LogicalSlots
  <1>2. ASSUME NEW x \in Nat
        PROVE  /\ x < Direct => PlaceOf(x) = <<"direct", x, 0>>
               /\ x >= Direct /\ x - Direct < PerBlock => PlaceOf(x) = <<"single", x - Direct, 0>>
               /\ x >= Direct /\ x - Direct >= PerBlock => PlaceOf(x) = DoubleAt(x)
    BY <1>1 DEF PlaceOf
  <1>3. ASSUME NEW x \in Nat
        PROVE  x < Direct \/ (x >= Direct /\ x - Direct < PerBlock) \/ (x >= Direct /\ x - Direct >= PerBlock)
    BY <1>1
  <1>4. PlaceOf(l)[1] = PlaceOf(k)[1] /\ PlaceOf(l)[2] = PlaceOf(k)[2] /\ PlaceOf(l)[3] = PlaceOf(k)[3]
    OBVIOUS
  <1>5. CASE l < Direct
    <2>1. PlaceOf(l)[1] = "direct" /\ PlaceOf(l)[2] = l
      BY <1>1, <1>2, <1>5
    <2>2. k < Direct
      BY <1>1, <1>2, <1>3, <1>4, <2>1 DEF DoubleAt
    <2>3. PlaceOf(k)[2] = k
      BY <1>1, <1>2, <2>2
    <2> QED BY <1>4, <2>1, <2>3
  <1>6. CASE l >= Direct /\ l - Direct < PerBlock
    <2>1. PlaceOf(l)[1] = "single" /\ PlaceOf(l)[2] = l - Direct
      BY <1>1, <1>2, <1>6
    <2>2. k >= Direct /\ k - Direct < PerBlock
      BY <1>1, <1>2, <1>3, <1>4, <2>1 DEF DoubleAt
    <2>3. PlaceOf(k)[2] = k - Direct
      BY <1>1, <1>2, <2>2
    <2> QED BY <1>1, <1>4, <2>1, <2>3
  <1>7. CASE l >= Direct /\ l - Direct >= PerBlock
    <2> DEFINE r == l - Direct - PerBlock
               s == k - Direct - PerBlock
    <2>1. PlaceOf(l)[1] = "double" /\ PlaceOf(l)[2] = r \div PerBlock /\ PlaceOf(l)[3] = r % PerBlock
      BY <1>1, <1>2, <1>7 DEF DoubleAt
    <2>2. k >= Direct /\ k - Direct >= PerBlock
      BY <1>1, <1>2, <1>3, <1>4, <2>1
    <2>3. PlaceOf(k)[2] = s \div PerBlock /\ PlaceOf(k)[3] = s % PerBlock
      BY <1>1, <1>2, <2>2 DEF DoubleAt
    <2>4. r \in Nat /\ s \in Nat
      BY <1>1, <1>7, <2>2
    <2> HIDE DEF r, s
    <2>5. r = s
      BY <1>1, <1>4, <2>1, <2>3, <2>4, DivModDetermine
    <2> QED BY <1>1, <2>5 DEF r, s
  <1> QED BY <1>1, <1>3, <1>5, <1>6, <1>7

\* What the owners of all files see, when m are the maps and image the blocks.
SeenIn(m, image) == [f \in File |-> [l \in Logical |-> Holds(m[f], image)[PlaceOf(l)]]]

\* What myfs_inode_bmap answers from the map ino.
Answer(ino, image, l) ==
    IF l < Direct THEN ino.direct[l]
    ELSE IF l - Direct < PerBlock THEN PointersIn(image, ino.indirect1)[l - Direct]
    ELSE PointersIn(image, PointersIn(image, ino.indirect2)[(l - Direct - PerBlock) \div PerBlock])
           [(l - Direct - PerBlock) % PerBlock]

LEMMA AnswerIsHeld ==
    ASSUME NEW ino \in InodeMap, NEW image \in Image, NEW l \in Logical
    PROVE  Answer(ino, image, l) = Holds(ino, image)[PlaceOf(l)]
  <1>1. Direct \in Nat /\ PerBlock \in Nat /\ l \in Nat
    BY BlockMapAssumption, LogicalSlots
  <1>2. CASE l < Direct
    BY <1>2, PlacesOfBlocks, HoldsDirect DEF Answer, PlaceOf
  <1>3. CASE l >= Direct /\ l - Direct < PerBlock
    <2>1. /\ Answer(ino, image, l) = PointersIn(image, ino.indirect1)[l - Direct]
          /\ PlaceOf(l) = <<"single", l - Direct, 0>>
          /\ l - Direct \in Slot
      BY <1>1, <1>3, PlacesOfBlocks DEF Answer, PlaceOf
    <2> QED BY <2>1, HoldsSingle
  <1>4. CASE l >= Direct /\ l - Direct >= PerBlock
    <2> DEFINE i == (l - Direct - PerBlock) \div PerBlock
               j == (l - Direct - PerBlock) % PerBlock
    <2>1. /\ Answer(ino, image, l) = PointersIn(image, PointersIn(image, ino.indirect2)[i])[j]
          /\ PlaceOf(l) = <<"double", i, j>>
      BY <1>1, <1>4 DEF Answer, PlaceOf, DoubleAt
    <2>2. i \in Slot /\ j \in Slot
      BY <1>4, PlacesOfBlocks
    <2> HIDE DEF i, j
    <2> QED BY <2>1, <2>2, HoldsDouble
  <1>5. l < Direct \/ (l >= Direct /\ (l - Direct < PerBlock \/ l - Direct >= PerBlock))
    BY <1>1
  <1> QED BY <1>2, <1>3, <1>4, <1>5

LEMMA AnswersAreSeen ==
    ASSUME NEW m \in [File -> InodeMap], NEW image \in Image
    PROVE  /\ [f \in File |-> [l \in Logical |-> Answer(m[f], image, l)]] = SeenIn(m, image)
           /\ SeenIn(m, image) \in [File -> [Logical -> Pointer]]
  <1>1. \A f \in File : \A l \in Logical :
          /\ Answer(m[f], image, l) = Holds(m[f], image)[PlaceOf(l)]
          /\ Holds(m[f], image)[PlaceOf(l)] \in Pointer
    <2> TAKE f \in File
    <2> TAKE l \in Logical
    <2>1. m[f] \in InodeMap /\ PlaceOf(l) \in Place
      BY PlacesOfBlocks, DataIsPlace
    <2> QED BY <2>1, AnswerIsHeld, HoldsAt
  <1> QED BY <1>1 DEF SeenIn

LEMMA Shown ==
    ASSUME inode \in [File -> InodeMap], content \in Image,
           inode' \in [File -> InodeMap], content' \in Image
    PROVE  /\ Seen = SeenIn(inode, content)
           /\ Seen' = SeenIn(inode', content')
  <1>1. Seen
          = [f \in File |-> [l \in Logical |-> Answer(inode[f], content, l)]]
    BY DEF Seen, Translate, Answer
  <1>2. Seen'
          = [f \in File |-> [l \in Logical |-> Answer(inode'[f], content', l)]]
    BY DEF Seen, Translate, Answer
  <1> QED BY <1>1, <1>2, AnswersAreSeen
\* A hole of h is, in k, the block b that h maps nowhere.
MapsNew(h, k, f, l, b) ==
    /\ h[f][l] = Null
    /\ b \in Block
    /\ \A g \in File : \A x \in Logical : h[g][x] # b
    /\ k = [h EXCEPT ![f][l] = b]

\* Only the block at the place of one logical block comes or goes: seen from outside that
\* block is unmapped, or it was a hole and is mapped to a block that was in no map.
LEMMA OneBlockMoves ==
    ASSUME NEW m, NEW image, NEW F, Good(m, image, F),
           NEW m2, NEW image2, NEW F2, Good(m2, image2, F2),
           NEW f \in File, NEW l \in Logical,
           \A g \in File : g # f => Holds(m2[g], image2) = Holds(m[g], image),
           \/ Adds(Holds(m[f], image), Holds(m2[f], image2), PlaceOf(l))
           \/ Drops(Holds(m[f], image), Holds(m2[f], image2), PlaceOf(l))
    PROVE  LET h == SeenIn(m, image)
               k == SeenIn(m2, image2)
           IN  \/ k = h
               \/ k = [h EXCEPT ![f][l] = Null]
               \/ \E b : MapsNew(h, k, f, l, b)
  <1> DEFINE h == SeenIn(m, image)
             k == SeenIn(m2, image2)
             D == PlaceOf(l)
             H == Holds(m[f], image)
             K == Holds(m2[f], image2)
             b == k[f][l]
  <1>1. /\ m \in [File -> InodeMap] /\ image \in Image
        /\ m2 \in [File -> InodeMap] /\ image2 \in Image
        /\ Sound(AllHeld(m2, image2), F2)
    BY DEF Good
  <1>2. h \in [File -> [Logical -> Pointer]] /\ k \in [File -> [Logical -> Pointer]]
    BY <1>1, AnswersAreSeen
  <1>3. /\ \A g \in File : \A x \in Logical :
             h[g][x] = Holds(m[g], image)[PlaceOf(x)] /\ k[g][x] = Holds(m2[g], image2)[PlaceOf(x)]
        /\ \A x \in Logical : PlaceOf(x) \in Data /\ PlaceOf(x) \in Place
    BY PlacesOfBlocks, DataIsPlace DEF SeenIn
  <1>4. ASSUME NEW g1 \in File, NEW x1 \in Logical, NEW g2 \in File, NEW x2 \in Logical,
               k[g1][x1] = k[g2][x2], k[g1][x1] # Null
        PROVE  g1 = g2 /\ x1 = x2
    <2>1. /\ AllHeld(m2, image2)[g1][PlaceOf(x1)] = k[g1][x1]
          /\ AllHeld(m2, image2)[g2][PlaceOf(x2)] = k[g2][x2]
      BY <1>3 DEF AllHeld
    <2>2. g1 = g2 /\ PlaceOf(x1) = PlaceOf(x2)
      BY <1>1, <1>3, <1>4, <2>1 DEF Sound
    <2> QED BY <2>2, PlacesDiffer
  <1>5. Adds(H, K, D) \/ Drops(H, K, D)
    OBVIOUS
  <1>6. \A g \in File : \A x \in Logical : ~(g = f /\ x = l) => k[g][x] = h[g][x]
    <2> TAKE g \in File
    <2> TAKE x \in Logical
    <2>1. CASE g # f
      BY <1>3, <2>1
    <2>2. CASE g = f /\ x # l
      <3>1. PlaceOf(x) # D
        BY <2>2, PlacesDiffer
      <3>2. h[f][x] = H[PlaceOf(x)] /\ k[f][x] = K[PlaceOf(x)] /\ PlaceOf(x) \in Data
        BY <1>3
      <3> HIDE DEF h, k, D, H, K
      <3> QED BY <1>5, <2>2, <3>1, <3>2 DEF Adds, Drops
    <2> QED BY <2>1, <2>2
  <1>7. b = h[f][l] \/ b = Null \/ h[f][l] = Null
    <2>1. h[f][l] = H[D] /\ k[f][l] = K[D] /\ D \in Data
      BY <1>3
    <2> HIDE DEF h, k, D, H, K
    <2> QED BY <1>5, <2>1 DEF Adds, Drops
  <1>8. k = [h EXCEPT ![f][l] = b]
    <2> HIDE DEF h, k
    <2> QED BY <1>2, <1>6
  <1>9. b = h[f][l] => k = h
    <2> HIDE DEF h, k
    <2> QED BY <1>2, <1>6
  <1> HIDE DEF h, k, b
  <1>10. b = Null => k = [h EXCEPT ![f][l] = Null]
    BY <1>8
  <1>11. ASSUME h[f][l] = Null, b # Null PROVE MapsNew(h, k, f, l, b)
    <2>1. b \in Block
      BY <1>2, <1>11 DEF Pointer, b
    <2>2. ASSUME NEW g \in File, NEW x \in Logical PROVE h[g][x] # b
      BY <1>4, <1>6, <1>11 DEF b
    <2> QED BY <1>8, <1>11, <2>1, <2>2 DEF MapsNew
  <1> QED BY <1>7, <1>9, <1>10, <1>11 DEF h, k

\* A call for one logical block.
LEMMA MoveImplements ==
    ASSUME IInv, IInv', NEW f \in File, NEW l \in Logical, Moves(f, PlaceOf(l))
    PROVE  [Files!Next]_Seen
  <1> DEFINE h == SeenIn(inode, content)
             k == SeenIn(inode', content')
  <1>1. /\ Good(inode, content, free) /\ Good(inode', content', free')
        /\ inode \in [File -> InodeMap] /\ content \in Image
        /\ inode' \in [File -> InodeMap] /\ content' \in Image
    BY DEF IInv, Counted, Good
  <1>2. \/ k = h
        \/ k = [h EXCEPT ![f][l] = Null]
        \/ \E b : MapsNew(h, k, f, l, b)
    BY <1>1, OneBlockMoves DEF Moves
  <1>3. /\ Seen = h
        /\ Seen' = k
    BY <1>1, Shown
  <1> HIDE DEF h, k
  <1>4. CASE k = h
    BY <1>3, <1>4
  <1>5. CASE k = [h EXCEPT ![f][l] = Null]
    <2>1. Files!Unmap(f, l)
      BY <1>3, <1>5 DEF Files!Unmap
    <2> QED BY <2>1 DEF Files!Next
  <1>6. ASSUME NEW b, MapsNew(h, k, f, l, b) PROVE Files!Next
    <2>1. Files!Mapped = {h[g][x] : g \in File, x \in Logical} \ {Null}
      BY <1>3 DEF Files!Mapped
    <2>2. b \in Block \ Files!Mapped
      BY <1>6, <2>1 DEF MapsNew
    <2>3. Files!Map(f, l)
      BY <1>3, <1>6, <2>2 DEF Files!Map, MapsNew
    <2> QED BY <2>3 DEF Files!Next
  <1> QED BY <1>2, <1>4, <1>5, <1>6

\* A file that has no pointers has holes only.
LEMMA EmptyHolds ==
    ASSUME NEW image \in Image
    PROVE  NoBlocks \in InodeMap /\ \A l \in Logical : Holds(NoBlocks, image)[PlaceOf(l)] = Null
  <1>1. NoBlocks \in InodeMap
    BY DEF NoBlocks, InodeMap, Pointer
  <1>2. /\ NoBlocks.indirect1 = Null /\ NoBlocks.indirect2 = Null
        /\ \A l \in 0..(Direct - 1) : NoBlocks.direct[l] = Null
        /\ \A i \in Slot : PointersIn(image, Null)[i] = Null
    BY DEF NoBlocks, PointersIn, NoPointers
  <1>3. ASSUME NEW l \in Logical PROVE Answer(NoBlocks, image, l) = Null
    <2>1. Direct \in Nat /\ PerBlock \in Nat /\ l \in Nat
      BY BlockMapAssumption, LogicalSlots
    <2> QED BY <1>2, <2>1, PlacesOfBlocks DEF Answer
  <1> QED BY <1>1, <1>3, AnswerIsHeld

LEMMA ReleaseAllImplements ==
    ASSUME IInv, IInv', NEW f \in File, ReleaseAll(f)
    PROVE  Files!Next
  <1> DEFINE h == SeenIn(inode, content)
             k == SeenIn(inode', content')
  <1>1. /\ inode \in [File -> InodeMap] /\ content \in Image
        /\ inode' \in [File -> InodeMap] /\ content' \in Image
    BY DEF IInv, Counted, Good
  <1>2. inode' = [inode EXCEPT ![f] = NoBlocks] /\ content' = content
    BY DEF ReleaseAll
  <1>3. k = [h EXCEPT ![f] = [l \in Logical |-> Null]]
    <2>1. inode'[f] = NoBlocks /\ \A g \in File : g # f => inode'[g] = inode[g]
      BY <1>1, <1>2
    <2>2. \A l \in Logical : Holds(NoBlocks, content)[PlaceOf(l)] = Null
      BY <1>1, EmptyHolds
    <2>3. \A g \in File : k[g] = IF g = f THEN [l \in Logical |-> Null] ELSE h[g]
      BY <1>2, <2>1, <2>2 DEF SeenIn
    <2>4. /\ h = [g \in File |-> h[g]]
          /\ k = [g \in File |-> k[g]]
      BY DEF SeenIn
    <2> HIDE DEF h, k
    <2> QED BY <2>3, <2>4
  <1>4. /\ Seen = h
        /\ Seen' = k
    BY <1>1, Shown
  <1> HIDE DEF h, k
  <1>5. Files!UnmapAll(f)
    BY <1>3, <1>4 DEF Files!UnmapAll, Files!Hole
  <1> QED BY <1>5 DEF Files!Next
\* The place a call for a logical block works at.
LEMMA CallPlaces ==
    ASSUME NEW l \in Logical
    PROVE  /\ l < Direct => PlaceOf(l) = <<"direct", l, 0>>
           /\ l - Direct \in Slot => PlaceOf(l) = <<"single", l - Direct, 0>>
           /\ l - Direct - PerBlock >= 0 => PlaceOf(l) = DoubleAt(l)
  <1>1. Direct \in Nat /\ PerBlock \in Nat /\ l \in Nat
    BY BlockMapAssumption, LogicalSlots
  <1> QED BY <1>1 DEF PlaceOf, Slot

\* Every call is a step of the abstract map, or does not show.
LEMMA StepImplements ==
    ASSUME ~CacheOn, IInv, [CheckedNext]_vars
    PROVE  [Files!Next]_Seen
  <1>1. IInv'
    BY CheckedNextIInv
  <1>2. ASSUME NEW f \in File, NEW l \in Logical, GetDirect(f, l) \/ ReleaseDirect(f, l)
        PROVE  Moves(f, PlaceOf(l))
    <2>1. PlaceOf(l) = <<"direct", l, 0>>
      BY <1>2, CallPlaces DEF GetDirect, ReleaseDirect
    <2> QED BY <1>2, <2>1, GetDirectKept, ReleaseDirectKept
  <1>3. ASSUME NEW f \in File, NEW l \in Logical, GetSingle(f, l) \/ ReleaseSingle(f, l)
        PROVE  Moves(f, PlaceOf(l))
    <2>1. PlaceOf(l) = <<"single", l - Direct, 0>>
      BY <1>3, CallPlaces DEF GetSingle, ReleaseSingle
    <2> QED BY <1>3, <2>1, GetSingleKept, ReleaseSingleKept
  <1>4. ASSUME NEW f \in File, NEW l \in Logical, GetDouble(f, l) \/ ReleaseDouble(f, l)
        PROVE  Moves(f, PlaceOf(l))
    <2>1. PlaceOf(l) = DoubleAt(l)
      BY <1>4, CallPlaces DEF GetDouble, ReleaseDouble
    <2> QED BY <1>4, <2>1, GetDoubleKept, ReleaseDoubleKept
  <1>5. ASSUME NEW g \in File, NEW x \in Logical, Moves(g, PlaceOf(x))
        PROVE  [Files!Next]_Seen
    BY <1>1, <1>5, MoveImplements
  <1>6. ASSUME NEW f \in File, ReleaseAll(f) PROVE Files!Next
    BY <1>1, <1>6, ReleaseAllImplements
  <1>7. CASE UNCHANGED vars
    BY <1>7 DEF vars, Seen, Translate
  <1>8. CASE Recover
    <2>1. Seen' = Seen
      BY <1>8 DEF Recover, Seen, Translate
    <2> QED BY <2>1
  <1> QED BY <1>2, <1>3, <1>4, <1>5, <1>6, <1>7, <1>8 DEF CheckedNext, Next

\* Without a cache the pointer trees keep the promise of one map per file: a call maps or
\* unmaps the logical block it was given and no other, of no other file, to a block that
\* serves nowhere else, also when it builds or gives up pointer blocks or runs out of
\* space on the way.
THEOREM BlockMapImplementsFileMap == ~CacheOn => (CheckedSpec => ImplementsFileMap)
  <1> SUFFICES ASSUME ~CacheOn PROVE CheckedSpec => ImplementsFileMap
    OBVIOUS
  <1>1. Init => Files!Init
    <2> SUFFICES ASSUME Init PROVE Files!Init
      OBVIOUS
    <2>1. content \in Image /\ inode = [f \in File |-> NoBlocks]
      BY DEF Init, Image, NoPointers, Pointer
    <2>2. ASSUME NEW f \in File, NEW l \in Logical PROVE Translate(f, l) = Null
      <3>1. Translate(f, l) = Answer(NoBlocks, content, l)
        BY <2>1 DEF Translate, Answer
      <3>2. NoBlocks \in InodeMap /\ Holds(NoBlocks, content)[PlaceOf(l)] = Null
        BY <2>1, EmptyHolds
      <3> QED BY <2>1, <3>1, <3>2, AnswerIsHeld
    <2> QED BY <2>2 DEF Files!Init, Files!Hole, Seen
  <1>2. IInv /\ [CheckedNext]_vars => [Files!Next]_Seen
    BY StepImplements
  <1>3. CheckedSpec => []IInv
    BY Inductive
  <1> QED BY <1>1, <1>2, <1>3, PTL DEF CheckedSpec, ImplementsFileMap, Files!Spec
-----------------------------------------------------------------------------
(***************************************************************************)
(* What fsck says                                                          *)
(***************************************************************************)

LEMMA IInvFsck == IInv => FsckReportsOnlyLeaks
  <1> SUFFICES ASSUME IInv PROVE FsckReportsOnlyLeaks
    OBVIOUS
  <1>1. /\ inode \in [File -> InodeMap] /\ content \in Image
        /\ Sound(AllHeld(inode, content), free) /\ failed \in BOOLEAN
        /\ ~failed => Covers(AllHeld(inode, content), free)
    BY DEF IInv, Counted, Good
  <1>2. \A f \in File : Scanned(f) = Used(f)
    BY <1>1, ScanIsHeld
  <1>3. ScannedUsed = UNION {Used(f) : f \in File}
    BY <1>2 DEF ScannedUsed
  <1>4. ASSUME NEW f \in File, NEW l \in Logical
        PROVE  Translate(f, l) \in Scanned(f) \cup {Null}
    <2>1. Translate(f, l) = Answer(inode[f], content, l)
      BY DEF Translate, Answer
    <2>2. Translate(f, l) = Held(f)[PlaceOf(l)]
      BY <1>1, <2>1, AnswerIsHeld DEF Held
    <2>3. PlaceOf(l) \in Place
      BY PlacesOfBlocks, DataIsPlace
    <2> QED BY <1>2, <2>2, <2>3 DEF Used
  <1>5. Conflicts = {}
    <2> SUFFICES ASSUME NEW b \in Conflicts PROVE FALSE
      OBVIOUS
    <2>1. b \in free /\ b \in ScannedUsed
      BY DEF Conflicts
    <2>2. PICK f \in File, p \in Place : b = Held(f)[p]
      BY <1>3, <2>1 DEF Used
    <2> QED BY <1>1, <2>1, <2>2, UsedIsInUse DEF Sound
  <1>6. ASSUME ~failed PROVE Leaked = {}
    <2> SUFFICES ASSUME NEW b \in Leaked PROVE FALSE
      OBVIOUS
    <2>1. b \in Block /\ b \notin free /\ b # Null /\ b \notin ScannedUsed
      BY BlockMapAssumption DEF Leaked
    <2>2. PICK f \in File, p \in Place : AllHeld(inode, content)[f][p] = b
      BY <1>1, <1>6, <2>1 DEF Covers
    <2>3. b \in Used(f)
      BY <2>1, <2>2, UsedIsInUse DEF Used
    <2> QED BY <1>3, <2>1, <2>3
  <1> QED BY <1>1, <1>4, <1>5, <1>6, NoneMetTwice DEF FsckReportsOnlyLeaks

\* Without a cache the scan of fsck meets what the owners of the files have mapped, meets
\* no block twice and none that is free, and what it reports as leaked was left by a call
\* that ran out of space midway, before recover is run and after it.
THEOREM FsckFindsOnlyLeaks == ~CacheOn => (CheckedSpec => []FsckReportsOnlyLeaks)
  <1> SUFFICES ASSUME ~CacheOn PROVE CheckedSpec => []FsckReportsOnlyLeaks
    OBVIOUS
  <1>1. CheckedSpec => []IInv
    BY Inductive
  <1> QED BY <1>1, IInvFsck, PTL
=============================================================================
