------------------------------- MODULE FileMap -------------------------------
(***************************************************************************)
(* What the block map promises: every file has its own partial map from    *)
(* logical to physical blocks, no physical block serves two of them, and a *)
(* call changes the map of its own file only, at the logical block it was  *)
(* given.  BlockMap.tla shows that the pointer trees of block_map.cpp keep *)
(* this promise.                                                           *)
(***************************************************************************)
CONSTANTS
    File,    \* the inodes
    Logical, \* the logical block numbers of a file
    Block,   \* the data blocks
    Null     \* no block: a hole

VARIABLE map \* [File -> [Logical -> Block \cup {Null}]]

Hole == [l \in Logical |-> Null]
Mapped == {map[f][l] : f \in File, l \in Logical} \ {Null}

Init == map = [f \in File |-> Hole]

Map(f, l) ==
    /\ map[f][l] = Null
    /\ \E b \in Block \ Mapped : map' = [map EXCEPT ![f][l] = b]

Unmap(f, l) == map' = [map EXCEPT ![f][l] = Null]

UnmapAll(f) == map' = [map EXCEPT ![f] = Hole]

Next ==
    \E f \in File :
        \/ \E l \in Logical : Map(f, l) \/ Unmap(f, l)
        \/ UnmapAll(f)

Spec == Init /\ [][Next]_map
=============================================================================
