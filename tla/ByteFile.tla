------------------------------- MODULE ByteFile -------------------------------
(***************************************************************************)
(* What the file calls promise: a file is a size and a row of bytes, and   *)
(* every open descriptor has an offset of its own.  RawFile.tla shows that *)
(* the block-by-block loops of raw_file.cpp keep this promise.             *)
(*                                                                         *)
(* What a failed write left behind the end of the file is part of it: it   *)
(* stays there until the file grows over it or a truncation clears it.     *)
(* After a failed truncation the file may share bytes with others, and     *)
(* from then on only its size and the offsets are its own.                 *)
(***************************************************************************)
EXTENDS Integers, Sequences

CONSTANTS
    Fd,      \* the open descriptors of the file
    Byte,    \* the values of a byte
    Zero,    \* the byte a hole reads as
    Data,    \* the rows of bytes that are written
    Number,  \* the offsets, lengths and sizes that are asked for
    Capacity \* the bytes a file can have blocks for

VARIABLES
    bytes,  \* the bytes, those behind the end included
    size,
    offset, \* the offset of each descriptor
    reply,  \* how the last call has answered
    loose   \* whether the bytes may belong to others as well

Position == 0..(Capacity - 1)
Larger(m, n) == IF m > n THEN m ELSE n
Done(data) == [ok |-> TRUE, data |-> data]
Error == [ok |-> FALSE, data |-> << >>]

Init ==
    /\ bytes = [p \in Position |-> Zero]
    /\ size = 0
    /\ offset = [fd \in Fd |-> 0]
    /\ reply = Done(<< >>)
    /\ loose = FALSE

Over(o, data) ==
    [p \in Position |-> IF p \in o..(o + Len(data) - 1) THEN data[p - o + 1] ELSE bytes[p]]

Longer(o, data) == IF data = << >> THEN size ELSE Larger(size, o + Len(data))

\* All the data, or an error and the first part of it, with the new end only if
\* that is everything; nothing written behind the end does not move the end.
Put(o, data) ==
    \/ /\ data = << >> \/ o + Len(data) <= Capacity
       /\ bytes' = Over(o, data)
       /\ size' = Longer(o, data)
       /\ reply' = Done(<< >>)
    \/ /\ \E k \in 0..Len(data) :
             /\ bytes' = Over(o, SubSeq(data, 1, k))
             /\ size' = size \/ (size' = Longer(o, data) /\ k = Len(data))
       /\ reply' = Error

Write(fd, data) ==
    /\ Put(offset[fd], data)
    /\ offset' = IF reply'.ok THEN [offset EXCEPT ![fd] = @ + Len(data)] ELSE offset
    /\ UNCHANGED loose

ZeroSome(o, n) == Put(o, [i \in 1..n |-> Zero]) /\ UNCHANGED <<offset, loose>>

\* The bytes up to the end of the file, or an error, as where no block can be.
Read(fd, n) ==
    LET o == offset[fd]
        m == IF o >= size THEN 0 ELSE IF n < size - o THEN n ELSE size - o
    IN  /\ \/ /\ m = 0 \/ o + m <= Capacity
              /\ reply' = Done([i \in 1..m |-> bytes[o + i - 1]])
              /\ offset' = [offset EXCEPT ![fd] = @ + m]
           \/ /\ reply' = Error
              /\ offset' = offset
        /\ UNCHANGED <<bytes, size, loose>>

Seek(fd, o) ==
    /\ offset' = [offset EXCEPT ![fd] = o]
    /\ reply' = Done(<< >>)
    /\ UNCHANGED <<bytes, size, loose>>

Open(fd, append) == Seek(fd, IF append THEN size ELSE 0)

\* What was cut off reads as zero if the file grows again.  A truncation that fails
\* may lose any of what was to be cut, and all of it if the new size is set.
Truncate(n) ==
    /\ bytes' \in [Position -> Byte]
    /\ \A p \in Position :
         bytes'[p] \in IF p < n \/ n >= size THEN {bytes[p]}
                       ELSE IF p >= size \/ size' # n THEN {bytes[p], Zero}
                       ELSE {Zero}
    /\ \/ reply' = Done(<< >>) /\ size' = n /\ loose' = loose
       \/ reply' = Error /\ size' \in {size, n} /\ loose' \in {loose, loose \/ n < size}

TruncateFd(fd) ==
    /\ Truncate(0)
    /\ offset' = IF reply'.ok THEN [offset EXCEPT ![fd] = 0] ELSE offset

\* Somebody else writes.
Overwritten ==
    /\ loose
    /\ bytes' \in [Position -> Byte]
    /\ UNCHANGED <<size, offset, reply, loose>>

Next ==
    \/ \E fd \in Fd :
         \/ \E data \in Data : Write(fd, data)
         \/ \E n \in Number : Read(fd, n) \/ Seek(fd, n)
         \/ \E append \in BOOLEAN : Open(fd, append)
         \/ TruncateFd(fd)
    \/ \E n \in Number : Truncate(n) /\ UNCHANGED offset
    \/ \E o, n \in Number : ZeroSome(o, n)
    \/ Overwritten

Spec == Init /\ [][Next]_<<bytes, size, offset, reply, loose>>
=============================================================================
