----------------------------- MODULE BlockStore -----------------------------
(***************************************************************************)
(* What the block layer promises to the code above it.  A block has a live *)
(* content, which every read returns, and a durable content, which is what *)
(* a process that is killed leaves behind in disk.img.  The store may copy *)
(* live contents to the disk whenever it likes, and has to only when it is *)
(* told to.  A write that bypasses the store and reports an error may tear *)
(* the two apart: readers keep the old content, no sync repairs it, and    *)
(* at a moment nobody chooses they begin to see the new one.               *)
(* Cache.tla shows that cache.cpp over disk.cpp implements this.           *)
(***************************************************************************)
CONSTANTS
    Block,  \* the block numbers of the disk image
    Value   \* the contents a block may have

VARIABLES
    live,    \* [Block -> Value]: what a read returns
    durable, \* [Block -> Value]: what survives a crash
    torn,    \* the blocks whose live content is not that of the failed install
    reply    \* what the last call returned

vars == <<live, durable, torn, reply>>

Status == {"none", "ok", "synced", "error"}

Init ==
    /\ durable \in [Block -> Value]
    /\ live = durable
    /\ torn = {}
    /\ reply = "none"

\* The blocks of S reach the disk with the content they have now.
WriteBack(S) == durable' = [b \in Block |-> IF b \in S THEN live[b] ELSE durable[b]]

\* Some blocks, none of them torn, are written back on the way.
MayWriteBack == \E S \in SUBSET (Block \ torn) : WriteBack(S)

\* At any step torn blocks may come to read as the disk has them, and are torn
\* no more: the contents after such a step, and one that changes nothing else.
Settled == [b \in Block |-> IF b \in torn \ torn' THEN durable[b] ELSE live[b]]
Settle == torn' \subseteq torn /\ live' = Settled

Read(b) ==
    /\ Settle
    /\ reply' = live'[b]
    /\ MayWriteBack

Write(b, v) ==
    /\ torn' \subseteq torn \ {b}
    /\ live' = [Settled EXCEPT ![b] = v]
    /\ reply' = "ok"
    /\ MayWriteBack

\* A write that bypasses the store.
Install(b, v) ==
    /\ live' = [live EXCEPT ![b] = v]
    /\ durable' = [durable EXCEPT ![b] = v]
    /\ torn' = torn \ {b}
    /\ reply' \in {"ok", "error"}

\* One that fails and whose content is hidden: the block is torn, or it has
\* content still to be written back, which will replace the new one.
InstallHidden(b, v) ==
    /\ durable' = [durable EXCEPT ![b] = v]
    /\ torn' \in {torn, torn \cup {b}}
    /\ reply' = "error"
    /\ UNCHANGED live

Flush ==
    /\ Settle
    /\ reply' \in {"ok", "error"}
    /\ MayWriteBack

\* Everything live is on the disk, but for the blocks that are torn.
Sync ==
    /\ WriteBack(Block \ torn)
    /\ Settle
    /\ reply' = "synced"

\* The owner of b gave it up: its unwritten content is forgotten.
Discard(b) ==
    /\ live' = [live EXCEPT ![b] = durable[b]]
    /\ torn' = torn \ {b}
    /\ reply' = "ok"
    /\ UNCHANGED durable

Crash ==
    /\ live' = durable
    /\ torn' = {}
    /\ reply' = "none"
    /\ UNCHANGED durable

Next ==
    \/ \E b \in Block : Read(b) \/ Discard(b)
    \/ \E b \in Block, v \in Value : Write(b, v) \/ Install(b, v) \/ InstallHidden(b, v)
    \/ Flush \/ Sync \/ Crash

Spec == Init /\ [][Next]_vars
=============================================================================
