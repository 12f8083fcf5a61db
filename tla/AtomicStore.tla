----------------------------- MODULE AtomicStore -----------------------------
(***************************************************************************)
(* What write-ahead logging promises about the metadata blocks.  Writes    *)
(* are gathered in a transaction in memory; committing it changes all of   *)
(* its blocks in one step, and nothing else ever changes a block: a        *)
(* process that is killed leaves the transaction made or not made.  Once a *)
(* device write has failed nothing is promised.  Journal.tla shows that    *)
(* journal.cpp keeps this promise.                                         *)
(***************************************************************************)
CONSTANTS
    Target, \* the metadata blocks
    Value   \* their contents

VARIABLES
    store,   \* [Target -> Value]: the contents a recovery would leave
    pending, \* the contents logged so far, for some of the blocks
    faulty   \* whether a device write has failed

vars == <<store, pending, faulty>>

NoWrites == << >>
Transactions == UNION {[S -> Value] : S \in SUBSET Target}

Init ==
    /\ store \in [Target -> Value]
    /\ pending = NoWrites
    /\ faulty = FALSE

Log(t, v) ==
    /\ pending' = [u \in DOMAIN pending \cup {t} |-> IF u = t THEN v ELSE pending[u]]
    /\ UNCHANGED <<store, faulty>>

Commit ==
    /\ store' = [t \in Target |-> IF t \in DOMAIN pending THEN pending[t] ELSE store[t]]
    /\ pending' = NoWrites
    /\ UNCHANGED faulty

\* The caller gives the transaction up, or the process is killed.
Discard ==
    /\ pending' = NoWrites
    /\ UNCHANGED <<store, faulty>>

Fault ==
    /\ faulty' = TRUE
    /\ store' \in [Target -> Value]
    /\ pending' \in Transactions

Next ==
    \/ \E t \in Target, v \in Value : Log(t, v)
    \/ Commit
    \/ Discard
    \/ Fault

Spec == Init /\ [][Next]_vars
=============================================================================
