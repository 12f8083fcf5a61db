---------------------------- MODULE MCGroupChain ----------------------------
\* The allocator with mount, unmount and recovery on five data blocks in groups
\* of two: three groups, so that a group is stored into and loaded from a block
\* that is neither the first nor the last.
EXTENDS Recovery

\* No operator of GroupChain and Recovery tells one block from another.
Symmetry == Permutations(Block)

\* What a block reads as matters only while it links two groups of a chain: a
\* store writes it before it becomes such a link again.
Links(c) == {c[i][1] : i \in {j \in 1..(Len(c) - 1) : c[j] # << >>}}

\* Once a block that is free and recorded was used, only CleanHidesNoLoss and the
\* types are claimed, and the states are told apart by what these read.
View ==
    IF spoilt THEN <<pc, rec, clean, lost, dirty \cap refs # {}, crashes, faults>>
    ELSE <<sb, dsb, Restrict(content, Links(chain) \cup Links(dChain)), dirty, refs, transit,
           leaving, exposed, pc, cur, chain, dChain, crashes, faults, rvars>>
=============================================================================
