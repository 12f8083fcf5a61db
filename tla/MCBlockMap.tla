------------------------------ MODULE MCBlockMap ------------------------------
\* Two files over five blocks, one direct pointer and two pointers per block: a
\* file can use both indirect regions and run out of space at every point.
EXTENDS BlockCheck, Functions, TLC

\* No operator of BlockMap tells one block, or one file, from another.
Symmetry == Permutations(Block) \cup Permutations(File)

\* Without a cache the content of a block matters only while it is a pointer
\* block: alloc zeroes it before it becomes one again.
PointerBlocks ==
    UNION {{inode[f].indirect1, inode[f].indirect2} \cup Range(PointersIn(content, inode[f].indirect2)) :
             f \in File} \ {Null}
View == <<inode, Restrict(content, PointerBlocks), free, failed>>
=============================================================================
