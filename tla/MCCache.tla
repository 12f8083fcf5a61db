------------------------------ MODULE MCCache ------------------------------
\* The cache on four blocks, two contents and capacities one and two, so that
\* hits, misses, evictions of clean and of dirty victims all happen.
EXTENDS Cache
=============================================================================
