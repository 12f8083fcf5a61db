------------------------------ MODULE MCRawFile ------------------------------
\* A file of up to two blocks of two bytes, with reads and writes of up to two
\* bytes that begin anywhere, and sizes beyond what the map can hold.
EXTENDS RawFile
=============================================================================
