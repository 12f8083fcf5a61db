----------------------------- MODULE MCNamespace -----------------------------
\* Four inodes, one of them the root and one the users' file, directories of
\* two entries and two descriptors: inodes are reused, and everything can be
\* full.  Four commands suffice to open, link and delete a file, and three of
\* them on both sides of a kill.  The long name is stored as the short one.  Inode 1 is mostly
\* that of the users' file, so data may spell entries for inode 2, be it free, in
\* use or allocated later.
EXTENDS Namespace, TLC

CONSTANTS users, short, long

MCStored == users :> users @@ short :> short @@ long :> short
MCSpelled == {<<short, 2>>}
=============================================================================
