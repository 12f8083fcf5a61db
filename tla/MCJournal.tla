------------------------------ MODULE MCJournal ------------------------------
\* The journal on three metadata blocks with two contents each and room for two
\* entries: transactions of every size, overwritten entries and a full list.
EXTENDS Journal
=============================================================================
