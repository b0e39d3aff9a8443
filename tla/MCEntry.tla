------------------------------ MODULE MCEntry ------------------------------
EXTENDS Entry
=============================================================================
