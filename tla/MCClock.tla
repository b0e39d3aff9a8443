------------------------------ MODULE MCClock ------------------------------
EXTENDS Clock, TLC

\* The slots of the waitlist are interchangeable.
MCSymmetry == Permutations(Chains)
=============================================================================
