------------------------------- MODULE MCBurn -------------------------------
EXTENDS Burn
=============================================================================
