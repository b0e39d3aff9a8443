------------------------------- MODULE MCJets -------------------------------
EXTENDS Jets
=============================================================================
