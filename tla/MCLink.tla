------------------------------- MODULE MCLink -------------------------------
EXTENDS Link

Lengths == {1, 4}

=============================================================================
