----------------------------- MODULE MCKeyboard -----------------------------
EXTENDS Keyboard, TLC

\* Which of the loads is which makes no difference.
TigSymmetry == Permutations(Tigs)
=============================================================================
