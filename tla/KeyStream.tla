------------------------------ MODULE KeyStream ------------------------------
(****************************************************************************)
(* What the serial link promises the keyboard: the keys the bridge sends    *)
(* reach the foreground in the order they were sent, none of them twice and *)
(* none that was never sent. A key may be lost; nothing says it arrives.    *)
(****************************************************************************)
EXTENDS Naturals

VARIABLES
    sent,   \* how many keys the bridge has begun to send
    taken   \* the serial number of the last key the foreground took

streamVars == <<sent, taken>>

StreamInit == sent = 0 /\ taken = 0

Send == sent' = sent + 1 /\ UNCHANGED taken

\* The keys between the last one taken and this one are the lost ones.
Take == \E k \in (taken + 1)..sent: taken' = k /\ UNCHANGED sent

StreamSpec == StreamInit /\ [][Send \/ Take]_streamVars

=============================================================================
