----------------------------- MODULE Targeting -----------------------------
(***************************************************************************)
(* A time of ignition, from the keyboard to the burn: a load stages it     *)
(* (services/v_n.rs), N81, P33 and P34 take it for a target, P31 and P32   *)
(* read it and leave it, and P40 and P41 turn the target into a burn.      *)
(*                                                                         *)
(* Of a maneuver the model keeps which load its TIG came from and which    *)
(* program aimed it.  What a program computes is left out, and so is the   *)
(* clock: a program may find its solution or refuse.                       *)
(***************************************************************************)

CONSTANT Tigs      \* loads of a TIG: each is another, whatever time it gives

NoTig == "none"    \* None; in a maneuver, a TIG computed from the clock

ASSUME TargetingAssumption == NoTig \notin Tigs

VARIABLES
  pendingTig,      \* VnState::pending_tig
  maneuver,        \* AgcState::pending_maneuver
  burn,            \* the maneuver last engaged; BurnState itself keeps its tig
  arrivalKnown     \* tpi_arrival_epoch is Some

targetVars == <<pendingTig, maneuver, burn, arrivalKnown>>

\* TargetingMode: P31's and P32's, and those of N81, P33, P34 and P37.
TargetingMode == {"coelliptic", "other"}

Maneuver == [tig : Tigs \cup {NoTig}, mode : TargetingMode \cup {"none"}]
NoManeuver == [tig |-> NoTig, mode |-> "none"]

NoTarget ==
  /\ pendingTig = NoTig
  /\ maneuver = NoManeuver
  /\ burn = NoManeuver
  /\ arrivalKnown = FALSE

\* FRESH START replaces the whole state.
ForgetTarget ==
  /\ pendingTig' = NoTig
  /\ maneuver' = NoManeuver
  /\ burn' = NoManeuver
  /\ arrivalKnown' = FALSE

-----------------------------------------------------------------------------

Aim(tig, mode) == maneuver' = [tig |-> tig, mode |-> mode]

\* N33 and the other nouns of a time; a load is new, and replaces the one staged.
StageTig(t) ==
  /\ t \in Tigs \ {maneuver.tig, burn.tig}
  /\ pendingTig' = t
  /\ UNCHANGED <<maneuver, burn, arrivalKnown>>

\* Wrong on purpose: the TIG is read and left where it is.
ReadTig == pendingTig # NoTig /\ UNCHANGED pendingTig

\* pending_tig.take()
TakeTig == pendingTig # NoTig /\ pendingTig' = NoTig

\* N81.  The TIG is gone even if it turns out to lie in the past, and nothing
\* but an alarm comes of a delta-v without one.
CommitDv ==
  /\ \/ TakeTig /\ (Aim(pendingTig, "other") \/ UNCHANGED maneuver)
     \/ pendingTig = NoTig /\ UNCHANGED <<pendingTig, maneuver>>
  /\ UNCHANGED <<burn, arrivalKnown>>

\* P30; P06 and P62 drop what is pending as well.
DropManeuver ==
  /\ maneuver' = NoManeuver
  /\ UNCHANGED <<pendingTig, burn, arrivalKnown>>

\* P31 and P32, with the current time if no TIG is staged.
SelectCoelliptic ==
  /\ Aim(pendingTig, "coelliptic")
  /\ UNCHANGED <<pendingTig, burn, arrivalKnown>>

\* P33, the target there: what fails after the TIG is taken leaves the rest.
SelectP33 ==
  /\ TakeTig
  /\ \/ Aim(pendingTig, "other") /\ arrivalKnown' = TRUE
     \/ UNCHANGED <<maneuver, arrivalKnown>>
  /\ UNCHANGED burn

\* P34, which aims at P33's arrival.
SelectP34 ==
  /\ arrivalKnown
  /\ TakeTig
  /\ Aim(pendingTig, "other") \/ UNCHANGED maneuver
  /\ UNCHANGED <<burn, arrivalKnown>>

\* P37, around the Moon.
SelectP37 ==
  /\ Aim(NoTig, "other")
  /\ UNCHANGED <<pendingTig, burn, arrivalKnown>>

\* P40 and P41: engage_burn.
EngageBurn ==
  /\ maneuver # NoManeuver
  /\ burn' = maneuver
  /\ maneuver' = NoManeuver
  /\ UNCHANGED <<pendingTig, arrivalKnown>>

\* The programs that have to do with a target, and those that have not or
\* refuse before they take anything.
RunTargeting(inMoonFrame) ==
  \/ DropManeuver
  \/ SelectCoelliptic
  \/ SelectP33 \/ SelectP34
  \/ inMoonFrame /\ SelectP37
  \/ EngageBurn
  \/ UNCHANGED targetVars

-----------------------------------------------------------------------------

TargetTypeOK ==
  /\ pendingTig \in Tigs \cup {NoTig}
  /\ maneuver \in Maneuver
  /\ burn \in Maneuver
  /\ arrivalKnown \in BOOLEAN

SameTig(a, b) == a # NoTig /\ a = b

\* Where one TIG serves twice.  The TIG staged, the maneuver pending and the
\* burn engaged come from three loads, with one exception: what P31 or P32
\* aimed has a TIG that is still staged, or that a later program was aimed at.
\* N81, P33 and P34 never leave a TIG for a second target, whatever programs,
\* refusals and burns come between.
TigSharedOnlyByCoelliptic ==
  /\ SameTig(maneuver.tig, pendingTig) => maneuver.mode = "coelliptic"
  /\ SameTig(burn.tig, pendingTig) \/ SameTig(burn.tig, maneuver.tig)
       => burn.mode = "coelliptic"
=============================================================================
