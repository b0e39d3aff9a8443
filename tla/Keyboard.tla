------------------------------ MODULE Keyboard ------------------------------
(***************************************************************************)
(* The keyboard state machine (services/v_n.rs): the crew's keys and the   *)
(* ground's uplinked ones (services/uplink.rs) drive one phase, VnPhase,   *)
(* and P27 (V70 - V73) writes into the navigation state through it, a word *)
(* at a time, while the SERVICER goes on integrating the state vector      *)
(* between two keys.                                                       *)
(*                                                                         *)
(* A number is chosen when ENTR or NOUN ends it; until then only how many  *)
(* digits of a two-digit number have been typed is kept, and of a data     *)
(* word nothing.  Of a state vector the model keeps in which frame each    *)
(* component is given.  PRO and the V50 requests it answers are Burn's;    *)
(* what becomes of a TIG that is loaded is Targeting's.                    *)
(***************************************************************************)
EXTENDS Integers, Targeting

CONSTANTS
  MaxAddress,    \* P27_MAX_ADDRESS, the frame selector: 31
  VectorWords    \* words of the state vector, from address 1: 6

ASSUME KeyboardAssumption ==
  /\ VectorWords \in Nat \ {0}
  /\ MaxAddress \in Nat
  /\ VectorWords < MaxAddress

VARIABLES
  vn,            \* VnState::phase with what it carries
  oprErr,        \* DskyState::opr_err, the lamp
  label,         \* csm_state.frame
  comps,         \* the frame each component of csm_state is really given in
  wordFrame,     \* the frame the ground means its current words in
  cycled         \* history: a SERVICER cycle since the block was accepted

vectorVars == <<label, comps>>
blockVars == <<wordFrame, cycled>>
keyboardVars == <<vn, oprErr, targetVars, label, comps, wordFrame, cycled>>

Frames == {"Earth", "Moon"}
Components == 1 .. VectorWords
Addresses == 1 .. MaxAddress
Nouns == {"tig", "dv", "other"}    \* HMS time nouns such as N33, N81, the rest

\* VnPhase.  "left" is the number of registers that a load still asks for.
Keyed(phases) == [phase : phases, typed : 0 .. 2]
VnPhase ==
  [phase : {"Idle", "OprErr"}]
    \cup Keyed({"EnteringVerb", "EnteringNoun", "EnteringMajorMode",
                "P27Address", "P27SingleAddress"})
    \cup [phase : {"EnteringData"}, noun : Nouns, left : 1 .. 3]
    \cup [phase : {"P27Time"}, left : 1 .. 3]
    \cup [phase : {"P27Count"}, typed : 0 .. 2, address : Addresses]
    \cup [phase : {"P27Data"}, address : Addresses, count : Addresses,
          loaded : 0 .. MaxAddress]
    \cup [phase : {"P27SingleData"}, address : Addresses]

Idle == [phase |-> "Idle"]
OprErr == [phase |-> "OprErr"]
Empty(phase) == [phase |-> phase, typed |-> 0]

At(phase) == vn.phase = phase

\* Every component is given in the frame that the vector claims to be in.
Whole == \A i \in Components : comps[i] = label

Init ==
  /\ vn = Idle
  /\ oprErr = FALSE
  /\ NoTarget
  /\ label = "Earth"
  /\ comps = [i \in Components |-> "Earth"]
  /\ wordFrame = "Earth"
  /\ cycled = FALSE

-----------------------------------------------------------------------------
\* Keys that mean the same in every phase, and keys that mean nothing.

\* Wrong on purpose: the lamp goes out and the keyboard stays locked.
RsetLampOnly ==
  /\ oprErr' = FALSE
  /\ UNCHANGED <<vn, targetVars, vectorVars, blockVars>>

Rset ==
  /\ vn' = Idle
  /\ oprErr' = FALSE
  /\ UNCHANGED <<targetVars, vectorVars, blockVars>>

\* CLR abandons the entry: what a load has written so far stays written.
Clr ==
  /\ vn' = Idle
  /\ UNCHANGED <<oprErr, targetVars, vectorVars, blockVars>>

\* VERB starts again from any phase, OprErr included (the ground's only from
\* the others), and leaves the lamp as it is.
Verb ==
  /\ vn' = Empty("EnteringVerb")
  /\ UNCHANGED <<oprErr, targetVars, vectorVars, blockVars>>

\* raise_opr_err
Fail ==
  /\ vn' = OprErr
  /\ oprErr' = TRUE
  /\ UNCHANGED <<targetVars, vectorVars, blockVars>>

\* Each phase but OprErr has its wrong keys: a digit too many or too few, a
\* sign or NOUN out of place, an unknown verb or program, a number out of range.
WrongKey == ~At("OprErr") /\ Fail

Quiet == UNCHANGED <<oprErr, targetVars, vectorVars, blockVars>>

\* Wrong on purpose: a third digit is taken.
DigitOver ==
  /\ "typed" \in DOMAIN vn
  /\ vn.typed < 3
  /\ vn' = [vn EXCEPT !.typed = @ + 1]
  /\ Quiet

Digit ==
  /\ "typed" \in DOMAIN vn
  /\ vn.typed < 2
  /\ vn' = [vn EXCEPT !.typed = @ + 1]
  /\ Quiet

Noun ==
  /\ At("EnteringVerb") /\ vn.typed = 2
  /\ vn' = Empty("EnteringNoun")
  /\ Quiet

-----------------------------------------------------------------------------
\* ENTR after a verb, or after a verb and a noun: dispatch_verb_noun.

AfterVerb == At("EnteringVerb") /\ vn.typed = 2
AfterNoun == At("EnteringNoun") /\ vn.typed = 2
Complete == AfterVerb \/ AfterNoun

\* start_load: V21, V22 and V23 ask for one register, V25 for three.
StartLoad(noun, registers) ==
  /\ AfterNoun
  /\ vn' = [phase |-> "EnteringData", noun |-> noun, left |-> registers]
  /\ Quiet

\* V71 and V72
StartUpdate(phase) ==
  /\ Complete
  /\ vn' = Empty(phase)
  /\ Quiet

\* V70 and V73
TimeUpdate ==
  /\ Complete
  /\ vn' = [phase |-> "P27Time", left |-> 3]
  /\ Quiet

\* V37E
MajorMode ==
  /\ AfterVerb
  /\ vn' = Empty("EnteringMajorMode")
  /\ Quiet

\* V37ExxE or V32.
RunProgram ==
  /\ \/ At("EnteringMajorMode") /\ vn.typed = 2
     \/ Complete
  /\ vn' = Idle
  /\ RunTargeting(label = "Moon")
  /\ UNCHANGED <<oprErr, vectorVars, blockVars>>

\* V36
FreshStart ==
  /\ Complete
  /\ vn' = Idle
  /\ oprErr' = FALSE
  /\ ForgetTarget
  /\ label' = "Earth"
  /\ comps' = [i \in Components |-> "Earth"]
  /\ UNCHANGED blockVars

\* V69: the lamp goes out, navigation is kept.
Restart ==
  /\ Complete
  /\ vn' = Idle
  /\ oprErr' = FALSE
  /\ UNCHANGED <<targetVars, vectorVars, blockVars>>

\* The other verbs, which leave this module's state alone.
OtherVerb == Complete /\ vn' = Idle /\ Quiet

-----------------------------------------------------------------------------
\* ENTR in a load.

\* noun_commit: a time is staged, an LVLH delta-v takes it.
Commit(noun) ==
  \/ noun = "tig" /\ \E t \in Tigs : StageTig(t)
  \/ noun = "dv" /\ CommitDv
  \/ noun = "other" /\ UNCHANGED targetVars

EnterRegister ==
  /\ At("EnteringData")
  /\ \/ /\ vn.left > 1
        /\ vn' = [vn EXCEPT !.left = @ - 1]
        /\ UNCHANGED targetVars
     \/ /\ vn.left = 1
        /\ vn' = Idle
        /\ Commit(vn.noun)
  /\ UNCHANGED <<oprErr, vectorVars, blockVars>>

EnterTime ==
  /\ At("P27Time")
  /\ vn' = IF vn.left > 1 THEN [vn EXCEPT !.left = @ - 1] ELSE Idle
  /\ Quiet

\* The words that follow are meant in one frame, which only their sender knows.
EnterAddress(a, f) ==
  /\ At("P27Address") /\ vn.typed > 0
  /\ vn' = [phase |-> "P27Count", typed |-> 0, address |-> a]
  /\ wordFrame' = f
  /\ UNCHANGED <<oprErr, targetVars, vectorVars, cycled>>

\* Wrong on purpose: the last word may be one past the address space.
EnterCountOver(n) ==
  /\ At("P27Count") /\ vn.typed > 0
  /\ vn.address + n <= MaxAddress + 2
  /\ vn' = [phase |-> "P27Data", address |-> vn.address, count |-> n, loaded |-> 0]
  /\ cycled' = FALSE
  /\ UNCHANGED <<oprErr, targetVars, vectorVars, wordFrame>>

EnterCount(n) ==
  /\ At("P27Count") /\ vn.typed > 0
  /\ vn.address + n <= MaxAddress + 1
  /\ vn' = [phase |-> "P27Data", address |-> vn.address, count |-> n, loaded |-> 0]
  /\ cycled' = FALSE
  /\ UNCHANGED <<oprErr, targetVars, vectorVars, wordFrame>>

EnterSingleAddress(a, f) ==
  /\ At("P27SingleAddress") /\ vn.typed > 0
  /\ vn' = [phase |-> "P27SingleData", address |-> a]
  /\ wordFrame' = f
  /\ UNCHANGED <<oprErr, targetVars, vectorVars, cycled>>

\* Wrong on purpose: a word does not put the vector back into the Earth's frame.
ApplyWordKeepsFrame(a) ==
  \/ /\ a \in Components
     /\ comps' = [comps EXCEPT ![a] = wordFrame]
     /\ UNCHANGED label
  \/ a = MaxAddress /\ label' \in Frames /\ UNCHANGED comps
  \/ a \in Addresses \ Components /\ a # MaxAddress /\ UNCHANGED vectorVars

\* p27_apply_word, where it returns true: a word of the vector makes it an
\* Earth-frame one, the selector takes "1" or "2", the rest is not modelled.
ApplyWord(a) ==
  \/ /\ a \in Components
     /\ comps' = [comps EXCEPT ![a] = wordFrame]
     /\ label' = "Earth"
  \/ a = MaxAddress /\ label' \in Frames /\ UNCHANGED comps
  \/ a \in Addresses \ Components /\ a # MaxAddress /\ UNCHANGED vectorVars

Target == vn.address + (IF At("P27Data") THEN vn.loaded ELSE 0)

\* A word of a block, and the single word of V72.
EnterWord ==
  /\ At("P27Data") \/ At("P27SingleData")
  /\ ApplyWord(Target)
  /\ vn' = IF At("P27Data") /\ vn.loaded + 1 < vn.count
           THEN [vn EXCEPT !.loaded = @ + 1]
           ELSE Idle
  /\ UNCHANGED <<oprErr, targetVars, blockVars>>

\* p27_apply_word, where it returns false: a selector that is neither, or an
\* address beyond it.
RefuseWord ==
  /\ At("P27Data") \/ At("P27SingleData")
  /\ Target >= MaxAddress
  /\ Fail

-----------------------------------------------------------------------------
\* A SERVICER cycle between two keys.

Other(f) == IF f = "Earth" THEN "Moon" ELSE "Earth"

\* Wrong on purpose: soi_check moves the first component only.
SoiCheckFirst ==
  \/ UNCHANGED vectorVars
  \/ label' = Other(label) /\ comps' = [comps EXCEPT ![1] = Other(label)]

\* soi_check: a vector that crosses the sphere of influence changes frames.
SoiCheck ==
  \/ UNCHANGED vectorVars
  \/ label' = Other(label) /\ comps' = [i \in Components |-> Other(label)]

\* servicer_task.  Integrated with components of two frames, or around the
\* wrong body, the vector is right in no frame any more.
ServicerTask ==
  /\ \/ Whole /\ SoiCheck
     \/ ~Whole /\ comps' = [i \in Components |-> "none"] /\ label' \in Frames
  /\ cycled' = TRUE
  /\ UNCHANGED <<vn, oprErr, targetVars, wordFrame>>

Keys ==
  \/ Rset \/ Clr \/ Verb \/ WrongKey \/ Digit \/ Noun
  \/ \E noun \in Nouns, registers \in {1, 3} : StartLoad(noun, registers)
  \/ \E phase \in {"P27Address", "P27SingleAddress"} : StartUpdate(phase)
  \/ TimeUpdate \/ MajorMode \/ RunProgram \/ FreshStart \/ Restart \/ OtherVerb
  \/ EnterRegister \/ EnterTime
  \/ \E a \in Addresses, f \in Frames : EnterAddress(a, f)
  \/ \E n \in Addresses : EnterCount(n)
  \/ \E a \in Addresses, f \in Frames : EnterSingleAddress(a, f)
  \/ EnterWord \/ RefuseWord

Next == Keys \/ ServicerTask

Spec == Init /\ [][Next]_keyboardVars

-----------------------------------------------------------------------------

KeyboardTypeOK ==
  /\ vn \in VnPhase
  /\ oprErr \in BOOLEAN
  /\ TargetTypeOK
  /\ label \in Frames
  /\ comps \in [Components -> Frames \cup {"none"}]
  /\ wordFrame \in Frames
  /\ cycled \in BOOLEAN

\* A locked keyboard says so: whoever locked it, crew or ground, and whatever
\* put the lamp out since (RSET, V36, V69), OprErr is never dark.
LockIsLit == At("OprErr") => oprErr

\* A block that has been accepted lies in the address space: the only word of
\* it that can be refused is the frame selector's, after all the others.
RefusedOnlyBySelector ==
  [][RefuseWord => Target = MaxAddress]_keyboardVars

\* The state vector stays in one frame.  It is torn by nothing but a P27 word,
\* and by that only if the vector or the word is the Moon's, or the frame is
\* selected by hand: no SERVICER cycle, restart or abandoned load does it.
TornOnlyByWord ==
  [][Whole /\ ~Whole' =>
       EnterWord /\ (label = "Moon" \/ wordFrame = "Moon" \/ Target = MaxAddress)
    ]_keyboardVars

\* A block with the six words of an Earth-frame vector, all given between two
\* SERVICER cycles, installs it, whatever state the old vector was in.
BlockInstalls ==
  [][/\ EnterWord /\ At("P27Data")
     /\ vn.address = 1 /\ vn.loaded + 1 = VectorWords
     /\ wordFrame = "Earth" /\ ~cycled
     => Whole']_keyboardVars
=============================================================================
