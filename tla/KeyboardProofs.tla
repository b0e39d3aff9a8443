--------------------------- MODULE KeyboardProofs ---------------------------
(***************************************************************************)
(* What Keyboard guarantees for every size of the P27 address space, and   *)
(* Targeting for every set of loads.                                       *)
(*                                                                         *)
(* The inductive invariant adds to the types that an accepted block lies   *)
(* in the address space (BlockFits), and that the words of an Earth-frame  *)
(* block given so far, with no SERVICER cycle among them, are in place     *)
(* (LoadedSoFar).                                                          *)
(***************************************************************************)
EXTENDS Keyboard, TLAPS

BlockFits ==
  At("P27Data") => vn.address + vn.count <= MaxAddress + 1 /\ vn.loaded < vn.count

LoadedSoFar ==
  At("P27Data") /\ wordFrame = "Earth" /\ ~cycled /\ vn.address = 1 /\ vn.loaded > 0
    => /\ label = "Earth"
       /\ \A i \in Components : i <= vn.loaded => comps[i] = "Earth"

TargetInv == TargetTypeOK /\ TigSharedOnlyByCoelliptic

KeyboardInv ==
  /\ KeyboardTypeOK
  /\ BlockFits
  /\ LockIsLit
  /\ TigSharedOnlyByCoelliptic
  /\ LoadedSoFar

-----------------------------------------------------------------------------
\* The fields of the phases, and the phases that the handlers build.

LEMMA PhaseFields ==
  ASSUME vn \in VnPhase
  PROVE  /\ At("EnteringData") =>
              vn \in [phase : {"EnteringData"}, noun : Nouns, left : 1 .. 3]
         /\ At("P27Time") => vn \in [phase : {"P27Time"}, left : 1 .. 3]
         /\ At("P27Count") =>
              vn \in [phase : {"P27Count"}, typed : 0 .. 2, address : Addresses]
         /\ At("P27Data") =>
              vn \in [phase : {"P27Data"}, address : Addresses, count : Addresses,
                      loaded : 0 .. MaxAddress]
         /\ At("P27SingleData") => vn \in [phase : {"P27SingleData"}, address : Addresses]
  BY DEF VnPhase, Keyed, At

LEMMA SimplePhases ==
  /\ Idle \in VnPhase /\ Idle.phase = "Idle"
  /\ OprErr \in VnPhase /\ OprErr.phase = "OprErr"
  /\ \A p \in {"EnteringVerb", "EnteringNoun", "EnteringMajorMode", "P27Address",
               "P27SingleAddress"} :
       Empty(p) \in VnPhase /\ Empty(p).phase = p
  BY DEF Idle, OprErr, Empty, VnPhase, Keyed

LEMMA TypedDigit ==
  ASSUME vn \in VnPhase, Digit
  PROVE  /\ vn' \in VnPhase
         /\ vn'.phase = vn.phase
         /\ ~At("P27Data") /\ ~At("OprErr")
<1>1. CASE vn \in Keyed({"EnteringVerb", "EnteringNoun", "EnteringMajorMode",
                         "P27Address", "P27SingleAddress"})
  BY <1>1 DEF Digit, Keyed, VnPhase, At
<1>2. CASE vn \in [phase : {"P27Count"}, typed : 0 .. 2, address : Addresses]
  BY <1>2 DEF Digit, VnPhase, At
<1> QED
  BY <1>1, <1>2 DEF Digit, VnPhase

-----------------------------------------------------------------------------
\* A key that neither starts nor continues a block of words: what has to be
\* shown of it.
LEMMA OutOfBlock ==
  ASSUME KeyboardInv,
         vn' \in VnPhase, vn'.phase # "P27Data",
         vn'.phase = "OprErr" => oprErr', oprErr' \in BOOLEAN,
         TargetInv',
         label' \in Frames, comps' \in [Components -> Frames \cup {"none"}],
         wordFrame' \in Frames, cycled' \in BOOLEAN
  PROVE  KeyboardInv'
  BY DEF KeyboardInv, KeyboardTypeOK, BlockFits, LockIsLit, LoadedSoFar, TargetInv, At

LEMMA TargetKept ==
  ASSUME KeyboardInv, UNCHANGED targetVars
  PROVE  TargetInv'
  BY DEF KeyboardInv, KeyboardTypeOK, TargetInv, TargetTypeOK, TigSharedOnlyByCoelliptic,
    targetVars

\* ... and of one that changes nothing but the phase.
LEMMA PhaseOnly ==
  ASSUME KeyboardInv, Quiet, vn' \in VnPhase, vn'.phase \notin {"P27Data", "OprErr"}
  PROVE  KeyboardInv'
<1>1. TargetInv'
  BY TargetKept DEF Quiet
<1> QED
  BY <1>1, OutOfBlock DEF KeyboardInv, KeyboardTypeOK, Quiet, vectorVars, blockVars

LEMMA FailInv ==
  ASSUME KeyboardInv, Fail
  PROVE  KeyboardInv'
<1>1. TargetInv'
  BY TargetKept DEF Fail
<1> QED
  BY <1>1, OutOfBlock, SimplePhases
    DEF KeyboardInv, KeyboardTypeOK, Fail, vectorVars, blockVars

LEMMA ApplyWordType ==
  ASSUME KeyboardTypeOK, NEW a, ApplyWord(a)
  PROVE  /\ label' \in Frames
         /\ comps' \in [Components -> Frames \cup {"none"}]
<1>1. CASE a \in Components /\ comps' = [comps EXCEPT ![a] = wordFrame] /\ label' = "Earth"
  BY <1>1 DEF KeyboardTypeOK, Frames
<1>2. CASE label' \in Frames /\ UNCHANGED comps
  BY <1>2 DEF KeyboardTypeOK
<1>3. CASE UNCHANGED vectorVars
  BY <1>3 DEF KeyboardTypeOK, vectorVars
<1> QED
  BY <1>1, <1>2, <1>3 DEF ApplyWord

LEMMA ServicerInv ==
  ASSUME KeyboardInv, ServicerTask
  PROVE  KeyboardInv'
<1>1. label' \in Frames /\ comps' \in [Components -> Frames \cup {"none"}]
  BY DEF KeyboardInv, KeyboardTypeOK, ServicerTask, SoiCheck, Other, Frames, vectorVars
<1>2. vn' = vn /\ oprErr' = oprErr /\ wordFrame' = wordFrame /\ cycled' = TRUE
  BY DEF ServicerTask
<1>3. TargetInv'
  BY TargetKept DEF ServicerTask
<1> QED
  BY <1>1, <1>2, <1>3 DEF KeyboardInv, KeyboardTypeOK, BlockFits, LockIsLit, TargetInv,
    LoadedSoFar, At

-----------------------------------------------------------------------------
\* ENTR in a block.

LEMMA EnterCountInv ==
  ASSUME KeyboardInv, NEW n \in Addresses, EnterCount(n)
  PROVE  KeyboardInv'
<1>1. vn.address \in Addresses
  BY PhaseFields DEF KeyboardInv, KeyboardTypeOK, EnterCount, At
<1>2. vn' = [phase |-> "P27Data", address |-> vn.address, count |-> n, loaded |-> 0]
  BY DEF EnterCount
<1>3. vn' \in [phase : {"P27Data"}, address : Addresses, count : Addresses,
               loaded : 0 .. MaxAddress]
  BY <1>1, <1>2, KeyboardAssumption
<1>4. vn' \in VnPhase
  BY <1>3 DEF VnPhase
<1>5. vn'.phase = "P27Data" /\ vn'.address = vn.address /\ vn'.count = n /\ vn'.loaded = 0
  BY <1>2
<1>6. BlockFits'
  BY <1>5 DEF BlockFits, EnterCount, Addresses
<1>7. /\ oprErr' = oprErr /\ label' = label /\ comps' = comps
      /\ wordFrame' = wordFrame /\ cycled' = FALSE
  BY DEF EnterCount, vectorVars
<1>8. TargetInv'
  BY TargetKept DEF EnterCount
<1>9. KeyboardTypeOK'
  BY <1>4, <1>7, <1>8 DEF KeyboardInv, KeyboardTypeOK, TargetInv
<1>10. LockIsLit' /\ LoadedSoFar'
  BY <1>5, <1>7 DEF KeyboardInv, LockIsLit, LoadedSoFar, At
<1> QED
  BY <1>6, <1>8, <1>9, <1>10 DEF KeyboardInv, TargetInv

\* The word goes to the address after the ones before it.
LEMMA EnterWordInv ==
  ASSUME KeyboardInv, EnterWord
  PROVE  KeyboardInv'
<1>1. label' \in Frames /\ comps' \in [Components -> Frames \cup {"none"}]
  BY ApplyWordType DEF KeyboardInv, EnterWord
<1>2. oprErr' = oprErr /\ wordFrame' = wordFrame /\ cycled' = cycled
  BY DEF EnterWord, blockVars
<1>3. TargetInv'
  BY TargetKept DEF EnterWord
<1>4. CASE vn' = Idle
  BY <1>1, <1>2, <1>3, <1>4, OutOfBlock, SimplePhases DEF KeyboardInv, KeyboardTypeOK
<1>5. CASE At("P27Data") /\ vn.loaded + 1 < vn.count /\ vn' = [vn EXCEPT !.loaded = @ + 1]
  <2>1. vn \in [phase : {"P27Data"}, address : Addresses, count : Addresses,
                loaded : 0 .. MaxAddress]
    BY <1>5, PhaseFields DEF KeyboardInv, KeyboardTypeOK
  <2>2. vn'.phase = "P27Data" /\ vn'.address = vn.address /\ vn'.count = vn.count
        /\ vn'.loaded = vn.loaded + 1
    BY <1>5, <2>1
  <2>3. vn.loaded + 1 \in 0 .. MaxAddress
    BY <1>5, <2>1, KeyboardAssumption DEF Addresses
  <2>4. vn' \in VnPhase
    BY <1>5, <2>1, <2>3 DEF VnPhase
  <2>5. BlockFits'
    BY <1>5, <2>2 DEF BlockFits, KeyboardInv, At
  <2>6. LoadedSoFar'
    <3> SUFFICES ASSUME wordFrame = "Earth", ~cycled, vn.address = 1
                 PROVE  /\ label' = "Earth"
                        /\ \A i \in Components : i <= vn.loaded + 1 => comps'[i] = "Earth"
      BY <1>2, <2>2 DEF LoadedSoFar, At
    <3>1. ApplyWord(1 + vn.loaded) /\ 1 + vn.loaded < MaxAddress
      BY <1>5, <2>1, KeyboardAssumption
        DEF EnterWord, Target, At, KeyboardInv, BlockFits, Addresses
    <3>2. vn.loaded > 0 =>
            label = "Earth" /\ \A i \in Components : i <= vn.loaded => comps[i] = "Earth"
      BY <1>5 DEF KeyboardInv, LoadedSoFar
    <3>3. CASE 1 + vn.loaded \in Components
      <4>1. label' = "Earth" /\ comps' = [comps EXCEPT ![1 + vn.loaded] = "Earth"]
        BY <3>1, <3>3, KeyboardAssumption DEF ApplyWord, Components
      <4>2. comps \in [Components -> Frames \cup {"none"}] /\ vn.loaded \in Nat
        BY <2>1, KeyboardAssumption DEF KeyboardInv, KeyboardTypeOK
      <4>3. ASSUME NEW i \in Components, i <= vn.loaded + 1
            PROVE  comps'[i] = "Earth"
        <5>1. CASE i = 1 + vn.loaded
          BY <3>3, <4>1, <4>2, <5>1
        <5>2. CASE i # 1 + vn.loaded
          BY <3>2, <4>1, <4>2, <4>3, <5>2 DEF Components
        <5> QED
          BY <5>1, <5>2
      <4> QED
        BY <4>1, <4>3
    <3>4. CASE 1 + vn.loaded \notin Components
      BY <2>1, <3>1, <3>2, <3>4, KeyboardAssumption
        DEF ApplyWord, Components, Addresses, vectorVars
    <3> QED
      BY <3>3, <3>4
  <2> QED
    BY <1>1, <1>2, <1>3, <2>2, <2>4, <2>5, <2>6
      DEF KeyboardInv, KeyboardTypeOK, LockIsLit, TargetInv, At
<1> QED
  BY <1>4, <1>5 DEF EnterWord

-----------------------------------------------------------------------------

\* From a load to the burn: what is staged is new, and what is taken is gone.

LEMMA StageTigInv ==
  ASSUME TargetInv, NEW t \in Tigs, StageTig(t)
  PROVE  TargetInv'
  BY DEF TargetInv, TargetTypeOK, TigSharedOnlyByCoelliptic, SameTig, StageTig

LEMMA CommitDvInv ==
  ASSUME TargetInv, CommitDv
  PROVE  TargetInv'
<1>1. CASE TakeTig /\ Aim(pendingTig, "other")
  BY <1>1 DEF TargetInv, TargetTypeOK, TigSharedOnlyByCoelliptic, SameTig, CommitDv,
    TakeTig, Aim, Maneuver, TargetingMode
<1>2. CASE TakeTig /\ UNCHANGED maneuver
  BY <1>2 DEF TargetInv, TargetTypeOK, TigSharedOnlyByCoelliptic, SameTig, CommitDv,
    TakeTig
<1>3. CASE UNCHANGED <<pendingTig, maneuver>>
  BY <1>3 DEF TargetInv, TargetTypeOK, TigSharedOnlyByCoelliptic, SameTig, CommitDv
<1> QED
  BY <1>1, <1>2, <1>3 DEF CommitDv

LEMMA RunTargetingInv ==
  ASSUME TargetInv, NEW inMoonFrame, RunTargeting(inMoonFrame)
  PROVE  TargetInv'
<1> USE DEF TargetInv, TargetTypeOK, TigSharedOnlyByCoelliptic, SameTig
<1>1. CASE DropManeuver
  BY <1>1 DEF DropManeuver, NoManeuver, Maneuver
<1>2. CASE SelectCoelliptic
  BY <1>2 DEF SelectCoelliptic, Aim, Maneuver, TargetingMode
<1>3. CASE SelectP33
  <2>1. CASE Aim(pendingTig, "other") /\ arrivalKnown' = TRUE
    BY <1>3, <2>1 DEF SelectP33, TakeTig, Aim, Maneuver, TargetingMode
  <2>2. CASE UNCHANGED <<maneuver, arrivalKnown>>
    BY <1>3, <2>2 DEF SelectP33, TakeTig
  <2> QED
    BY <1>3, <2>1, <2>2 DEF SelectP33
<1>4. CASE SelectP34
  <2>1. CASE Aim(pendingTig, "other")
    BY <1>4, <2>1 DEF SelectP34, TakeTig, Aim, Maneuver, TargetingMode
  <2>2. CASE UNCHANGED maneuver
    BY <1>4, <2>2 DEF SelectP34, TakeTig
  <2> QED
    BY <1>4, <2>1, <2>2 DEF SelectP34
<1>5. CASE SelectP37
  BY <1>5 DEF SelectP37, Aim, Maneuver, TargetingMode
<1>6. CASE EngageBurn
  BY <1>6 DEF EngageBurn, NoManeuver, Maneuver
<1>7. CASE UNCHANGED targetVars
  BY <1>7 DEF targetVars
<1> QED
  BY <1>1, <1>2, <1>3, <1>4, <1>5, <1>6, <1>7 DEF RunTargeting

LEMMA CommitInv ==
  ASSUME KeyboardInv, NEW noun, Commit(noun)
  PROVE  TargetInv'
<1>1. TargetInv
  BY DEF KeyboardInv, KeyboardTypeOK, TargetInv
<1> QED
  BY <1>1, StageTigInv, CommitDvInv, TargetKept DEF Commit

LEMMA EnterRegisterInv ==
  ASSUME KeyboardInv, EnterRegister
  PROVE  KeyboardInv'
<1>1. oprErr' = oprErr /\ label' = label /\ comps' = comps /\ wordFrame' = wordFrame
      /\ cycled' = cycled
  BY DEF EnterRegister, vectorVars, blockVars
<1>2. CASE vn.left > 1 /\ vn' = [vn EXCEPT !.left = @ - 1] /\ UNCHANGED targetVars
  <2>1. vn \in [phase : {"EnteringData"}, noun : Nouns, left : 1 .. 3]
    BY PhaseFields DEF KeyboardInv, KeyboardTypeOK, EnterRegister
  <2>2. vn' \in [phase : {"EnteringData"}, noun : Nouns, left : 1 .. 3]
    BY <1>2, <2>1
  <2>3. vn' \in VnPhase /\ vn'.phase \notin {"P27Data", "OprErr"}
    BY <2>2 DEF VnPhase
  <2> QED
    BY <1>1, <1>2, <2>3, PhaseOnly DEF Quiet, vectorVars, blockVars
<1>3. CASE vn' = Idle /\ Commit(vn.noun)
  BY <1>1, <1>3, CommitInv, SimplePhases, OutOfBlock DEF KeyboardInv, KeyboardTypeOK
<1> QED
  BY <1>2, <1>3 DEF EnterRegister

LEMMA EnterTimeInv ==
  ASSUME KeyboardInv, EnterTime
  PROVE  KeyboardInv'
<1>1. vn \in [phase : {"P27Time"}, left : 1 .. 3]
  BY PhaseFields DEF KeyboardInv, KeyboardTypeOK, EnterTime
<1>2. CASE vn.left > 1 /\ vn' = [vn EXCEPT !.left = @ - 1]
  <2>1. vn' \in [phase : {"P27Time"}, left : 1 .. 3]
    BY <1>1, <1>2
  <2>2. vn' \in VnPhase /\ vn'.phase \notin {"P27Data", "OprErr"}
    BY <2>1 DEF VnPhase
  <2> QED
    BY <2>2, PhaseOnly DEF EnterTime
<1>3. CASE vn' = Idle
  BY <1>3, SimplePhases, PhaseOnly DEF EnterTime
<1> QED
  BY <1>2, <1>3 DEF EnterTime

\* An address opens no block yet.
LEMMA EnterAddressInv ==
  ASSUME KeyboardInv, NEW a \in Addresses, NEW f \in Frames,
         EnterAddress(a, f) \/ EnterSingleAddress(a, f)
  PROVE  KeyboardInv'
<1>1. vn' \in VnPhase /\ vn'.phase \notin {"P27Data", "OprErr"}
  <2>1. CASE EnterAddress(a, f)
    <3>1. vn' \in [phase : {"P27Count"}, typed : 0 .. 2, address : Addresses]
      BY <2>1 DEF EnterAddress
    <3> QED
      BY <3>1 DEF VnPhase
  <2>2. CASE EnterSingleAddress(a, f)
    <3>1. vn' \in [phase : {"P27SingleData"}, address : Addresses]
      BY <2>2 DEF EnterSingleAddress
    <3> QED
      BY <3>1 DEF VnPhase
  <2> QED
    BY <2>1, <2>2
<1>2. /\ oprErr' = oprErr /\ label' = label /\ comps' = comps
      /\ wordFrame' = f /\ cycled' = cycled
  BY DEF EnterAddress, EnterSingleAddress, vectorVars
<1>3. TargetInv'
  BY TargetKept DEF EnterAddress, EnterSingleAddress
<1> QED
  BY <1>1, <1>2, <1>3, OutOfBlock DEF KeyboardInv, KeyboardTypeOK

\* The keys that open something, or finish it, with no data.
LEMMA OpenInv ==
  ASSUME KeyboardInv,
         \/ Verb \/ Noun \/ MajorMode \/ OtherVerb \/ TimeUpdate \/ Digit
         \/ \E noun \in Nouns, registers \in {1, 3} : StartLoad(noun, registers)
         \/ \E phase \in {"P27Address", "P27SingleAddress"} : StartUpdate(phase)
  PROVE  KeyboardInv'
<1>1. CASE Verb
  BY <1>1, SimplePhases, PhaseOnly DEF Verb, Quiet
<1>2. CASE Noun
  BY <1>2, SimplePhases, PhaseOnly DEF Noun
<1>3. CASE MajorMode
  BY <1>3, SimplePhases, PhaseOnly DEF MajorMode
<1>4. CASE OtherVerb
  BY <1>4, SimplePhases, PhaseOnly DEF OtherVerb
<1>5. CASE TimeUpdate
  <2>1. vn' \in VnPhase /\ vn'.phase = "P27Time"
    BY <1>5 DEF TimeUpdate, VnPhase
  <2> QED
    BY <1>5, <2>1, PhaseOnly DEF TimeUpdate
<1>6. CASE Digit
  BY <1>6, TypedDigit, PhaseOnly DEF Digit, KeyboardInv, KeyboardTypeOK, At
<1>7. ASSUME NEW noun \in Nouns, NEW registers \in {1, 3}, StartLoad(noun, registers)
      PROVE  KeyboardInv'
  <2>1. vn' \in VnPhase /\ vn'.phase = "EnteringData"
    BY <1>7 DEF StartLoad, VnPhase
  <2> QED
    BY <1>7, <2>1, PhaseOnly DEF StartLoad
<1>8. ASSUME NEW phase \in {"P27Address", "P27SingleAddress"}, StartUpdate(phase)
      PROVE  KeyboardInv'
  BY <1>8, SimplePhases, PhaseOnly DEF StartUpdate
<1> QED
  BY <1>1, <1>2, <1>3, <1>4, <1>5, <1>6, <1>7, <1>8

\* The keys that end in Idle with something changed besides.
LEMMA CloseInv ==
  ASSUME KeyboardInv, Rset \/ Clr \/ RunProgram \/ FreshStart \/ Restart
  PROVE  KeyboardInv'
<1>1. vn' = Idle
  BY DEF Rset, Clr, RunProgram, FreshStart, Restart
<1>2. oprErr' \in BOOLEAN /\ wordFrame' \in Frames /\ cycled' \in BOOLEAN
  BY DEF Rset, Clr, RunProgram, FreshStart, Restart, KeyboardInv, KeyboardTypeOK, blockVars
<1>3. TargetInv'
  <2>1. CASE UNCHANGED targetVars
    BY <2>1, TargetKept
  <2>2. CASE RunTargeting(label = "Moon")
    BY <2>2, RunTargetingInv DEF KeyboardInv, KeyboardTypeOK, TargetInv
  <2>3. CASE ForgetTarget
    BY <2>3 DEF ForgetTarget, NoManeuver, Maneuver, TargetInv, TargetTypeOK,
      TigSharedOnlyByCoelliptic, SameTig
  <2> QED
    BY <2>1, <2>2, <2>3 DEF Rset, Clr, RunProgram, FreshStart, Restart
<1>4. label' \in Frames /\ comps' \in [Components -> Frames \cup {"none"}]
  BY DEF Rset, Clr, RunProgram, FreshStart, Restart, KeyboardInv, KeyboardTypeOK,
    vectorVars, Frames
<1> QED
  BY <1>1, <1>2, <1>3, <1>4, SimplePhases, OutOfBlock

LEMMA KeyboardInvInit ==
  ASSUME Init
  PROVE  KeyboardInv
<1>1. TargetInv
  BY DEF Init, NoTarget, NoManeuver, Maneuver, TargetInv, TargetTypeOK,
    TigSharedOnlyByCoelliptic, SameTig
<1>2. KeyboardTypeOK
  BY <1>1, SimplePhases DEF Init, KeyboardTypeOK, TargetInv, Frames
<1> QED
  BY <1>1, <1>2, SimplePhases
    DEF Init, KeyboardInv, BlockFits, LockIsLit, TargetInv, LoadedSoFar, At

LEMMA KeyboardInvNext ==
  ASSUME KeyboardInv, [Next]_keyboardVars
  PROVE  KeyboardInv'
<1>1. CASE Verb \/ Noun \/ MajorMode \/ OtherVerb \/ TimeUpdate \/ Digit
           \/ (\E noun \in Nouns, registers \in {1, 3} : StartLoad(noun, registers))
           \/ (\E phase \in {"P27Address", "P27SingleAddress"} : StartUpdate(phase))
  BY <1>1, OpenInv
<1>2. CASE Rset \/ Clr \/ RunProgram \/ FreshStart \/ Restart
  BY <1>2, CloseInv
<1>3. CASE WrongKey \/ RefuseWord
  BY <1>3, FailInv DEF WrongKey, RefuseWord
<1>4. CASE EnterRegister
  BY <1>4, EnterRegisterInv
<1>5. CASE EnterTime
  BY <1>5, EnterTimeInv
<1>6. CASE \E a \in Addresses, f \in Frames : EnterAddress(a, f) \/ EnterSingleAddress(a, f)
  BY <1>6, EnterAddressInv
<1>7. CASE \E n \in Addresses : EnterCount(n)
  BY <1>7, EnterCountInv
<1>8. CASE EnterWord
  BY <1>8, EnterWordInv
<1>9. CASE ServicerTask
  BY <1>9, ServicerInv
<1>10. CASE UNCHANGED keyboardVars
  <2>1. TargetInv'
    BY <1>10, TargetKept DEF keyboardVars
  <2> QED
    BY <1>10, <2>1 DEF keyboardVars, KeyboardInv, KeyboardTypeOK, BlockFits, LockIsLit,
      TargetInv, LoadedSoFar, At
<1> QED
  BY <1>1, <1>2, <1>3, <1>4, <1>5, <1>6, <1>7, <1>8, <1>9, <1>10 DEF Next, Keys

LEMMA KeyboardInvHolds == Spec => []KeyboardInv
  BY KeyboardInvInit, KeyboardInvNext, PTL DEF Spec

-----------------------------------------------------------------------------

\* VnPhase's payloads stay in their ranges, whatever the order of the keys.
THEOREM KeyboardTypeCorrect == Spec => []KeyboardTypeOK
  BY KeyboardInvHolds, PTL DEF KeyboardInv

\* raise_opr_err, RSET, V36 and V69: a locked keyboard is never dark.
THEOREM LockAlwaysLit == Spec => []LockIsLit
  BY KeyboardInvHolds, PTL DEF KeyboardInv

\* pending_tig, pending_maneuver and burn: with any number of loads, programs and
\* burns, only what P31 or P32 aimed has its TIG in common with what came after.
THEOREM OnlyCoellipticSharesTig == Spec => []TigSharedOnlyByCoelliptic
  BY KeyboardInvHolds, PTL DEF KeyboardInv

\* The count check of V71: of an accepted block only the selector is refused.
THEOREM AcceptedBlockFits == Spec => RefusedOnlyBySelector
<1>1. ASSUME KeyboardInv, RefuseWord
      PROVE  Target = MaxAddress
  <2>1. CASE At("P27Data")
    <3>1. vn \in [phase : {"P27Data"}, address : Addresses, count : Addresses,
                  loaded : 0 .. MaxAddress]
      BY <1>1, <2>1, PhaseFields DEF KeyboardInv, KeyboardTypeOK
    <3>2. vn.address + vn.count <= MaxAddress + 1 /\ vn.loaded < vn.count
      BY <1>1, <2>1 DEF KeyboardInv, BlockFits
    <3> QED
      BY <1>1, <2>1, <3>1, <3>2, KeyboardAssumption DEF RefuseWord, Target, Addresses
  <2>2. CASE At("P27SingleData")
    <3>1. vn.address \in Addresses
      BY <1>1, <2>2, PhaseFields DEF KeyboardInv, KeyboardTypeOK
    <3>2. Target = vn.address + 0
      BY <2>2 DEF Target, At
    <3> QED
      BY <1>1, <3>1, <3>2, KeyboardAssumption DEF RefuseWord, Addresses
  <2> QED
    BY <1>1, <2>1, <2>2 DEF RefuseWord
<1>2. KeyboardInv => [RefuseWord => Target = MaxAddress]_keyboardVars
  BY <1>1
<1> QED
  BY <1>2, KeyboardInvHolds, PTL DEF RefusedOnlyBySelector

\* A word given for the Earth's frame to an Earth-frame vector tears nothing,
\* and no other step of crew, ground or SERVICER tears anything.
THEOREM VectorTornOnlyByWord == Spec => TornOnlyByWord
<1> DEFINE Excused == EnterWord /\ (label = "Moon" \/ wordFrame = "Moon" \/ Target = MaxAddress)
<1>1. ASSUME KeyboardInv, [Next]_keyboardVars, Whole, ~Whole'
      PROVE  Excused
  <2>1. ~UNCHANGED vectorVars
    BY <1>1 DEF Whole, vectorVars
  <2>2. ~FreshStart
    BY <1>1 DEF FreshStart, Whole
  <2>3. ~ServicerTask
    BY <1>1 DEF ServicerTask, SoiCheck, Whole, vectorVars
  <2>4. EnterWord
    BY <1>1, <2>1, <2>2, <2>3
      DEF Next, Keys, keyboardVars, vectorVars, Quiet, Rset, Clr, Verb, WrongKey, Fail, Digit,
        Noun, StartLoad, StartUpdate, TimeUpdate, MajorMode, RunProgram, Restart, OtherVerb,
        EnterRegister, EnterTime, EnterAddress, EnterCount, EnterSingleAddress, RefuseWord
  <2>5. ASSUME label = "Earth", wordFrame = "Earth", Target # MaxAddress
        PROVE  FALSE
    <3>1. Target \in Components /\ comps' = [comps EXCEPT ![Target] = "Earth"]
          /\ label' = "Earth"
      BY <2>1, <2>4, <2>5 DEF EnterWord, ApplyWord
    <3>2. comps \in [Components -> Frames \cup {"none"}]
      BY <1>1 DEF KeyboardInv, KeyboardTypeOK
    <3>3. \A i \in Components : comps'[i] = "Earth"
      BY <1>1, <2>5, <3>1, <3>2 DEF Whole
    <3> QED
      BY <1>1, <3>1, <3>3 DEF Whole
  <2>6. label \in Frames /\ wordFrame \in Frames
    BY <1>1 DEF KeyboardInv, KeyboardTypeOK
  <2> QED
    BY <2>4, <2>5, <2>6 DEF Frames
<1>2. KeyboardInv /\ [Next]_keyboardVars => [Whole /\ ~Whole' => Excused]_keyboardVars
  BY <1>1
<1> QED
  BY <1>2, KeyboardInvHolds, PTL DEF Spec, TornOnlyByWord

\* p27_apply_word takes the words of a block to their places and the vector to
\* the Earth's frame: LoadedSoFar, at the last of them.
THEOREM EarthBlockInstalls == Spec => BlockInstalls
<1> DEFINE LastWord == /\ EnterWord /\ At("P27Data")
                       /\ vn.address = 1 /\ vn.loaded + 1 = VectorWords
                       /\ wordFrame = "Earth" /\ ~cycled
<1>1. ASSUME KeyboardInv, LastWord
      PROVE  Whole'
  <2>1. vn \in [phase : {"P27Data"}, address : Addresses, count : Addresses,
                loaded : 0 .. MaxAddress]
    BY <1>1, PhaseFields DEF KeyboardInv, KeyboardTypeOK
  <2>2. Target = VectorWords /\ VectorWords \in Components
    BY <1>1, <2>1, KeyboardAssumption DEF Target, At, Components
  <2>3. label' = "Earth" /\ comps' = [comps EXCEPT ![VectorWords] = "Earth"]
    BY <1>1, <2>2, KeyboardAssumption DEF EnterWord, ApplyWord
  <2>4. comps \in [Components -> Frames \cup {"none"}]
    BY <1>1 DEF KeyboardInv, KeyboardTypeOK
  <2>5. ASSUME NEW i \in Components
        PROVE  comps'[i] = "Earth"
    <3>1. CASE i = VectorWords
      BY <2>2, <2>3, <2>4, <3>1
    <3>2. CASE i # VectorWords
      <4>1. i <= vn.loaded /\ vn.loaded > 0
        BY <1>1, <2>1, <3>2, KeyboardAssumption DEF Components
      <4>2. comps[i] = "Earth"
        BY <1>1, <4>1 DEF KeyboardInv, LoadedSoFar
      <4> QED
        BY <2>3, <2>4, <3>2, <4>2
    <3> QED
      BY <3>1, <3>2
  <2> QED
    BY <2>3, <2>5 DEF Whole
<1>2. KeyboardInv => [LastWord => Whole']_keyboardVars
  BY <1>1
<1> QED
  BY <1>2, KeyboardInvHolds, PTL DEF BlockInstalls
=============================================================================
