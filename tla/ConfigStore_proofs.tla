-------------------------- MODULE ConfigStore_proofs --------------------------
(***************************************************************************)
(* What ConfigStore promises for any images, any torn bytes and any number *)
(* of power losses.                                                        *)
(***************************************************************************)
EXTENDS ConfigStore, TLAPS

(***************************************************************************)
(* Why a configuration is kept: once the main loop was entered, main() is  *)
(* never writing again, and the stored version is the one it ran over,     *)
(* which is a valid one.                                                   *)
(***************************************************************************)
Kept ==
  ran # None => /\ Stored = ran
                /\ Stored # Invalid
                /\ pc \in {"start", "running", "hung"}

IInv ==
  /\ TypeOK
  /\ Kept
  /\ pc = "running" => ran # None

(***************************************************************************)
(* config_get_version returns four bytes.                                  *)
(***************************************************************************)
LEMMA StoredIsVersion == ASSUME TypeOK PROVE Stored \in Version /\ Stored # None
  <1>1. <<cells[3], cells[4], cells[5], cells[6]>> \in Version BY DEF TypeOK, Version
  <1>2. Invalid \in Version BY DEF Invalid, Version, Blank, Byte
  <1>3. Stored \in Version BY <1>1, <1>2 DEF Stored
  <1>4. Stored # None BY DEF Stored, None, Invalid
  <1> QED BY <1>3, <1>4

(***************************************************************************)
(* Entering the main loop over a valid version.                            *)
(***************************************************************************)
LEMMA EnterKeeps ==
  ASSUME IInv, Enter, Stored # Invalid, UNCHANGED <<cells, image, losses>>, next' \in 1 .. 6
  PROVE  IInv'
  <1>1. Stored' = Stored BY DEF Stored
  <1>2. Stored \in Version /\ Stored # None BY StoredIsVersion DEF IInv
  <1>3. TypeOK' BY <1>2 DEF IInv, TypeOK, Enter, Steps
  <1>4. Kept' BY <1>1 DEF Kept, Enter
  <1>5. (pc = "running" => ran # None)' BY <1>2 DEF Enter, None
  <1> QED BY <1>3, <1>4, <1>5 DEF IInv

LEMMA InitKeeps == Init => IInv
  <1> SUFFICES ASSUME Init PROVE IInv OBVIOUS
  <1>1. cells \in [1 .. 6 -> Byte] BY DEF Init, Byte, Blank
  <1>2. losses \in 0 .. MaxLosses BY ImagesAssumption DEF Init
  <1>3. TypeOK BY <1>1, <1>2 DEF Init, TypeOK, Steps
  <1> QED BY <1>3 DEF Init, IInv, Kept

(***************************************************************************)
(* Every step keeps the invariant.                                         *)
(***************************************************************************)
LEMMA StepKeeps == ASSUME IInv, [Next]_vars PROVE IInv'
  <1> USE DEF IInv
  <1>1. CASE Start
    <2>1. CASE Stored = Invalid
      <3>1. ran = None BY <2>1 DEF Kept
      <3>2. pc' = "write" /\ ran' = None /\ next' = 1 /\ UNCHANGED <<cells, image, losses>>
        BY <1>1, <2>1, <3>1 DEF Start
      <3> QED BY <3>2 DEF TypeOK, Kept, Steps
    <2>2. CASE Stored # Invalid
      <3>1. Enter /\ UNCHANGED <<cells, image, losses, next>> BY <1>1, <2>2 DEF Start
      <3> QED BY <2>2, <3>1, EnterKeeps DEF TypeOK
    <2> QED BY <2>1, <2>2
  <1>2. CASE WriteByte
    <2>1. ran = None BY <1>2 DEF WriteByte, Kept
    <2>2. Wanted(next) \in Byte
      <3>1. image \in [1 .. 4 -> Byte] BY ImagesAssumption DEF TypeOK, Version
      <3>2. CASE next <= 2 BY <3>2 DEF TypeOK, Wanted, Key, Byte
      <3>3. CASE next > 2
        <4>1. next - 2 \in 1 .. 4 BY <3>3 DEF TypeOK
        <4> QED BY <3>1, <3>3, <4>1 DEF TypeOK, Wanted
      <3> QED BY <3>2, <3>3 DEF TypeOK
    <2>3. cells' \in [1 .. 6 -> Byte] BY <1>2, <2>2 DEF WriteByte, TypeOK
    <2>4. pc' \in {"write", "verify"} /\ next' \in 1 .. 6
      BY <1>2 DEF WriteByte, Advance, TypeOK
    <2> QED BY <1>2, <2>1, <2>3, <2>4 DEF WriteByte, TypeOK, Kept, Steps
  <1>3. CASE Verify
    <2>1. ran = None BY <1>3 DEF Verify, Kept
    <2>2. CASE Stored = image
      <3>1. Stored # Invalid BY <2>2, ImagesAssumption DEF TypeOK
      <3> QED BY <1>3, <2>2, <3>1, EnterKeeps DEF Verify, TypeOK
    <2>3. CASE Stored # image
      BY <1>3, <2>1, <2>3 DEF Verify, TypeOK, Kept, Steps
    <2> QED BY <2>2, <2>3
  <1>4. CASE NoAnswer
    <2>1. Stored' = Stored BY <1>4 DEF NoAnswer, Stored
    <2> QED BY <1>4, <2>1 DEF NoAnswer, TypeOK, Kept, Steps
  <1>5. CASE PowerLoss
    <2>1. losses' \in 0 .. MaxLosses BY <1>5, ImagesAssumption DEF PowerLoss, TypeOK
    <2>2. cells' \in [1 .. 6 -> Byte] BY <1>5, ImagesAssumption DEF PowerLoss, TypeOK
    <2>3. ran # None => cells' = cells BY <1>5 DEF PowerLoss, Kept
    <2>4. Kept'
      <3>1. cells' = cells => Stored' = Stored BY DEF Stored
      <3> QED BY <1>5, <2>3, <3>1 DEF PowerLoss, Kept
    <2> QED BY <1>5, <2>1, <2>2, <2>4 DEF PowerLoss, TypeOK, Steps
  <1>6. CASE UNCHANGED vars
    <2>1. Stored' = Stored BY <1>6 DEF vars, Stored
    <2> QED BY <1>6, <2>1 DEF vars, TypeOK, Kept
  <1> QED BY <1>1, <1>2, <1>3, <1>4, <1>5, <1>6 DEF Next, Device

LEMMA Invariance == Spec => []IInv
  BY InitKeeps, StepKeeps, PTL DEF Spec

(***************************************************************************)
(* The variables have their types, whatever images there are.              *)
(***************************************************************************)
THEOREM Typing == Spec => []TypeOK
  <1>1. IInv => TypeOK BY DEF IInv
  <1> QED BY <1>1, Invariance, PTL

(***************************************************************************)
(* The main loop runs only over a valid configuration (main).              *)
(***************************************************************************)
THEOREM ValidWhenRunning == Spec => []RunsValid
  <1>1. IInv => RunsValid BY DEF IInv, Kept, RunsValid
  <1> QED BY <1>1, Invariance, PTL

(***************************************************************************)
(* A configuration the device has run over is never replaced: not by a     *)
(* power loss, not by another image, not by a write that fails.            *)
(***************************************************************************)
THEOREM Persistence == Spec => KeptOnceRun
  <1>1. ASSUME IInv, [Next]_vars PROVE [ran # None => ran' = ran]_vars
    <2>1. CASE Start BY <1>1, <2>1 DEF IInv, Kept, Start, Enter
    <2>2. CASE Verify BY <1>1, <2>2 DEF IInv, Kept, Verify
    <2>3. CASE WriteByte \/ NoAnswer \/ PowerLoss \/ UNCHANGED vars
      BY <2>3 DEF WriteByte, NoAnswer, PowerLoss, vars
    <2> QED BY <1>1, <2>1, <2>2, <2>3 DEF Next, Device
  <1> QED BY <1>1, Invariance, PTL DEF Spec, KeptOnceRun
=============================================================================
