--------------------------- MODULE ActiveUnitProofs ---------------------------
(****************************************************************************)
(* What holds of ActiveUnit for every number of members, every mix of        *)
(* attached, detached and nested ones, both layouts and any number of        *)
(* changes by the world: its type invariant and the four safety properties   *)
(* its runs check.                                                           *)
(****************************************************************************)
EXTENDS ActiveUnit, TLAPS

USE UnitAssumption DEF Members

-----------------------------------------------------------------------------
(* The inductive invariant, in parts.                                        *)

(* Where the executor can be in each phase.                                  *)
ControlOK ==
  /\ phase = "unit" => pc \in {"preflight", "inspect", "overlap", "snapshot",
                               "activity", "failing", "done"}
  /\ phase = "member" => pc \notin {"preflight", "inspect", "rmtree"}
  /\ phase = "container" => pc \notin {"preflight", "inspect", "git", "verifyFailed",
                                       "verify", "after", "ownerCheck"}
  /\ phase = "container" => cur = N
  /\ pc \in {"ownerCheck", "finalCheck", "succeeded"} => cur = N
  /\ pc # "done" => receipt = NoReceipt

(* Nothing is marked before the attempt that accounts for it.                *)
AttemptOK ==
  /\ phase = "unit" => ~attempted
  /\ destroyed # {} => attempted
  /\ (\E m \in Members : removed[m]) => attempted
  /\ pc \in {"git", "verifyFailed", "verify", "after", "ownerCheck", "finalCheck",
             "succeeded", "rmtree"} => attempted
  /\ phase = "container" => attempted

(* Members whose removal has been verified.                                  *)
Verified == {k \in Members :
               \/ k < cur
               \/ /\ k = cur
                  /\ \/ pc \in {"after", "ownerCheck", "finalCheck", "succeeded"}
                     \/ phase = "container"}

VerifiedOK ==
  \A k \in Verified : removed[k] /\ tree[k] = "gone" /\ (k \in Attached => ~advanced[k])

(* Up to the container, damage stays within the members reached.             *)
DamageOK ==
  phase # "container" =>
    /\ Unselected \notin destroyed
    /\ \A m \in Members \cap destroyed : m <= cur

(* A half-deleted checkout ends the unit.                                    *)
PartialOK ==
  (\E m \in Members : tree[m] = "partial") => pc \in {"verifyFailed", "failing", "done"}

(* Changes that stood when the preflight began still stand, and a preflight  *)
(* that gets past its comparison has seen none.                              *)
PreflightClean ==
  atPreflight.advanced = {} /\ atPreflight.dirty = {} /\ atPreflight.extra = {}

PreflightOK ==
  /\ \A m \in atPreflight.advanced : advanced[m]
  /\ \A m \in atPreflight.dirty : dirty[m]
  /\ pc = "preflight" => seen = {}
  /\ pc = "inspect" =>
       drift \/ /\ atPreflight.extra = {}
                /\ seen \cap (atPreflight.advanced \cup atPreflight.dirty) = {}
  /\ pc \in {"overlap", "snapshot", "activity"} \/ phase # "unit" => PreflightClean

(* What the running barrier has established so far.                          *)
BarrierOK ==
  /\ owner = "selected" => atBarrier.selected
  /\ \A m \in atBarrier.session : session[m]
  /\ \A m \in atBarrier.advanced : advanced[m]
  /\ pc = "snapshot" => atBarrier.orphaned
  /\ pc \in {"activity", "mutate", "git", "rmtree"} =>
       atBarrier.orphaned /\ atBarrier.selected
  /\ pc \in {"mutate", "git", "rmtree"} /\ guided =>
       /\ atBarrier.session = {}
       /\ \A m \in atBarrier.advanced : tree[m] # "present"

Inv == /\ TypeOK /\ ControlOK /\ AttemptOK /\ VerifiedOK /\ DamageOK /\ PartialOK
       /\ PreflightOK /\ BarrierOK /\ StopsAtFirstFailure /\ ReceiptTruthful

-----------------------------------------------------------------------------
(* Initially: nothing has been read, attempted or removed.                   *)

LEMMA InitInv == Init => Inv
<1> SUFFICES ASSUME Init PROVE Inv
  OBVIOUS
<1> USE DEF Init
<1>1. Standing \in Changes
  BY DEF Standing, Changes
<1>2. TypeOK
  <2>1. /\ listed \in [Members -> BOOLEAN] /\ advanced \in [Members -> BOOLEAN]
        /\ refHeld \in [Members -> BOOLEAN] /\ session \in [Members -> BOOLEAN]
        /\ removed \in [Members -> BOOLEAN]
    OBVIOUS
  <2>2. receipt \in [state : States \cup {"pending"}, physical : BOOLEAN, freed : BOOLEAN]
    BY DEF NoReceipt
  <2>3. /\ orphaned \in BOOLEAN /\ cancelled \in BOOLEAN /\ drift \in BOOLEAN
        /\ started \in BOOLEAN /\ attempted \in BOOLEAN
    OBVIOUS
  <2>4. /\ mtime \in Nat /\ baseline \in Nat /\ events \in 0 .. MaxEvents
        /\ cur \in Members
    OBVIOUS
  <2> QED
    BY <1>1, <2>1, <2>2, <2>3, <2>4 DEF TypeOK
<1>3. ControlOK /\ AttemptOK /\ VerifiedOK /\ DamageOK /\ PartialOK
  BY DEF ControlOK, AttemptOK, VerifiedOK, Verified, DamageOK, PartialOK
<1>4. PreflightOK /\ BarrierOK
  BY DEF PreflightOK, BarrierOK, Standing
<1>5. StopsAtFirstFailure /\ ReceiptTruthful
  BY DEF StopsAtFirstFailure, ReceiptTruthful, NoReceipt, MemberGone
<1> QED
  BY <1>2, <1>3, <1>4, <1>5 DEF Inv

-----------------------------------------------------------------------------
(* A change by the world leaves the executor where it is.  Flags only go up, *)
(* a checkout does not come back, a lost owner is never the selected one     *)
(* again: whatever a preflight or a barrier has recorded still stands.       *)

Monotone ==
  /\ \A m \in Members : /\ advanced[m] => advanced'[m]
                        /\ dirty[m] => dirty'[m]
                        /\ session[m] => session'[m]
                        /\ tree[m] = "gone" => tree'[m] = "gone"
                        /\ tree[m] # "present" => tree'[m] # "present"
                        /\ tree'[m] = "partial" => tree[m] = "partial"
                        /\ tree[m] = "gone" /\ ~advanced[m] => ~advanced'[m]
  /\ owner' = "selected" => owner = "selected"

LEMMA WorldMonotone ==
  ASSUME TypeOK, World
  PROVE  TypeOK' /\ Monotone /\ UNCHANGED << exec, history >>
<1> USE DEF TypeOK, Monotone, exec, history, Change
<1>1. ASSUME NEW m \in Members, Commit(m)
      PROVE  TypeOK' /\ Monotone /\ UNCHANGED << exec, history >>
  BY <1>1 DEF Commit
<1>2. ASSUME NEW m \in Members, Edit(m)
      PROVE  TypeOK' /\ Monotone /\ UNCHANGED << exec, history >>
  BY <1>2 DEF Edit
<1>3. ASSUME NEW m \in Members, DropRef(m)
      PROVE  TypeOK' /\ Monotone /\ UNCHANGED << exec, history >>
  BY <1>3 DEF DropRef
<1>4. ASSUME NEW m \in Members, ResumeSession(m)
      PROVE  TypeOK' /\ Monotone /\ UNCHANGED << exec, history >>
  BY <1>4 DEF ResumeSession
<1>5. ASSUME NEW where \in {"top", "nested"}, AddCheckout(where)
      PROVE  TypeOK' /\ Monotone /\ UNCHANGED << exec, history >>
  BY <1>5 DEF AddCheckout
<1>6. CASE ReviveState
  <2>1. orphaned' \in BOOLEAN
    BY <1>6, Zenon DEF ReviveState
  <2> QED
    BY <1>6, <2>1 DEF ReviveState
<1>7. CASE LoseOwner
  BY <1>7 DEF LoseOwner
<1>8. CASE RecreateOwner
  BY <1>8 DEF RecreateOwner
<1>9. CASE CloseGate
  <2>1. gateOpen' \in BOOLEAN
    BY <1>9, Zenon DEF CloseGate
  <2> QED
    BY <1>9, <2>1 DEF CloseGate
<1>10. CASE LoseSources
  <2>1. sources' \in BOOLEAN
    BY <1>10, Zenon DEF LoseSources
  <2> QED
    BY <1>10, <2>1 DEF LoseSources
<1>11. CASE Cancel
  BY <1>11 DEF Cancel
<1> QED
  BY <1>1, <1>2, <1>3, <1>4, <1>5, <1>6, <1>7, <1>8, <1>9, <1>10, <1>11 DEF World

(* Once the receipt is written, only the context can still change.           *)
LEMMA WorldAfterReceipt ==
  ASSUME World, pc = "done"
  PROVE  UNCHANGED advanced
BY DEF World, Change, Commit, Edit, DropRef, ResumeSession, AddCheckout, ReviveState,
       LoseOwner, RecreateOwner, CloseGate, LoseSources, Cancel

LEMMA WorldStep == ASSUME Inv, World PROVE Inv'
<1> USE DEF Inv
<1>1. TypeOK' /\ Monotone /\ UNCHANGED << exec, history >>
  BY WorldMonotone
<1> USE DEF exec, history
<1>2. ControlOK' /\ AttemptOK' /\ DamageOK'
  BY <1>1 DEF ControlOK, AttemptOK, DamageOK
<1>3. VerifiedOK'
  BY <1>1 DEF VerifiedOK, Verified, Monotone
<1>4. PartialOK'
  BY <1>1 DEF PartialOK, Monotone
<1>5. PreflightOK'
  BY <1>1 DEF PreflightOK, PreflightClean, Monotone, TypeOK, Changes
<1>6. BarrierOK'
  BY <1>1 DEF BarrierOK, Monotone, TypeOK, Changes
<1>7. StopsAtFirstFailure'
  BY <1>1 DEF StopsAtFirstFailure
<1>8. ReceiptTruthful'
  <2>1. CASE pc = "done"
    BY <1>1, <2>1, WorldAfterReceipt DEF ReceiptTruthful, MemberGone
  <2>2. CASE pc # "done"
    BY <1>1, <2>2 DEF ReceiptTruthful, MemberGone, ControlOK, NoReceipt
  <2> QED
    BY <2>1, <2>2
<1> QED
  BY <1>1, <1>2, <1>3, <1>4, <1>5, <1>6, <1>7, <1>8

-----------------------------------------------------------------------------
(* Steps of the executor keep the types.                                     *)

LEMMA ExecutorType == ASSUME TypeOK, Executor PROVE TypeOK'
<1> USE DEF TypeOK, Goto, FailWith, world, exec, history
<1>1. CASE Preflight
  <2>1. Standing \in Changes
    BY DEF Standing, Changes
  <2> QED
    BY <1>1, <2>1 DEF Preflight
<1>2. CASE Compare
  BY <1>2 DEF Compare
<1>3. ASSUME NEW m \in Members, Inspect(m) PROVE TypeOK'
  BY <1>3 DEF Inspect, EvidenceGood
<1>4. CASE BarrierOverlap
  <2>1. Standing \in Changes
    BY DEF Standing, Changes
  <2> QED
    BY <1>4, <2>1 DEF BarrierOverlap
<1>5. CASE BarrierSnapshot
  <2>1. started' \in BOOLEAN
    BY <1>5, Zenon DEF BarrierSnapshot, BarrierPassed
  <2> QED
    BY <1>5, <2>1 DEF BarrierSnapshot, BarrierPassed
<1>6. CASE BarrierActivity
  <2>1. started' \in BOOLEAN
    BY <1>6, Zenon DEF BarrierActivity, BarrierPassed
  <2> QED
    BY <1>6, <2>1 DEF BarrierActivity, BarrierPassed
<1>7. CASE Attempt
  <2>1. attempted' \in BOOLEAN
    BY <1>7, Zenon DEF Attempt
  <2> QED
    BY <1>7, <2>1 DEF Attempt
<1>8. CASE GitRefuses
  BY <1>8 DEF GitRefuses
<1>9. CASE GitRemoves
  BY <1>9 DEF GitRemoves, GitLeaves
<1>10. CASE GitFailsMidway
  BY <1>10 DEF GitFailsMidway, GitLeaves
<1>11. CASE VerifyAfterFailure
  BY <1>11 DEF VerifyAfterFailure, GiveUpMember, VerifiedRemoved
<1>12. CASE Verify
  BY <1>12 DEF Verify, VerifiedRemoved
<1>13. CASE RefreshSnapshot
  BY <1>13 DEF RefreshSnapshot, NextMember
<1>14. CASE CheckOwner
  BY <1>14 DEF CheckOwner
<1>15. CASE RemoveContainer
  <2>1. destroyed' \subseteq Members \cup {Unselected}
    BY <1>15 DEF RemoveContainer, DestroyContainer
  <2> QED
    BY <1>15, <2>1 DEF RemoveContainer
<1>16. CASE RemoveContainerFails
  <2>1. destroyed' \subseteq Members \cup {Unselected}
    BY <1>16 DEF RemoveContainerFails, DestroyContainer
  <2>2. extra' \subseteq {"top", "nested"}
    BY <1>16 DEF RemoveContainerFails
  <2>3. mtime' \in Nat
    BY <1>16 DEF RemoveContainerFails
  <2> QED
    BY <1>16, <2>1, <2>2, <2>3 DEF RemoveContainerFails
<1>17. CASE RemoveMissingContainer
  BY <1>17 DEF RemoveMissingContainer
<1>18. CASE FinalCheck
  BY <1>18 DEF FinalCheck
<1>19. CASE WriteFailure
  BY <1>19 DEF WriteFailure, FailedState, OwnerGone, States
<1>20. CASE WriteSuccess
  BY <1>20 DEF WriteSuccess, States
<1> QED
  BY <1>1, <1>2, <1>3, <1>4, <1>5, <1>6, <1>7, <1>8, <1>9, <1>10, <1>11, <1>12, <1>13,
     <1>14, <1>15, <1>16, <1>17, <1>18, <1>19, <1>20 DEF Executor

-----------------------------------------------------------------------------
(* The preflight: nothing is mutated, and what it misses is on record.       *)

LEMMA PreflightInv == ASSUME Inv, Preflight, TypeOK' PROVE Inv'
<1> USE DEF Inv, TypeOK, Preflight, Goto, FailWith, world, exec, history,
            PreflightClean, Standing
<1>1. PreflightOK'
  BY DEF PreflightOK, PreflightClean, ControlOK, Changes
<1>2. ControlOK' /\ AttemptOK' /\ VerifiedOK' /\ DamageOK'
      /\ StopsAtFirstFailure' /\ ReceiptTruthful' /\ BarrierOK' /\ PartialOK'
  BY DEF ControlOK, NoReceipt, AttemptOK, VerifiedOK, Verified, DamageOK, Unselected,
         StopsAtFirstFailure, ReceiptTruthful, MemberGone, BarrierOK, PartialOK
<1> QED
  BY <1>1, <1>2

LEMMA InspectInv == ASSUME Inv, NEW m \in Members, Inspect(m), TypeOK' PROVE Inv'
<1> USE DEF Inv, TypeOK, Inspect, Goto, FailWith, world, exec, history, EvidenceGood
<1>1. PreflightOK'
  BY DEF PreflightOK, PreflightClean, Changes
<1>2. ControlOK' /\ AttemptOK' /\ VerifiedOK' /\ DamageOK'
      /\ StopsAtFirstFailure' /\ ReceiptTruthful' /\ BarrierOK' /\ PartialOK'
  BY DEF ControlOK, NoReceipt, AttemptOK, VerifiedOK, Verified, DamageOK, Unselected,
         StopsAtFirstFailure, ReceiptTruthful, MemberGone, BarrierOK, PartialOK
<1> QED
  BY <1>1, <1>2

LEMMA CompareInv == ASSUME Inv, Compare, TypeOK' PROVE Inv'
<1> USE DEF Inv, TypeOK, Compare, Goto, FailWith, world, exec, history
<1>1. PreflightOK'
  BY DEF PreflightOK, PreflightClean, Changes
<1>2. ControlOK' /\ AttemptOK' /\ VerifiedOK' /\ DamageOK'
      /\ StopsAtFirstFailure' /\ ReceiptTruthful' /\ BarrierOK' /\ PartialOK'
  BY DEF ControlOK, NoReceipt, AttemptOK, VerifiedOK, Verified, DamageOK, Unselected,
         StopsAtFirstFailure, ReceiptTruthful, MemberGone, BarrierOK, PartialOK
<1> QED
  BY <1>1, <1>2

-----------------------------------------------------------------------------
(* The barrier: each check adds what it has established to BarrierOK.        *)

LEMMA BarrierOverlapInv == ASSUME Inv, BarrierOverlap, TypeOK' PROVE Inv'
<1> USE DEF Inv, TypeOK, BarrierOverlap, Goto, FailWith, world, exec, history, Standing
<1>1. BarrierOK'
  BY DEF BarrierOK
<1>2. ControlOK' /\ AttemptOK' /\ VerifiedOK' /\ DamageOK' /\ PreflightOK'
      /\ StopsAtFirstFailure' /\ ReceiptTruthful' /\ PartialOK'
  BY DEF ControlOK, NoReceipt, AttemptOK, VerifiedOK, Verified, DamageOK, Unselected,
         PreflightOK, PreflightClean, StopsAtFirstFailure, ReceiptTruthful, MemberGone,
         PartialOK
<1> QED
  BY <1>1, <1>2

LEMMA BarrierSnapshotInv == ASSUME Inv, BarrierSnapshot, TypeOK' PROVE Inv'
<1> USE DEF Inv, TypeOK, BarrierSnapshot, Goto, FailWith, world, exec, history,
            BarrierPassed, SnapshotHolds
<1>1. BarrierOK'
  BY DEF BarrierOK
<1>2. ControlOK'
  BY DEF ControlOK, NoReceipt
<1>3. StopsAtFirstFailure'
  BY DEF StopsAtFirstFailure, VerifiedOK, Verified, DamageOK, Unselected
<1>4. AttemptOK' /\ VerifiedOK' /\ DamageOK' /\ PreflightOK' /\ ReceiptTruthful'
      /\ PartialOK'
  BY DEF AttemptOK, VerifiedOK, Verified, DamageOK, Unselected, PreflightOK,
         PreflightClean, ReceiptTruthful, MemberGone, PartialOK
<1> QED
  BY <1>1, <1>2, <1>3, <1>4

LEMMA BarrierActivityInv == ASSUME Inv, BarrierActivity, TypeOK' PROVE Inv'
<1> USE DEF Inv, TypeOK, BarrierActivity, Goto, FailWith, world, exec, history,
            BarrierPassed, ActivityHolds
<1>1. BarrierOK'
  BY DEF BarrierOK, Changes
<1>2. ControlOK'
  BY DEF ControlOK, NoReceipt
<1>3. StopsAtFirstFailure'
  BY DEF StopsAtFirstFailure, VerifiedOK, Verified, DamageOK, Unselected
<1>4. AttemptOK' /\ VerifiedOK' /\ DamageOK' /\ PreflightOK' /\ ReceiptTruthful'
      /\ PartialOK'
  BY DEF AttemptOK, VerifiedOK, Verified, DamageOK, Unselected, PreflightOK,
         PreflightClean, ReceiptTruthful, MemberGone, PartialOK
<1> QED
  BY <1>1, <1>2, <1>3, <1>4

LEMMA AttemptInv == ASSUME Inv, Attempt, TypeOK' PROVE Inv'
<1> USE DEF Inv, TypeOK, Attempt, Goto, FailWith, world, exec, history
<1>1. BarrierOK'
  BY DEF BarrierOK
<1>2. ControlOK'
  BY DEF ControlOK, NoReceipt
<1>3. AttemptOK'
  BY DEF AttemptOK, ControlOK
<1>4. StopsAtFirstFailure'
  BY DEF StopsAtFirstFailure, VerifiedOK, Verified, DamageOK, Unselected
<1>5. ReceiptTruthful'
  BY DEF ReceiptTruthful, MemberGone, ControlOK, NoReceipt
<1>6. VerifiedOK' /\ DamageOK' /\ PreflightOK' /\ PartialOK'
  BY DEF VerifiedOK, Verified, DamageOK, Unselected, PreflightOK, PreflightClean,
         PartialOK
<1> QED
  BY <1>1, <1>2, <1>3, <1>4, <1>5, <1>6

-----------------------------------------------------------------------------
(* Git at work on the current member.                                        *)

LEMMA GitRefusesInv == ASSUME Inv, GitRefuses, TypeOK' PROVE Inv'
<1> USE DEF Inv, TypeOK, GitRefuses, Goto, FailWith, world, exec, history
<1>1. ControlOK' /\ AttemptOK' /\ VerifiedOK' /\ DamageOK' /\ PreflightOK'
      /\ StopsAtFirstFailure' /\ ReceiptTruthful' /\ BarrierOK' /\ PartialOK'
  BY DEF ControlOK, NoReceipt, AttemptOK, VerifiedOK, Verified, DamageOK, Unselected,
         PreflightOK, PreflightClean, StopsAtFirstFailure, ReceiptTruthful, MemberGone,
         BarrierOK, PartialOK
<1> QED
  BY <1>1

LEMMA GitRemovesInv == ASSUME Inv, GitRemoves, TypeOK' PROVE Inv'
<1> USE DEF Inv, TypeOK, GitRemoves, Goto, FailWith, world, exec, history, GitLeaves
<1>1. VerifiedOK'
  BY DEF VerifiedOK, Verified
<1>2. StopsAtFirstFailure'
  BY DEF StopsAtFirstFailure, VerifiedOK, Verified, DamageOK, Unselected
<1>3. BarrierOK'
  BY DEF BarrierOK
<1>4. PartialOK'
  BY DEF PartialOK
<1>5. ControlOK' /\ AttemptOK' /\ DamageOK' /\ PreflightOK' /\ ReceiptTruthful'
  BY DEF ControlOK, NoReceipt, AttemptOK, DamageOK, Unselected, PreflightOK,
         PreflightClean, ReceiptTruthful, MemberGone
<1> QED
  BY <1>1, <1>2, <1>3, <1>4, <1>5

LEMMA GitFailsMidwayInv == ASSUME Inv, GitFailsMidway, TypeOK' PROVE Inv'
<1> USE DEF Inv, TypeOK, GitFailsMidway, Goto, FailWith, world, exec, history, GitLeaves
<1>1. VerifiedOK'
  BY DEF VerifiedOK, Verified, ControlOK
<1>2. StopsAtFirstFailure'
  BY DEF StopsAtFirstFailure, VerifiedOK, Verified, DamageOK, Unselected
<1>3. BarrierOK'
  BY DEF BarrierOK
<1>4. PartialOK'
  BY DEF PartialOK
<1>5. ControlOK' /\ AttemptOK' /\ DamageOK' /\ PreflightOK' /\ ReceiptTruthful'
  BY DEF ControlOK, NoReceipt, AttemptOK, DamageOK, Unselected, PreflightOK,
         PreflightClean, ReceiptTruthful, MemberGone
<1> QED
  BY <1>1, <1>2, <1>3, <1>4, <1>5

-----------------------------------------------------------------------------
(* Verification is what moves a member into Verified.                        *)

LEMMA VerifyAfterFailureInv == ASSUME Inv, VerifyAfterFailure, TypeOK' PROVE Inv'
<1> USE DEF Inv, TypeOK, VerifyAfterFailure, Goto, FailWith, world, exec, history,
            GiveUpMember, VerifiedRemoved
<1>1. VerifiedOK'
  BY DEF VerifiedOK, Verified, ControlOK
<1>2. StopsAtFirstFailure'
  BY DEF StopsAtFirstFailure, VerifiedOK, Verified, DamageOK, Unselected, ControlOK
<1>3. ControlOK' /\ AttemptOK' /\ DamageOK' /\ PreflightOK' /\ ReceiptTruthful'
      /\ BarrierOK' /\ PartialOK'
  BY DEF ControlOK, NoReceipt, AttemptOK, DamageOK, Unselected, PreflightOK,
         PreflightClean, ReceiptTruthful, MemberGone, BarrierOK, PartialOK
<1> QED
  BY <1>1, <1>2, <1>3

LEMMA VerifyInv == ASSUME Inv, Verify, TypeOK' PROVE Inv'
<1> USE DEF Inv, TypeOK, Verify, Goto, FailWith, world, exec, history, VerifiedRemoved,
            PreservedCommit
<1>1. VerifiedOK'
  BY DEF VerifiedOK, Verified, ControlOK
<1>2. StopsAtFirstFailure'
  BY DEF StopsAtFirstFailure, VerifiedOK, Verified, DamageOK, Unselected, ControlOK
<1>3. ControlOK' /\ AttemptOK' /\ DamageOK' /\ PreflightOK' /\ ReceiptTruthful'
      /\ BarrierOK' /\ PartialOK'
  BY DEF ControlOK, NoReceipt, AttemptOK, DamageOK, Unselected, PreflightOK,
         PreflightClean, ReceiptTruthful, MemberGone, BarrierOK, PartialOK
<1> QED
  BY <1>1, <1>2, <1>3

LEMMA RefreshSnapshotInv == ASSUME Inv, RefreshSnapshot, TypeOK' PROVE Inv'
<1> USE DEF Inv, TypeOK, RefreshSnapshot, Goto, FailWith, world, exec, history,
            NextMember
<1>1. VerifiedOK'
  BY DEF VerifiedOK, Verified, ControlOK
<1>2. StopsAtFirstFailure'
  BY DEF StopsAtFirstFailure, VerifiedOK, Verified, DamageOK, Unselected, ControlOK
<1>3. ControlOK' /\ AttemptOK' /\ DamageOK' /\ PreflightOK' /\ ReceiptTruthful'
      /\ BarrierOK' /\ PartialOK'
  BY DEF ControlOK, NoReceipt, AttemptOK, DamageOK, Unselected, PreflightOK,
         PreflightClean, ReceiptTruthful, MemberGone, BarrierOK, PartialOK
<1> QED
  BY <1>1, <1>2, <1>3

-----------------------------------------------------------------------------
(* The container goes only with every member verified.                       *)

LEMMA CheckOwnerInv == ASSUME Inv, CheckOwner, TypeOK' PROVE Inv'
<1> USE DEF Inv, TypeOK, CheckOwner, Goto, FailWith, world, exec, history
<1>1. VerifiedOK'
  BY DEF VerifiedOK, Verified, ControlOK
<1>2. StopsAtFirstFailure'
  BY DEF StopsAtFirstFailure, VerifiedOK, Verified, DamageOK, Unselected, ControlOK
<1>3. ControlOK' /\ AttemptOK' /\ DamageOK' /\ PreflightOK' /\ ReceiptTruthful'
      /\ BarrierOK' /\ PartialOK'
  BY DEF ControlOK, NoReceipt, AttemptOK, DamageOK, Unselected, PreflightOK,
         PreflightClean, ReceiptTruthful, MemberGone, BarrierOK, PartialOK
<1> QED
  BY <1>1, <1>2, <1>3

LEMMA RemoveContainerInv == ASSUME Inv, RemoveContainer, TypeOK' PROVE Inv'
<1> USE DEF Inv, TypeOK, RemoveContainer, Goto, FailWith, world, exec, history,
            DestroyContainer
<1>1. VerifiedOK'
  BY DEF VerifiedOK, Verified, ControlOK
<1>2. StopsAtFirstFailure'
  BY DEF StopsAtFirstFailure, VerifiedOK, Verified, DamageOK, Unselected, ControlOK
<1>3. DamageOK' /\ AttemptOK'
  BY DEF DamageOK, Unselected, AttemptOK, ControlOK
<1>4. BarrierOK'
  BY DEF BarrierOK
<1>5. ControlOK' /\ PreflightOK' /\ ReceiptTruthful' /\ PartialOK'
  BY DEF ControlOK, NoReceipt, PreflightOK, PreflightClean, ReceiptTruthful, MemberGone,
         PartialOK
<1> QED
  BY <1>1, <1>2, <1>3, <1>4, <1>5

LEMMA RemoveContainerFailsInv == ASSUME Inv, RemoveContainerFails, TypeOK' PROVE Inv'
<1> USE DEF Inv, TypeOK, RemoveContainerFails, Goto, FailWith, world, exec, history,
            DestroyContainer
<1>1. VerifiedOK'
  BY DEF VerifiedOK, Verified, ControlOK
<1>2. StopsAtFirstFailure'
  BY DEF StopsAtFirstFailure, VerifiedOK, Verified, DamageOK, Unselected, ControlOK
<1>3. DamageOK' /\ AttemptOK'
  BY DEF DamageOK, Unselected, AttemptOK, ControlOK
<1>4. BarrierOK'
  BY DEF BarrierOK
<1>5. ControlOK' /\ PreflightOK' /\ ReceiptTruthful' /\ PartialOK'
  BY DEF ControlOK, NoReceipt, PreflightOK, PreflightClean, ReceiptTruthful, MemberGone,
         PartialOK
<1> QED
  BY <1>1, <1>2, <1>3, <1>4, <1>5

LEMMA RemoveMissingContainerInv == ASSUME Inv, RemoveMissingContainer, TypeOK' PROVE Inv'
<1> USE DEF Inv, TypeOK, RemoveMissingContainer, Goto, FailWith, world, exec, history
<1>1. VerifiedOK'
  BY DEF VerifiedOK, Verified, ControlOK
<1>2. ControlOK' /\ AttemptOK' /\ DamageOK' /\ PreflightOK'
      /\ StopsAtFirstFailure' /\ ReceiptTruthful' /\ BarrierOK' /\ PartialOK'
  BY DEF ControlOK, NoReceipt, AttemptOK, DamageOK, Unselected, PreflightOK,
         PreflightClean, StopsAtFirstFailure, VerifiedOK, Verified, ReceiptTruthful,
         MemberGone, BarrierOK, PartialOK
<1> QED
  BY <1>1, <1>2

LEMMA FinalCheckInv == ASSUME Inv, FinalCheck, TypeOK' PROVE Inv'
<1> USE DEF Inv, TypeOK, FinalCheck, Goto, FailWith, world, exec, history
<1>1. VerifiedOK'
  BY DEF VerifiedOK, Verified, ControlOK
<1>2. ControlOK' /\ AttemptOK' /\ DamageOK' /\ PreflightOK'
      /\ StopsAtFirstFailure' /\ ReceiptTruthful' /\ BarrierOK' /\ PartialOK'
  BY DEF ControlOK, NoReceipt, AttemptOK, DamageOK, Unselected, PreflightOK,
         PreflightClean, StopsAtFirstFailure, VerifiedOK, Verified, ReceiptTruthful,
         MemberGone, BarrierOK, PartialOK
<1> QED
  BY <1>1, <1>2

-----------------------------------------------------------------------------
(* The receipt.                                                              *)

LEMMA WriteFailureInv == ASSUME Inv, WriteFailure, TypeOK' PROVE Inv'
<1> USE DEF Inv, TypeOK, WriteFailure, Goto, FailWith, world, exec, history,
            FailedState, OwnerGone
<1>1. ReceiptTruthful'
  BY DEF ReceiptTruthful, MemberGone, AttemptOK
<1>2. ControlOK' /\ AttemptOK' /\ VerifiedOK' /\ DamageOK' /\ PreflightOK'
      /\ StopsAtFirstFailure' /\ BarrierOK' /\ PartialOK'
  BY DEF ControlOK, NoReceipt, AttemptOK, VerifiedOK, Verified, DamageOK, Unselected,
         PreflightOK, PreflightClean, StopsAtFirstFailure, BarrierOK, PartialOK
<1> QED
  BY <1>1, <1>2

LEMMA WriteSuccessInv == ASSUME Inv, WriteSuccess, TypeOK' PROVE Inv'
<1> USE DEF Inv, TypeOK, WriteSuccess, Goto, FailWith, world, exec, history
<1>1. ReceiptTruthful'
  BY DEF ReceiptTruthful, MemberGone, VerifiedOK, Verified, AttemptOK, ControlOK
<1>2. ControlOK' /\ AttemptOK' /\ VerifiedOK' /\ DamageOK' /\ PreflightOK'
      /\ StopsAtFirstFailure' /\ BarrierOK' /\ PartialOK'
  BY DEF ControlOK, NoReceipt, AttemptOK, VerifiedOK, Verified, DamageOK, Unselected,
         PreflightOK, PreflightClean, StopsAtFirstFailure, BarrierOK, PartialOK
<1> QED
  BY <1>1, <1>2

-----------------------------------------------------------------------------
(* The invariant is inductive.                                               *)

LEMMA NextInv == Inv /\ [Next]_vars => Inv'
<1> SUFFICES ASSUME Inv, [Next]_vars PROVE Inv'
  OBVIOUS
<1>1. CASE World
  BY <1>1, WorldStep
<1>2. CASE Executor
  <2>1. TypeOK'
    BY <1>2, ExecutorType DEF Inv
  <2> QED
    BY <1>2, <2>1, PreflightInv, InspectInv, CompareInv, BarrierOverlapInv,
       BarrierSnapshotInv, BarrierActivityInv, AttemptInv, GitRefusesInv,
       GitRemovesInv, GitFailsMidwayInv, VerifyAfterFailureInv, VerifyInv,
       RefreshSnapshotInv, CheckOwnerInv, RemoveContainerInv,
       RemoveContainerFailsInv, RemoveMissingContainerInv, FinalCheckInv,
       WriteFailureInv, WriteSuccessInv
       DEF Executor
<1>3. CASE UNCHANGED vars
  <2> USE <1>3 DEF Inv, vars, world, exec, history
  <2>1. TypeOK'
    BY DEF TypeOK
  <2>2. ControlOK' /\ AttemptOK' /\ VerifiedOK' /\ DamageOK' /\ PartialOK'
    BY DEF ControlOK, AttemptOK, VerifiedOK, Verified, DamageOK, PartialOK
  <2>3. PreflightOK' /\ BarrierOK'
    BY DEF PreflightOK, PreflightClean, BarrierOK
  <2>4. StopsAtFirstFailure' /\ ReceiptTruthful'
    BY DEF StopsAtFirstFailure, ReceiptTruthful, MemberGone
  <2> QED
    BY <2>1, <2>2, <2>3, <2>4
<1> QED
  BY <1>1, <1>2, <1>3 DEF Next, Finished

LEMMA SpecInv == Spec => []Inv
BY InitInv, NextInv, PTL DEF Spec

-----------------------------------------------------------------------------
(* The variables keep their types, for every unit and every run.             *)
THEOREM TypeCorrect == Spec => []TypeOK
<1>1. Inv => TypeOK
  BY DEF Inv
<1> QED
  BY <1>1, SpecInv, PTL

(* The executor never goes past a member it could not finish: a member is    *)
(* damaged only after every earlier one was verified removed, the container  *)
(* only after all of them (worktree/execute.go:109-172).                     *)
THEOREM MembersInOrder == Spec => []StopsAtFirstFailure
<1>1. Inv => StopsAtFirstFailure
  BY DEF Inv
<1> QED
  BY <1>1, SpecInv, PTL

(* A unit is reported removed only with every member verified, and bytes     *)
(* only after an attempt that left the owner gone; it is reported cancelled  *)
(* only if nothing was touched, failed only if no member is reported removed *)
(* and partial only after an attempt. A failed unit may have lost a part of  *)
(* a tree (executor/receipt.go:107-170).                                     *)
THEOREM ReceiptsTruthful == Spec => []ReceiptTruthful
<1>1. Inv => ReceiptTruthful
  BY DEF Inv
<1> QED
  BY <1>1, SpecInv, PTL

(* One member that had moved, or one checkout nobody selected, when the      *)
(* preflight began keeps the whole unit untouched                            *)
(* (worktree/execute.go:228-276).                                            *)
THEOREM PreflightShieldsUnit == Spec => []PreflightShields
<1>1. Inv => PreflightShields
  <2> SUFFICES ASSUME Inv, destroyed # {} PROVE PreflightClean
    BY DEF PreflightShields, PreflightClean
  <2>1. phase # "unit"
    BY DEF Inv, AttemptOK
  <2> QED
    BY <2>1 DEF Inv, PreflightOK
<1> QED
  BY <1>1, SpecInv, PTL

-----------------------------------------------------------------------------
(* What a mutation may rely on.                                              *)

Guarded ==
  destroyed' # destroyed =>
    /\ atBarrier.orphaned
    /\ atBarrier.selected
    /\ guided => /\ atBarrier.session = {}
                 /\ (destroyed' \ destroyed) \cap atBarrier.advanced = {}

LEMMA MutationGuarded == Inv /\ [Next]_vars => Guarded
<1> SUFFICES ASSUME Inv, [Next]_vars, destroyed' # destroyed
             PROVE  /\ atBarrier.orphaned
                    /\ atBarrier.selected
                    /\ guided => /\ atBarrier.session = {}
                                 /\ (destroyed' \ destroyed) \cap atBarrier.advanced = {}
  BY DEF Guarded
<1>1. GitRemoves \/ GitFailsMidway \/ RemoveContainer \/ RemoveContainerFails
  <2>1. ~World
    BY WorldMonotone DEF Inv, history
  <2>2. ~Finished /\ ~UNCHANGED vars
    BY DEF Finished, vars, history
  <2>3. Executor
    BY <2>1, <2>2 DEF Next
  <2> QED
    BY <2>3 DEF Executor, Preflight, Inspect, Compare, BarrierOverlap, BarrierSnapshot,
       BarrierActivity, Attempt, GitRefuses, VerifyAfterFailure, Verify, RefreshSnapshot,
       CheckOwner, RemoveMissingContainer, FinalCheck, WriteFailure, WriteSuccess, history
<1>2. pc \in {"git", "rmtree"}
  BY <1>1 DEF GitRemoves, GitFailsMidway, RemoveContainer, RemoveContainerFails
<1>3. /\ atBarrier.orphaned /\ atBarrier.selected
      /\ guided => /\ atBarrier.session = {}
                   /\ \A m \in atBarrier.advanced : tree[m] # "present"
  BY <1>2 DEF Inv, BarrierOK
<1>4. tree[cur] # "partial" /\ (\A m \in Members : tree[m] # "partial")
  BY <1>2 DEF Inv, PartialOK, TypeOK
<1>5. \A m \in (destroyed' \ destroyed) \cap Members : tree[m] = "present"
  <2>1. CASE GitRemoves
    BY <2>1, <1>4 DEF Inv, TypeOK, GitRemoves, GitLeaves
  <2>2. CASE GitFailsMidway
    BY <2>2, <1>4 DEF Inv, TypeOK, GitFailsMidway, GitLeaves
  <2>3. CASE RemoveContainer \/ RemoveContainerFails
    <3>1. destroyed' \subseteq
            destroyed \cup {m \in Members : tree[m] # "gone"} \cup {Unselected}
      BY <2>3 DEF RemoveContainer, RemoveContainerFails, DestroyContainer
    <3>2. \A m \in Members : tree[m] # "gone" => tree[m] = "present"
      BY <1>4 DEF Inv, TypeOK
    <3> QED
      BY <3>1, <3>2 DEF Unselected
  <2> QED
    BY <1>1, <2>1, <2>2, <2>3
<1>6. atBarrier.advanced \subseteq Members
  BY DEF Inv, TypeOK, Changes
<1> QED
  BY <1>3, <1>5, <1>6

(* No mutation outruns its barrier: neither a revived overlap obligation nor *)
(* a replaced owner nor, on the guided route, a resumed session or a fresh   *)
(* commit of the removed member that came before this mutation's own barrier *)
(* is missed (worktree/execute_prepared.go:55-78).                           *)
THEOREM BarrierGuards == Spec => BarrierGuardsMutation
<1>1. Inv /\ [Next]_vars => [Guarded]_vars
  BY MutationGuarded
<1> QED
  BY <1>1, SpecInv, PTL DEF Spec, BarrierGuardsMutation, Guarded

=============================================================================
