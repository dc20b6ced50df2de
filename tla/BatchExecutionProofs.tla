-------------------------- MODULE BatchExecutionProofs --------------------------
(****************************************************************************)
(* The batch executor keeps the promises of CleanupReceipts, for any number  *)
(* of targets of any kinds.  The inductive invariant ties the loop to its    *)
(* receipts (Loop), and the receipt being made to what was really done to    *)
(* the target at hand (Body).                                                *)
(****************************************************************************)
EXTENDS BatchExecution, TLAPS

Settlements == {"removed", "partial", "failed", "cancelled"}

Receipt == [state : Settlements \cup {"pending"}, physical : BOOLEAN, attempted : BOOLEAN,
            freed : Nat]

(* As much of the types as the argument needs.                               *)
Typed ==
  /\ pc \in {"start", "next", "active", "gate", "measure", "resolve", "barrier", "snapshot",
             "ready", "run", "remove", "residual", "finish", "done"}
  /\ t \in Targets
  /\ attempted \in BOOLEAN
  /\ err \in {"none", "error", "canceled"}
  /\ before \in Nat /\ freed \in Nat
  /\ size \in [Targets -> Nat]
  /\ receipt \in [Targets -> Receipt]
  /\ acted \subseteq Targets

(* While the loop runs, the receipts are those of the targets before t.      *)
Loop ==
  pc # "done" =>
    /\ \A k \in Targets : k < t <=> receipt[k].state # "pending"
    /\ \A k \in acted : k <= t

(* The receipt's MutationAttempted says whether the target was acted on, and *)
(* nothing is freed, or free of error at the end, without an attempt.        *)
Body ==
  /\ pc \notin {"active", "residual", "finish", "done"} => ~attempted
  /\ pc # "done" => (attempted <=> t \in acted)
  /\ pc = "residual" => attempted
  /\ pc = "finish" /\ ~attempted => freed = 0 /\ err # "none"
  /\ pc \notin {"residual", "finish", "done"} => freed = 0

Inv == Typed /\ Loop /\ Body

LEMMA InitInv == Init => Inv
<1> SUFFICES ASSUME Init PROVE Inv
    OBVIOUS
<1> USE BatchAssumption DEF Init, Targets
<1>1. Typed
  <2>1. attempted \in BOOLEAN
    BY Zenon
  <2>2. Pending \in Receipt
    BY DEF Pending, Receipt, Settlements
  <2> QED
    BY <2>1, <2>2 DEF Typed
<1>2. Loop
  BY DEF Loop, Pending
<1>3. Body
  BY DEF Body
<1> QED
  BY <1>1, <1>2, <1>3 DEF Inv

-----------------------------------------------------------------------------
(* Settling the target at hand.                                              *)

LEMMA SettledType ==
  ASSUME NEW r \in Receipt, NEW e, r.state \in Settlements
  PROVE  /\ Settled(r, e) \in Receipt
         /\ Settled(r, e).state \in Settlements
BY DEF Settled, Receipt, Settlements

LEMMA AppendInv ==
  ASSUME Inv, pc # "done",
         NEW r \in Receipt, NEW e, r.state \in Settlements, Append(r, e),
         ~attempted', freed' = 0, err' \in {"none", "error", "canceled"}, before' \in Nat,
         size' \in [Targets -> Nat], acted' = acted, attempted' \in BOOLEAN
  PROVE  Inv'
<1> USE BatchAssumption DEF Targets
<1>1. Cancelled \in Receipt /\ Cancelled.state \in Settlements
  BY DEF Cancelled, Pending, Receipt, Settlements
<1>2. receipt' \in [Targets -> Receipt]
  BY <1>1 DEF Append, Inv, Typed
<1>3. \/ pc' = "done" /\ t' = t
      \/ pc' = "next" /\ t' = t + 1 /\ t # N /\ e # "canceled"
  BY DEF Append, Return
<1>4. t' \in Targets
  BY <1>3 DEF Inv, Typed
<1>5. Typed'
  BY <1>2, <1>3, <1>4 DEF Typed, Inv
<1>6. Loop'
  <2> SUFFICES ASSUME pc' = "next", t' = t + 1, e # "canceled"
               PROVE  /\ \A k \in Targets : k < t' <=> receipt'[k].state # "pending"
                      /\ \A k \in acted' : k <= t'
      BY <1>3 DEF Loop
  <2>1. receipt' = [k \in Targets |-> IF k = t THEN r ELSE receipt[k]]
    BY DEF Append, Inv, Typed
  <2> QED
    BY <2>1 DEF Inv, Typed, Loop, Settlements
<1>7. Body'
  <2>1. pc' = "next" => t' \notin acted'
    BY <1>3 DEF Inv, Typed, Loop
  <2> QED
    BY <1>3, <2>1 DEF Body
<1> QED
  BY <1>5, <1>6, <1>7 DEF Inv

-----------------------------------------------------------------------------
(* Each step preserves the invariant.                                        *)

LEMMA WorldInv == Inv /\ World => Inv'
<1> USE BatchAssumption DEF Targets, Inv
<1>1. ASSUME Inv, NEW k \in Targets, Use(k) PROVE Inv'
  <2>1. size' \in [Targets -> Nat]
    BY <1>1 DEF Use, Typed, Size
  <2> QED
    BY <1>1, <2>1 DEF Use, Change, reclamation, Typed, Loop, Body
<1>2. ASSUME Inv, NEW k \in Targets, NEW what \in {"other", "link", "gone"}, Replace(k, what)
      PROVE  Inv'
  <2>1. size' \in [Targets -> Nat]
    BY <1>2 DEF Replace, Typed, Size
  <2> QED
    BY <1>2, <2>1 DEF Replace, Change, reclamation, Typed, Loop, Body
<1>3. ASSUME Inv, SaveScan PROVE Inv'
  BY <1>3 DEF SaveScan, Change, reclamation, Typed, Loop, Body
<1>4. ASSUME Inv, Cancel PROVE Inv'
  BY <1>4 DEF Cancel, reclamation, history, Typed, Loop, Body
<1> QED
  BY <1>1, <1>2, <1>3, <1>4 DEF World

LEMMA StartInv == Inv /\ Start => Inv'
BY DEF Start, Return, reclamation, history, Inv, Typed, Loop, Body

(* The checks before an attempt: the receipt is not touched.                 *)
LEMMA ChecksInv ==
  Inv /\ (Gate \/ Measure \/ Resolve \/ Barrier \/ ValidateSnapshot \/ ReadyForCommand
            \/ ReadyForRemoval) => Inv'
<1> SUFFICES ASSUME Inv,
                    Gate \/ Measure \/ Resolve \/ Barrier \/ ValidateSnapshot
                      \/ ReadyForCommand \/ ReadyForRemoval
             PROVE  Inv'
    OBVIOUS
<1>1. /\ pc \in {"gate", "measure", "resolve", "barrier", "snapshot", "ready"}
      /\ \/ pc' \in {"measure", "resolve", "barrier", "snapshot", "ready", "run", "remove"}
            /\ err' = err
         \/ pc' = "finish" /\ err' \in {"error", "canceled"}
  BY DEF Gate, Measure, Resolve, Barrier, ValidateSnapshot, ReadyForCommand, ReadyForRemoval,
         Proceed, FailBefore, Refuse, Join, FallBack
<1>2. UNCHANGED << t, attempted, freed, size, receipt, acted >>
  BY DEF Gate, Measure, Resolve, Barrier, ValidateSnapshot, ReadyForCommand, ReadyForRemoval,
         world, history
<1>3. before' \in Nat
  <2>1. CASE Measure
    BY <2>1, BatchAssumption DEF Measure, Inv, Typed
  <2>2. CASE ~Measure
    BY <2>2 DEF Gate, Resolve, Barrier, ValidateSnapshot, ReadyForCommand, ReadyForRemoval,
                Inv, Typed
  <2> QED
    BY <2>1, <2>2
<1> QED
  BY <1>1, <1>2, <1>3 DEF Inv, Typed, Loop, Body

(* An attempt is noted in the receipt and, in the model, as such.            *)
LEMMA AttemptInv ==
  Inv /\ (RunCommand \/ RemoveAll \/ RemoveMembers) => Inv'
<1> SUFFICES ASSUME Inv, RunCommand \/ RemoveAll \/ RemoveMembers
             PROVE  Inv'
    OBVIOUS
<1>1. CASE attempted' = TRUE /\ acted' = acted \cup {t}
  <2>1. attempted' \in BOOLEAN /\ attempted'
    BY <1>1, Zenon
  <2>2. /\ pc \in {"run", "remove", "active"}
        /\ pc' \in {"residual", "active"}
        /\ err' \in {"none", "error", "canceled"}
        /\ UNCHANGED << t, before, freed, receipt >>
    <3>1. CASE RunCommand
      <4>1. ~attempted
        BY <3>1 DEF RunCommand, Inv, Body
      <4>2. attempted' # attempted
        BY <1>1, <4>1
      <4>3. \E e \in {"none", "error"} : err' = Join(e)
        BY <3>1, <4>2 DEF RunCommand
      <4>4. err' \in {"none", "error", "canceled"}
        BY <4>3 DEF Join
      <4> QED
        BY <3>1, <4>2, <4>4 DEF RunCommand
    <3>2. CASE RemoveAll
      BY <3>2 DEF RemoveAll, Join, Inv, Typed
    <3>3. CASE RemoveMembers
      BY <3>3 DEF RemoveMembers, Inv, Typed
    <3> QED
      BY <3>1, <3>2, <3>3
  <2>3. size' \in [Targets -> Nat]
    <3>1. size[t] \in Nat /\ 0 .. size[t] \subseteq Nat
      BY DEF Inv, Typed
    <3>2. \/ size' = size
          \/ \E left \in 0 .. size[t] : size' = [size EXCEPT ![t] = left]
      <4>1. 0 \in 0 .. size[t]
        BY <3>1
      <4> QED
        BY <4>1 DEF RunCommand, RemoveAll, RemoveMembers, Take
    <3> QED
      BY <3>1, <3>2 DEF Inv, Typed
  <2> QED
    BY <1>1, <2>1, <2>2, <2>3, BatchAssumption DEF Inv, Typed, Loop, Body, Targets
<1>2. CASE ~(attempted' = TRUE /\ acted' = acted \cup {t})
  <2>1. /\ pc = "run" /\ pc' = "finish" /\ err' \in {"error", "canceled"}
        /\ UNCHANGED << t, size, attempted, acted, before, freed, receipt >>
    BY <1>2 DEF RunCommand, RemoveAll, RemoveMembers, Take, Refuse, FailBefore, Join
  <2> QED
    BY <2>1 DEF Inv, Typed, Loop, Body
<1> QED
  BY <1>1, <1>2

LEMMA ReclaimedType ==
  ASSUME Inv, NEW after \in Nat, NEW complete, NEW interrupted
  PROVE  Reclaimed(after, complete, interrupted) \in Nat
BY DEF Reclaimed, Inv, Typed

LEMMA MeasureResidualInv == Inv /\ MeasureResidual => Inv'
<1> SUFFICES ASSUME Inv, MeasureResidual PROVE Inv'
    OBVIOUS
<1>1. freed' \in Nat
  <2>1. size[t] \in Nat
    BY DEF Inv, Typed
  <2> QED
    BY <2>1, ReclaimedType DEF MeasureResidual
<1> QED
  BY <1>1 DEF MeasureResidual, world, Inv, Typed, Loop, Body

-----------------------------------------------------------------------------
(* The steps that settle a target write a receipt that agrees with what was  *)
(* attempted, unless the loop only goes into the target.                     *)

Agrees(r) ==
  /\ r \in Receipt /\ r.state \in Settlements \ {"cancelled"}
  /\ r.attempted = attempted
  /\ r.state \in {"removed", "partial"} => attempted

Forgotten ==
  /\ attempted' \in BOOLEAN /\ ~attempted' /\ freed' = 0
  /\ err' \in {"none", "error", "canceled"} /\ before' \in Nat
  /\ UNCHANGED << size, acted >>

Enters ==
  /\ pc = "next" /\ pc' \in {"active", "gate"}
  /\ UNCHANGED << t, receipt, attempted, freed, err, before, size, acted >>

LEMMA TakeTargetSettles ==
  ASSUME Inv, TakeTarget
  PROVE  \/ Enters
         \/ Forgotten /\ \E r \in Receipt, e \in {"none", "error", "canceled"} :
                            Agrees(r) /\ Settle(r, e)
<1> DEFINE r == [Pending EXCEPT !.state = "failed"]
<1>1. ~attempted /\ freed = 0 /\ pc = "next" /\ UNCHANGED << size, acted, reclamation >>
  BY DEF TakeTarget, history, Inv, Body
<1>2. attempted' = FALSE /\ attempted = FALSE
  BY <1>1 DEF reclamation, Inv, Typed
<1>3. r \in Receipt /\ r.state = "failed" /\ r.attempted = FALSE
  BY DEF Pending, Receipt, Settlements
<1>4. Agrees(r)
  BY <1>2, <1>3, Zenon DEF Agrees, Settlements
<1>5. CASE cancelled \/ ~target[t].prepared
  <2>1. \E e \in {"none", "error", "canceled"} : Settle(r, e)
    BY <1>5 DEF TakeTarget
  <2>2. Forgotten
    <3>1. attempted' \in BOOLEAN /\ ~attempted'
      BY <1>1, <1>2, Zenon
    <3> QED
      BY <1>1, <3>1 DEF Forgotten, reclamation, Inv, Typed
  <2> QED
    BY <1>3, <1>4, <2>1, <2>2
<1>6. CASE ~cancelled /\ target[t].prepared
  BY <1>1, <1>6 DEF TakeTarget, Enters, reclamation
<1> QED
  BY <1>5, <1>6

LEMMA StateAgrees ==
  ASSUME Inv, pc = "finish"
  PROVE  State \in Settlements \ {"cancelled"} /\ (State \in {"removed", "partial"} => attempted)
BY DEF State, Settlements, Inv, Body, Typed

LEMMA FinishSettles ==
  ASSUME Inv, Finish
  PROVE  Forgotten /\ \E r \in Receipt, e \in {"none", "error", "canceled"} :
                          Agrees(r) /\ Settle(r, e)
<1> DEFINE raw == err = "none" /\ Kind # "command" /\ ~OwnerGone
           e == IF raw THEN "error" ELSE err
           f == IF raw /\ path[t] = "gone" THEN 0 ELSE freed
           r == [state |-> State, physical |-> OwnerGone, attempted |-> attempted,
                 freed |-> f]
<1>1. Settle(r, e) /\ pc = "finish" /\ Forget /\ UNCHANGED << size, acted >>
  BY DEF Finish
<1>2. Forgotten
  <2>1. attempted' \in BOOLEAN /\ ~attempted'
    BY <1>1, Zenon DEF Forget
  <2> QED
    BY <1>1, <2>1 DEF Forgotten, Forget
<1>3. e \in {"none", "error", "canceled"} /\ f \in Nat
  BY DEF Inv, Typed
<1>4. OwnerGone \in BOOLEAN /\ attempted \in BOOLEAN
  BY DEF OwnerGone, Inv, Typed
<1>5. r \in Receipt
  BY <1>1, <1>3, <1>4, StateAgrees DEF Receipt
<1>6. Agrees(r)
  BY <1>1, <1>5, StateAgrees DEF Agrees
<1> QED
  BY <1>1, <1>2, <1>3, <1>5, <1>6

LEMMA FinishUnitSettles ==
  ASSUME Inv, FinishUnit
  PROVE  Forgotten /\ \E r \in Receipt, e \in {"none", "error", "canceled"} :
                          Agrees(r) /\ Settle(r, e)
<1>1. PICK e \in {"none", "error"} \cup (IF cancelled THEN {"canceled"} ELSE {}),
           members \in BOOLEAN :
        /\ members => attempted
        /\ e = "none" => attempted /\ OwnerGone
        /\ Settle([state |-> IF e = "none" THEN "removed"
                             ELSE IF attempted /\ (members \/ OwnerGone)
                                  THEN "partial" ELSE "failed",
                   physical |-> OwnerGone, attempted |-> attempted,
                   freed |-> IF attempted /\ OwnerGone THEN MaxSize ELSE 0], e)
  BY Zenon DEF FinishUnit
<1> DEFINE s == IF e = "none" THEN "removed"
                ELSE IF attempted /\ (members \/ OwnerGone) THEN "partial" ELSE "failed"
           f == IF attempted /\ OwnerGone THEN MaxSize ELSE 0
           r == [state |-> s, physical |-> OwnerGone, attempted |-> attempted,
                 freed |-> f]
<1>2. Forgotten
  <2>1. Forget /\ UNCHANGED << size, acted >>
    BY DEF FinishUnit
  <2>2. attempted' \in BOOLEAN /\ ~attempted'
    BY <2>1, Zenon DEF Forget
  <2> QED
    BY <2>1, <2>2 DEF Forgotten, Forget
<1>3. e \in {"none", "error", "canceled"}
  OBVIOUS
<1>4. s \in Settlements \ {"cancelled"} /\ (s \in {"removed", "partial"} => attempted)
  BY <1>1 DEF Settlements
<1>5. OwnerGone \in BOOLEAN /\ attempted \in BOOLEAN /\ f \in Nat
  BY BatchAssumption DEF OwnerGone, Inv, Typed
<1>6. r \in Receipt
  BY <1>4, <1>5 DEF Receipt
<1>7. Agrees(r)
  BY <1>4, <1>6 DEF Agrees
<1> QED
  BY <1>1, <1>2, <1>3, <1>6, <1>7

(* So much for the loop's invariant.                                         *)
LEMMA SettleInv ==
  ASSUME Inv, pc # "done", Forgotten,
         NEW r \in Receipt, NEW e \in {"none", "error", "canceled"}, Agrees(r), Settle(r, e)
  PROVE  Inv'
<1>1. Settled(r, e) \in Receipt /\ Settled(r, e).state \in Settlements
  BY SettledType DEF Agrees
<1>2. Append(Settled(r, e), e)
  BY DEF Settle
<1>3. size' \in [Targets -> Nat]
  BY DEF Forgotten, Inv, Typed
<1> QED
  BY <1>1, <1>2, <1>3, AppendInv DEF Forgotten

LEMMA NextInv == Inv /\ [Next]_vars => Inv'
<1> SUFFICES ASSUME Inv, [Next]_vars PROVE Inv'
    OBVIOUS
<1>1. CASE TakeTarget
  <2>1. CASE Enters
    BY <2>1 DEF Enters, Inv, Typed, Loop, Body
  <2>2. CASE ~Enters
    BY <1>1, <2>2, TakeTargetSettles, SettleInv DEF TakeTarget
  <2> QED
    BY <2>1, <2>2
<1>2. CASE Finish
  BY <1>2, FinishSettles, SettleInv DEF Finish
<1>3. CASE FinishUnit
  BY <1>3, FinishUnitSettles, SettleInv DEF FinishUnit
<1>4. CASE UNCHANGED vars
  BY <1>4 DEF vars, world, reclamation, history, Inv, Typed, Loop, Body
<1> QED
  BY <1>1, <1>2, <1>3, <1>4, WorldInv, StartInv, ChecksInv, AttemptInv, MeasureResidualInv
     DEF Next, Executor, Stopped

(* The receipts and the loop stay consistent for ever.                       *)
THEOREM LoopConsistent == Spec => []Inv
BY InitInv, NextInv, PTL DEF Spec

-----------------------------------------------------------------------------
(* Refinement: what a step is to CleanupReceipts.                            *)

LEMMA SettleRefines ==
  ASSUME Inv, pc # "done", Forgotten,
         NEW r \in Receipt, NEW e \in {"none", "error", "canceled"}, Agrees(r), Settle(r, e)
  PROVE  Receipts!Next
<1> DEFINE s == Settled(r, e).state
<1> USE BatchAssumption DEF Targets, Receipts!Targets
<1>1. t \in Targets /\ Receipts!Current(t)
  BY DEF Receipts!Current, Inv, Typed, Loop
<1>2. s \in Receipts!States /\ Receipts!Truthful(t, s)
  <2>1. s \in {r.state, "cancelled"}
    BY DEF Settled, Receipt
  <2>2. s = "cancelled" => ~attempted
    BY DEF Settled, Agrees, Receipt, Settlements
  <2>3. attempted <=> t \in acted
    BY DEF Inv, Body
  <2> QED
    BY <2>1, <2>2, <2>3 DEF Agrees, Settlements, Receipts!States, Receipts!Truthful
<1>3. receipt' = [k \in Targets |->
                    IF k = t THEN Settled(r, e)
                    ELSE IF k > t /\ e = "canceled" THEN Cancelled ELSE receipt[k]]
  BY DEF Settle, Append
<1>4. Cancelled.state = "cancelled"
  BY DEF Cancelled, Pending
<1>5. CASE e = "canceled"
  <2>1. Receipts!Stop(t, s)
    BY <1>1, <1>2, <1>3, <1>4, <1>5 DEF Receipts!Stop, Forgotten
  <2> QED
    BY <1>1, <1>2, <2>1 DEF Receipts!Next
<1>6. CASE e # "canceled"
  <2>1. s = r.state /\ s # "cancelled"
    BY <1>6 DEF Settled, Agrees
  <2>2. Receipts!Settle(t, s)
    BY <1>1, <1>2, <1>3, <1>6, <2>1 DEF Receipts!Settle, Forgotten
  <2> QED
    BY <1>1, <1>2, <2>2 DEF Receipts!Next
<1> QED
  BY <1>5, <1>6

LEMMA StepRefines ==
  ASSUME Inv, [Next]_vars
  PROVE  [Receipts!Next]_(Receipts!vars)
<1>1. CASE TakeTarget
  <2>1. CASE Enters
    BY <2>1 DEF Enters, Receipts!vars
  <2>2. CASE ~Enters
    BY <1>1, <2>2, TakeTargetSettles, SettleRefines DEF TakeTarget
  <2> QED
    BY <2>1, <2>2
<1>2. CASE Finish
  BY <1>2, FinishSettles, SettleRefines DEF Finish
<1>3. CASE FinishUnit
  BY <1>3, FinishUnitSettles, SettleRefines DEF FinishUnit
<1>4. CASE RunCommand \/ RemoveAll \/ RemoveMembers
  <2>1. UNCHANGED receipt /\ (acted' = acted \/ acted' = acted \cup {t})
    BY <1>4 DEF RunCommand, RemoveAll, RemoveMembers, Take
  <2>2. pc # "done"
    BY <1>4 DEF RunCommand, RemoveAll, RemoveMembers
  <2>3. t \in Targets /\ Receipts!Current(t)
    BY <2>2, BatchAssumption DEF Targets, Receipts!Targets, Receipts!Current, Inv, Typed, Loop
  <2>4. CASE acted' = acted
    BY <2>1, <2>4 DEF Receipts!vars
  <2>5. CASE acted' = acted \cup {t}
    BY <2>1, <2>3, <2>5 DEF Receipts!Attempt, Receipts!Next, Targets, Receipts!Targets
  <2> QED
    BY <2>1, <2>4, <2>5
<1>5. CASE World \/ Start \/ Gate \/ Measure \/ Resolve \/ Barrier \/ ValidateSnapshot
             \/ ReadyForCommand \/ ReadyForRemoval \/ MeasureResidual \/ UNCHANGED vars
  <2>1. UNCHANGED << receipt, acted >>
    BY <1>5 DEF World, Use, Replace, SaveScan, Cancel, Change, Start, Gate, Measure, Resolve,
                Barrier, ValidateSnapshot, ReadyForCommand, ReadyForRemoval, MeasureResidual,
                history, vars
  <2> QED
    BY <2>1 DEF Receipts!vars
<1> QED
  BY <1>1, <1>2, <1>3, <1>4, <1>5 DEF Next, Executor, Stopped

(* Every behaviour of the batch executor is one that CleanupReceipts allows: *)
(* targets settled in order, nothing reported cancelled that was acted on,   *)
(* nothing acted on after a cancellation (executor/orchestration.go:180-240).*)
THEOREM KeepsItsReceipts == Spec => KeepsReceipts
<1>1. Init => Receipts!Init
  BY DEF Init, Receipts!Init, Targets, Receipts!Targets, Pending
<1>2. Inv /\ [Next]_vars => [Receipts!Next]_(Receipts!vars)
  BY StepRefines
<1> QED
  BY <1>1, <1>2, LoopConsistent, PTL DEF Spec, KeepsReceipts, Receipts!Spec

-----------------------------------------------------------------------------
(* The safety invariants of the runs.  Each needs to know only a little of   *)
(* what the executor carries from step to step.                              *)

(* A first walk never counts more than there was.                            *)
Bytes ==
  /\ before \in Nat /\ actual \in Nat /\ reclaimed \in Nat
  /\ size \in [Targets -> Nat] /\ t \in Targets
  /\ pc \in {"resolve", "barrier", "snapshot", "ready", "run", "remove", "residual"} =>
       before <= actual /\ (exact => before = actual)
  /\ FreedIsReal

LEMMA BytesInv == Inv /\ Bytes /\ [Next]_vars => Bytes'
<1> SUFFICES ASSUME Inv, Bytes, [Next]_vars PROVE Bytes'
    OBVIOUS
<1>1. (before \in Nat /\ size \in [Targets -> Nat] /\ t \in Targets)'
  BY NextInv DEF Inv, Typed
<1>2. CASE MeasureResidual
  <2>1. PICK complete \in BOOLEAN, interrupted \in BOOLEAN :
          /\ complete => ~interrupted
          /\ \E after \in (IF complete THEN {size[t]} ELSE 0 .. size[t]) :
               freed' = Reclaimed(after, complete, interrupted)
          /\ cut' = interrupted
    BY <1>2, Zenon DEF MeasureResidual
  <2>2. size[t] \in Nat /\ actual \in Nat /\ before \in Nat /\ pc = "residual"
    BY <1>2 DEF Bytes, MeasureResidual
  <2>3. reclaimed' = (IF size[t] > actual THEN 0 ELSE actual - size[t])
    BY <1>2 DEF MeasureResidual
  <2>4. reclaimed' \in Nat
    BY <2>2, <2>3
  <2>5. exact \/ interrupted => freed' <= reclaimed'
    BY <2>1, <2>2, <2>3 DEF Reclaimed, Bytes
  <2> QED
    BY <1>1, <1>2, <2>1, <2>4, <2>5 DEF MeasureResidual, world, Bytes, FreedIsReal
<1>3. CASE Measure
  <2>1. size[t] \in Nat
    BY DEF Bytes
  <2>2. /\ actual' \in Nat /\ reclaimed' \in Nat
        /\ pc' # "finish" => before' <= actual' /\ (exact' => before' = actual')
    BY <1>3, <2>1 DEF Measure, Bytes, Proceed, FailBefore
  <2>3. freed' = 0
    BY <1>3 DEF Measure, Inv, Body
  <2> QED
    BY <1>1, <2>2, <2>3 DEF Bytes, FreedIsReal
<1>4. CASE Gate \/ Resolve \/ Barrier \/ ValidateSnapshot \/ ReadyForCommand \/ ReadyForRemoval
             \/ RunCommand \/ RemoveAll
  <2>1. /\ UNCHANGED << before, exact, actual, reclaimed, freed >>
        /\ pc \in {"gate", "resolve", "barrier", "snapshot", "ready", "run", "remove"}
        /\ pc = "gate" => pc' \in {"measure", "finish"}
    BY <1>4 DEF Gate, Resolve, Barrier, ValidateSnapshot, ReadyForCommand, ReadyForRemoval,
                RunCommand, RemoveAll, Refuse, FailBefore, Proceed, history, world
  <2>2. freed = 0
    BY <2>1 DEF Inv, Body
  <2> QED
    BY <1>1, <2>1, <2>2 DEF Bytes, FreedIsReal
<1>5. CASE TakeTarget \/ Finish \/ FinishUnit \/ Start \/ RemoveMembers
  <2>1. /\ actual' \in Nat /\ reclaimed' \in Nat
        /\ pc' \in {"next", "done", "active", "gate"}
    <3>1. ASSUME NEW r, NEW e, Settle(r, e) PROVE pc' \in {"next", "done"}
      BY <3>1 DEF Settle, Append, Return
    <3>2. CASE TakeTarget
      BY <3>1, <3>2 DEF TakeTarget, history, Bytes
    <3>3. CASE Finish
      BY <3>1, <3>3 DEF Finish, Forget
    <3>4. CASE FinishUnit
      <4>1. \E r, e : Settle(r, e)
        BY <3>4, Zenon DEF FinishUnit
      <4> QED
        BY <3>1, <3>4, <4>1 DEF FinishUnit, Forget
    <3>5. CASE Start \/ RemoveMembers
      BY <3>5 DEF Start, RemoveMembers, Return, history, Bytes
    <3> QED
      BY <1>5, <3>2, <3>3, <3>4, <3>5
  <2> QED
    BY <1>1, <2>1 DEF Bytes, FreedIsReal
<1>6. CASE World \/ UNCHANGED vars
  <2>1. UNCHANGED << pc, exact, before, actual, reclaimed, freed, cut >>
    BY <1>6 DEF World, Use, Replace, SaveScan, Cancel, Change, reclamation, history, vars
  <2> QED
    BY <1>1, <2>1 DEF Bytes, FreedIsReal
<1> QED
  BY <1>2, <1>3, <1>4, <1>5, <1>6 DEF Next, Executor, Stopped

(* The bytes a receipt claims really went, whenever the first walk was       *)
(* complete or the second was cut short (cleaner/reclamation.go:63-71).      *)
THEOREM FreedBytesReal == Spec => []FreedIsReal
<1>1. Init => Bytes
  BY BatchAssumption DEF Init, Bytes, FreedIsReal, Targets
<1>2. Bytes => FreedIsReal
  BY DEF Bytes
<1> QED
  BY <1>1, <1>2, BytesInv, LoopConsistent, PTL DEF Spec

(* A target that was spoiled when its reclamation began cannot get past the  *)
(* barrier: nothing turns it back into what was prepared.                    *)
Vetted ==
  /\ path \in [Targets -> {"planned", "other", "link", "gone"}]
  /\ idle \in [Targets -> BOOLEAN]
  /\ pc \in {"resolve", "barrier", "snapshot"} /\ t \in spoiled => ~SnapshotHolds
  /\ pc \in {"ready", "run", "remove"} => t \notin spoiled

LEMMA VettedInv == Inv /\ Vetted /\ [Next]_vars => Vetted'
<1> SUFFICES ASSUME Inv, Vetted, [Next]_vars PROVE Vetted'
    OBVIOUS
<1> USE DEF Vetted, SnapshotHolds
<1>t. t \in Targets /\ t' \in Targets
  BY NextInv DEF Inv, Typed
<1>1. ASSUME NEW k \in Targets, Use(k) PROVE Vetted'
  <2>1. idle' \in [Targets -> BOOLEAN] /\ (idle'[t] => idle[t])
    BY <1>1, <1>t DEF Use
  <2> QED
    BY <1>1, <1>t, <2>1 DEF Use, Change
<1>2. ASSUME NEW k \in Targets, NEW what \in {"other", "link", "gone"}, Replace(k, what)
      PROVE  Vetted'
  BY <1>2, <1>t DEF Replace, Change
<1>3. CASE SaveScan \/ Cancel \/ UNCHANGED vars
  BY <1>3 DEF SaveScan, Cancel, Change, world, history, vars
<1>4. CASE Measure
  BY <1>4, <1>t DEF Measure, world, Spoiled, Proceed, FailBefore
<1>5. CASE Gate \/ Resolve \/ Barrier \/ ValidateSnapshot
  BY <1>5 DEF Gate, Resolve, Barrier, ValidateSnapshot, world, history, Proceed, Refuse,
              FailBefore
<1>6. CASE ReadyForCommand \/ ReadyForRemoval
  <2>1. /\ UNCHANGED << path, idle, t >>
        /\ \/ pc' \in {"finish", "measure"}
           \/ pc = "ready" /\ UNCHANGED spoiled
    BY <1>6 DEF ReadyForCommand, ReadyForRemoval, world, history, Proceed, Refuse, FailBefore,
                FallBack
  <2> QED
    BY <2>1
<1>7. CASE RunCommand \/ RemoveAll \/ RemoveMembers
  <2>1. /\ idle' = idle /\ pc' \in {"residual", "finish", "active"}
        /\ path' = path \/ path' = [path EXCEPT ![t] = "gone"]
    BY <1>7 DEF RunCommand, RemoveAll, RemoveMembers, Refuse, FailBefore
  <2> QED
    BY <2>1, <1>t
<1>8. CASE MeasureResidual
  BY <1>8 DEF MeasureResidual, world
<1>9. CASE Start \/ TakeTarget \/ Finish \/ FinishUnit
  <2>1. UNCHANGED << path, idle >>
    BY <1>9 DEF Start, TakeTarget, Finish, FinishUnit
  <2>2. pc' \in {"next", "done", "active", "gate"}
    <3>1. ASSUME NEW r, NEW e, Settle(r, e) PROVE pc' \in {"next", "done"}
      BY <3>1 DEF Settle, Append, Return
    <3>2. FinishUnit => \E r, e : Settle(r, e)
      BY Zenon DEF FinishUnit
    <3> QED
      BY <1>9, <3>1, <3>2 DEF Start, Return, TakeTarget, Finish
  <2> QED
    BY <2>1, <2>2
<1> QED
  BY <1>1, <1>2, <1>3, <1>4, <1>5, <1>6, <1>7, <1>8, <1>9 DEF Next, World, Executor, Stopped

(* What is mutated was still the prepared target after its reclamation had   *)
(* begun, a missing command's fallback included                              *)
(* (cleaner/execute_helpers.go:149-158).                                     *)
THEOREM VettedMutations == Spec => VettedBeforeMutation
<1>1. Init => Vetted
  BY DEF Init, Vetted, SnapshotHolds
<1>2. Vetted => (pc \in {"run", "remove"} /\ t \in acted' \ acted => t \notin spoiled)
  BY DEF Vetted
<1> QED
  BY <1>1, <1>2, VettedInv, LoopConsistent, PTL DEF Spec, VettedBeforeMutation

(* The receipts are complete when the batch returns.                         *)
Complete ==
  /\ pc = "start" => receipt = [k \in Targets |-> Pending]
  /\ EveryTargetSettled

LEMMA CompleteInv == Inv /\ Complete /\ [Next]_vars => Complete'
<1> SUFFICES ASSUME Inv, Complete, [Next]_vars PROVE Complete'
    OBVIOUS
<1> USE DEF Complete, EveryTargetSettled
<1>1. ASSUME pc # "done", NEW r \in Receipt, NEW e, Agrees(r), Settle(r, e)
      PROVE  Complete'
  <2>1. Settled(r, e).state # "pending"
    BY <1>1, SettledType DEF Agrees, Settlements
  <2>2. Cancelled.state # "pending"
    BY DEF Cancelled, Pending
  <2>3. receipt' = [k \in Targets |->
                      IF k = t THEN Settled(r, e)
                      ELSE IF k > t /\ e = "canceled" THEN Cancelled ELSE receipt[k]]
    BY <1>1 DEF Settle, Append
  <2>4. pc' = "next" \/ (pc' = "done" /\ (e = "canceled" \/ t = N))
    BY <1>1 DEF Settle, Append, Return
  <2>5. \A k \in Targets : k < t => receipt[k].state # "pending"
    BY <1>1 DEF Inv, Loop
  <2>6. ASSUME pc' = "done", NEW k \in Targets PROVE receipt'[k].state # "pending"
    <3>1. k < t \/ k = t \/ (k > t /\ e = "canceled")
      BY <2>4, <2>6, BatchAssumption DEF Targets, Inv, Typed
    <3> QED
      BY <2>1, <2>2, <2>3, <2>5, <3>1, BatchAssumption DEF Targets, Inv, Typed
  <2> QED
    BY <2>4, <2>6
<1>2. CASE TakeTarget
  BY <1>1, <1>2, TakeTargetSettles DEF TakeTarget, Enters
<1>3. CASE Finish
  BY <1>1, <1>3, FinishSettles DEF Finish
<1>4. CASE FinishUnit
  BY <1>1, <1>4, FinishUnitSettles DEF FinishUnit
<1>5. CASE Start
  <2>1. receipt' = [k \in Targets |-> Pending] /\ pc' \in {"next", "done"}
    BY <1>5 DEF Start, Return
  <2> QED
    BY <2>1
<1>6. CASE World \/ Stopped \/ UNCHANGED vars
  BY <1>6 DEF World, Use, Replace, SaveScan, Cancel, Change, Stopped, vars
<1>7. CASE Gate \/ Measure \/ Resolve \/ Barrier \/ ValidateSnapshot \/ ReadyForCommand
             \/ ReadyForRemoval \/ RunCommand \/ RemoveAll \/ MeasureResidual \/ RemoveMembers
  <2>1. pc' \notin {"start", "done"}
    BY <1>7 DEF Gate, Measure, Resolve, Barrier, ValidateSnapshot, ReadyForCommand,
                ReadyForRemoval, RunCommand, RemoveAll, MeasureResidual, RemoveMembers,
                Proceed, Refuse, FailBefore, FallBack
  <2> QED
    BY <2>1
<1> QED
  BY <1>2, <1>3, <1>4, <1>5, <1>6, <1>7 DEF Next, Executor

(* A batch that returns leaves no target without a receipt, unless it never  *)
(* started for want of distinct keys (executor/orchestration.go:173-179).    *)
THEOREM AllTargetsSettled == Spec => []EveryTargetSettled
<1>1. Init => Complete
  BY DEF Init, Complete, EveryTargetSettled
<1>2. Complete => EveryTargetSettled
  BY DEF Complete
<1> QED
  BY <1>1, <1>2, CompleteInv, LoopConsistent, PTL DEF Spec

-----------------------------------------------------------------------------
(* Types.                                                                    *)

LEMMA SettleType ==
  ASSUME TypeOK, NEW r, NEW e, Settle(r, e), Forget,
         UNCHANGED << target, path, size, idle, cancelled, events, acted >>,
         r \in [state : Settlements, physical : BOOLEAN, attempted : BOOLEAN, freed : Size]
  PROVE  TypeOK'
<1> USE BatchAssumption DEF Targets
<1> DEFINE R == [state : {"pending", "removed", "partial", "failed", "cancelled"},
                 physical : BOOLEAN, attempted : BOOLEAN, freed : Size]
<1>1. 0 \in Size
  BY DEF Size
<1>2. Settled(r, e) \in R /\ Cancelled \in R
  BY <1>1 DEF Settled, Cancelled, Pending, Settlements
<1>3. receipt' = [k \in Targets |->
                    IF k = t THEN Settled(r, e)
                    ELSE IF k > t /\ e = "canceled" THEN Cancelled ELSE receipt[k]]
  BY DEF Settle, Append
<1>4. receipt' \in [Targets -> R]
  BY <1>2, <1>3 DEF TypeOK
<1>5. /\ pc' \in {"done", "next"} /\ t' \in Targets
      /\ saved' \in {"none", "fresh", "stale"}
  BY DEF Settle, Append, Return, TypeOK
<1>6. exact' \in BOOLEAN /\ fallback' \in BOOLEAN /\ attempted' \in BOOLEAN /\ cut' \in BOOLEAN
  BY Zenon DEF Forget
<1> QED
  BY <1>1, <1>4, <1>5, <1>6 DEF Forget, TypeOK

LEMMA TypeInv == Inv /\ TypeOK /\ [Next]_vars => TypeOK'
<1> SUFFICES ASSUME Inv, TypeOK, [Next]_vars PROVE TypeOK'
    OBVIOUS
<1> USE BatchAssumption DEF Targets
<1>0. Size \subseteq Nat /\ 0 \in Size /\ \A s \in Size : 0 .. s \subseteq Size
  BY DEF Size
<1>1. CASE World \/ UNCHANGED vars
  <2>1. ASSUME NEW k \in Targets, Use(k) PROVE TypeOK'
    <3>1. size' \in [Targets -> Size] /\ idle' \in [Targets -> BOOLEAN] /\ events' \in Nat
      BY <2>1 DEF Use, Change, TypeOK
    <3> QED
      BY <2>1, <3>1 DEF Use, Change, reclamation, TypeOK
  <2>2. ASSUME NEW k \in Targets, NEW what \in {"other", "link", "gone"}, Replace(k, what)
        PROVE  TypeOK'
    <3>1. /\ size' \in [Targets -> Size] /\ events' \in Nat
          /\ path' \in [Targets -> {"planned", "other", "link", "gone"}]
      BY <2>2 DEF Replace, Change, TypeOK
    <3> QED
      BY <2>2, <3>1 DEF Replace, Change, reclamation, TypeOK
  <2>3. CASE SaveScan
    BY <2>3 DEF SaveScan, Change, reclamation, TypeOK
  <2>4. CASE Cancel
    <3>1. cancelled' \in BOOLEAN
      BY <2>4, Zenon DEF Cancel
    <3> QED
      BY <2>4, <3>1 DEF Cancel, reclamation, history, TypeOK
  <2>5. CASE UNCHANGED vars
    BY <2>5 DEF vars, world, reclamation, history, TypeOK
  <2> QED
    BY <1>1, <2>1, <2>2, <2>3, <2>4, <2>5 DEF World
<1>2. CASE Start
  BY <1>2 DEF Start, Return, reclamation, history, TypeOK
<1>3. CASE TakeTarget
  <2>1. CASE cancelled \/ ~target[t].prepared
    <3> DEFINE r == [Pending EXCEPT !.state = "failed"]
    <3>1. PICK e \in {"error", "canceled"} : Settle(r, e)
      BY <1>3, <2>1 DEF TakeTarget
    <3>2. r \in [state : Settlements, physical : BOOLEAN, attempted : BOOLEAN, freed : Size]
      BY <1>0 DEF Pending, Settlements
    <3>3. UNCHANGED << target, path, size, idle, cancelled, events, reclamation, history >>
      BY <1>3 DEF TakeTarget
    <3>4. /\ pc' \in {"done", "next"} /\ t' \in Targets
          /\ saved' \in {"none", "fresh", "stale"}
      BY <3>1 DEF Settle, Append, Return, TypeOK
    <3>5. receipt' \in [Targets -> [state : {"pending", "removed", "partial", "failed",
                                             "cancelled"},
                                    physical : BOOLEAN, attempted : BOOLEAN, freed : Size]]
      BY <1>0, <3>1, <3>2 DEF Settle, Append, Settled, Cancelled, Pending, Settlements, TypeOK
    <3> QED
      BY <3>3, <3>4, <3>5 DEF reclamation, history, TypeOK
  <2>2. CASE ~(cancelled \/ ~target[t].prepared)
    BY <1>3, <2>2 DEF TakeTarget, reclamation, history, TypeOK
  <2> QED
    BY <2>1, <2>2
<1>4. CASE Gate \/ Resolve \/ Barrier \/ ValidateSnapshot
  <2>1. /\ pc' \in {"measure", "snapshot", "barrier", "ready", "finish"}
        /\ err' \in {"none", "error", "canceled"}
        /\ lookup' \in {"found", "missing"}
    BY <1>4 DEF Gate, Resolve, Barrier, ValidateSnapshot, Proceed, Refuse, FailBefore, Join,
                TypeOK
  <2>2. UNCHANGED << target, world, t, before, exact, fallback, attempted, freed, receipt,
                     history >>
    BY <1>4 DEF Gate, Resolve, Barrier, ValidateSnapshot
  <2> QED
    BY <2>1, <2>2 DEF world, history, TypeOK
<1>5. CASE Measure
  <2>1. size[t] \in Size
    BY DEF TypeOK
  <2>2. before' \in Size /\ exact' \in BOOLEAN /\ actual' \in Size
    BY <1>0, <1>5, <2>1 DEF Measure, TypeOK
  <2>3. Spoiled \subseteq Targets
    BY DEF Spoiled
  <2> QED
    BY <1>5, <2>2, <2>3 DEF Measure, Proceed, FailBefore, world, TypeOK
<1>6. CASE ReadyForCommand \/ ReadyForRemoval
  <2>1. fallback' \in BOOLEAN
    <3>1. fallback' = fallback \/ fallback' = TRUE
      BY <1>6 DEF ReadyForCommand, ReadyForRemoval, FallBack
    <3> QED
      BY <3>1 DEF TypeOK
  <2>2. spoiled' \subseteq Targets
    BY <1>6 DEF ReadyForCommand, ReadyForRemoval, Spoiled, history, TypeOK
  <2>3. /\ pc' \in {"finish", "run", "measure", "remove"}
        /\ err' \in {"none", "error", "canceled"}
    BY <1>6 DEF ReadyForCommand, ReadyForRemoval, Proceed, Refuse, FailBefore, Join, FallBack,
                TypeOK
  <2>4. UNCHANGED << target, world, t, before, exact, lookup, attempted, freed, receipt, acted,
                     actual, reclaimed, cut >>
    BY <1>6 DEF ReadyForCommand, ReadyForRemoval, history
  <2> QED
    BY <2>1, <2>2, <2>3, <2>4 DEF world, TypeOK
<1>7. CASE RunCommand \/ RemoveAll \/ RemoveMembers
  <2>1. (pc \in {"active", "residual", "finish"} /\ t \in Targets /\ attempted \in BOOLEAN
           /\ err \in {"none", "error", "canceled"} /\ acted \subseteq Targets)'
    <3>1. pc' \in {"active", "residual", "finish"}
      BY <1>7 DEF RunCommand, RemoveAll, RemoveMembers, Refuse, FailBefore
    <3> QED
      BY <3>1, NextInv DEF Inv, Typed, Targets
  <2>2. size' \in [Targets -> Size]
    <3>1. size[t] \in Size
      BY DEF TypeOK
    <3>2. \/ size' = size
          \/ \E left \in 0 .. size[t] : size' = [size EXCEPT ![t] = left]
      <4>1. 0 \in 0 .. size[t]
        BY <3>1 DEF Size
      <4> QED
        BY <1>7, <4>1 DEF RunCommand, RemoveAll, RemoveMembers, Take
    <3> QED
      BY <1>0, <3>1, <3>2 DEF TypeOK
  <2>3. path' = path \/ path' = [path EXCEPT ![t] = "gone"]
    BY <1>7 DEF RunCommand, RemoveAll, RemoveMembers
  <2>4. saved' \in {"none", "fresh", "stale"}
    BY <1>7 DEF RunCommand, RemoveAll, RemoveMembers, Take, TypeOK
  <2>5. UNCHANGED << target, idle, cancelled, events, before, exact, fallback, lookup, freed,
                     receipt, spoiled, actual, reclaimed, cut >>
    BY <1>7 DEF RunCommand, RemoveAll, RemoveMembers
  <2> QED
    BY <2>1, <2>2, <2>3, <2>4, <2>5 DEF TypeOK
<1>8. CASE MeasureResidual
  <2>1. PICK complete \in BOOLEAN, interrupted \in BOOLEAN :
          /\ \E after \in (IF complete THEN {size[t]} ELSE 0 .. size[t]) :
               freed' = Reclaimed(after, complete, interrupted)
          /\ cut' = interrupted
    BY <1>8, Zenon DEF MeasureResidual
  <2>2. size[t] \in Size /\ before \in Size /\ actual \in Size
    BY DEF TypeOK
  <2>3. ASSUME NEW after \in Size PROVE Reclaimed(after, complete, interrupted) \in Size
    BY <2>2 DEF Reclaimed, Size
  <2>4. freed' \in Size
    BY <1>0, <2>1, <2>2, <2>3
  <2>5. reclaimed' \in Size
    BY <1>8, <2>2 DEF MeasureResidual, Size
  <2> QED
    BY <1>8, <2>1, <2>4, <2>5 DEF MeasureResidual, world, TypeOK
<1>9. CASE Finish
  <2>1. State \in Settlements /\ OwnerGone \in BOOLEAN
    BY DEF State, Settlements, OwnerGone, TypeOK
  <2> DEFINE raw == err = "none" /\ Kind # "command" /\ ~OwnerGone
             e == IF raw THEN "error" ELSE err
             f == IF raw /\ path[t] = "gone" THEN 0 ELSE freed
             r == [state |-> State, physical |-> OwnerGone, attempted |-> attempted,
                   freed |-> f]
  <2>2. f \in Size /\ attempted \in BOOLEAN
    BY <1>0 DEF TypeOK
  <2>3. r \in [state : Settlements, physical : BOOLEAN, attempted : BOOLEAN, freed : Size]
    BY <2>1, <2>2
  <2>4. Settle(r, e)
    BY <1>9 DEF Finish
  <2> QED
    BY <1>9, <2>3, <2>4, SettleType DEF Finish
<1>10. CASE FinishUnit
  <2>1. PICK e \in {"none", "error"} \cup (IF cancelled THEN {"canceled"} ELSE {}),
             members \in BOOLEAN :
          Settle([state |-> IF e = "none" THEN "removed"
                            ELSE IF attempted /\ (members \/ OwnerGone)
                                 THEN "partial" ELSE "failed",
                  physical |-> OwnerGone, attempted |-> attempted,
                  freed |-> IF attempted /\ OwnerGone THEN MaxSize ELSE 0], e)
    BY <1>10, Zenon DEF FinishUnit
  <2> DEFINE s == IF e = "none" THEN "removed"
                  ELSE IF attempted /\ (members \/ OwnerGone) THEN "partial" ELSE "failed"
             f == IF attempted /\ OwnerGone THEN MaxSize ELSE 0
             r == [state |-> s, physical |-> OwnerGone, attempted |-> attempted, freed |-> f]
  <2>2. /\ s \in Settlements /\ OwnerGone \in BOOLEAN /\ f \in Size
        /\ attempted \in BOOLEAN
    BY <1>0 DEF Settlements, OwnerGone, TypeOK, Size
  <2>3. r \in [state : Settlements, physical : BOOLEAN, attempted : BOOLEAN, freed : Size]
    BY <2>2
  <2> QED
    BY <1>10, <2>1, <2>3, SettleType DEF FinishUnit
<1> QED
  BY <1>1, <1>2, <1>3, <1>4, <1>5, <1>6, <1>7, <1>8, <1>9, <1>10 DEF Next, Executor, Stopped

(* Every variable keeps its type; in particular no measurement, and nothing  *)
(* reckoned from measurements, leaves the range of sizes                     *)
(* (cleaner/reclamation.go:19-73).                                           *)
THEOREM TypeCorrect == Spec => []TypeOK
<1>1. Init => TypeOK
  <2> SUFFICES ASSUME Init PROVE TypeOK
      OBVIOUS
  <2> USE BatchAssumption DEF Init, Targets
  <2>1. 0 \in Size /\ MaxSize \in Size
    BY DEF Size
  <2>2. cancelled \in BOOLEAN /\ exact \in BOOLEAN /\ fallback \in BOOLEAN
          /\ attempted \in BOOLEAN /\ cut \in BOOLEAN
    BY Zenon
  <2>3. receipt \in [Targets -> [state : {"pending", "removed", "partial", "failed",
                                          "cancelled"},
                                 physical : BOOLEAN, attempted : BOOLEAN, freed : Size]]
    BY <2>1 DEF Pending
  <2>4. idle \in [Targets -> BOOLEAN]
    BY Zenon
  <2>5. /\ pc = "start" /\ lookup = "found" /\ err = "none" /\ t \in Targets /\ events \in Nat
        /\ saved \in {"none", "fresh", "stale"} /\ target \in Plans
        /\ path \in [Targets -> {"planned", "other", "link", "gone"}]
        /\ size \in [Targets -> Size]
    BY <2>1
  <2>6. before \in Size /\ freed \in Size /\ actual \in Size /\ reclaimed \in Size
          /\ acted \subseteq Targets /\ spoiled \subseteq Targets
    BY <2>1
  <2> QED
    BY <2>2, <2>3, <2>4, <2>5, <2>6 DEF TypeOK
<1> QED
  BY <1>1, TypeInv, LoopConsistent, PTL DEF Spec
=============================================================================
