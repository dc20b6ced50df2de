---------------------------- MODULE BatchExecution ----------------------------
(****************************************************************************)
(* Execution of the confirmed targets of one cleanup:                        *)
(*                                                                           *)
(*   executor.ExecutePreparedTargets      the loop over the targets          *)
(*   executor.ExecutePathCleanupTarget    receipt of a path or a command     *)
(*   cleaner.executeWithContextOutput     gates, command, fallback, removal  *)
(*   cleaner.observeReclamation           measure, mutate, measure again     *)
(*   cleaner.CleanupTargetSnapshot        what the target was when prepared  *)
(*                                                                           *)
(* An active worktree target is one step of removals here, of which          *)
(* ActiveUnit has the details, and the overlap barrier is one decision, of   *)
(* which OverlapBarrier has.  Sizes are measured while others write.         *)
(****************************************************************************)
EXTENDS Naturals, FiniteSets

CONSTANTS N,          \* number of prepared targets
          Plans,      \* what the prepared targets may be
          MaxSize,    \* bound on the size of a target
          MaxEvents   \* bound on the changes the world makes during a batch

Targets == 1 .. N
Size == 0 .. MaxSize

(* "link": the selected path is a symbolic link to the physical owner.       *)
(* "leaf": a catalog cache, for which a link in its place is refused.        *)
AllKinds == {"path", "link", "leaf", "agent", "command", "active"}

(* A key tells targets apart; a target that could not be prepared has none   *)
(* of the evidence its execution needs.                                      *)
Prepared == [kind : AllKinds, prepared : BOOLEAN, key : Targets]

ASSUME BatchAssumption ==
  /\ N \in Nat \ {0}
  /\ Plans \subseteq [Targets -> Prepared]
  /\ MaxSize \in Nat \ {0}
  /\ MaxEvents \in Nat

-----------------------------------------------------------------------------
VARIABLES
  target,     \* the prepared targets; never changes
  (* the world *)
  path,       \* what stands at each target's path
  size,       \* bytes below it
  idle,       \* nothing its snapshot looks at has been touched: its own mtime,
              \* the tree below it if an age floor applies, its orphaned state
  cancelled,  \* the command's context is done
  saved,      \* last-scan snapshot on disk: none, fresh, or stale
  events,     \* changes made by the world so far
  (* the executor *)
  pc,         \* where it is
  t,          \* the target at hand
  before,     \* first measurement of this reclamation
  exact,      \* it was complete
  fallback,   \* the command is missing: remove the path instead
  lookup,     \* what the search for the command found
  attempted,  \* the receipt's MutationAttempted
  freed,      \* the receipt's FreedBytes
  err,        \* none, error, or canceled (an error that is context.Canceled)
  receipt,    \* receipts written so far
  (* history, read by properties only *)
  acted,      \* targets on which a mutation has been started
  spoiled,    \* what had changed or been used before this reclamation began
  actual,     \* bytes really there at the first measurement
  reclaimed,  \* bytes that really went between the two measurements
  cut         \* the second measurement was cut short

world == << path, size, idle, cancelled, saved, events >>
reclamation == << before, exact, fallback, lookup, attempted, freed, err >>
history == << acted, spoiled, actual, reclaimed, cut >>
vars == << target, world, pc, t, reclamation, receipt, history >>

-----------------------------------------------------------------------------
Pending == [state |-> "pending", physical |-> FALSE, attempted |-> FALSE, freed |-> 0]

Init ==
  /\ target \in Plans
  /\ path = [k \in Targets |-> "planned"]
  /\ size = [k \in Targets |-> MaxSize]
  /\ idle = [k \in Targets |-> TRUE]
  /\ cancelled = FALSE
  /\ saved \in {"none", "fresh"}
  /\ events = 0
  /\ pc = "start"
  /\ t = 1
  /\ before = 0 /\ exact = FALSE
  /\ fallback = FALSE /\ lookup = "found"
  /\ attempted = FALSE /\ freed = 0 /\ err = "none"
  /\ receipt = [k \in Targets |-> Pending]
  /\ acted = {} /\ spoiled = {}
  /\ actual = 0 /\ reclaimed = 0 /\ cut = FALSE

-----------------------------------------------------------------------------
(* What other programs and the user may do.  Nothing reads a target that is  *)
(* settled any more, so its changes are left out.                            *)

Running == pc # "done"

Change ==
  /\ Running /\ events < MaxEvents
  /\ events' = events + 1
  /\ UNCHANGED << target, cancelled, pc, t, reclamation, receipt, acted, spoiled, actual,
                  reclaimed, cut >>

(* A program uses the target: it may grow, and is no longer idle.            *)
Use(k) ==
  /\ Change
  /\ k >= t /\ path[k] # "gone"
  /\ idle' = [idle EXCEPT ![k] = FALSE]
  /\ \E s \in Size : s >= size[k] /\ size' = [size EXCEPT ![k] = s]
  /\ UNCHANGED << path, saved >>

(* The target is removed, or something else takes its place.                 *)
Replace(k, what) ==
  /\ Change
  /\ k >= t /\ path[k] # what
  /\ path' = [path EXCEPT ![k] = what]
  /\ \E s \in Size : (what = "gone" => s = 0) /\ size' = [size EXCEPT ![k] = s]
  /\ UNCHANGED << idle, saved >>

(* Another process finishes a scan and saves its snapshot.                   *)
SaveScan ==
  /\ Change
  /\ saved' = "fresh"
  /\ UNCHANGED << path, size, idle >>

Cancel ==
  /\ Running /\ ~cancelled
  /\ cancelled' = TRUE
  /\ UNCHANGED << target, path, size, idle, saved, events, pc, t, reclamation, receipt,
                  history >>

World ==
  \/ \E k \in Targets : Use(k) \/ \E what \in {"other", "link", "gone"} : Replace(k, what)
  \/ SaveScan \/ Cancel

-----------------------------------------------------------------------------
Kind == target[t].kind

(* Targets that are not what was prepared any more.                         *)
Spoiled == {k \in Targets : path[k] # "planned" \/ ~idle[k]}

(* The physical owner is gone.  The referent of a link stays when it goes.   *)
OwnerGone == Kind # "link" /\ path[t] = "gone"

(* ExecutePreparedTargets returns, and its deferred invalidation runs: the   *)
(* snapshot is removed, or kept if its removal fails, which nobody is told.  *)
Return == pc' = "done" /\ saved' \in {"none", saved}

Cancelled == [Pending EXCEPT !.state = "cancelled"]

(* A receipt is appended; an error that is a cancellation ends the batch.    *)

Append(r, e) ==
  /\ receipt' = [k \in Targets |->
                   IF k = t THEN r
                   ELSE IF k > t /\ e = "canceled" THEN Cancelled ELSE receipt[k]]
  /\ IF e = "canceled" \/ t = N THEN Return /\ UNCHANGED t
                                ELSE pc' = "next" /\ t' = t + 1 /\ UNCHANGED saved

\* mutant: whatever a cancellation ends is cancelled
SettledAsCancelled(r, e) ==
  IF e = "canceled" THEN [r EXCEPT !.state = "cancelled"] ELSE r

(* A failure for which nothing was attempted is itself a cancellation.       *)
Settled(r, e) ==
  IF e = "canceled" /\ ~r.attempted /\ r.state = "failed" /\ ~r.physical
  THEN [r EXCEPT !.state = "cancelled"] ELSE r

Settle(r, e) == Append(Settled(r, e), e)

(* What the loop's body keeps of a target goes out of scope with it.         *)
Forget ==
  /\ before' = 0 /\ exact' = FALSE /\ fallback' = FALSE /\ lookup' = "found"
  /\ attempted' = FALSE /\ freed' = 0 /\ err' = "none"
  /\ spoiled' = {} /\ actual' = 0 /\ reclaimed' = 0 /\ cut' = FALSE

(* Targets are told apart by their keys; without that there is no receipt.   *)
Start ==
  /\ pc = "start"
  /\ IF \E j, k \in Targets : j # k /\ target[j].key = target[k].key
     THEN Return
     ELSE pc' = "next" /\ UNCHANGED saved
  /\ UNCHANGED << target, path, size, idle, cancelled, events, t, reclamation, receipt, history >>

(* The loop's head.  What could not be prepared fails with an error that is  *)
(* never a cancellation, whatever kept it from being prepared.               *)
TakeTarget ==
  /\ pc = "next"
  /\ IF cancelled THEN Settle([Pending EXCEPT !.state = "failed"], "canceled")
     ELSE IF ~target[t].prepared THEN Settle([Pending EXCEPT !.state = "failed"], "error")
     ELSE /\ pc' = IF Kind = "active" THEN "active" ELSE "gate"
          /\ UNCHANGED << t, receipt, saved >>
  /\ UNCHANGED << target, path, size, idle, cancelled, events, reclamation, history >>

-----------------------------------------------------------------------------
(* One path, through executeWithContextOutput.                               *)

Proceed(place) == pc' = place /\ UNCHANGED err

FailBefore(e) == pc' = "finish" /\ err' = e

(* observeReclamation joins the error of what it runs with the context's.    *)
Join(e) == IF e = "error" /\ cancelled THEN "canceled" ELSE e

Refuse == FailBefore(Join("error"))

(* The context, the deletion gate, the recipe, and for agent state a fresh   *)
(* classification.                                                           *)
Gate ==
  /\ pc = "gate"
  /\ \/ ~cancelled /\ (Kind = "agent" => idle[t]) /\ Proceed("measure")
     \/ ~cancelled /\ FailBefore("error")
     \/ cancelled /\ FailBefore("canceled")
  /\ UNCHANGED << target, world, t, before, exact, fallback, lookup, attempted, freed,
                  receipt, history >>

(* observeReclamation: a walk that meets an error, or a cancellation, is a   *)
(* lower bound.                                                              *)
Measure ==
  /\ pc = "measure"
  /\ IF cancelled
     THEN FailBefore("canceled") /\ UNCHANGED << before, exact >>
     ELSE /\ \/ path[t] # "gone" /\ before' = size[t] /\ exact' = TRUE
             \/ before' \in 0 .. size[t] /\ exact' = FALSE
          /\ Proceed(IF Kind = "command" /\ ~fallback THEN "resolve" ELSE "barrier")
  /\ actual' = size[t]
  /\ spoiled' = Spoiled
  /\ UNCHANGED << target, world, t, fallback, lookup, attempted, freed, receipt, acted,
                  reclaimed, cut >>

(* The command's recipe is resolved again and its program looked up.         *)
Resolve ==
  /\ pc = "resolve"
  /\ \/ Refuse /\ UNCHANGED lookup
     \/ lookup' \in {"found", "missing"} /\ Proceed("barrier")
  /\ UNCHANGED << target, world, t, before, exact, fallback, attempted, freed, receipt,
                  history >>

(* runMutationBarrier: the overlap barrier, then the target's own snapshot.  *)
Barrier ==
  /\ pc = "barrier"
  /\ \/ ~cancelled /\ Proceed("snapshot")
     \/ Refuse
  /\ UNCHANGED << target, world, t, before, exact, fallback, lookup, attempted, freed,
                  receipt, history >>

SnapshotHolds == path[t] = "planned" /\ idle[t]

ValidateSnapshot ==
  /\ pc = "snapshot"
  /\ IF SnapshotHolds /\ ~cancelled THEN Proceed("ready") ELSE Refuse
  /\ UNCHANGED << target, world, t, before, exact, fallback, lookup, attempted, freed,
                  receipt, history >>

\* mutant: the removal starts without the gate and the barrier
FallBackToRemoval == pc' = "remove" /\ fallback' = TRUE /\ UNCHANGED err

\* mutant: the command is looked up again and again
FallBackForgotten == pc' = "measure" /\ UNCHANGED << fallback, err >>

(* Past the barrier: the recipe once more, the context, and then the command *)
(* or, when there is no such program, the removal, from the first measure on.*)
FallBack == pc' = "measure" /\ fallback' = TRUE /\ UNCHANGED err

ReadyForCommand ==
  /\ pc = "ready" /\ Kind = "command" /\ ~fallback
  /\ \/ Refuse /\ UNCHANGED << fallback, spoiled >>
     \/ ~cancelled /\ lookup = "found" /\ Proceed("run") /\ UNCHANGED << fallback, spoiled >>
     \/ ~cancelled /\ lookup = "missing" /\ FallBack /\ spoiled' = Spoiled
  /\ UNCHANGED << target, world, t, before, exact, lookup, attempted, freed, receipt, acted,
                  actual, reclaimed, cut >>

ReadyForRemoval ==
  /\ pc = "ready" /\ (Kind # "command" \/ fallback)
  /\ \/ (fallback \/ Kind = "leaf" \/ cancelled) /\ Refuse
     \/ /\ ~cancelled /\ (Kind = "leaf" => path[t] \notin {"link", "gone"})
        /\ Proceed("remove")
  /\ UNCHANGED << target, world, t, before, exact, fallback, lookup, attempted, freed, receipt,
                  history >>

(* An attempt may take all, some or none of the target; a snapshot of a scan *)
(* that is on disk now describes what was there before.                      *)
Take(left) ==
  /\ size' = [size EXCEPT ![t] = left]
  /\ saved' = IF saved = "none" THEN "none" ELSE "stale"
  /\ acted' = acted \cup {t}
  /\ attempted' = TRUE

(* The command's process; killed with the context.                           *)
RunCommand ==
  /\ pc = "run"
  /\ \/ /\ \E left \in 0 .. size[t] :
             /\ Take(left)
             /\ \/ UNCHANGED path
                \/ left = 0 /\ path' = [path EXCEPT ![t] = "gone"]
        /\ \E e \in {"none", "error"} : err' = Join(e)
        /\ pc' = "residual"
     \/ Refuse /\ UNCHANGED << path, size, saved, acted, attempted >>
  /\ UNCHANGED << target, idle, cancelled, events, t, before, exact, fallback, lookup, freed,
                  receipt, spoiled, actual, reclaimed, cut >>

(* safedelete.RemoveAll: its own check may still refuse, which the executor  *)
(* counts as an attempt.                                                     *)
RemoveAll ==
  /\ pc = "remove"
  /\ \/ /\ Take(0)
        /\ path' = [path EXCEPT ![t] = "gone"]
        /\ UNCHANGED err
     \/ /\ \E left \in 0 .. size[t] : Take(left)
        /\ UNCHANGED path
        /\ err' = Join("error")
  /\ pc' = "residual"
  /\ UNCHANGED << target, idle, cancelled, events, t, before, exact, fallback, lookup, freed,
                  receipt, spoiled, actual, reclaimed, cut >>

\* mutant: an incomplete walk counts like a complete one
ReclaimedAsRead(after, complete, interrupted) ==
  IF after > before THEN 0 ELSE before - after

(* What of the first measurement is missing from the second.  A walk that is *)
(* less complete than the first cannot show that anything went.              *)
Reclaimed(after, complete, interrupted) ==
  LET known == IF ~complete /\ after < before /\ (exact \/ interrupted) THEN before ELSE after
  IN  IF known > before THEN 0 ELSE before - known

MeasureResidual ==
  /\ pc = "residual"
  /\ \E complete, interrupted \in BOOLEAN :
       /\ interrupted => cancelled
       /\ path[t] = "gone" => complete
       /\ complete => ~interrupted
       /\ \E after \in (IF complete THEN {size[t]} ELSE 0 .. size[t]) :
            freed' = Reclaimed(after, complete, interrupted)
       /\ cut' = interrupted
  /\ reclaimed' = IF size[t] > actual THEN 0 ELSE actual - size[t]
  /\ pc' = "finish"
  /\ UNCHANGED << target, world, t, before, exact, fallback, lookup, attempted, err, receipt,
                  acted, spoiled, actual >>

(* ExecutePathCleanupTarget: the receipt follows what is left on disk.       *)
State ==
  IF err # "none"
  THEN IF attempted /\ (OwnerGone \/ freed > 0) THEN "partial" ELSE "failed"
  ELSE IF Kind # "command" /\ ~OwnerGone
  THEN IF freed > 0 /\ path[t] # "gone" THEN "partial" ELSE "failed"
  ELSE "removed"

Finish ==
  /\ pc = "finish"
  /\ LET raw == err = "none" /\ Kind # "command" /\ ~OwnerGone
         e == IF raw THEN "error" ELSE err
     IN  Settle([state |-> State, physical |-> OwnerGone, attempted |-> attempted,
                 freed |-> IF raw /\ path[t] = "gone" THEN 0 ELSE freed], e)
  /\ Forget
  /\ UNCHANGED << target, path, size, idle, cancelled, events, acted >>

-----------------------------------------------------------------------------
(* One active worktree unit, whose executor is ActiveUnit.                   *)

RemoveMembers ==
  /\ pc = "active"
  /\ ~attempted
  /\ \E left \in 0 .. size[t] :
       /\ Take(left)
       /\ \/ UNCHANGED path
          \/ left = 0 /\ path' = [path EXCEPT ![t] = "gone"]
  /\ UNCHANGED << target, idle, cancelled, events, pc, t, before, exact, fallback, lookup, freed,
                  err, receipt, spoiled, actual, reclaimed, cut >>

(* The unit's planned size is what it claims to have freed.                  *)
FinishUnit ==
  /\ pc = "active"
  /\ \E e \in {"none", "error"} \cup (IF cancelled THEN {"canceled"} ELSE {}),
        members \in BOOLEAN :
       /\ members => attempted
       /\ e = "none" => attempted /\ OwnerGone
       /\ Settle([state |-> IF e = "none" THEN "removed"
                            ELSE IF attempted /\ (members \/ OwnerGone)
                                 THEN "partial" ELSE "failed",
                  physical |-> OwnerGone, attempted |-> attempted,
                  freed |-> IF attempted /\ OwnerGone THEN MaxSize ELSE 0], e)
  /\ Forget
  /\ UNCHANGED << target, path, size, idle, cancelled, events, acted >>

Executor ==
  \/ Start \/ TakeTarget \/ Gate \/ Measure \/ Resolve \/ Barrier \/ ValidateSnapshot
  \/ ReadyForCommand \/ ReadyForRemoval \/ RunCommand \/ RemoveAll \/ MeasureResidual \/ Finish
  \/ RemoveMembers \/ FinishUnit

Stopped == ~Running /\ UNCHANGED vars

Next == World \/ Executor \/ Stopped

Spec == Init /\ [][Next]_vars

(* The executor is one goroutine and a command ends with its context or by   *)
(* itself: the executor's next step is never put off for ever.               *)
FairSpec == Spec /\ WF_vars(Executor)

-----------------------------------------------------------------------------
TypeOK ==
  /\ target \in Plans
  /\ path \in [Targets -> {"planned", "other", "link", "gone"}]
  /\ size \in [Targets -> Size]
  /\ idle \in [Targets -> BOOLEAN]
  /\ cancelled \in BOOLEAN
  /\ saved \in {"none", "fresh", "stale"}
  /\ events \in Nat
  /\ pc \in {"start", "next", "active", "gate", "measure", "resolve", "barrier", "snapshot",
             "ready", "run", "remove", "residual", "finish", "done"}
  /\ t \in Targets
  /\ before \in Size /\ exact \in BOOLEAN
  /\ fallback \in BOOLEAN /\ lookup \in {"found", "missing"}
  /\ attempted \in BOOLEAN /\ freed \in Size /\ err \in {"none", "error", "canceled"}
  /\ receipt \in [Targets -> [state : {"pending", "removed", "partial", "failed", "cancelled"},
                              physical : BOOLEAN, attempted : BOOLEAN, freed : Size]]
  /\ acted \subseteq Targets /\ spoiled \subseteq Targets
  /\ actual \in Size /\ reclaimed \in Size /\ cut \in BOOLEAN

(* The batch keeps the promises made of its receipts: in order, nothing      *)
(* called cancelled that was acted on, nothing acted on after a cancellation *)
(* (executor/orchestration.go:180-240).                                      *)
Receipts == INSTANCE CleanupReceipts
  WITH receipt <- [k \in Targets |-> receipt[k].state], attempted <- acted

KeepsReceipts == Receipts!Spec

(* A batch that returns has a receipt for every target, or for none when the *)
(* keys do not tell them apart (executor/orchestration.go:173-179).          *)
EveryTargetSettled ==
  pc = "done" => \/ \A k \in Targets : receipt[k].state # "pending"
                 \/ \A k \in Targets : receipt[k] = Pending

(* Bytes are claimed only if they went: a complete first walk, or one whose  *)
(* successor was cut short, never credits what an incomplete second walk     *)
(* merely failed to read (cleaner/reclamation.go:63-71).                     *)
FreedIsReal ==
  pc = "finish" /\ (exact \/ cut) => freed <= reclaimed

(* What is mutated was still the planned, idle target after the reclamation  *)
(* at hand began: a missing command's fallback does not rely on the check    *)
(* made before the command (cleaner/execute_helpers.go:149-158).             *)
VettedBeforeMutation ==
  [][(pc \in {"run", "remove"} /\ t \in acted' \ acted) => t \notin spoiled]_vars

(* The batch comes to an end, whatever happens around it.                    *)
BatchEnds == <>~Running
=============================================================================
