------------------------------ MODULE ActiveUnit ------------------------------
(****************************************************************************)
(* Removal of one prepared active-worktree cleanup unit:                     *)
(*                                                                           *)
(*   executor.ExecuteActiveWorktreeUnit       (internal/executor)            *)
(*     worktree.ExecutePreparedActiveWorktreeTarget                          *)
(*       worktree.ExecuteActiveWorktreeUnit                                  *)
(*         preflight, then per member: barrier, git worktree remove, verify, *)
(*         snapshot refresh; then barrier and removal of the container.      *)
(*                                                                           *)
(* A unit is one owner directory and the Git checkouts ("members") in it.    *)
(* The executor runs next to a user, coding agents and Git, none of which    *)
(* it can lock out: every read of the filesystem, of Git or of the session   *)
(* index is a step of its own here and the world may move between two of     *)
(* them.  What the world has done since the unit was prepared is recorded as *)
(* flags; each change happens at most once per member, and MaxEvents bounds  *)
(* how many changes there are in one run.                                    *)
(****************************************************************************)
EXTENDS Naturals, FiniteSets

CONSTANTS N,          \* number of members; they are removed in path order
          Attached,   \* members on a local branch (the others: detached HEAD)
          Leaf,       \* members two levels down, <owner>/<leaf>/<checkout>
          Direct,     \* the owner directory is itself the only checkout
          MaxEvents   \* bound on the changes the world makes during a run

Members == 1 .. N

ASSUME UnitAssumption ==
  /\ N \in Nat \ {0}
  /\ Attached \subseteq Members
  /\ Leaf \subseteq Members
  /\ Direct \in BOOLEAN
  /\ Direct => N = 1 /\ Leaf = {}
  /\ MaxEvents \in Nat

-----------------------------------------------------------------------------
(* The world: the owner directory, the checkouts, Git and the agents.        *)

VARIABLES
  owner,      \* what is at the owner path: the selected directory, another, none
  mtime,      \* modification time of the owner directory
  tree,       \* each member's working tree
  listed,     \* is the member in the repository's worktree list
  advanced,   \* has the member's HEAD moved since it was captured
  refHeld,    \* does a captured named ref still hold the captured commit
  dirty,      \* modified or untracked files in the member
  extra,      \* checkouts in the container that were never selected
  session,    \* has a session of the member advanced since the review
  orphaned,   \* do the overlap-safety obligations still hold
  gateOpen,   \* does safedelete.Check accept the unit's paths
  sources,    \* do Git queries and the session index answer
  cancelled,  \* the command's context is done
  events      \* changes made by the world so far

world == << owner, mtime, tree, listed, advanced, refHeld, dirty, extra,
            session, orphaned, gateOpen, sources, cancelled, events >>

(* The executor.                                                             *)

VARIABLES
  guided,     \* the target was prepared with an ActivityReview (guided route)
  pc,         \* where it is
  phase,      \* what the running barrier guards: the unit, a member, the container
  cur,        \* member being processed
  seen,       \* members whose Git evidence the preflight has refreshed
  drift,      \* the preflight has found a member error
  baseline,   \* owner mtime the target snapshot expects
  started,    \* UnitExecution.StartedMembers
  attempted,  \* UnitExecution.MutationAttempted
  removed,    \* MemberExecution.Removed of each member
  failure,    \* "none", "error", or "canceled" (the error chain holds Canceled)
  receipt     \* the unit's receipt, once written

exec == << guided, pc, phase, cur, seen, drift, baseline, started, attempted, removed,
           failure, receipt >>

(* History, read by properties only.                                         *)

VARIABLES
  destroyed,    \* what the executor's own mutations have damaged or deleted
  atPreflight,  \* the standing changes when the preflight began
  atBarrier     \* the standing changes when the running barrier began

history == << destroyed, atPreflight, atBarrier >>

vars == << world, exec, history >>

-----------------------------------------------------------------------------
Unselected == 0     \* stands in `destroyed` for whatever was never selected

States == {"removed", "partial", "failed", "cancelled"}

NoReceipt == [state |-> "pending", physical |-> FALSE, freed |-> FALSE]

(* The changes a careful reader would expect the executor to respect.        *)
Changes == [advanced : SUBSET Members, dirty : SUBSET Members, session : SUBSET Members,
            extra : SUBSET {"top", "nested"}, orphaned : BOOLEAN, selected : BOOLEAN]

Standing == [advanced |-> {m \in Members : advanced[m]},
             dirty    |-> {m \in Members : dirty[m]},
             session  |-> {m \in Members : session[m]},
             extra    |-> extra,
             orphaned |-> orphaned,
             selected |-> owner = "selected"]

Init ==
  /\ owner = "selected"
  /\ mtime = 0
  /\ tree = [m \in Members |-> "present"]
  /\ listed = [m \in Members |-> TRUE]
  /\ advanced = [m \in Members |-> FALSE]
  /\ refHeld = [m \in Members |-> TRUE]
  /\ dirty \in [Members -> BOOLEAN]
  /\ extra = {}
  /\ session = [m \in Members |-> FALSE]
  /\ orphaned = TRUE
  /\ gateOpen \in BOOLEAN
  /\ sources \in BOOLEAN
  /\ cancelled = FALSE
  /\ events = 0
  /\ guided \in BOOLEAN
  /\ pc = "preflight"
  /\ phase = "unit"
  /\ cur = 1
  /\ seen = {}
  /\ drift = FALSE
  /\ baseline = 0
  /\ started = FALSE
  /\ attempted = FALSE
  /\ removed = [m \in Members |-> FALSE]
  /\ failure = "none"
  /\ receipt = NoReceipt
  /\ destroyed = {}
  /\ atPreflight = Standing
  /\ atBarrier = Standing

-----------------------------------------------------------------------------
(* What the world may do, at any moment of the run.                          *)

Change == /\ events < MaxEvents /\ pc # "done"
          /\ events' = events + 1
          /\ UNCHANGED << exec, history, cancelled >>

(* A commit in a live checkout: an attached branch advances with it, and the *)
(* HEAD reflog gets a fresh entry.                                           *)
Commit(m) ==
  /\ Change
  /\ tree[m] = "present" /\ ~advanced[m]
  /\ advanced' = [advanced EXCEPT ![m] = TRUE]
  /\ UNCHANGED << owner, mtime, tree, listed, refHeld, dirty, extra, session,
                  orphaned, gateOpen, sources >>

(* An edit; in a direct unit it may add an entry to the owner directory.     *)
Edit(m) ==
  /\ Change
  /\ tree[m] = "present" /\ ~dirty[m]
  /\ dirty' = [dirty EXCEPT ![m] = TRUE]
  /\ mtime' \in IF Direct THEN {mtime, mtime + 1} ELSE {mtime}
  /\ UNCHANGED << owner, tree, listed, advanced, refHeld, extra, session,
                  orphaned, gateOpen, sources >>

(* The captured ref is deleted or rewritten.  Git refuses that for a branch  *)
(* that is checked out, so an attached branch goes only after its checkout.  *)
DropRef(m) ==
  /\ Change
  /\ refHeld[m]
  /\ m \in Attached => tree[m] = "gone"
  /\ refHeld' = [refHeld EXCEPT ![m] = FALSE]
  /\ UNCHANGED << owner, mtime, tree, listed, advanced, dirty, extra, session,
                  orphaned, gateOpen, sources >>

(* git worktree add inside the container: beside the members, which touches  *)
(* the owner directory, or inside an existing leaf, which does not.          *)
AddCheckout(where) ==
  /\ Change
  /\ ~Direct /\ owner = "selected" /\ where \notin extra
  /\ where = "nested" => Leaf # {}
  /\ extra' = extra \cup {where}
  /\ mtime' = IF where = "top" THEN mtime + 1 ELSE mtime
  /\ UNCHANGED << owner, tree, listed, advanced, refHeld, dirty, session,
                  orphaned, gateOpen, sources >>

ResumeSession(m) ==
  /\ Change
  /\ ~session[m]
  /\ session' = [session EXCEPT ![m] = TRUE]
  /\ UNCHANGED << owner, mtime, tree, listed, advanced, refHeld, dirty, extra,
                  orphaned, gateOpen, sources >>

(* An agent-state entry that overlaps the unit goes live again.              *)
ReviveState ==
  /\ Change
  /\ orphaned
  /\ orphaned' = FALSE
  /\ UNCHANGED << owner, mtime, tree, listed, advanced, refHeld, dirty, extra,
                  session, gateOpen, sources >>

(* Somebody else deletes the owner directory, or puts another in its place.  *)
LoseOwner ==
  /\ Change
  /\ owner = "selected"
  /\ owner' = "none"
  /\ tree' = [m \in Members |-> "gone"]
  /\ extra' = {}
  /\ UNCHANGED << mtime, listed, advanced, refHeld, dirty, session, orphaned,
                  gateOpen, sources >>

RecreateOwner ==
  /\ Change
  /\ owner = "none"
  /\ owner' = "replaced"
  /\ UNCHANGED << mtime, tree, listed, advanced, refHeld, dirty, extra, session,
                  orphaned, gateOpen, sources >>

(* A protected alias now resolves into the unit; a query or index goes dark. *)
CloseGate ==
  /\ Change
  /\ gateOpen
  /\ gateOpen' = FALSE
  /\ UNCHANGED << owner, mtime, tree, listed, advanced, refHeld, dirty, extra,
                  session, orphaned, sources >>

LoseSources ==
  /\ Change
  /\ sources
  /\ sources' = FALSE
  /\ UNCHANGED << owner, mtime, tree, listed, advanced, refHeld, dirty, extra,
                  session, orphaned, gateOpen >>

Cancel ==
  /\ ~cancelled /\ pc # "done"
  /\ cancelled' = TRUE
  /\ UNCHANGED << owner, mtime, tree, listed, advanced, refHeld, dirty, extra,
                  session, orphaned, gateOpen, sources, events, exec, history >>

World ==
  \/ \E m \in Members : Commit(m) \/ Edit(m) \/ DropRef(m) \/ ResumeSession(m)
  \/ \E where \in {"top", "nested"} : AddCheckout(where)
  \/ ReviveState \/ LoseOwner \/ RecreateOwner \/ CloseGate \/ LoseSources
  \/ Cancel

-----------------------------------------------------------------------------
(* Steps of the executor.  FailWith ends the unit; the receipt is read next. *)

FailWith(kind) ==
  /\ pc' = "failing"
  /\ failure' = kind

Goto(place) == pc' = place /\ UNCHANGED failure

\* mutant: HEAD is not compared with the captured one
EvidenceGoodAnyHead(m) ==
  sources /\ tree[m] = "present" /\ ~dirty[m] /\ (m \in Attached \/ refHeld[m])

(* Git evidence of a member is good: it resolves, the checkout is clean, and *)
(* its HEAD is the captured one and recoverable (on a branch, or reachable). *)
EvidenceGood(m) ==
  sources /\ tree[m] = "present" /\ ~dirty[m] /\ (m \in Attached \/ refHeld[m])
  /\ ~advanced[m]

(* PreflightActiveWorktreeUnit: context, path gate, then the member set from *)
(* directory structure.  A lost or unknown member is noted, not yet refused. *)
Preflight ==
  /\ pc = "preflight"
  /\ atPreflight' = Standing
  /\ IF cancelled THEN FailWith("canceled") /\ UNCHANGED drift
     ELSE IF ~gateOpen \/ owner = "none" THEN FailWith("error") /\ UNCHANGED drift
     ELSE /\ Goto("inspect")
          /\ drift' = (owner = "replaced" \/ extra # {}
                        \/ \E m \in Members : tree[m] # "present")
  /\ UNCHANGED << world, guided, phase, cur, seen, baseline, started, attempted, removed,
                  receipt, destroyed, atBarrier >>

(* buildGitWorktreeMembers: workers refresh the members in no fixed order.   *)
Inspect(m) ==
  /\ pc = "inspect" /\ m \notin seen
  /\ seen' = seen \cup {m}
  /\ drift' = (drift \/ ~EvidenceGood(m))
  /\ UNCHANGED << world, guided, pc, phase, cur, baseline, started, attempted, removed,
                  failure, receipt, history >>

(* All members are compared before any is touched.                           *)
Compare ==
  /\ pc = "inspect" /\ seen = Members
  /\ IF cancelled THEN FailWith("canceled")
     ELSE IF drift \/ ~gateOpen THEN FailWith("error")
     ELSE Goto("overlap")
  /\ UNCHANGED << world, guided, phase, cur, seen, drift, baseline, started, attempted,
                  removed, receipt, history >>

(* The barrier, BeforeMutation: overlap safety, then the target snapshot,    *)
(* then, on the guided route, session and reflog activity.                   *)
BarrierOverlap ==
  /\ pc = "overlap"
  /\ atBarrier' = Standing
  /\ IF cancelled THEN FailWith("canceled")
     ELSE IF ~orphaned THEN FailWith("error")
     ELSE Goto("snapshot")
  /\ UNCHANGED << world, guided, phase, cur, seen, drift, baseline, started, attempted,
                  removed, receipt, destroyed, atPreflight >>

SnapshotHolds == owner = "selected" /\ mtime = baseline

(* The first barrier guards the unit as a whole; the member loop then runs   *)
(* it again, at once, for its first member.                                  *)
BarrierPassed ==
  IF phase = "unit"
  THEN /\ Goto("overlap")
       /\ phase' = "member"
       /\ started' = TRUE
  ELSE /\ Goto("mutate")
       /\ UNCHANGED << phase, started >>

(* Snapshot errors, a done context included, lose their chain (%v).          *)
BarrierSnapshot ==
  /\ pc = "snapshot"
  /\ IF cancelled \/ ~SnapshotHolds
     THEN FailWith("error") /\ UNCHANGED << phase, started >>
     ELSE IF guided THEN Goto("activity") /\ UNCHANGED << phase, started >>
     ELSE BarrierPassed
  /\ UNCHANGED << world, guided, cur, seen, drift, baseline, attempted, removed, receipt,
                  history >>

\* mutant: only the member at hand is asked about
ActivityHoldsCurrentOnly ==
  sources /\ ~session[cur] /\ ~(tree[cur] = "present" /\ advanced[cur])

(* ActivityReview.Validate: no session of any reviewed member is newer than  *)
(* the review, and no reflog entry is recent.                                *)
ActivityHolds ==
  sources /\ \A m \in Members : ~session[m] /\ ~(tree[m] = "present" /\ advanced[m])

BarrierActivity ==
  /\ pc = "activity"
  /\ IF cancelled THEN FailWith("canceled") /\ UNCHANGED << phase, started >>
     ELSE IF ~ActivityHolds THEN FailWith("error") /\ UNCHANGED << phase, started >>
     ELSE BarrierPassed
  /\ UNCHANGED << world, guided, cur, seen, drift, baseline, attempted, removed, receipt,
                  history >>

(* Last look at the context, then the mutation counts as attempted and the   *)
(* removal route checks the path gate once more.                             *)
Attempt ==
  /\ pc = "mutate"
  /\ IF cancelled
     THEN FailWith("canceled") /\ UNCHANGED attempted
     ELSE /\ attempted' = TRUE
          /\ IF phase = "member" THEN Goto(IF gateOpen THEN "git" ELSE "verifyFailed")
             ELSE IF gateOpen THEN Goto("rmtree")
             ELSE FailWith("error")
  /\ UNCHANGED << world, guided, phase, cur, seen, drift, baseline, started, removed,
                  receipt, history >>

-----------------------------------------------------------------------------
(* git worktree remove, without --force: refuses a checkout with changes,    *)
(* deletes the working tree and then its metadata, and can be killed or fail *)
(* with part of that done.                                                   *)

GitRefuses ==
  /\ pc = "git"
  /\ Goto("verifyFailed")
  /\ UNCHANGED << world, guided, phase, cur, seen, drift, baseline, started, attempted,
                  removed, receipt, history >>

(* The world after Git has worked on member m and left its tree in `state`.  *)
GitLeaves(m, state) ==
  /\ tree' = [tree EXCEPT ![m] = state]
  /\ owner' = IF Direct /\ state = "gone" /\ owner = "selected" THEN "none" ELSE owner
  /\ mtime' = IF state = "gone" /\ tree[m] # "gone" /\ owner = "selected" /\ m \notin Leaf
              THEN mtime + 1 ELSE mtime
  /\ destroyed' = IF state = tree[m] THEN destroyed ELSE destroyed \cup {m}

GitRemoves ==
  /\ pc = "git" /\ (~dirty[cur] \/ tree[cur] = "gone")
  /\ GitLeaves(cur, "gone")
  /\ listed' = [listed EXCEPT ![cur] = FALSE]
  /\ Goto("verify")
  /\ UNCHANGED << advanced, refHeld, dirty, extra, session, orphaned, gateOpen,
                  sources, cancelled, events, guided, phase, cur, seen, drift, baseline,
                  started, attempted, removed, receipt, atPreflight, atBarrier >>

GitFailsMidway ==
  /\ pc = "git" /\ ~dirty[cur] /\ tree[cur] = "present"
  /\ \E state \in {"partial", "gone"} : GitLeaves(cur, state)
  /\ \E kept \in BOOLEAN : listed' = [listed EXCEPT ![cur] = kept]
  /\ Goto("verifyFailed")
  /\ UNCHANGED << advanced, refHeld, dirty, extra, session, orphaned, gateOpen,
                  sources, cancelled, events, guided, phase, cur, seen, drift, baseline,
                  started, attempted, removed, receipt, atPreflight, atBarrier >>

-----------------------------------------------------------------------------
(* VerifyRemovedWorktreeMember: its first result, then its error.  When Git  *)
(* cannot be asked, the path alone decides the first.                        *)
VerifiedRemoved(m) ==
  tree[m] = "gone" /\ (cancelled \/ ~sources \/ ~listed[m])

\* mutant: the captured commit is kept, wherever the branch is
PreservedCommitAnyTip(m) == refHeld[m]

PreservedCommit(m) == refHeld[m] /\ (m \in Attached => ~advanced[m])

\* mutant: what Git could not remove is left behind and the unit goes on
GoOnAfterFailure == Goto("after")

(* A member Git could not remove ends the unit, however far Git came.        *)
GiveUpMember == FailWith("error")

VerifyAfterFailure ==
  /\ pc = "verifyFailed"
  /\ removed' = [removed EXCEPT ![cur] = VerifiedRemoved(cur)]
  /\ GiveUpMember
  /\ UNCHANGED << world, guided, phase, cur, seen, drift, baseline, started, attempted,
                  receipt, history >>

Verify ==
  /\ pc = "verify"
  /\ removed' = [removed EXCEPT ![cur] = VerifiedRemoved(cur)]
  /\ IF /\ ~cancelled /\ sources /\ VerifiedRemoved(cur)
        /\ PreservedCommit(cur)
     THEN Goto("after")
     ELSE FailWith("error")
  /\ UNCHANGED << world, guided, phase, cur, seen, drift, baseline, started, attempted,
                  receipt, history >>

(* RefreshAfterMutation: same owner, new mtime baseline.  A removed owner is *)
(* fine after the last member only.                                          *)

NextMember ==
  IF cur < N
  THEN cur' = cur + 1 /\ Goto("overlap")
  ELSE UNCHANGED cur /\ Goto("ownerCheck")

RefreshSnapshot ==
  /\ pc = "after"
  /\ CASE owner = "selected" -> NextMember /\ baseline' = mtime
       [] owner = "none" /\ cur = N -> NextMember /\ UNCHANGED baseline
       [] OTHER -> FailWith("error") /\ UNCHANGED << cur, baseline >>
  /\ UNCHANGED << world, guided, phase, seen, drift, started, attempted, removed, receipt,
                  history >>

CheckOwner ==
  /\ pc = "ownerCheck"
  /\ IF owner = "none"
     THEN Goto("finalCheck") /\ UNCHANGED phase
     ELSE Goto("overlap") /\ phase' = "container"
  /\ UNCHANGED << world, guided, cur, seen, drift, baseline, started, attempted, removed,
                  receipt, history >>

(* os.RemoveAll on the container: everything in it, or part of it.           *)
DestroyContainer ==
  destroyed' = destroyed \cup {m \in Members : tree[m] # "gone"}
                 \cup (IF extra # {} \/ owner = "replaced" THEN {Unselected} ELSE {})

RemoveContainer ==
  /\ pc = "rmtree"
  /\ owner # "none"
  /\ owner' = "none"
  /\ tree' = [m \in Members |-> "gone"]
  /\ extra' = {}
  /\ DestroyContainer
  /\ Goto("finalCheck")
  /\ UNCHANGED << mtime, listed, advanced, refHeld, dirty, session, orphaned,
                  gateOpen, sources, cancelled, events, guided, phase, cur, seen, drift,
                  baseline, started, attempted, removed, receipt, atPreflight,
                  atBarrier >>

RemoveContainerFails ==
  /\ pc = "rmtree"
  /\ owner # "none"
  /\ \/ DestroyContainer /\ extra' = {} /\ mtime' = mtime + 1
     \/ UNCHANGED << destroyed, extra, mtime >>
  /\ FailWith("error")
  /\ UNCHANGED << owner, tree, listed, advanced, refHeld, dirty, session, orphaned,
                  gateOpen, sources, cancelled, events, guided, phase, cur, seen, drift,
                  baseline, started, attempted, removed, receipt, atPreflight,
                  atBarrier >>

(* A container that is gone by now needs no removal.                         *)
RemoveMissingContainer ==
  /\ pc = "rmtree" /\ owner = "none"
  /\ Goto("finalCheck")
  /\ UNCHANGED << world, guided, phase, cur, seen, drift, baseline, started, attempted,
                  removed, receipt, history >>

FinalCheck ==
  /\ pc = "finalCheck"
  /\ IF owner = "none" THEN Goto("succeeded") ELSE FailWith("error")
  /\ UNCHANGED << world, guided, phase, cur, seen, drift, baseline, started, attempted,
                  removed, receipt, history >>

-----------------------------------------------------------------------------
(* The unit's receipt.  A failed run looks at the owner path once more.      *)

MemberGone == \E m \in Members : removed[m]
OwnerGone == started /\ owner = "none"

FailedState ==
  IF MemberGone \/ (OwnerGone /\ attempted) THEN "partial"
  ELSE IF failure = "canceled" /\ ~attempted /\ ~OwnerGone THEN "cancelled"
  ELSE "failed"

WriteFailure ==
  /\ pc = "failing"
  /\ receipt' = [state |-> FailedState, physical |-> OwnerGone,
                 freed |-> OwnerGone /\ attempted]
  /\ pc' = "done"
  /\ UNCHANGED << world, guided, phase, cur, seen, drift, baseline, started, attempted,
                  removed, failure, history >>

WriteSuccess ==
  /\ pc = "succeeded"
  /\ receipt' = [state |-> "removed", physical |-> TRUE, freed |-> TRUE]
  /\ pc' = "done"
  /\ UNCHANGED << world, guided, phase, cur, seen, drift, baseline, started, attempted,
                  removed, failure, history >>

Executor ==
  \/ Preflight \/ Compare
  \/ \E m \in Members : Inspect(m)
  \/ BarrierOverlap \/ BarrierSnapshot \/ BarrierActivity
  \/ Attempt
  \/ GitRefuses \/ GitRemoves \/ GitFailsMidway
  \/ VerifyAfterFailure \/ Verify \/ RefreshSnapshot
  \/ CheckOwner \/ RemoveContainer \/ RemoveContainerFails \/ RemoveMissingContainer
  \/ FinalCheck \/ WriteFailure \/ WriteSuccess

Finished == pc = "done" /\ UNCHANGED vars

Next == World \/ Executor \/ Finished

Spec == Init /\ [][Next]_vars

-----------------------------------------------------------------------------
TypeOK ==
  /\ owner \in {"selected", "replaced", "none"}
  /\ mtime \in Nat
  /\ tree \in [Members -> {"present", "partial", "gone"}]
  /\ listed \in [Members -> BOOLEAN]
  /\ advanced \in [Members -> BOOLEAN]
  /\ refHeld \in [Members -> BOOLEAN]
  /\ dirty \in [Members -> BOOLEAN]
  /\ extra \subseteq {"top", "nested"}
  /\ session \in [Members -> BOOLEAN]
  /\ orphaned \in BOOLEAN /\ gateOpen \in BOOLEAN
  /\ sources \in BOOLEAN /\ cancelled \in BOOLEAN
  /\ events \in 0 .. MaxEvents
  /\ guided \in BOOLEAN
  /\ pc \in {"preflight", "inspect", "overlap", "snapshot", "activity", "mutate",
             "git", "verifyFailed", "verify", "after", "ownerCheck", "rmtree",
             "finalCheck", "failing", "succeeded", "done"}
  /\ phase \in {"unit", "member", "container"}
  /\ cur \in Members
  /\ seen \subseteq Members
  /\ drift \in BOOLEAN
  /\ baseline \in Nat
  /\ started \in BOOLEAN /\ attempted \in BOOLEAN
  /\ removed \in [Members -> BOOLEAN]
  /\ failure \in {"none", "error", "canceled"}
  /\ receipt \in [state : States \cup {"pending"}, physical : BOOLEAN, freed : BOOLEAN]
  /\ destroyed \subseteq Members \cup {Unselected}
  /\ atPreflight \in Changes
  /\ atBarrier \in Changes

(* All or nothing before the first mutation: once anything of the unit has   *)
(* been damaged, no member at all had moved HEAD, unsaved files or an        *)
(* unselected sibling when the preflight began.  One bad member shields      *)
(* every other (worktree/execute.go:228-276).                                *)
PreflightShields ==
  destroyed # {} =>
    atPreflight.advanced = {} /\ atPreflight.dirty = {} /\ atPreflight.extra = {}

(* A member is touched only when every member before it has been verified    *)
(* removed, and the container only when all have: the executor stops at the  *)
(* first member it could not finish (worktree/execute.go:109-172).           *)
StopsAtFirstFailure ==
  /\ \A m \in Members \cap destroyed : \A k \in 1 .. (m - 1) : removed[k]
  /\ phase = "container" => \A m \in Members : removed[m]

(* The receipt tells what happened: "removed" only with every member         *)
(* verified, its commit where it was captured and the owner gone; bytes only *)
(* after a mutation of our own; "cancelled" only when nothing was touched;   *)
(* "failed" only when no member is reported removed (executor/receipt.go).   *)
ReceiptTruthful ==
  /\ receipt.state = "removed" =>
       \A m \in Members : removed[m] /\ (m \in Attached => ~advanced[m])
  /\ receipt.freed => attempted /\ receipt.physical
  /\ receipt.state = "cancelled" => destroyed = {} /\ ~attempted
  /\ receipt.state = "failed" => ~MemberGone /\ ~receipt.freed
  /\ receipt.state = "partial" => attempted

(* No mutation outruns its own barrier: what the overlap obligations, the    *)
(* owner's identity and, on the guided route, any member's sessions and the  *)
(* removed member's commits had become when this mutation's own barrier      *)
(* began, it saw (worktree/execute_prepared.go:55-78).                       *)
BarrierGuardsMutation ==
  [][destroyed' # destroyed =>
       /\ atBarrier.orphaned
       /\ atBarrier.selected
       /\ guided => /\ atBarrier.session = {}
                    /\ (destroyed' \ destroyed) \cap atBarrier.advanced = {}]_vars

(* SPEC.md:729 "revalidate the full member set": a checkout that was already *)
(* in the container when the barrier of a mutation began is not destroyed.   *)
FullMemberSetRevalidated ==
  [][(Unselected \in destroyed' \ destroyed) => atBarrier.extra = {}]_vars

(* SPEC.md:511 "rebuild and compare them immediately before mutation": a     *)
(* commit made on a detached HEAD before the barrier of its checkout's       *)
(* removal began is not discarded.                                           *)
NoDetachedCommitDiscarded ==
  [][(destroyed' \ destroyed) \cap atBarrier.advanced \subseteq Attached]_vars

(* JSON_SCHEMA.md:699 "failed ... without any successful or partial          *)
(* mutation": a failed unit left everything as it was.                       *)
FailedMeansUntouched == receipt.state = "failed" => destroyed = {}

=============================================================================
