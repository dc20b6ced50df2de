---------------------------- MODULE GuidedReview ----------------------------
(***************************************************************************)
(* A clean from its scan to the targets it hands to execution, on both     *)
(* routes: the guided review of active worktrees                           *)
(* (internal/worktree/guided.go, cmd/guided_clean_render.go), the          *)
(* selection of everything else (ClassicSelection), their combination and  *)
(* its second review (UnifiedPlan, cmd/unified_cleanup_execute.go), in the *)
(* order of runClean (cmd/clean_run.go).                                   *)
(*                                                                         *)
(* The world of a review stands still: what happens to it afterwards is    *)
(* the business of ActiveUnit, OverlapBarrier and CleanSession. What moves *)
(* is the operator, who toggles rows and changes the minimum idle age in   *)
(* any order, each change of the age being a new plan with new probes over *)
(* the old choices.                                                        *)
(***************************************************************************)
EXTENDS ClassicSelection

CONSTANTS Worlds,       \* what a scan and Git may say, by name
          AgePresets,   \* guidedCleanAgePresets
          TypedAges     \* ages the operator may type after "age"

ASSUME AgesAssumption ==
  AgePresets \subseteq Nat /\ IsFiniteSet(AgePresets) /\ TypedAges \subseteq Nat

\* Units are numbered, times are ages, and what Git answers is one of its
\* answers; a target stands for all the rows of its path.
ASSUME WorldsAssumption ==
  \A i \in DOMAIN Worlds :
    LET w == Worlds[i] IN
    /\ w.age \in Nat
    /\ "includeActive" \in DOMAIN w.opts /\ w.opts.includeActive \in BOOLEAN
    /\ \A row \in w.rows : {"path", "category", "status"} \subseteq DOMAIN row
    /\ \A j, k \in DOMAIN w.target : w.target[j].path = w.target[k].path => j = k
    /\ DOMAIN w.target \subseteq Nat /\ IsFiniteSet(DOMAIN w.target)
    /\ \A k \in DOMAIN w.target :
         LET rows == Range(ActiveRows(w.target[k])) IN
         /\ MemberPaths(w.target[k]) \subseteq DOMAIN w.checkout
         /\ ActiveRows(w.target[k]) \in Seq(rows)
         /\ \A row \in rows : row.mtime \in Nat /\ row.size \in Nat
    /\ \A m \in DOMAIN w.checkout :
         LET c == w.checkout[m] IN
         /\ c.reflog \in Nat /\ c.session \in Nat \cup {Outage}
         /\ c.status \in {"clean", "dirty", "fails"}
         /\ c.ancestor \in {"yes", "no", "error"}

VARIABLES
  scan,      \* which of Worlds this command meets
  phase,     \* where the command is
  age,       \* Policy.MinIdleAge
  probed,    \* DefaultBranchUniqueness of each checkout, "" before the probe
  review,    \* GuidedCleanState.Rows, by unit
  candidates, plan,   \* the unified plan
  handed,    \* the paths handed to execution
  asked,     \* the operator's last word on each row: "none", "in" or "out"
  revisited  \* the components the operator toggled in the second review

vars == <<scan, phase, age, probed, review, candidates, plan, handed, asked, revisited>>

choices == <<candidates, plan, handed, revisited>>

-----------------------------------------------------------------------------
world == Worlds[scan]

Path(k) == world.target[k].path

UnitsOf == [i \in DOMAIN Worlds |->
  LET w == Worlds[i]
      units == {k \in DOMAIN w.target : IsUnit(w.target[k])}
  IN  [k \in units |-> Unit(w.target[k], w.checkout)]]

U == UnitsOf[scan]

Decision(k, threshold, results) == Decide(U, k, threshold, world.standing, results)

\* newGuidedCleanStateFromCleanupPlan
Proposed(k, threshold, results) ==
  LET d == Decision(k, threshold, results) IN
  [policy |-> d.class, reasons |-> d.reasons,
   selected |-> d.class = "recommended", override |-> "none"]

\* applyProtectPathToGuidedState: once, over the rows of the first plan.
Pinned(row) ==
  [row EXCEPT !.policy = "locked", !.reasons = {"protect_path"},
              !.selected = FALSE, !.override = "none"]

Init ==
  /\ scan \in DOMAIN Worlds
  /\ phase = "planning"
  /\ age = world.age
  /\ probed = [m \in DOMAIN world.checkout |-> ""]
  /\ review = <<>> /\ asked = <<>>
  /\ candidates = {} /\ plan = <<>> /\ handed = {} /\ revisited = {}

\* BuildGuidedCleanState
Build ==
  /\ phase = "planning" /\ world.route = "guided"
  /\ \/ /\ probed' = Probed(U, age, world.standing, world.checkout, probed)
        /\ review' = [k \in DOMAIN U |->
             LET row == Proposed(k, age, probed') IN
             IF ProtectMatch(world.pins, Path(k)) THEN Pinned(row) ELSE row]
        /\ asked' = [k \in DOMAIN U |-> "none"]
        /\ phase' = "reviewing"
     \/ \* a directory cannot be listed, or the command is cancelled
        phase' = "failed" /\ UNCHANGED <<probed, review, asked>>
  /\ UNCHANGED <<scan, age, choices>>

-----------------------------------------------------------------------------
(* The prompt of the guided review.                                        *)

ToggleRow(k) ==
  /\ phase = "reviewing" /\ k \in DOMAIN review
  /\ review[k].policy # "locked"
  /\ LET word == IF review[k].selected THEN "out" ELSE "in" IN
       /\ review' = [review EXCEPT ![k].selected = (word = "in"), ![k].override = word]
       /\ asked' = [asked EXCEPT ![k] = word]
  /\ UNCHANGED <<scan, phase, age, probed, choices>>

\* mutant: only what differs from the default counts as a choice
OverrideIfDifferent(row) ==
  IF row.selected = (row.policy = "recommended") THEN "none"
  ELSE IF row.selected THEN "in" ELSE "out"

\* guidedCleanSelectionOverrides
Override(row) ==
  IF row.override # "none" THEN row.override
  ELSE IF row.selected = (row.policy = "recommended") THEN "none"
  ELSE IF row.selected THEN "in" ELSE "out"

\* applyReplannedGuidedRow and applyGuidedCleanSelectionOverrides
Replanned(row, decision) ==
  LET word == Override(row) IN
  [policy   |-> decision.class,
   reasons  |-> decision.reasons,
   selected |-> /\ decision.class # "locked"
                /\ \/ word = "in"
                   \/ word = "none" /\ decision.class = "recommended",
   override |-> IF decision.class = "locked" THEN "none" ELSE word]

\* replanGuidedCleanAge, on the state as of the last plan
Replan(threshold) ==
  /\ phase = "reviewing"
  /\ age' = threshold
  /\ probed' = Probed(U, threshold, world.standing, world.checkout, probed)
  /\ review' = [k \in DOMAIN review |->
                  Replanned(review[k], Decision(k, threshold, probed'))]
  /\ UNCHANGED <<scan, phase, asked, choices>>

\* adjustGuidedCleanAge: "+" and "-" move to the neighbour among the presets.
Longer  == LET over  == {a \in AgePresets : a > age} IN
           Replan(IF over = {} THEN age ELSE Min(over))
Shorter == LET under == {a \in AgePresets : a < age} IN
           Replan(IF under = {} THEN age ELSE Max(under))

\* "age <duration>": zero and what does not parse are refused with a message.
TypeAge(a) == a > 0 /\ Replan(a)

\* filterGitUnsafeActiveWorktreeTargets
SafePaths(w) == {w.target[k].path : k \in {j \in DOMAIN w.target :
                   GitSafe(w.target[j], w.checkout, w.repository[j])}}

\* SelectCleanTargets of everything else; a guided clean leaves active
\* worktrees out of it whatever the flags say.
ClassicOf == [i \in DOMAIN Worlds |->
  LET w == Worlds[i] IN
  SelectCleanTargets(w.rows,
    [w.opts EXCEPT !.includeActive = @ /\ w.route = "classic"],
    w.pins, SafePaths(w), w.refused)]

Classic == ClassicOf[scan]

Guided == {[path |-> Path(k), policy |-> review[k].policy,
            selected |-> review[k].selected] : k \in DOMAIN review}

Candidates ==
  {GuidedCandidate(r) : r \in Guided} \cup {ClassicCandidate(t) : t \in Classic}

\* Enter, or the end of the input, accepts; the unified plan follows. It is
\* shown for a second review only when there is something to combine.
Accept ==
  /\ phase = "reviewing"
  /\ candidates' = Candidates
  /\ plan' = BuildPlan(Candidates)
  /\ phase' = IF Classic # {} THEN "combining" ELSE "validating"
  /\ UNCHANGED <<scan, age, probed, review, asked, handed, revisited>>

\* The classic route has no review; its candidates are its targets.
SelectClassic ==
  /\ phase = "planning" /\ world.route = "classic"
  /\ candidates' = {ClassicCandidate(t) : t \in Classic}
  /\ plan' = BuildPlan(candidates')
  /\ phase' = "validating"
  /\ UNCHANGED <<scan, age, probed, review, asked, handed, revisited>>

-----------------------------------------------------------------------------
(* PromptUnifiedCleanupReview, validation and selection.                   *)

ToggleComponent(o) ==
  /\ phase = "combining" /\ o \in DOMAIN plan
  /\ plan[o] # "locked"
  /\ plan' = Toggle(plan, o)
  /\ revisited' = revisited \cup {o}
  /\ UNCHANGED <<scan, phase, age, probed, review, asked, candidates, handed>>

AcceptPlan ==
  /\ phase = "combining" /\ phase' = "validating"
  /\ UNCHANGED <<scan, age, probed, review, asked, choices>>

\* "q", a read that fails, or a cancellation
Abort ==
  /\ phase \in {"reviewing", "combining"}
  /\ phase' \in {"aborted", "failed"}
  /\ UNCHANGED <<scan, age, probed, review, asked, choices>>

\* ValidateForExecution, then the selected owners that pass overlap safety.
Hand ==
  /\ phase = "validating"
  /\ \/ /\ ~world.partial
        /\ handed' = SelectedPhysicalTargets(plan) \ world.refused
        /\ phase' = "handed"
     \/ \* partial evidence, a cached scan past its age, or a cancellation
        phase' = "failed" /\ UNCHANGED handed
  /\ UNCHANGED <<scan, age, probed, review, asked, candidates, plan, revisited>>

Next ==
  \/ Build \/ SelectClassic \/ Longer \/ Shorter \/ Accept \/ AcceptPlan
  \/ Abort \/ Hand
  \/ \E k \in DOMAIN review : ToggleRow(k)
  \/ \E a \in TypedAges : TypeAge(a)
  \/ \E o \in DOMAIN plan : ToggleComponent(o)

Spec == Init /\ [][Next]_vars

-----------------------------------------------------------------------------
(* Properties, against what the world says rather than what the policy     *)
(* made of it.                                                             *)

Words == {"none", "in", "out"}

CleanAndKept(c) ==
  /\ c.repository # NoRepository /\ c.status = "clean" /\ c.refs # "fails"
  /\ c.head = "attached" \/ (c.head = "detached" /\ c.refs = "some")

\* Whatever the operator toggles and however often the plan is made anew, a
\* selected unit has only clean checkouts whose commits a ref keeps, none
\* used within the safety window, none whose sessions could not be read, and
\* does not contain the working directory (policy_helpers.go's hard locks).
LocksHold ==
  \A k \in DOMAIN review : review[k].selected =>
    /\ Path(k) \notin world.standing
    /\ \A m \in MemberPaths(world.target[k]) :
         LET c == world.checkout[m] IN
         /\ CleanAndKept(c)
         /\ c.reflog >= RecentWindow
         /\ Tool(world.target[k]) = "codex" =>
              c.session # Outage /\ c.session >= RecentWindow

ByDefault(k) == review[k].selected /\ asked[k] = "none"

\* A unit is proposed for removal only if each repository it belongs to keeps
\* KeepPerRepository other units that were used at least as recently: the most
\* recent ones are never proposed (policy.go's retainedCleanupUnits).
MostRecentKept ==
  \A k \in DOMAIN review : ByDefault(k) =>
    \A r \in Repositories(U[k]) :
      Cardinality({j \in Sharing(U, r) \ {k} : U[j].last <= U[k].last}) >= KeepPerRepo

\* A proposal is justified at the age now in force, not at an earlier one: the
\* unit idled longer in every source, is big enough, has a session reader, and
\* every checkout was found to add nothing to the default branch.
ProposalJustified ==
  \A k \in DOMAIN review : ByDefault(k) =>
    /\ Tool(world.target[k]) = "codex"
    /\ \E row \in Range(ActiveRows(world.target[k])) : row.size >= MinSize
    /\ \A m \in MemberPaths(world.target[k]) :
         LET c == world.checkout[m] IN
         /\ c.reflog > age /\ c.session > age
         /\ c.default
         /\ \/ c.ancestor = "yes"
            \/ c.ancestor = "no" /\ c.merge = "same_tree"

\* The operator's last word on a row outlives every change of the age, and a
\* row nobody touched follows the plan at the present age.
ChoiceSurvives ==
  \A k \in DOMAIN review : review[k].policy # "locked" =>
    review[k].selected =
      IF asked[k] = "none"
      THEN Decision(k, age, probed).class = "recommended"
      ELSE asked[k] = "in"

\* Without a second look of the operator, nothing is handed to execution that
\* contains or lies in a locked unit, or in another target handed over: a lock
\* dominates its component, and an unselected owner is not taken for the sake
\* of what lies in it (unified_cleanup_plan_helpers.go).
PlanSound ==
  \A p \in handed \ revisited :
    /\ \A k \in DOMAIN review : review[k].policy = "locked" => ~Related(p, Path(k))
    /\ \A q \in handed \ (revisited \cup {p}) : ~Related(p, q)

\* A path with an active worktree is handed over only where active worktrees
\* were asked for and Git keeps what they hold: by the operator's review of
\* that very unit, or by --include-active-worktrees. An orphaned row at the
\* same path is no way around it (targets.go's ApplyPhysicalOwnerSafety).
ActiveNeedsConsent ==
  \A p \in handed : (\E r \in world.rows : r.path = p /\ IsActive(r)) =>
    IF world.route = "guided"
    THEN \E k \in DOMAIN review : Path(k) = p /\ (review[k].selected \/ p \in revisited)
    ELSE /\ world.opts.includeActive
         /\ \A k \in DOMAIN world.target : Path(k) = p =>
              IF IsUnit(world.target[k])
              THEN \A m \in MemberPaths(world.target[k]) : CleanAndKept(world.checkout[m])
              ELSE UpstreamSafe(world.repository[k])

-----------------------------------------------------------------------------
(* What documents say and the code does not keep.                          *)

\* README.md: --protect-path keeps a checkout and every worktree or debris
\* item that contains it.
PinnedNeverHanded == \A p \in handed : ~ProtectMatch(world.pins, p)

\* unified_cleanup_plan.go: a hard lock in either containment direction
\* dominates the complete component.
LockDominates ==
  \A p \in handed, k \in DOMAIN review :
    review[k].policy = "locked" => ~Related(p, Path(k))
=============================================================================
