----------------------------- MODULE UnifiedPlan -----------------------------
(***************************************************************************)
(* The plan that a review and an execution share: BuildUnifiedCleanupPlan, *)
(* its physical components, its toggles and the targets it hands to        *)
(* execution (internal/cleaner/unified_cleanup_plan.go,                    *)
(* unified_cleanup_plan_helpers.go, unified_cleanup_review.go,             *)
(* cleanup_plan_classic.go and executor/unified_cleanup_candidates.go).    *)
(*                                                                         *)
(* A candidate is a logical row: [path, source, selection]. Paths are      *)
(* model values; Within says which lies strictly inside which.             *)
(***************************************************************************)
EXTENDS FiniteSets

CONSTANTS Paths,    \* canonical paths of the targets
          Within    \* pairs <<inner, outer>>: strict containment

\* Containment is a forest: of two paths that hold a third one holds the other.
ASSUME WithinAssumption ==
  /\ IsFiniteSet(Paths) /\ Within \subseteq Paths \X Paths
  /\ \A p \in Paths : <<p, p>> \notin Within
  /\ \A p, q, r \in Paths :
       <<p, q>> \in Within /\ <<q, r>> \in Within => <<p, r>> \in Within
  /\ \A p, q, r \in Paths :
       <<p, q>> \in Within /\ <<p, r>> \in Within =>
         q = r \/ <<q, r>> \in Within \/ <<r, q>> \in Within

Above(p) == {q \in Paths : <<p, q>> \in Within}

-----------------------------------------------------------------------------
(* Exact-path targets, and the selection their rows add up to.             *)
\* mutant: a selected row outweighs a locked one
AggregateSelectedFirst(selections) ==
  IF "selected" \in selections THEN "selected"
  ELSE IF "locked" \in selections THEN "locked"
  ELSE "unselected"

Aggregate(selections) ==
  IF "locked" \in selections THEN "locked"
  ELSE IF "selected" \in selections THEN "selected"
  ELSE "unselected"

Targets(candidates) == {c.path : c \in candidates}

RowsAt(candidates, p) == {c \in candidates : c.path = p}

PolicySelection(candidates, p) ==
  Aggregate({c.selection : c \in RowsAt(candidates, p)})

-----------------------------------------------------------------------------
(* Components. A target belongs to the outermost target above it that is   *)
(* itself selected or locked, and owns itself when there is none: an       *)
(* unselected owner neither absorbs nor executes what is nested in it.     *)

Absorbing(candidates, p) ==
  {q \in Above(p) \cap Targets(candidates) :
     PolicySelection(candidates, q) # "unselected"}

Owner(candidates, p) ==
  LET over == Absorbing(candidates, p) IN
  IF over = {} THEN p ELSE CHOOSE q \in over : \A r \in over \ {q} : <<r, q>> \in Within

Owned(candidates, o) == {p \in Targets(candidates) : Owner(candidates, p) = o}

Components(candidates) == {Owner(candidates, p) : p \in Targets(candidates)}

\* BuildUnifiedCleanupPlan: the selection of each component, by its owner.
BuildPlan(candidates) ==
  [o \in Components(candidates) |->
     Aggregate({PolicySelection(candidates, p) : p \in Owned(candidates, o)})]

\* ToggleUnifiedCleanupPlanRow: rows of a component share one number, and a
\* locked component has none.
Toggle(plan, o) ==
  [plan EXCEPT ![o] = CASE @ = "locked"   -> "locked"
                        [] @ = "selected" -> "unselected"
                        [] OTHER          -> "selected"]

SelectedPhysicalTargets(plan) == {o \in DOMAIN plan : plan[o] = "selected"}

-----------------------------------------------------------------------------
(* Rows of a guided review and of the classic filters as candidates.       *)

GuidedSelection(row) ==
  IF row.policy = "locked" THEN "locked"
  ELSE IF row.selected THEN "selected" ELSE "unselected"

GuidedCandidate(row) ==
  [path |-> row.path, source |-> "guided", selection |-> GuidedSelection(row)]

ClassicCandidate(target) ==
  [path |-> target.path, source |-> "classic", selection |-> "selected"]
=============================================================================
