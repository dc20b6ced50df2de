-------------------------- MODULE ClassicSelection --------------------------
(***************************************************************************)
(* The filter chain from scan rows to the targets of a clean, in the order *)
(* of selectCleanTargets (cmd/clean_selection.go): eligibility, physical   *)
(* owners, --protect-path, existence, scan evidence, normalisation, Git    *)
(* safety of active worktrees (internal/cleaner/eligibility.go,            *)
(* targets.go, overlap_safety_runtime.go, cmd/clean_protect.go and         *)
(* internal/worktree/safety.go). Overlap safety, the last link, is the     *)
(* component OverlapBarrier models; here it refuses a given set of paths.  *)
(*                                                                         *)
(* A row is a record of what the chain asks: path, category, status,       *)
(* class, age, size, and whether the row is wanted by the selectors, is    *)
(* direct (not a link to its path), verified (a Go cache whose live path   *)
(* was proved), linked (its leaf is a link), commanded (cleaned by a       *)
(* command), pressed (on the volume under pressure), there, and vouched    *)
(* for by scan evidence. Rows of worktrees are the scan's rows of          *)
(* WorktreePolicy.                                                         *)
(***************************************************************************)
EXTENDS WorktreePolicy, UnifiedPlan

CONSTANT SafeCategories   \* categories that need no --risky

IsCache(row) == row.category = "cache"

IsActive(row) == row.category = "worktree" /\ row.status = "active"

Relaxed(row, opts) == opts.relax /\ IsCache(row) /\ row.pressed

\* EvaluateEligibility for an orphaned, live or undetermined agent-state row:
\* the recorded directory decides, and an orphan has to have idled.
AgentStateVerdict(row, opts) ==
  IF row.class = "live" THEN "agent_state_live"
  ELSE IF row.class # "orphaned" THEN "agent_state_undetermined"
  ELSE IF opts.grace > 0 /\ row.age <= opts.grace THEN "agent_state_min_idle_age"
  ELSE "eligible"

Verdict(row, opts) ==
  IF ~row.wanted THEN "filtered"
  ELSE IF IsCache(row) /\ ~row.verified THEN "go_cache_unverified"
  ELSE IF IsCache(row) /\ row.linked /\ ~row.commanded THEN "cache_leaf_symlink"
  ELSE IF row.category = "agent_state" THEN AgentStateVerdict(row, opts)
  ELSE IF ~opts.risky /\ row.category \notin SafeCategories THEN "risky"
  ELSE IF IsActive(row) /\ ~opts.includeActive THEN "active_worktree"
  ELSE IF row.category = "worktree" /\ row.status \notin {"active", "orphaned"}
  THEN "worktree_review"
  ELSE IF row.age > opts.age THEN "eligible"
  ELSE IF Relaxed(row, opts) THEN "volume_pressure" ELSE "age"

Eligible(rows, opts) ==
  {r \in rows : Verdict(r, opts) \in {"eligible", "volume_pressure"}}

\* mutant: each row speaks for itself
NoOwners(inventory) == {}

\* An owner with an active row is active, whatever its other rows say.
ActiveOwners(inventory) == {r.path : r \in {s \in inventory : IsActive(s)}}

OwnerSafe(inventory, rows, opts) ==
  LET owned(r) == r.category = "worktree" /\ r.path \in ActiveOwners(inventory)
  IN  {IF owned(r) THEN [r EXCEPT !.status = "active"] ELSE r :
         r \in {s \in rows : opts.includeActive \/ ~owned(s)}}

\* exclude.Matcher.ProtectMatch: the pin itself, what lies in it and what holds it.
Related(p, q) == p = q \/ <<p, q>> \in Within \/ <<q, p>> \in Within

ProtectMatch(pins, p) == \E pin \in pins : Related(p, pin)

Unprotected(inventory, rows, pins) ==
  LET protected == {r.path : r \in {s \in inventory : ProtectMatch(pins, s.path)}}
  IN  {r \in rows : r.path \notin protected}

\* PreferTargetForCanonical, then the rank of the cleanup route.
Rank(r) == IF r.category = "worktree" THEN 0 ELSE IF r.commanded THEN 2 ELSE 1

Preferred(rows) ==
  LET direct == {r \in rows : r.direct}
      first  == IF direct # {} THEN direct ELSE rows
  IN  CHOOSE r \in first : \A s \in first : Rank(r) <= Rank(s)

Representative(rows) ==
  LET r == Preferred(rows) IN
  IF r.category = "worktree" /\ \E s \in rows : IsActive(s)
  THEN [r EXCEPT !.status = "active"] ELSE r

\* NormalizeTargets: one row per path, and none below another target.
Normalized(rows) ==
  {Representative(RowsAt(rows, p)) :
     p \in {q \in Targets(rows) : Above(q) \cap Targets(rows) = {}}}

-----------------------------------------------------------------------------
(* InspectActiveCleanupSafety: the evidence of the members of a linked     *)
(* worktree, or, for a repository that is no linked worktree, whether all  *)
(* it has is pushed.                                                       *)

UpstreamSafe(repo) ==
  repo.status = "clean" /\ repo.head = "attached" /\ repo.upstream = "level"

GitSafe(target, checkout, repo) ==
  IF IsUnit(target)
  THEN \A m \in MemberPaths(target) : ~MemberLocked(Evidence(checkout[m]))
  ELSE UpstreamSafe(repo)

-----------------------------------------------------------------------------
\* safe: the paths whose Git evidence allows it; refused: what overlap refuses.
SelectCleanTargets(inventory, opts, pins, safe, refused) ==
  LET owners     == OwnerSafe(inventory, Eligible(inventory, opts), opts)
      allowed    == Unprotected(inventory, owners, pins)
      proved     == {r \in allowed : r.there /\ r.vouched}
      normalized == Normalized(proved)
  IN  {r \in normalized : /\ ~IsActive(r) \/ r.path \in safe
                          /\ r.path \notin refused}
=============================================================================
