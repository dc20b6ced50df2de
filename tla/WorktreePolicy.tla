--------------------------- MODULE WorktreePolicy ---------------------------
(***************************************************************************)
(* From what a scan and Git say of linked checkouts to a cleanup policy:   *)
(* internal/worktree/units.go, units_helpers.go, git_evidence.go,          *)
(* activity_enrich.go, default_branch_uniqueness.go, units_uniqueness.go,  *)
(* policy.go and policy_helpers.go. All of it is pure: a review runs it    *)
(* once when it starts and, in part, each time the operator changes the    *)
(* minimum idle age (GuidedReview).                                        *)
(*                                                                         *)
(* Times are ages against the instant of planning, which the code freezes  *)
(* in CleanupPolicy.Now: a smaller age is newer activity, and Never is the *)
(* zero time, older than all. Units are numbered in the order of their     *)
(* stable keys.                                                            *)
(***************************************************************************)
EXTENDS Integers, Sequences, FiniteSets, FiniteSetsExt, Functions

CONSTANTS Never,          \* the age of no activity at all
          Outage,         \* a session lookup that cannot answer
          NoRepository,   \* a checkout whose repository cannot be resolved
          NoTool,         \* a scanner row that names no tool
          RecentWindow,   \* RecentActivityWindow
          KeepPerRepo,    \* KeepPerRepository
          MinSize         \* MinSize

ASSUME PolicyAssumption ==
  /\ Never \in Nat
  /\ Outage \notin Nat
  /\ RecentWindow \in 1 .. Never
  /\ KeepPerRepo \in Nat \ {0}
  /\ MinSize \in Nat

Youngest(ages) == Min(ages \cup {Never})

-----------------------------------------------------------------------------
(* Which checkouts make up a unit. A target is itself a checkout, holds an *)
(* invalid marker, or is a directory of entries: checkouts, empty          *)
(* leftovers, leaves with checkouts one level down, or something else,     *)
(* which disqualifies the whole target.                                    *)

Nested(entry) == IF entry.other THEN {} ELSE entry.checkouts

EntryMembers(entry) ==
  CASE entry.kind = "checkout" -> entry.checkouts
    [] entry.kind = "leaf"     -> Nested(entry)
    [] OTHER                   -> {}

Disqualifies(entry) ==
  \/ entry.kind = "files"
  \/ entry.kind = "leaf" /\ Nested(entry) = {}

\* Sidecar directories and plain files beside the checkouts are no entries.
MemberPaths(target) ==
  IF target.marker = "linked" THEN {target.path}
  ELSE IF target.marker = "invalid" \/ \E e \in target.entries : Disqualifies(e)
  THEN {}
  ELSE UNION {EntryMembers(e) : e \in target.entries}

\* A review takes the active rows of a scan and leaves the others alone.
ActiveRows(target) == SelectSeq(target.rows, LAMBDA row : row.status = "active")

IsUnit(target) == ActiveRows(target) # <<>> /\ MemberPaths(target) # {}

UnitSize(target) == Max({row.size : row \in Range(ActiveRows(target))})

-----------------------------------------------------------------------------
(* What Git says of one checkout: inspectGitWorktreeEvidence. The status   *)
(* comes first and is kept even when a later question fails; a detached    *)
(* HEAD nobody refers to is told before dirtiness.                         *)

GitAnswers(c) ==
  /\ c.status # "fails"
  /\ c.head \in {"attached", "detached"}
  /\ c.refs # "fails"

Recoverable(c) ==
  /\ c.repository # NoRepository /\ GitAnswers(c)
  /\ c.head = "attached" \/ c.refs = "some"

Reason(c) ==
  IF c.repository = NoRepository \/ ~GitAnswers(c) THEN "evidence_unavailable"
  ELSE IF ~Recoverable(c)    THEN "detached_head_unreferenced"
  ELSE IF c.status = "dirty" THEN "dirty_worktree"
  ELSE IF c.head = "attached" THEN "attached_branch"
  ELSE "detached_head_reachable"

Evidence(c) ==
  [repository  |-> c.repository,
   available   |-> c.repository # NoRepository /\ GitAnswers(c),
   dirty       |-> c.repository # NoRepository /\ c.status = "dirty",
   recoverable |-> Recoverable(c),
   reason      |-> Reason(c)]

MemberLocked(e) ==
  e.reason \in {"evidence_unavailable", "detached_head_unreferenced", "dirty_worktree"}

-----------------------------------------------------------------------------
(* When a unit was last used. Only Codex has a session reader, and only    *)
(* its outage locks; every tool has the HEAD reflog and the scan's rows.   *)

Tool(target) ==
  LET named == SelectSeq(ActiveRows(target), LAMBDA row : row.tool # NoTool) IN
  IF target.source = "orca" THEN "codex"
  ELSE IF named # <<>> THEN Head(named).tool
  ELSE IF target.source = ".codex" THEN "codex"
  ELSE "unknown"

Registered(target) == Tool(target) = "codex"

Readable(target, session) == Registered(target) /\ session # Outage

\* A row that names the checkout's directory speaks for it, else all rows do.
Fallback(target, path) ==
  LET rows  == Range(ActiveRows(target))
      named == {r \in rows : r.project = path /\ path # target.path}
  IN  Youngest({r.mtime : r \in IF named # {} THEN named ELSE rows})

MemberActivity(target, path, c) ==
  Youngest({c.reflog, Fallback(target, path)}
             \cup IF Readable(target, c.session) THEN {c.session} ELSE {})

-----------------------------------------------------------------------------
(* A unit as the policy sees it.                                           *)

Unit(target, checkout) ==
  LET members == MemberPaths(target) IN
  [path       |-> target.path,
   size       |-> UnitSize(target),
   evidence   |-> [m \in members |-> Evidence(checkout[m])],
   last       |-> Youngest({MemberActivity(target, m, checkout[m]) : m \in members}),
   registered |-> Registered(target),
   readable   |-> /\ Readable(target, target.session)
                  /\ \A m \in members : Readable(target, checkout[m].session)]

Members(u) == DOMAIN u.evidence

Repositories(u) == {u.evidence[m].repository : m \in Members(u)} \ {NoRepository}

GitLocks(u) ==
  {r \in {"git_dirty_or_untracked", "git_evidence_unavailable",
          "git_detached_head_unreferenced"} :
     \E m \in Members(u) :
        LET e == u.evidence[m] IN
        CASE r = "git_dirty_or_untracked"   -> e.dirty
          [] r = "git_evidence_unavailable" -> ~e.available
          [] OTHER                          -> e.available /\ ~e.recoverable}
\* mutant: a reader that is down counts like one that does not exist
ActivityLocksUnlessDown(u) ==
  {r \in {"recent_activity", "activity_evidence_unavailable"} :
     IF r = "recent_activity"
     THEN u.last < RecentWindow
     ELSE u.last = Never}


ActivityLocks(u) ==
  {r \in {"recent_activity", "activity_evidence_unavailable"} :
     IF r = "recent_activity"
     THEN u.last < RecentWindow
     ELSE u.last = Never \/ (u.registered /\ ~u.readable)}

\* standing: the targets that contain the working directory.
Locks(u, standing) ==
  GitLocks(u) \cup ActivityLocks(u)
    \cup {r \in {"current_working_directory"} : u.path \in standing}

-----------------------------------------------------------------------------
(* The policy over all units, U being a function from keys to units.       *)

Sharing(U, r) == {k \in DOMAIN U : r \in Repositories(U[k])}

\* mutant: the oldest are kept
PrecedesOldest(U, j, k) == U[j].last > U[k].last \/ (U[j].last = U[k].last /\ j < k)

\* The order in which a repository keeps its units: newest first, then by key.
Precedes(U, j, k) == U[j].last < U[k].last \/ (U[j].last = U[k].last /\ j < k)

Retained(U) ==
  {k \in DOMAIN U : \E r \in Repositories(U[k]) :
     Cardinality({j \in Sharing(U, r) : Precedes(U, j, k)}) < KeepPerRepo}

\* The arms before uniqueness, in the code's order; "" when none applies.
HeldFor(U, k, minIdleAge) ==
  IF k \in Retained(U) THEN "retained_per_repository"
  ELSE IF U[k].last <= minIdleAge THEN "younger_than_min_idle_age"
  ELSE IF U[k].size < MinSize THEN "below_min_size"
  ELSE IF ~U[k].registered THEN "activity_source_not_registered"
  ELSE ""

NeedsProbe(U, k, minIdleAge, standing) ==
  Locks(U[k], standing) = {} /\ HeldFor(U, k, minIdleAge) = ""
\* mutant: an unknown answer does not demote
DemotionIfUnique(results) ==
  IF "not_merged" \in results THEN "unique_commits_not_in_default" ELSE ""


Demotion(results) ==
  IF "not_merged" \in results THEN "unique_commits_not_in_default"
  ELSE IF results \subseteq {"merged"} THEN ""
  ELSE "merge_evidence_unknown"

\* The decision on unit k, given the probe results so far.
Decide(U, k, minIdleAge, standing, probed) ==
  LET held    == HeldFor(U, k, minIdleAge)
      demoted == Demotion({probed[m] : m \in Members(U[k])})
  IN  IF Locks(U[k], standing) # {}
      THEN [class |-> "locked", reasons |-> Locks(U[k], standing)]
      ELSE IF held # ""    THEN [class |-> "reviewable", reasons |-> {held}]
      ELSE IF demoted # "" THEN [class |-> "reviewable", reasons |-> {demoted}]
      ELSE [class |-> "recommended", reasons |-> {"cleanup_recommended"}]

-----------------------------------------------------------------------------
(* The probe of one checkout against refs/remotes/origin/HEAD.             *)

Probe(c) ==
  IF ~c.default \/ c.head = "fails" THEN "unknown"
  ELSE IF c.ancestor = "yes" THEN "merged"
  ELSE IF c.ancestor = "error" \/ c.merge = "error" THEN "unknown"
  ELSE IF c.merge = "same_tree" THEN "merged"
  ELSE "not_merged"

\* Probing the members of the units in need, each at most once.
Probed(U, minIdleAge, standing, checkout, probed) ==
  [m \in DOMAIN probed |->
     IF /\ probed[m] = ""
        /\ \E k \in DOMAIN U : /\ m \in Members(U[k])
                               /\ ~MemberLocked(U[k].evidence[m])
                               /\ NeedsProbe(U, k, minIdleAge, standing)
     THEN Probe(checkout[m]) ELSE probed[m]]
=============================================================================
