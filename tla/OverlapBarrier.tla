---------------------------- MODULE OverlapBarrier ----------------------------
(****************************************************************************)
(* The overlap-safety barrier of a cleanup batch (internal/cleaner):         *)
(*                                                                           *)
(*   CleanupMutationSafety.Validate                                          *)
(*     RefreshMemo.Get            fingerprint, then memo or full re-scan     *)
(*     BuildOverlapSafetyPlan     match the entries against the target       *)
(*     ValidateBeforeMutationWithReport                                      *)
(*                                revalidate every obligation, live          *)
(*                                                                           *)
(* An agent-state entry is a child directory of a provider's store.  Coding  *)
(* agents create, resume and drop entries while the batch runs, so every     *)
(* read of the stores is a step of its own.  The batch shares one memo of    *)
(* the expensive scan, reused while the set of entry names is unchanged.     *)
(****************************************************************************)
EXTENDS RecordedCwd

CONSTANTS Entries,      \* names an agent-state entry can have
          T,            \* number of targets; they are executed in order
          Relation,     \* how each entry lies to each target
          Commands,     \* targets reclaimed by a cleanup command
          Encoded,      \* Grok's entries, with the directory each is named after;
                        \* the others are Claude's
          Contents,     \* what the sessions of each entry may have recorded
          Disks,        \* disks, and projects that are away with their volume
          NamesReused,  \* may a deleted entry be created again under its name
          MaxEvents     \* bound on the changes the world makes during a batch

Targets == 1 .. T

ASSUME OverlapAssumption ==
  /\ T \in Nat \ {0}
  /\ Relation \in [Entries -> [Targets -> {"none", "descendant", "exact", "ancestor"}]]
  /\ Commands \subseteq Targets
  /\ \A e \in DOMAIN Encoded : Encoded[e] \in Cwds
  /\ \A e \in Entries : {"absent"} \notin Contents[e]
  /\ \A d \in Disks : <<>> \in DOMAIN d.nodes
  /\ NamesReused \in BOOLEAN
  /\ MaxEvents \in Nat

(* A volume that is away leaves its mount point in a directory that no       *)
(* container holds, or is reached through a link that leads nowhere: in the  *)
(* home directory it could not be told from a deleted project.               *)
ASSUME AwayAssumption ==
  \A d \in Disks : \A c \in d.away :
    LET a == Nearest(d.nodes, PathOf[c])
    IN  \/ a = PathOf[c] /\ d.nodes[a].kind = "dangling"
        \/ a # PathOf[c] /\ d.nodes[a].kind \notin {"dir", "link"}
        \/ \A k \in Containers : ~IsPrefix(k, IF d.nodes[a].kind = "link" THEN d.nodes[a].to ELSE a)

Overlapping(t) == {e \in Entries : Relation[e][t] # "none"}

-----------------------------------------------------------------------------
VARIABLES
  (* the world *)
  entry,      \* each entry: absent, or what its sessions have recorded
  disk,       \* where the projects are: [nodes, away]
  made,       \* how many directories have had the entry's name (its identity)
  changed,    \* targets that are no longer the directory that was planned
  cancelled,  \* the command's context is done
  events,     \* changes made by the world so far
  (* the batch *)
  planned,    \* obligations of each target's component, from the plan
  memo,       \* RefreshMemo
  pc,         \* where the barrier is
  t,          \* the target it guards
  fp,         \* this barrier's fingerprint: {names}, or {} if unreadable
  evidence,   \* what it takes each entry to be
  complete,   \* did every provider answer the scan behind that evidence
  todo,       \* entries still to be scanned, or obligations to be revalidated
  bound,      \* the obligations with the identity each was matched under
  look,       \* the revalidation in hand: of which entry, what its sessions
              \* still to be read are, what has been read, which directories
              \* have been looked at, which is proven absent but for the second
              \* look, and what has been found
  outcome,    \* of each target
  report,     \* OverlapSafetyValidation of each target: passed, blocked, left
  (* history, read by properties only *)
  stood,      \* entries that have stood ever since this barrier began
  shielded,   \* records that have been in their entry, and wanted, ever since
  moved,      \* targets that had changed before this barrier began
  scanned     \* this barrier has run a scan of its own

world == << entry, disk, made, changed, cancelled, events >>
batch == << planned, memo, pc, t, fp, evidence, complete, todo, bound, look,
            outcome, report >>
history == << stood, shielded, moved, scanned >>
vars == << world, batch, history >>

-----------------------------------------------------------------------------
Absent == {"absent"}

Present == {e \in Entries : entry[e] # Absent}

(* What a provider takes from the records it has read of an entry.           *)
Evidence(e, records) ==
  IF e \in DOMAIN Encoded THEN FromGrok(Encoded[e], records) ELSE FromClaude(records)

(* What an entry is when nothing changes while it is classified.             *)
Class(e) ==
  LET evidenced == Evidence(e, entry[e])
  IN  Verdict(evidenced, {Sighted(disk.nodes, PathOf[c]) : c \in evidenced.cwds})

(* A record of a session that may still be wanted: its project is there, or  *)
(* away with its volume, or cannot be told.                                  *)
Wanted(r, d) ==
  \/ r = "bad"
  \/ r \in Cwds /\ (r \in d.away \/ PathOf[r] \in DOMAIN d.nodes)

Unread == [e \in Entries |-> "absent"]

Empty == [loaded |-> FALSE, key |-> {}, items |-> Unread, complete |-> FALSE]

Idle == [of |-> {}, unread |-> {}, read |-> {}, seen |-> {}, proving |-> {}, found |-> {}]

Unattempted(obligations) == [passed |-> {}, blocked |-> {}, left |-> obligations]

(* A target whose component was refused is not in the batch: what overlaps   *)
(* the others was orphaned when planned, and a command overlaps nothing.     *)
Init ==
  /\ entry \in {f \in [Entries -> UNION {Contents[e] : e \in Entries} \cup {Absent}] :
                 \A e \in Entries : f[e] \in Contents[e] \cup {Absent}}
  /\ disk \in Disks
  /\ \A k \in Targets : Overlapping(k) \cap Present \subseteq
       {e \in Entries : Class(e) = "orphaned" /\ k \notin Commands}
  /\ made = [e \in Entries |-> IF e \in Present THEN 1 ELSE 0]
  /\ \A e \in Entries, k \in Targets :
       Relation[e][k] \in {"exact", "ancestor"} => e \in Present
  /\ changed = {}
  /\ cancelled = FALSE
  /\ events = 0
  /\ planned = [k \in Targets |-> Overlapping(k) \cap Present]
  /\ memo = Empty
  /\ pc = "next"
  /\ t = 1
  /\ fp = {}
  /\ evidence = Unread
  /\ complete = FALSE
  /\ todo = {}
  /\ bound = [e \in {} |-> 0]
  /\ look = Idle
  /\ outcome = [k \in Targets |-> "pending"]
  /\ report = [k \in Targets |-> Unattempted(planned[k])]
  /\ stood = {}
  /\ shielded = {}
  /\ moved = {}
  /\ scanned = FALSE

-----------------------------------------------------------------------------
(* What agents and users may do at any moment.                               *)

Change ==
  /\ events < MaxEvents /\ pc # "done"
  /\ events' = events + 1
  /\ UNCHANGED << cancelled, batch, moved, scanned >>

Create(e, records) ==
  /\ Change
  /\ e \notin Present /\ (made[e] = 0 \/ NamesReused)
  /\ entry' = [entry EXCEPT ![e] = records]
  /\ made' = [made EXCEPT ![e] = @ + 1]
  /\ UNCHANGED << disk, changed, stood, shielded >>

(* Deleting an entry takes the targets at or below it along.                 *)
Delete(e) ==
  /\ Change
  /\ e \in Present
  /\ entry' = [entry EXCEPT ![e] = Absent]
  /\ changed' = changed \cup {k \in Targets : Relation[e][k] \in {"exact", "ancestor"}}
  /\ stood' = stood \ {e} /\ shielded' = {w \in shielded : w[1] # e}
  /\ UNCHANGED << disk, made >>

(* The sessions of an entry go on, or some of them are dropped.              *)
Record(e, records) ==
  /\ Change
  /\ e \in Present /\ entry[e] # records
  /\ entry' = [entry EXCEPT ![e] = records]
  /\ shielded' = {w \in shielded : w[1] # e \/ w[2] \in records}
  /\ UNCHANGED << disk, made, changed, stood >>

(* A project is deleted or restored, a volume comes or goes.                 *)
Move(d) ==
  /\ Change
  /\ disk # d /\ disk' = d
  /\ shielded' = {w \in shielded : Wanted(w[2], d)}
  /\ UNCHANGED << entry, made, changed, stood >>

(* The target is deleted or replaced, with the entries it held.              *)
Replace(k) ==
  /\ Change
  /\ k \notin changed
  /\ changed' = changed \cup {k}
  /\ LET lost == {e \in Present : Relation[e][k] \in {"descendant", "exact"}}
     IN  /\ entry' = [e \in Entries |-> IF e \in lost THEN Absent ELSE entry[e]]
         /\ stood' = stood \ lost
         /\ shielded' = {w \in shielded : w[1] \notin lost}
  /\ UNCHANGED << disk, made >>

Cancel ==
  /\ ~cancelled /\ pc # "done"
  /\ cancelled' = TRUE
  /\ UNCHANGED << entry, disk, made, changed, events, batch, history >>

World ==
  \/ \E e \in Entries : \E records \in Contents[e] : Create(e, records) \/ Record(e, records)
  \/ \E e \in Entries : Delete(e)
  \/ \E d \in Disks : Move(d)
  \/ \E k \in Targets : Replace(k)
  \/ Cancel

-----------------------------------------------------------------------------
(* The batch.                                                                *)

(* The target is done with; a refusal that carries Canceled ends the batch.  *)
Settle(result) ==
  /\ outcome' = [k \in Targets |-> IF k = t THEN result
                                   ELSE IF k > t /\ result = "cancelled" THEN "cancelled"
                                   ELSE outcome[k]]
  /\ IF result = "cancelled" \/ t = T
     THEN pc' = "done" /\ UNCHANGED t
     ELSE pc' = "next" /\ t' = t + 1

(* mutant: what was not tried is left out of the report                      *)
RefuseForgetsRest(result, passed, blocked, left) ==
  /\ Settle(result)
  /\ report' = [report EXCEPT ![t] = [passed |-> passed, blocked |-> blocked, left |-> {}]]

Refuse(result, passed, blocked, left) ==
  /\ Settle(result)
  /\ report' = [report EXCEPT ![t] = [passed |-> passed, blocked |-> blocked,
                                      left |-> left]]

Continue(place) == pc' = place /\ UNCHANGED << t, outcome, report >>

StartBarrier ==
  /\ pc = "next"
  /\ IF cancelled THEN Refuse("cancelled", {}, {}, planned[t]) ELSE Continue("read")
  /\ stood' = Present
  /\ shielded' = {w \in UNION {{e} \X entry[e] : e \in Present} : Wanted(w[2], disk)}
  /\ moved' = changed
  /\ scanned' = FALSE
  /\ UNCHANGED << world, planned, memo, fp, evidence, complete, todo, bound, look >>

\* mutant: a scan is reused whatever it was stored under
ReusableAtAnyKey(key) == memo.loaded

(* RefreshMemo.Get: reuse the scan only under the key it was stored with.    *)
Reusable(key) == memo.loaded /\ key # {} /\ key = memo.key

Fingerprint ==
  /\ pc = "read"
  /\ fp' \in IF cancelled THEN {{}} ELSE {{}, {Present}}
  /\ IF Reusable(fp')
     THEN /\ evidence' = memo.items /\ complete' = memo.complete
          /\ Continue("plan")
          /\ UNCHANGED << todo, scanned >>
     ELSE /\ evidence' = Unread /\ complete' = FALSE
          /\ todo' = Entries /\ scanned' = TRUE
          /\ Continue("scan")
  /\ UNCHANGED << world, planned, memo, bound, look, stood, shielded, moved >>

(* The providers list and classify the entries in no fixed order.  Classes   *)
(* are put together from reads at several moments, as below; what a scan     *)
(* takes an entry for is left open, as no more than a first sieve.           *)
ScanEntry(e) ==
  /\ pc = "scan" /\ e \in todo
  /\ \E class \in IF e \in Present THEN {"orphaned", "protected"} ELSE {"absent"} :
       evidence' = [evidence EXCEPT ![e] = class]
  /\ todo' = todo \ {e}
  /\ UNCHANGED << world, planned, memo, pc, t, fp, complete, bound, look, outcome, report,
                  history >>

(* The scan fails as a whole, and is not remembered; or it returns, perhaps  *)
(* with a provider missing, and is.                                          *)
ScanFails ==
  /\ pc = "scan" /\ todo = {}
  /\ Refuse(IF cancelled THEN "cancelled" ELSE "refused", {}, {}, planned[t])
  /\ UNCHANGED << world, planned, memo, fp, evidence, complete, todo, bound, look, history >>

ScanReturns ==
  /\ pc = "scan" /\ todo = {} /\ ~cancelled
  /\ complete' \in BOOLEAN
  /\ memo' = [loaded |-> TRUE, key |-> fp, items |-> evidence, complete |-> complete']
  /\ Continue("plan")
  /\ UNCHANGED << world, planned, fp, evidence, todo, bound, look, history >>

(* BuildOverlapSafetyPlan on the evidence: entries that overlap the target.  *)
Matches == {e \in Entries : evidence[e] # "absent" /\ Relation[e][t] # "none"}

Vanished == Matches \ Present

\* mutant: whatever has the path is the target
ExchangedByPath == FALSE

Exchanged == t \in changed

(* What stops the target before any obligation is revalidated: incomplete    *)
(* evidence, a target or an entry whose path no longer resolves, a command   *)
(* over agent state, a protected entry, another directory in its place.      *)
PlanRefuses ==
  \/ ~complete
  \/ Exchanged
  \/ Vanished # {}
  \/ t \in Commands /\ Matches # {}
  \/ \E e \in Matches : evidence[e] = "protected"
  \/ \E e \in planned[t] \ Matches : e \notin Present \/ made[e] # 1

(* The first offending entry is reported blocked if the plan knew it.        *)
Culprits ==
  IF ~complete \/ Exchanged THEN {}
  ELSE planned[t] \cap
         (Vanished \cup Matches \cup {e \in planned[t] : e \notin Present \/ made[e] # 1})

Plan ==
  /\ pc = "plan"
  /\ IF cancelled
     THEN Refuse("cancelled", {}, {}, planned[t]) /\ UNCHANGED << todo, bound >>
     ELSE IF PlanRefuses
     THEN /\ \E blocked \in SUBSET Culprits :
               /\ Cardinality(blocked) <= 1
               /\ Refuse("refused", {}, blocked, planned[t] \ blocked)
          /\ UNCHANGED << todo, bound >>
     ELSE /\ todo' = planned[t] \cup Matches
          /\ bound' = [e \in planned[t] \cup Matches |->
                         IF e \in Matches THEN made[e] ELSE 1]
          /\ Continue("revalidate")
  /\ UNCHANGED << world, planned, memo, fp, evidence, complete, look, history >>

Obligations == DOMAIN bound

(* One obligation after the other is classified again, from its own          *)
(* metadata, live: RevalidateAgentState lists the sessions of the entry,     *)
Take(e) ==
  /\ pc = "revalidate" /\ look = Idle /\ e \in todo
  /\ IF cancelled
     THEN Refuse("cancelled", Obligations \ todo, {}, todo) /\ UNCHANGED look
     ELSE /\ look' = IF e \in Present THEN [Idle EXCEPT !.of = {e}, !.unread = entry[e]]
                                      ELSE [Idle EXCEPT !.of = {e}, !.read = {"bad"}]
          /\ Continue("revalidate")
  /\ UNCHANGED << world, planned, memo, fp, evidence, complete, todo, bound, history >>

Blame(result, e) == Refuse(result, Obligations \ todo, {e}, todo \ {e}) /\ look' = Idle

(* A step of the classification; a cancellation it notices is blamed on the  *)
(* entry in hand.                                                            *)
Classify(found) ==
  /\ IF cancelled
     THEN \E e \in look.of : Blame("cancelled", e)
     ELSE look' = found /\ Continue("revalidate")
  /\ UNCHANGED << world, planned, memo, fp, evidence, complete, todo, bound, history >>

(* reads them one by one, a session that is gone by then being unreadable,   *)
Read(e, r) ==
  /\ pc = "revalidate" /\ e \in look.of /\ r \in look.unread
  /\ Classify([look EXCEPT !.unread = @ \ {r},
                           !.read = @ \cup {IF r \in entry[e] THEN r ELSE "bad"}])

Recorded == UNION {Evidence(e, look.read).cwds : e \in look.of}

(* looks at each directory they record,                                      *)
Sight(c) ==
  /\ pc = "revalidate" /\ look.unread = {} /\ look.proving = {}
  /\ c \in Recorded \ look.seen
  /\ LET sight == Sighted(disk.nodes, PathOf[c])
     IN  Classify([look EXCEPT !.seen = @ \cup {c},
                               !.proving = {c} \cap {x \in Cwds : sight = "absent"},
                               !.found = @ \cup ({sight} \ {"absent"})])

(* and again at one that is proven absent,                                   *)
Recheck(c) ==
  /\ pc = "revalidate" /\ c \in look.proving
  /\ look' = [look EXCEPT !.proving = {}, !.found = @ \cup {Rechecked(disk.nodes, PathOf[c])}]
  /\ Continue("revalidate")
  /\ UNCHANGED << world, planned, memo, fp, evidence, complete, todo, bound, history >>

(* and only an orphan passes.                                                *)
Conclude(e) ==
  /\ pc = "revalidate" /\ e \in look.of
  /\ look.unread = {} /\ look.proving = {} /\ Recorded \subseteq look.seen
  /\ IF Verdict(Evidence(e, look.read), look.found) = "orphaned"
     THEN todo' = todo \ {e} /\ look' = Idle /\ Continue("revalidate")
     ELSE Blame("refused", e) /\ UNCHANGED todo
  /\ UNCHANGED << world, planned, memo, fp, evidence, complete, bound, history >>

Revalidate ==
  \/ \E e \in Entries : Take(e) \/ Conclude(e)
  \/ \E e \in look.of, r \in look.unread : Read(e, r)
  \/ \E c \in Cwds : Sight(c) \/ Recheck(c)

(* Neither the target nor an obligation has been exchanged meanwhile.        *)
Lost == {e \in Obligations : e \notin Present \/ made[e] # bound[e]}

Confirm ==
  /\ pc = "revalidate" /\ todo = {}
  /\ IF Exchanged THEN Refuse("refused", Obligations, {}, {})
     ELSE IF Lost # {}
     THEN \E e \in Lost : Refuse("refused", Obligations \ {e}, {e}, {})
     ELSE IF cancelled THEN Refuse("cancelled", Obligations, {}, {})
     ELSE /\ pc' = "mutate"
          /\ report' = [report EXCEPT ![t] = [passed |-> Obligations, blocked |-> {}, left |-> {}]]
          /\ UNCHANGED << t, outcome >>
  /\ UNCHANGED << world, planned, memo, fp, evidence, complete, todo, bound, look, history >>

(* The removal the barrier was guarding, with the entries it holds.  It goes *)
(* on when the interrupt comes after the last look at the context.           *)
Mutate ==
  /\ pc = "mutate"
  /\ changed' = changed \cup {t}
  /\ LET lost == {e \in Present : Relation[e][t] \in {"descendant", "exact"}}
     IN  entry' = [e \in Entries |-> IF e \in lost THEN Absent ELSE entry[e]]
  /\ Settle("mutated")
  /\ UNCHANGED << disk, made, cancelled, events, planned, memo, fp, evidence, complete, todo,
                  bound, look, report, history >>

(* What comes after the barrier may still refuse, a done context included.   *)
GiveUp ==
  /\ pc = "mutate"
  /\ Settle(IF cancelled THEN "cancelled" ELSE "refused")
  /\ UNCHANGED << world, planned, memo, fp, evidence, complete, todo, bound, look, report,
                  history >>

Batch ==
  \/ StartBarrier \/ Fingerprint
  \/ \E e \in Entries : ScanEntry(e)
  \/ ScanFails \/ ScanReturns \/ Plan \/ Revalidate \/ Confirm \/ Mutate \/ GiveUp

Finished == pc = "done" /\ UNCHANGED vars

Next == World \/ Batch \/ Finished

Spec == Init /\ [][Next]_vars

-----------------------------------------------------------------------------
Outcomes == {"mutated", "refused", "cancelled"}

Classes == {"absent", "orphaned", "protected"}

Findings == {"live", "absent", "unavailable", "unverifiable"}

Records == {"bad"} \cup UNION (UNION {Contents[e] : e \in Entries})

TypeOK ==
  /\ disk \in Disks /\ DOMAIN entry = Entries
  /\ \A e \in Entries : entry[e] \in Contents[e] \cup {Absent}
  /\ made \in [Entries -> Nat]
  /\ changed \subseteq Targets
  /\ cancelled \in BOOLEAN
  /\ events \in 0 .. MaxEvents
  /\ planned \in [Targets -> SUBSET Entries]
  /\ memo \in [loaded : BOOLEAN, key : SUBSET SUBSET Entries,
                 items : [Entries -> Classes], complete : BOOLEAN]
  /\ pc \in {"next", "read", "scan", "plan", "revalidate", "mutate", "done"}
  /\ t \in Targets
  /\ fp \in SUBSET SUBSET Entries
  /\ evidence \in [Entries -> Classes]
  /\ complete \in BOOLEAN
  /\ todo \subseteq Entries
  /\ Obligations \subseteq Entries /\ \A e \in Obligations : bound[e] \in Nat
  /\ look \in [of : SUBSET Entries, unread : SUBSET Records, read : SUBSET Records,
                seen : SUBSET Cwds, proving : SUBSET Cwds, found : SUBSET Findings]
  /\ outcome \in [Targets -> Outcomes \cup {"pending"}]
  /\ report \in [Targets -> [passed : SUBSET Entries, blocked : SUBSET Entries,
                             left : SUBSET Entries]]
  /\ stood \subseteq Entries
  /\ moved \subseteq Targets
  /\ scanned \in BOOLEAN

(* The report accounts for every planned obligation exactly once: a removed  *)
(* target passed them all, a refused one stopped at the first that failed.   *)
(* A cancelled one ends the batch: none after it has been touched            *)
(* (cleaner/overlap_mutation.go:89-171, executor/orchestration.go:221-233).  *)
ReportComplete ==
  \A k \in Targets :
    LET r == report[k]
    IN  /\ planned[k] \subseteq r.passed \cup r.blocked \cup r.left
        /\ r.passed \cap r.blocked = {} /\ (r.passed \cup r.blocked) \cap r.left = {}
        /\ Cardinality(r.blocked) <= 1
        /\ outcome[k] = "mutated" => r.blocked = {} /\ r.left = {}
        /\ outcome[k] = "cancelled" => \A j \in Targets : j > k =>
             outcome[j] = "cancelled" /\ report[j] = Unattempted(planned[j])

Mutates(k) == outcome[k] # "mutated" /\ outcome'[k] = "mutated"

(* An entry that overlaps the target and has stood since the barrier began   *)
(* was revalidated by it, whether or not it existed when the plan was made   *)
(* or the scan remembered (cleaner/overlap_runtime.go:76-85).                *)
DiscoversOverlaps ==
  [][\A k \in Targets : Mutates(k) =>
       stood \cap Overlapping(k) \subseteq report[k].passed]_vars

(* A session that was recorded when the barrier began, and whose project was *)
(* there or away with its volume, or could not be told, keeps the whole      *)
(* component if both stay so, however the reads of the revalidation fall     *)
(* between the changes (overlap_mutation.go:125-148, recorded_cwd.go:49-89). *)
ShieldsLiveState ==
  [][\A k \in Targets : Mutates(k) =>
       \A w \in shielded : w[1] \notin Overlapping(k)]_vars

(* What is removed is the directory that was planned, not one that had taken *)
(* its place by the time the barrier began (overlap_mutation.go:81, 150).    *)
TargetPinned == [][\A k \in Targets : Mutates(k) => k \notin moved]_vars

(* overlap_runtime.go:27 "the next target retries instead of inheriting one  *)
(* target's transient failure": evidence that is refused for a provider that *)
(* failed is evidence of this barrier's own scan.                            *)
FailureNotInherited ==
  [][pc = "plan" /\ pc' # "plan" /\ ~complete /\ ~cancelled => scanned]_vars
=============================================================================
