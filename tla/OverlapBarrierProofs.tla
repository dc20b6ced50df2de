------------------------- MODULE OverlapBarrierProofs -------------------------
(****************************************************************************)
(* What holds of OverlapBarrier for every set of entries, every number of    *)
(* targets, every disk and any number of changes by the world: the report of *)
(* every target is complete, what is removed is what was planned, and,       *)
(* unless names are used again, no entry that overlaps it goes unnoticed and *)
(* none that is wanted goes with it.                                         *)
(****************************************************************************)
EXTENDS OverlapBarrier, FiniteSetTheorems, TLAPS

USE OverlapAssumption DEF Targets

-----------------------------------------------------------------------------
(* The proof of absence.                                                     *)

(* What is there is the nearest entry to itself.                             *)
LEMMA NearestItself ==
  ASSUME NEW nodes, NEW p \in Seq(STRING), p \in DOMAIN nodes
  PROVE  Nearest(nodes, p) = p
<1>1. \A a \in Above(p) : Len(a) < Len(p)
  BY DEF Above
<1> QED
  BY <1>1 DEF Nearest

(* A project that is there, or away with its volume, is not proven absent.   *)
LEMMA NotProvenAbsent ==
  ASSUME NEW d \in Disks, NEW c \in Cwds, c \in d.away \/ PathOf[c] \in DOMAIN d.nodes
  PROVE  Sighted(d.nodes, PathOf[c]) # "absent"
<1>1. PathOf[c] \in Seq(STRING)
  BY CwdAssumption
<1>2. CASE PathOf[c] \in DOMAIN d.nodes
  <2>1. Nearest(d.nodes, PathOf[c]) = PathOf[c]
    BY <1>1, <1>2, NearestItself
  <2>2. ~AbsenceProven(d.nodes, PathOf[c])
    BY <2>1 DEF AbsenceProven
  <2> QED
    BY <2>2 DEF Sighted
<1>3. CASE c \in d.away
  <2>1. ~AbsenceProven(d.nodes, PathOf[c])
    BY <1>3, AwayAssumption DEF AbsenceProven
  <2> QED
    BY <2>1 DEF Sighted
<1> QED
  BY <1>2, <1>3

-----------------------------------------------------------------------------
(* The inductive invariant, in parts.                                        *)

InBarrier == pc \in {"read", "scan", "plan", "revalidate", "mutate"}

(* What has stood, or been wanted, since the barrier began still does.       *)
WatchOK ==
  InBarrier => /\ stood \subseteq Present
               /\ \A w \in shielded :
                    w[1] \in stood /\ w[2] \in entry[w[1]] /\ Wanted(w[2], disk)
               /\ moved \subseteq changed

(* An entry that is there has been made.                                     *)
MadeOK == \A e \in Present : made[e] # 0

(* What a scan found missing of the names it was begun with is gone for good *)
(* when names are not used again.                                            *)
Vouches(names, items, asked) ==
  \A e \in names : made[e] # 0 /\ (e \in asked /\ items[e] = "absent" => e \notin Present)

MemoOK ==
  ~NamesReused /\ memo.loaded => \A names \in memo.key : Vouches(names, memo.items, Entries)

ScanOK ==
  pc = "scan" => /\ \A e \in stood \ todo : evidence[e] # "absent"
                 /\ ~NamesReused => \A names \in fp : Vouches(names, evidence, Entries \ todo)

EvidenceOK ==
  ~NamesReused /\ pc \in {"plan", "revalidate", "mutate"} =>
    \A e \in stood : evidence[e] # "absent"

(* The revalidation in hand has yet to read a record that is wanted, or to   *)
(* look at its directory, or has found it not to be absent.                  *)
LookOK ==
  /\ pc # "revalidate" \/ look.of = {} => look = Idle
  /\ look.of \subseteq todo /\ \A e, x \in look.of : e = x
  /\ \A w \in shielded : w[1] \in look.of =>
       /\ w[2] \in look.unread \cup look.read
       /\ w[2] \in look.seen => \E found \in look.found : found # "absent"

(* The obligations are what was planned and what was found; those that have  *)
(* been revalidated record nothing that is wanted.                           *)
BoundOK ==
  pc \in {"revalidate", "mutate"} =>
    /\ planned[t] \cup Matches \subseteq Obligations
    /\ todo \subseteq Obligations
    /\ t \notin moved
    /\ \A w \in shielded : w[1] \notin Obligations \ todo
    /\ pc = "mutate" => todo = {}

(* Targets the batch has not come to are as the plan left them.              *)
ReportOK ==
  /\ pc # "done" => \A k \in Targets : k >= t => outcome[k] = "pending"
  /\ pc # "done" => \A k \in Targets : k > t => report[k] = Unattempted(planned[k])
  /\ pc \notin {"mutate", "done"} => report[t] = Unattempted(planned[t])
  /\ pc = "mutate" =>
       report[t] = [passed |-> Obligations, blocked |-> {}, left |-> {}]

Inv == /\ TypeOK /\ WatchOK /\ MadeOK /\ MemoOK /\ ScanOK /\ EvidenceOK /\ LookOK
       /\ BoundOK /\ ReportOK /\ ReportComplete

-----------------------------------------------------------------------------
(* Initially.                                                                *)

LEMMA IdleTyped ==
  Idle \in [of : SUBSET Entries, unread : SUBSET Records, read : SUBSET Records,
            seen : SUBSET Cwds, proving : SUBSET Cwds, found : SUBSET Findings]
BY DEF Idle

LEMMA InitInv == Init => Inv
<1> SUFFICES ASSUME Init PROVE Inv
  OBVIOUS
<1> USE DEF Init
<1>1. DOMAIN bound = {} /\ Obligations = {}
  BY DEF Obligations
<1>2. planned \in [Targets -> SUBSET Entries]
  BY DEF Present, Overlapping
<1>3. Empty \in [loaded : BOOLEAN, key : SUBSET SUBSET Entries,
                 items : [Entries -> Classes], complete : BOOLEAN]
  BY DEF Empty, Unread, Classes
<1>4. report \in [Targets -> [passed : SUBSET Entries, blocked : SUBSET Entries,
                              left : SUBSET Entries]]
  BY <1>2 DEF Unattempted
<1>5. TypeOK
  <2>1. DOMAIN entry = Entries /\ \A e \in Entries : entry[e] \in Contents[e] \cup {Absent}
    OBVIOUS
  <2>2. made \in [Entries -> Nat] /\ evidence \in [Entries -> Classes]
        /\ outcome \in [Targets -> Outcomes \cup {"pending"}]
    BY DEF Unread, Classes
  <2>3. \A e \in Obligations : bound[e] \in Nat
    BY <1>1
  <2>4. /\ fp \in SUBSET SUBSET Entries /\ todo \subseteq Entries
        /\ stood \subseteq Entries /\ moved \subseteq Targets
    OBVIOUS
  <2>5. disk \in Disks /\ changed \subseteq Targets /\ t \in Targets /\ events \in 0 .. MaxEvents
    OBVIOUS
  <2>6. cancelled \in BOOLEAN /\ complete \in BOOLEAN /\ scanned \in BOOLEAN
        /\ pc \in {"next", "read", "scan", "plan", "revalidate", "mutate", "done"}
    OBVIOUS
  <2>7. memo \in [loaded : BOOLEAN, key : SUBSET SUBSET Entries,
                  items : [Entries -> Classes], complete : BOOLEAN]
    BY <1>3
  <2>8. look \in [of : SUBSET Entries, unread : SUBSET Records, read : SUBSET Records,
                  seen : SUBSET Cwds, proving : SUBSET Cwds, found : SUBSET Findings]
    BY IdleTyped
  <2> HIDE DEF Init
  <2> QED
    BY <1>1, <1>2, <1>4, <2>8, <2>1, <2>2, <2>3, <2>4, <2>5, <2>6, <2>7 DEF TypeOK
<1>6. MadeOK /\ MemoOK
  BY DEF MadeOK, Present, MemoOK, Empty
<1>7. WatchOK /\ ScanOK /\ EvidenceOK /\ LookOK /\ BoundOK /\ ReportOK
  BY DEF WatchOK, InBarrier, ScanOK, EvidenceOK, LookOK, BoundOK, ReportOK, Idle
<1>8. ReportComplete
  <2>1. \A k \in Targets : report[k].passed = {} /\ report[k].blocked = {}
                          /\ report[k].left = planned[k]
    BY DEF Unattempted
  <2>2. Cardinality({}) <= 1
    BY FS_EmptySet
  <2>3. \A k \in Targets : outcome[k] = "pending"
    OBVIOUS
  <2> HIDE DEF Init
  <2> QED
    BY <2>1, <2>2, <2>3 DEF ReportComplete
<1> QED
  BY <1>5, <1>6, <1>7, <1>8 DEF Inv

-----------------------------------------------------------------------------
(* A change by the world leaves the batch where it is, and can only take     *)
(* away from what has stood since the barrier began.                         *)

Drift ==
  /\ \A e \in Entries : made[e] # 0 => made'[e] # 0
  /\ ~NamesReused => \A e \in Entries \ Present : made[e] # 0 => e \notin Present'
  /\ stood' \subseteq stood /\ shielded' \subseteq shielded
  /\ changed \subseteq changed'

LEMMA WorldDrift ==
  ASSUME TypeOK, MadeOK, WatchOK, World
  PROVE  TypeOK' /\ MadeOK' /\ WatchOK' /\ Drift /\ UNCHANGED << batch, moved, scanned >>
<1> DEFINE Goal == TypeOK' /\ MadeOK' /\ WatchOK' /\ Drift /\ UNCHANGED << batch, moved, scanned >>
<1> USE DEF TypeOK, Change, Present, Obligations, batch, world, history, Drift
<1>1. ASSUME NEW e \in Entries, NEW records \in Contents[e], Create(e, records) PROVE Goal
  <2> USE <1>1 DEF Create
  <2>1. TypeOK'
    OBVIOUS
  <2>2. MadeOK' /\ Drift /\ UNCHANGED << batch, moved, scanned >>
    BY DEF MadeOK
  <2>3. WatchOK'
    BY DEF WatchOK, InBarrier
  <2> QED
    BY <2>1, <2>2, <2>3
<1>2. ASSUME NEW e \in Entries, NEW records \in Contents[e], Record(e, records) PROVE Goal
  <2> USE <1>2 DEF Record
  <2>1. TypeOK'
    OBVIOUS
  <2>2. MadeOK' /\ Drift /\ UNCHANGED << batch, moved, scanned >>
    BY DEF MadeOK
  <2>3. WatchOK'
    <3>1. stood' = stood /\ disk' = disk /\ changed' = changed /\ moved' = moved /\ pc' = pc
      OBVIOUS
    <3>5. records # Absent
      BY DEF Absent
    <3>2. Present \subseteq Present'
      BY <3>5
    <3>3. \A w \in shielded' : w \in shielded /\ (w[1] # e \/ w[2] \in records)
      OBVIOUS
    <3>4. \A x \in Entries : entry'[x] = IF x = e THEN records ELSE entry[x]
      OBVIOUS
    <3> QED
      BY <3>1, <3>2, <3>3, <3>4 DEF WatchOK, InBarrier
  <2> QED
    BY <2>1, <2>2, <2>3
<1>3. ASSUME NEW e \in Entries, Delete(e) PROVE Goal
  <2> USE <1>3 DEF Delete
  <2>1. TypeOK'
    <3>1. \A x \in Entries : entry'[x] \in {entry[x], Absent}
      OBVIOUS
    <3>2. DOMAIN entry' = Entries /\ changed' \subseteq Targets
      OBVIOUS
    <3> QED
      BY <3>1, <3>2
  <2>2. MadeOK' /\ Drift /\ UNCHANGED << batch, moved, scanned >>
    BY DEF MadeOK
  <2>3. WatchOK'
    BY DEF WatchOK, InBarrier
  <2> QED
    BY <2>1, <2>2, <2>3
<1>4. ASSUME NEW d \in Disks, Move(d) PROVE Goal
  <2> USE <1>4 DEF Move
  <2>1. TypeOK'
    OBVIOUS
  <2>2. MadeOK' /\ Drift /\ UNCHANGED << batch, moved, scanned >>
    BY DEF MadeOK
  <2>3. WatchOK'
    <3>1. \A w \in shielded' : w \in shielded /\ Wanted(w[2], disk')
      OBVIOUS
    <3> QED
      BY <3>1 DEF WatchOK, InBarrier
  <2> QED
    BY <2>1, <2>2, <2>3
<1>5. ASSUME NEW k \in Targets, Replace(k) PROVE Goal
  <2> USE <1>5 DEF Replace
  <2>1. TypeOK'
    <3>1. \A e \in Entries : entry'[e] \in {entry[e], Absent}
      OBVIOUS
    <3>2. DOMAIN entry' = Entries
      OBVIOUS
    <3> QED
      BY <3>1, <3>2
  <2>2. MadeOK' /\ Drift /\ UNCHANGED << batch, moved, scanned >>
    BY DEF MadeOK
  <2>3. WatchOK'
    BY DEF WatchOK, InBarrier
  <2> QED
    BY <2>1, <2>2, <2>3
<1>6. CASE Cancel
  BY <1>6 DEF Cancel, MadeOK, WatchOK, InBarrier
<1> QED
  BY <1>1, <1>2, <1>3, <1>4, <1>5, <1>6 DEF World

LEMMA WorldStep == ASSUME Inv, World PROVE Inv'
<1> USE DEF Inv
<1>1. TypeOK' /\ MadeOK' /\ WatchOK' /\ Drift /\ UNCHANGED << batch, moved, scanned >>
  BY WorldDrift
<1> USE <1>1 DEF batch
<1>2. MemoOK'
  <2> SUFFICES ASSUME ~NamesReused, memo.loaded, NEW names \in memo.key, NEW e \in names
               PROVE  /\ made'[e] # 0
                      /\ memo.items[e] = "absent" => e \notin Present'
    BY DEF MemoOK, Vouches
  <2>1. e \in Entries /\ made[e] # 0 /\ (memo.items[e] = "absent" => e \notin Present)
    BY DEF MemoOK, Vouches, TypeOK
  <2> QED
    BY <2>1 DEF Drift
<1>3. ScanOK'
  <2>1. pc = "scan" => \A e \in stood' \ todo : evidence[e] # "absent"
    BY DEF ScanOK, Drift
  <2>2. ASSUME pc = "scan", ~NamesReused, NEW names \in fp, NEW e \in names
        PROVE  made'[e] # 0 /\ (e \in Entries \ todo /\ evidence[e] = "absent" => e \notin Present')
    <3>1. e \in Entries /\ made[e] # 0
          /\ (e \in Entries \ todo /\ evidence[e] = "absent" => e \notin Present)
      BY <2>2 DEF ScanOK, Vouches, TypeOK
    <3> QED
      BY <3>1, <2>2 DEF Drift
  <2> QED
    BY <2>1, <2>2 DEF ScanOK, Vouches
<1>4. EvidenceOK' /\ BoundOK' /\ LookOK'
  BY DEF EvidenceOK, BoundOK, LookOK, Drift, Matches, Obligations
<1>5. ReportOK' /\ ReportComplete'
  BY DEF ReportOK, ReportComplete, Obligations
<1> QED
  BY <1>2, <1>3, <1>4, <1>5

-----------------------------------------------------------------------------
(* The batch.                                                                *)

(* A target that is done with keeps its outcome, and the batch goes on to    *)
(* the next one or ends.                                                     *)
LEMMA SettleStep ==
  ASSUME TypeOK, NEW result \in Outcomes, Settle(result)
  PROVE  /\ t' \in Targets /\ pc' \in {"next", "done"}
         /\ outcome' \in [Targets -> Outcomes \cup {"pending"}]
         /\ outcome'[t] = result
         /\ \A k \in Targets : k < t => outcome'[k] = outcome[k]
         /\ \A k \in Targets : k > t =>
              outcome'[k] = outcome[k] \/ (pc' = "done" /\ outcome'[k] = "cancelled")
         /\ pc' = "next" => t' = t + 1 /\ \A k \in Targets : k > t => outcome'[k] = outcome[k]
         /\ \A k \in Targets : k > t =>
              outcome'[k] = IF result = "cancelled" THEN "cancelled" ELSE outcome[k]
<1> USE DEF Settle, Outcomes
<1>1. t \in 1 .. T /\ outcome \in [Targets -> Outcomes \cup {"pending"}]
  BY DEF TypeOK
<1>2. outcome' \in [Targets -> Outcomes \cup {"pending"}]
  BY <1>1
<1>3. CASE result = "cancelled" \/ t = T
  BY <1>1, <1>2, <1>3
<1>4. CASE result # "cancelled" /\ t # T
  <2>1. pc' = "next" /\ t' = t + 1 /\ t + 1 \in 1 .. T
    BY <1>1, <1>4
  <2>2. \A k \in Targets : outcome'[k] = IF k = t THEN result ELSE outcome[k]
    BY <1>4
  <2>3. \A k \in Targets : k < t => outcome'[k] = outcome[k]
    BY <1>1, <2>2
  <2>4. \A k \in Targets : k > t => outcome'[k] = outcome[k]
    BY <1>1, <2>2
  <2>5. outcome'[t] = result
    BY <1>1, <2>2
  <2> HIDE DEF Settle
  <2> QED
    BY <1>2, <1>4, <2>1, <2>3, <2>4, <2>5
<1> QED
  BY <1>3, <1>4

(* What a report has to say of the obligations a target was planned with.    *)
Accounts(result, planning, passed, blocked, left) ==
  /\ passed \subseteq Entries /\ blocked \subseteq Entries /\ left \subseteq Entries
  /\ planning \subseteq passed \cup blocked \cup left
  /\ passed \cap blocked = {} /\ (passed \cup blocked) \cap left = {}
  /\ Cardinality(blocked) <= 1
  /\ result = "mutated" => blocked = {} /\ left = {}

(* What settling a target leaves to be shown of the step that does it.       *)
Settled ==
  /\ TypeOK' /\ ReportOK' /\ ReportComplete'
  /\ pc' \in {"next", "done"} /\ look' = Idle

LEMMA SmallSets == Cardinality({}) <= 1 /\ \A x : Cardinality({x}) <= 1
<1>1. Cardinality({}) = 0
  BY FS_EmptySet
<1>2. ASSUME NEW x PROVE Cardinality({x}) <= 1
  <2>1. Cardinality({x}) = 1
    BY FS_Singleton
  <2> QED
    BY <2>1
<1>3. Cardinality({}) <= 1
  BY <1>1
<1> QED
  BY <1>2, <1>3, Zenon

LEMMA UnattemptedAccounts ==
  ASSUME TypeOK
  PROVE  \A k \in Targets, result \in {"refused", "cancelled"} :
           Accounts(result, planned[k], {}, {}, planned[k])
<1>1. \A k \in Targets : planned[k] \subseteq Entries
  BY DEF TypeOK
<1>2. Cardinality({}) <= 1
  BY SmallSets
<1> QED
  BY <1>1, <1>2 DEF Accounts

(* Nothing is cancelled while the batch goes on.                             *)
LEMMA NoneCancelled ==
  ASSUME TypeOK, ReportOK, ReportComplete, pc # "done", NEW k \in Targets
  PROVE  outcome[k] # "cancelled"
<1>1. t \in 1 .. T /\ outcome[t] = "pending"
  BY DEF TypeOK, ReportOK
<1>2. CASE k < t
  BY <1>1, <1>2 DEF ReportComplete
<1>3. CASE k >= t
  BY <1>3 DEF ReportOK
<1> QED
  BY <1>1, <1>2, <1>3

(* A cancelled target leaves every later one cancelled and untried.          *)
EndsBatch(k) ==
  outcome[k] = "cancelled" => \A j \in Targets : j > k =>
    outcome[j] = "cancelled" /\ report[j] = Unattempted(planned[j])

LEMMA SettleEnds ==
  ASSUME TypeOK, ReportOK, ReportComplete, pc # "done", planned' = planned,
         NEW result \in Outcomes, Settle(result),
         \A k \in Targets : k > t => report'[k] = report[k],
         NEW k \in Targets
  PROVE  EndsBatch(k)'
<1>1. t \in 1 .. T /\ k \in 1 .. T
  BY DEF TypeOK
<1>2. CASE k < t
  BY <1>2, NoneCancelled, SettleStep DEF EndsBatch
<1>3. CASE k >= t
  <2> SUFFICES ASSUME outcome'[k] = "cancelled", NEW j \in Targets, j > k
               PROVE  outcome'[j] = "cancelled" /\ report'[j] = Unattempted(planned'[j])
    BY DEF EndsBatch
  <2>1. j > t
    BY <1>1, <1>3
  <2>2. result = "cancelled"
    <3>1. CASE k = t
      BY <3>1, SettleStep
    <3>2. CASE k > t
      BY <3>2, NoneCancelled, SettleStep
    <3> QED
      BY <1>1, <1>3, <3>1, <3>2
  <2>3. outcome'[j] = "cancelled"
    BY <2>1, <2>2, SettleStep
  <2>4. report'[j] = Unattempted(planned[j])
    BY <2>1 DEF ReportOK
  <2> QED
    BY <2>3, <2>4
<1> QED
  BY <1>1, <1>2, <1>3

(* The types of what a step that settles a target leaves alone.              *)
RestTyped ==
  /\ disk' \in Disks /\ DOMAIN entry' = Entries
  /\ \A e \in Entries : entry'[e] \in Contents[e] \cup {Absent}
  /\ made' \in [Entries -> Nat]
  /\ changed' \subseteq Targets /\ cancelled' \in BOOLEAN /\ events' \in 0 .. MaxEvents
  /\ memo' \in [loaded : BOOLEAN, key : SUBSET SUBSET Entries,
                items : [Entries -> Classes], complete : BOOLEAN]
  /\ fp' \in SUBSET SUBSET Entries
  /\ evidence' \in [Entries -> Classes]
  /\ complete' \in BOOLEAN
  /\ todo' \subseteq Entries
  /\ Obligations' \subseteq Entries /\ \A e \in Obligations' : bound'[e] \in Nat
  /\ stood' \subseteq Entries
  /\ look' = Idle
  /\ moved' \subseteq Targets
  /\ scanned' \in BOOLEAN
  /\ planned' = planned

LEMMA RefuseStep ==
  ASSUME TypeOK, ReportOK, ReportComplete, RestTyped, pc # "done",
         NEW result \in {"refused", "cancelled"}, NEW passed, NEW blocked, NEW left,
         Accounts(result, planned[t], passed, blocked, left),
         Refuse(result, passed, blocked, left)
  PROVE  Settled
<1>1. Settle(result) /\ result \in Outcomes
  BY DEF Refuse, Outcomes
<1>2. /\ t' \in Targets /\ pc' \in {"next", "done"}
      /\ outcome' \in [Targets -> Outcomes \cup {"pending"}]
      /\ outcome'[t] = result
      /\ \A k \in Targets : k < t => outcome'[k] = outcome[k]
      /\ \A k \in Targets : k > t =>
           outcome'[k] = outcome[k] \/ (pc' = "done" /\ outcome'[k] = "cancelled")
      /\ pc' = "next" => t' = t + 1 /\ \A k \in Targets : k > t => outcome'[k] = outcome[k]
  BY <1>1, SettleStep
<1>3. /\ report' \in [Targets -> [passed : SUBSET Entries, blocked : SUBSET Entries,
                                  left : SUBSET Entries]]
      /\ report'[t] = [passed |-> passed, blocked |-> blocked, left |-> left]
      /\ \A k \in Targets : k # t => report'[k] = report[k]
  BY DEF Refuse, Accounts, TypeOK
<1>4. TypeOK'
  BY <1>2, <1>3, IdleTyped DEF TypeOK, RestTyped
<1>5. ReportOK'
  BY <1>2, <1>3 DEF ReportOK, RestTyped, TypeOK
<1>6. ReportComplete'
  <2> SUFFICES ASSUME NEW k \in Targets
      PROVE  Accounts(outcome'[k], planned[k], report'[k].passed, report'[k].blocked,
                      report'[k].left)
    <3>1. planned' = planned /\ \A j \in Targets : j > t => report'[j] = report[j]
      BY <1>3 DEF RestTyped, TypeOK
    <3>2. \A j \in Targets : EndsBatch(j)'
      BY <1>1, <3>1, SettleEnds
    <3> QED
      BY <3>1, <3>2 DEF ReportComplete, Accounts, EndsBatch
  <2>1. CASE k = t
    BY <2>1, <1>2, <1>3
  <2>2. CASE k < t
    BY <2>2, <1>2, <1>3 DEF ReportComplete, Accounts, TypeOK
  <2>3. CASE k > t
    <3>1. report'[k] = Unattempted(planned[k]) /\ outcome'[k] \in {"pending", "cancelled"}
      BY <2>3, <1>2, <1>3 DEF ReportOK, TypeOK
    <3>2. Accounts("cancelled", planned[k], {}, {}, planned[k])
      BY UnattemptedAccounts
    <3> QED
      BY <3>1, <3>2 DEF Accounts, Unattempted
  <2> QED
    BY <2>1, <2>2, <2>3 DEF TypeOK
<1> QED
  BY <1>2, <1>4, <1>5, <1>6 DEF Settled, RestTyped

(* The rest of the invariant is about barriers, the entries and the memo.    *)
LEMMA SettledInv ==
  ASSUME Inv, Settled, MadeOK', MemoOK'
  PROVE  Inv'
BY DEF Inv, Settled, WatchOK, InBarrier, ScanOK, EvidenceOK, LookOK, BoundOK, Idle

LEMMA SameWorld ==
  ASSUME Inv, UNCHANGED << world, memo >>
  PROVE  MadeOK' /\ MemoOK'
BY DEF Inv, world, MadeOK, MemoOK, Vouches, Present

LEMMA StartBarrierStep == ASSUME Inv, StartBarrier PROVE Inv'
<1> USE DEF Inv, StartBarrier, world, batch
<1>1. MadeOK' /\ MemoOK'
  BY SameWorld
<1>2. RestTyped
  BY DEF RestTyped, TypeOK, LookOK, Present, Obligations
<1>3. CASE cancelled
  <2>1. Refuse("cancelled", {}, {}, planned[t])
    BY <1>3
  <2>2. Accounts("cancelled", planned[t], {}, {}, planned[t])
    BY UnattemptedAccounts DEF TypeOK
  <2> QED
    BY <1>1, <1>2, <2>1, <2>2, RefuseStep, SettledInv
<1>4. CASE ~cancelled
  <2> USE <1>4 DEF Continue
  <2>1. TypeOK'
    BY <1>2 DEF RestTyped, TypeOK, Idle
  <2>2. WatchOK'
    BY DEF WatchOK, Present
  <2>3. ScanOK' /\ EvidenceOK' /\ LookOK' /\ BoundOK'
    BY DEF ScanOK, EvidenceOK, LookOK, Idle, BoundOK
  <2>4. ReportOK' /\ ReportComplete'
    BY DEF ReportOK, ReportComplete
  <2> QED
    BY <1>1, <2>1, <2>2, <2>3, <2>4
<1> QED
  BY <1>3, <1>4

LEMMA FingerprintStep == ASSUME Inv, Fingerprint PROVE Inv'
<1> USE DEF Inv, Fingerprint, world, Continue
<1>1. MadeOK' /\ MemoOK'
  BY SameWorld
<1>2. fp' \in SUBSET SUBSET Entries /\ \A names \in fp' : names = Present
  BY DEF Present
<1>3. WatchOK' /\ LookOK' /\ BoundOK' /\ ReportOK' /\ ReportComplete'
  BY DEF WatchOK, InBarrier, LookOK, Idle, BoundOK, ReportOK, ReportComplete, Present
<1>4. CASE Reusable(fp')
  <2> USE <1>4
  <2>1. TypeOK'
    BY <1>2 DEF TypeOK, Obligations
  <2>2. EvidenceOK'
    <3> SUFFICES ASSUME ~NamesReused, NEW e \in stood PROVE memo.items[e] # "absent"
      BY DEF EvidenceOK
    <3>1. memo.loaded /\ Present \in memo.key
      BY <1>2 DEF Reusable
    <3>2. e \in Present /\ e \in Entries
      BY DEF WatchOK, InBarrier, Present
    <3> QED
      BY <3>1, <3>2 DEF MemoOK, Vouches
  <2> QED
    BY <1>1, <1>3, <2>1, <2>2 DEF ScanOK
<1>5. CASE ~Reusable(fp')
  <2> USE <1>5
  <2>1. TypeOK'
    BY <1>2 DEF TypeOK, Obligations, Unread, Classes
  <2>2. ScanOK'
    BY <1>2 DEF ScanOK, Vouches, MadeOK, TypeOK, WatchOK, InBarrier, Present
  <2> QED
    BY <1>1, <1>3, <2>1, <2>2 DEF EvidenceOK
<1> QED
  BY <1>4, <1>5

LEMMA ScanEntryStep == ASSUME Inv, NEW e \in Entries, ScanEntry(e) PROVE Inv'
<1> USE DEF Inv, ScanEntry, world, history
<1>1. MadeOK' /\ MemoOK'
  BY SameWorld
<1>2. PICK class \in Classes :
        /\ evidence' = [evidence EXCEPT ![e] = class]
        /\ e \in Present <=> class # "absent"
  BY DEF Classes
<1>8. TypeOK'
  BY <1>2 DEF TypeOK, Obligations
<1>3. WatchOK' /\ EvidenceOK' /\ LookOK' /\ BoundOK' /\ ReportOK' /\ ReportComplete'
  BY DEF WatchOK, InBarrier, EvidenceOK, LookOK, Idle, BoundOK, ReportOK, ReportComplete,
     Present, Obligations
<1>4. evidence'[e] = class /\ \A x \in Entries \ {e} : evidence'[x] = evidence[x]
  BY <1>2 DEF TypeOK
<1>5. Present' = Present
  BY DEF Present
<1>6. \A x \in stood \ todo' : evidence'[x] # "absent"
  BY <1>2, <1>4 DEF ScanOK, WatchOK, InBarrier, TypeOK
<1>7. ASSUME ~NamesReused, NEW names \in fp, NEW x \in names
      PROVE  made'[x] # 0 /\ (x \in Entries \ todo' /\ evidence'[x] = "absent" => x \notin Present)
  BY <1>2, <1>4, <1>7 DEF ScanOK, Vouches, TypeOK
<1> QED
  BY <1>1, <1>3, <1>5, <1>6, <1>7, <1>8 DEF ScanOK, Vouches

LEMMA ScanFailsStep == ASSUME Inv, ScanFails PROVE Inv'
<1> USE DEF Inv, ScanFails, world, history
<1>1. MadeOK' /\ MemoOK'
  BY SameWorld
<1>2. RestTyped
  BY DEF RestTyped, TypeOK, LookOK, Obligations
<1>3. PICK result \in {"refused", "cancelled"} : Refuse(result, {}, {}, planned[t])
  OBVIOUS
<1>4. Accounts(result, planned[t], {}, {}, planned[t])
  <2>1. TypeOK /\ t \in Targets
    BY DEF TypeOK
  <2> QED
    BY <2>1, UnattemptedAccounts
<1> QED
  BY <1>1, <1>2, <1>3, <1>4, RefuseStep, SettledInv

LEMMA ScanReturnsStep == ASSUME Inv, ScanReturns PROVE Inv'
<1> USE DEF Inv, ScanReturns, world, history, Continue
<1>1. TypeOK'
  <2>1. memo' \in [loaded : BOOLEAN, key : SUBSET SUBSET Entries,
                   items : [Entries -> Classes], complete : BOOLEAN]
    BY DEF TypeOK
  <2> QED
    BY <2>1 DEF TypeOK, Obligations
<1>2. WatchOK' /\ LookOK' /\ BoundOK' /\ ReportOK' /\ ReportComplete' /\ ScanOK'
  BY DEF WatchOK, InBarrier, LookOK, Idle, BoundOK, ReportOK, ReportComplete, ScanOK,
     Present, Obligations
<1>3. MadeOK' /\ Present' = Present
  BY DEF MadeOK, Present
<1>4. EvidenceOK'
  BY DEF EvidenceOK, ScanOK
<1>5. MemoOK'
  BY <1>3 DEF MemoOK, ScanOK, Vouches
<1> QED
  BY <1>1, <1>2, <1>3, <1>4, <1>5

LEMMA PlanStep == ASSUME Inv, Plan PROVE Inv'
<1> USE DEF Inv, Plan, world, history
<1>1. MadeOK' /\ MemoOK'
  BY SameWorld
<1>2. t \in Targets /\ planned[t] \subseteq Entries /\ Matches \subseteq Entries
  BY DEF TypeOK, Matches
<1>3. CASE cancelled \/ PlanRefuses
  <2>1. RestTyped
    BY <1>3 DEF RestTyped, TypeOK, LookOK, Obligations
  <2>2. PICK result \in {"refused", "cancelled"}, blocked \in SUBSET planned[t] :
          /\ Refuse(result, {}, blocked, planned[t] \ blocked)
          /\ Cardinality(blocked) <= 1
    <3>1. CASE cancelled
      <4>1. Refuse("cancelled", {}, {}, planned[t] \ {})
        BY <3>1
      <4> QED
        BY <4>1, SmallSets
    <3>2. CASE ~cancelled
      BY <1>3, <3>2 DEF Culprits
    <3> QED
      BY <3>1, <3>2
  <2>3. Accounts(result, planned[t], {}, blocked, planned[t] \ blocked)
    BY <1>2, <2>2 DEF Accounts
  <2> QED
    BY <1>1, <2>1, <2>2, <2>3, RefuseStep, SettledInv
<1>4. CASE ~cancelled /\ ~PlanRefuses
  <2> USE <1>4 DEF Continue
  <2>1. DOMAIN bound' = planned[t] \cup Matches
        /\ \A e \in planned[t] \cup Matches : bound'[e] \in Nat
    BY <1>2 DEF TypeOK
  <2>2. TypeOK'
    BY <1>2, <2>1 DEF TypeOK, Obligations
  <2>3. WatchOK' /\ ScanOK' /\ EvidenceOK' /\ ReportOK' /\ ReportComplete'
    BY DEF WatchOK, InBarrier, ScanOK, EvidenceOK, ReportOK, ReportComplete, Present
  <2>4. t \notin moved
    BY DEF PlanRefuses, Exchanged, WatchOK, InBarrier
  <2>5. BoundOK'
    BY <2>1, <2>4 DEF BoundOK, Obligations, Matches
  <2>6. LookOK'
    <3>1. look = Idle /\ look' = Idle /\ look.of = {}
      BY DEF LookOK, Idle
    <3> QED
      BY <3>1 DEF LookOK
  <2> QED
    BY <1>1, <2>2, <2>3, <2>5, <2>6
<1> QED
  BY <1>3, <1>4

(* The steps of a revalidation.                                              *)

LEMMA BlameStep ==
  ASSUME Inv, pc = "revalidate", NEW e \in Entries, e \in todo,
         NEW result \in {"refused", "cancelled"}, Blame(result, e),
         UNCHANGED << world, planned, memo, fp, evidence, complete, todo, bound, history >>
  PROVE  Inv'
<1> USE DEF Inv, Blame, world, history
<1>1. MadeOK' /\ MemoOK'
  BY SameWorld
<1>2. /\ t \in Targets /\ planned[t] \subseteq Obligations /\ todo \subseteq Obligations
      /\ Obligations \subseteq Entries
  BY DEF TypeOK, BoundOK
<1>3. RestTyped
  BY DEF RestTyped, TypeOK, Obligations
<1>4. Accounts(result, planned[t], Obligations \ todo, {e}, todo \ {e})
  BY <1>2, SmallSets DEF Accounts
<1>5. Refuse(result, Obligations \ todo, {e}, todo \ {e})
  OBVIOUS
<1> QED
  BY <1>1, <1>3, <1>4, <1>5, RefuseStep, SettledInv

(* A step that goes on with the revalidation disturbs only what it has found *)
(* and what is left to do.                                                   *)
LEMMA GoOn ==
  ASSUME Inv, pc = "revalidate", Continue("revalidate"),
         look' \in [of : SUBSET Entries, unread : SUBSET Records, read : SUBSET Records,
                    seen : SUBSET Cwds, proving : SUBSET Cwds, found : SUBSET Findings],
         LookOK', todo' \subseteq todo, \A w \in shielded : w[1] \notin todo \ todo',
         UNCHANGED << world, planned, memo, fp, evidence, complete, bound, history >>
  PROVE  Inv'
<1> USE DEF Inv, Continue, world, history
<1>1. MadeOK' /\ MemoOK'
  BY SameWorld
<1>2. TypeOK'
  BY DEF TypeOK, Obligations
<1>3. WatchOK' /\ ScanOK' /\ EvidenceOK' /\ ReportOK' /\ ReportComplete'
  BY DEF WatchOK, InBarrier, ScanOK, EvidenceOK, ReportOK, ReportComplete, Present
<1>4. BoundOK'
  BY DEF BoundOK, Obligations, Matches
<1> QED
  BY <1>1, <1>2, <1>3, <1>4

LEMMA TakeStep == ASSUME Inv, NEW e \in Entries, Take(e) PROVE Inv'
<1> USE DEF Inv, Take
<1>1. CASE cancelled
  <2> USE DEF world, history
  <2>1. MadeOK' /\ MemoOK'
    BY SameWorld
  <2>2. /\ t \in Targets /\ planned[t] \subseteq Obligations /\ todo \subseteq Obligations
        /\ Obligations \subseteq Entries
    BY DEF TypeOK, BoundOK
  <2>3. RestTyped
    BY <1>1 DEF RestTyped, TypeOK, Obligations
  <2>4. Accounts("cancelled", planned[t], Obligations \ todo, {}, todo)
    BY <2>2, SmallSets DEF Accounts
  <2>5. Refuse("cancelled", Obligations \ todo, {}, todo)
    BY <1>1
  <2> QED
    BY <2>1, <2>3, <2>4, <2>5, RefuseStep, SettledInv
<1>2. CASE ~cancelled
  <2>1. look'.of = {e} /\ look'.seen = {} /\ (e \in Present => look'.unread = entry[e])
    BY <1>2 DEF Idle
  <2>2. look' \in [of : SUBSET Entries, unread : SUBSET Records, read : SUBSET Records,
                   seen : SUBSET Cwds, proving : SUBSET Cwds, found : SUBSET Findings]
    <3>1. e \in Present => entry[e] \subseteq Records
      BY DEF TypeOK, Present, Records
    <3>2. "bad" \in Records
      BY DEF Records
    <3>3. CASE e \in Present
      <4>1. look' = [of |-> {e}, unread |-> entry[e], read |-> {}, seen |-> {},
                     proving |-> {}, found |-> {}]
        BY <1>2, <3>3 DEF Idle
      <4> QED
        BY <3>1, <3>3, <4>1
    <3>4. CASE e \notin Present
      <4>1. look' = [of |-> {e}, unread |-> {}, read |-> {"bad"}, seen |-> {},
                     proving |-> {}, found |-> {}]
        BY <1>2, <3>4 DEF Idle
      <4> QED
        BY <3>2, <4>1
    <3> QED
      BY <3>3, <3>4
  <2>3. \A w \in shielded : w[1] \in Present /\ w[2] \in entry[w[1]]
    BY DEF WatchOK, InBarrier
  <2>4. LookOK'
    BY <2>1, <2>3 DEF LookOK, history, Continue
  <2>5. pc = "revalidate" /\ Continue("revalidate") /\ todo' = todo
        /\ UNCHANGED << world, planned, memo, fp, evidence, complete, bound, history >>
    BY <1>2
  <2> QED
    BY <2>2, <2>4, <2>5, GoOn
<1> QED
  BY <1>1, <1>2

(* A step of the classification is cancelled or adds to what was found.      *)
LEMMA ClassifyStep ==
  ASSUME Inv, pc = "revalidate", look.of # {}, NEW found, Classify(found),
         found \in [of : SUBSET Entries, unread : SUBSET Records, read : SUBSET Records,
                    seen : SUBSET Cwds, proving : SUBSET Cwds, found : SUBSET Findings],
         found.of = look.of,
         \A w \in shielded : w[1] \in look.of =>
           /\ w[2] \in found.unread \cup found.read
           /\ w[2] \in found.seen => \E x \in found.found : x # "absent"
  PROVE  Inv'
<1> USE DEF Classify
<1>1. CASE cancelled
  <2>1. PICK e \in look.of : Blame("cancelled", e)
    BY <1>1
  <2>2. e \in Entries /\ e \in todo
    BY DEF Inv, LookOK, TypeOK
  <2> QED
    BY <2>1, <2>2, BlameStep
<1>2. CASE ~cancelled
  <2>1. look' = found /\ Continue("revalidate") /\ todo' = todo
        /\ UNCHANGED << world, planned, memo, fp, evidence, complete, bound, history >>
    BY <1>2
  <2>2. LookOK'
    BY <2>1 DEF Inv, LookOK, history, Continue
  <2> QED
    BY <2>1, <2>2, GoOn
<1> QED
  BY <1>1, <1>2

LEMMA ReadStep ==
  ASSUME Inv, NEW e \in look.of, NEW r \in look.unread, Read(e, r) PROVE Inv'
<1> USE DEF Read
<1> DEFINE record == IF r \in entry[e] THEN r ELSE "bad"
           found == [look EXCEPT !.unread = @ \ {r}, !.read = @ \cup {record}]
<1>1. look \in [of : SUBSET Entries, unread : SUBSET Records, read : SUBSET Records,
                seen : SUBSET Cwds, proving : SUBSET Cwds, found : SUBSET Findings]
  BY DEF Inv, TypeOK
<1>2. /\ found.of = look.of /\ found.unread = look.unread \ {r}
      /\ found.read = look.read \cup {record}
      /\ found.seen = look.seen /\ found.found = look.found /\ found.proving = look.proving
  BY <1>1
<1>3. record \in Records
  <2>1. "bad" \in Records
    BY DEF Records
  <2>2. r \in Records
    BY <1>1
  <2> QED
    BY <2>1, <2>2
<1>4. found \in [of : SUBSET Entries, unread : SUBSET Records, read : SUBSET Records,
                 seen : SUBSET Cwds, proving : SUBSET Cwds, found : SUBSET Findings]
  BY <1>1, <1>3
<1>5. ASSUME NEW w \in shielded, w[1] \in look.of
      PROVE  /\ w[2] \in found.unread \cup found.read
             /\ w[2] \in found.seen => \E x \in found.found : x # "absent"
  <2>1. w[1] = e /\ w[2] \in entry[e]
    BY <1>5 DEF Inv, LookOK, WatchOK, InBarrier
  <2>2. w[2] = r => record = w[2]
    BY <2>1
  <2> QED
    BY <1>2, <1>5, <2>2 DEF Inv, LookOK
<1>6. Classify(found) /\ pc = "revalidate" /\ look.of # {}
  OBVIOUS
<1> HIDE DEF found, Read
<1> QED
  BY <1>2, <1>4, <1>5, <1>6, ClassifyStep

LEMMA SightStep == ASSUME Inv, NEW c \in Cwds, Sight(c) PROVE Inv'
<1> USE DEF Sight
<1> DEFINE sight == Sighted(disk.nodes, PathOf[c])
           found == [look EXCEPT !.seen = @ \cup {c},
                                 !.proving = {c} \cap {x \in Cwds : sight = "absent"},
                                 !.found = @ \cup ({sight} \ {"absent"})]
<1>1. look \in [of : SUBSET Entries, unread : SUBSET Records, read : SUBSET Records,
                seen : SUBSET Cwds, proving : SUBSET Cwds, found : SUBSET Findings]
  BY DEF Inv, TypeOK
<1>2. /\ found.of = look.of /\ found.unread = look.unread /\ found.read = look.read
      /\ found.seen = look.seen \cup {c}
      /\ found.found = look.found \cup ({sight} \ {"absent"})
  BY <1>1
<1>3. sight \in Findings
  BY DEF Sighted, Findings
<1>4. found \in [of : SUBSET Entries, unread : SUBSET Records, read : SUBSET Records,
                 seen : SUBSET Cwds, proving : SUBSET Cwds, found : SUBSET Findings]
  BY <1>1, <1>3
<1>5. ASSUME NEW w \in shielded, w[1] \in look.of
      PROVE  /\ w[2] \in found.unread \cup found.read
             /\ w[2] \in found.seen => \E x \in found.found : x # "absent"
  <2>1. Wanted(w[2], disk) /\ disk \in Disks
    BY DEF Inv, TypeOK, WatchOK, InBarrier
  <2>2. w[2] = c => sight # "absent"
    BY <2>1, NotProvenAbsent, CwdAssumption DEF Wanted
  <2> HIDE DEF sight
  <2> QED
    BY <1>2, <1>5, <2>2 DEF Inv, LookOK
<1>6. Classify(found) /\ pc = "revalidate"
  OBVIOUS
<1>7. look.of # {}
  BY DEF Recorded
<1> HIDE DEF found, Sight
<1> QED
  BY <1>2, <1>4, <1>5, <1>6, <1>7, ClassifyStep

LEMMA RecheckStep == ASSUME Inv, NEW c \in Cwds, Recheck(c) PROVE Inv'
<1> USE DEF Recheck
<1>1. look \in [of : SUBSET Entries, unread : SUBSET Records, read : SUBSET Records,
                seen : SUBSET Cwds, proving : SUBSET Cwds, found : SUBSET Findings]
  BY DEF Inv, TypeOK
<1>2. /\ look'.of = look.of /\ look'.unread = look.unread /\ look'.read = look.read
      /\ look'.seen = look.seen /\ look.found \subseteq look'.found
  BY <1>1
<1>3. Rechecked(disk.nodes, PathOf[c]) \in Findings
  BY DEF Rechecked, Findings
<1>4. look' \in [of : SUBSET Entries, unread : SUBSET Records, read : SUBSET Records,
                 seen : SUBSET Cwds, proving : SUBSET Cwds, found : SUBSET Findings]
  BY <1>1, <1>3
<1>5. look.of # {}
  BY DEF Inv, LookOK, Idle
<1>6. LookOK'
  BY <1>2, <1>5 DEF Inv, LookOK, history, Continue
<1> QED
  BY <1>4, <1>6, GoOn

(* What is wanted is not found orphaned.                                     *)
LEMMA WantedNotOrphaned ==
  ASSUME Inv, NEW e \in look.of, NEW w \in shielded, w[1] = e,
         look.unread = {}, Recorded \subseteq look.seen
  PROVE  Verdict(Evidence(e, look.read), look.found) # "orphaned"
<1> SUFFICES ASSUME Evidence(e, look.read).complete, look.found = {"absent"} PROVE FALSE
  BY DEF Verdict
<1>1. w[2] \in look.read /\ w[2] \notin look.seen
  BY DEF Inv, LookOK
<1>2. w[2] \notin Evidence(e, look.read).cwds
  BY <1>1 DEF Recorded
<1>3. w[2] = "bad" \/ w[2] \in Cwds
  BY DEF Inv, LookOK, Wanted, WatchOK, InBarrier, Idle
<1>4. CASE e \in DOMAIN Encoded
  <2>1. look.read = {Encoded[e]}
    BY <1>4, Zenon DEF Evidence, FromGrok
  <2>2. Encoded[e] \in Evidence(e, look.read).cwds
    BY <1>4, <2>1 DEF Evidence, FromGrok
  <2> QED
    BY <1>1, <1>2, <2>1, <2>2
<1>5. CASE e \notin DOMAIN Encoded
  <2>1. "bad" \notin look.read
    BY <1>5, Zenon DEF Evidence, FromClaude
  <2>2. w[2] \in Evidence(e, look.read).cwds
    BY <1>1, <1>3, <1>5, <2>1 DEF Evidence, FromClaude
  <2> QED
    BY <1>2, <2>2
<1> QED
  BY <1>4, <1>5

LEMMA ConcludeStep == ASSUME Inv, NEW e \in Entries, Conclude(e) PROVE Inv'
<1> USE DEF Conclude
<1>1. e \in look.of /\ e \in todo
  BY DEF Inv, LookOK
<1>2. CASE Verdict(Evidence(e, look.read), look.found) = "orphaned"
  <2>1. todo' = todo \ {e} /\ look' = Idle /\ Continue("revalidate")
    BY <1>2
  <2>2. \A w \in shielded : w[1] # e
    BY <1>1, <1>2, WantedNotOrphaned
  <2>3. LookOK'
    BY <2>1 DEF LookOK, Idle
  <2> QED
    BY <2>1, <2>2, <2>3, IdleTyped, GoOn
<1>3. CASE Verdict(Evidence(e, look.read), look.found) # "orphaned"
  BY <1>1, <1>3, BlameStep
<1> QED
  BY <1>2, <1>3

LEMMA RevalidateStep == ASSUME Inv, Revalidate PROVE Inv'
BY TakeStep, ReadStep, SightStep, RecheckStep, ConcludeStep DEF Revalidate

LEMMA ConfirmStep == ASSUME Inv, Confirm PROVE Inv'
<1> USE DEF Inv, Confirm, world, history
<1>1. MadeOK' /\ MemoOK'
  BY SameWorld
<1>2. t \in Targets /\ planned[t] \subseteq Obligations /\ Obligations \subseteq Entries
  BY DEF TypeOK, BoundOK
<1>3. Cardinality({}) <= 1 /\ \A e \in Obligations : Cardinality({e}) <= 1
  BY SmallSets
<1>4. CASE Exchanged \/ Lost # {} \/ cancelled
  <2>1. RestTyped
    BY <1>4 DEF RestTyped, TypeOK, LookOK, Obligations
  <2>2. PICK result \in {"refused", "cancelled"}, blocked \in SUBSET Obligations :
          /\ Refuse(result, Obligations \ blocked, blocked, {})
          /\ Cardinality(blocked) <= 1
    <3>1. CASE Exchanged
      <4>1. Refuse("refused", Obligations \ {}, {}, {})
        BY <3>1
      <4> QED
        BY <1>3, <4>1
    <3>2. CASE ~Exchanged /\ Lost # {}
      <4>1. PICK e \in Lost : Refuse("refused", Obligations \ {e}, {e}, {})
        BY <3>2
      <4>2. {e} \in SUBSET Obligations /\ Cardinality({e}) <= 1
        BY <1>3, <4>1 DEF Lost
      <4> QED
        BY <4>1, <4>2
    <3>3. CASE ~Exchanged /\ Lost = {}
      <4>1. Refuse("cancelled", Obligations \ {}, {}, {})
        BY <1>4, <3>3
      <4> QED
        BY <1>3, <4>1
    <3> QED
      BY <3>1, <3>2, <3>3
  <2>3. Accounts(result, planned[t], Obligations \ blocked, blocked, {})
    BY <1>2, <2>2 DEF Accounts
  <2> QED
    BY <1>1, <2>1, <2>2, <2>3, RefuseStep, SettledInv
<1>5. CASE ~Exchanged /\ Lost = {} /\ ~cancelled
  <2> USE <1>5
  <2>1. /\ report' \in [Targets -> [passed : SUBSET Entries, blocked : SUBSET Entries,
                                    left : SUBSET Entries]]
        /\ report'[t] = [passed |-> Obligations, blocked |-> {}, left |-> {}]
        /\ \A k \in Targets : k # t => report'[k] = report[k]
    <3>1. report \in [Targets -> [passed : SUBSET Entries, blocked : SUBSET Entries,
                                   left : SUBSET Entries]]
      BY DEF TypeOK
    <3>2. report' = [report EXCEPT ![t] = [passed |-> Obligations, blocked |-> {}, left |-> {}]]
      OBVIOUS
    <3> QED
      BY <1>2, <3>1, <3>2
  <2>2. TypeOK'
    BY <2>1 DEF TypeOK, Obligations
  <2>3. WatchOK' /\ ScanOK' /\ EvidenceOK' /\ LookOK' /\ BoundOK'
    BY DEF WatchOK, InBarrier, ScanOK, EvidenceOK, LookOK, BoundOK, Present, Obligations, Matches
  <2>4. ReportOK'
    BY <2>1 DEF ReportOK, Obligations, TypeOK
  <2>5. ReportComplete'
    <3>1. Accounts(outcome[t], planned[t], Obligations, {}, {})
      BY <1>2, <1>3 DEF Accounts
    <3>2. \A k \in Targets : k # t => report'[k] = report[k] /\ outcome'[k] = outcome[k]
                                   /\ planned'[k] = planned[k]
      BY <2>1
    <3>3. report'[t].passed = Obligations /\ report'[t].blocked = {} /\ report'[t].left = {}
          /\ outcome'[t] = outcome[t] /\ planned'[t] = planned[t]
      BY <2>1
    <3>4. \A k \in Targets : outcome[k] # "cancelled"
      BY NoneCancelled
    <3> HIDE DEF Confirm
    <3> QED
      BY <3>1, <3>2, <3>3, <3>4 DEF ReportComplete, Accounts
  <2> QED
    BY <1>1, <2>2, <2>3, <2>4, <2>5
<1> QED
  BY <1>4, <1>5

(* Once the barrier has let the target through, its report stays as it is.   *)
LEMMA SettleReported ==
  ASSUME Inv, pc = "mutate", RestTyped, report' = report, NEW result \in Outcomes, Settle(result)
  PROVE  Settled
<1> USE DEF Inv
<1>1. /\ t' \in Targets /\ pc' \in {"next", "done"}
      /\ outcome' \in [Targets -> Outcomes \cup {"pending"}]
      /\ outcome'[t] = result
      /\ \A k \in Targets : k < t => outcome'[k] = outcome[k]
      /\ \A k \in Targets : k > t =>
           outcome'[k] = outcome[k] \/ (pc' = "done" /\ outcome'[k] = "cancelled")
      /\ pc' = "next" => t' = t + 1 /\ \A k \in Targets : k > t => outcome'[k] = outcome[k]
  BY SettleStep
<1>2. TypeOK'
  BY <1>1, IdleTyped DEF TypeOK, RestTyped
<1>3. ReportOK'
  BY <1>1 DEF ReportOK, RestTyped, TypeOK
<1>4. ReportComplete'
  <2> SUFFICES ASSUME NEW k \in Targets
      PROVE  Accounts(outcome'[k], planned[k], report[k].passed, report[k].blocked,
                      report[k].left)
    <3>1. planned' = planned
      BY DEF RestTyped
    <3>2. \A j \in Targets : EndsBatch(j)'
      BY <3>1, SettleEnds
    <3> QED
      BY <3>1, <3>2 DEF ReportComplete, Accounts, EndsBatch
  <2>1. CASE k = t
    <3>1. report[t] = [passed |-> Obligations, blocked |-> {}, left |-> {}]
      BY DEF ReportOK
    <3>2. planned[t] \subseteq Obligations /\ Obligations \subseteq Entries
      BY DEF BoundOK, TypeOK
    <3> QED
      BY <2>1, <3>1, <3>2, SmallSets DEF Accounts
  <2>2. CASE k < t
    BY <2>2, <1>1 DEF ReportComplete, Accounts, TypeOK
  <2>3. CASE k > t
    <3>1. report[k] = Unattempted(planned[k]) /\ outcome'[k] \in {"pending", "cancelled"}
      <4>1. k > t /\ k >= t /\ pc # "done"
        BY <2>3 DEF TypeOK
      <4> QED
        BY <4>1, <1>1 DEF ReportOK
    <3>2. Accounts("cancelled", planned[k], {}, {}, planned[k])
      BY UnattemptedAccounts
    <3> QED
      BY <3>1, <3>2 DEF Accounts, Unattempted
  <2> QED
    BY <2>1, <2>2, <2>3 DEF TypeOK
<1> QED
  BY <1>1, <1>2, <1>3, <1>4 DEF Settled, RestTyped

LEMMA MutateStep == ASSUME Inv, Mutate PROVE Inv'
<1> USE DEF Inv, Mutate, history
<1>1. \A e \in Entries : entry'[e] \in {entry[e], Absent}
  OBVIOUS
<1>2. RestTyped
  <2>1. DOMAIN entry' = Entries /\ changed' \subseteq Targets
    BY DEF TypeOK
  <2> QED
    BY <1>1, <2>1 DEF RestTyped, TypeOK, LookOK, Obligations
<1>3. Present' \subseteq Present
  BY <1>1 DEF Present
<1>4. MadeOK' /\ MemoOK'
  BY <1>3 DEF MadeOK, MemoOK, Vouches
<1> QED
  BY <1>2, <1>4, SettleReported, SettledInv DEF Outcomes

LEMMA GiveUpStep == ASSUME Inv, GiveUp PROVE Inv'
<1> USE DEF Inv, GiveUp, world, history
<1>1. MadeOK' /\ MemoOK'
  BY SameWorld
<1>2. RestTyped
  BY DEF RestTyped, TypeOK, LookOK, Obligations
<1>3. PICK result \in Outcomes : Settle(result)
  BY DEF Outcomes
<1> QED
  BY <1>1, <1>2, <1>3, SettleReported, SettledInv

LEMMA NextInv == ASSUME Inv, [Next]_vars PROVE Inv'
<1>1. CASE World
  BY <1>1, WorldStep
<1>2. CASE StartBarrier
  BY <1>2, StartBarrierStep
<1>3. CASE Fingerprint
  BY <1>3, FingerprintStep
<1>4. ASSUME NEW e \in Entries, ScanEntry(e) PROVE Inv'
  BY <1>4, ScanEntryStep
<1>5. CASE Revalidate
  BY <1>5, RevalidateStep
<1>6. CASE ScanFails
  BY <1>6, ScanFailsStep
<1>7. CASE ScanReturns
  BY <1>7, ScanReturnsStep
<1>8. CASE Plan
  BY <1>8, PlanStep
<1>9. CASE Confirm
  BY <1>9, ConfirmStep
<1>10. CASE Mutate
  BY <1>10, MutateStep
<1>11. CASE GiveUp
  BY <1>11, GiveUpStep
<1>12. CASE UNCHANGED vars
  <2>1. UNCHANGED << world, batch, stood, shielded, moved, scanned >>
    BY <1>12 DEF vars, history
  <2> QED
    BY <2>1 DEF Inv, TypeOK, WatchOK, InBarrier, MadeOK, MemoOK, Vouches, ScanOK, EvidenceOK,
       LookOK, BoundOK, ReportOK, ReportComplete, world, batch, Present, Obligations, Matches
<1> QED
  BY <1>1, <1>2, <1>3, <1>4, <1>5, <1>6, <1>7, <1>8, <1>9, <1>10, <1>11, <1>12
     DEF Next, Batch, Finished

(* The barriers of a batch, the memo they share and the reports they leave   *)
(* are consistent, whatever agents and users do meanwhile.                   *)
THEOREM Consistent == Spec => []Inv
BY InitInv, NextInv, PTL DEF Spec

-----------------------------------------------------------------------------
(* The properties.                                                           *)

(* Type correctness of the barriers of a batch.                              *)
THEOREM TypeCorrect == Spec => []TypeOK
<1>1. Inv => TypeOK
  BY DEF Inv
<1> QED
  BY <1>1, Consistent, PTL

(* Every planned obligation is accounted for once, whatever ends a barrier   *)
(* (cleaner/overlap_mutation.go:89-171).                                     *)
THEOREM ReportsComplete == Spec => []ReportComplete
<1>1. Inv => ReportComplete
  BY DEF Inv
<1> QED
  BY <1>1, Consistent, PTL

(* Only the mutation itself makes a target mutated, at the end of its        *)
(* barrier.                                                                  *)
LEMMA OnlyMutate ==
  ASSUME Inv, [Next]_vars, NEW k \in Targets, Mutates(k)
  PROVE  Mutate /\ k = t
<1>1. outcome' # outcome /\ outcome'[k] = "mutated" /\ outcome[k] # "mutated"
  BY DEF Mutates
<1>2. ~World
  BY <1>1 DEF World, Change, Create, Record, Delete, Move, Replace, Cancel, batch
<1>3. ASSUME NEW result \in {"refused", "cancelled"}, Settle(result) PROVE FALSE
  BY <1>1, <1>3 DEF Inv, TypeOK, Settle
<1>4. ASSUME NEW e \in Entries, ScanEntry(e) \/ Take(e) \/ Conclude(e) PROVE FALSE
  BY <1>1, <1>3, <1>4 DEF ScanEntry, Take, Conclude, Blame, Refuse, Continue
<1>9. ~Revalidate
  <2>1. ASSUME NEW found, Classify(found) PROVE FALSE
    BY <1>1, <1>3, <2>1 DEF Classify, Blame, Refuse, Continue
  <2>2. ASSUME NEW c \in Cwds, Recheck(c) PROVE FALSE
    BY <1>1, <2>2 DEF Recheck, Continue
  <2> QED
    BY <1>4, <2>1, <2>2 DEF Revalidate, Read, Sight
<1>5. ~StartBarrier /\ ~Fingerprint /\ ~ScanFails /\ ~ScanReturns
  BY <1>1, <1>3 DEF StartBarrier, Fingerprint, ScanFails, ScanReturns, Refuse, Continue
<1>6. ~Plan /\ ~Confirm /\ ~GiveUp
  BY <1>1, <1>3 DEF Plan, Confirm, GiveUp, Refuse, Continue
<1>7. Mutate
  BY <1>1, <1>2, <1>4, <1>5, <1>6, <1>9 DEF Next, Batch, Finished, vars, batch
<1>8. k = t
  BY <1>1, <1>7 DEF Mutate, Settle, Inv, TypeOK
<1> QED
  BY <1>7, <1>8

(* What is removed is the directory that was planned: one that had taken its *)
(* place by the time the barrier began is refused (overlap_mutation.go:150). *)
THEOREM TargetsPinned == Spec => TargetPinned
<1>1. ASSUME Inv, [Next]_vars, NEW k \in Targets, Mutates(k) PROVE k \notin moved
  BY <1>1, OnlyMutate DEF Inv, BoundOK, Mutate
<1>2. Inv /\ [Next]_vars => [\A k \in Targets : Mutates(k) => k \notin moved]_vars
  BY <1>1
<1> QED
  BY <1>2, Consistent, PTL DEF Spec, TargetPinned

(* Unless a name is used again, the barrier of a target revalidates every    *)
(* entry that overlaps it and has stood since it began: a scan remembered    *)
(* for the batch hides none (cleaner/overlap_runtime.go:31-57).              *)
THEOREM OverlapsDiscovered == ASSUME ~NamesReused PROVE Spec => DiscoversOverlaps
<1>1. ASSUME Inv, [Next]_vars, NEW k \in Targets, Mutates(k)
      PROVE  stood \cap Overlapping(k) \subseteq report[k].passed
  <2>1. Mutate /\ k = t /\ pc = "mutate"
    BY <1>1, OnlyMutate DEF Mutate
  <2>2. stood \cap Overlapping(k) \subseteq Matches
    BY <1>1, <2>1 DEF Inv, EvidenceOK, Matches, Overlapping, TypeOK
  <2> QED
    BY <1>1, <2>1, <2>2 DEF Inv, BoundOK, ReportOK
<1>2. Inv /\ [Next]_vars =>
        [\A k \in Targets : Mutates(k) => stood \cap Overlapping(k) \subseteq report[k].passed]_vars
  BY <1>1
<1> QED
  BY <1>2, Consistent, PTL DEF Spec, DiscoversOverlaps

(* Unless a name is used again, no session that has been recorded since the  *)
(* barrier began, and its project there or away with its volume, is removed  *)
(* with a target, wherever the reads of the revalidation fall.               *)
THEOREM LiveStateShielded == ASSUME ~NamesReused PROVE Spec => ShieldsLiveState
<1>1. ASSUME Inv, [Next]_vars, NEW k \in Targets, Mutates(k)
      PROVE  \A w \in shielded : w[1] \notin Overlapping(k)
  <2>1. Mutate /\ k = t /\ pc = "mutate"
    BY <1>1, OnlyMutate DEF Mutate
  <2>2. stood \cap Overlapping(k) \subseteq Matches
    BY <1>1, <2>1 DEF Inv, EvidenceOK, Matches, Overlapping, TypeOK
  <2>3. /\ Matches \subseteq Obligations /\ todo = {}
        /\ \A w \in shielded : w[1] \in stood /\ w[1] \notin Obligations \ todo
    BY <1>1, <2>1 DEF Inv, BoundOK, WatchOK, InBarrier
  <2> QED
    BY <2>2, <2>3
<1>2. Inv /\ [Next]_vars =>
        [\A k \in Targets : Mutates(k) => \A w \in shielded : w[1] \notin Overlapping(k)]_vars
  BY <1>1
<1> QED
  BY <1>2, Consistent, PTL DEF Spec, ShieldsLiveState
=============================================================================
