-------------------------- MODULE CleanSessionProofs --------------------------
(****************************************************************************)
(* CleanSession for every set of targets, command lines and typed answers.   *)
(*                                                                           *)
(* The parts of the invariant follow the program counter: before the loop    *)
(* nothing is touched and no answer was given; in the loop the rest of the   *)
(* queue is as it was; rows and disk agree about everything else.            *)
(****************************************************************************)
EXTENDS CleanSession, FiniteSetTheorems, TLAPS

Unqueued == {"start", "scan", "guide", "plan", "review", "select", "safety"}
Unbound == Unqueued \cup {"bind"}
Before == Unbound \cup {"requests"}
Executing == {"execute", "vet", "remove"}
Working == {"ask", "approved", "confirm", "validate", "execute", "vet", "remove"}
Pcs == Before \cup Working \cup {"finish", "done"}

States == {"pending", "failed", "cancelled", "skipped", "removed", "partial"}
Rows == [state : States, attempted : BOOLEAN, gone : BOOLEAN, freed : 0 .. Size,
         counted : 0 .. Size \cup {Unmeasured}]
Places == [left : 0 .. Size, gone : BOOLEAN]

InputOK ==
  /\ cancelled \in BOOLEAN
  /\ reader \in {"idle", "reading", "refusing"}
  /\ answer \in Answers \cup {NoAnswer}
  /\ source \in {"open", "ended", "broken"}
  /\ typed \in 0 .. MaxTyped

SinkOK ==
  /\ leaf \in {"absent", "file", "alias", "new", "created"}
  /\ place \in Targets \cup {Outside}
  /\ swaps \in 0 .. MaxSwaps
  /\ bound \in {"none", "absent", "file"}
  /\ document \in {"none", "created", "file"}

SessionOK ==
  /\ evidence \in {"fresh", "stale"}
  /\ disk \in [Targets -> Places]
  /\ pc \in Pcs
  /\ flags \in [FlagNames -> BOOLEAN]
  /\ route \in {"none", "classic", "guided", "json"}
  /\ plan \in [Targets -> {"none", "selected", "reviewable", "locked"}]
  /\ queue \in Seq(Targets)
  /\ at \in Nat \ {0} /\ last \in Nat
  /\ row \in [Targets -> Rows]
  /\ err \in {"none", "failed", "cancelled"}
  /\ exit \in {"none", "zero", "nonzero", "elsewhere"}
  /\ published \in BOOLEAN
  /\ given \in Seq(Targets \X Lines)

TypeOK == InputOK /\ SinkOK /\ SessionOK

-----------------------------------------------------------------------------
Fresh(t) == row[t] = Pending /\ Untouched(t)

Agrees(t) ==
  /\ row[t].gone = disk[t].gone
  /\ row[t].gone => disk[t].left = 0 /\ row[t].state \in {"removed", "partial"}
  /\ row[t].counted # Unmeasured => disk[t].left <= row[t].counted
  /\ row[t].state \in {"pending", "skipped", "cancelled"} => Untouched(t)

RowsTrue == \A t \in Targets : Agrees(t)

(* Only what was selected is queued, once, and only that is touched.         *)
QueueTrue ==
  /\ \A i \in DOMAIN queue : plan[queue[i]] = "selected"
  /\ \A i, j \in DOMAIN queue : i # j => queue[i] # queue[j]
  /\ \A t \in Targets : t \in Prepared \/ Untouched(t)
  /\ pc \in Unqueued => queue = << >>

(* The position, and what is still ahead of it.                              *)
Ahead ==
  /\ pc \in Before => at = 1 /\ \A t \in Targets : Fresh(t)
  /\ pc \in Working => \A i \in DOMAIN queue : i >= at => Fresh(queue[i])
  /\ pc \in {"confirm", "validate"} => at = 1 /\ queue # << >>
  /\ pc = "safety" /\ route = "classic" => Selected # {}
  /\ pc \in {"bind", "requests"} /\ route = "classic" => queue # << >>
  /\ pc = "approved" => at \in DOMAIN queue
  /\ pc \in Executing => at <= last /\ last \in DOMAIN queue

(* A read is started by a prompt, and ends before the prompt is left.        *)
Prompting ==
  reader = "reading" =>
    /\ pc \in {"guide", "review", "ask", "confirm"}
    /\ pc = "ask" => at \in DOMAIN queue

Granted(t) == \E k \in DOMAIN given : given[k][1] = t /\ given[k][2] \in Approval

Consent ==
  /\ pc \in Before => given = << >>
  /\ flags.interactive =>
       /\ pc \notin {"confirm", "validate"}
       /\ pc \in Executing => last = at
       /\ pc \in {"approved"} \cup Executing => Granted(Here)
       /\ \A t \in Targets : Untouched(t) \/ Granted(t)

(* The answers of a JSON run, against its queue.                             *)
InStep ==
  flags.interactive /\ route = "json" =>
    /\ \A k \in DOMAIN given : k \in DOMAIN queue /\ given[k][1] = queue[k]
    /\ pc = "ask" => Len(given) = at - 1
    /\ pc \in {"approved"} \cup Executing => Len(given) = at
    /\ given # << >> \/ pc \in {"ask", "approved"} \cup Executing =>
         Ascending(queue) /\ Prepared = Selected

FileTrue ==
  /\ pc \in Unbound => bound = "none"
  /\ bound = "none" => leaf \in {"absent", "file", "alias"}
  /\ bound # "none" => place \notin Selected
  /\ pc \in Working \cup {"requests", "finish"} /\ HasReceipt /\ WantsReceipt => bound # "none"
  /\ document # "none" =>
       /\ pc = "done" /\ bound # "none"
       /\ document = IF bound = "absent" THEN "created" ELSE bound

Final ==
  published =>
    /\ pc = "done" /\ HasReceipt
    /\ exit = "zero" => /\ Status = "succeeded"
                        /\ WantsReceipt => document # "none"

Inv == /\ TypeOK /\ RowsTrue /\ QueueTrue /\ Ahead /\ Prompting
       /\ Consent /\ InStep /\ FileTrue /\ Final

-----------------------------------------------------------------------------
USE DEF Executing

LEMMA Assumed ==
  /\ Size \in Nat \ {0} /\ Unmeasured \notin 0 .. Size
  /\ Approval \subseteq Lines /\ End \notin Lines /\ Broken \notin Lines
  /\ NoAnswer \notin Lines
  /\ Outside \notin Targets
  /\ FlagSets \subseteq [FlagNames -> BOOLEAN]
<1>1. Size \in Nat \ {0} /\ Unmeasured \notin 0 .. Size
  BY SessionAssumption DEF SessionAssumption, Unmeasured
<1>2. Approval \subseteq Lines /\ FlagSets \subseteq [FlagNames -> BOOLEAN]
  BY SessionAssumption DEF SessionAssumption, Approval
<1>3. End \notin Lines /\ Broken \notin Lines /\ NoAnswer \notin Lines
  BY InputAssumption DEF InputAssumption
<1>4. Outside \notin Targets
  BY SinkAssumption DEF SinkAssumption
<1> QED
  BY <1>1, <1>2, <1>3, <1>4

\* What is marked keeps its bytes and loses its claim to have been removed.
LEMMA MarkIs ==
  ASSUME NEW r \in Rows, NEW s \in States
  PROVE  LET m == [r EXCEPT !.state = s, !.gone = FALSE, !.freed = 0] IN
         m \in Rows /\ m.state = s /\ m.gone = FALSE /\ m.counted = r.counted
<1> DEFINE m == [r EXCEPT !.state = s, !.gone = FALSE, !.freed = 0]
<1>1. 0 \in 0 .. Size
  BY Assumed
<1>2. m \in Rows
  BY <1>1 DEF Rows
<1>3. m.state = s /\ m.gone = FALSE /\ m.counted = r.counted
  BY DEF Rows
<1> QED
  BY <1>2, <1>3

LEMMA PendingIs ==
  /\ Pending \in Rows /\ Pending.state = "pending" /\ Pending.gone = FALSE
  /\ Pending.counted = Size
BY Assumed DEF Pending, Rows, States

\* Rows of fresh targets may be marked in any way that claims no removal.
LEMMA MarkingKeeps ==
  ASSUME SessionOK, RowsTrue, UNCHANGED disk,
         row' \in [Targets -> Rows],
         \A t \in Targets : row'[t] = row[t] \/
           /\ Fresh(t) /\ row'[t].gone = FALSE
           /\ row'[t].counted = row[t].counted
  PROVE  RowsTrue'
<1> SUFFICES ASSUME NEW t \in Targets PROVE Agrees(t)'
  BY DEF RowsTrue
<1>1. CASE row'[t] = row[t]
  BY <1>1 DEF RowsTrue, Agrees, Untouched
<1>2. CASE Fresh(t) /\ row'[t].gone = FALSE /\ row'[t].counted = row[t].counted
  <2>1. row[t].counted = Size /\ disk[t].left = Size /\ disk[t].gone = FALSE
    BY <1>2, PendingIs DEF Fresh, Untouched, SessionOK, Places
  <2>2. /\ row'[t].gone = FALSE /\ row'[t].counted = Size
        /\ disk'[t].left = Size /\ disk'[t].gone = FALSE
    BY <1>2, <2>1
  <2>3. Size <= Size
    BY Assumed
  <2> QED
    BY <2>2, <2>3 DEF Agrees, Untouched
<1> QED
  BY <1>1, <1>2

LEMMA RowsStay ==
  ASSUME RowsTrue, UNCHANGED << disk, row >>
  PROVE  RowsTrue'
BY DEF RowsTrue, Agrees, Untouched

-----------------------------------------------------------------------------
(* The prompts.                                                              *)

LEMMA AskIs ==
  ASSUME InputOK, Ask
  PROVE  InputOK' /\ reader = "idle"
BY DEF InputOK, Ask, Answers, input

LEMMA ReadIs ==
  ASSUME InputOK, NEW l, Read(l)
  PROVE  InputOK' /\ reader' = "idle" /\ reader = "reading" /\ ~cancelled
BY DEF InputOK, Read, Usable

LEMMA ReadCancelledIs ==
  ASSUME InputOK, ReadCancelled
  PROVE  InputOK' /\ reader' = "refusing"
BY DEF InputOK, ReadCancelled

LEMMA InputStays ==
  ASSUME InputOK, UNCHANGED input
  PROVE  InputOK' /\ UNCHANGED reader
BY DEF InputOK, input

-----------------------------------------------------------------------------
(* Until the queue is made, a step only moves on.                            *)

LEMMA EarlyKeeps ==
  ASSUME Inv, pc \in Unqueued, pc' \in Unqueued \cup {"done"},
         UNCHANGED << sink, disk, queue, at, last, row, err, published, given >>,
         InputOK', evidence' \in {"fresh", "stale"},
         flags' \in [FlagNames -> BOOLEAN],
         route' \in {"none", "classic", "guided", "json"},
         plan' \in [Targets -> {"none", "selected", "reviewable", "locked"}],
         exit' \in {"none", "zero", "nonzero", "elsewhere"},
         reader' = "reading" => pc' \in {"guide", "review"},
         pc' = "safety" /\ route' = "classic" => Selected' # {}
  PROVE  Inv'
<1>1. TypeOK'
  BY DEF Inv, TypeOK, SinkOK, SessionOK, sink, Pcs, Before, Unbound
<1>2. RowsTrue'
  BY RowsStay DEF Inv
<1>3. queue = << >> /\ at = 1 /\ given = << >> /\ bound = "none" /\ document = "none"
  BY DEF Inv, QueueTrue, Ahead, Consent, FileTrue, Before, Unbound, Unqueued
<1>4. /\ \A t \in Targets : Fresh(t) /\ Fresh(t)' /\ Untouched(t)'
      /\ published = FALSE
  BY DEF Inv, Ahead, Fresh, Untouched, Before, Unbound, Unqueued, Final, TypeOK, SessionOK
<1>5. QueueTrue' /\ Ahead' /\ Prompting'
  BY <1>3, <1>4 DEF QueueTrue, Ahead, Prompting, Unqueued, Working
<1>6. Consent' /\ InStep'
  BY <1>3, <1>4 DEF Consent, InStep, Unqueued
<1>7. FileTrue' /\ Final'
  BY <1>3, <1>4 DEF Inv, FileTrue, Final, sink, Unqueued, Working
<1> QED
  BY <1>1, <1>2, <1>5, <1>6, <1>7 DEF Inv

LEMMA RoutingKeeps ==
  ASSUME Inv, SelectRoute \/ Scan
  PROVE  Inv'
<1>1. InputOK' /\ reader' # "reading"
  BY InputStays DEF Inv, TypeOK, Prompting, SelectRoute, Scan, Stay
<1>2. CASE SelectRoute
  BY <1>1, <1>2, EarlyKeeps DEF SelectRoute, Exit, Goto, Keep, Stay, Inv, TypeOK, SessionOK, Unqueued
<1>3. CASE Scan /\ Exit("nonzero")
  BY <1>1, <1>3, EarlyKeeps DEF Scan, Exit, Stay, Inv, TypeOK, SessionOK, Unqueued
<1>4. CASE Scan /\ ~Exit("nonzero")
  <2>1. /\ pc = "scan" /\ pc' \in {"guide", "plan"}
        /\ flags' \in [FlagNames -> BOOLEAN] /\ route' \in {"json", "guided", "classic"}
        /\ UNCHANGED << plan, queue, at, last, row, err, exit, published, given >>
    BY <1>4 DEF Scan, Inv, TypeOK, SessionOK
  <2> QED
    BY <1>1, <1>4, <2>1, EarlyKeeps DEF Scan, Stay, Inv, TypeOK, SessionOK, Unqueued
<1> QED
  BY <1>2, <1>3, <1>4

LEMMA PromptsKeep ==
  ASSUME Inv, GuidePrompt \/ ReviewPrompt
  PROVE  Inv'
<1>1. InputOK
  BY DEF Inv, TypeOK
<1>2. CASE GuidePrompt
  <2>1. InputOK' /\ (reader' = "reading" => pc' = "guide")
    BY <1>1, <1>2, AskIs, ReadIs, ReadCancelledIs DEF GuidePrompt, Goto
  <2> QED
    BY <1>2, <2>1, EarlyKeeps DEF GuidePrompt, Goto, Keep, Exit, Inv, TypeOK, SessionOK, Unqueued
<1>3. CASE ReviewPrompt
  <2>1. InputOK' /\ (reader' = "reading" => pc' = "review")
    BY <1>1, <1>3, AskIs, ReadIs, ReadCancelledIs DEF ReviewPrompt, Goto
  <2>2. /\ plan' \in [Targets -> {"none", "selected", "reviewable", "locked"}]
        /\ pc = "review" /\ pc' \in {"review", "select", "done"}
        /\ exit' \in {"none", "zero", "nonzero", "elsewhere"}
        /\ UNCHANGED << flags, route, queue, at, last, row, err, published, given >>
    BY <1>3 DEF ReviewPrompt, Toggle, Goto, Keep, Exit, Inv, TypeOK, SessionOK
  <2> QED
    BY <1>3, <2>1, <2>2, EarlyKeeps DEF ReviewPrompt, Inv, TypeOK, SessionOK, Unqueued
<1> QED
  BY <1>2, <1>3

LEMMA PlanningKeeps ==
  ASSUME Inv, Plan \/ Select
  PROVE  Inv'
<1>1. InputOK' /\ reader' # "reading"
  BY InputStays DEF Inv, TypeOK, Prompting, Plan, Select, Stay
<1>2. CASE Plan
  <2>1. /\ plan' \in [Targets -> {"none", "selected", "reviewable", "locked"}]
        /\ pc = "plan" /\ pc' \in {"review", "select", "done"}
        /\ exit' \in {"none", "zero", "nonzero", "elsewhere"}
        /\ UNCHANGED << flags, route, queue, at, last, row, err, published, given >>
    BY <1>2 DEF Plan, Exit, Inv, TypeOK, SessionOK
  <2> QED
    BY <1>1, <1>2, <2>1, EarlyKeeps DEF Plan, Stay, Inv, TypeOK, SessionOK, Unqueued
<1>3. CASE Select
  BY <1>1, <1>3, EarlyKeeps
     DEF Select, Goto, Keep, Exit, Stay, Inv, TypeOK, SessionOK, Unqueued, Selected
<1> QED
  BY <1>2, <1>3

-----------------------------------------------------------------------------
(* The queue: each of some targets once.                                     *)

LEMMA TargetsFinite == IsFiniteSet(Targets)
<1>1. /\ DocumentOrder \in Seq(Targets) /\ Len(DocumentOrder) \in Nat
      /\ ToSet(DocumentOrder) = Targets
  BY SessionAssumption DEF SessionAssumption
<1>2. DocumentOrder \in Surjection(1 .. Len(DocumentOrder), Targets)
  BY <1>1 DEF Surjection, ToSet
<1>3. IsFiniteSet(1 .. Len(DocumentOrder))
  BY <1>1, FS_Interval
<1> QED
  BY <1>2, <1>3, FS_Surjection

LEMMA OrderOf ==
  ASSUME NEW S \in SUBSET Targets, NEW q \in SetToSeqs(S)
  PROVE  /\ q \in Seq(Targets) /\ ToSet(q) = S
         /\ \A i, j \in DOMAIN q : i # j => q[i] # q[j]
         /\ S # {} => q # << >>
<1> DEFINE n == Cardinality(S)
<1>1. IsFiniteSet(S) /\ n \in Nat
  BY TargetsFinite, FS_Subset, FS_CardinalityType
<1>2. q \in [1 .. n -> S] /\ \A i, j \in 1 .. n : i # j => q[i] # q[j]
  BY DEF SetToSeqs
<1>3. q \in Injection(1 .. n, S)
  BY <1>2 DEF Injection, IsInjective
<1>4. Cardinality(1 .. n) = n
  <2>1. Cardinality(1 .. n) = IF 1 > n THEN 0 ELSE n - 1 + 1
    BY <1>1, FS_Interval
  <2> QED
    BY <1>1, <2>1
<1>5. q \in Surjection(1 .. n, S)
  BY <1>1, <1>3, <1>4, FS_Injection
<1>6. q \in Seq(Targets) /\ DOMAIN q = 1 .. n
  BY <1>1, <1>2
<1>7. ToSet(q) = S
  BY <1>2, <1>5, <1>6 DEF Surjection, ToSet
<1>8. S # {} => q # << >>
  BY <1>7 DEF ToSet
<1> QED
  BY <1>2, <1>6, <1>7, <1>8

LEMMA PrepareKeeps ==
  ASSUME Inv, Prepare
  PROVE  Inv'
<1>1. InputOK' /\ reader' # "reading"
  BY InputStays DEF Inv, TypeOK, Prompting, Prepare, Stay
<1>2. CASE Exit("nonzero")
  BY <1>1, <1>2, EarlyKeeps DEF Prepare, Exit, Stay, Inv, TypeOK, SessionOK, Unqueued
<1>3. CASE ~Exit("nonzero")
  <2>1. PICK passed \in SUBSET Selected :
          (route = "classic" => passed = Selected) /\ queue' \in SetToSeqs(passed)
    BY <1>3 DEF Prepare
  <2>2. /\ queue' \in Seq(Targets) /\ ToSet(queue') = passed
        /\ \A i, j \in DOMAIN queue' : i # j => queue'[i] # queue'[j]
        /\ passed # {} => queue' # << >>
    BY <2>1, OrderOf DEF Selected
  <2>3. /\ pc = "safety" /\ pc' = "bind"
        /\ UNCHANGED << sink, disk, evidence, flags, route, plan, at, last, row, err, exit,
                        published, given >>
    BY <1>3 DEF Prepare, Stay
  <2>4. TypeOK'
    BY <1>1, <2>2, <2>3 DEF Inv, TypeOK, SinkOK, SessionOK, sink, Pcs, Before, Unbound
  <2>5. /\ at = 1 /\ given = << >> /\ bound = "none" /\ document = "none"
        /\ published = FALSE /\ \A t \in Targets : Fresh(t) /\ Fresh(t)' /\ Untouched(t)'
        /\ route = "classic" => Selected # {}
    BY <2>3 DEF Inv, Ahead, Consent, FileTrue, Final, TypeOK, SessionOK, Fresh, Untouched,
                Before, Unbound, Unqueued
  <2>6. \A i \in DOMAIN queue' : plan'[queue'[i]] = "selected"
    BY <2>1, <2>2, <2>3 DEF ToSet, Selected
  <2>7. QueueTrue'
    BY <2>2, <2>3, <2>5, <2>6 DEF QueueTrue, Unqueued
  <2>8. Ahead'
    BY <2>1, <2>2, <2>3, <2>5 DEF Ahead, Working
  <2>9. Prompting' /\ Consent' /\ InStep'
    BY <1>1, <2>3, <2>5 DEF Prompting, Consent, InStep
  <2>10. FileTrue' /\ Final'
    BY <2>3, <2>5 DEF Inv, FileTrue, Final, sink, Working
  <2>11. RowsTrue'
    BY <2>3, RowsStay DEF Inv
  <2> QED
    BY <2>4, <2>7, <2>8, <2>9, <2>10, <2>11 DEF Inv
<1> QED
  BY <1>2, <1>3

LEMMA BindKeeps ==
  ASSUME Inv, BindReceipt
  PROVE  Inv'
<1>1. InputOK' /\ reader' # "reading"
  BY InputStays DEF Inv, TypeOK, Prompting, BindReceipt
<1>2. /\ pc = "bind" /\ pc' \in {"requests", "done"}
      /\ UNCHANGED << disk, evidence, flags, route, plan, queue, at, last, row, err,
                      published, given >>
      /\ exit' \in {"none", "zero", "nonzero", "elsewhere"}
      /\ UNCHANGED << leaf, place, swaps, document >>
      /\ \/ bound' = bound /\ (pc' = "done" \/ ~(HasReceipt /\ WantsReceipt))
         \/ bound' = leaf /\ Bindable(Selected)
  BY DEF BindReceipt, Goto, Keep, Exit, Bind, Inv, TypeOK, SessionOK, sink
<1>3. /\ at = 1 /\ given = << >> /\ bound = "none" /\ document = "none"
      /\ published = FALSE /\ \A t \in Targets : Fresh(t) /\ Fresh(t)' /\ Untouched(t)'
  BY <1>2 DEF Inv, Ahead, Consent, FileTrue, Final, TypeOK, SessionOK, Fresh, Untouched,
              Before, Unbound
<1>4. bound' \in {"none", "absent", "file"}
  BY <1>2, <1>3 DEF Bindable, Inv, FileTrue
<1>5. TypeOK'
  BY <1>1, <1>2, <1>4 DEF Inv, TypeOK, SinkOK, SessionOK, Pcs, Before
<1>6. QueueTrue'
  BY <1>2, <1>3 DEF Inv, QueueTrue, Unqueued
<1>7. Ahead' /\ Prompting' /\ Consent' /\ InStep'
  <2>1. Ahead'
    BY <1>2, <1>3 DEF Inv, Ahead, Working
  <2>2. Prompting' /\ Consent'
    BY <1>1, <1>2, <1>3 DEF Prompting, Consent
  <2>3. InStep'
    BY <1>2, <1>3 DEF InStep
  <2> QED
    BY <2>1, <2>2, <2>3
<1>8. FileTrue'
  <2>1. leaf \in {"absent", "file", "alias"} /\ leaf' = leaf /\ document' = "none"
    BY <1>2, <1>3 DEF Inv, FileTrue
  <2>2. /\ bound' = "none" \/ place \notin Selected
        /\ Selected' = Selected /\ place' = place
        /\ HasReceipt' = HasReceipt /\ WantsReceipt' = WantsReceipt
    BY <1>2, <1>3 DEF Bindable, InsideTarget, Selected, HasReceipt, WantsReceipt
  <2>3. pc' = "requests" /\ HasReceipt /\ WantsReceipt => bound' # "none"
    BY <1>2, <2>1
  <2>4. pc' \notin Unbound /\ pc' \notin Working \cup {"finish"}
    BY <1>2 DEF Unbound, Unqueued, Working
  <2> QED
    BY <2>1, <2>2, <2>3, <2>4 DEF FileTrue
<1>9. Final' /\ RowsTrue'
  BY <1>2, <1>3, RowsStay DEF Inv, Final
<1> QED
  BY <1>5, <1>6, <1>7, <1>8, <1>9 DEF Inv

\* Marking targets of which nothing was touched.
LEMMA FreshMarking ==
  ASSUME SessionOK, RowsTrue, UNCHANGED disk,
         NEW S, NEW s \in States, \A t \in S \cap Targets : Fresh(t),
         row' = Mark(row, S, s)
  PROVE  /\ RowsTrue' /\ row' \in [Targets -> Rows]
         /\ \A t \in Targets : t \notin S => row'[t] = row[t] /\ (Fresh(t) => Fresh(t)')
<1>1. row \in [Targets -> Rows]
  BY DEF SessionOK
<1>2. /\ row' \in [Targets -> Rows]
      /\ \A t \in S \cap Targets : row'[t].gone = FALSE /\ row'[t].counted = row[t].counted
      /\ \A t \in Targets \ S : row'[t] = row[t]
  <2>1. \A t \in Targets : row'[t] =
          IF t \in S THEN [row[t] EXCEPT !.state = s, !.gone = FALSE, !.freed = 0] ELSE row[t]
    BY DEF Mark
  <2>2. \A t \in Targets :
          LET m == [row[t] EXCEPT !.state = s, !.gone = FALSE, !.freed = 0] IN
          m \in Rows /\ m.gone = FALSE /\ m.counted = row[t].counted
    BY <1>1, MarkIs
  <2>3. row' \in [Targets -> Rows]
    BY <1>1, <2>1, <2>2 DEF Mark
  <2> QED
    BY <2>1, <2>2, <2>3
<1>3. RowsTrue'
  BY <1>2, MarkingKeeps
<1> QED
  BY <1>2, <1>3 DEF Fresh, Untouched

LEMMA RequestsKeep ==
  ASSUME Inv, SettleRequests
  PROVE  Inv'
<1>1. InputOK' /\ reader' # "reading"
  BY InputStays DEF Inv, TypeOK, Prompting, SettleRequests, Stay
<1>2. /\ pc = "requests"
      /\ UNCHANGED << sink, disk, evidence, flags, route, plan, at, last, exit, published, given >>
  BY DEF SettleRequests, Stay
<1>3. /\ at = 1 /\ given = << >> /\ document = "none" /\ published = FALSE
      /\ \A t \in Targets : Fresh(t) /\ Untouched(t)'
      /\ SessionOK /\ RowsTrue /\ Prepared \in SUBSET Targets
  <2>1. /\ at = 1 /\ given = << >> /\ document = "none" /\ published = FALSE
        /\ \A t \in Targets : Fresh(t)
        /\ SessionOK /\ RowsTrue
    BY <1>2 DEF Inv, Ahead, Consent, FileTrue, Final, TypeOK, SessionOK, Before
  <2>2. \A t \in Targets : Untouched(t)'
    BY <1>2, <2>1 DEF Fresh, Untouched
  <2>3. Prepared \in SUBSET Targets
    BY <2>1 DEF SessionOK, Prepared, ToSet
  <2> QED
    BY <2>1, <2>2, <2>3
<1>4. /\ FirstStep \in {"ask", "confirm", "validate"}
      /\ flags.interactive => FirstStep = "ask"
  BY DEF FirstStep
<1>5. /\ RowsTrue' /\ row' \in [Targets -> Rows] /\ err' \in {"none", "failed", "cancelled"}
      /\ queue' \in Seq(Targets) /\ ToSet(queue') = Prepared
      /\ \A i, j \in DOMAIN queue' : i # j => queue'[i] # queue'[j]
      /\ \/ pc' = "finish"
         \/ /\ pc' = FirstStep /\ queue' # << >>
            /\ \A t \in Prepared : Fresh(t)'
            /\ route = "json" => Ascending(queue') /\ Prepared = Selected
  <2>1. CASE route = "classic" /\ pc' = FirstStep /\ UNCHANGED << queue, row, err >>
    <3>1. RowsTrue' /\ \A t \in Prepared : Fresh(t)'
      BY <1>2, <1>3, <2>1, RowsStay DEF Fresh, Untouched
    <3>2. queue # << >> /\ ToSet(queue') = Prepared
      BY <1>2, <2>1 DEF Inv, Ahead, Prepared
    <3> QED
      BY <1>2, <1>3, <2>1, <3>1, <3>2 DEF Inv, QueueTrue, SessionOK
  <2>2. CASE GuidedRequests
    <3>1. /\ RowsTrue' /\ row' \in [Targets -> Rows]
          /\ \A t \in Prepared : Fresh(t)'
      <4>1. CASE row' = row
        BY <1>2, <1>3, <4>1, RowsStay DEF SessionOK, Fresh, Untouched
      <4>2. CASE row' = Mark(row, RefusedByGuided, "failed")
        <5>1. "failed" \in States /\ RefusedByGuided \cap Prepared = {}
          BY DEF States, RefusedByGuided
        <5> QED
          BY <1>2, <1>3, <4>2, <5>1, FreshMarking
      <4> QED
        BY <2>2, <4>1, <4>2 DEF GuidedRequests
    <3> QED
      BY <1>3, <2>2, <3>1 DEF GuidedRequests, Inv, QueueTrue, SessionOK, Prepared
  <2>3. CASE JsonRequests
    <3>1. queue' \in SetToSeqs(Prepared) /\ Ascending(queue')
      BY <2>3 DEF JsonRequests
    <3>2. /\ queue' \in Seq(Targets) /\ ToSet(queue') = Prepared
          /\ \A i, j \in DOMAIN queue' : i # j => queue'[i] # queue'[j]
      BY <1>3, <3>1, OrderOf
    <3>3. CASE SetMismatch
      <4>1. "failed" \in States
        BY DEF States
      <4> QED
        BY <1>2, <1>3, <2>3, <3>2, <3>3, <4>1, FreshMarking DEF JsonRequests
    <3>4. CASE ~SetMismatch
      <4>1. UNCHANGED << row, err >> /\ (pc' = "finish" \/ (pc' = FirstStep /\ queue' # << >>))
        BY <2>3, <3>4 DEF JsonRequests
      <4>2. RowsTrue' /\ \A t \in Prepared : Fresh(t)'
        BY <1>2, <1>3, <4>1, RowsStay DEF Fresh, Untouched
      <4> QED
        BY <1>3, <3>1, <3>2, <3>4, <4>1, <4>2 DEF SetMismatch, SessionOK
    <3> QED
      BY <3>3, <3>4
  <2> QED
    BY <2>1, <2>2, <2>3 DEF SettleRequests
<1>6. TypeOK'
  BY <1>1, <1>2, <1>4, <1>5 DEF Inv, TypeOK, SinkOK, SessionOK, sink, Pcs, Working
<1>7. \A i \in DOMAIN queue' : queue'[i] \in Prepared
  BY <1>5 DEF ToSet
<1>8. QueueTrue'
  <2>1. \A t \in Prepared : plan[t] = "selected"
    BY DEF Inv, QueueTrue, Prepared, ToSet
  <2>2. pc' \notin Unqueued
    BY <1>4, <1>5 DEF Unqueued
  <2> QED
    BY <1>2, <1>3, <1>5, <1>7, <2>1, <2>2 DEF QueueTrue, Prepared
<1>9. Ahead' /\ Prompting'
  <2>1. pc' \notin Before \cup Executing \cup {"approved", "safety", "bind", "requests"}
    BY <1>4, <1>5 DEF Before, Unbound, Unqueued
  <2>2. (pc \in Working => \A i \in DOMAIN queue : Fresh(queue[i]))'
    BY <1>5, <1>7 DEF Working, Fresh, Untouched
  <2> QED
    BY <1>1, <1>2, <1>3, <1>5, <2>1, <2>2 DEF Ahead, Prompting, Unqueued
<1>10. Consent'
  BY <1>2, <1>3, <1>4, <1>5 DEF Consent
<1>11. InStep'
  <2>1. pc' = "ask" /\ route = "json" => Ascending(queue)' /\ Prepared' = Selected'
    BY <1>2, <1>5 DEF Ascending, Selected, Prepared
  <2>2. pc' \notin {"approved"} \cup Executing
    BY <1>4, <1>5
  <2> QED
    BY <1>2, <1>3, <2>1, <2>2 DEF InStep
<1>12. FileTrue' /\ Final'
  <2>1. pc' \notin Unbound /\ pc' # "done"
    BY <1>4, <1>5 DEF Unbound, Unqueued
  <2>2. HasReceipt' = HasReceipt /\ WantsReceipt' = WantsReceipt /\ Selected' = Selected
    BY <1>2 DEF HasReceipt, WantsReceipt, Selected
  <2> QED
    BY <1>2, <1>3, <2>1, <2>2 DEF Inv, FileTrue, Final, sink
<1> QED
  BY <1>5, <1>6, <1>8, <1>9, <1>10, <1>11, <1>12 DEF Inv

-----------------------------------------------------------------------------
(* The loop over the queue.                                                  *)

LEMMA HereIs ==
  ASSUME Inv, at \in DOMAIN queue
  PROVE  /\ Here \in Targets /\ Here \in Prepared
         /\ pc \in Working => Fresh(Here)
         /\ \A i \in DOMAIN queue : i >= at + 1 => queue[i] # Here
<1>1. queue \in Seq(Targets) /\ at \in Nat
  BY DEF Inv, TypeOK, SessionOK
<1>2. Here \in Targets /\ Here \in Prepared
  BY <1>1 DEF Here, Prepared, ToSet
<1>3. \A i, j \in DOMAIN queue : i # j => queue[i] # queue[j]
  BY DEF Inv, QueueTrue
<1>4. \A i \in DOMAIN queue : i >= at + 1 => queue[i] # Here
  BY <1>1, <1>3 DEF Here
<1>5. pc \in Working => Fresh(Here)
  BY <1>1 DEF Inv, Ahead, Here
<1> QED
  BY <1>2, <1>4, <1>5

LEMMA FromIs ==
  ASSUME Inv, pc \in Working
  PROVE  /\ \A t \in From(at) \cap Targets : Fresh(t)
         /\ \A t \in From(at + 1) \cap Targets : Fresh(t)
         /\ at = 1 => \A t \in Prepared \cap Targets : Fresh(t)
<1>1. queue \in Seq(Targets) /\ at \in Nat \ {0}
  BY DEF Inv, TypeOK, SessionOK
<1>2. \A i \in DOMAIN queue : i >= at => Fresh(queue[i])
  BY DEF Inv, Ahead
<1>3. \A t \in From(at) \cap Targets : Fresh(t)
  BY <1>1, <1>2 DEF From
<1>4. \A t \in From(at + 1) \cap Targets : Fresh(t)
  BY <1>1, <1>2 DEF From
<1>5. at = 1 => \A t \in Prepared \cap Targets : Fresh(t)
  BY <1>1, <1>2 DEF Prepared, ToSet
<1> QED
  BY <1>3, <1>4, <1>5

\* What an answer to an execution prompt adds.
LEMMA AnswerIs ==
  ASSUME Inv, pc = "ask", at \in DOMAIN queue, NEW l \in Lines,
         given' = Append(given, << Here, l >>), UNCHANGED << flags, route, plan, queue >>
  PROVE  /\ given' \in Seq(Targets \X Lines) /\ given' # << >>
         /\ \A t : Granted(t) => Granted(t)'
         /\ l \in Approval => \E k \in DOMAIN given' : given'[k][1] = Here /\ given'[k][2] \in Approval
         /\ flags.interactive /\ route = "json" =>
              /\ \A k \in DOMAIN given' : k \in DOMAIN queue /\ given'[k][1] = queue[k]
              /\ Len(given') = at
<1>1. /\ given \in Seq(Targets \X Lines) /\ << Here, l >> \in Targets \X Lines
      /\ at \in Nat \ {0} /\ queue \in Seq(Targets)
  BY HereIs DEF Inv, TypeOK, SessionOK
<1>2. /\ given' \in Seq(Targets \X Lines) /\ Len(given') = Len(given) + 1
      /\ \A k \in DOMAIN given : k \in DOMAIN given' /\ given'[k] = given[k]
      /\ Len(given') \in DOMAIN given' /\ given'[Len(given')] = << Here, l >>
      /\ \A k \in DOMAIN given' : k \in DOMAIN given \/ k = Len(given')
  BY <1>1
<1>3. \A t : Granted(t) => Granted(t)'
  BY <1>2 DEF Granted
<1>4. << Here, l >>[1] = Here /\ << Here, l >>[2] = l
  OBVIOUS
<1>5. flags.interactive /\ route = "json" =>
        /\ \A k \in DOMAIN given' : k \in DOMAIN queue /\ given'[k][1] = queue[k]
        /\ Len(given') = at
  <2> SUFFICES ASSUME flags.interactive /\ route = "json"
               PROVE  /\ \A k \in DOMAIN given' : k \in DOMAIN queue /\ given'[k][1] = queue[k]
                      /\ Len(given') = at
    OBVIOUS
  <2>1. Len(given) = at - 1 /\ \A k \in DOMAIN given : k \in DOMAIN queue /\ given[k][1] = queue[k]
    BY DEF Inv, InStep
  <2>2. Len(given') = at
    BY <1>1, <1>2, <2>1
  <2> QED
    BY <1>2, <1>4, <2>1, <2>2 DEF Here
<1>6. given' # << >>
  BY <1>2
<1> QED
  BY <1>2, <1>3, <1>4, <1>5, <1>6

Answered ==
  /\ at \in DOMAIN queue
  /\ \E l \in Lines : /\ given' = Append(given, << Here, l >>)
                      /\ pc' = "approved" => l \in Approval

\* A step of the loop that leaves the disk alone.
LEMMA LoopKeeps ==
  ASSUME Inv, pc \in Working, pc' \in {"ask", "approved", "finish"},
         pc' # "finish" => pc = "ask",
         InputOK', reader' = "reading" => pc' = "ask" /\ at' \in DOMAIN queue,
         UNCHANGED << sink, disk, evidence, flags, route, plan, queue, last, exit, published >>,
         err' \in {"none", "failed", "cancelled"}, at' \in Nat \ {0},
         RowsTrue', row' \in [Targets -> Rows],
         given' = given \/ (pc = "ask" /\ Answered),
         pc' = "approved" => at' = at /\ row' = row /\ Answered,
         pc' = "ask" => \A i \in DOMAIN queue : i >= at' => Fresh(queue[i])',
         pc' = "ask" /\ route = "json" =>
           (at' = at /\ given' = given) \/ (at' = at + 1 /\ Answered)
  PROVE  Inv'
<1>1. Answered /\ pc = "ask" =>
        /\ given' \in Seq(Targets \X Lines)
        /\ \A t : Granted(t) => Granted(t)'
        /\ pc' = "approved" => \E k \in DOMAIN given' : given'[k][1] = Here /\ given'[k][2] \in Approval
        /\ flags.interactive /\ route = "json" =>
             /\ \A k \in DOMAIN given' : k \in DOMAIN queue /\ given'[k][1] = queue[k]
             /\ Len(given') = at
  <2> SUFFICES ASSUME Answered, pc = "ask"
               PROVE  /\ given' \in Seq(Targets \X Lines)
                      /\ \A t : Granted(t) => Granted(t)'
                      /\ pc' = "approved" =>
                           \E k \in DOMAIN given' : given'[k][1] = Here /\ given'[k][2] \in Approval
                      /\ flags.interactive /\ route = "json" =>
                           /\ \A k \in DOMAIN given' : k \in DOMAIN queue /\ given'[k][1] = queue[k]
                           /\ Len(given') = at
    OBVIOUS
  <2>1. PICK l \in Lines : given' = Append(given, << Here, l >>) /\ (pc' = "approved" => l \in Approval)
    BY DEF Answered
  <2>2. at \in DOMAIN queue
    BY DEF Answered
  <2> QED
    BY <2>1, <2>2, AnswerIs
<1>2. TypeOK'
  BY <1>1 DEF Inv, TypeOK, SinkOK, SessionOK, sink, Pcs, Working
<1>3. QueueTrue'
  <2>1. pc' \notin Unqueued
    BY DEF Unqueued
  <2> QED
    BY <2>1 DEF Inv, QueueTrue, Prepared, Untouched
<1>4. pc' \notin Before \cup Executing \cup {"confirm", "validate", "done"}
  BY DEF Before, Unbound, Unqueued
<1>5. Ahead'
  <2>1. pc' = "approved" => at' \in DOMAIN queue' /\ \A i \in DOMAIN queue' : i >= at' => Fresh(queue[i])'
    BY DEF Inv, Ahead, Answered, Fresh, Untouched
  <2> QED
    BY <1>4, <2>1 DEF Ahead, Working, Before, Unbound, Unqueued
<1>6. Prompting'
  BY DEF Prompting
<1>7. Consent'
  <2>1. \A t \in Targets : Granted(t) => Granted(t)'
    BY <1>1 DEF Granted
  <2>2. pc' = "approved" => Granted(Here)'
    BY <1>1 DEF Granted, Here
  <2>3. \A t \in Targets : Untouched(t) => Untouched(t)'
    BY DEF Untouched
  <2> QED
    BY <1>4, <2>1, <2>2, <2>3 DEF Inv, Consent
<1>8. InStep'
  <2> SUFFICES ASSUME flags.interactive, route = "json"
               PROVE  InStep'
    BY DEF InStep
  <2>1. pc = "ask" => Len(given) = at - 1 /\ Ascending(queue) /\ Prepared = Selected
    BY DEF Inv, InStep
  <2>2. Ascending(queue)' = Ascending(queue) /\ Prepared' = Prepared /\ Selected' = Selected
    BY DEF Ascending, Prepared, Selected
  <2>3. \A k \in DOMAIN given' : k \in DOMAIN queue /\ given'[k][1] = queue[k]
    BY <1>1 DEF Inv, InStep
  <2>4. pc' = "ask" => Len(given') = at' - 1
    <3>1. given \in Seq(Targets \X Lines) /\ at \in Nat
      BY DEF Inv, TypeOK, SessionOK
    <3>2. Len(given) \in Nat
      BY <3>1
    <3> SUFFICES ASSUME pc' = "ask" PROVE Len(given') = at' - 1
      OBVIOUS
    <3>3. CASE at' = at /\ given' = given
      BY <2>1, <3>3
    <3>4. CASE at' = at + 1 /\ Answered
      <4>1. Len(given') = at
        BY <1>1, <3>4
      <4> QED
        BY <3>1, <3>4, <4>1
    <3> QED
      BY <3>3, <3>4
  <2>5. pc' = "approved" => Len(given') = at'
    BY <1>1
  <2>6. given' # << >> \/ pc' \in {"ask", "approved"} => Ascending(queue) /\ Prepared = Selected
    BY <2>1 DEF Inv, InStep
  <2> QED
    BY <1>4, <2>2, <2>3, <2>4, <2>5, <2>6 DEF InStep
<1>9. FileTrue' /\ Final'
  <2>1. HasReceipt' = HasReceipt /\ WantsReceipt' = WantsReceipt /\ Selected' = Selected
    BY DEF HasReceipt, WantsReceipt, Selected
  <2>2. pc' \notin Unbound /\ pc # "done"
    BY <1>4 DEF Before, Working
  <2> QED
    BY <1>4, <2>1, <2>2 DEF Inv, FileTrue, Final, sink
<1> QED
  BY <1>2, <1>3, <1>5, <1>6, <1>7, <1>8, <1>9 DEF Inv

LEMMA LoopEnds ==
  ASSUME Inv, pc \in Working, pc' = "finish", InputOK', reader' # "reading",
         NEW S, NEW s \in States, \A t \in S \cap Targets : Fresh(t),
         row' = Mark(row, S, s), err' \in {"none", "failed", "cancelled"},
         UNCHANGED << sink, disk, evidence, flags, route, plan, queue, last, exit, published >>,
         at' = at, given' = given \/ (pc = "ask" /\ Answered)
  PROVE  Inv'
<1>1. RowsTrue' /\ row' \in [Targets -> Rows]
  BY FreshMarking DEF Inv, TypeOK
<1> QED
  BY <1>1, LoopKeeps DEF Inv, TypeOK, SessionOK

LEMMA TargetPromptKeeps ==
  ASSUME Inv, TargetPrompt
  PROVE  Inv'
<1>1. /\ InputOK /\ RowsTrue /\ SessionOK /\ pc = "ask" /\ pc \in Working
      /\ at \in Nat \ {0} /\ queue \in Seq(Targets)
      /\ err \in {"none", "failed", "cancelled"} /\ row \in [Targets -> Rows]
  BY DEF Inv, TypeOK, SessionOK, TargetPrompt, Working
<1>2. reader = "reading" => at \in DOMAIN queue
  BY <1>1 DEF Inv, Prompting
<1>3. \A i \in DOMAIN queue : i >= at => Fresh(queue[i])
  BY <1>1 DEF Inv, Ahead
<1>4. UNCHANGED << sink, evidence, disk >>
  BY DEF TargetPrompt
<1>5. {"failed", "cancelled", "skipped"} \subseteq States
  BY DEF States
<1>6. row' = row => /\ RowsTrue'
                    /\ \A i \in DOMAIN queue : i >= at => (queue' = queue => Fresh(queue[i])')
  BY <1>1, <1>3, <1>4, RowsStay DEF Fresh, Untouched
<1>7. ASSUME NEW s \in States, at \in DOMAIN queue, row' = Mark(row, {Here}, s), UNCHANGED queue
      PROVE  /\ RowsTrue' /\ row' \in [Targets -> Rows]
             /\ \A i \in DOMAIN queue : i >= at + 1 => Fresh(queue[i])'
  <2>1. /\ RowsTrue' /\ row' \in [Targets -> Rows]
        /\ \A t \in Targets : t \notin {Here} => (Fresh(t) => Fresh(t)')
    <3>1. \A t \in {Here} \cap Targets : Fresh(t)
      BY <1>1, <1>7, HereIs
    <3>2. disk' = disk
      BY <1>4
    <3> QED
      BY <1>1, <1>7, <3>1, <3>2, FreshMarking
  <2>2. \A i \in DOMAIN queue : i >= at + 1 => queue[i] # Here /\ Fresh(queue[i])
    BY <1>1, <1>3, <1>7, HereIs
  <2> QED
    <3>1. \A i \in DOMAIN queue : queue[i] \in Targets
      BY <1>1
    <3> SUFFICES ASSUME NEW i \in DOMAIN queue, i >= at + 1
                 PROVE  Fresh(queue[i])'
      BY <2>1
    <3>2. row'[queue[i]] = Pending /\ disk'[queue[i]].left = Size /\ ~disk'[queue[i]].gone
      BY <2>1, <2>2, <3>1 DEF Fresh, Untouched
    <3> QED
      BY <1>7, <3>2 DEF Fresh, Untouched
<1>8. CASE at > Len(queue) /\ Goto("finish") /\ UNCHANGED input
  <2>1. InputOK' /\ reader' # "reading"
    BY <1>1, <1>2, <1>8, InputStays
  <2> QED
    BY <1>1, <1>4, <1>6, <1>8, <2>1, LoopKeeps DEF Goto, Keep
<1>9. CASE at <= Len(queue) /\ UnsafeHere
  <2>1. InputOK' /\ reader' # "reading" /\ at \in DOMAIN queue
    BY <1>1, <1>9, InputStays DEF UnsafeHere
  <2>2. RowsTrue' /\ row' \in [Targets -> Rows] /\ \A i \in DOMAIN queue : i >= at + 1 => Fresh(queue[i])'
    BY <1>5, <1>7, <1>9, <2>1 DEF UnsafeHere, Advance
  <2> QED
    <3>1. /\ pc' = "ask" /\ at' = at + 1 /\ at' \in Nat \ {0} /\ route # "json"
          /\ err' \in {"none", "failed", "cancelled"}
          /\ UNCHANGED << flags, route, plan, queue, last, exit, published, given >>
      BY <1>1, <1>9 DEF UnsafeHere, Advance
    <3>2. \A i \in DOMAIN queue : i >= at' => Fresh(queue[i])'
      BY <2>2, <3>1
    <3> QED
      BY <1>1, <1>4, <2>1, <2>2, <3>1, <3>2, LoopKeeps
<1>10. CASE at <= Len(queue) /\ Ask /\ Goto("ask")
  <2>1. InputOK' /\ at \in DOMAIN queue
    BY <1>1, <1>10, AskIs
  <2> QED
    BY <1>1, <1>4, <1>6, <1>10, <2>1, LoopKeeps DEF Goto, Keep
<1>11. ASSUME NEW l \in Answers, Read(l), JsonAnswer(l) \/ HumanAnswer(l),
              given' = IF l \in Lines THEN Append(given, << Here, l >>) ELSE given
       PROVE  Inv'
  <2>1. InputOK' /\ reader' # "reading" /\ at \in DOMAIN queue
    BY <1>1, <1>2, <1>11, ReadIs
  <2>2. l \in Lines \/ l \in {End, Broken}
    BY DEF Answers
  <2>3. CASE l \in Approval /\ Approve
    <3>1. Answered
      BY <1>11, <2>1, <2>3, Assumed DEF Answered
    <3> QED
      BY <1>1, <1>4, <1>6, <2>1, <2>3, <3>1, LoopKeeps DEF Approve
  <2>4. CASE SkipHere /\ (route = "json" => l = "n")
    <3>1. /\ RowsTrue' /\ row' \in [Targets -> Rows]
          /\ \A i \in DOMAIN queue : i >= at + 1 => Fresh(queue[i])'
          /\ pc' = "ask" /\ at' = at + 1 /\ at' \in Nat \ {0}
          /\ UNCHANGED << flags, route, plan, queue, last, err, exit, published >>
      <4>1. /\ pc' = "ask" /\ at' = at + 1 /\ at' \in Nat \ {0}
            /\ UNCHANGED << flags, route, plan, queue, last, err, exit, published >>
            /\ row' = Mark(row, {Here}, "skipped") /\ "skipped" \in States
        BY <1>1, <1>5, <2>4 DEF SkipHere, Advance
      <4> QED
        BY <1>7, <2>1, <4>1
    <3>2. l \in Lines => Answered
      BY <1>11, <2>1, <3>1 DEF Answered
    <3>3. "n" \in Lines
      BY SessionAssumption DEF SessionAssumption
    <3>4. \A i \in DOMAIN queue : i >= at' => Fresh(queue[i])'
      BY <3>1
    <3>5. (given' = given \/ Answered) /\ (route = "json" => Answered)
      BY <1>11, <2>4, <3>2, <3>3
    <3> QED
      BY <1>1, <1>4, <2>1, <3>1, <3>4, <3>5, LoopKeeps
  <2>5. CASE \E e \in {"none", "failed", "cancelled"} : CancelRest(e)
    <3>1. /\ row' = Mark(row, From(at), "cancelled") /\ pc' = "finish"
          /\ err' \in {"none", "failed", "cancelled"}
          /\ UNCHANGED << flags, route, plan, queue, at, last, exit, published >>
      BY <1>1, <2>5 DEF CancelRest, Conclude
    <3>2. l \in Lines => Answered
      BY <1>11, <2>1, <3>1 DEF Answered
    <3> QED
      BY <1>1, <1>4, <1>5, <1>11, <2>1, <3>1, <3>2, FromIs, LoopEnds
  <2> QED
    BY <1>11, <2>2, <2>3, <2>4, <2>5 DEF JsonAnswer, HumanAnswer
<1>12. CASE ReadCancelled /\ CancelRest("cancelled") /\ UNCHANGED given
  <2>1. InputOK' /\ reader' # "reading"
    BY <1>1, <1>12, ReadCancelledIs
  <2> QED
    BY <1>1, <1>4, <1>5, <1>12, <2>1, FromIs, LoopEnds DEF CancelRest, Conclude
<1> QED
  BY <1>8, <1>9, <1>10, <1>11, <1>12 DEF TargetPrompt

LEMMA StartKeeps ==
  ASSUME Inv, pc \in {"approved", "validate"}, pc' = "execute",
         at <= last', last' \in DOMAIN queue, flags.interactive => last' = at,
         UNCHANGED << input, sink, disk, evidence, flags, route, plan, queue, at, row, err, exit,
                     published, given >>
  PROVE  Inv'
<1>1. InputOK' /\ reader' # "reading"
  BY InputStays DEF Inv, TypeOK, Prompting
<1>2. TypeOK'
  BY <1>1 DEF Inv, TypeOK, SinkOK, SessionOK, sink, Pcs, Working
<1>3. RowsTrue' /\ QueueTrue'
  BY RowsStay DEF Inv, QueueTrue, Prepared, Untouched, Unqueued
<1>4. Ahead' /\ Prompting'
  BY <1>1 DEF Inv, Ahead, Prompting, Fresh, Untouched, Working, Before, Unbound, Unqueued
<1>5. Consent'
  BY DEF Inv, Consent, Granted, Here, Untouched, Before, Unbound, Unqueued
<1>6. InStep'
  <2>1. Ascending(queue)' = Ascending(queue) /\ Prepared' = Prepared /\ Selected' = Selected
    BY DEF Ascending, Prepared, Selected
  <2>2. flags.interactive => pc = "approved"
    BY DEF Inv, Consent
  <2> QED
    BY <2>1, <2>2 DEF Inv, InStep
<1>7. FileTrue' /\ Final'
  <2>1. HasReceipt' = HasReceipt /\ WantsReceipt' = WantsReceipt /\ Selected' = Selected
    BY DEF HasReceipt, WantsReceipt, Selected
  <2>2. pc' \notin Unbound /\ pc # "done" /\ pc \in Working
    BY DEF Unbound, Unqueued, Working
  <2> QED
    BY <2>1, <2>2 DEF Inv, FileTrue, Final, sink
<1> QED
  BY <1>2, <1>3, <1>4, <1>5, <1>6, <1>7 DEF Inv

LEMMA ApprovedKeeps ==
  ASSUME Inv, Approved
  PROVE  Inv'
<1>1. /\ InputOK' /\ reader' # "reading" /\ pc = "approved" /\ pc \in Working
      /\ UNCHANGED << sink, evidence, disk, given >> /\ at \in DOMAIN queue
      /\ RowsTrue /\ SessionOK /\ err \in {"none", "failed", "cancelled"} /\ at \in Nat \ {0}
      /\ row \in [Targets -> Rows] /\ queue \in Seq(Targets)
  BY InputStays DEF Inv, TypeOK, SessionOK, Prompting, Approved, Stay, Working, Ahead
<1>2. {"failed", "cancelled"} \subseteq States
  BY DEF States
<1>3. CASE pc' = "execute"
  <2>1. /\ last' = at
        /\ UNCHANGED << input, flags, route, plan, queue, at, row, err, exit, published >>
    BY <1>3 DEF Approved, CancelRest, Conclude, Stay
  <2> QED
    BY <1>1, <1>3, <2>1, StartKeeps
<1>4. CASE CancelRest("cancelled")
  BY <1>1, <1>2, <1>4, FromIs, LoopEnds DEF CancelRest, Conclude
<1>5. CASE row' = Outdated /\ pc' = "finish"
  <2>1. /\ err' \in {"none", "failed", "cancelled"}
        /\ UNCHANGED << flags, route, plan, queue, at, last, exit, published >>
    BY <1>1, <1>5 DEF Approved, CancelRest, Conclude
  <2>2. CASE route # "json"
    BY <1>1, <1>2, <1>5, <2>1, <2>2, FromIs, LoopEnds DEF Outdated
  <2>3. CASE route = "json"
    <3> DEFINE cut(r, s) == [r EXCEPT !.state = s, !.gone = FALSE, !.freed = 0]
               rest == Mark(row, From(at + 1), "cancelled")
    <3>1. \A r \in Rows, s \in States :
            cut(r, s) \in Rows /\ cut(r, s).gone = FALSE /\ cut(r, s).counted = r.counted
      BY MarkIs
    <3>2. \A t \in Targets : rest[t] = IF t \in From(at + 1) THEN cut(row[t], "cancelled") ELSE row[t]
      BY DEF Mark
    <3>3. row' = [t \in Targets |-> IF t \in {Here} THEN cut(rest[t], "failed") ELSE rest[t]]
      BY <1>5, <2>3 DEF Outdated, Mark
    <3>4. Fresh(Here) /\ \A t \in From(at + 1) \cap Targets : Fresh(t)
      BY <1>1, HereIs, FromIs
    <3> HIDE DEF cut, rest
    <3>5. \A t \in Targets : rest[t] \in Rows
      BY <1>1, <1>2, <3>1, <3>2
    <3>6. row' \in [Targets -> Rows]
      BY <1>2, <3>1, <3>3, <3>5
    <3>7. \A t \in Targets :
            row'[t] = row[t] \/ (Fresh(t) /\ row'[t].gone = FALSE /\ row'[t].counted = row[t].counted)
      <4> SUFFICES ASSUME NEW t \in Targets
                   PROVE  row'[t] = row[t] \/
                            (Fresh(t) /\ row'[t].gone = FALSE /\ row'[t].counted = row[t].counted)
        OBVIOUS
      <4>1. row[t] \in Rows /\ rest[t] \in Rows
        BY <1>1, <3>5
      <4>2. rest[t] = row[t] \/
              (Fresh(t) /\ rest[t].gone = FALSE /\ rest[t].counted = row[t].counted)
        BY <1>2, <3>1, <3>2, <3>4, <4>1
      <4>3. row'[t] = rest[t] \/
              (t = Here /\ row'[t].gone = FALSE /\ row'[t].counted = rest[t].counted)
        BY <1>2, <3>1, <3>3, <4>1
      <4> QED
        BY <3>4, <4>2, <4>3
    <3>8. RowsTrue'
      BY <1>1, <3>6, <3>7, MarkingKeeps
    <3> QED
      BY <1>1, <1>5, <2>1, <3>6, <3>8, LoopKeeps
  <2> QED
    BY <2>2, <2>3
<1> QED
  BY <1>3, <1>4, <1>5 DEF Approved

LEMMA ConfirmKeeps ==
  ASSUME Inv, ConfirmPrompt \/ Validate
  PROVE  Inv'
<1>1. /\ InputOK /\ pc \in {"confirm", "validate"} /\ pc \in Working
      /\ UNCHANGED << sink, evidence, disk >>
      /\ at = 1 /\ queue # << >> /\ ~flags.interactive
      /\ err \in {"none", "failed", "cancelled"} /\ queue \in Seq(Targets)
      /\ \A t \in Prepared \cap Targets : Fresh(t)
  <2>1. /\ InputOK /\ pc \in {"confirm", "validate"} /\ pc \in Working
        /\ UNCHANGED << sink, evidence, disk >>
        /\ err \in {"none", "failed", "cancelled"} /\ queue \in Seq(Targets)
    BY DEF Inv, TypeOK, SessionOK, ConfirmPrompt, Validate, Stay, Working
  <2>2. at = 1 /\ queue # << >> /\ ~flags.interactive
    BY <2>1 DEF Inv, Ahead, Consent
  <2> QED
    BY <2>1, <2>2, FromIs
<1>2. {"failed", "cancelled"} \subseteq States
  BY DEF States
<1>3. ASSUME NEW s \in {"failed", "cancelled"}, NEW e \in {"failed", "cancelled"},
             Conclude(Prepared, s, e), UNCHANGED given, InputOK', reader' # "reading"
      PROVE  Inv'
  BY <1>1, <1>2, <1>3, LoopEnds DEF Conclude
<1>4. ASSUME pc' \in {"confirm", "validate", "done"}, InputOK',
             reader' = "reading" => pc' = "confirm", exit' \in {exit, "zero"},
             UNCHANGED << flags, route, plan, queue, at, last, row, err, published, given >>
      PROVE  Inv'
  <2>1. TypeOK'
    BY <1>1, <1>4 DEF Inv, TypeOK, SinkOK, SessionOK, sink, Pcs, Working
  <2>2. RowsTrue' /\ QueueTrue'
    BY <1>1, <1>4, RowsStay DEF Inv, QueueTrue, Prepared, Untouched, Unqueued
  <2>3. Ahead' /\ Prompting'
    BY <1>1, <1>4 DEF Inv, Ahead, Prompting, Fresh, Untouched, Working, Before, Unbound, Unqueued
  <2>4. Consent' /\ InStep'
    BY <1>1, <1>4 DEF Inv, Consent, InStep, Before, Unbound, Unqueued
  <2>5. FileTrue' /\ Final'
    <3>1. HasReceipt' = HasReceipt /\ WantsReceipt' = WantsReceipt /\ Selected' = Selected
      BY <1>4 DEF HasReceipt, WantsReceipt, Selected
    <3>2. pc' \notin Unbound /\ pc # "done"
      BY <1>1, <1>4 DEF Unbound, Unqueued
    <3> QED
      BY <1>1, <1>4, <3>1, <3>2 DEF Inv, FileTrue, Final, sink
  <2> QED
    BY <2>1, <2>2, <2>3, <2>4, <2>5 DEF Inv
<1>5. CASE ConfirmPrompt
  <2>1. CASE Ask /\ Goto("confirm")
    BY <1>1, <1>4, <2>1, AskIs DEF Goto, Keep
  <2>2. CASE Read("y") /\ Goto("validate")
    BY <1>1, <1>4, <2>2, ReadIs DEF Goto, Keep
  <2>3. CASE \E l \in (Lines \ {"y"}) \cup {End} : Read(l) /\ Exit("zero")
    BY <1>1, <1>4, <2>3, ReadIs DEF Exit
  <2>4. CASE Read(Broken) /\ Conclude(Prepared, "cancelled", "failed") /\ UNCHANGED given
    BY <1>1, <1>3, <2>4, ReadIs
  <2>5. CASE ReadCancelled /\ Conclude(Prepared, "cancelled", "cancelled") /\ UNCHANGED given
    BY <1>1, <1>3, <2>5, ReadCancelledIs
  <2> QED
    BY <1>5, <2>1, <2>2, <2>3, <2>4, <2>5 DEF ConfirmPrompt
<1>6. CASE Validate
  <2>1. InputOK' /\ reader' # "reading" /\ UNCHANGED << input, given >> /\ pc = "validate"
    BY <1>6, InputStays DEF Inv, TypeOK, Prompting, Validate, Stay
  <2>2. CASE Validated
    BY <1>1, <1>6, <2>1, <2>2, StartKeeps DEF Validate
  <2>3. CASE ~Validated
    BY <1>3, <1>6, <2>1, <2>3 DEF Validate
  <2> QED
    BY <2>2, <2>3
<1> QED
  BY <1>5, <1>6

-----------------------------------------------------------------------------
(* Execution.                                                                *)

Units == [state : States, attempted : BOOLEAN, gone : BOOLEAN, freed : 0 .. Size,
          residual : 0 .. Size]

\* What a unit may say of a target of which left bytes are left.
Honest(u, left) ==
  /\ u \in Units /\ left \in 0 .. Size
  /\ u.gone => left = 0 /\ u.state \in {"removed", "partial"}
  /\ Measured(u) => left <= u.residual
  /\ u.state \in {"removed", "partial", "failed"} \/ (u.state = "cancelled" /\ left = Size /\ ~u.gone)

LEMMA OutcomeHonest ==
  ASSUME NEW o \in Successes \cup Failures
  PROVE  /\ Honest(o.unit, o.left)
         /\ ~o.unit.attempted => o.left = Size /\ ~o.unit.gone
<1>1. Size \in Nat \ {0}
  BY Assumed
<1>3. CASE o \in Refused
  <2>1. PICK r \in {0, Size} : o = [left |-> Size, unit |-> Outcome("failed", FALSE, FALSE, 0, r)]
    BY <1>3 DEF Refused
  <2>2. o.left = Size /\ o.unit = Outcome("failed", FALSE, FALSE, 0, r)
    BY <2>1
  <2>3. r \in 0 .. Size /\ r \in {0, Size} /\ 0 \in 0 .. Size /\ Size \in 0 .. Size
    BY <1>1, <2>1
  <2>4. /\ o.left = Size /\ o.unit \in Units /\ o.unit.state = "failed" /\ ~o.unit.attempted /\ ~o.unit.gone
        /\ o.unit.freed = 0 /\ o.unit.residual = r
    BY <2>1, <2>2, <2>3 DEF Outcome, Units, States
  <2>5. Measured(o.unit) => o.left <= o.unit.residual
    BY <1>1, <2>3, <2>4 DEF Measured
  <2> QED
    BY <1>1, <2>3, <2>4, <2>5 DEF Honest
<1>4. CASE o \in Removed
  <2>1. o = [left |-> 0, unit |-> Outcome("removed", TRUE, TRUE, Size, 0)]
    BY <1>4 DEF Removed
  <2>2. o.left = 0 /\ o.unit = Outcome("removed", TRUE, TRUE, Size, 0)
    BY <2>1
  <2>3. 0 \in 0 .. Size /\ Size \in 0 .. Size
    BY <1>1
  <2>4. /\ o.left = 0 /\ o.unit \in Units /\ o.unit.state = "removed" /\ o.unit.attempted /\ o.unit.gone
        /\ o.unit.freed = Size /\ o.unit.residual = 0
    BY <2>1, <2>2, <2>3 DEF Outcome, Units, States
  <2>5. Measured(o.unit) => o.left <= o.unit.residual
    BY <1>1, <2>3, <2>4 DEF Measured
  <2> QED
    BY <1>1, <2>3, <2>4, <2>5 DEF Honest
<1>5. CASE o \in Emptied
  <2>1. PICK b \in 0 .. Size : o = [left |-> b, unit |-> Outcome("removed", TRUE, FALSE, Size - b, b)]
    BY <1>5 DEF Emptied
  <2>2. o.left = b /\ o.unit = Outcome("removed", TRUE, FALSE, Size - b, b)
    BY <2>1
  <2>3. Size - b \in 0 .. Size /\ b \in 0 .. Size
    BY <1>1, <2>1
  <2>4. /\ o.left = b /\ o.unit \in Units /\ o.unit.state = "removed" /\ o.unit.attempted /\ ~o.unit.gone
        /\ o.unit.freed = Size - b /\ o.unit.residual = b
    BY <2>1, <2>2, <2>3 DEF Outcome, Units, States
  <2>5. Measured(o.unit) => o.left <= o.unit.residual
    BY <1>1, <2>3, <2>4 DEF Measured
  <2> QED
    BY <1>1, <2>3, <2>4, <2>5 DEF Honest
<1>6. CASE o \in Partial
  <2>1. CASE o = [left |-> 0, unit |-> Outcome("partial", TRUE, TRUE, Size, 0)]
    <3>1. o.left = 0 /\ o.unit = Outcome("partial", TRUE, TRUE, Size, 0)
      BY <2>1
    <3>2. 0 \in 0 .. Size /\ Size \in 0 .. Size
      BY <1>1
    <3>3. /\ o.left = 0 /\ o.unit \in Units /\ o.unit.state = "partial" /\ o.unit.attempted
          /\ o.unit.gone /\ o.unit.freed = Size /\ o.unit.residual = 0
      BY <3>1, <3>2 DEF Outcome, Units, States
    <3>4. Measured(o.unit) => o.left <= o.unit.residual
      BY <1>1, <3>2, <3>3 DEF Measured
    <3> QED
      BY <1>1, <3>2, <3>3, <3>4 DEF Honest
  <2>2. ASSUME NEW b \in 0 .. Size,
               o = [left |-> b, unit |-> Outcome(IF b < Size THEN "partial" ELSE "failed",
                                                TRUE, FALSE, Size - b, b)]
        PROVE  /\ Honest(o.unit, o.left)
               /\ ~o.unit.attempted => o.left = Size /\ ~o.unit.gone
    <3> DEFINE s == IF b < Size THEN "partial" ELSE "failed"
    <3>1. o.left = b /\ o.unit = Outcome(s, TRUE, FALSE, Size - b, b)
      BY <2>2
    <3>2. Size - b \in 0 .. Size /\ s \in {"failed", "removed", "partial"}
      BY <1>1
    <3> HIDE DEF s
    <3>3. /\ o.left = b /\ o.unit \in Units /\ o.unit.state = s /\ o.unit.attempted
          /\ ~o.unit.gone /\ o.unit.freed = Size - b /\ o.unit.residual = b
      BY <3>1, <3>2 DEF Outcome, Units, States
    <3>4. Measured(o.unit) => o.left <= o.unit.residual
      BY <1>1, <3>2, <3>3 DEF Measured
    <3> QED
      BY <1>1, <3>2, <3>3, <3>4 DEF Honest
  <2> QED
    BY <1>6, <2>1, <2>2 DEF Partial
<1>7. CASE o \in CutShort
  <2>1. PICK b \in 0 .. Size : o = [left |-> b, unit |-> Outcome("failed", TRUE, FALSE, 0, Size)]
    BY <1>7 DEF CutShort
  <2>2. o.left = b /\ o.unit = Outcome("failed", TRUE, FALSE, 0, Size)
    BY <2>1
  <2>3. 0 \in 0 .. Size /\ Size \in 0 .. Size /\ b \in 0 .. Size
    BY <1>1, <2>1
  <2>4. /\ o.left = b /\ o.unit \in Units /\ o.unit.state = "failed" /\ o.unit.attempted /\ ~o.unit.gone
        /\ o.unit.freed = 0 /\ o.unit.residual = Size
    BY <2>1, <2>2, <2>3 DEF Outcome, Units, States
  <2>5. Measured(o.unit) => o.left <= o.unit.residual
    BY <1>1, <2>3, <2>4 DEF Measured
  <2> QED
    BY <1>1, <2>3, <2>4, <2>5 DEF Honest
<1>8. CASE o \in Active
  <2>1. PICK b \in 0 .. Size, s \in {"partial", "failed"} : o = [left |-> b, unit |-> Outcome(s, TRUE, FALSE, 0, 0)]
    BY <1>8 DEF Active, Outcome
  <2>2. o.left = b /\ o.unit = Outcome(s, TRUE, FALSE, 0, 0)
    BY <2>1
  <2>3. 0 \in 0 .. Size /\ b \in 0 .. Size /\ s \in {"partial", "failed"}
    BY <1>1, <2>1
  <2>4. /\ o.left = b /\ o.unit \in Units /\ o.unit.state = s /\ o.unit.attempted /\ ~o.unit.gone
        /\ o.unit.freed = 0 /\ o.unit.residual = 0
    BY <2>1, <2>2, <2>3 DEF Outcome, Units, States
  <2>5. Measured(o.unit) => o.left <= o.unit.residual
    BY <1>1, <2>3, <2>4 DEF Measured
  <2> QED
    BY <1>1, <2>3, <2>4, <2>5 DEF Honest
<1> QED
  BY <1>3, <1>4, <1>5, <1>6, <1>7, <1>8 DEF Successes, Failures

\* The row of an honest unit agrees with what is left.
LEMMA RowOfIs ==
  ASSUME NEW u, NEW left, Honest(u, left)
  PROVE  /\ RowOf(u) \in Rows /\ RowOf(u).gone = u.gone /\ RowOf(u).state = u.state
         /\ RowOf(u).counted # Unmeasured => left <= RowOf(u).counted
<1>1. Size \in Nat \ {0} /\ Unmeasured \notin 0 .. Size
  BY Assumed
<1>2. u.residual \in 0 .. Size /\ left \in 0 .. Size /\ (Measured(u) => left <= u.residual)
      /\ u.state \in States /\ u.attempted \in BOOLEAN /\ u.gone \in BOOLEAN /\ u.freed \in 0 .. Size
  BY DEF Honest, Units
<1> DEFINE c == IF Measured(u) THEN u.residual ELSE IF Unknown(u) THEN Unmeasured ELSE Size
<1>3. c \in 0 .. Size \cup {Unmeasured} /\ (c # Unmeasured => left <= c)
  BY <1>1, <1>2
<1>4. RowOf(u) = [state |-> u.state, attempted |-> u.attempted, gone |-> u.gone,
                  freed |-> u.freed, counted |-> c]
  BY DEF RowOf
<1> HIDE DEF c
<1> QED
  BY <1>2, <1>3, <1>4 DEF Rows

LEMMA ExecutionKeeps ==
  ASSUME Inv, pc \in Executing, pc' \in {"execute", "ask", "finish"}, at' = at + 1,
         pc' = "execute" => at < last,
         InputOK', reader' # "reading",
         UNCHANGED << sink, evidence, flags, route, plan, queue, last, exit, published, given >>,
         err' \in {"none", "failed", "cancelled"},
         row' \in [Targets -> Rows], disk' \in [Targets -> Places],
         \A t \in Targets : Agrees(t)',
         \A t \in Targets : t # Here => disk'[t] = disk[t],
         pc' # "finish" => \A i \in DOMAIN queue : i >= at + 1 => row'[queue[i]] = row[queue[i]]
  PROVE  Inv'
<1>1. /\ at \in DOMAIN queue /\ queue \in Seq(Targets) /\ at \in Nat \ {0} /\ last \in DOMAIN queue
      /\ pc \in Working
  <2>1. at <= last /\ last \in DOMAIN queue /\ queue \in Seq(Targets) /\ at \in Nat \ {0}
    BY DEF Inv, Ahead, TypeOK, SessionOK
  <2> QED
    BY <2>1 DEF Working
<1>2. /\ Here \in Targets /\ Here \in Prepared
      /\ \A i \in DOMAIN queue : i >= at + 1 => queue[i] # Here /\ Fresh(queue[i]) /\ queue[i] \in Targets
  <2>1. \A i \in DOMAIN queue : i >= at => Fresh(queue[i])
    BY <1>1 DEF Inv, Ahead
  <2> QED
    BY <1>1, <2>1, HereIs
<1>3. \A t \in Targets : t # Here => (Untouched(t) => Untouched(t)')
  BY DEF Untouched
<1>4. TypeOK'
  BY <1>1 DEF Inv, TypeOK, SinkOK, SessionOK, sink, Pcs, Working
<1>5. RowsTrue'
  BY DEF RowsTrue
<1>6. QueueTrue'
  <2>1. pc' \notin Unqueued
    BY DEF Unqueued
  <2>2. Prepared' = Prepared
    BY DEF Prepared
  <2> QED
    BY <1>2, <1>3, <2>1, <2>2 DEF Inv, QueueTrue
<1>7. pc' \notin Before \cup {"confirm", "validate", "approved", "done"} /\ pc' \notin Unbound
  BY DEF Before, Unbound, Unqueued
<1>8. Ahead'
  <2>1. pc' # "finish" => \A i \in DOMAIN queue' : i >= at' => Fresh(queue[i])'
    <3> SUFFICES ASSUME pc' # "finish", NEW i \in DOMAIN queue, i >= at + 1
                 PROVE  Fresh(queue[i])'
      OBVIOUS
    <3>1. row'[queue[i]] = Pending /\ disk'[queue[i]].left = Size /\ ~disk'[queue[i]].gone
      BY <1>2 DEF Fresh, Untouched
    <3> QED
      BY <3>1 DEF Fresh, Untouched
  <2>2. pc' = "execute" => at' <= last'
    BY <1>1
  <2> QED
    BY <1>1, <1>7, <2>1, <2>2 DEF Ahead, Working, Before, Unbound, Unqueued
<1>9. Prompting'
  BY DEF Prompting
<1>10. Consent'
  <2>1. \A t : Granted(t)' = Granted(t)
    BY DEF Granted
  <2>2. flags.interactive => pc' # "execute" /\ Granted(Here) /\ \A t \in Targets : Untouched(t) \/ Granted(t)
    BY <1>1 DEF Inv, Consent
  <2> QED
    BY <1>2, <1>3, <1>7, <2>1, <2>2 DEF Consent
<1>11. InStep'
  <2>1. Ascending(queue)' = Ascending(queue) /\ Prepared' = Prepared /\ Selected' = Selected
    BY DEF Ascending, Prepared, Selected
  <2>2. flags.interactive => pc' # "execute"
    BY <1>1 DEF Inv, Consent
  <2> QED
    BY <1>1, <1>7, <2>1, <2>2 DEF Inv, InStep
<1>12. FileTrue' /\ Final'
  <2>1. HasReceipt' = HasReceipt /\ WantsReceipt' = WantsReceipt /\ Selected' = Selected
    BY DEF HasReceipt, WantsReceipt, Selected
  <2> QED
    BY <1>1, <1>7, <2>1 DEF Inv, FileTrue, Final, sink
<1> QED
  BY <1>4, <1>5, <1>6, <1>8, <1>9, <1>10, <1>11, <1>12 DEF Inv

\* One target executed, the rest of the batch marked or left alone.
LEMMA TargetExecuted ==
  ASSUME Inv, pc \in Executing, NEW left, NEW u, Honest(u, left),
         u.state = "cancelled" \/ u.state \in {"removed", "partial", "failed"},
         disk' = [disk EXCEPT ![Here] = [left |-> left, gone |-> u.gone]],
         NEW S, \A t \in S \cap Targets : Fresh(t),
         row' = [Mark(row, S, "cancelled") EXCEPT ![Here] = RowOf(u)]
  PROVE  /\ row' \in [Targets -> Rows] /\ disk' \in [Targets -> Places]
         /\ \A t \in Targets : Agrees(t)'
         /\ \A t \in Targets : t # Here => disk'[t] = disk[t]
         /\ \A t \in Targets : t # Here /\ t \notin S => row'[t] = row[t]
<1>1. Here \in Targets
  BY HereIs DEF Inv, Ahead, TypeOK, SessionOK
<1>2. /\ row \in [Targets -> Rows] /\ disk \in [Targets -> Places] /\ \A t \in Targets : Agrees(t)
      /\ Size \in Nat
  BY Assumed DEF Inv, TypeOK, SessionOK, RowsTrue
<1>3. /\ RowOf(u) \in Rows /\ RowOf(u).gone = u.gone /\ RowOf(u).state = u.state
      /\ RowOf(u).counted # Unmeasured => left <= RowOf(u).counted
  BY RowOfIs
<1>4. left \in 0 .. Size /\ u.gone \in BOOLEAN /\ (u.gone => left = 0 /\ u.state \in {"removed", "partial"})
      /\ (u.state = "cancelled" => left = Size /\ ~u.gone)
  BY DEF Honest, Units
<1> DEFINE cut(r) == [r EXCEPT !.state = "cancelled", !.gone = FALSE, !.freed = 0]
<1>5. \A r \in Rows : cut(r) \in Rows /\ cut(r).gone = FALSE /\ cut(r).counted = r.counted
  <2>1. "cancelled" \in States
    BY DEF States
  <2> QED
    BY <2>1, MarkIs
<1>6. row' = [t \in Targets |-> IF t = Here THEN RowOf(u) ELSE IF t \in S THEN cut(row[t]) ELSE row[t]]
  BY <1>1 DEF Mark
<1> HIDE DEF cut
<1>7. row' \in [Targets -> Rows]
  BY <1>2, <1>3, <1>5, <1>6
<1>8. [left |-> left, gone |-> u.gone] \in Places
  BY <1>4 DEF Places
<1>9. disk' \in [Targets -> Places] /\ \A t \in Targets : t # Here => disk'[t] = disk[t]
  BY <1>2, <1>8
<1>10. disk'[Here].left = left /\ disk'[Here].gone = u.gone
  BY <1>1, <1>2
<1>11. ASSUME NEW t \in Targets, t = Here PROVE Agrees(t)'
  <2>1. row'[t] = RowOf(u) /\ disk'[t].left = left /\ disk'[t].gone = u.gone
    BY <1>6, <1>10, <1>11
  <2> QED
    BY <1>3, <1>4, <2>1 DEF Agrees, Untouched
<1>12. ASSUME NEW t \in Targets, t # Here PROVE Agrees(t)'
  <2>1. CASE t \in S
    <3>1. row'[t].gone = FALSE /\ row'[t].counted = Size
      BY <1>5, <1>6, <1>12, <2>1, PendingIs DEF Fresh
    <3>3. disk'[t].left = Size /\ disk'[t].gone = FALSE
      BY <1>2, <1>9, <1>12, <2>1 DEF Fresh, Untouched, Places
    <3>2. Size <= Size
      BY <1>2
    <3> QED
      BY <3>1, <3>2, <3>3 DEF Agrees, Untouched
  <2>2. CASE t \notin S
    <3>1. row'[t] = row[t] /\ disk'[t] = disk[t]
      BY <1>6, <1>9, <1>12, <2>2
    <3> QED
      BY <1>2, <3>1 DEF Agrees, Untouched
  <2> QED
    BY <2>1, <2>2
<1> QED
  BY <1>6, <1>7, <1>9, <1>11, <1>12

\* A target passes a look at the context: nothing but the place changes.
LEMMA GoingOnKeeps ==
  ASSUME Inv, pc \in Executing, pc' \in Executing, Keep,
         UNCHANGED << input, sink, evidence, disk >>, InputOK', reader' # "reading"
  PROVE  Inv'
<1>1. TypeOK'
  BY DEF Inv, TypeOK, SinkOK, SessionOK, sink, Keep, Pcs, Working
<1>2. RowsTrue' /\ QueueTrue'
  BY RowsStay DEF Inv, QueueTrue, Prepared, Untouched, Keep, Unqueued, Executing
<1>3. Ahead' /\ Prompting'
  BY DEF Inv, Ahead, Prompting, Fresh, Untouched, Keep, Executing, Working, Before, Unbound,
         Unqueued
<1>4. Consent' /\ InStep'
  BY DEF Inv, Consent, InStep, Granted, Here, Untouched, Ascending, Prepared, Selected, Keep,
         Executing, Before, Unbound, Unqueued
<1>5. FileTrue' /\ Final'
  BY DEF Inv, FileTrue, Final, HasReceipt, WantsReceipt, Selected, Keep, sink, Executing,
         Working, Unbound, Unqueued
<1> QED
  BY <1>1, <1>2, <1>3, <1>4, <1>5 DEF Inv

LEMMA ExecuteKeeps ==
  ASSUME Inv, Execute
  PROVE  Inv'
<1>1. /\ pc \in Executing /\ pc \in Working /\ reader # "reading" /\ InputOK /\ SessionOK /\ RowsTrue
      /\ UNCHANGED << input, sink, evidence, given >> /\ InputOK' /\ reader' # "reading"
      /\ err \in {"none", "failed", "cancelled"} /\ at <= last /\ last \in DOMAIN queue
      /\ queue \in Seq(Targets) /\ at \in Nat \ {0}
      /\ row \in [Targets -> Rows] /\ disk \in [Targets -> Places]
  <2>1. pc \in Executing /\ UNCHANGED << input, sink, evidence, given >>
    BY DEF Execute, BeginTarget, VetTarget, RemoveTarget, Executing
  <2>2. InputOK /\ SessionOK /\ RowsTrue /\ reader # "reading" /\ at <= last /\ last \in DOMAIN queue
    BY <2>1 DEF Inv, TypeOK, Prompting, Ahead, Executing
  <2> QED
    BY <2>1, <2>2, InputStays DEF SessionOK, Working
<1>2. at \in DOMAIN queue
  BY <1>1
<1>3. /\ Here \in Targets
      /\ \A i \in DOMAIN queue : i >= at + 1 => queue[i] # Here /\ queue[i] \in Targets
  BY <1>1, <1>2, HereIs
<1>4. AfterBatch \in {"execute", "ask", "finish"} /\ (AfterBatch = "execute" => at < last)
  BY DEF AfterBatch
<1>5. "cancelled" \in States
  BY DEF States
<1>6. CASE CancelledBefore
  <2> DEFINE S == IF LoopCancels THEN {Here} ELSE From(at)
  <2>1. /\ row' = Mark(row, S, "cancelled") /\ disk' = disk
        /\ err' \in {"none", "failed", "cancelled"} /\ at' = at + 1
        /\ pc' = IF LoopCancels THEN "ask" ELSE "finish"
        /\ UNCHANGED << flags, route, plan, queue, last, exit, published >>
    BY <1>1, <1>6 DEF CancelledBefore, Advance
  <2>2. \A t \in S \cap Targets : Fresh(t)
    BY <1>1, <1>2, HereIs, FromIs
  <2>3. LoopCancels => S = {Here}
    OBVIOUS
  <2> HIDE DEF S
  <2>4. /\ RowsTrue' /\ row' \in [Targets -> Rows]
        /\ \A t \in Targets : t \notin S => row'[t] = row[t]
    BY <1>1, <1>5, <2>1, <2>2, FreshMarking
  <2>5. pc' # "finish" => \A i \in DOMAIN queue : i >= at + 1 => row'[queue[i]] = row[queue[i]]
    BY <1>3, <2>1, <2>3, <2>4
  <2>6. \A t \in Targets : Agrees(t)'
    BY <2>4 DEF RowsTrue
  <2>7. pc' \in {"ask", "finish"}
    BY <2>1
  <2> QED
    BY <1>1, <2>1, <2>4, <2>5, <2>6, <2>7, ExecutionKeeps
<1>7. ASSUME NEW o \in Successes \cup Failures, Settle(o)
      PROVE  Inv'
  <2>1. /\ disk' = [disk EXCEPT ![Here] = [left |-> o.left, gone |-> o.unit.gone]]
        /\ row' = [row EXCEPT ![Here] = RowOf(o.unit)]
        /\ err' \in {"none", "failed", "cancelled"} /\ at' = at + 1 /\ pc' = AfterBatch
        /\ UNCHANGED << flags, route, plan, queue, last, exit, published >>
    BY <1>1, <1>7 DEF Settle, Effect, Advance
  <2>2. /\ row' = [Mark(row, {}, "cancelled") EXCEPT ![Here] = RowOf(o.unit)]
        /\ \A t \in {} \cap Targets : Fresh(t)
    <3>1. Mark(row, {}, "cancelled") = row
      BY <1>1 DEF Mark
    <3> QED
      BY <2>1, <3>1
  <2>3. Honest(o.unit, o.left) /\ o.unit.state \in {"removed", "partial", "failed", "cancelled"}
    BY OutcomeHonest DEF Honest
  <2>4. /\ row' \in [Targets -> Rows] /\ disk' \in [Targets -> Places]
        /\ \A t \in Targets : Agrees(t)'
        /\ \A t \in Targets : t # Here => disk'[t] = disk[t]
        /\ \A t \in Targets : t # Here => row'[t] = row[t]
    <3> DEFINE u == o.unit
               b == o.left
               S == {}
    <3>1. /\ Honest(u, b) /\ u.state \in {"removed", "partial", "failed", "cancelled"}
          /\ disk' = [disk EXCEPT ![Here] = [left |-> b, gone |-> u.gone]]
          /\ row' = [Mark(row, S, "cancelled") EXCEPT ![Here] = RowOf(u)]
          /\ \A t \in S \cap Targets : Fresh(t)
      BY <2>1, <2>2, <2>3
    <3> HIDE DEF u, b, S
    <3>2. /\ row' \in [Targets -> Rows] /\ disk' \in [Targets -> Places]
          /\ \A t \in Targets : Agrees(t)'
          /\ \A t \in Targets : t # Here => disk'[t] = disk[t]
          /\ \A t \in Targets : t # Here /\ t \notin S => row'[t] = row[t]
      BY <1>1, <3>1, TargetExecuted
    <3> QED
      BY <3>2 DEF S
  <2>5. \A i \in DOMAIN queue : i >= at + 1 => row'[queue[i]] = row[queue[i]]
    BY <1>3, <2>4
  <2> QED
    BY <1>1, <1>4, <2>1, <2>4, <2>5, ExecutionKeeps
<1>8. ASSUME NEW o \in Failures, SettleCancelled(o)
      PROVE  Inv'
  <2> DEFINE S == IF LoopCancels THEN {} ELSE From(at + 1)
             u == IF o.unit.attempted THEN o.unit ELSE [o.unit EXCEPT !.state = "cancelled"]
  <2>1. /\ disk' = [disk EXCEPT ![Here] = [left |-> o.left, gone |-> o.unit.gone]]
        /\ row' = [Mark(row, S, "cancelled") EXCEPT ![Here] = RowOf(u)]
        /\ err' \in {"none", "failed", "cancelled"} /\ at' = at + 1
        /\ pc' = IF LoopCancels THEN "ask" ELSE "finish"
        /\ UNCHANGED << flags, route, plan, queue, last, exit, published >>
    BY <1>1, <1>8 DEF SettleCancelled, Effect, Advance
  <2>2. \A t \in S \cap Targets : Fresh(t)
    BY <1>1, FromIs
  <2>3. /\ Honest(o.unit, o.left) /\ (~o.unit.attempted => o.left = Size /\ ~o.unit.gone)
    BY OutcomeHonest
  <2>4. Honest(u, o.left) /\ u.gone = o.unit.gone
    <3>1. CASE o.unit.attempted
      BY <2>3, <3>1
    <3>2. CASE ~o.unit.attempted
      <4> DEFINE v == [o.unit EXCEPT !.state = "cancelled"]
      <4>1. o.unit \in Units /\ o.left \in 0 .. Size /\ ~o.unit.gone /\ o.left = Size
            /\ (Measured(o.unit) => o.left <= o.unit.residual)
        BY <2>3, <3>2 DEF Honest
      <4>2. /\ v \in Units /\ v.state = "cancelled" /\ v.attempted = o.unit.attempted
            /\ v.gone = o.unit.gone /\ v.freed = o.unit.freed /\ v.residual = o.unit.residual
        BY <1>5, <4>1 DEF Units
      <4>3. u = v
        BY <3>2
      <4> HIDE DEF v, u
      <4>4. Honest(v, o.left)
        BY <4>1, <4>2 DEF Honest, Measured
      <4> QED
        BY <4>2, <4>3, <4>4
    <3> QED
      BY <3>1, <3>2
  <2>5. LoopCancels => S = {}
    OBVIOUS
  <2> HIDE DEF S, u
  <2>6. u.state \in {"removed", "partial", "failed", "cancelled"}
    BY <2>4 DEF Honest
  <2>7. /\ row' \in [Targets -> Rows] /\ disk' \in [Targets -> Places]
        /\ \A t \in Targets : Agrees(t)'
        /\ \A t \in Targets : t # Here => disk'[t] = disk[t]
        /\ \A t \in Targets : t # Here /\ t \notin S => row'[t] = row[t]
    BY <1>1, <2>1, <2>2, <2>4, <2>6, TargetExecuted
  <2>8. pc' # "finish" => \A i \in DOMAIN queue : i >= at + 1 => row'[queue[i]] = row[queue[i]]
    BY <1>3, <2>1, <2>5, <2>7
  <2>9. pc' \in {"ask", "finish"}
    BY <2>1
  <2> QED
    BY <1>1, <2>1, <2>7, <2>8, <2>9, ExecutionKeeps
<1>9. CASE (Goto("vet") \/ Goto("remove")) /\ UNCHANGED disk
  <2>1. pc' \in {"vet", "remove"} /\ Keep /\ UNCHANGED disk
    BY <1>9 DEF Goto
  <2> QED
    BY <1>1, <2>1, GoingOnKeeps
<1> QED
  BY <1>6, <1>7, <1>8, <1>9 DEF Execute, BeginTarget, VetTarget, RemoveTarget, Failures

-----------------------------------------------------------------------------
(* The end, and the world.                                                   *)

LEMMA FinishKeeps ==
  ASSUME Inv, Finish
  PROVE  Inv'
<1>1. /\ pc = "finish" /\ pc' = "done"
      /\ UNCHANGED << input, evidence, disk, flags, route, plan, queue, at, last, row, err, given >>
      /\ exit' \in {"zero", "nonzero"} /\ published' \in BOOLEAN
      /\ UNCHANGED << place, swaps, bound >>
  BY DEF Finish, ExitCode, HasReceipt, Store, sink
<1>2. InputOK' /\ reader' # "reading"
  BY <1>1, InputStays DEF Inv, TypeOK, Prompting
<1>3. document = "none"
  BY <1>1 DEF Inv, FileTrue
<1>4. \/ leaf' = leaf /\ document' = "none"
      \/ /\ HasReceipt /\ WantsReceipt /\ bound # "none"
         /\ leaf' = document'
         /\ document' = IF bound = "absent" THEN "created" ELSE bound
  <2>1. HasReceipt /\ WantsReceipt => bound # "none"
    BY <1>1 DEF Inv, FileTrue
  <2>2. CASE UNCHANGED sink
    BY <1>3, <2>2 DEF sink
  <2>3. CASE HasReceipt /\ WantsReceipt /\ Store
    BY <2>1, <2>3 DEF Store, Writable, SameFile
  <2> QED
    BY <2>2, <2>3 DEF Finish
<1>5. TypeOK'
  BY <1>1, <1>2, <1>4 DEF Inv, TypeOK, SinkOK, SessionOK, Pcs
<1>6. RowsTrue' /\ QueueTrue'
  BY <1>1, RowsStay DEF Inv, QueueTrue, Prepared, Untouched, Unqueued
<1>7. Ahead' /\ Prompting'
  BY <1>1, <1>2 DEF Ahead, Prompting, Working, Before, Unbound, Unqueued
<1>8. Consent'
  BY <1>1 DEF Inv, Consent, Granted, Untouched, Before, Unbound, Unqueued
<1>9. InStep'
  <2>1. Ascending(queue)' = Ascending(queue) /\ Prepared' = Prepared /\ Selected' = Selected
    BY <1>1 DEF Ascending, Prepared, Selected
  <2> QED
    BY <1>1, <2>1 DEF Inv, InStep
<1>10. /\ HasReceipt' = HasReceipt /\ WantsReceipt' = WantsReceipt /\ Selected' = Selected
       /\ Status' = Status
  BY <1>1 DEF HasReceipt, WantsReceipt, Selected, Status, Having, Requested, State
<1>11. FileTrue'
  BY <1>1, <1>4, <1>10 DEF Inv, FileTrue, Unbound, Unqueued, Working
<1>12. Final'
  <2>1. published' => HasReceipt
    BY DEF Finish, HasReceipt
  <2>2. exit' = "zero" => exit' = ExitCode /\ (HasReceipt /\ WantsReceipt => Store)
    BY DEF Finish
  <2>3. exit' = "zero" /\ HasReceipt => Status = "succeeded"
    BY <2>2 DEF ExitCode
  <2>4. Store => document' # "none"
    <3>1. bound \in {"none", "absent", "file"} /\ leaf \in {"absent", "file", "alias", "new", "created"}
      BY DEF Inv, TypeOK, SinkOK
    <3> QED
      BY <3>1 DEF Store
  <2> QED
    BY <1>1, <1>10, <2>1, <2>2, <2>3, <2>4 DEF Final
<1> QED
  BY <1>5, <1>6, <1>7, <1>8, <1>9, <1>11, <1>12 DEF Inv

LEMMA WorldKeeps ==
  ASSUME Inv, World \/ UNCHANGED vars
  PROVE  Inv'
<1>1. UNCHANGED << disk, pc, flags, route, plan, queue, at, last, row, err, exit, published, given >>
  BY DEF World, Interrupt, Expire, vars, session
<1>2. InputOK' /\ reader' = reader
  <2>1. InputOK
    BY DEF Inv, TypeOK
  <2>2. CASE UNCHANGED input
    BY <2>1, <2>2, InputStays
  <2>3. CASE Interrupt
    BY <2>1, <2>3 DEF InputOK, Interrupt
  <2>4. CASE \E l \in Lines : Type(l)
    BY <2>1, <2>4, InputAssumption DEF InputOK, Type, Answers, InputAssumption
  <2>5. CASE \E how \in {End, Broken} : CloseInput(how)
    BY <2>1, <2>5 DEF InputOK, CloseInput, Answers
  <2> QED
    BY <2>2, <2>3, <2>4, <2>5 DEF World, Expire, vars
<1>3. UNCHANGED << place, bound, document >> /\ SinkOK' /\ (bound = "none" => leaf' = leaf)
  <2>1. SinkOK
    BY DEF Inv, TypeOK
  <2>2. CASE UNCHANGED sink
    BY <2>1, <2>2 DEF SinkOK, sink
  <2>3. CASE SwapLeaf
    BY <2>1, <2>3, SinkAssumption DEF SinkOK, SwapLeaf, SinkAssumption
  <2> QED
    BY <2>2, <2>3 DEF World, Expire, vars
<1>4. TypeOK'
  <2>1. evidence' \in {"fresh", "stale"}
    BY DEF Inv, TypeOK, SessionOK, World, Expire, vars
  <2> QED
    BY <1>1, <1>2, <1>3, <2>1 DEF Inv, TypeOK, SessionOK
<1>5. RowsTrue' /\ QueueTrue'
  BY <1>1, RowsStay DEF Inv, QueueTrue, Prepared, Untouched
<1>6. Ahead' /\ Prompting'
  BY <1>1, <1>2 DEF Inv, Ahead, Prompting, Fresh, Untouched, Selected
<1>7. Consent' /\ InStep'
  BY <1>1 DEF Inv, Consent, InStep, Granted, Here, Untouched, Ascending, Prepared, Selected
<1>8. FileTrue' /\ Final'
  BY <1>1, <1>3 DEF Inv, FileTrue, Final, HasReceipt, WantsReceipt, Selected, Status, Having,
                    Requested, State
<1> QED
  BY <1>4, <1>5, <1>6, <1>7, <1>8 DEF Inv

LEMMA InitHolds ==
  ASSUME Init
  PROVE  Inv
<1>1. /\ 0 \in 0 .. Size /\ Size \in 0 .. Size /\ Size <= Size /\ MaxTyped \in Nat /\ MaxSwaps \in Nat
      /\ FlagSets \subseteq [FlagNames -> BOOLEAN]
  BY Assumed, InputAssumption, SinkAssumption DEF InputAssumption, SinkAssumption
<1>2. \A t \in Targets : row[t] = Pending /\ disk[t].left = Size /\ disk[t].gone = FALSE
  BY DEF Init
<1>3. InputOK
  <2>1. InputInit
    BY DEF Init
  <2> QED
    BY <1>1, <2>1, 0 \in 0 .. MaxTyped DEF InputInit, InputOK, Answers
<1>4. SinkOK
  BY <1>1 DEF Init, SinkInit, SinkOK
<1>5. SessionOK
  <2>1. disk \in [Targets -> Places]
    BY <1>1 DEF Init, Places
  <2>2. row \in [Targets -> Rows]
    BY PendingIs DEF Init
  <2>3. plan \in [Targets -> {"none", "selected", "reviewable", "locked"}]
    BY DEF Init
  <2>4. queue \in Seq(Targets) /\ given \in Seq(Targets \X Lines) /\ at \in Nat \ {0} /\ last \in Nat
    BY DEF Init
  <2>5. flags \in [FlagNames -> BOOLEAN] /\ pc \in Pcs
    BY <1>1 DEF Init, Pcs, Before, Unbound, Unqueued
  <2>6. /\ evidence = "fresh" /\ route = "none" /\ err = "none" /\ exit = "none"
        /\ published = FALSE
    BY DEF Init
  <2> QED
    BY <2>1, <2>2, <2>3, <2>4, <2>5, <2>6 DEF SessionOK
<1>6. RowsTrue
  BY <1>1, <1>2, PendingIs DEF RowsTrue, Agrees, Untouched
<1>7. \A t \in Targets : Fresh(t) /\ Untouched(t)
  BY <1>2 DEF Fresh, Untouched
<1>8. QueueTrue /\ Ahead /\ Prompting
  BY <1>7 DEF Init, InputInit, QueueTrue, Ahead, Prompting, Working
<1>9. Consent /\ InStep
  BY <1>7 DEF Init, Consent, InStep
<1>10. FileTrue /\ Final
  BY DEF Init, SinkInit, FileTrue, Final, Working
<1> QED
  BY <1>3, <1>4, <1>5, <1>6, <1>8, <1>9, <1>10 DEF Inv, TypeOK

(* The rows, the queue, the position, the prompts, the answers, the file and *)
(* what was published agree with each other in every reachable state.        *)
THEOREM Consistent == Spec => []Inv
<1>1. Inv /\ [Next]_vars => Inv'
  BY RoutingKeeps, PromptsKeep, PlanningKeeps, PrepareKeeps, BindKeeps, RequestsKeep,
     TargetPromptKeeps, ApprovedKeeps, ConfirmKeeps, ExecuteKeeps, FinishKeeps, WorldKeeps
     DEF Next, Program, Terminated
<1> QED
  BY InitHolds, <1>1, PTL DEF Spec

(* Every variable of the session stays in its range: prompts, file and rows. *)
THEOREM TypeCorrect == Spec => []TypeOK
<1>1. Inv => TypeOK
  BY DEF Inv
<1> QED
  BY <1>1, Consistent, PTL

-----------------------------------------------------------------------------
LEMMA RankIs ==
  ASSUME NEW t \in Targets
  PROVE  DocumentRank(t) \in Nat
<1>1. DocumentOrder \in Seq(Targets) /\ ToSet(DocumentOrder) = Targets
  BY SessionAssumption DEF SessionAssumption
<1>2. \E i \in 1 .. Len(DocumentOrder) : DocumentOrder[i] = t
  BY <1>1 DEF ToSet
<1>3. DocumentRank(t) \in 1 .. Len(DocumentOrder)
  BY <1>2 DEF DocumentRank
<1> QED
  BY <1>1, <1>3

\* What a queue in document order has before its k-th target.
LEMMA RankInQueue ==
  ASSUME NEW q \in Seq(Targets), Ascending(q), NEW k \in DOMAIN q
  PROVE  Cardinality({t \in ToSet(q) : DocumentRank(t) < DocumentRank(q[k])}) = k - 1
<1> DEFINE B == {t \in ToSet(q) : DocumentRank(t) < DocumentRank(q[k])}
           n == k - 1
           f == [i \in 1 .. n |-> q[i]]
<1>1. k \in Nat \ {0} /\ n \in Nat /\ 1 .. n \subseteq DOMAIN q
      /\ \A i \in 1 .. n : i < k /\ f[i] = q[i]
  OBVIOUS
<1>0. \A i \in DOMAIN q : i < k => i \in 1 .. n
  OBVIOUS
<1>2. \A i \in DOMAIN q : q[i] \in Targets /\ DocumentRank(q[i]) \in Nat
  BY RankIs
<1>3. \A i, j \in DOMAIN q : i < j => DocumentRank(q[i]) < DocumentRank(q[j])
  BY DEF Ascending
<1> HIDE DEF n
<1>4. f \in [1 .. n -> B]
  BY <1>1, <1>3 DEF ToSet
<1>5. \A i, j \in 1 .. n : f[i] = f[j] => i = j
  <2> SUFFICES ASSUME NEW i \in 1 .. n, NEW j \in 1 .. n, f[i] = f[j], i # j
               PROVE  FALSE
    OBVIOUS
  <2>1. i \in DOMAIN q /\ j \in DOMAIN q /\ q[i] = q[j] /\ i \in Nat /\ j \in Nat
    BY <1>1
  <2>2. ~(DocumentRank(q[i]) < DocumentRank(q[i]))
    BY <1>2, <2>1
  <2>3. i < j \/ j < i
    BY <2>1
  <2> QED
    BY <1>3, <2>1, <2>2, <2>3
<1>6. \A b \in B : \E i \in 1 .. n : f[i] = b
  <2> SUFFICES ASSUME NEW b \in B PROVE \E i \in 1 .. n : f[i] = b
    OBVIOUS
  <2>1. PICK i \in DOMAIN q : q[i] = b
    BY DEF ToSet
  <2>2. DocumentRank(q[i]) < DocumentRank(q[k])
    BY <2>1
  <2>3. i < k
    <3>1. i \in Nat /\ k \in Nat
      OBVIOUS
    <3>2. CASE k < i
      BY <1>2, <1>3, <2>2, <3>2
    <3>3. CASE i = k
      BY <1>2, <2>2, <3>3
    <3> QED
      BY <3>1, <3>2, <3>3
  <2>4. i \in 1 .. n
    BY <1>0, <2>1, <2>3
  <2> QED
    BY <2>1, <2>4
<1> HIDE DEF B, f
<1>7. f \in Bijection(1 .. n, B)
  BY <1>4, <1>5, <1>6 DEF Bijection, Injection, Surjection, IsInjective
<1>8. ExistsBijection(1 .. n, B)
  BY <1>7 DEF ExistsBijection
<1>9. IsFiniteSet(1 .. n) /\ Cardinality(1 .. n) = IF 1 > n THEN 0 ELSE n - 1 + 1
  <2>1. n \in Int /\ 1 \in Int
    BY <1>1
  <2> QED
    BY <2>1, FS_Interval
<1>10. Cardinality(B) = Cardinality(1 .. n)
  BY <1>8, <1>9, FS_Bijection
<1>11. Cardinality(B) = n
  BY <1>1, <1>9, <1>10
<1> QED
  BY <1>11 DEF B, n

(* What an interactive run touched had its own yes, and the k-th answer of a *)
(* JSON run is for the k-th selected target of the document                  *)
(* (interactiveCleanWithValidationAndObserver, executeInteractiveReceipt).   *)
THEOREM EveryAnswerBinds == Spec => []AnswersBind
<1>1. Inv => AnswersBind
  <2> SUFFICES ASSUME Inv, flags.interactive
               PROVE  /\ \A t \in Targets : ~Untouched(t) =>
                            \E k \in DOMAIN given : given[k][1] = t /\ given[k][2] \in Approval
                      /\ route = "json" => \A k \in DOMAIN given :
                            /\ given[k][1] \in Selected
                            /\ Cardinality({t \in Selected : DocumentRank(t) <
                                              DocumentRank(given[k][1])}) = k - 1
    BY DEF AnswersBind
  <2>1. \A t \in Targets : ~Untouched(t) =>
          \E k \in DOMAIN given : given[k][1] = t /\ given[k][2] \in Approval
    BY DEF Inv, Consent, Granted
  <2>2. ASSUME route = "json", NEW k \in DOMAIN given
        PROVE  /\ given[k][1] \in Selected
               /\ Cardinality({t \in Selected : DocumentRank(t) < DocumentRank(given[k][1])}) = k - 1
    <3>1. k \in DOMAIN queue /\ given[k][1] = queue[k] /\ Ascending(queue) /\ ToSet(queue) = Selected
          /\ queue \in Seq(Targets)
      BY <2>2 DEF Inv, InStep, Prepared, TypeOK, SessionOK
    <3>2. queue[k] \in Selected
      BY <3>1 DEF ToSet
    <3> QED
      BY <3>1, <3>2, RankInQueue
  <2> QED
    BY <2>1, <2>2
<1> QED
  BY <1>1, Consistent, PTL

(* After an interrupt no line is taken for an answer, no removal begins, and *)
(* nothing is removed but by the one that had begun: Scan prefers the        *)
(* cancellation to a ready line, and the executor looks at its context       *)
(* before each target and before each removal, which itself looks no more    *)
(* (safedelete.RemoveAll).                                                   *)
THEOREM CancelStops == Spec => NothingAfterCancel
<1> DEFINE Stops == /\ UNCHANGED given
                    /\ pc' = "remove" => pc = "remove"
                    /\ \A t \in Targets : disk'[t] # disk[t] => pc = "remove" /\ t = Here
<1>1. ASSUME Inv, [Next]_vars, cancelled PROVE Stops
  <2>1. CASE TargetPrompt
    <3>1. UNCHANGED given
      BY <1>1, <2>1 DEF TargetPrompt, UnsafeHere, Read, Usable, Goto, Keep
    <3>2. UNCHANGED disk /\ pc' # "remove"
      <4>1. ASSUME NEW l, JsonAnswer(l) \/ HumanAnswer(l) PROVE pc' # "remove"
        BY <4>1 DEF JsonAnswer, HumanAnswer, Approve, SkipHere, CancelRest, Conclude, Advance
      <4> QED
        BY <2>1, <4>1 DEF TargetPrompt, UnsafeHere, Goto, CancelRest, Conclude, Advance
    <3> QED
      BY <3>1, <3>2
  <2>2. CASE Execute
    <3>1. UNCHANGED given
      BY <2>2 DEF Execute, BeginTarget, VetTarget, RemoveTarget
    <3>2. CASE RemoveTarget
      <4>1. pc = "remove" /\ disk \in [Targets -> Places]
        BY <1>1, <3>2 DEF RemoveTarget, Inv, TypeOK, SessionOK
      <4>2. ASSUME NEW o, Effect(o), NEW t \in Targets, t # Here PROVE disk'[t] = disk[t]
        BY <4>1, <4>2 DEF Effect
      <4>3. \E o : Effect(o)
        BY <3>2 DEF RemoveTarget, Settle, SettleCancelled
      <4> QED
        BY <3>1, <4>1, <4>2, <4>3
    <3>3. CASE BeginTarget
      BY <1>1, <3>1, <3>3 DEF BeginTarget, CancelledBefore, Advance
    <3>4. CASE VetTarget
      <4>1. CASE CancelledBefore
        BY <3>1, <4>1 DEF CancelledBefore, Advance
      <4>2. ASSUME NEW o \in Refused, Settle(o) PROVE Stops
        <5>1. /\ disk \in [Targets -> Places] /\ pc \in Working /\ Here \in Targets
              /\ Fresh(Here)
          <6>1. pc \in Executing /\ pc \in Working
            BY <3>4 DEF VetTarget, Executing, Working
          <6>2. queue \in Seq(Targets) /\ at \in Nat \ {0} /\ at <= last /\ last \in DOMAIN queue
            BY <1>1, <6>1 DEF Inv, Ahead, TypeOK, SessionOK
          <6>3. at \in DOMAIN queue
            BY <6>2
          <6> QED
            BY <1>1, <6>1, <6>2, <6>3, HereIs DEF Inv, TypeOK, SessionOK, Ahead
        <5>2. o.left = Size /\ o.unit.gone = FALSE
          BY <4>2 DEF Refused, Outcome
        <5>3. disk[Here] = [left |-> Size, gone |-> FALSE]
          BY <5>1 DEF Fresh, Untouched, Places
        <5>4. disk' = disk
          BY <4>2, <5>1, <5>2, <5>3 DEF Settle, Effect
        <5>5. pc' # "remove"
          BY <4>2 DEF Settle, Advance, AfterBatch
        <5> QED
          BY <3>1, <5>4, <5>5
      <4> QED
        BY <1>1, <3>4, <4>1, <4>2 DEF VetTarget
    <3> QED
      BY <2>2, <3>2, <3>3, <3>4 DEF Execute
  <2>3. CASE SelectRoute \/ Scan \/ Plan \/ Select \/ Prepare
    <3>1. UNCHANGED << given, disk >>
      BY <2>3 DEF SelectRoute, Scan, Plan, Select, Prepare, Exit, Goto, Keep, Stay
    <3>2. pc' # "remove"
      BY <2>3 DEF SelectRoute, Scan, Plan, Select, Prepare, Exit, Goto
    <3> QED
      BY <3>1, <3>2
  <2>4. CASE SettleRequests
    <3>1. UNCHANGED << given, disk >>
      BY <2>4 DEF SettleRequests, Stay
    <3>2. pc' # "remove"
      BY <2>4 DEF SettleRequests, JsonRequests, GuidedRequests, FirstStep
    <3> QED
      BY <3>1, <3>2
  <2>5. CASE GuidePrompt \/ ReviewPrompt \/ BindReceipt
    BY <2>5 DEF GuidePrompt, ReviewPrompt, BindReceipt, Toggle, Exit, Goto, Keep
  <2>6. CASE Approved \/ Validate
    BY <2>6 DEF Approved, Validate, Stay, CancelRest, Conclude
  <2>7. CASE ConfirmPrompt
    BY <2>7 DEF ConfirmPrompt, Exit, Goto, Keep, Conclude
  <2>8. CASE Finish
    BY <2>8 DEF Finish
  <2>9. CASE World \/ UNCHANGED vars
    BY <2>9 DEF World, Expire, vars, session
  <2> QED
    BY <1>1, <2>1, <2>2, <2>3, <2>4, <2>5, <2>6, <2>7, <2>8, <2>9 DEF Next, Program, Terminated
<1> QED
  BY <1>1, Consistent, PTL DEF Spec, NothingAfterCancel

(* The receipt is in the file that was checked or in one the run created,    *)
(* and that file is in no target the cleanup removed (PrepareReceiptSink,    *)
(* ReceiptSink.Write).                                                       *)
THEOREM SinkStaysPinned == Spec => []SinkPinned
<1>1. Inv => SinkPinned
  <2> SUFFICES ASSUME Inv, document # "none"
               PROVE  /\ document = IF bound = "absent" THEN "created" ELSE bound
                      /\ place # Outside => ~disk[place].gone
    BY DEF SinkPinned
  <2>1. place \notin Selected /\ document = IF bound = "absent" THEN "created" ELSE bound
    BY DEF Inv, FileTrue
  <2>2. place \notin Prepared /\ place \in Targets \cup {Outside}
    BY <2>1 DEF Inv, QueueTrue, Selected, Prepared, ToSet, TypeOK, SinkOK, SessionOK
  <2> QED
    BY <2>1, <2>2 DEF Inv, QueueTrue, Untouched
<1> QED
  BY <1>1, Consistent, PTL

(* A published receipt agrees with the disk about what was left alone, what  *)
(* is gone, and that no owner is gone when the run is reported as failed or  *)
(* cancelled (finalizeReceipt). A failed owner may have lost a part.         *)
THEOREM ReceiptsTruthful == Spec => []ReceiptTruthful
<1>1. Inv => ReceiptTruthful
  <2> SUFFICES ASSUME Inv PROVE ReceiptTruthful
    OBVIOUS
  <2>1. \A t \in Targets : Agrees(t) /\ row[t].state \in States
    BY DEF Inv, RowsTrue, TypeOK, SessionOK, Rows
  <2>2. ASSUME NEW t \in Targets, State(t) \in {"skipped", "cancelled", "protected", "reviewable"}
        PROVE  Untouched(t)
    BY <2>1, <2>2 DEF State, Agrees, States
  <2>3. ASSUME NEW t \in Targets, disk[t].gone
        PROVE  t \in Having("removed") \cup Having("partial")
    BY <2>1, <2>3 DEF Agrees, Having, State
  <2>4. Having("removed") \cup Having("partial") \subseteq Requested
    BY DEF Having, Requested
  <2>5. Requested = Having("cancelled") => Having("removed") \cup Having("partial") = {}
    BY <2>4 DEF Having
  <2>6. Status \in {"failed", "cancelled"} => Having("removed") \cup Having("partial") = {}
    BY <2>5, Having("failed") # {} \/ Having("failed") = {} DEF Status
  <2> QED
    BY <2>1, <2>2, <2>3, <2>6 DEF ReceiptTruthful, Agrees
<1> QED
  BY <1>1, Consistent, PTL

(* A receipt run exits zero only if every selected target was removed or     *)
(* declined and the requested file has the receipt (finalizeReceipt, Write). *)
THEOREM SuccessMeansAll == Spec => []SuccessIsComplete
<1>1. Inv => SuccessIsComplete
  <2> SUFFICES ASSUME Inv, published, exit = "zero"
               PROVE  /\ \A t \in Selected : State(t) \in {"removed", "skipped"}
                      /\ WantsReceipt => document # "none"
    BY DEF SuccessIsComplete
  <2>1. Status = "succeeded" /\ (WantsReceipt => document # "none")
    BY DEF Inv, Final
  <2>2. Having("partial") = {} /\ Having("failed") = {}
    BY <2>1 DEF Status
  <2>3. Having("cancelled") = {}
    <3> SUFFICES ASSUME Having("cancelled") # {} PROVE FALSE
      OBVIOUS
    <3>1. Having("removed") = {}
      BY <2>1 DEF Status
    <3>2. Requested = Having("cancelled")
      BY <2>2, <3>1 DEF Requested, Having
    <3> QED
      BY <2>1, <3>2 DEF Status
  <2>4. ASSUME NEW t \in Selected PROVE State(t) \in {"removed", "skipped"}
    <3>1. t \in Targets /\ plan[t] = "selected" /\ row[t].state \in States
      BY DEF Selected, Inv, TypeOK, SessionOK, Rows
    <3>2. State(t) \notin {"partial", "failed", "cancelled"}
      BY <2>2, <2>3, <3>1 DEF Having
    <3>3. row[t].state # "pending"
      BY <3>1, <3>2 DEF State
    <3>4. State(t) = row[t].state
      BY <3>3 DEF State
    <3> QED
      BY <3>1, <3>2, <3>3, <3>4 DEF States
  <2> QED
    BY <2>1, <2>4
<1> QED
  BY <1>1, Consistent, PTL

(* post_clean never counts fewer bytes for an owner than are left of it      *)
(* (noteReceiptResidual, measuredResidual).                                  *)
THEOREM ResidualsCover == Spec => []NeverUnderstated
<1>1. Inv => NeverUnderstated
  <2> SUFFICES ASSUME Inv, NEW t \in Targets, Remaining(t) # Unmeasured
               PROVE  Remaining(t) >= disk[t].left
    BY DEF NeverUnderstated
  <2>1. Agrees(t) /\ disk[t].left \in 0 .. Size /\ row[t].counted \in 0 .. Size \cup {Unmeasured}
    BY DEF Inv, RowsTrue, TypeOK, SessionOK, Places, Rows
  <2>2. CASE row[t].gone
    BY <2>1, <2>2 DEF Agrees, Remaining
  <2>3. CASE ~row[t].gone
    BY <2>1, <2>3, Assumed DEF Agrees, Remaining
  <2> QED
    BY <2>2, <2>3
<1> QED
  BY <1>1, Consistent, PTL
=============================================================================
