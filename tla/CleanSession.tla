----------------------------- MODULE CleanSession -----------------------------
(****************************************************************************)
(* One `aibris clean` that ends on the classic, the guided or the JSON route: *)
(*                                                                           *)
(*   cmd.runCleanCommand, runUnifiedGuidedClean, runCleanJSON                *)
(*   cleancommand.SelectRoute, cmd.chooseCleanExperience                     *)
(*   cmd.interactiveCleanWithValidationAndObserver, confirmCleanExecution    *)
(*   cleanjson.ExecuteReceipt, GuidedExecutionReceipt, finalizeReceipt       *)
(*                                                                           *)
(* It composes the prompts of ConfirmInput and the file of ReceiptSink.  The *)
(* scan, the plan and the overlap barrier are decisions here, the executor a *)
(* set of outcomes; other modules have their details.                        *)
(****************************************************************************)
EXTENDS Integers, Sequences, FiniteSets, SequencesExt, ConfirmInput, ReceiptSink

CONSTANTS DocumentOrder,   \* the targets as the plan document lists them
          Size,            \* bytes of a target before the cleanup
          FlagSets         \* the command lines to consider

FlagNames == {"includePaths", "receiptFile", "dryRun", "guide", "noGuide", "strip",
              "apfs", "json", "interactive", "force", "selector"}

ASSUME SessionAssumption ==
  /\ DocumentOrder \in Seq(Targets) /\ ToSet(DocumentOrder) = Targets
  /\ Len(DocumentOrder) = Cardinality(Targets)
  /\ Size \in Nat \ {0}
  /\ Lines = {"y", "yes", "n", "blank", "q"} \cup Targets
  /\ FlagSets \subseteq [FlagNames -> BOOLEAN]

VARIABLES
  (* the world *)
  evidence,   \* the scan is "fresh" or, if it is a cached one, may get "stale"
  disk,       \* bytes left of each target, and whether its owner is gone
  (* the program *)
  pc,
  flags,      \* the command line
  route,      \* "classic", "guided", "json", or one this module does not have
  plan,       \* selection of each target in the accepted plan
  queue,      \* the prepared targets, in the order they are executed
  at,         \* position in queue
  last,       \* last position of the batch that runs
  row,        \* the receipt's row of each target
  err,        \* the error of the execution: "none", "failed" or "cancelled"
  exit,       \* exit status, "none" while running
  published,  \* the receipt has been written, to stdout or to the file
  (* history, read by properties only *)
  given       \* answers to execution prompts: target asked about, line

session == << flags, route, plan, queue, at, last, row, err, exit, published, given >>
vars == << input, sink, evidence, disk, pc, session >>

-----------------------------------------------------------------------------
(* Receipt rows.  "counted" is what post_clean adds for the owner: its size  *)
(* before, a measured residual, or nothing because that is unknown.          *)
Unmeasured == 0 - 1
Pending == [state |-> "pending", attempted |-> FALSE, gone |-> FALSE, freed |-> 0,
            counted |-> Size]

Outcome(state, attempted, gone, freed, residual) ==
  [state |-> state, attempted |-> attempted, gone |-> gone, freed |-> freed,
   residual |-> residual]

MeasuredAlways(u) == ~u.gone  \* mutant: the zero of an untouched unit counts

Measured(u) == ~u.gone /\ (u.residual > 0 \/ u.freed > 0 \/ u.state = "removed")
Unknown(u) == ~u.gone /\ ~Measured(u) /\ (u.attempted \/ u.state = "partial")

RowOf(u) ==
  [state |-> u.state, attempted |-> u.attempted, gone |-> u.gone, freed |-> u.freed,
   counted |-> IF Measured(u) THEN u.residual
               ELSE IF Unknown(u) THEN Unmeasured ELSE Size]

Mark(rows, S, state) ==
  [t \in Targets |-> IF t \in S
                     THEN [rows[t] EXCEPT !.state = state, !.gone = FALSE, !.freed = 0]
                     ELSE rows[t]]

(* What a target's execution may do to it, and what its unit then says.  A   *)
(* residual that could not be walked to the end is replaced by the size      *)
(* before; an active worktree's unit has none, and claims its planned size.  *)
Refused == {[left |-> Size, unit |-> Outcome("failed", FALSE, FALSE, 0, r)] : r \in {0, Size}}
Removed == {[left |-> 0, unit |-> Outcome("removed", TRUE, TRUE, Size, 0)]}
Emptied == {[left |-> b, unit |-> Outcome("removed", TRUE, FALSE, Size - b, b)] : b \in 0 .. Size}
Partial == {[left |-> b, unit |-> Outcome(IF b < Size THEN "partial" ELSE "failed",
                                          TRUE, FALSE, Size - b, b)] : b \in 0 .. Size}
             \cup {[left |-> 0, unit |-> Outcome("partial", TRUE, TRUE, Size, 0)]}
CutShort == {[left |-> b, unit |-> Outcome("failed", TRUE, FALSE, 0, Size)] : b \in 0 .. Size}
Active == {[left |-> b, unit |-> Outcome(s, TRUE, FALSE, 0, 0)] :
             b \in 0 .. Size, s \in {"partial", "failed"}}

Successes == Removed \cup Emptied
Failures == Refused \cup Partial \cup CutShort \cup Active

-----------------------------------------------------------------------------
Selected == {t \in Targets : plan[t] = "selected"}
Prepared == ToSet(queue)
FromFirst(k) == Prepared  \* mutant: those already executed too
From(k) == {queue[i] : i \in k .. Len(queue)}
Here == queue[at]

DocumentRank(t) == CHOOSE i \in 1 .. Len(DocumentOrder) : DocumentOrder[i] = t
Ascending(s) == \A i, j \in DOMAIN s : i < j => DocumentRank(s[i]) < DocumentRank(s[j])

WantsReceipt == flags.receiptFile
HasReceipt == route = "json" \/ (route = "guided" /\ WantsReceipt)

Init ==
  /\ InputInit /\ SinkInit
  /\ evidence = "fresh"
  /\ disk = [t \in Targets |-> [left |-> Size, gone |-> FALSE]]
  /\ pc = "start" /\ flags \in FlagSets /\ route = "none"
  /\ ~flags.receiptFile => leaf = "absent" /\ place = Outside
  /\ plan = [t \in Targets |-> "none"]
  /\ queue = << >> /\ at = 1 /\ last = 0
  /\ row = [t \in Targets |-> Pending]
  /\ err = "none" /\ exit = "none" /\ published = FALSE
  /\ given = << >>

-----------------------------------------------------------------------------
(* Shorthands for what a step leaves alone.                                  *)
Stay == UNCHANGED << input, sink, evidence, disk >>
Keep == UNCHANGED << flags, route, plan, queue, at, last, row, err, exit, published, given >>

Goto(next) == pc' = next /\ Keep

Exit(code) ==
  /\ pc' = "done" /\ exit' = code
  /\ UNCHANGED << flags, route, plan, queue, at, last, row, err, published, given >>

(* The cleanup is over: what it did not do to S is recorded as state.        *)
Conclude(S, state, e) ==
  /\ row' = Mark(row, S, state)
  /\ err' = IF err = "none" THEN e ELSE err
  /\ pc' = "finish"
  /\ UNCHANGED << flags, route, plan, queue, at, last, exit, published >>

Advance(next) ==
  /\ at' = at + 1 /\ pc' = next
  /\ UNCHANGED << flags, route, plan, queue, last, exit, published >>

-----------------------------------------------------------------------------
(* Routing.  The flags alone decide between the routes and the refusals; the *)
(* scan then decides whether the guided review opens.                        *)
ApfsConflict(f) ==
  f.json \/ f.interactive \/ f.guide \/ f.receiptFile \/ f.noGuide \/ f.selector

Conflict(f) ==
  \/ f.includePaths /\ ~f.json /\ ~f.receiptFile
  \/ f.receiptFile /\ f.dryRun
  \/ f.guide /\ f.noGuide
  \/ f.strip /\ f.apfs
  \/ f.apfs /\ ApfsConflict(f)
  \/ f.strip /\ (f.json \/ f.interactive \/ f.guide \/ f.receiptFile)
  \/ f.receiptFile /\ f.noGuide /\ ~f.json
  \/ f.json /\ ~f.dryRun /\ (f.guide \/ (~f.force /\ ~f.interactive))

Elsewhere(f) == f.apfs \/ f.strip

SelectRoute ==
  /\ pc = "start"
  /\ IF Conflict(flags) THEN Exit("nonzero")
     ELSE IF Elsewhere(flags) THEN Exit("elsewhere")
     ELSE Goto("scan")
  /\ Stay

ClassicSelector(f) == f.selector \/ f.force \/ f.interactive

Guided(f, useful) == f.guide \/ (~f.noGuide /\ ~ClassicSelector(f) /\ useful)

(* A scan that is interrupted or incomplete ends the run.  JSON looks at the *)
(* guided experience for a dry run only.  The other flags are read no more.  *)
Scan ==
  /\ pc = "scan"
  /\ \/ Exit("nonzero")
     \/ /\ ~cancelled
        /\ \E useful \in BOOLEAN :
             LET guided == Guided(flags, useful) IN
             IF ~flags.json /\ ~guided /\ flags.receiptFile THEN Exit("nonzero")
             ELSE /\ flags' = [flags EXCEPT !.includePaths = FALSE, !.guide = FALSE,
                                            !.noGuide = FALSE, !.selector = FALSE]
                  /\ route' = IF flags.json THEN "json" ELSE IF guided THEN "guided" ELSE "classic"
                  /\ pc' = IF route' = "guided" THEN "guide" ELSE "plan"
                  /\ UNCHANGED << plan, queue, at, last, row, err, exit, published, given >>
  /\ Stay

(* The guided prompt: rows, ages and toggles until it is accepted.           *)
GuidePrompt ==
  /\ pc = "guide"
  /\ \/ Ask /\ Goto("guide")
     \/ Read("q") /\ Exit("zero")
     \/ \E l \in {"blank", End} : Read(l) /\ Goto("plan")
     \/ \E l \in Lines \ {"q", "blank"} : Read(l) /\ Goto("guide")
     \/ Read(Broken) /\ Exit("nonzero")
     \/ ReadCancelled /\ Exit("nonzero")
  /\ UNCHANGED << sink, evidence, disk >>

(* Selection of the targets by policy, protection, Git and overlap safety.   *)
Plan ==
  /\ pc = "plan"
  /\ \/ Exit("nonzero")
     \/ /\ plan' \in [Targets -> {"selected", "reviewable", "locked"}]
        /\ pc' \in IF route = "guided" THEN {"review", "select"} ELSE {"select"}
        /\ UNCHANGED << flags, route, queue, at, last, row, err, exit, published, given >>
  /\ Stay

Toggle(t) ==
  /\ plan' = [plan EXCEPT ![t] = CASE @ = "selected" -> "reviewable"
                                   [] @ = "reviewable" -> "selected"
                                   [] OTHER -> @]
  /\ UNCHANGED << pc, flags, route, queue, at, last, row, err, exit, published, given >>

(* The review of a plan that also has classic targets.                       *)
ReviewPrompt ==
  /\ pc = "review"
  /\ \/ Ask /\ Goto("review")
     \/ Read("q") /\ Exit("zero")
     \/ \E l \in {"blank", End} : Read(l) /\ Goto("select")
     \/ \E t \in Targets : Read(t) /\ Toggle(t)
     \/ \E l \in Lines \ (Targets \cup {"q", "blank"}) : Read(l) /\ Goto("review")
     \/ Read(Broken) /\ Exit("nonzero")
     \/ ReadCancelled /\ Exit("nonzero")
  /\ UNCHANGED << sink, evidence, disk >>

Stale == evidence = "stale"
Invalid == cancelled \/ Stale

Select ==
  /\ pc = "select"
  /\ IF flags.dryRun THEN Exit("zero")
     ELSE IF route = "guided" /\ Invalid THEN Exit("nonzero")
     ELSE IF route # "json" /\ Selected = {} THEN Exit("zero")
     ELSE Goto("safety")
  /\ Stay

(* Overlap safety as of now may refuse what the plan selected.               *)
Prepare ==
  /\ pc = "safety"
  /\ \/ Exit("nonzero")
     \/ /\ \E passed \in SUBSET Selected :
             /\ route = "classic" => passed = Selected
             /\ queue' \in SetToSeqs(passed)
        /\ pc' = "bind"
        /\ UNCHANGED << flags, route, plan, at, last, row, err, exit, published, given >>
  /\ Stay

(* The file is bound while nothing has been removed yet.                     *)
BindReceipt ==
  /\ pc = "bind"
  /\ IF HasReceipt /\ WantsReceipt
     THEN \/ Bindable(Selected) /\ Bind /\ Goto("requests")
          \/ Exit("nonzero") /\ UNCHANGED sink
     ELSE Goto("requests") /\ UNCHANGED sink
  /\ UNCHANGED << input, evidence, disk >>

FirstStep ==
  IF flags.interactive THEN "ask"
  ELSE IF flags.force \/ route = "json" THEN "validate"
  ELSE "confirm"

(* JSON: what was selected but is not prepared has been refused.  Answers go *)
(* to the targets in document order, and a refused one would shift them, so  *)
(* then nothing is asked and nothing is done.                                *)
NoMismatch == FALSE  \* mutant: go on with those that are left

SetMismatch == Selected # Prepared

JsonRequests ==
  /\ route = "json"
  /\ queue' \in {s \in SetToSeqs(Prepared) : Ascending(s)}
  /\ IF SetMismatch
     THEN row' = Mark(row, Selected, "failed") /\ err' = "failed" /\ pc' = "finish"
     ELSE pc' = (IF queue' = << >> THEN "finish" ELSE FirstStep) /\ UNCHANGED << row, err >>

(* The guided receipt counts every target that is not prepared as refused,   *)
(* except the reviewable ones: the locked targets of its plan too.           *)
RefusedByGuided == {t \in Targets : plan[t] \in {"selected", "locked"}} \ Prepared

GuidedRequests ==
  /\ route = "guided"
  /\ row' = IF WantsReceipt THEN Mark(row, RefusedByGuided, "failed") ELSE row
  /\ pc' = IF queue = << >> THEN "finish" ELSE FirstStep
  /\ UNCHANGED << queue, err >>

SettleRequests ==
  /\ pc = "requests"
  /\ \/ JsonRequests
     \/ GuidedRequests
     \/ route = "classic" /\ pc' = FirstStep /\ UNCHANGED << queue, row, err >>
  /\ UNCHANGED << flags, route, plan, at, last, exit, published, given >>
  /\ Stay

-----------------------------------------------------------------------------
(* Confirmation target by target.                                            *)
Approval == {"y", "yes"}
Approve ==
  /\ pc' = "approved"
  /\ UNCHANGED << flags, route, plan, queue, at, last, row, err, exit, published >>
SkipHere == row' = Mark(row, {Here}, "skipped") /\ UNCHANGED err /\ Advance("ask")
CancelRest(e) == Conclude(From(at), "cancelled", e)

(* JSON: an answer that is neither yes nor no, or none, cancels the rest.    *)
JsonAnswer(l) ==
  /\ route = "json"
  /\ CASE l \in Approval -> Approve
       [] l = "n" -> SkipHere
       [] l \in {End, Broken} -> CancelRest("cancelled")
       [] OTHER -> CancelRest("failed")

(* People: whatever is not a yes skips the target; the end of the input ends *)
(* the run, and is an error only if it was not a plain end.                  *)
HumanAnswer(l) ==
  /\ route # "json"
  /\ CASE l \in Approval -> Approve
       [] l = End -> CancelRest("none")
       [] l = Broken -> CancelRest("failed")
       [] OTHER -> SkipHere

(* Only people are told of a path that is not safe to remove.                *)
UnsafeHere ==
  /\ route # "json" /\ reader = "idle" /\ ~cancelled
  /\ row' = Mark(row, {Here}, "failed")
  /\ err' = IF err = "none" THEN "failed" ELSE err
  /\ Advance("ask")
  /\ UNCHANGED << input, given >>

TargetPrompt ==
  /\ pc = "ask"
  /\ \/ at > Len(queue) /\ Goto("finish") /\ UNCHANGED input
     \/ at <= Len(queue) /\ UnsafeHere
     \/ at <= Len(queue) /\ Ask /\ Goto("ask")
     \/ \E l \in Answers :
          /\ Read(l)
          /\ JsonAnswer(l) \/ HumanAnswer(l)
          /\ given' = IF l \in Lines THEN Append(given, << Here, l >>) ELSE given
     \/ /\ ReadCancelled
        /\ CancelRest("cancelled")
        /\ UNCHANGED given
  /\ UNCHANGED << sink, evidence, disk >>

(* The plan is validated again after each approval, on the routes that have  *)
(* one.  A person's targets then all fail; JSON only fails the one at hand.  *)
Validated == route = "classic" \/ ~Invalid

Outdated ==
  IF route = "json"
  THEN Mark(Mark(row, From(at + 1), "cancelled"), {Here}, "failed")
  ELSE Mark(row, From(at), "failed")

Approved ==
  /\ pc = "approved"
  /\ CASE Validated ->
            /\ pc' = "execute" /\ last' = at
            /\ UNCHANGED << flags, route, plan, queue, at, row, err, exit, published >>
       [] ~Validated /\ cancelled -> CancelRest("cancelled")
       [] OTHER ->
            /\ row' = Outdated /\ pc' = "finish"
            /\ err' = IF err = "none" THEN "failed" ELSE err
            /\ UNCHANGED << flags, route, plan, queue, at, last, exit, published >>
  /\ UNCHANGED given
  /\ Stay

(* One confirmation for all of them: only "y" is a yes.                      *)
ConfirmPrompt ==
  /\ pc = "confirm"
  /\ \/ Ask /\ Goto("confirm")
     \/ Read("y") /\ Goto("validate")
     \/ \E l \in (Lines \ {"y"}) \cup {End} : Read(l) /\ Exit("zero")
     \/ /\ Read(Broken)
        /\ Conclude(Prepared, "cancelled", "failed")
        /\ UNCHANGED given
     \/ /\ ReadCancelled
        /\ Conclude(Prepared, "cancelled", "cancelled")
        /\ UNCHANGED given
  /\ UNCHANGED << sink, evidence, disk >>

Validate ==
  /\ pc = "validate"
  /\ CASE Validated ->
            /\ last' = Len(queue) /\ pc' = "execute"
            /\ UNCHANGED << flags, route, plan, queue, at, row, err, exit, published >>
       [] ~Validated /\ cancelled -> Conclude(Prepared, "cancelled", "cancelled")
       [] OTHER -> Conclude(Prepared, "failed", "failed")
  /\ UNCHANGED given
  /\ Stay

-----------------------------------------------------------------------------
(* Execution of queue[at .. last].                                           *)
AfterBatch ==
  IF at < last THEN "execute" ELSE IF flags.interactive THEN "ask" ELSE "finish"

(* A person's loop finds out at its next prompt that the run is cancelled.   *)
LoopCancels == flags.interactive /\ route # "json"

CancelledBefore ==
  /\ cancelled
  /\ row' = Mark(row, IF LoopCancels THEN {Here} ELSE From(at), "cancelled")
  /\ err' = IF err = "none" THEN "cancelled" ELSE err
  /\ Advance(IF LoopCancels THEN "ask" ELSE "finish")
  /\ UNCHANGED disk

(* The executor looks at its context before a target...                      *)
BeginTarget ==
  /\ pc = "execute"
  /\ CancelledBefore \/ (~cancelled /\ Goto("vet") /\ UNCHANGED disk)
  /\ UNCHANGED << input, sink, evidence, given >>

Effect(o) == disk' = [disk EXCEPT ![Here] = [left |-> o.left, gone |-> o.unit.gone]]

Settle(o) ==
  /\ Effect(o)
  /\ row' = [row EXCEPT ![Here] = RowOf(o.unit)]
  /\ err' = IF err = "none" /\ o \notin Successes THEN "failed" ELSE err
  /\ Advance(AfterBatch)

(* ... and once more when its barrier has passed, right before the removal.  *)
VetTarget ==
  /\ pc = "vet"
  /\ \/ CancelledBefore
     \/ \E o \in Refused : Settle(o)
     \/ ~cancelled /\ Goto("remove") /\ UNCHANGED disk
  /\ UNCHANGED << input, sink, evidence, given >>

(* A failure is put down to the interrupt that came meanwhile.               *)
SettleCancelled(o) ==
  /\ cancelled
  /\ Effect(o)
  /\ row' = [Mark(row, IF LoopCancels THEN {} ELSE From(at + 1), "cancelled")
               EXCEPT ![Here] = RowOf(IF o.unit.attempted THEN o.unit
                                      ELSE [o.unit EXCEPT !.state = "cancelled"])]
  /\ err' = IF err = "none" THEN "cancelled" ELSE err
  /\ Advance(IF LoopCancels THEN "ask" ELSE "finish")

(* The removal itself has no context: it goes on after an interrupt, and may *)
(* succeed, or fail for a reason of its own.                                 *)
RemoveTarget ==
  /\ pc = "remove"
  /\ \/ \E o \in Successes \cup Failures : Settle(o)
     \/ \E o \in Failures : SettleCancelled(o)
  /\ UNCHANGED << input, sink, evidence, given >>

Execute == BeginTarget \/ VetTarget \/ RemoveTarget

-----------------------------------------------------------------------------
(* The receipt as it is published.                                           *)
State(t) ==
  IF row[t].state # "pending" THEN row[t].state
  ELSE IF plan[t] = "locked" THEN "protected"
  ELSE IF plan[t] = "reviewable" THEN "reviewable"
  ELSE "failed"

Having(s) == {t \in Targets : State(t) = s}
Requested == {t \in Targets : State(t) \in {"removed", "partial", "failed", "cancelled"}}

StatusOfRemovals ==  \* mutant: a removal outweighs what failed
  IF Having("cancelled") # {} /\ Requested = Having("cancelled") THEN "cancelled"
  ELSE IF Having("partial") # {} THEN "partial_failure"
  ELSE IF Having("failed") # {} /\ Having("removed") = {} THEN "failed"
  ELSE "succeeded"

Status ==
  IF Having("cancelled") # {} /\ Requested = Having("cancelled") THEN "cancelled"
  ELSE IF \/ Having("partial") # {}
          \/ Having("removed") # {} /\ Having("failed") \cup Having("cancelled") # {}
       THEN "partial_failure"
  ELSE IF Having("failed") # {} THEN "failed"
  ELSE "succeeded"

(* Bytes post_clean counts for an owner, or Unmeasured.                      *)
Remaining(t) == IF row[t].gone THEN 0 ELSE row[t].counted

ExitCode == IF err = "none" /\ (HasReceipt => Status = "succeeded") THEN "zero" ELSE "nonzero"

(* JSON is on stdout in any case; the guided receipt is in its file or lost. *)
Finish ==
  /\ pc = "finish"
  /\ IF HasReceipt /\ WantsReceipt
     THEN \/ Store /\ exit' = ExitCode /\ published' = TRUE
          \/ exit' = "nonzero" /\ published' = (route = "json") /\ UNCHANGED sink
     ELSE exit' = ExitCode /\ published' = HasReceipt /\ UNCHANGED sink
  /\ pc' = "done"
  /\ UNCHANGED << input, evidence, disk, flags, route, plan, queue, at, last, row, err, given >>

-----------------------------------------------------------------------------
(* The evidence window of a cached scan ends; a live scan has none.          *)
Expire ==
  /\ evidence = "fresh"
  /\ evidence' = "stale"
  /\ UNCHANGED << input, sink, disk >>

World ==
  /\ pc # "done"
  /\ \/ Interrupt /\ UNCHANGED << sink, evidence, disk >>
     \/ \E l \in Lines : Type(l) /\ UNCHANGED << sink, evidence, disk >>
     \/ \E how \in {End, Broken} : CloseInput(how) /\ UNCHANGED << sink, evidence, disk >>
     \/ SwapLeaf /\ UNCHANGED << input, evidence, disk >>
     \/ Expire
  /\ UNCHANGED << pc, session >>

Program ==
  \/ SelectRoute \/ Scan \/ GuidePrompt \/ Plan \/ ReviewPrompt \/ Select
  \/ Prepare \/ BindReceipt \/ SettleRequests
  \/ TargetPrompt \/ Approved \/ ConfirmPrompt \/ Validate \/ Execute \/ Finish

Terminated == pc = "done" /\ UNCHANGED vars

Next == World \/ Program \/ Terminated

Spec == Init /\ [][Next]_vars /\ WF_vars(Program)

-----------------------------------------------------------------------------

Untouched(t) == disk[t].left = Size /\ ~disk[t].gone

(* An answer decides the target it was asked about and no other: what an     *)
(* interactive run touched had its own yes, and the k-th answer of a JSON    *)
(* run is the answer for the k-th selected target of the plan document.      *)
AnswersBind ==
  flags.interactive =>
    /\ \A t \in Targets : ~Untouched(t) =>
         \E k \in DOMAIN given : given[k][1] = t /\ given[k][2] \in Approval
    /\ route = "json" =>
         \A k \in DOMAIN given :
           /\ given[k][1] \in Selected
           /\ Cardinality({t \in Selected : DocumentRank(t) < DocumentRank(given[k][1])}) = k - 1

(* A published receipt agrees with the disk: what it calls skipped,          *)
(* cancelled, protected or reviewable was not touched, an owner is gone      *)
(* exactly when its row says so, and in a run reported as failed or          *)
(* cancelled no owner is gone, though one may have lost a part.              *)
ReceiptTruthful ==
  published =>
    /\ \A t \in Targets :
         /\ State(t) \in {"skipped", "cancelled", "protected", "reviewable"} => Untouched(t)
         /\ row[t].gone <=> disk[t].gone
    /\ Status \in {"failed", "cancelled"} => \A t \in Targets : ~disk[t].gone

(* A receipt run exits zero only if every selected target was removed or     *)
(* declined, and the receipt that was asked for is in its file.              *)
SuccessIsComplete ==
  published /\ exit = "zero" =>
    /\ \A t \in Selected : State(t) \in {"removed", "skipped"}
    /\ WantsReceipt => document # "none"

(* post_clean never counts fewer bytes for an owner than are left of it.     *)
NeverUnderstated ==
  published => \A t \in Targets : Remaining(t) # Unmeasured => Remaining(t) >= disk[t].left

(* The receipt is in the file that was checked before the cleanup, or in one *)
(* the run created, and that file is in no target the cleanup removed.       *)
SinkPinned ==
  document # "none" =>
    /\ document = IF bound = "absent" THEN "created" ELSE bound
    /\ place # Outside => ~disk[place].gone

(* After an interrupt no line is taken for an answer, no removal begins, and *)
(* nothing is removed but by the one that had begun, of its own target.      *)
NothingAfterCancel ==
  [][cancelled =>
       /\ UNCHANGED given
       /\ pc' = "remove" => pc = "remove"
       /\ \A t \in Targets : disk'[t] # disk[t] => pc = "remove" /\ t = Here]_vars

(* An interrupted run ends, though the operator may never type again.        *)
CancelEnds == cancelled ~> pc = "done"

(* Documented: protected targets are not requested.                          *)
ProtectedNotRequested ==
  published => \A t \in Targets : plan[t] = "locked" => t \notin Requested

(* Documented: a residual that was not measured after a mutation is omitted  *)
(* rather than reported as the size before it.                               *)
ResidualNotStale ==
  published => \A t \in Targets :
    row[t].attempted /\ ~row[t].gone /\ disk[t].left < Size => Remaining(t) # Size
=============================================================================
