# A verification project for aibris

aibris finds what coding agents leave behind under `$HOME` (stale Git worktrees, session
stores, caches, temporary checkouts), shows it, and deletes what the user confirms.
Nothing it deletes comes back, and it runs beside the agents and Git processes that
still use the same directories. This directory holds TLA+ models of the code that
decides *what may be deleted and whether the deletion may still happen now*, TLC runs
that check them on small instances, and TLAPS proofs that most of what they show holds
for every size.

File names below are relative to the repository.

## The system

| component | state | operations | hard because |
|---|---|---|---|
| scanner (`internal/scanner`) | result slots, provider errors | dispatch providers two at a time, aggregate, assign owners | parallel, cancellable |
| provider adapters (`internal/adapter`) | none beyond a scan; a fence for Codex's temporary units | list rows; reclassify one row live | read a moving filesystem |
| scan cache (`internal/scancache`, `cmd/scan_cache.go`) | snapshot and last-scan selector on disk | load or refuse, save, claim, invalidate | several processes, crash between steps |
| session index (`internal/codexactivity`) | index and its cache file | load, refresh, answer | stale files, stores that come and go |
| guided review and policy (`internal/worktree`, `cmd`) | rows, overrides, probes, age | build, rank, lock, recommend, toggle, plan anew | choices must survive plans, pins must too |
| overlap planning and unified plan (`internal/cleaner`) | physical components of rows | group, lock, toggle, hand over | one path has several rows |
| command routing and clean command (`cmd`) | flags, route, answers | route, select, prompt, narrow, execute | many flags meet |
| confirmation input (`internal/confirminput`) | sticky EOF and cancellation | one line per question | an abandoned blocking read |
| deletion gate, exclusion and pins (`internal/safedelete`, `internal/exclude`) | none | decide from a path | links and spellings |
| preparation (`internal/executor`) | snapshots, units, obligations | capture | happens before the confirmation |
| overlap barrier (`internal/cleaner`) | batch memo of the re-scan | fingerprint, scan, plan, revalidate, report | stores change under it |
| unit executor (`internal/worktree`) | member by member progress | preflight, barrier, `git worktree remove`, verify, refresh, remove container | partial failure, ageing evidence |
| path and command cleanup (`internal/cleaner`) | one reclamation | gate, measure, barrier, run or remove, measure | fallback, cancellation, incomplete walks |
| strip (`internal/worktree/strip.go`) | open directory, baselines, outcome lines | authorize, look, remove, verify | paths are exchanged under it |
| batch executor (`internal/executor`) | receipts | loop, settle, invalidate the cache | cancellation boundaries |
| receipts as JSON (`internal/cleanjson`) | the bound receipt file | project, total, write | must agree with what happened |

A `clean` runs scan, overlap plan, review and confirmation, preparation, and then the
batch executor, which hands each prepared target to the unit executor (active worktrees)
or to the path and command cleanup. Both call the overlap barrier before they mutate,
and every removal passes the deletion gate. Shared state is the filesystem, the Git
repositories, the scan snapshot, the session index's cache file, and within a process
the batch memo, the input reader and the context that an interrupt cancels.

What makes the components correct, in one line each: the *scanner* returns the same rows
in every order of arrival and never hangs; a document of the *scan cache*, which may
outlive its invalidation, is looked at row by row by whoever reuses it; the *session
index* never tells a deletion that a worktree is idle when a session it could have seen
was not; the *review* proposes nothing that is locked, most recent or not known to be
merged, and never loses the operator's word; the *unified plan* removes a path only when
every row of it may go; *confirmation* binds each answer to its question and lets a
cancellation win; the *unit executor* acts on no evidence older than its own barrier,
stops at the first failure and reports what happened; the *overlap barrier* finds every
overlapping entry that stood since it began and lets no session through that was
recorded and wanted all the while; the *batch executor* settles every target once, in
order, with nothing attempted once one is settled as cancelled; *reclamation* and
*receipts* never claim bytes that did not go; *strip* removes the directory it vetted,
or, if something moves after its last look, nothing outside the unit it opened; the
*gate* lets no alias of a protected place through.

## Modules

| module | models | composed with |
|---|---|---|
| `ScanPromise` | abstract: what a scan promises to whoever asks for it | - |
| `ScanDispatch` | providers, gate, slots, collector and retention stores of one scan | implements `ScanPromise` |
| `ScanCache` | the snapshot on disk, shared by processes that scan and clean | a scan is its reads and its end; `BatchExecution` has the deferred invalidation |
| `SessionIndex` | loads of the session index and its cache file | world actions for sessions, stores and time |
| `CodexTmp` | the fenced removal of a unit below a Codex home's `tmp` | several sweeps at once |
| `WorktreePolicy` | operators: units, Git evidence, locks, retention, dispositions, probes | - |
| `UnifiedPlan` | operators: physical components, toggles, what is handed over | - |
| `ClassicSelection` | operators: the filter chain from rows to targets | uses both |
| `GuidedReview` | the review as a state machine, on both routes | uses the three |
| `ConfirmInput` | the shared reader of confirmation lines | - |
| `ReceiptSink` | the file a receipt is written to | - |
| `CleanSession` | one command from its flags to its exit status | composes `ConfirmInput` and `ReceiptSink` |
| `RecordedCwd` | operators: what a store's entry says of its project, on a disk with volumes | - |
| `OverlapBarrier` | the barrier and memo of a batch | classifies with `RecordedCwd` |
| `ActiveUnit` | removal of one active worktree unit | world actions for the user, agents and Git |
| `CleanupReceipts` | abstract: what a batch promises about its receipts | - |
| `BatchExecution` | the batch, with path and command cleanup in it | implements `CleanupReceipts`; `ActiveUnit` appears as one coarse step pair |
| `DeletionGate` | operators: canonical paths, protected places and both removals | - |
| `Exclusion` | operators: scan roots, patterns, scopes | uses `DeletionGate` |
| `Strip` | `clean --strip` from selection to outcome lines | uses both |
| `MC*` | constant values for the runs | - |
| `*Proofs` | theorems | extend their components and TLAPS |

In the modules about deletion, the snapshot and the index a *world* part may change the
filesystem, Git, the sessions or the context between any two steps of the program, and
each read of such state by the program is a step of its own. Variables under "history"
are read by properties only. An operator whose comment begins with `mutant:` is no part
of the model but a plausible mistake in the definition that follows it; each property
has been seen to fail with such a mistake in place.

### ActiveUnit

`executor.ExecuteActiveWorktreeUnit` down to `git worktree remove`. The state of the
world is a set of flags per member (working tree, listed by Git, HEAD moved, captured
ref intact, unsaved files, session advanced) and of the owner directory (the selected
one, another one, none; its mtime). The program counter follows the Go control flow:

    preflight -> inspect (one step per member, any order) -> compare
      -> barrier of the unit -> { barrier, attempt, git, verify, refresh }*
      -> owner check -> barrier, attempt, removal of the container -> final check
      -> receipt

and the barrier itself is `overlap`, `snapshot`, and on the guided route `activity`.
`git worktree remove` may refuse, succeed, or stop with the tree partly or wholly gone
and the listing kept or not. `Direct` is a unit whose owner directory is itself the
checkout. `Leaf` are members two levels down, whose removal does not touch the owner's
mtime. The run has a container; the proofs speak of direct units as well.

Left out: path syntax, the content of Git evidence beyond the flags, progress output.
The deletion gate is one flag, which may close at any time.

### OverlapBarrier and RecordedCwd

`CleanupMutationSafety.Validate` for one target after another. An entry is a directory
of an agent's session store; its `entry` is the set of working directories its sessions
have recorded, or absent. It lies below, at, above or apart from each target
(`Relation`). Whether it is orphaned is not given: it follows from what it recorded and
from the disk, by `RecordedCwd`. A disk maps paths to nodes with a volume; a project is
proven gone when the nearest existing entry above it is a directory of the same volume
in a place that may be trusted, so that an unmounted volume leaves its projects unproven
rather than absent.

`Fingerprint` reads the names, `ScanEntry` the entries one by one in any order, `Plan`
matches and may refuse, `Revalidate` classifies each obligation live, `Confirm` compares
identities at the end. `made` counts the directories that have had an entry's name,
which is what its device and inode tell apart. A target may be one that a command
reclaims, for which no overlap is tolerated at all.

A classification takes time, and entry and disk may change at any point of it: `Take`
lists the sessions of an entry, `Read` reads them one by one, `Sight` looks at one
recorded directory and what lies above it, `Recheck` looks again at one that is proven
absent, and `Conclude` puts together what was found. A cancellation that is noticed
inside is blamed on the obligation in hand, while the outcome of the target is
"cancelled". `shielded` follows each *session* (an entry and one of its records) that has
been recorded, and wanted, ever since the barrier began: no such session passes, however
the reads fall. An *entry* that is wanted all the while, but for one session first and
for another, begun later, afterwards, may pass; and so does one whose only live session
began after the listing. The code says of its second look that it narrows the race and
does not close it (`internal/adapter/recorded_cwd.go:151`). One look at a directory and
at those above it is one step, and so is one listing. What the scan takes an entry for is
left open (`ScanEntry` chooses), as its classes are a first sieve that the revalidation
repeats.

### BatchExecution and CleanupReceipts

`ExecutePreparedTargets` over targets of the kinds in `AllKinds`. The reclamation of one
target is eight steps, from the gate to the second measurement; a command that is not
installed starts over as a removal. Sizes are small numbers, and a walk may be complete
or a lower bound. `saved` is the last-scan snapshot on disk, which the end of the batch
removes or, when that fails, leaves behind without a word; what a stale one may do is
`ScanCache`'s question. `CleanupReceipts` says only
what a reader of the receipts may rely on: targets are settled in order; removed and
partial imply an attempt, cancelled implies none; nothing is attempted once something is
cancelled. `BatchExecution` maps its receipts' states and the set of acted-on targets to
it.

### ScanDispatch and ScanPromise

`ScanWithOptions`. Every provider is a process that waits for the gate, then for one of
`MaxParallel` slots, scans, and sends into a channel with room for all; `at` says where
it is. At the gate and at the slots it may find the scan's context done instead (a
`select` with two ready cases takes either). A provider whose error is a context error
cancels the scan's context before it sends, and may report one that nobody caused. The
caller's goroutine (`stage`) spawns, opens the gate, and collects: `Receive` takes a
result, `Observe` is the look at the caller's context after the progress callback. The
caller may be cancelled, or pass its deadline, between any two steps. `EndOfResults` is
the end of the range over the channel, which the closing goroutine allows only once all
have ended.

A row is what the later stages ask of it: found under the temporary directory or not,
owned or not, excluded or not. What a retention store holds is an input, and each may
fail, list less than it holds, or report a context error of its own, which ends the scan
as a provider's does (`culprits` has 0 for the stores). Left out: normalisation of roots
(`Enter` may reject), totals, sorting, diagnostics, progress text.

`ScanPromise` has no goroutines: the fate of every provider is settled once, a scan
reports once and only when all are settled (or none has begun), an inventory holds no
provider that was cut short and is complete when none failed.

### ScanCache

Each process is a `scan`, or a `clean` on one of two routes, and goes through
`lastScanSession.load`: inspect, validate the evidence target by target, claim, or scan,
capture evidence target by target, and save. A save is two steps, the draft beside the
snapshot and the rename; an invalidation is one, and may fail silently (`Invalidated`),
so that a document may outlive the deletions it lists. Any process may stop at any point
for ever (`Stop`): a kill, an interrupt, or a user who declines. There is no lock, and
none in the model. `object[t]` counts the objects that have stood at a path, which is
what identity, mode and mtime tell apart, and `clock` may be set both ways. A claim
re-reads the file, as the code does, so that it may write back a document that another
process has invalidated. The rows that are removed come from the document a process
uses; the batch's own barriers are in the other modules. `Capturable` compares objects
where the code compares modification times (`internal/scancache/identity.go:48`): an
object that takes another's place with the very same time is not told apart by either of
the two looks, and is left out. Also left out: the JSON, roots and revisions (one
`key`), containment of paths, and the second selector value for memory pressure, which
differs from `delete` only in its name.

### WorktreePolicy, UnifiedPlan, ClassicSelection and GuidedReview

`WorktreePolicy` turns a scan's rows and Git's answers about each checkout into units
and dispositions: locks, retention by recency within each repository, the merge probes
of what would be recommended. Times are ages against the frozen instant of planning.
`UnifiedPlan` groups logical rows into physical components and says what a toggle and
the hand-over do. `ClassicSelection` is the chain of `selectCleanTargets`, link by link
in the source's order, whose last link (overlap) refuses a given set of paths.

`GuidedReview` runs `runClean` over them: `Build` makes the review, `SelectClassic` is
the other route. The operator toggles rows (`ToggleRow`), changes the minimum idle age
to a preset or a typed one (`Replan`: new probes, old overrides), accepts into the
unified plan (`Accept`), toggles components there and has it handed to execution
(`Hand`). `Worlds` is a sequence of scans with Git's answers; the world of a review
stands still, because everything that may age is re-checked by the modules that follow
it.

### ConfirmInput, ReceiptSink and CleanSession

`ConfirmInput` is `confirminput.Scan`: a goroutine reads, its caller waits for the line
or for the cancellation, whichever the `select` takes. A read that the caller gave up
still takes the next line; once cancelled the reader refuses. `ReceiptSink` binds the
leaf of `--receipt-file` before any mutation, and writes to what it bound, while another
process exchanges the leaf.

`CleanSession` composes both into one command: flags (`FlagSets`), routing, the guided
selection as an input, the prompts of each route, the narrowing of the targets to those
that were answered yes, the refresh of evidence, the loop over the prepared queue and
its cancellation boundaries, the projection of unit receipts to JSON rows, totals and
status, the receipt file and the exit status. The scan, the plan and the overlap barrier
are decisions. A target takes three steps: the executor's look at its context
(`BeginTarget`), the barrier up to the second look right before the removal
(`VetTarget`), and the removal, which looks at no context and goes on after an interrupt
(`RemoveTarget`); what they may lead to is the set of outcomes that `BatchExecution` and
`ActiveUnit` allow. `queue` holds the prepared targets in document order on the JSON
route.

### DeletionGate, Exclusion and Strip

A path is a sequence of names; a file system maps stored paths to directories, files and
links, and finds a name under the spelling `Stored` gives (`FileSystem` says what such a
map must be). `canonicalize` is a loop over what remains to be resolved: a resolution
stands somewhere with names still to do (`Stand`), goes on by one step (`Onward`), and is
given up at a file in the way or after `MaxLinks` links. `Resolution` is the sequence of
its steps and `Canonical` reads its result off after `Steps` of them, of which
`ResolutionsEnd` proves that they are enough when links' destinations have at most
`MaxLength` names. Those destinations are absolute paths. `Passes` is the gate with its
refusals, and `Sound` compares it with what a removal would take along (`Taken`) and what
has to stay (`Kept`). `Exclusion` resolves roots and patterns once, and compares rows
with their scopes, both as they are spelled.

`Strip` groups rows into units by where their paths lead (`PathKey`), and walks a
confirmed plan: it opens the unit's directory, authorizes each subtree
by identity, takes a Git baseline of its checkout, looks a last time (identity, gate,
tracked and visible files), removes through the open directory, and verifies HEAD and
the evidence afterwards. Others rename a directory and put a directory or a link in its
place (`Exchange`), add a visible file, commit and edit, or cancel, between any two
steps. Git is asked about a *path*, the removal goes through the *open directory*: the
model keeps them apart. The history variables `moved` and `stripped` say whose HEAD moved
between baseline and last look, and what was stripped from, independently of what the
program remembers.

### SessionIndex

A load reads the cache file, decides per home which stores are covered, walks files one
at a time in the code's order (archive before live sessions), reuses the record of a
file whose modification time and size did not change, saves, and answers. A load for a
deletion walks the stores, whatever the cache's age; a load for a review may be answered
from the cache alone within `Window`. Sessions start, write and are archived, stores
lose permissions or become links that leave the home, a load may die between emptying
and writing the cache file, another command's save may stand half done (`OtherSave`),
and the clock moves on. One initial cache comes from a clock that was set back since.
Cwds are of a home's own worktrees or of Orca's workspaces, which are attributed through
all homes.

### CodexTmp

The contract for a direct child of a Codex home's `tmp`: take the fence, list, read each
member's state, compare with the layout of a known producer version, release; and for
the deletion the same again followed by one removal per member and the fence's return.
Sweeps run side by side, writers outside the set that respects the fence write at any
time, and an owner may take the fence back. The adapter is not registered with the
default providers, and production admits no layout, so this is a contract the code holds
ready.

## Runs

| run | instance | states |
|---|---|---|
| `active_unit` | 2 members: one attached, one detached in a leaf; 3 changes | 728k |
| `overlap_barrier` | 3 targets (the last by command), 2 entries of 2 providers, 4 disks, 3 changes | 6.8M |
| `batch` | 2 targets: one of each kind before a plain path, one unprepared, two of one key; size 1, 2 changes | 865k |
| `scan_dispatch` | 3 providers, 2 slots, 2 retention stores | 751k |
| `scan_cache` | a scan, a strip, a delete; a cache and a worktree; 1 change | 1.8M |
| `session_index` | 2 homes with 2 stores, 2 loads, time to 2, 2 changes | 6.2M |
| `guided_review` | 419 scans of 3 units and a cache, 2 presets and 2 typed ages | 549k |
| `clean_session` | 2 targets, 12 command lines, 3 typed lines, 1 swap of the receipt | 1.1M |
| `strip` | 2 worktrees, 4 rows, 7 file systems and requests, 2 changes | 788k |
| `codex_tmp` | 2 sweeps, 3 contents, 2 changes | 86k |
| `unreviewed_checkout` | as `active_unit`, 1 change | violation |
| `pin_lost` | as `guided_review` | violation |

What each passing run shows:

* `active_unit` - no member is removed on evidence older than the preflight and its own
  barrier (`PreflightShields`, `BarrierGuardsMutation`), none after one that could not
  be finished (`StopsAtFirstFailure`), and the receipt says what happened
  (`ReceiptTruthful`): a unit reported as failed has no member reported removed, but may
  have lost a part of a tree.
* `overlap_barrier` - every entry that has stood since a barrier began is revalidated by
  it (`DiscoversOverlaps`), no session that was recorded and wanted all the while is
  mutated over (`ShieldsLiveState`), what is removed is what was planned
  (`TargetPinned`), and each obligation is accounted for, also when the barrier is
  cancelled inside a classification (`ReportComplete`).
* `batch` - the batch implements `CleanupReceipts` (`KeepsReceipts`), frees what it
  claims (`FreedIsReal`), vets before each mutation (`VettedBeforeMutation`) and ends
  (`BatchEnds`).
* `scan_dispatch` - the scan implements `ScanPromise` (`KeepsPromise`), its inventory is
  exact, retention is honest, and it returns (`ScanReturns`).
* `scan_cache` - documents are genuine, reuse is revalidated, and what is removed is
  what was scanned, whoever is killed where.
* `session_index` - of sessions that stay where they are, an answer misses nothing older
  than the window (`StalenessBounded`), and for a deletion nothing older than its load
  (`DeletionsSeeAll`).
* `guided_review` - locks hold through every toggle and plan, the most recent units are
  never proposed, a proposal is justified at the age now in force, the operator's last
  word survives (`ChoiceSurvives`), what is handed over without a second look neither
  contains nor lies in what is locked (`PlanSound`), and active worktrees need a consent
  of their own.
* `clean_session` - the k-th answer belongs to the k-th question (`AnswersBind`); after
  a cancellation no answer is taken and no removal begins, while one that had begun may
  go on with its own target (`NothingAfterCancel`); the receipt tells what happened, a
  run reported as failed or cancelled has no owner gone though one may have lost a part,
  success means all, residuals are never understated, the receipt goes to the file that
  was bound, and a cancelled session ends (`CancelEnds`).
* `strip` - the gate is sound for every path asked, under whatever spelling; what is
  removed is what the last look vetted, or lies in the opened unit if something moved
  after it; what is pinned as it is stored stands, links and paths yet to be made
  included; and a stripped checkout whose HEAD moved is reported.
* `codex_tmp` - only vetted members are removed, and fences are returned.

Why the bounds suffice to see the interesting cases. *active_unit*: two members are the
fewest with a "before" and an "after", and three changes allow the longest hazard known
here (a session resumes, the owner goes and is replaced; or an edit, a commit and a
deleted ref). *overlap_barrier*: two entries and three targets allow an entry that one
target brings into the memo and another must still see, with a third where a command may
overlap nothing; the four disks are a project deleted, a project there, a link to a
volume that is gone, and a mounted volume. *batch*: two targets suffice for every
cancellation boundary, and size 1 for every answer to "did bytes go". *scan_dispatch*:
three providers are the fewest that compete for two slots, two stores the fewest that
can list a bucket twice. *scan_cache*: one process that saves for any route and two
routes that compete for it; a cache and a worktree are the two ways evidence is
captured. *session_index*: two loads are one that writes the cache and one that trusts
it, two changes a session written and moved between them. *guided_review*: two checkouts
at a time differ from a plain old clean one, each in one of twelve ways; two units share
a repository and one contains the other, which are the fewest for retention and for
containment. *clean_session*: two targets are an answer that may go to the wrong
question, three lines one more than there are questions. *strip*: two subtrees in one
unit are one mutated before the other is looked at. *codex_tmp*: two sweeps for a fence
taken over. The proofs do not depend on any of these.

Fairness. In `batch` and `clean_session` it is weak fairness of the program's own steps
as a whole: one goroutine, each of whose steps is a bounded local read, a child process
that ends by itself or with the context, or a wait that the cancellation ends. Nobody
has to type: `CancelEnds` promises an end only after a cancellation. In `scan_dispatch`
each provider's goroutine, the closing one and the collector are weakly fair, each by
itself: the runtime schedules runnable goroutines, a blocked sender on `sem` is served
when a slot is free, and a provider's walk is finite and looks at its context. In
`codex_tmp` each sweep is weakly fair, and a sweep that finds the fence held gives up
rather than waits. The world has no fairness anywhere. The other runs state safety only:
in `scan_cache` and `session_index` a process may stop for good, and in `guided_review`
an operator may.

### What the violations say

Two runs contradict a sentence of the documentation, each with the trace TLC prints:

* `FullMemberSetRevalidated` - `docs/SPEC.md:729` asks for the full member set to be
  revalidated and no raw path fallback. It is revalidated in the preflight only. A
  checkout added in an existing leaf afterwards goes with the container.
* `PinnedNeverHanded` - `README.md:136` and `docs/SPEC.md:124` say a protected path
  stays. The guided review applies pins when it is built; choosing another age plans
  anew without them (`internal/worktree/guided.go:409`), and a pinned unit can be
  selected and handed to execution.

More disagreements have no run in the table. Three keep a cfg of their own:

* `MCOverlapBarrierInheritedFailure.cfg` - `internal/cleaner/overlap_runtime.go:27` says
  a failed scan is never inherited. A scan with a failed provider has a nil error and is
  (`FailureNotInherited`).
* `MCOverlapBarrierReusedName.cfg` - `internal/cleaner/overlap_runtime.go:80` says any
  added entry forces a fresh scan. One that is back under the same name does not
  (`DiscoversOverlaps` with `NamesReused`).
* `MCStripPinSpelled.cfg` - where case makes no difference, a pin the user spells in
  another case protects nothing: its canonical form keeps the spelling
  (`PinnedHoweverSpelled`; `README.md:136`, `docs/SPEC.md:124`). `PinnedStands` speaks of
  the pins that are spelled as stored.

The others appear when the property is put in place of those a cfg lists:

| property | cfg | what the code does | what is said |
|---|---|---|---|
| `NoDetachedCommitDiscarded` | `MCActiveUnitContainer` | HEAD is compared once per unit; without an activity review nothing covers the gap to the removal | `docs/SPEC.md:511` |
| `FailedMeansUntouched` | `MCActiveUnitContainer` | a `git worktree remove` that dies half-way is "failed" | `docs/JSON_SCHEMA.md:699` |
| `PartialInvalidates` | `MCScanCache` | a clean whose own scan is partial returns before it invalidates | `docs/SECURITY_AUDIT.md:26` |
| `ProtectedNotRequested` | `MCCleanSession` | a guided receipt counts protected targets as requested (`receipt_guided.go:57`) | `docs/JSON_SCHEMA.md:690` |
| `ResidualNotStale` | `MCCleanSession` | an owner that could not be measured after a mutation is counted at its size before it | `docs/JSON_SCHEMA.md:752` |
| `LockDominates` | `MCGuidedReview` | toggling an unselected owner selects a component with a hard-locked row (`unified_cleanup_plan.go:157`) | `unified_cleanup_plan_helpers.go:176` |
| `MutationsAreVerified` | `MCStrip` | a removal that fails half-way leaves its checkout out of the verification | the comment on it in `internal/worktree/strip.go` |
| `NothingSlipsThrough` | `MCSessionIndex` | a session moved between two stores during the walk is in neither listing | `internal/codexactivity/sources.go:27` |

And one is seen in `CleanSession` without a property: a guided run with nothing left to
execute writes a receipt (`cmd/unified_cleanup_execute.go:146`), which
`docs/JSON_SCHEMA.md:798` says it does not.

## Proofs

`ActiveUnitProofs` (for all N, Attached, Leaf, Direct, MaxEvents satisfying
`UnitAssumption`):

* `TypeCorrect` is inductive by itself.
* `MembersInOrder` and `ReceiptsTruthful` need an invariant that ties the program
  counter to progress: all members before `cur` are removed, nothing at or after `cur`
  is destroyed before its own removal step, the container phase starts with every member
  removed, `attempted` precedes any destruction, and a verified attached member's branch
  stays where it was once its tree is gone.
* `PreflightShieldsUnit` needs the invariant that a member already inspected as good had
  not moved when the preflight began, as flags only ever rise.
* `BarrierGuards` is an action property from an invariant about what the three parts of
  the barrier have established when they are passed.

`BatchExecutionProofs` (for all N, Plans, MaxSize, MaxEvents satisfying
`BatchAssumption`): `LoopConsistent` is the inductive invariant of the loop: the
receipts before `t` are settled and those from `t` on pending, nothing beyond `t` has
been acted on, the reclamation at hand counts as attempted exactly when `t` has been,
and it frees nothing and reports no success without an attempt. `KeepsItsReceipts`
follows from it: every step is a step of `CleanupReceipts` or leaves its variables
alone. `FreedBytesReal`, `VettedMutations` and `AllTargetsSettled` each add an
invariant of their own: what the two measurements have read (`Bytes`), which checks the
place in the reclamation implies (`Vetted`), and that the loop ends past the last target
(`Complete`).

`ScanProofs`, of `ScanDispatch` (for all N, MaxParallel, Found, S, Keys, Layouts
satisfying `ScanAssumption`): the invariant of `ScanConsistent` has four parts.
`Goroutines` says where providers can be for each place of the collector, so that a
closed channel means that all have ended. `Gathered` says that a result sent is buffered
or accounted for: with it, a closed and empty channel leaves nothing missing. `Causes`
traces each context error to the caller or to the provider that made it. `Retained`
speaks of the stores read so far. From these follow `InventoriesExact`, `NoneCutShort`,
`RetentionIsHonest`, `CancelledWithCause`, and, with one step of `ScanPromise` for each
way a provider or the collector ends, `ScanKeepsPromise`.

`ScanProofs`, of `ScanCache` (for all Procs, Requests, Targets, Worktrees and bounds
satisfying `CacheAssumption`): here the invariant of `Consistent` says what a process
has at each place (`Phases`: who is saving has never saved before), that every document
on disk or about to be claimed comes from a complete scan (`Provenance`), that evidence
in any document equals the row it stands beside, except for worktrees (`Evidence`), and
that a process that reuses a document has seen what it has validated, and sees every
later change (`Revalidated`). From it follow `GenuineDocuments`, `ReusedIsRevalidated`
and `RemovedWasScanned`. None of them rests on an invalidation that succeeds.

`OverlapBarrierProofs` (for all entries, targets, relations, disks and numbers of
changes satisfying `OverlapAssumption`, `CwdAssumption` and `AwayAssumption`): an entry
found by the scan must still be accounted for when the target is mutated, several steps
and changes later. The invariant of `Consistent` follows it: `WatchOK` and `MadeOK` (an
entry seen at the start of a barrier that still has its number is the same directory),
`MemoOK` and `ScanOK` (what the memo and the running scan have read), `EvidenceOK` (no
entry that has stood is missing from the scan in use), `LookOK` (a session that has been
recorded and wanted since the barrier began is still to be read by the classification in
hand, or its directory still to be looked at, or has been found not to be absent),
`BoundOK` (none such is in an obligation that has passed) and `ReportOK`. From it follow
`ReportsComplete`, `TargetsPinned`, and, with `~NamesReused`, `OverlapsDiscovered` and
`LiveStateShielded`. `AwayAssumption` says where the mount point of a missing volume may
be: outside the trusted containers or behind a dangling link. Without it a project on
that volume could not be told from a deleted one, by the code or by anybody.

`GuidedReviewProofs` (for all worlds and ages satisfying `WorldsAssumption` and
`AgesAssumption`, any paths and containment satisfying `WithinAssumption`): `Inv` says
that every row of the review is what the policy decides at the present age, overlaid
with what the operator asked (`RowTrue`), that every probe made is what Git answers
(`ProbesTrue`), and that the plan's components are those of the review's paths with
their locks (`PlanTrue`). Containment is a forest by assumption, as it is for paths;
that the outermost paths cover all others and their components are apart are lemmas. The
outermost and the most recent come from the well-founded order of the naturals, not from
the finiteness of the instance. From it follow `LocksAlwaysHold`, `RecentKept`,
`ProposalsJustified`, `ChoicesSurvive` and `PlansSound`. `ConsentNeeded` goes through the
stages of `ClassicSelection` to show that no active worktree is selected without the
flag that asks for it. It assumes that no row of another category stands at a worktree's
path (`WorktreesApart`): such a row would let the worktree pass, since eligibility is
looked up by path alone (`internal/cleanpolicy/targets.go:58`).

`CleanSessionProofs` (for all targets, document orders, sizes and command lines
satisfying `SessionAssumption`): the invariant has a part for the rows (`RowsTrue`: row
and disk agree about every target), for the queue (`QueueTrue`, `Ahead`: what is still
to come is untouched), for the prompts (`Prompting`, `Consent`: an answer given belongs
to the position reached, and what executes was answered yes), for the loop (`InStep`),
for the file (`FileTrue`) and for the end (`Final`). From it follow `EveryAnswerBinds`
(the number of selected targets before one in the document is the number of answers
before its own), `CancelStops`, `SinkStaysPinned`, `ReceiptsTruthful`, `SuccessMeansAll`
and `ResidualsCover`.

`CodexProofs`, of `SessionIndex` (for all homes, session names, stores, initial caches
and bounds satisfying `IndexAssumption` and `WorldAssumption`: a name is one session of
its home, and a cache no load of the model wrote comes from a clock set back since, with
each record naming its session's directory): a load reads a store at one time, answers
at another, and in between rests on a file that an earlier load wrote. `IndexInv`
follows each answer back to the walk it comes from. `WorldOK` says that a session is in
one store at a time; `CacheTrue` what a cache on disk claims as of its creation;
`RootsTrue`, `WalkTrue` and `RecordsTrue` what a running load has in sight, has passed
and has taken over; `AnswerTrue` what it answered. They share one claim (`Claims`): of a
home called available there is a record for each session that stayed where it is since
the horizon, no older than what was written to it before the horizon. Sessions that
moved meanwhile are left out, and must be (`NothingSlipsThrough`). From this follow
`AnswersAreBounded` and `DeletionsAreInformed`.

`CodexProofs`, of `CodexTmp` (for any sweeps, layouts and contents satisfying
`TmpAssumption`): fences have distinct tokens (`Fences`), and what a sweep that was not
robbed of its fence knows covers the unit as it stands while every writer respects the
fence (`Sound`). From these follow `FenceExclusive` and `VettedRemovals`.

`StripProofs`, of `DeletionGate` (for every file system, home, set of protected and
relocated locations, spelling and path satisfying `GateAssumption`): no step of a
resolution leaves a link behind in what is resolved (`NoLinkOn`), and each either takes a
name away or spends one of the links allowed, so that it ends (`ResolutionsEnd`). With
that, `GateKeeps`: suppose that a removal would take along a place that has to stay. If
what is removed is no link, its path and its canonical path differ in nothing that
matters, a prefix of the location's form is that very object, and the comparison of
identities (`CoversIdentity`) refuses it under whatever spelling. If it is a link, only
the link goes; it is then a link to a location, the canonical paths of both are the same,
and the refusal is by where they lead. That a path with `Up` in it is refused as given is
needed in both.

`StripProofs`, of `Strip` (for all rows, positions, initial file systems, places and
destinations of links, and any number of changes satisfying `StripAssumption`):
`FilesInv` says that what is on disk is a file system, in which an id tells one object
and the attics yet to be used are free (`Files`), where the program is in its plan
(`Cursor`), and that before a removal, unless something moved after the last look, the
subtree below the open directory is the one that was authorized (`Vetted`). An exchange
moves whole trees and may move the open directory, and the proof that it leaves a file
system is the longest of them. From it follow `GateStaysSound`, `GateSoundHolds` and
`RemovalsStayInside`. `HeadsInv` says that a baseline is never ahead of its HEAD, and
behind it when the checkout counts as moved (`Heads`), and that whatever something was
stripped from is still to be looked at, or has been looked at and had not moved
(`Accounted`). From it follows `UnitsAreIntactOrReported`.

Assumptions are only those named in the modules, about the constants; TLC evaluates each
of them in the runs. One conjunct of `StripAssumption` says what is put together by
folds over sequences, which is induction over data: the targets of each initial state
are a sequence of units with paths and subtrees (`Planned`).

Model-checked only:

* the liveness properties `BatchEnds`, `ScanReturns`, `CancelEnds` and `FencesReturned`:
  the prover handles no fairness;
* `PinnedStands`: it depends on how pins are spelled, and `MCStripPinSpelled.cfg` shows
  that it does not extend to every spelling (`PinnedHoweverSpelled`);
* of `RemovesWhatWasVetted`, the last conjunct, that nothing goes that Git could see when
  it was asked. Git is asked about a path: a directory above the unit may be exchanged
  while it is, and a link may lead the path back to the attic later, so that it holds for
  the exchanges of the run and not for any. The other two are `RemovalsStayInside`.

## Not modelled

* `ScanCache`: the JSON, roots and revisions (one `key`), the memory-pressure selector.
* `RecordedCwd`: Cursor's evidence and `RecordedCWDOwners`, which only name the owner of
  a row; the parsing of a session line, abstracted to what it yields.
* `Strip`: identities are not reused, two checkouts never stand at the same commit, a
  rename goes out of reach (the attic), `MaxLinks` is 3 where the code has 255 (the proofs
  are for any number of links), destinations of links are absolute, a star
  is the last segment of a pattern, pins outside the roots are rejected as the command
  rejects them. What is exchanged *inside* an opened unit after the last look is the
  residual risk the code accepts (`internal/worktree/strip.go:270`), and
  `RemovesWhatWasVetted` then asks only that the removal stays in the unit (`late`).
  Whether a subtree can really be regenerated is the user's judgement.
* `SessionIndex`: a clock set back while the model runs, homes nested in each other, the
  fallback of a member to other projects of its repository, links in place of session
  files; loads of several processes are one after the other, except that one may die
  inside a save.
* `GuidedReview` and `ClassicSelection`: reading Git and the file system (inputs of
  `Worlds`), sizes beyond the least, rendering, `tmpRootForUnit`.
* `CleanSession`: audit output, flag parsing, the strip route's prompts, APFS snapshot
  thinning beyond its refusal with other flags, the plan document, and the detailed
  parsing of a JSON confirmation.
* Retention stores: what one holds is an input of `ScanDispatch`.
* The other provider adapters turn directories into rows and keep no state; their rows
  are inputs of the modules above.
* Reports and volumes are read-only rendering; tools and installers are outside the
  program.
