---------------------------- MODULE ScanDispatch ----------------------------
(****************************************************************************)
(* One scan of the filesystem (internal/scanner):                            *)
(*                                                                           *)
(*   ScanWithOptions           roots, fast path, scan context                *)
(*   dispatchProviders         a goroutine per provider, a gate, two slots   *)
(*   aggregateProviderResults  the collector, ownership, exclusions          *)
(*   scanRetention             the stores of protected content               *)
(*                                                                           *)
(* Each provider is a process of its own, so are the collector and the       *)
(* goroutine that closes the channel.  The caller may be cancelled, or run   *)
(* into its deadline, between any two steps.                                 *)
(****************************************************************************)
EXTENDS Naturals, Sequences, FiniteSets

CONSTANTS N,            \* number of providers
          MaxParallel,  \* slots for providers that scan
          Found,        \* the rows each provider finds
          S,            \* number of retention stores
          Keys,         \* identities of retention buckets
          Layouts       \* which buckets each retention store may hold

Providers == 1 .. N
Stores == 1 .. S

(* A row under the system's temporary directory, when that is a scan root,   *)
(* needs an owner: a session that recorded it as its working directory.      *)
Rows == [tool : Providers, temp : BOOLEAN, owned : BOOLEAN, excluded : BOOLEAN]

ASSUME ScanAssumption ==
  /\ N \in Nat
  /\ MaxParallel \in Nat \ {0}
  /\ Found \in [Providers -> SUBSET Rows]
  /\ S \in Nat
  /\ Layouts \subseteq [Stores -> SUBSET Keys]

ContextErrors == {"Canceled", "DeadlineExceeded"}
MaybeError == {"none"} \cup ContextErrors
Verdicts == {"ok", "error"} \cup ContextErrors

-----------------------------------------------------------------------------
VARIABLES
  stored,     \* the buckets each retention store holds; never changes
  caller,     \* error of the caller's context: none, or a context error
  scanErr,    \* error of the scan's own context
  (* the providers' goroutines *)
  at,         \* where each is
  verdict,    \* how its scan ended; open until then
  (* the channel *)
  results,    \* providers whose results are buffered, in order of arrival
  closed,     \* the channel is closed
  (* the goroutine of the caller *)
  stage,      \* where it is
  spawned,    \* providers whose goroutine has been started
  gate,       \* the start gate is open
  held,       \* the result received last
  cancelErr,  \* the context error observed
  rows,       \* the rows collected
  failed,     \* tools in ProviderErrors
  owners,     \* the index of recorded owners: unread, read, or unreadable
  store,      \* the retention store at hand
  partial,    \* the retention projection is partial
  buckets,    \* its buckets
  outcome,    \* none, rejected, cancelled, partial, or complete
  (* history, read by properties only *)
  late,       \* providers whose scan ended with its context done
  culprits    \* those that reported a context error nobody had caused: providers,
              \* or 0 for a retention store

goroutines == << at, verdict >>
collected == << held, cancelErr, rows, failed, owners, store, partial, buckets >>
scanVars == << stored, caller, scanErr, goroutines, results, closed, stage, spawned, gate,
               collected, outcome, late, culprits >>

ScanInit ==
  /\ stored \in Layouts
  /\ caller \in MaybeError
  /\ scanErr = "none"
  /\ at = [p \in Providers |-> "unborn"]
  /\ verdict = [p \in Providers |-> "open"]
  /\ results = << >> /\ closed = FALSE
  /\ stage = "enter" /\ spawned = 0 /\ gate = FALSE
  /\ held = 0 /\ cancelErr = "none"
  /\ rows = {} /\ failed = {} /\ owners = "unread"
  /\ store = 1 /\ partial = FALSE /\ buckets = {}
  /\ outcome = "none"
  /\ late = {} /\ culprits = {}

-----------------------------------------------------------------------------
(* The caller's context ends; the scan's context, its child, follows.        *)

EndCaller ==
  /\ caller = "none" /\ outcome = "none"
  /\ caller' \in ContextErrors
  /\ UNCHANGED << stored, scanErr, goroutines, results, closed, stage, spawned, gate,
                  collected, outcome, late, culprits >>

Propagate ==
  /\ caller # "none" /\ scanErr = "none" /\ stage \notin {"enter", "done"}
  /\ scanErr' = caller
  /\ UNCHANGED << stored, caller, goroutines, results, closed, stage, spawned, gate, collected,
                  outcome, late, culprits >>

-----------------------------------------------------------------------------
(* A provider's goroutine.                                                   *)

MoveTo(p, place) == at' = [at EXCEPT ![p] = place]

ByProvider == UNCHANGED << stored, caller, closed, stage, spawned, gate, collected, outcome >>

(* Of a select with both cases ready either is taken.                        *)
GiveUp(p) ==
  /\ at[p] \in {"gate", "queue"} /\ scanErr # "none"
  /\ verdict' = [verdict EXCEPT ![p] = scanErr]
  /\ MoveTo(p, "abort")
  /\ late' = late \cup {p}
  /\ ByProvider /\ UNCHANGED << scanErr, results, culprits >>

PassGate(p) ==
  /\ at[p] = "gate" /\ gate
  /\ MoveTo(p, "queue")
  /\ ByProvider /\ UNCHANGED << scanErr, verdict, results, late, culprits >>

\* mutant: the slot is kept
WorkingForEver ==
  {p \in Providers : at[p] \in {"scan", "cancel", "send", "release", "done"}}

(* The slot is given back after the result has been sent.                    *)
Working == {p \in Providers : at[p] \in {"scan", "cancel", "send", "release"}}

TakeSlot(p) ==
  /\ at[p] = "queue" /\ Cardinality(Working) < MaxParallel
  /\ MoveTo(p, "scan")
  /\ ByProvider /\ UNCHANGED << scanErr, verdict, results, late, culprits >>

(* The provider answers, whatever it makes of its context.  An error that is *)
(* context.Canceled may also be its own.                                     *)

CancelsRest(v) == v \in ContextErrors

FinishScan(p) ==
  /\ at[p] = "scan"
  /\ \E v \in {"ok", "error", "Canceled", scanErr} \ {"none"} :
       /\ verdict' = [verdict EXCEPT ![p] = v]
       /\ MoveTo(p, IF CancelsRest(v) THEN "cancel" ELSE "send")
       /\ culprits' = IF v \in ContextErrors /\ scanErr = "none" THEN culprits \cup {p}
                                                                 ELSE culprits
  /\ late' = IF scanErr # "none" THEN late \cup {p} ELSE late
  /\ ByProvider /\ UNCHANGED << scanErr, results >>

CancelRest(p) ==
  /\ at[p] = "cancel"
  /\ scanErr' = IF scanErr = "none" THEN "Canceled" ELSE scanErr
  /\ MoveTo(p, "send")
  /\ ByProvider /\ UNCHANGED << verdict, results, late, culprits >>

(* The channel has room for every provider.                                  *)
Send(p) ==
  /\ at[p] \in {"abort", "send"} /\ Len(results) < N
  /\ results' = Append(results, p)
  /\ MoveTo(p, IF at[p] = "abort" THEN "done" ELSE "release")
  /\ ByProvider /\ UNCHANGED << scanErr, verdict, late, culprits >>

ReleaseSlot(p) ==
  /\ at[p] = "release"
  /\ MoveTo(p, "done")
  /\ ByProvider /\ UNCHANGED << scanErr, verdict, results, late, culprits >>

Provider(p) ==
  GiveUp(p) \/ PassGate(p) \/ TakeSlot(p) \/ FinishScan(p) \/ CancelRest(p) \/ Send(p)
    \/ ReleaseSlot(p)

(* The goroutine that waits for all of them.                                 *)
Close ==
  /\ gate /\ ~closed /\ \A p \in Providers : at[p] = "done"
  /\ closed' = TRUE
  /\ UNCHANGED << stored, caller, scanErr, goroutines, results, stage, spawned, gate,
                  collected, outcome, late, culprits >>

-----------------------------------------------------------------------------
(* The goroutine of the caller: dispatch.                                    *)

Goes(place) == stage' = place /\ UNCHANGED outcome

Returns(what) == stage' = "done" /\ outcome' = what

Enter ==
  /\ stage = "enter"
  /\ \/ Returns("rejected")
     \/ IF caller # "none" THEN Returns("cancelled") ELSE Goes("spawn")
  /\ UNCHANGED << stored, caller, scanErr, goroutines, results, closed, spawned, gate,
                  collected, late, culprits >>

(* The progress callback may take its time, or cancel the caller.            *)

MoreToSpawn == spawned < N

Spawn ==
  /\ stage = "spawn" /\ MoreToSpawn
  /\ spawned' = spawned + 1
  /\ MoveTo(spawned + 1, "gate")
  /\ UNCHANGED << stored, caller, scanErr, verdict, results, closed, stage, gate, collected,
                  outcome, late, culprits >>

OpenGate ==
  /\ stage = "spawn" /\ ~MoreToSpawn
  /\ gate' = TRUE
  /\ Goes("collect")
  /\ UNCHANGED << stored, caller, scanErr, goroutines, results, closed, spawned, collected,
                  late, culprits >>

-----------------------------------------------------------------------------
(* The goroutine of the caller: aggregation, under the caller's context.     *)

ByCollector ==
  UNCHANGED << stored, caller, scanErr, goroutines, closed, spawned, gate, late, culprits >>

(* A result: its rows, or its error.                                         *)

IsContextError(v) == v \in ContextErrors

Receive ==
  /\ stage = "collect" /\ results # << >>
  /\ held' = Head(results)
  /\ results' = Tail(results)
  /\ LET v == verdict[held'] IN
       /\ rows' = IF v = "ok" THEN rows \cup Found[held'] ELSE rows
       /\ cancelErr' = IF IsContextError(v) THEN v ELSE cancelErr
       /\ failed' = IF v # "ok" /\ ~IsContextError(v) THEN failed \cup {held'} ELSE failed
  /\ Goes("observe")
  /\ ByCollector /\ UNCHANGED << owners, store, partial, buckets >>

(* preferContextErr, once its progress has been shown.                       *)
Preferred == IF cancelErr # "none" THEN cancelErr ELSE caller

Observe ==
  /\ stage = "observe"
  /\ cancelErr' = Preferred
  /\ Goes("collect")
  /\ ByCollector
  /\ UNCHANGED << results, held, rows, failed, owners, store, partial, buckets >>

Drained == results = << >> /\ closed

\* mutant: a cancelled scan does not wait for its providers
DrainedOrCancelled == results = << >> /\ (closed \/ cancelErr # "none")

EndOfResults == Drained

Conclude ==
  /\ stage = "collect" /\ EndOfResults
  /\ cancelErr' = Preferred
  /\ IF Preferred # "none" THEN Returns("cancelled") ELSE Goes("owners")
  /\ ByCollector
  /\ UNCHANGED << results, held, rows, failed, owners, store, partial, buckets >>

\* mutant: an unreadable index does no harm
ProvenIfUnreadable(r, index) == r.temp => r.owned \/ index = "unreadable"

(* requireTempDirOwnership: an index that cannot be read proves nothing.     *)
Proven(r, index) == r.temp => r.owned /\ index = "read"

RequireOwnership ==
  /\ stage = "owners"
  /\ owners' \in {"read", "unreadable"}
  /\ rows' = {r \in rows : Proven(r, owners')}
  /\ Goes("exclude")
  /\ ByCollector /\ UNCHANGED << results, held, cancelErr, failed, store, partial, buckets >>

(* Exclusions, totals, and the order of size.                                *)
Exclude ==
  /\ stage = "exclude"
  /\ IF caller # "none" THEN Returns("cancelled") /\ UNCHANGED rows
     ELSE Goes("retention") /\ rows' = {r \in rows : ~r.excluded}
  /\ ByCollector
  /\ UNCHANGED << results, held, cancelErr, failed, owners, store, partial, buckets >>

\* mutant: a bucket that two stores list counts twice
Admitted(listed, complete) == complete

(* scanRetention, one store after another.  A store that fails, lists less   *)
(* than it holds, or lists what another one has listed already makes the     *)
(* projection partial; a cancellation, or a context error of the store's     *)
(* own, ends the scan.                                                       *)
AdmittedOnce(listed, complete) == complete /\ listed \cap buckets = {}

Admit(listed, complete) ==
  /\ partial' = (partial \/ ~AdmittedOnce(listed, complete))
  /\ buckets' = buckets \cup listed
  /\ store' = store + 1
  /\ Goes("retention")

ScanStore ==
  /\ stage = "retention" /\ store <= S
  /\ \/ /\ Returns("cancelled") /\ UNCHANGED << store, partial, buckets >>
        /\ culprits' = IF caller = "none" THEN culprits \cup {0} ELSE culprits
     \/ /\ caller = "none" /\ UNCHANGED culprits
        /\ \/ \E listed \in SUBSET stored[store] : Admit(listed, listed = stored[store])
           \/ Admit({}, FALSE)
  /\ UNCHANGED << stored, caller, scanErr, goroutines, closed, spawned, gate, late >>
  /\ UNCHANGED << results, held, cancelErr, rows, failed, owners >>

ReturnInventory ==
  /\ stage = "retention" /\ store > S
  /\ IF caller # "none" THEN Returns("cancelled")
     ELSE Returns(IF failed = {} THEN "complete" ELSE "partial")
  /\ ByCollector
  /\ UNCHANGED << results, held, cancelErr, rows, failed, owners, store, partial, buckets >>

Collector ==
  \/ Enter \/ Spawn \/ OpenGate
  \/ Receive \/ Observe \/ Conclude
  \/ RequireOwnership \/ Exclude \/ ScanStore \/ ReturnInventory

ScanEnded == stage = "done" /\ UNCHANGED scanVars

ScanNext ==
  \/ EndCaller \/ Propagate
  \/ \E p \in Providers : Provider(p)
  \/ Close \/ Collector \/ ScanEnded

ScanSpec == ScanInit /\ [][ScanNext]_scanVars

(* Goroutines are scheduled fairly, and a provider's scan ends: its walk of  *)
(* the filesystem is finite and looks at its context.                        *)
FairSpec ==
  /\ ScanSpec
  /\ \A p \in Providers : WF_scanVars(Provider(p))
  /\ WF_scanVars(Close) /\ WF_scanVars(Collector)

-----------------------------------------------------------------------------
ScanTypeOK ==
  /\ stored \in Layouts
  /\ caller \in MaybeError /\ scanErr \in MaybeError /\ cancelErr \in MaybeError
  /\ at \in [Providers -> {"unborn", "gate", "queue", "scan", "cancel", "send", "release",
                           "abort", "done"}]
  /\ verdict \in [Providers -> {"open"} \cup Verdicts]
  /\ results \in Seq(Providers) /\ closed \in BOOLEAN
  /\ stage \in {"enter", "spawn", "collect", "observe", "owners", "exclude", "retention", "done"}
  /\ spawned \in 0 .. N /\ gate \in BOOLEAN
  /\ held \in 0 .. N
  /\ rows \subseteq Rows /\ failed \subseteq Providers
  /\ owners \in {"unread", "read", "unreadable"}
  /\ store \in 1 .. S + 1 /\ partial \in BOOLEAN /\ buckets \subseteq Keys
  /\ outcome \in {"none", "rejected", "cancelled", "partial", "complete"}
  /\ late \subseteq Providers /\ culprits \subseteq {0} \cup Providers

HasInventory == outcome \in {"partial", "complete"}

(* A scan keeps what it promises: it reports once, after every provider has  *)
(* ended and none is left running, and a cancellation leaves no usable       *)
(* partial result (docs/SPEC.md:753, scanner/scanner_aggregate.go:73-76).    *)
Fate(p) ==
  CASE verdict[p] = "open" -> "open"
    [] verdict[p] = "ok" -> "listed"
    [] verdict[p] = "error" -> "failed"
    [] verdict[p] \in ContextErrors -> "aborted"

Promise == INSTANCE ScanPromise WITH fate <- [p \in Providers |-> Fate(p)]

KeepsPromise == Promise!Spec

(* Whatever the order of arrival, an inventory lists what the successful     *)
(* providers found, less what is excluded or has no proven owner, and names  *)
(* every provider that failed (scanner/scanner_aggregate.go:34-110).         *)
InventoryExact ==
  HasInventory =>
    /\ failed = {p \in Providers : verdict[p] = "error"}
    /\ rows = {r \in UNION {Found[p] : p \in {q \in Providers : verdict[q] = "ok"}} :
                 ~r.excluded /\ (r.temp => r.owned /\ owners = "read")}

(* No inventory holds rows of a provider that was told to stop while it was  *)
(* scanning, whether or not it said so (scanner/scanner_dispatch.go:59-61).  *)
NothingCutShort == HasInventory => late = {}

(* A retention projection that does not call itself partial lists every      *)
(* bucket of every store, each once (scanner/scanner_helpers.go:51-98).      *)
RetentionHonest ==
  HasInventory /\ ~partial =>
    /\ buckets = UNION {stored[s] : s \in Stores}
    /\ \A r, s \in Stores : r # s => stored[r] \cap stored[s] = {}

(* A scan is cancelled only if its caller was, or a provider or a retention  *)
(* store reported a context error of its own: their other failures end no    *)
(* scan (docs/SPEC.md:748-753, scanner/scanner_helpers.go:62-71).            *)
CancelledForCause == outcome = "cancelled" => caller # "none" \/ culprits # {}

(* The scan returns: every provider gets a slot or gives up, and the         *)
(* collector is not left waiting.                                            *)
ScanReturns == <>(stage = "done")
=============================================================================
