------------------------------- MODULE ScanCache -------------------------------
(****************************************************************************)
(* The last-scan snapshot on disk, shared by all runs of the program:        *)
(*                                                                           *)
(*   scancache.writeLastScanCacheForSelector   evidence, refusal, save       *)
(*   scancache.inspectLastScanCache            freshness, identity, evidence *)
(*   scancache.claimLastScanSelector           the snapshot for one route    *)
(*   cmd.lastScanSession.load                  reuse, or scan and save       *)
(*                                                                           *)
(* Processes run a scan or a clean each, at the same time, and may be killed *)
(* anywhere.  They take no lock: what they have in common is one file, which *)
(* is replaced or removed as a whole.  Of the scan itself only what it reads *)
(* and how it ends appear here; ScanDispatch has the rest.                   *)
(****************************************************************************)
EXTENDS Naturals, FiniteSets

CONSTANTS Procs,       \* runs of the program
          Requests,    \* what the runs may be asked for
          Targets,     \* paths a scan may list
          Worktrees,   \* those that are worktrees
          MaxAge,      \* age at which a snapshot is too old
          MaxClock,    \* bound on the clock
          MaxObjects,  \* bound on the objects that stand at a path, one by one
          MaxEvents    \* bound on the changes the world makes

(* "scan" writes for any selector; "strip" and "delete" are routes of clean. *)
Selectors == {"scan", "strip", "delete"}

(* The key is what has to be equal for reuse: roots, the flag that they were *)
(* given, revision, and provider identities.                                 *)
Request == [selector : Selectors, key : {"ours", "other"}, excludes : BOOLEAN]

Object == 0 .. MaxObjects  \* 0: there is none

ASSUME CacheAssumption ==
  /\ Requests \subseteq [Procs -> Request]
  /\ Worktrees \subseteq Targets
  /\ IsFiniteSet(Targets)
  /\ {MaxAge, MaxClock, MaxEvents} \subseteq Nat /\ MaxObjects \in Nat \ {0}

Document == [selector : Selectors, key : {"ours", "other"}, created : 0 .. MaxClock,
             partial : BOOLEAN, excluded : BOOLEAN,
             rows : [Targets -> Object], evidence : [Targets -> Object]]

Nothing == [none |-> TRUE]
Readable(f) == f # Nothing

-----------------------------------------------------------------------------
VARIABLES
  request,   \* of each process; never changes
  (* the world *)
  object,    \* the object that stands at each path, counted from one
  born,      \* how many have stood there so far
  clock,     \* the wall clock, which may be set
  file,      \* the snapshot on disk
  events,    \* changes made by the world so far
  (* the processes *)
  pc,        \* where each is
  doc,       \* the document it validates, uses or makes
  draft,     \* the document it is about to save
  left,      \* targets it has yet to read, validate or capture
  reused,    \* its document came from disk
  (* history, read by properties only *)
  issued,    \* documents as first saved, by each process
  seen,      \* objects that stood at each path since it began to reuse
  removed    \* removals by the program: row and object

world == << object, born, clock, events >>
history == << issued, seen, removed >>
vars == << request, world, file, pc, doc, draft, left, reused, history >>

NoRows == [t \in Targets |-> 0]

Blank(r) == [selector |-> r.selector, key |-> r.key, created |-> 0, partial |-> FALSE,
             excluded |-> r.excludes, rows |-> NoRows, evidence |-> NoRows]

Init ==
  /\ request \in Requests
  /\ object = [t \in Targets |-> 1] /\ born = [t \in Targets |-> 1]
  /\ clock = 0 /\ events = 0
  /\ file = Nothing
  /\ pc = [p \in Procs |-> "start"]
  /\ doc = [p \in Procs |-> Blank(request[p])]
  /\ draft = doc
  /\ left = [p \in Procs |-> {}]
  /\ reused = [p \in Procs |-> FALSE]
  /\ issued = [p \in Procs |-> Nothing]
  /\ seen = [p \in Procs |-> [t \in Targets |-> {}]]
  /\ removed = {}

-----------------------------------------------------------------------------
(* The world: other programs, the user, and the clock.                       *)

Change ==
  /\ events < MaxEvents /\ \E p \in Procs : pc[p] # "ended"
  /\ events' = events + 1
  /\ UNCHANGED << request, file, pc, doc, draft, left, reused, issued, removed >>

(* Something else takes the place of a target, or nothing does.              *)
Exchange(t) ==
  /\ Change
  /\ \/ born[t] < MaxObjects /\ born' = [born EXCEPT ![t] = @ + 1]
                             /\ object' = [object EXCEPT ![t] = born'[t]]
     \/ object[t] # 0 /\ object' = [object EXCEPT ![t] = 0] /\ UNCHANGED born
  /\ seen' = [p \in Procs |->
                IF reused[p] THEN [seen[p] EXCEPT ![t] = @ \cup {object'[t]}] ELSE seen[p]]
  /\ UNCHANGED clock

SetClock ==
  /\ Change
  /\ \E c \in 0 .. MaxClock : c # clock /\ clock' = c
  /\ UNCHANGED << object, born, seen >>

(* What a process knows goes with it.                                        *)
Ends(p) ==
  /\ pc' = [pc EXCEPT ![p] = "ended"]
  /\ doc' = [doc EXCEPT ![p] = Blank(request[p])]
  /\ draft' = [draft EXCEPT ![p] = Blank(request[p])]
  /\ left' = [left EXCEPT ![p] = {}]
  /\ reused' = [reused EXCEPT ![p] = FALSE]
  /\ seen' = [seen EXCEPT ![p] = [t \in Targets |-> {}]]

(* A process is killed or cancelled, or its user asks for nothing.  What it  *)
(* has begun to write beside the snapshot is left there.                     *)
Stop(p) ==
  /\ pc[p] \notin {"start", "ended"}
  /\ Ends(p)
  /\ UNCHANGED << request, world, file, issued, removed >>

-----------------------------------------------------------------------------
GoTo(p, place) == pc' = [pc EXCEPT ![p] = place]

Local == UNCHANGED << request, world, issued, removed >>

Forgets(p) == draft' = [draft EXCEPT ![p] = Blank(request[p])]

Keeps == UNCHANGED << doc, left, reused, seen >>

Unsaved == UNCHANGED << file, draft >>

IsClean(p) == request[p].selector # "scan"

(* A live scan begins with nothing read.                                     *)
ScanAgain(p) ==
  /\ GoTo(p, "scan")
  /\ doc' = [doc EXCEPT ![p] = Blank(request[p])]
  /\ left' = [left EXCEPT ![p] = Targets]
  /\ reused' = [reused EXCEPT ![p] = FALSE]
  /\ seen' = [seen EXCEPT ![p] = [t \in Targets |-> {}]]

Start(p) ==
  /\ pc[p] = "start"
  /\ IF IsClean(p) /\ ~request[p].excludes
     THEN GoTo(p, "inspect") /\ Keeps
     ELSE ScanAgain(p)
  /\ Unsaved /\ Local

-----------------------------------------------------------------------------
(* Reuse: inspect, validate the evidence, claim.                             *)

Fresh(d) == d.created <= clock /\ clock - d.created <= MaxAge

Reusable(p, d) ==
  /\ Fresh(d) /\ ~d.partial /\ ~d.excluded
  /\ d.key = request[p].key
  /\ d.selector \in {"scan", request[p].selector}

Inspect(p) ==
  /\ pc[p] = "inspect"
  /\ IF Readable(file) /\ Reusable(p, file)
     THEN /\ GoTo(p, "validate")
          /\ doc' = [doc EXCEPT ![p] = file]
          /\ left' = [left EXCEPT ![p] = {t \in Targets : file.rows[t] # 0}]
          /\ reused' = [reused EXCEPT ![p] = TRUE]
          /\ seen' = [seen EXCEPT ![p] = [t \in Targets |-> {object[t]}]]
     ELSE ScanAgain(p)
  /\ Unsaved /\ Local

\* mutant: whatever has the path is the target
EvidenceHoldsIfThere(p, t) == object[t] # 0

EvidenceHolds(p, t) == object[t] = doc[p].evidence[t]

Validate(p) ==
  /\ pc[p] = "validate"
  /\ \E t \in left[p] :
       IF EvidenceHolds(p, t)
       THEN /\ left' = [left EXCEPT ![p] = @ \ {t}]
            /\ UNCHANGED << pc, doc, reused, seen >>
       ELSE ScanAgain(p)
  /\ Unsaved /\ Local

\* mutant: a claim makes the document young again
ClaimedAnew(p, d) == [d EXCEPT !.selector = request[p].selector, !.created = clock]

(* A claim is the document, as it is on disk now, with the route's selector. *)
ClaimedAsIs(p, d) == [d EXCEPT !.selector = request[p].selector]

Claimed(p, d) == ClaimedAsIs(p, d)

Held(p) == Readable(file) /\ file.selector = request[p].selector

Claim(p) ==
  /\ pc[p] = "validate" /\ left[p] = {}
  /\ IF Held(p) THEN GoTo(p, "use") /\ Keeps /\ UNCHANGED draft
     ELSE IF Readable(file) /\ file.selector = "scan"
     THEN /\ GoTo(p, "open") /\ Keeps
          /\ draft' = [draft EXCEPT ![p] = Claimed(p, file)]
     ELSE ScanAgain(p) /\ UNCHANGED draft
  /\ UNCHANGED file /\ Local

CheckHeld(p) ==
  /\ pc[p] = "held"
  /\ IF Held(p) THEN GoTo(p, "use") /\ Keeps ELSE ScanAgain(p)
  /\ Unsaved /\ Local

-----------------------------------------------------------------------------
(* saveLastScanCache: a file of its own name, then renamed over the snapshot.*)

OpenDraft(p) ==
  /\ pc[p] = "open"
  /\ GoTo(p, "rename")
  /\ Keeps /\ Unsaved /\ Local

Rename(p) ==
  /\ pc[p] = "rename"
  /\ file' = draft[p]
  /\ issued' = IF reused[p] THEN issued ELSE [issued EXCEPT ![p] = draft[p]]
  /\ IF reused[p] THEN GoTo(p, "held") /\ Keeps /\ Forgets(p)
     ELSE IF IsClean(p) THEN GoTo(p, "use") /\ Keeps /\ Forgets(p)
     ELSE Ends(p)
  /\ UNCHANGED << request, world, removed >>

(* Nothing could be saved: a claim has failed; a scan does not mind.         *)
FailSave(p) ==
  /\ pc[p] \in {"open", "rename"}
  /\ IF reused[p] THEN ScanAgain(p) /\ Forgets(p)
     ELSE IF IsClean(p) THEN GoTo(p, "use") /\ Keeps /\ Forgets(p)
     ELSE Ends(p)
  /\ UNCHANGED file /\ Local

-----------------------------------------------------------------------------
(* A live scan reads its targets one by one.                                 *)

ScanTarget(p) ==
  /\ pc[p] = "scan"
  /\ \E t \in left[p] :
       /\ doc' = [doc EXCEPT ![p].rows[t] = object[t]]
       /\ left' = [left EXCEPT ![p] = @ \ {t}]
  /\ UNCHANGED << pc, reused, seen >> /\ Unsaved /\ Local

(* A cancelled scan has no result.  A partial one is refused by clean, while *)
(* scan hands it on to be written.                                           *)
Refused(d) == d.partial

EndScan(p) ==
  /\ pc[p] = "scan" /\ left[p] = {}
  /\ \E how \in {"partial", "complete"} :
       /\ doc' = [doc EXCEPT ![p].partial = (how = "partial")]
       /\ IF how = "partial" /\ IsClean(p) THEN GoTo(p, "refused") /\ UNCHANGED left
          ELSE IF Refused(doc'[p]) THEN GoTo(p, "drop") /\ UNCHANGED left
          ELSE /\ GoTo(p, "capture")
               /\ left' = [left EXCEPT ![p] = {t \in Targets : doc[p].rows[t] # 0}]
  /\ UNCHANGED << reused, seen >> /\ Unsaved /\ Local

\* mutant: whatever is there now is what was scanned
CapturableIfThere(p, t) == object[t] # 0

(* captureLastScanTargetEvidence.  What is not a worktree must not have been *)
(* touched since the scan read it; a worktree's own mtime means nothing. The *)
(* code tells objects apart by mtime: those that take each other's place at  *)
(* a path are taken to differ in it.                                         *)
Capturable(p, t) ==
  object[t] # 0 /\ (t \notin Worktrees => object[t] = doc[p].rows[t])

Capture(p) ==
  /\ pc[p] = "capture"
  /\ \E t \in left[p] :
       /\ left' = [left EXCEPT ![p] = @ \ {t}]
       /\ \/ Capturable(p, t) /\ doc' = [doc EXCEPT ![p].evidence[t] = object[t]]
          \/ (Capturable(p, t) => t \notin Worktrees) /\ UNCHANGED doc
  /\ UNCHANGED << pc, reused, seen >> /\ Unsaved /\ Local

Stamp == clock

EndCapture(p) ==
  /\ pc[p] = "capture" /\ left[p] = {}
  /\ IF \A t \in Targets : doc[p].rows[t] # 0 => doc[p].evidence[t] # 0
     THEN /\ GoTo(p, "open")
          /\ draft' = [draft EXCEPT ![p] = [doc[p] EXCEPT !.created = Stamp]]
     ELSE GoTo(p, "drop") /\ UNCHANGED draft
  /\ UNCHANGED file /\ Keeps /\ Local

(* invalidateLastScanCache: a snapshot that cannot be removed stays, and     *)
(* nobody is told.                                                           *)
Invalidated == file' \in {Nothing, file}

(* A partial or uncapturable scan invalidates instead of saving.             *)
Drop(p) ==
  /\ pc[p] = "drop"
  /\ Invalidated
  /\ IF IsClean(p) THEN GoTo(p, "use") /\ Keeps /\ UNCHANGED draft ELSE Ends(p)
  /\ Local

-----------------------------------------------------------------------------
(* What a clean does with its inventory: nothing (Stop), or a batch that     *)
(* removes a target whose scanned identity still stands there, or none.  The *)
(* snapshot goes with the batch.  A strip removes no target and no snapshot. *)

Remove(p) ==
  /\ pc[p] = "use" /\ request[p].selector = "delete"
  /\ \/ \E t \in Targets :
          /\ doc[p].evidence[t] # 0 /\ object[t] = doc[p].evidence[t]
          /\ object' = [object EXCEPT ![t] = 0]
          /\ seen' = [q \in Procs |->
                        IF reused[q] THEN [seen[q] EXCEPT ![t] = @ \cup {0}] ELSE seen[q]]
          /\ removed' = removed
               \cup {[target |-> t, row |-> doc[p].rows[t], was |-> object[t]]}
     \/ UNCHANGED << object, seen, removed >>
  /\ GoTo(p, "invalidate")
  /\ UNCHANGED << request, born, clock, events, doc, left, reused, issued >> /\ Unsaved

Invalidate(p) ==
  /\ pc[p] = "invalidate"
  /\ Invalidated
  /\ Ends(p) /\ Local

Process(p) ==
  \/ Start(p)
  \/ Inspect(p) \/ Validate(p) \/ Claim(p) \/ CheckHeld(p)
  \/ OpenDraft(p) \/ Rename(p) \/ FailSave(p)
  \/ ScanTarget(p) \/ EndScan(p) \/ Capture(p) \/ EndCapture(p) \/ Drop(p)
  \/ Remove(p) \/ Invalidate(p)

Stopped == (\A p \in Procs : pc[p] = "ended") /\ UNCHANGED vars

Next ==
  \/ \E t \in Targets : Exchange(t)
  \/ SetClock
  \/ \E p \in Procs : Process(p) \/ Stop(p)
  \/ Stopped

Spec == Init /\ [][Next]_vars

-----------------------------------------------------------------------------
TypeOK ==
  /\ request \in Requests
  /\ object \in [Targets -> Object] /\ born \in [Targets -> Object]
  /\ clock \in 0 .. MaxClock /\ events \in 0 .. MaxEvents
  /\ file \in Document \cup {Nothing}
  /\ pc \in [Procs -> {"start", "inspect", "validate", "held", "open", "rename", "scan", "refused",
                       "capture", "drop", "use", "invalidate", "ended"}]
  /\ doc \in [Procs -> Document] /\ draft \in [Procs -> Document]
  /\ left \in [Procs -> SUBSET Targets] /\ reused \in [Procs -> BOOLEAN]
  /\ issued \in [Procs -> Document \cup {Nothing}]
  /\ seen \in [Procs -> [Targets -> SUBSET Object]]
  /\ removed \subseteq [target : Targets, row : Object, was : Object]

(* What is on disk is what one complete scan saved, at the time it says, for *)
(* any route or for one; claims change nothing else about it                 *)
(* (docs/SPEC.md:752, scancache/cache.go:91-113, 285-291).                   *)
DocumentsGenuine ==
  file # Nothing =>
    /\ ~file.partial
    /\ \E p \in Procs : /\ issued[p] # Nothing
                        /\ file = [issued[p] EXCEPT !.selector = file.selector]
                        /\ issued[p].selector \in {"scan", file.selector}

(* A clean that reuses a snapshot uses no row whose object did not stand at  *)
(* its path while that clean was running (docs/SPEC.md:206-210).             *)
ReuseRevalidated ==
  \A p \in Procs : pc[p] = "use" /\ reused[p] =>
    \A t \in Targets : doc[p].rows[t] # 0 => doc[p].evidence[t] \in seen[p][t]

(* What is removed is the very object that the row was read from, through    *)
(* however many files and processes the row has come; for a worktree Git's   *)
(* evidence stands in for it (scancache/identity.go:36-52).                  *)
RemovesWhatWasScanned ==
  \A r \in removed : r.target \notin Worktrees => r.was = r.row

(* A partial scan invalidates the snapshot: whichever command it is for goes *)
(* on to remove it (docs/SECURITY_AUDIT.md:26).                              *)
PartialInvalidates ==
  [][\A p \in Procs :
       doc'[p].partial /\ ~doc[p].partial /\ Readable(file) =>
         pc'[p] = "drop" \/ ~Readable(file')]_vars
=============================================================================
