---------------------------- MODULE SessionIndex ----------------------------
(***************************************************************************)
(* The index of Codex session activity (internal/codexactivity): a load    *)
(* walks the session stores of every home, reuses what a cache file        *)
(* recorded of unchanged files, saves the cache for the next load and      *)
(* answers when a worktree was last used. An answer of "never" lets a      *)
(* worktree be removed; no answer keeps it.                                *)
(*                                                                         *)
(* Meanwhile sessions start, write and are archived, stores lose their     *)
(* permissions or are replaced by links, and time passes. Loads follow one *)
(* another: a load reads the cache file once, so that all another command  *)
(* does to it at the same time is to leave it between emptied and written. *)
(*                                                                         *)
(* A place is <<home, store, name>>; a session file maps it to [cwd,       *)
(* whole, log, since]: where the session runs, whether its first line is   *)
(* complete, when it was written to, and since when it lies at this place. *)
(* Its modification time is the last write, its size the number of writes; *)
(* no session starts after the last write.                                 *)
(***************************************************************************)
EXTENDS Integers, Sequences, FiniteSets, FiniteSetsExt, Functions

CONSTANTS Homes,        \* Codex homes
          Default,      \* the home that nobody configured, or none of Homes
          Orca,         \* Orca's home, or none of Homes
          Names,        \* names of session files
          Cwds,         \* where sessions run: [root, id, project]
          MaxLoads,     \* bound: loads, one after the other
          Window,       \* Freshness: how long the cache alone may answer
          MaxTime,      \* bound: when the clock stops
          MaxChanges,   \* bound: on what happens to sessions and stores
          InitialStores, InitialFiles, InitialCaches

ASSUME IndexAssumption ==
  /\ \A bound \in {MaxLoads, Window, MaxTime, MaxChanges} : bound \in Nat
  /\ IsFiniteSet(Homes) /\ IsFiniteSet(Names)

VARIABLES
  clock,
  store,     \* by home and store: "dir", "denied", "astray" (a link that leaves
             \* the home) or "none"
  files,     \* the session files, by place
  cache,     \* the cache file: NoCache, Torn or a cache
  changes,   \* how much has happened to sessions and stores
  loads,     \* how many loads there were
  load       \* the load: where it is and what it knows

world == <<store, files, changes>>
vars == <<clock, world, cache, loads, load>>

-----------------------------------------------------------------------------
\* f, and g where f is not defined.
Over(f, g) == [x \in DOMAIN f \cup DOMAIN g |-> IF x \in DOMAIN f THEN f[x] ELSE g[x]]

With(f, x, value) == Over([y \in {x} |-> value], f)

-----------------------------------------------------------------------------
(* The stores. canonicalRoots sorts the archive before the live sessions.  *)

Stores == <<"archived", "sessions">>

\* What Read makes nothing of: no file, and a file that is not a cache.
NoCache == [created |-> -1, torn |-> FALSE]
Torn == [created |-> -1, torn |-> TRUE]

IsCache(c) == c.created >= 0

Places == Homes \X Range(Stores) \X Names

\* WorktreeFromCWD: a session counts in the home it belongs to, and one in an
\* Orca workspace in every home.
NoCwd == [root |-> "none", id |-> "none", project |-> "none"]

WorktreeFromCWD(cwd, home) == IF cwd.root \in {"orca", home} THEN cwd ELSE NoCwd

\* A name stands for one session of its home. A cache that no load of the model
\* wrote is one that the clock was set back behind; what it recorded of a
\* session's directory is so.
ASSUME WorldAssumption ==
  /\ InitialStores \subseteq
       [Homes -> [{"archived", "sessions"} -> {"dir", "denied", "astray", "none"}]]
  /\ \A f \in InitialFiles :
       /\ f \in [DOMAIN f -> [cwd : Cwds, whole : BOOLEAN, log : SUBSET Int, since : Int]]
       /\ DOMAIN f \subseteq Places
       /\ \A p \in DOMAIN f : IsFiniteSet(f[p].log) /\ f[p].log # {}
       /\ \A p, q \in DOMAIN f : p[1] = q[1] /\ p[3] = q[3] => p = q
  /\ \A c \in InitialCaches : c \in {NoCache, Torn} \/
       /\ c.created \in Int /\ c.created > MaxTime
       /\ DOMAIN c.records \subseteq Places
       /\ \A f \in InitialFiles, p \in DOMAIN c.records :
            /\ c.records[p].stat.mod \in Int
            /\ \E q \in DOMAIN f : /\ q[1] = p[1] /\ q[3] = p[3]
                                  /\ c.records[p].cwd = WorktreeFromCWD(f[q].cwd, p[1])

OrcaPresent == Orca \in Homes /\ store[Orca]["sessions"] \in {"dir", "denied"}

\* Orca's home counts when it is laid out as Orca lays it out.
CurrentHomes == IF OrcaPresent THEN Homes ELSE Homes \ {Orca}

\* The roots that lie in their home: a link that leaves it is another home's.
Roots == {r \in CurrentHomes \X Range(Stores) : store[r[1]][r[2]] # "astray"}

StoresOf(home, roots) == {r[2] : r \in {x \in roots : x[1] = home}}

HomeStoresAvailable(home) ==
  store[home]["sessions"] = "dir" /\ store[home]["archived"] \in {"dir", "none"}

DefaultHomeAbsent(home) ==
  home = Default /\ \A s \in Range(Stores) : store[home][s] = "none"

Listed(home, s) == {p \in DOMAIN files : p[1] = home /\ p[2] = s}

LastWrite(log) == Max(log)

Stat(p) == [mod |-> LastWrite(files[p].log), size |-> Cardinality(files[p].log)]

-----------------------------------------------------------------------------
NoCoverage == [roots |-> {}, available |-> FALSE, active |-> FALSE, absent |-> FALSE]
NoSources == [h \in Homes |-> NoCoverage]
NoAnswer == [subject |-> NoCwd, latest |-> -1]

Fresh == [pc |-> "idle", requires |-> FALSE, now |-> 0, roots |-> {}, previous |-> NoCache, todo |-> {},
          home |-> "none", root |-> 1, names |-> {}, found |-> <<>>, gathered |-> <<>>,
          sources |-> NoSources, records |-> <<>>, wrote |-> FALSE, answer |-> NoAnswer]

Init ==
  /\ clock = 0 /\ changes = 0
  /\ store \in InitialStores /\ files \in InitialFiles /\ cache \in InitialCaches
  /\ \A p \in DOMAIN files : store[p[1]][p[2]] \in {"dir", "denied"}
  /\ loads = 0 /\ load = Fresh

-----------------------------------------------------------------------------
(* LoadWithOptions: the time of an index is taken before anything is read. *)

At(pc) == load.pc = pc

Begin ==
  /\ At("idle") /\ loads < MaxLoads /\ loads' = loads + 1
  /\ \E requires \in BOOLEAN :
       load' = [Fresh EXCEPT !.pc = "read", !.requires = requires, !.now = clock,
                  !.roots = Roots]
  /\ UNCHANGED <<clock, world, cache>>

\* mutant: a cache from the future is fresh
FreshWithoutFloor(c) == ~load.requires /\ load.now - c.created <= Window

\* The shortcut: a cache younger than Freshness answers without a walk, but
\* never for a deletion, and never one that a later clock wrote.
FreshEnough(c) ==
  /\ ~load.requires
  /\ load.now - c.created \in 0 .. Window

ReadCache ==
  /\ At("read")
  /\ LET usable == IsCache(cache) /\ cache.roots = load.roots IN
     IF usable /\ FreshEnough(cache)
     THEN load' = [load EXCEPT !.pc = "ask", !.roots = {},
                     !.sources = cache.sources, !.records = cache.records]
     ELSE load' = [load EXCEPT !.pc = "home",
                     !.previous = IF usable THEN cache ELSE NoCache,
                     !.todo = {r[1] : r \in load.roots}]
  /\ UNCHANGED <<clock, world, cache, loads>>

-----------------------------------------------------------------------------
(* Refresh: home after home, in any order.                                 *)

StartHome ==
  /\ At("home")
  /\ \E h \in load.todo :
       load' = [load EXCEPT !.pc = "list", !.home = h, !.todo = @ \ {h},
                  !.root = 1, !.found = <<>>, !.gathered = <<>>]
  /\ UNCHANGED <<clock, world, cache, loads>>

\* A home that could not be walked, or one of whose files could not be read.
Coverage(h, available) ==
  LET own == StoresOf(h, load.roots) IN
  [roots     |-> own,
   available |-> available /\ (\E s \in own : store[h][s] \in {"dir", "denied"})
                           /\ HomeStoresAvailable(h),
   active    |-> available /\ "sessions" \in own /\ store[h]["sessions"] \in {"dir", "denied"},
   absent    |-> DOMAIN load.gathered = {} /\ DefaultHomeAbsent(h)]

\* mutant: what was read of a home before a failure is all there is of it
LeaveHomeAvailable(available) ==
  LET h == load.home
      coverage == Coverage(h, TRUE)
  IN  load' = [load EXCEPT !.pc = "home", !.home = "none", !.root = 1,
                 !.names = {}, !.found = <<>>, !.gathered = <<>>,
                 !.sources[h] = coverage,
                 !.records = IF coverage.available THEN Over(load.gathered, @) ELSE @]

\* A home that is not available contributes none of its records.
LeaveHome(available) ==
  LET h == load.home
      coverage == Coverage(h, available)
  IN  load' = [load EXCEPT !.pc = "home", !.home = "none", !.root = 1,
                 !.names = {}, !.found = <<>>, !.gathered = <<>>,
                 !.sources[h] = coverage,
                 !.records = IF coverage.available THEN Over(load.gathered, @) ELSE @]

\* findSessionFiles: one root of the home after the other. A root that is not
\* there is skipped, one that cannot be listed fails the home.
List ==
  /\ At("list")
  /\ LET h == load.home
         s == Stores[load.root]
         skip == s \notin StoresOf(h, load.roots) \/ store[h][s] = "none"
     IN  IF load.root > Len(Stores)
         THEN load' = [load EXCEPT !.pc = "file", !.names = DOMAIN load.found]
         ELSE IF skip THEN load' = [load EXCEPT !.root = @ + 1]
         ELSE IF store[h][s] = "denied" THEN LeaveHome(FALSE)
         ELSE load' = [load EXCEPT !.pc = "stat",
                         !.names = IF store[h][s] = "dir" THEN Listed(h, s) ELSE {}]
  /\ UNCHANGED <<clock, world, cache, loads>>

\* Each file of the listing is looked at; one that left meanwhile fails the home.
StatFiles ==
  /\ At("stat")
  /\ LET h == load.home
         s == Stores[load.root]
     IN  IF load.names \subseteq DOMAIN files /\ (store[h][s] = "dir" \/ load.names = {})
         THEN load' = [load EXCEPT !.pc = "list", !.root = @ + 1, !.names = {},
                         !.found = Over([p \in load.names |-> Stat(p)], @)]
         ELSE LeaveHome(FALSE)
  /\ UNCHANGED <<clock, world, cache, loads>>

\* The record of a file that has not changed since.
Reusable(p) ==
  /\ IsCache(load.previous) /\ p \in DOMAIN load.previous.records
  /\ load.previous.records[p].stat = load.found[p]

\* readSessionFileRecord and ReadFirstMetadataFrom: the first line has to be
\* complete; the modification time is the one of the walk.
Readable(p) ==
  p \in DOMAIN files /\ store[p[1]][p[2]] = "dir" /\ files[p].whole

ReadFile ==
  /\ At("file")
  /\ IF load.names = {} THEN LeaveHome(TRUE)
     ELSE LET p == CHOOSE q \in load.names : TRUE IN
          IF Reusable(p)
          THEN load' = [load EXCEPT !.names = @ \ {p},
                          !.gathered = With(@, p, load.previous.records[p])]
          ELSE IF Readable(p)
          THEN load' = [load EXCEPT !.names = @ \ {p},
                          !.gathered = With(@, p, [stat |-> load.found[p],
                                 cwd |-> WorktreeFromCWD(files[p].cwd, p[1])])]
          ELSE LeaveHome(FALSE)
  /\ UNCHANGED <<clock, world, cache, loads>>

EndRefresh ==
  /\ At("home") /\ load.todo = {}
  /\ load' = [load EXCEPT !.pc = "save", !.previous = NoCache]
  /\ UNCHANGED <<clock, world, cache, loads>>

-----------------------------------------------------------------------------
(* Save: os.WriteFile empties the file and then writes it. Its failure is  *)
(* ignored.                                                                *)

Refreshed ==
  [created |-> load.now, torn |-> FALSE, roots |-> load.roots,
   sources |-> load.sources, records |-> load.records]

Ask == load' = [load EXCEPT !.pc = "ask", !.roots = {}, !.wrote = FALSE]

OpenCache ==
  /\ At("save") /\ ~load.wrote
  /\ \/ cache' = Torn /\ load' = [load EXCEPT !.wrote = TRUE]
     \/ UNCHANGED cache /\ Ask
  /\ UNCHANGED <<clock, world, loads>>

\* When another load wrote the file since it was emptied, what is longer shows
\* behind what is shorter.
WriteCache ==
  /\ At("save") /\ load.wrote
  /\ \/ cache' = Refreshed
     \/ cache # Torn /\ cache' = Torn
     \/ UNCHANGED cache
  /\ Ask
  /\ UNCHANGED <<clock, world, loads>>

-----------------------------------------------------------------------------
(* LookupMember.                                                           *)

Latest(records) == Max({-1} \cup {r.stat.mod : r \in Range(records)})

\* Sessions of the very member, else those of the worktree that holds it.
MemberActivity(records, home, subject) ==
  LET worktree == Restrict(records, {p \in DOMAIN records :
                    p[1] = home /\ records[p].cwd.id = subject.id})
      member == Restrict(worktree, {p \in DOMAIN worktree :
                  worktree[p].cwd.project = subject.project})
  IN  Latest(IF DOMAIN member = {} THEN worktree ELSE member)

\* The home vouches for what it does not list: its live sessions were walked,
\* its stores can still be listed, and nothing leads out of it.
HomeAvailable(sources, home, all) ==
  LET coverage == sources[home] IN
  IF all /\ coverage.absent THEN DefaultHomeAbsent(home)
  ELSE /\ coverage.available /\ coverage.active /\ coverage.roots # {}
       /\ HomeStoresAvailable(home)
       /\ all => coverage.roots = Range(Stores)

Covered == \E h \in Homes : load.sources[h].available

\* A worktree of a home asks that home; an Orca workspace asks all of them.
Vouched(subject) ==
  /\ Covered
  /\ IF subject.root = "orca"
     THEN /\ OrcaPresent /\ load.sources[Orca].available
          /\ \A h \in CurrentHomes : HomeAvailable(load.sources, h, TRUE)
     ELSE /\ subject.root \in {h \in Homes : load.sources[h].roots # {}}
          /\ HomeAvailable(load.sources, subject.root, FALSE)

AnswerTo(subject) ==
  LET asked == IF subject.root = "orca"
               THEN {h \in CurrentHomes : ~load.sources[h].absent} ELSE {subject.root}
  IN  Max({-1} \cup {MemberActivity(load.records, h, subject) : h \in asked})

Lookup ==
  /\ At("ask")
  /\ \E subject \in Cwds :
       load' = [Fresh EXCEPT !.requires = load.requires, !.now = load.now,
                  !.answer = IF Vouched(subject)
                             THEN [subject |-> subject, latest |-> AnswerTo(subject)]
                             ELSE NoAnswer]
  /\ UNCHANGED <<clock, world, cache, loads>>

\* The context is cancelled, or the program dies: also between the two steps
\* of Save.
Stop ==
  /\ load.pc # "idle"
  /\ load' = Fresh
  /\ UNCHANGED <<clock, world, cache, loads>>

Step ==
  \/ Begin \/ ReadCache \/ StartHome \/ List \/ StatFiles \/ ReadFile
  \/ EndRefresh \/ OpenCache \/ WriteCache \/ Lookup \/ Stop

-----------------------------------------------------------------------------
(* Sessions, stores and time.                                              *)

Tick ==
  /\ clock < MaxTime /\ clock' = clock + 1
  /\ UNCHANGED <<world, cache, loads, load>>

Change ==
  /\ changes < MaxChanges /\ changes' = changes + 1
  /\ UNCHANGED <<clock, loads, load>>

\* A session starts; its first line may take a while to be complete.
Start(h, n) ==
  /\ Change
  /\ store[h]["sessions"] = "dir"
  /\ \A s \in Range(Stores) : <<h, s, n>> \notin DOMAIN files
  /\ \E cwd \in Cwds : \E whole \in BOOLEAN :
       files' = With(files, <<h, "sessions", n>>,
                     [cwd |-> cwd, whole |-> whole, log |-> {clock}, since |-> clock])
  /\ UNCHANGED <<store, cache>>

Write(p) ==
  /\ Change
  /\ p \in DOMAIN files /\ clock \notin files[p].log
  /\ files' = [files EXCEPT ![p].log = @ \cup {clock}, ![p].whole = TRUE]
  /\ UNCHANGED <<store, cache>>

\* A session is archived, or taken up again.
Move(p) ==
  /\ Change
  /\ p \in DOMAIN files
  /\ \E s \in Range(Stores) \ {p[2]} :
       /\ store[p[1]][s] = "dir" /\ store[p[1]][p[2]] = "dir"
       /\ files' = With(Restrict(files, DOMAIN files \ {p}), <<p[1], s, p[3]>>,
                        [files[p] EXCEPT !.since = clock])
  /\ UNCHANGED <<store, cache>>

\* A store loses its permissions or gets them back, is made, or is replaced by
\* a link that leads elsewhere, to where its files went; and the link by a
\* directory with the files.
Replace(h, s, kind) ==
  /\ Change
  /\ <<store[h][s], kind>> \in {<<"dir", "denied">>, <<"denied", "dir">>, <<"none", "dir">>,
                                <<"dir", "astray">>, <<"astray", "dir">>}
  /\ store' = [store EXCEPT ![h][s] = kind]
  /\ files' = IF "astray" \in {store[h][s], kind}
              THEN [p \in DOMAIN files |-> IF p \in Listed(h, s)
                      THEN [files[p] EXCEPT !.since = clock] ELSE files[p]]
              ELSE files
  /\ UNCHANGED cache

\* Another command has emptied the cache file and not yet written it.
OtherSave == Change /\ cache # Torn /\ cache' = Torn /\ UNCHANGED <<store, files>>

World ==
  \/ \E h \in Homes, n \in Names : Start(h, n)
  \/ \E h \in Homes, s \in Range(Stores), n \in Names : Write(<<h, s, n>>) \/ Move(<<h, s, n>>)
  \/ \E h \in Homes, s \in Range(Stores), kind \in {"dir", "denied", "astray"} :
       Replace(h, s, kind)
  \/ OtherSave

Next == Tick \/ World \/ Step

Spec == Init /\ [][Next]_vars

-----------------------------------------------------------------------------
(* Properties.                                                             *)

\* Sessions of a subject, at a place a lookup of it depends on.
Concerns(subject, p) ==
  /\ files[p].cwd = subject
  /\ subject.root = "orca" => OrcaPresent /\ p[1] \in CurrentHomes
  /\ subject.root # "orca" => p[1] = subject.root

Reflected(horizon) ==
  LET answer == load.answer IN
  answer # NoAnswer =>
    \A p \in DOMAIN files :
      Concerns(answer.subject, p) /\ files[p].since < horizon =>
        \A t \in files[p].log : t < horizon => answer.latest >= t

\* Whatever answers - the cache alone, one that another load was writing, one
\* that the clock overtook, or a walk during which stores came and went - an
\* answer reflects all that was written, up to Freshness before the load, to
\* sessions that stayed where they are.
StalenessBounded == Reflected(load.now - Window)

\* An answer that a deletion relies on reflects it up to the start of the load.
DeletionsSeeAll == load.requires => Reflected(load.now)

-----------------------------------------------------------------------------
(* What a comment says and the code does not keep.                         *)

\* sources.go: an available zero timestamp means that no matching session was
\* found. A session that is archived while the stores are walked is in neither.
NothingSlipsThrough ==
  load.requires /\ load.answer # NoAnswer =>
      \A p \in DOMAIN files : Concerns(load.answer.subject, p) =>
        \A t \in files[p].log : t < load.now => load.answer.latest >= t
=============================================================================
