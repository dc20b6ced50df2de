-------------------------------- MODULE Strip --------------------------------
(***************************************************************************)
(* clean --strip: regenerable subtrees are removed from worktrees that     *)
(* stay (internal/worktree/strip.go, cmd/clean_strip.go and                *)
(* internal/adapter/worktree_strip.go), through the gate of DeletionGate,  *)
(* while others rename directories, put links in their place, add files    *)
(* and commit.                                                             *)
(*                                                                         *)
(* A directory that is renamed goes to the attic with all it holds and     *)
(* does not come back; what is put in its place is new. Git is asked about *)
(* a path, the removal goes through the unit's open directory: the model   *)
(* keeps the two apart.                                                    *)
(***************************************************************************)
EXTENDS Exclusion

CONSTANTS Rows,         \* worktree rows of the scan, by their order
          Positions,    \* where regenerable subtrees lie: [marker, kind, at]
          Initial,      \* [fs, request]: the file system as the scan met it, and
                        \* --root, --exclude, --protect-path: [roots, excludes, pins]
          Places,       \* where others put something else
          Leads,        \* where the links they put there lead
          Attics,       \* where renamed directories go, one after the other
          Cwds,         \* working directories the command may run in
          Ask           \* paths of which the gate is asked

VARIABLES
  fs,        \* the file system
  git,       \* by checkout, its directory's id: what Git would tell of it now
  visible,   \* ids of directories that hold something Git can see
  cwd,       \* the working directory, a set of at most one path
  targets,   \* the units of the plan that was confirmed
  pinned,    \* history: what the user asked to keep
  changes,   \* how often others have changed something
  cancelled, \* the command's context is done
  pc, unit, next,      \* the place in the program: step, unit, subtree
  root,      \* the open directory of the unit, by its id
  baseline,  \* baselines, by checkout
  mutated,   \* checkouts something was removed from
  checkout, authorized,\* of the subtree at hand: its checkout, and its id
  lines, error,        \* the outcome: by unit, of each subtree and of the unit
  shown,     \* history: what Git could see when it was asked of the subtree
  late,      \* history: something moved after the last look at the subtree
  moved,     \* history: checkouts whose HEAD moved between baseline and last look
  stripped   \* history: checkouts of this unit that a subtree was stripped from

world == <<fs, git, visible, changes, cancelled>>
given == <<cwd, targets, pinned>>
place == <<pc, unit, next>>
unitState == <<root, baseline, mutated>>
chosen == <<checkout, authorized>>
outcome == <<lines, error>>
history == <<shown, late, moved, stripped>>
vars == <<world, given, place, unitState, chosen, outcome, history>>

-----------------------------------------------------------------------------
(* What may be stripped: SelectStripTargets and applyProtectPathProtections. *)

Strippable(row) ==
  /\ row.status = "active" /\ row.subtrees # <<>>
  /\ row.verdict \in {"active_worktree", "age"}

\* TargetPathKey: where a path leads, or the path itself if that cannot be told.
PathKey(system, p) == IF Resolved(system, p) THEN Canonical(system, p) ELSE p

\* The rows of one owner are one unit: the first of them, with the subtrees of
\* the others that it does not have yet.
Units(system, rows) ==
  LET key(i)    == PathKey(system, rows[i].path)
      first     == SelectSeq([i \in DOMAIN rows |-> i], LAMBDA i :
                     /\ Strippable(rows[i])
                     /\ \A j \in 1 .. i - 1 : key(j) = key(i) => ~Strippable(rows[j]))
      others(i) == SelectSeq(SubSeq(rows, i + 1, Len(rows)), LAMBDA row :
                     Strippable(row) /\ PathKey(system, row.path) = key(i))
      merged(all, s) ==
        IF \E other \in Range(all) : PathKey(system, other) = PathKey(system, s)
        THEN all ELSE Append(all, s)
  IN  [n \in DOMAIN first |->
         [path |-> rows[first[n]].path, id |-> rows[first[n]].id,
          subtrees |-> FoldLeft(LAMBDA all, row : FoldLeft(merged, all, row.subtrees),
                                rows[first[n]].subtrees, others(first[n]))]]

HoldsOneOf(system, p, dirs) ==
  \E d \in dirs : Below(Canonical(system, d), Canonical(system, p))

\* StripUnitContainsCWD
Inhabited(system, u, here) ==
  \/ HoldsOneOf(system, u.path, here)
  \/ \E s \in Range(u.subtrees) : HoldsOneOf(system, s, here)

\* The rows a scan of the roots reports: applyUserExclusions hides the others.
Inventory(system, roots, excludes) ==
  SelectSeq(Rows, LAMBDA row :
    /\ \E top \in roots : Below(Evaluated(system, row.path), top)
    /\ ~Match(system, Scopes(system, roots, excludes), row.path))

Targets(system, request, here) ==
  LET roots == RootsOf(system, request.roots)
      pins  == Scopes(system, roots, request.pins)
  IN  IF \E named \in request.roots : ~RootAllowed(system, named) THEN <<>>
      ELSE SelectSeq(Units(system, Inventory(system, roots, request.excludes)), LAMBDA u :
             ~Inhabited(system, u, here) /\ ~ProtectMatch(system, pins, u.path))

\* The objects that the user asked to keep: each that an absolute path within
\* the roots names, and all it holds. asStored: where the path leads is spelled
\* as the file system stores it.
PinnedObjects(system, request) ==
  LET pins       == {p \in request.pins : p.form = "absolute" /\ Up \notin Range(p.segments)}
      all(pin)   == Last(pin.segments) = Star
      base(pin)  == Canonical(system, IF all(pin) THEN Front(pin.segments) ELSE pin.segments)
      named(pin) == IF ~all(pin) THEN {Found(base(pin))}
                    ELSE {q \in DOMAIN system : q # <<>> /\ Parent(q) = Found(base(pin))}
      kept(pin)  == {q \in DOMAIN system : \E k \in named(pin) :
                       Below(q, k) /\ \E top \in RootsOf(system, request.roots) : Below(k, top)}
  IN  UNION {{[id |-> system[q].id, asStored |-> base(pin) = Found(base(pin))] : q \in kept(pin)} :
               pin \in pins}

-----------------------------------------------------------------------------
Ids(system) == {system[p].id : p \in DOMAIN system}

\* What an id tells apart.
Distinct(system) ==
  /\ Ids(system) \subseteq Int /\ IsFiniteSet(Ids(system))
  /\ \A p, q \in DOMAIN system : system[p].id = system[q].id => p = q

\* The working directory; none stands for one outside of everything planned.
Here == {{}} \cup {{d} : d \in Cwds}

Planned == [path : Seq(Names), id : Int, subtrees : Seq(Seq(Names))]

ASSUME StripAssumption ==
  /\ \A case \in Initial :
       /\ FileSystem(case.fs) /\ Distinct(case.fs)
       /\ \A i \in DOMAIN Attics : Attics[i] \notin DOMAIN case.fs
       /\ \A here \in Here : Targets(case.fs, case.request, here) \in Seq(Planned)
  /\ \A to \in Leads : to \in Seq(Names) /\ Len(to) <= MaxLength
  /\ Attics \in Seq(Seq(Names \ {Up}))
  /\ \A i \in DOMAIN Attics :
       /\ Len(Attics[i]) = 1 /\ Found(Attics[i]) = Attics[i]
       /\ \A j \in DOMAIN Attics : j # i => Attics[j] # Attics[i]
  /\ <<>> \notin Places /\ Ask \subseteq Seq(Names)

Init ==
  /\ cwd \in Here
  /\ \E case \in Initial :
       /\ fs = case.fs
       /\ targets = Targets(fs, case.request, cwd) /\ pinned = PinnedObjects(fs, case.request)
  /\ git = [i \in {fs[Parent(p)].id : p \in {q \in DOMAIN fs : q # <<>> /\ Last(q) = Git}} |->
              [head |-> <<i, 1>>, kept |-> TRUE, dirty |-> FALSE]]
  /\ visible = {} /\ changes = 0 /\ cancelled = FALSE
  /\ pc = "idle" /\ unit = 1 /\ next = 1
  /\ root = NoObject /\ baseline = <<>> /\ mutated = {}
  /\ checkout = <<>> /\ authorized = NoObject
  /\ lines = [u \in DOMAIN targets |-> [s \in Range(targets[u].subtrees) |-> ""]]
  /\ error = [u \in DOMAIN targets |-> FALSE]
  /\ shown = {} /\ late = FALSE /\ moved = {} /\ stripped = {}

target == targets[unit]
subtree == target.subtrees[next]

-----------------------------------------------------------------------------
(* The unit: executeStripTargetsWithProgress, openStripUnitRoot.           *)

Leave(kept, failed) ==
  /\ pc' = "idle" /\ unit' = unit + 1 /\ next' = 1
  /\ root' = NoObject /\ mutated' = {} /\ checkout' = <<>> /\ authorized' = NoObject
  /\ baseline' = <<>> /\ moved' = {} /\ stripped' = {}
  /\ lines' = [lines EXCEPT ![unit] = [s \in DOMAIN @ |-> IF s \in kept THEN "kept" ELSE @[s]]]
  /\ error' = [error EXCEPT ![unit] = failed]

\* A cancellation before a unit ends the run; what remains is reported failed.
StopRun ==
  /\ pc = "idle" /\ unit <= Len(targets) /\ cancelled
  /\ error' = [u \in DOMAIN error |-> u >= unit \/ error[u]]
  /\ pc' = "done"
  /\ UNCHANGED <<world, given, unit, next, unitState, chosen, lines, history>>

EndRun ==
  /\ pc = "idle" /\ unit > Len(targets) /\ pc' = "done"
  /\ UNCHANGED <<world, given, unit, next, unitState, chosen, outcome, history>>

RealDirectory(system, path) ==
  LET at == Physical(system, path) IN
  Exists(system, at) /\ Entry(system, at).kind = "dir"

OpenUnit ==
  /\ pc = "idle" /\ unit <= Len(targets) /\ ~cancelled
  /\ LET at == Physical(fs, target.path)
         inHome == LET home == Canonical(fs, Home) IN
                   Canonical(fs, target.path) # home /\ Below(Canonical(fs, target.path), home)
     IN  IF ~inHome THEN Leave({}, TRUE) /\ UNCHANGED <<shown, late>>
         ELSE IF Inhabited(fs, target, cwd) \/ ~RealDirectory(fs, target.path)
                 \/ Entry(fs, at).id # target.id
         THEN Leave(Range(target.subtrees), FALSE) /\ UNCHANGED <<shown, late>>
         ELSE /\ root' = Entry(fs, at).id /\ pc' = "subtree"
              /\ UNCHANGED <<unit, next, baseline, mutated, chosen, outcome, history>>
  /\ UNCHANGED <<world, given>>

-----------------------------------------------------------------------------
(* The subtrees of the unit, one after the other.                          *)

Line(word) ==
  /\ lines' = [lines EXCEPT ![unit][subtree] = word]
  /\ pc' = "subtree" /\ next' = next + 1 /\ UNCHANGED unit

\* stripCheckoutDir: the nearest directory above the subtree, within the unit,
\* that holds the mark of a linked worktree; <<>> when there is none.
Marked(p) == LET mark == Canonical(fs, Append(p, Git)) IN
             Exists(fs, mark) /\ Entry(fs, mark).kind = "file"

Checkout(u, s) ==
  LET over == {n \in Len(u.path) .. Len(s) - 1 : Marked(SubSeq(s, 1, n))} IN
  IF over = {} THEN <<>> ELSE SubSeq(s, 1, CHOOSE n \in over : \A m \in over : m <= n)

\* WorktreeStripCandidates: a position counts where its marker is today.
Inventoried(c, s) ==
  \E position \in Positions :
    LET marker == c \o position.marker IN
    /\ s = c \o position.at
    /\ IF position.kind = "dir" THEN RealDirectory(fs, marker)
       ELSE LET file == Canonical(fs, marker) IN
            Exists(fs, file) /\ Entry(fs, file).kind = "file"

\* Where the open directory is now, whatever its path was; a path below it is
\* followed without leaving it.
RootPath == {p \in DOMAIN fs : fs[p].id = root}

Components(s) == {SubSeq(s, 1, n) : n \in Len(target.path) + 1 .. Len(s)}

InRoot(base, p) == base \o SubSeq(p, Len(target.path) + 1, Len(p))

\* stripPathHasNoSymlinks
NoLinks(s) ==
  \E base \in RootPath : \A p \in Components(s) :
    Exists(fs, InRoot(base, p)) /\ Entry(fs, InRoot(base, p)).kind = "dir"

IdInRoot(s) == LET base == CHOOSE b \in RootPath : TRUE IN Entry(fs, InRoot(base, s)).id

\* stripSubtreeAuthority, or the end of the loop
Authorize ==
  /\ pc = "subtree" /\ next <= Len(target.subtrees) /\ ~cancelled
  /\ LET c == Checkout(target, subtree) IN
     IF /\ Below(subtree, target.path) /\ subtree # target.path
        /\ c # <<>> /\ Inventoried(c, subtree) /\ NoLinks(subtree)
     THEN /\ checkout' = c /\ authorized' = IdInRoot(subtree)
          /\ pc' = "baseline" /\ UNCHANGED <<unit, next, lines>>
     ELSE Line("kept") /\ UNCHANGED chosen
  /\ UNCHANGED <<world, given, unitState, error, history>>

\* BuildGitStripBaselineMember: the status of the whole checkout may time out;
\* when HEAD or its refs cannot be read, the evidence is unavailable.
Answers(c) == ~cancelled /\ IdentityAt(fs, c) \in DOMAIN git

Evidence(c, status) ==
  LET now == git[IdentityAt(fs, c)] IN
  [head |-> now.head, kept |-> now.kept, known |-> status, dirty |-> status /\ now.dirty]

\* One baseline for each checkout, taken when its first subtree is at hand.
Baseline ==
  /\ pc = "baseline"
  /\ \/ /\ checkout \in DOMAIN baseline \/ Answers(checkout)
        /\ \E status \in BOOLEAN :
             baseline' = [c \in DOMAIN baseline \cup {checkout} |->
                            IF c \in DOMAIN baseline THEN baseline[c] ELSE Evidence(c, status)]
        /\ IF baseline'[checkout].kept
           THEN pc' = "git" /\ UNCHANGED <<unit, next, lines>>
           ELSE Line("kept")
     \/ \* Git does not answer, or the context is done
        Line("kept") /\ UNCHANGED baseline
  /\ UNCHANGED <<world, given, root, mutated, chosen, error, history>>

Tree(system, p) == {system[q].id : q \in {r \in DOMAIN system : Below(r, p)}}

\* stripSubtreeGitSafe: status and ls-files of what lies at the path.
GitSafe ==
  /\ pc = "git"
  /\ \/ /\ ~cancelled
        /\ Tree(fs, Canonical(fs, subtree)) \cap visible = {}
        /\ shown' = visible
        /\ pc' = "look" /\ UNCHANGED <<unit, next, lines>>
     \/ Line("kept") /\ UNCHANGED shown
  /\ UNCHANGED <<world, given, unitState, chosen, error, late, moved, stripped>>

\* mutant: the path is looked at again, but not which directory lies there
UnchangedByPath == RootPath # {} /\ NoLinks(subtree)

\* stripSubtreeUnchanged
Unchanged ==
  /\ RootPath # {} /\ Exists(fs, target.path)
  /\ LET at == Physical(fs, target.path) IN Exists(fs, at) /\ Entry(fs, at).id = root
  /\ NoLinks(subtree) /\ IdInRoot(subtree) = authorized

Look ==
  /\ pc = "look"
  /\ IF ~HoldsOneOf(fs, subtree, cwd) /\ Unchanged
     THEN pc' = "remove" /\ late' = FALSE /\ UNCHANGED <<unit, next, lines>>
     ELSE Line("kept") /\ UNCHANGED late
  /\ UNCHANGED <<world, given, unitState, chosen, error, shown, moved, stripped>>

\* root.RemoveAll: links on the way are followed as long as they stay below
\* the open directory; at its end a link itself is removed.
RootPlace ==
  LET way(base) == Canonical(fs, Parent(InRoot(base, subtree)))
  IN  {Found(Append(way(base), Last(subtree))) : base \in {b \in RootPath : Below(way(b), b)}}

RemovalOf(system, path) == {q \in DOMAIN system : Below(q, path)}

Without(system, gone) == [p \in DOMAIN system \ gone |-> system[p]]

\* safedelete.RemoveAllIn: the gate once more, then the removal, which is
\* content with nothing there, and which may fail after it removed a part.
RemoveSubtree ==
  /\ pc = "remove"
  /\ \/ \E p \in RootPlace :
          /\ Passes(fs, subtree)
          /\ \/ /\ fs' = Without(fs, RemovalOf(fs, p)) /\ Line("stripped")
                /\ mutated' = mutated \cup {checkout} /\ stripped' = stripped \cup {checkout}
             \/ /\ fs' = Without(fs, RemovalOf(fs, p) \ {p}) /\ Line("kept")
                /\ UNCHANGED <<mutated, stripped>>
     \/ Line("kept") /\ UNCHANGED <<fs, mutated, stripped>>
  /\ UNCHANGED <<git, visible, changes, cancelled, given, root, baseline, chosen,
                 error, shown, late, moved>>

\* A cancellation within a unit ends it without a last look at its checkouts.
StopUnit ==
  /\ pc = "subtree" /\ next <= Len(target.subtrees) /\ cancelled
  /\ Leave({}, TRUE) /\ UNCHANGED <<world, given, shown, late>>

Verify ==
  /\ pc = "subtree" /\ next > Len(target.subtrees)
  /\ pc' = "verify"
  /\ UNCHANGED <<world, given, unit, next, unitState, chosen, outcome, history>>

\* mutant: a commit that a ref keeps does no harm
DamagedIfLost(c, after) == ~after.kept

\* What the last look holds against a checkout.
Damaged(c, after) ==
  \/ after.head # baseline[c].head
  \/ baseline[c].known /\ after.known /\ after.dirty # baseline[c].dirty
  \/ ~after.kept

\* One checkout of those that were changed, in any order; the first fault ends
\* the unit, and so does evidence that cannot be had.
VerifyOne ==
  /\ pc = "verify" /\ mutated # {}
  /\ \E c \in mutated :
       \/ /\ Answers(c)
          /\ \E status \in BOOLEAN :
               IF Damaged(c, Evidence(c, status))
               THEN Leave({}, TRUE)
               ELSE /\ mutated' = mutated \ {c}
                    /\ UNCHANGED <<place, root, baseline, chosen, outcome, moved, stripped>>
       \/ Leave({}, TRUE)
  /\ UNCHANGED <<world, given, shown, late>>

EndUnit ==
  /\ pc = "verify" /\ mutated = {}
  /\ Leave({}, FALSE)
  /\ UNCHANGED <<world, given, shown, late>>

Program ==
  \/ StopRun \/ EndRun \/ OpenUnit \/ Authorize \/ Baseline \/ GitSafe \/ Look
  \/ RemoveSubtree \/ StopUnit \/ Verify \/ VerifyOne \/ EndUnit

-----------------------------------------------------------------------------
(* What others do meanwhile, Len(Attics) times at most.                    *)

Change ==
  /\ pc # "done" /\ changes < Len(Attics) /\ changes' = changes + 1
  /\ UNCHANGED <<cancelled, given, place, unitState, chosen, outcome, shown, stripped>>

NewId == 1 + Max(Ids(fs))

\* Where r lies once p, which holds it, lies at q.
MovedTo(p, q, r) == q \o SubSeq(r, Len(p) + 1, Len(r))

\* What lay at p goes to the attic; an entry of this kind takes its place.
Exchanged(system, attic, p, entry) ==
  LET kept == {q \in DOMAIN system : ~Below(q, p)}
      away == {MovedTo(p, attic, q) : q \in RemovalOf(system, p)}
  IN  [q \in kept \cup away \cup {p} |->
         IF q = p THEN entry ELSE IF q \in kept THEN system[q]
         ELSE system[MovedTo(attic, p, q)]]

PutInPlace(p, kind, to) ==
  fs' = Exchanged(fs, Attics[changes + 1], p, [kind |-> kind, to |-> to, id |-> NewId])

Exchange(p) ==
  /\ Change
  /\ p \in DOMAIN fs
  /\ (\E to \in Leads : PutInPlace(p, "link", to)) \/ PutInPlace(p, "dir", <<>>)
  /\ late' = TRUE /\ UNCHANGED <<git, visible, moved>>

\* A file that Git can see, within a subtree.
Add(p) ==
  /\ Change
  /\ p \in DOMAIN fs /\ fs[p].kind = "dir" /\ fs[p].id \notin visible
  /\ visible' = visible \cup {fs[p].id}
  /\ UNCHANGED <<fs, git, late, moved>>

\* A commit, on a branch or on nothing, or an edit elsewhere in the checkout.
Commit(i) ==
  /\ Change
  /\ \E kept \in BOOLEAN :
       git' = [git EXCEPT ![i] = [head |-> <<i, @.head[2] + 1>>, kept |-> kept, dirty |-> FALSE]]
  /\ moved' = IF pc = "verify" THEN moved
              ELSE moved \cup {c \in DOMAIN baseline : baseline[c].head[1] = i}
  /\ UNCHANGED <<fs, visible, late>>

Edit(i) ==
  /\ Change
  /\ ~git[i].dirty /\ git' = [git EXCEPT ![i].dirty = TRUE]
  /\ UNCHANGED <<fs, visible, late, moved>>

Cancel ==
  /\ pc # "done" /\ ~cancelled /\ cancelled' = TRUE
  /\ UNCHANGED <<fs, git, visible, changes, given, place, unitState, chosen,
                 outcome, history>>

Next ==
  \/ Program \/ Cancel
  \/ \E p \in Places : Exchange(p) \/ Add(p)
  \/ \E i \in DOMAIN git : Commit(i) \/ Edit(i)

Spec == Init /\ [][Next]_vars

-----------------------------------------------------------------------------
(* Properties.                                                             *)

\* Whatever links lie about, and under whatever spelling, the gate lets
\* nothing through whose removal would take a protected location along.
GateSound == pc = "idle" /\ unit = 1 => \A path \in Ask : Sound(fs, path)

Gone == {p \in DOMAIN fs : fs[p].id \notin Ids(fs')}

\* Whatever goes lay within the directory of the unit that was opened, however
\* its path was exchanged since.
StaysInUnit == \A p \in Gone : \E base \in RootPath : Below(p, base) /\ p # base

\* Unless something moved after the last look, it is the very subtree that was
\* authorized.
IsAuthorized ==
  ~late /\ Gone # {} =>
    \E q \in DOMAIN fs : fs[q].id = authorized /\ \A p \in Gone : Below(p, q)

\* A strip removes what it vetted: in the unit's directory, the authorized
\* subtree, and nothing that Git could see when it was asked.
RemovesWhatWasVetted ==
  [][ fs' # fs => /\ StaysInUnit /\ IsAuthorized
                  /\ ~late => \A p \in Gone : fs[p].id \notin shown ]_vars

\* What a protected path named when the command started, through whatever links
\* it leads, and what that holds, is never removed, if where it leads is spelled
\* as the file system stores it.
PinnedStands ==
  [][ \A object \in pinned :
        object.asStored /\ object.id \in Ids(fs) => object.id \in Ids(fs') ]_vars

\* A unit that is reported without an error left no checkout behind that a
\* subtree was stripped from and whose HEAD moved, between its baseline and the
\* last look at it, wherever the checkout went meanwhile.
IntactOrReported ==
  [][ unit' = unit + 1 /\ ~error'[unit] => stripped \cap moved = {} ]_vars

-----------------------------------------------------------------------------
(* What comments say and the code does not keep.                           *)

\* README.md: a protected path keeps the checkout that it names. Scopes and rows
\* are compared as they are spelled (exclude.go), though the file system may
\* find a name under other spellings too.
PinnedHoweverSpelled ==
  [][ {object.id : object \in pinned} \cap Ids(fs) \subseteq Ids(fs') ]_vars

\* strip.go: a checkout is re-verified if something was actually removed from
\* it; all-skipped checkouts had no mutation to verify.
MutationsAreVerified ==
  [][ pc = "remove" /\ fs' # fs /\ changes' = changes =>
        checkout \in mutated' ]_vars
=============================================================================
