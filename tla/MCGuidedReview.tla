--------------------------- MODULE MCGuidedReview ---------------------------
(***************************************************************************)
(* Three worktree targets: a, b inside a, and c, a container with two      *)
(* checkouts, and a cache x that may contain c. Every checkout may differ  *)
(* from a plain old clean one, two of them at a time.                      *)
(***************************************************************************)
EXTENDS GuidedReview, TLC

MCPaths == {"a", "b", "c", "x"}
MCWithin == {<<"b", "a">>, <<"c", "x">>}

Plain == [repository |-> "r", status |-> "clean", head |-> "attached", refs |-> "some",
          session |-> 6, reflog |-> 6, default |-> TRUE, ancestor |-> "yes",
          merge |-> "same_tree"]

\* What a checkout may be instead of a plain old clean one.
Variant ==
  <<[Plain EXCEPT !.repository = "s"],
    [Plain EXCEPT !.status = "dirty"],
    [Plain EXCEPT !.reflog = 4],
    [Plain EXCEPT !.repository = NoRepository],
    [Plain EXCEPT !.head = "detached"],
    [Plain EXCEPT !.head = "detached", !.refs = "none"],
    [Plain EXCEPT !.refs = "fails"],
    [Plain EXCEPT !.session = Outage],
    [Plain EXCEPT !.session = 1],
    [Plain EXCEPT !.ancestor = "error"],
    [Plain EXCEPT !.ancestor = "no", !.merge = "other"],
    [Plain EXCEPT !.session = Never, !.reflog = Never, !.ancestor = "no"]>>

\* A plain scan in which one checkout differs, and another one in a simple
\* way; 0 stands for none that does.
Checkout == <<"a", "b", "c1", "c2">>

Differ(f, i) ==
  IF i = 0 THEN f ELSE [f EXCEPT ![Checkout[1 + (i % 4)]] = Variant[1 + ((i - 1) \div 4)]]

CheckoutsWith(i, j) == Differ(Differ([m \in Range(Checkout) |-> Plain], i), j)

Row(project, mtime, size, status) ==
  [project |-> project, mtime |-> mtime, size |-> size, tool |-> "codex", status |-> status]

TargetOf(path, marker, entries, rows, source) ==
  [path |-> path, marker |-> marker, entries |-> entries, rows |-> rows,
   source |-> source, session |-> 6]

CEntries == {[kind |-> "checkout", checkouts |-> {"c1"}, other |-> FALSE],
             [kind |-> "leaf", checkouts |-> {"c2"}, other |-> FALSE],
             [kind |-> "empty", checkouts |-> {}, other |-> FALSE]}

MCTarget ==
  <<TargetOf("a", "linked", {}, <<Row("a", 6, 2, "active"), Row("a", 6, 2, "orphaned")>>, ".codex"),
    TargetOf("b", "linked", {}, <<Row("b", 5, 2, "active")>>, "orca"),
    TargetOf("c", "absent", CEntries, <<Row("c1", 6, 1, "active"), Row("c", Never, 2, "active")>>, "")>>

\* The same scan with c as something that is no unit, or without a reader.
MixedTarget == [MCTarget EXCEPT ![3].entries = CEntries \cup
                  {[kind |-> "leaf", checkouts |-> {"c1"}, other |-> TRUE]}]
OtherTarget == [MCTarget EXCEPT ![1].rows = <<[Row("a", 6, 2, "active") EXCEPT !.tool = "claude"]>>,
                                ![2].rows = <<Row("b", 5, 0, "active")>>]

Classical(path, category, status, rowAge) ==
  [path |-> path, category |-> category, status |-> status, class |-> "none",
   age |-> rowAge, wanted |-> TRUE, direct |-> TRUE, verified |-> TRUE,
   linked |-> FALSE, commanded |-> FALSE, pressed |-> FALSE, there |-> TRUE,
   vouched |-> TRUE]

WorktreeRows(target) ==
  UNION {{Classical(target[k].path, "worktree", row.status, row.mtime) :
            row \in Range(target[k].rows)} : k \in DOMAIN target}

Scans == <<MCTarget, MixedTarget, OtherTarget>>

Extras == <<{}, {Classical("x", "cache", "none", 6)},
            {[Classical("x", "agent_state", "none", 6) EXCEPT !.class = "orphaned"],
             Classical("x", "ai_logs", "none", 6)}>>

Options == [age |-> 2, grace |-> 1, risky |-> FALSE, relax |-> FALSE, includeActive |-> FALSE]

World(target, i, j, extra, route) ==
  [target     |-> Scans[target],
   checkout   |-> CheckoutsWith(i, j),
   rows       |-> WorktreeRows(Scans[target]) \cup Extras[extra],
   repository |-> [k \in 1 .. 3 |-> [status |-> "clean", head |-> "attached",
                                      upstream |-> IF j = 0 THEN "level" ELSE "ahead"]],
   opts |-> Options, age |-> 3, pins |-> {}, route |-> route,
   standing |-> {}, refused |-> {}, partial |-> FALSE]

\* Guided reviews: one checkout differs, or two do, with and without the cache
\* x, and with nothing or b pinned.
Reviews == [n \in 1 .. 49 * 5 |->
  [World(1, n % 49, IF n <= 49 THEN 0 ELSE n % 6, 1 + (n % 2), "guided")
     EXCEPT !.pins = IF n % 4 = 0 THEN {"b"} ELSE {}]]

\* Classic cleans, with and without --include-active-worktrees.
Classics == [n \in 1 .. 49 * 3 |->
  [World(1 + (n % 3), n % 49, n % 2, 1 + ((n \div 3) % 3), "classic")
     EXCEPT !.opts.includeActive = n % 5 # 0]]

\* Guided reviews of other scans, run from within a, or over partial evidence.
Others == [n \in 1 .. 3 * 3 * 3 |->
  [World(1 + (n % 3), 0, 0, 1 + ((n \div 3) % 3), "guided")
     EXCEPT !.opts.includeActive = TRUE,
            !.standing = IF n \div 9 = 1 THEN {"a"} ELSE {},
            !.refused  = IF n \div 9 = 1 THEN {"b"} ELSE {},
            !.partial  = n \div 9 = 2]]

MCWorlds == Reviews \o Classics \o Others
=============================================================================
