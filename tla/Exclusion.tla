------------------------------ MODULE Exclusion ------------------------------
(***************************************************************************)
(* Where a scan looks and which paths the user takes out of it             *)
(* (internal/scanner/roots.go, internal/exclude/exclude.go). A pattern is  *)
(* resolved against the scan roots once, when the command starts; then     *)
(* each row is compared with the scopes it gave.                           *)
(*                                                                         *)
(* A pattern is [form, segments]: absolute, below the home directory, or   *)
(* below every root. Star may be the last segment: it stands for whatever   *)
(* the directory holds.                                                    *)
(***************************************************************************)
EXTENDS DeletionGate, FiniteSetsExt

CONSTANTS Temp,  \* the system's temporary directory
          Star   \* the segment that matches every name

\* EvalSymlinks: every component is there, and no link leads round.
Resolved(fs, p) ==
  LET q == Canonical(fs, p) IN q # Unresolved /\ Exists(fs, q)

-----------------------------------------------------------------------------
(* NormalizeRoots.                                                         *)

\* A root is an existing directory below the home directory, or all of Temp.
RootAllowed(fs, root) ==
  LET q == Canonical(fs, root) IN
  /\ Resolved(fs, root) /\ Entry(fs, q).kind = "dir"
  /\ \/ Below(q, Canonical(fs, Home))
     \/ Resolved(fs, Temp) /\ q = Canonical(fs, Temp)

\* The home directory when none is named; a root within another adds nothing.
RootsOf(fs, named) ==
  LET all == {Canonical(fs, root) : root \in IF named = {} THEN {Home} ELSE named}
  IN  {q \in all : \A other \in all \ {q} : ~Below(q, other)}

-----------------------------------------------------------------------------
(* exclude.New.                                                            *)

\* canonicalize: what exists of a path is resolved, the rest is appended.
Evaluated(fs, p) ==
  LET n == Max({k \in 0 .. Len(p) : Resolved(fs, SubSeq(p, 1, k))})
  IN  Canonical(fs, SubSeq(p, 1, n)) \o SubSeq(p, n + 1, Len(p))

\* expandPattern
Candidates(roots, pattern) ==
  CASE pattern.form = "absolute" -> {pattern.segments}
    [] pattern.form = "home"     -> {Home \o pattern.segments}
    [] pattern.form = "relative" -> {root \o pattern.segments : root \in roots}

Listed(fs, dir) == {Last(q) : q \in {r \in DOMAIN fs : r # <<>> /\ Parent(r) = dir}}

\* A glob's matches, and the path itself when something has that very name.
Matching(fs, candidate) ==
  IF candidate = <<>> \/ Last(candidate) # Star THEN {candidate}
  ELSE {Append(Front(candidate), name) : name \in Listed(fs, Canonical(fs, Front(candidate)))}

\* mutant: scopes stay as they were spelled
ScopesAsSpelled(fs, roots, patterns) ==
  UNION {Candidates(roots, pattern) : pattern \in patterns}

\* A pattern that climbs is not honoured, nor is what leads out of the roots.
Scopes(fs, roots, patterns) ==
  {scope \in {Evaluated(fs, match) :
                match \in UNION {Matching(fs, candidate) :
                  candidate \in UNION {Candidates(roots, pattern) :
                    pattern \in {p \in patterns : Up \notin Range(p.segments)}}}} :
     \E root \in roots : Below(scope, root)}

-----------------------------------------------------------------------------
(* Matcher.match: a path counts as it is spelled and as it is resolved.    *)

Spellings(fs, path) == {path, Evaluated(fs, path)}

\* Match: hidden from the scan, the scope itself and what lies in it.
Match(fs, scopes, path) ==
  \E p \in Spellings(fs, path), scope \in scopes : Below(p, scope)

\* ProtectMatch: kept, and so is what holds the scope.
ProtectMatch(fs, scopes, path) ==
  Match(fs, scopes, path) \/ \E p \in Spellings(fs, path), scope \in scopes : Below(scope, p)
=============================================================================
