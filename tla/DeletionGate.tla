---------------------------- MODULE DeletionGate ----------------------------
(***************************************************************************)
(* The single gate every removal passes through                            *)
(* (internal/safedelete/safedelete.go), over a file system with links and  *)
(* with names that it finds under several spellings. It asks one thing:    *)
(* may anything ever be removed at this path?                              *)
(*                                                                         *)
(* A path is a sequence of names. A file system maps the paths of what is  *)
(* there, spelled as it stores them, to entries [kind, to, id]: a          *)
(* directory, a file, or a link with its destination. Two entries with one *)
(* id would be the same object; each has its own here, and one object is   *)
(* reached under several paths by links and by spelling.                   *)
(***************************************************************************)
EXTENDS Integers, Sequences, FiniteSets, SequencesExt

CONSTANTS Home,        \* the user's home directory
          Protected,   \* protected locations below it
          Relocated,   \* homes and stores that the environment moved elsewhere
          Container,   \* below Home: the directory whose entries are containers
          Stored(_),   \* the spelling under which the file system finds a name
          Up,          \* the name ".."
          Git,         \* the name ".git"
          Names,       \* what files may be called
          MaxLinks,    \* links followed before a resolution is given up
          MaxLength    \* bound on the names in the destination of a link

ASSUME GateAssumption ==
  /\ MaxLinks \in Nat /\ MaxLength \in Nat
  /\ Up \in Names /\ Stored(Up) = Up /\ \A name \in Names : Stored(name) \in Names
  /\ Home \in Seq(Names) /\ Relocated \subseteq Seq(Names) /\ Protected \subseteq Seq(Names)

\* What a failed lookup yields: no canonical path holds Up.
Unresolved == <<Up>>

Parent(p) == IF p = <<>> THEN p ELSE Front(p)

Below(p, q) == IsPrefix(q, p)

Found(p) == [i \in DOMAIN p |-> Stored(p[i])]

Exists(fs, p) == Found(p) \in DOMAIN fs

Entry(fs, p) == fs[Found(p)]

\* What a file system is: whatever is there is in a directory that is there,
\* under the spelling that is stored.
FileSystem(fs) ==
  /\ <<>> \in DOMAIN fs /\ fs[<<>>].kind = "dir"
  /\ \A q \in DOMAIN fs :
       /\ q \in Seq(Names \ {Up}) /\ Found(q) = q
       /\ fs[q].to \in Seq(Names) /\ Len(fs[q].to) <= MaxLength
       /\ \A k \in 0 .. Len(q) - 1 :
            SubSeq(q, 1, k) \in DOMAIN fs /\ fs[SubSeq(q, 1, k)].kind = "dir"

\* canonicalize: a resolution stands at done and has todo before it.
Stand(done, todo, links) == [done |-> done, todo |-> todo, links |-> links]

GivenUp == Stand(Unresolved, <<>>, 0)

\* Every existing component is resolved; a missing one stays as it is spelled.
Onward(fs, s) ==
  LET next == Append(s.done, Head(s.todo))
      rest == Tail(s.todo)
  IN  IF s.todo = <<>> THEN s
      ELSE IF Head(s.todo) = Up THEN Stand(Parent(s.done), rest, s.links)
      ELSE IF ~Exists(fs, next) THEN Stand(next, rest, s.links)
      ELSE CASE Entry(fs, next).kind = "link" ->
                  IF s.links = MaxLinks THEN GivenUp
                  ELSE Stand(<<>>, Entry(fs, next).to \o rest, s.links + 1)
             [] Entry(fs, next).kind = "file" /\ rest # <<>> -> GivenUp
             [] OTHER -> Stand(next, rest, s.links)

Resolution(fs, p) ==
  LET way[n \in Nat] == IF n = 0 THEN Stand(<<>>, p, 0) ELSE Onward(fs, way[n - 1])
  IN  way

\* No resolution is longer: each step takes a name away, each link brings some.
Steps(p) == Len(p) + MaxLinks * MaxLength

Canonical(fs, p) ==
  LET end == Resolution(fs, p)[Steps(p)]
  IN  IF end.todo = <<>> THEN end.done ELSE Unresolved

\* What lies at a path, links followed: the id of an object, or NoObject.
NoObject == -1

IdentityAt(fs, p) ==
  LET q == Canonical(fs, p) IN IF Exists(fs, q) THEN Entry(fs, q).id ELSE NoObject

-----------------------------------------------------------------------------
(* Check.                                                                  *)

Locations(home) == Relocated \cup {home \o p : p \in Protected}

\* A link is protected where it lies and where it leads.
Physical(fs, location) ==
  IF location = <<>> THEN <<>> ELSE Append(Canonical(fs, Parent(location)), Last(location))

Forms(fs, location) == {Physical(fs, location), Canonical(fs, location)}

\* mutant: only the location itself, not what holds it
CoversOnlyItself(target, form) == target = form

Covers(target, form) == IsPrefix(target, form)

\* existingPathIdentity: the longest existing prefix of p, by its length.
ExistingLength(fs, p) ==
  CHOOSE n \in 0 .. Len(p) :
    /\ Exists(fs, SubSeq(p, 1, n))
    /\ \A k \in n + 1 .. Len(p) : ~Exists(fs, SubSeq(p, 1, k))

\* coversProtectedIdentity: the same directory under another spelling, with
\* what is missing below it compared by name.
CoversIdentity(fs, canonical, form) ==
  LET n  == ExistingLength(fs, canonical)
      id == Entry(fs, SubSeq(canonical, 1, n)).id
  IN  \E k \in 0 .. Len(form) :
        /\ IdentityAt(fs, SubSeq(form, 1, k)) = id
        /\ Covers(SubSeq(canonical, n + 1, Len(canonical)), SubSeq(form, k + 1, Len(form)))

CoversLocation(fs, path, canonical, location) ==
  \/ Parent(location) # <<>> /\ Canonical(fs, Parent(location)) = Unresolved
  \/ Canonical(fs, location) = Unresolved
  \/ \E form \in Forms(fs, location) \cup {location} :
       Covers(path, form) \/ Covers(canonical, form)
  \/ \E form \in Forms(fs, location) : CoversIdentity(fs, canonical, form)

PrimaryRepository(fs, canonical) ==
  LET git == Append(canonical, Git) IN Exists(fs, git) /\ Entry(fs, git).kind = "dir"

Passes(fs, path) ==
  LET home      == Canonical(fs, Home)
      canonical == Canonical(fs, path)
  IN  /\ Up \notin Range(path)
      /\ home # Unresolved /\ canonical # Unresolved
      /\ Below(canonical, home) /\ canonical # home
      /\ \A location \in Locations(home) : ~CoversLocation(fs, path, canonical, location)
      /\ LET container == Canonical(fs, home \o Container)
         IN  container # Unresolved /\ Parent(canonical) # container
      /\ Git \notin Range(path) \cup Range(SubSeq(canonical, Len(home) + 1, Len(canonical)))
      /\ ~PrimaryRepository(fs, canonical)

-----------------------------------------------------------------------------
(* The reference: what a recursive removal takes, and what has to stay.    *)

Taken(fs, path) ==
  LET parent == Canonical(fs, Parent(path))
      top    == Found(Append(parent, Last(path)))
  IN  IF path = <<>> \/ parent = Unresolved THEN {}
      ELSE {q \in DOMAIN fs : Below(q, top)}

Kept(fs) ==
  {Found(Canonical(fs, Home))} \cup
  UNION {{Found(form) : form \in Forms(fs, l)} : l \in Locations(Canonical(fs, Home))}

\* Nothing that passes the gate takes a protected location with it: not the
\* directory, not a link to it, not what the link leads to, and none of what
\* holds them, however the path is spelled.
Sound(fs, path) == Passes(fs, path) => Taken(fs, path) \cap Kept(fs) = {}
=============================================================================
