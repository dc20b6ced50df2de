----------------------------- MODULE RecordedCwd -----------------------------
(***************************************************************************)
(* What an agent's session store tells of the projects it is about         *)
(* (internal/adapter/recorded_cwd.go, claude_projects.go, grok.go). An     *)
(* entry of a store is orphaned only when every working directory it       *)
(* records is proven to be gone; a directory that merely cannot be reached *)
(* is not. The records are read, and the directories looked at, one by one: *)
(* a look at one directory and at those above it is one step here.         *)
(*                                                                         *)
(* A disk is a function from the paths of what is there to nodes           *)
(* [kind, volume, to]. A link is of kind "link", with the directory and    *)
(* volume it leads to, or "dangling"; nothing is kept below links. What    *)
(* lies in a directory of kind "closed" cannot be asked for.               *)
(***************************************************************************)
EXTENDS Naturals, FiniteSets, SequencesExt

CONSTANTS Cwds,        \* working directories, by name
          PathOf,      \* their paths
          Containers   \* home and temporary directories

\* A record that cannot be read is no directory.
ASSUME CwdAssumption == PathOf \in [Cwds -> Seq(STRING)] /\ "bad" \notin Cwds

Above(p) == {SubSeq(p, 1, n) : n \in 0 .. Len(p) - 1}

Blocked(disk, p) ==
  \E a \in Above(p) \cap DOMAIN disk : disk[a].kind \in {"closed", "file"}

\* The nearest entry at or above a path.
Nearest(disk, p) ==
  CHOOSE a \in (Above(p) \cup {p}) \cap DOMAIN disk :
    \A b \in (Above(p) \cup {p}) \cap DOMAIN disk : Len(b) <= Len(a)

\* recordedCWDAbsenceProven: what is nearest is a directory of its parent's
\* volume, in a place that is expected to be there.
AbsenceProven(disk, p) ==
  LET a == Nearest(disk, p) IN
  /\ a # p /\ disk[a].kind \in {"dir", "link"}
  /\ a # <<>> => disk[a].volume = disk[Front(a)].volume
  /\ \E c \in Containers : IsPrefix(c, IF disk[a].kind = "link" THEN disk[a].to ELSE a)

\* What os.Stat and the walk up of the proof find out of one working directory
\* and of what lies above it.
Sighted(disk, p) ==
  IF Blocked(disk, p) THEN "unverifiable"
  ELSE IF p \in DOMAIN disk /\ disk[p].kind # "dangling" THEN "live"
  ELSE IF AbsenceProven(disk, p) THEN "absent"
  ELSE "unavailable"

\* recordedCWDStillAbsent: the second look at a directory that was not there.
Rechecked(disk, p) ==
  IF Blocked(disk, p) THEN "unverifiable"
  ELSE IF p \in DOMAIN disk THEN "unavailable"
  ELSE "absent"

-----------------------------------------------------------------------------
(* The evidence of one entry. A record of a session is the name of the     *)
(* directory it ran in, "plain" without one, or "bad": cut short, not      *)
(* parseable, ambiguous, in a file that cannot be read.                    *)

\* recordedCWDsFromClaudeProject
FromClaude(records) ==
  [cwds |-> records \cap Cwds, complete |-> "bad" \notin records]

\* recordedCWDFromGrokSessions: the entry's own name is a record as well, and
\* every session has to agree with it.
FromGrok(name, records) ==
  [cwds |-> records \cap {name}, complete |-> records = {name}]

\* mutant: one directory that is gone outweighs one that cannot be reached
VerdictIgnoresUnavailable(evidence, found) ==
  CASE "live" \in found -> "live"
    [] "live" \notin found /\ evidence.complete /\ "absent" \in found -> "orphaned"
    [] OTHER -> "undetermined"

\* classifyRecordedCWDEvidence, on what was found of all the directories.
Verdict(evidence, found) ==
  CASE "live" \in found -> "live"
    [] "live" \notin found /\ evidence.complete /\ found = {"absent"} -> "orphaned"
    [] OTHER -> "undetermined"
=============================================================================
