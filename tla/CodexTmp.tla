------------------------------ MODULE CodexTmp ------------------------------
(***************************************************************************)
(* Residue below a Codex home's tmp directory                              *)
(* (internal/adapter/codex_tmp.go, codex_tmp_contract.go). A direct child  *)
(* of tmp, a unit, may be removed only under a fence that every class of   *)
(* its writers respects, when its members are those a known version of     *)
(* the producer leaves behind, and when they are still those of the scan.  *)
(* Production admits no layout yet; this is the contract that has to hold  *)
(* when it does.                                                           *)
(*                                                                         *)
(* Sweeps scan one unit and then delete it, several at a time. A member is *)
(* [kind, to, id]; any write gives it another id, which stands for its     *)
(* mode, size, modification time and inode.                                *)
(***************************************************************************)
EXTENDS Integers, Sequences, FiniteSets, SequencesExt, FiniteSetsExt, Functions

CONSTANTS Sweeps,       \* scans and deletions of the unit
          Required,     \* the classes of writers
          Cooperating,  \* sets of classes that may respect the fence
          Layouts,      \* by version: the members it leaves behind, [kind, to]
          Versions,     \* versions the producer may have, "" for an unknown one
          Contents,     \* what may lie in the unit: by name, [kind, to]
          Outside,      \* a link's destination that is not in the unit
          MaxInterference \* bound: on what writers and the fence's owner do

ASSUME TmpAssumption == MaxInterference \in Nat /\ \A c \in Cooperating : c \subseteq Required

VARIABLES
  writers,   \* the classes that respect the fence
  version,   \* the producer's version
  tree,      \* the unit: its members by name, <<>> the unit itself
  interfered,
  token,     \* the fence: the token that holds it, 0 for none
  seq,       \* tokens given out
  sweep,     \* by sweep: where it is and what it knows
  lost       \* history: sweeps whose fence was taken from them

unit == <<writers, version, tree, interfered>>
fence == <<token, seq>>
tmpVars == <<unit, fence, sweep, lost>>

Idle == [pc |-> "look", token |-> 0, deletes |-> FALSE, names |-> {}, members |-> <<>>,
          first |-> <<>>, expected |-> <<>>, scanned |-> FALSE, paths |-> {}]

TmpInit ==
  /\ writers \in Cooperating /\ version \in Versions
  /\ \E content \in Contents :
       tree = [n \in DOMAIN content |-> [kind |-> content[n].kind, to |-> content[n].to, id |-> 0]]
  /\ interfered = 0 /\ token = 0 /\ seq = 0 /\ lost = {}
  /\ sweep = [s \in Sweeps |-> Idle]

-----------------------------------------------------------------------------
(* The fence: codexTmpCooperativeExclusion.                                *)

Complete == Required \subseteq writers

Held(s) == token = sweep[s].token

\* mutant: whoever lets go of the fence takes it from everyone
ReleaseOfAnyone(s) == token' = 0

\* release: the fence goes only if it is still this sweep's.
Release(s) == token' = IF Held(s) THEN 0 ELSE token

\* mutant: a sweep that refuses keeps its fence
RefuseFenced(s) ==
  /\ sweep' = [sweep EXCEPT ![s] = [Idle EXCEPT !.pc = "done"]]
  /\ UNCHANGED token

\* Whatever ends a sweep, the deferred release runs.
Refuse(s) ==
  /\ sweep' = [sweep EXCEPT ![s] = [Idle EXCEPT !.pc = "done"]]
  /\ IF sweep[s].token = 0 THEN UNCHANGED token ELSE Release(s)

Acquire(s) ==
  IF Complete /\ token = 0
  THEN /\ seq' = seq + 1 /\ token' = seq + 1
       /\ sweep' = [sweep EXCEPT ![s].pc = "list", ![s].token = seq + 1]
  ELSE Refuse(s) /\ UNCHANGED seq

-----------------------------------------------------------------------------
(* The contract: codexTmpLayout.account.                                   *)

\* Members are the layout's, no more and no less, of its kinds, with its links.
Accounted(members) ==
  /\ version \in DOMAIN Layouts
  /\ LET layout == Layouts[version] IN
     /\ DOMAIN members = DOMAIN layout
     /\ \A n \in DOMAIN members :
          /\ members[n].kind = layout[n].kind
          /\ members[n].kind = "symlink" => members[n].to = layout[n].to

-----------------------------------------------------------------------------
Stands(s, pc) == sweep[s].pc = pc

\* evaluateChild: the unit has to be a directory before it is fenced.
Look(s) ==
  /\ Stands(s, "look")
  /\ IF <<>> \in DOMAIN tree /\ tree[<<>>].kind = "dir" THEN Acquire(s)
     ELSE Refuse(s) /\ UNCHANGED seq
  /\ UNCHANGED <<unit, lost>>

\* inventoryCodexTmpUnit: the walk, and then one member after the other; an
\* unreadable one, one that is gone, a link that leads out of the unit and a
\* cancellation all fail it.
Inventory(s) ==
  /\ Stands(s, "list")
  /\ IF <<>> \in DOMAIN tree
     THEN /\ sweep' = [sweep EXCEPT ![s].pc = "stat", ![s].names = DOMAIN tree,
                         ![s].members = <<>>]
          /\ UNCHANGED token
     ELSE Refuse(s)
  /\ UNCHANGED <<unit, seq, lost>>

Enters(n, member) == n = <<>> \/ member.kind # "symlink" \/ member.to # Outside

StatMember(s) ==
  /\ Stands(s, "stat") /\ sweep[s].names # {}
  /\ \/ \E n \in sweep[s].names :
          /\ n \in DOMAIN tree /\ Enters(n, tree[n])
          /\ sweep' = [sweep EXCEPT ![s].names = @ \ {n},
                         ![s].members = [k \in DOMAIN @ \cup {n} |->
                                           IF k = n THEN tree[n] ELSE @[k]]]
          /\ UNCHANGED token
     \/ Refuse(s)
  /\ UNCHANGED <<unit, seq, lost>>

Inventoried(s) == Stands(s, "stat") /\ sweep[s].names = {}

\* The scan's verdict: the members are accounted for and the fence still holds.
Admit(s) ==
  /\ Inventoried(s) /\ ~sweep[s].deletes
  /\ IF Accounted(sweep[s].members) /\ Held(s)
     THEN /\ sweep' = [sweep EXCEPT ![s] = [Idle EXCEPT !.pc = "scanned", !.scanned = TRUE,
                                              !.expected = sweep[s].members]]
          /\ Release(s)
     ELSE Refuse(s)
  /\ UNCHANGED <<unit, seq, lost>>

\* deleteCodexTmpUnit: a fence of its own.
Delete(s) ==
  /\ Stands(s, "scanned")
  /\ IF Complete /\ token = 0
     THEN /\ seq' = seq + 1 /\ token' = seq + 1
          /\ sweep' = [sweep EXCEPT ![s].pc = "list", ![s].token = seq + 1, ![s].deletes = TRUE]
     ELSE Refuse(s) /\ UNCHANGED seq
  /\ UNCHANGED <<unit, lost>>

\* The first inventory is compared with the scan's, and accounted for anew.
Compare(s) ==
  /\ Inventoried(s) /\ sweep[s].deletes /\ sweep[s].first = <<>>
  /\ IF Held(s) /\ sweep[s].members = sweep[s].expected /\ Accounted(sweep[s].members)
     THEN /\ sweep' = [sweep EXCEPT ![s].pc = "list", ![s].first = sweep[s].members]
          /\ UNCHANGED token
     ELSE Refuse(s)
  /\ UNCHANGED <<unit, seq, lost>>

\* The second is compared with the first, and the fence is looked at once more.
Recheck(s) ==
  /\ Inventoried(s) /\ sweep[s].deletes /\ sweep[s].first # <<>>
  /\ IF sweep[s].members = sweep[s].first /\ Held(s)
     THEN sweep' = [sweep EXCEPT ![s].pc = "walk"] /\ UNCHANGED token
     ELSE Refuse(s)
  /\ UNCHANGED <<unit, seq, lost>>

\* removeCodexTmpUnit: the paths of a walk of its own, the deepest first.
Walk(s) ==
  /\ Stands(s, "walk")
  /\ IF <<>> \in DOMAIN tree
     THEN sweep' = [sweep EXCEPT ![s].pc = "remove", ![s].paths = DOMAIN tree] /\ UNCHANGED token
     ELSE Refuse(s)
  /\ UNCHANGED <<unit, seq, lost>>

Empty(n) == \A k \in DOMAIN tree : ~IsStrictPrefix(n, k)

RemoveMember(s) ==
  /\ Stands(s, "remove")
  /\ \/ \E n \in sweep[s].paths :
          /\ \A k \in sweep[s].paths : Len(k) <= Len(n)
          /\ n \in DOMAIN tree /\ Empty(n)
          /\ tree' = Restrict(tree, DOMAIN tree \ {n})
          /\ IF sweep[s].paths = {n} THEN Refuse(s)
             ELSE sweep' = [sweep EXCEPT ![s].paths = @ \ {n}] /\ UNCHANGED token
     \/ \* it is gone, not empty, or not to be removed
        Refuse(s) /\ UNCHANGED tree
  /\ UNCHANGED <<writers, version, interfered, seq, lost>>

SweepStep(s) ==
  \/ Look(s) \/ Inventory(s) \/ StatMember(s) \/ Admit(s) \/ Delete(s) \/ Compare(s)
  \/ Recheck(s) \/ Walk(s) \/ RemoveMember(s)

-----------------------------------------------------------------------------
(* The writers, and the fence's owner, who may take it back.               *)

Interfere ==
  /\ interfered < MaxInterference /\ interfered' = interfered + 1
  /\ UNCHANGED <<writers, version, seq, sweep>>

\* A writer waits for the fence if its class respects it.
MayWrite(class) == class \in writers => token = 0

WriteMember(class, n) ==
  /\ Interfere /\ MayWrite(class)
  /\ \/ \E member \in {c[n] : c \in {d \in Contents : n \in DOMAIN d}} :
          /\ n # <<>> => Front(n) \in DOMAIN tree /\ tree[Front(n)].kind = "dir"
          /\ \A k \in DOMAIN tree : ~IsStrictPrefix(n, k) \/ member.kind = "dir"
          /\ tree' = [k \in DOMAIN tree \cup {n} |->
                        IF k = n THEN [kind |-> member.kind, to |-> member.to, id |-> interfered + 1]
                        ELSE tree[k]]
     \/ tree' = Restrict(tree, {k \in DOMAIN tree : ~IsPrefix(n, k)}) /\ n \in DOMAIN tree
  /\ UNCHANGED <<token, lost>>

Lose ==
  /\ Interfere /\ token # 0
  /\ token' = 0 /\ lost' = lost \cup {s \in Sweeps : Held(s)}
  /\ UNCHANGED tree

Paths == UNION {DOMAIN c : c \in Contents}

Interference == Lose \/ \E class \in Required, n \in Paths : WriteMember(class, n)

TmpNext == Interference \/ \E s \in Sweeps : SweepStep(s)

TmpFairness == \A s \in Sweeps : WF_tmpVars(SweepStep(s))

TmpSpec == TmpInit /\ [][TmpNext]_tmpVars /\ TmpFairness

-----------------------------------------------------------------------------
(* Properties.                                                             *)

\* Whatever a sweep removes is what its scan saw there and a known version
\* leaves behind, unless its fence was taken from it.
RemovesOnlyVetted ==
  [][ \A s \in Sweeps : Stands(s, "remove") /\ s \notin lost /\ tree' # tree
        /\ sweep'[s] # sweep[s] =>
          \A n \in DOMAIN tree \ DOMAIN tree' :
            /\ n \in DOMAIN sweep[s].expected /\ sweep[s].expected[n] = tree[n]
            /\ Accounted(sweep[s].expected) ]_tmpVars

\* No sweep keeps its fence for ever, whatever ends it.
FencesReturned == \A t \in 1 .. 2 * Cardinality(Sweeps) : token = t ~> token # t
=============================================================================
