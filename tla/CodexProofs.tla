----------------------------- MODULE CodexProofs -----------------------------
(****************************************************************************)
(* What holds of the two things that are known of Codex.                     *)
(*                                                                           *)
(* SessionIndex, for any homes, sessions, stores, caches and bounds: what a  *)
(* cache or a walk claims to know it does know, so that an answer reflects   *)
(* what was written to the sessions that stay where they are.                *)
(*                                                                           *)
(* CodexTmp, for any number of sweeps, any layouts and contents and any      *)
(* number of interferences: no two sweeps share a fence, and what a sweep    *)
(* that was not robbed of its fence removes has been vetted by its scan.     *)
(****************************************************************************)
EXTENDS SessionIndex, CodexTmp, FiniteSetTheorems, WellFoundedInduction, TLAPS

USE IndexAssumption, TmpAssumption

-----------------------------------------------------------------------------
(* Sessions, stores and what is known of them.                               *)

StoreNames == {"archived", "sessions"}
Kinds == {"dir", "denied", "astray", "none"}

Sessions == [cwd : Cwds, whole : BOOLEAN, log : SUBSET Int, since : Int]

(* A session is in one store at a time, and no store that is not there has   *)
(* any.                                                                      *)
WorldOK ==
  /\ clock \in 0 .. MaxTime
  /\ store \in [Homes -> [StoreNames -> Kinds]]
  /\ files \in [DOMAIN files -> Sessions] /\ DOMAIN files \subseteq Places
  /\ \A p \in DOMAIN files :
       /\ IsFiniteSet(files[p].log) /\ files[p].log # {}
       /\ store[p[1]][p[2]] # "none"
  /\ \A p, q \in DOMAIN files : p[1] = q[1] /\ p[3] = q[3] => p = q

(* Records are of places, and of the directories of the sessions there.      *)
Known(p, cwd) ==
  \E q \in DOMAIN files :
    q[1] = p[1] /\ q[3] = p[3] /\ cwd = WorktreeFromCWD(files[q].cwd, p[1])

Recorded(records) ==
  \A p \in DOMAIN records :
    p \in Places /\ records[p].stat.mod \in Int /\ Known(p, records[p].cwd)

(* A session that has been where it is, and where a walk could find it, since *)
(* before the horizon.                                                       *)
Settled(p, horizon) == files[p].since < horizon /\ store[p[1]][p[2]] # "astray"

Upto(p, horizon, mod) == \A t \in files[p].log : t < horizon => mod >= t

(* What homes that are available claim: to have all that was written before  *)
(* the horizon to the sessions that have been there since.                   *)
Claims(sources, records, horizon) ==
  \A p \in DOMAIN files : sources[p[1]].available /\ Settled(p, horizon) =>
    p \in DOMAIN records /\ Upto(p, horizon, records[p].stat.mod)

-----------------------------------------------------------------------------
(* The invariant.                                                            *)

Phases == {"idle", "read", "home", "list", "stat", "file", "save", "ask"}

LoadOK ==
  /\ DOMAIN load = DOMAIN Fresh /\ load = [x \in DOMAIN load |-> load[x]]
  /\ load.pc \in Phases /\ load.requires \in BOOLEAN /\ load.now \in 0 .. clock
  /\ load.roots \subseteq Homes \X StoreNames
  /\ load.root \in 1 .. 3
  /\ load.names \subseteq Places
  /\ \A p \in DOMAIN load.found : load.found[p].mod \in Int
  /\ load.sources = [h \in Homes |-> load.sources[h]]
  /\ load.pc # "idle" => load.answer = NoAnswer

(* A cache from the future claims nothing.                                   *)
CacheTrue ==
  /\ cache.created \in Int
  /\ IsCache(cache) =>
       /\ Recorded(cache.records)
       /\ cache.created <= MaxTime =>
            /\ cache.created <= clock
            /\ cache.sources = [h \in Homes |-> cache.sources[h]]
            /\ Claims(cache.sources, cache.records, cache.created)

Walking == {"list", "stat", "file"}

Rooted == {r[1] : r \in load.roots}

(* A settled session is at a root of the load, if its home has any.          *)
RootsTrue ==
  /\ load.pc \in {"read", "home"} \cup Walking =>
       \A p \in DOMAIN files : Settled(p, load.now) /\ p[1] \in Rooted =>
         <<p[1], p[2]>> \in load.roots
  /\ load.pc \in {"home"} \cup Walking => load.todo \subseteq Rooted
  /\ load.pc \in Walking => load.home \in Rooted

(* Where a walk has been, it found what is settled there.                    *)
FoundThere(p) == p \in DOMAIN load.found /\ Upto(p, load.now, load.found[p].mod)

Passed(p) == load.pc = "file" \/ \E i \in 1 .. 2 : p[2] = Stores[i] /\ i < load.root

WalkTrue ==
  load.pc \in Walking =>
    /\ \A p \in DOMAIN load.found : p \in Places /\ p[1] = load.home
    /\ \A p \in DOMAIN load.gathered :
         p \in DOMAIN load.found /\ load.gathered[p].stat = load.found[p]
    /\ load.pc # "file" => DOMAIN load.gathered = {}
    /\ Recorded(load.gathered)
    /\ load.pc = "stat" => load.root \in 1 .. 2 /\ \A p \in load.names : p[1] = load.home
    /\ load.pc = "file" => load.names \subseteq DOMAIN load.found
    /\ \A p \in DOMAIN files : p[1] = load.home /\ Settled(p, load.now) =>
         /\ Passed(p) => FoundThere(p)
         /\ load.pc = "stat" /\ p[2] = Stores[load.root] => p \in load.names
         /\ load.pc = "file" => p \in load.names \cup DOMAIN load.gathered

(* How far back an answer may be behind.                                     *)
Horizon == IF load.requires THEN load.now ELSE load.now - Window

RecordsTrue ==
  /\ load.previous.created \in Int
  /\ IsCache(load.previous) => Recorded(load.previous.records)
  /\ load.pc \in {"read", "home", "save"} \cup Walking =>
       Claims(load.sources, load.records, load.now) /\ Recorded(load.records)
  /\ load.pc = "ask" => Claims(load.sources, load.records, Horizon) /\ Recorded(load.records)

AnswerTrue ==
  load.answer # NoAnswer =>
    \A p \in DOMAIN files :
      /\ files[p].cwd = load.answer.subject
      /\ load.answer.subject.root # "orca" => p[1] = load.answer.subject.root
      /\ files[p].since < Horizon
      => Upto(p, Horizon, load.answer.latest)

IndexInv ==
  WorldOK /\ LoadOK /\ CacheTrue /\ RootsTrue /\ WalkTrue /\ RecordsTrue /\ AnswerTrue

-----------------------------------------------------------------------------
(* Places, and the greatest of a set.                                        *)

LEMMA StoresAre ==
  /\ Range(Stores) = StoreNames /\ Len(Stores) = 2
  /\ Stores[1] = "archived" /\ Stores[2] = "sessions"
<1>1. DOMAIN Stores = {1, 2} /\ Stores[1] = "archived" /\ Stores[2] = "sessions" /\ Len(Stores) = 2
  BY DEF Stores
<1> QED
  BY <1>1 DEF Range, StoreNames

LEMMA PlaceIs ==
  ASSUME NEW p \in Places
  PROVE  p = <<p[1], p[2], p[3]>> /\ p[1] \in Homes /\ p[2] \in StoreNames /\ p[3] \in Names
BY StoresAre DEF Places

LEMMA PlacesAreFinite == IsFiniteSet(Places)
<1>1. IsFiniteSet(StoreNames)
  <2>1. StoreNames = {"archived"} \cup {"sessions"}
    BY DEF StoreNames
  <2>2. IsFiniteSet({"archived"}) /\ IsFiniteSet({"sessions"})
    BY FS_Singleton
  <2> QED
    BY <2>1, <2>2, FS_Union
<1>2. IsFiniteSet(Homes \X StoreNames)
  BY <1>1, FS_Product
<1>3. IsFiniteSet((Homes \X StoreNames) \X Names)
  BY <1>2, FS_Product
<1> DEFINE f == [x \in (Homes \X StoreNames) \X Names |-> <<x[1][1], x[1][2], x[2]>>]
<1>4. f \in Surjection((Homes \X StoreNames) \X Names, Places)
  <2>1. Places = Homes \X StoreNames \X Names
    BY StoresAre DEF Places
  <2>2. \A p \in Places : f[<<<<p[1], p[2]>>, p[3]>>] = p /\ <<<<p[1], p[2]>>, p[3]>> \in (Homes \X StoreNames) \X Names
    BY <2>1
  <2>3. f \in [(Homes \X StoreNames) \X Names -> Places]
    BY <2>1
  <2> QED
    BY <2>2, <2>3 DEF Surjection
<1> QED
  BY <1>3, <1>4, FS_Surjection

(* The greatest of finitely many numbers.                                    *)
LEMMA GreatestExists ==
  ASSUME NEW T \in SUBSET Int, IsFiniteSet(T), T # {}
  PROVE  Max(T) \in T /\ \A k \in T : k <= Max(T)
<1> DEFINE above(x) == {y \in T : y > x}
           counts == {Cardinality(above(x)) : x \in T}
           R == OpToRel(<, Nat)
<1>1. ASSUME NEW x \in T
      PROVE  IsFiniteSet(above(x)) /\ Cardinality(above(x)) \in Nat
  <2>1. above(x) \in SUBSET T
    OBVIOUS
  <2>2. IsFiniteSet(above(x))
    BY <2>1, FS_Subset
  <2> QED
    BY <2>2, FS_CardinalityType
<1> HIDE DEF above
<1>2. counts \in SUBSET Nat /\ counts # {}
  BY <1>1
<1>3. PICK m \in counts : \A k \in counts : m <= k
  <2> HIDE DEF counts
  <2>1. IsWellFoundedOn(R, Nat)
    BY NatLessThanWellFounded
  <2>2. ASSUME NEW x \in Nat, NEW y \in Nat, <<x, y>> \notin R PROVE y <= x
    BY <2>2 DEF OpToRel
  <2> HIDE DEF R
  <2>3. PICK m \in counts : \A y \in counts : ~(<<y, m>> \in R)
    BY <1>2, <2>1, WFMin
  <2> QED
    BY <1>2, <2>2, <2>3
<1>4. PICK x \in T : m = Cardinality(above(x))
  BY <1>3
<1>5. ASSUME NEW y \in T, y > x PROVE FALSE
  <2>1. above(y) \in SUBSET above(x) /\ y \in above(x) /\ y \notin above(y)
    <3>1. ASSUME NEW z \in T, z > y PROVE z > x
      BY <1>5, <3>1
    <3>2. x \in T /\ x \in Int /\ y \in Int
      BY <1>4, <1>5
    <3>3. ~(y > y)
      BY <3>2
    <3>4. \A a, z : z \in above(a) <=> z \in T /\ z > a
      BY DEF above
    <3> QED
      BY <1>5, <3>1, <3>2, <3>3, <3>4
  <2>2. m <= Cardinality(above(y))
    BY <1>3
  <2>3. IsFiniteSet(above(x)) /\ Cardinality(above(x)) \in Nat /\ Cardinality(above(y)) \in Nat
    BY <1>1
  <2>4. Cardinality(above(y)) <= Cardinality(above(x)) /\ above(y) # above(x)
    BY <2>1, <2>3, FS_Subset
  <2>5. Cardinality(above(y)) # Cardinality(above(x))
    BY <2>1, <2>3, <2>4, FS_Subset
  <2> QED
    BY <1>4, <2>2, <2>3, <2>4, <2>5
<1>6. \A y \in T : y <= x
  BY <1>5
<1> QED
  BY <1>6 DEF Max

-----------------------------------------------------------------------------
(* What sessions, stores and time do, as far as an index is concerned.       *)

(* Whatever is new since the clock is, now: sessions that came where they     *)
(* are, and what was written to them. A session stays in its home.           *)
Evolves ==
  /\ clock' \in clock .. MaxTime
  /\ WorldOK'
  /\ \A p \in DOMAIN files' : files'[p].since < clock =>
       /\ p \in DOMAIN files
       /\ files'[p].cwd = files[p].cwd /\ files'[p].since = files[p].since
       /\ \A t \in files'[p].log : t < clock => t \in files[p].log
       /\ store[p[1]][p[2]] = "astray" => store'[p[1]][p[2]] = "astray"
  /\ \A p \in DOMAIN files : \E q \in DOMAIN files' :
       q[1] = p[1] /\ q[3] = p[3] /\ files'[q].cwd = files[p].cwd

LEMMA KnownStays ==
  ASSUME Evolves, NEW p, NEW cwd, Known(p, cwd)
  PROVE  Known(p, cwd)'
BY DEF Evolves, Known

LEMMA RecordedStays ==
  ASSUME Evolves, NEW records, Recorded(records)
  PROVE  Recorded(records)'
BY KnownStays DEF Recorded

LEMMA SettledBefore ==
  ASSUME WorldOK, Evolves, NEW horizon \in Int, horizon <= clock,
         NEW p \in DOMAIN files', Settled(p, horizon)'
  PROVE  /\ p \in DOMAIN files /\ Settled(p, horizon)
         /\ \A t \in files'[p].log : t < horizon => t \in files[p].log
<1>1. /\ files'[p].since < horizon /\ store'[p[1]][p[2]] # "astray"
  BY DEF Settled
<1>2. files'[p].since \in Int /\ files'[p].log \subseteq Int /\ clock \in Int
  BY DEF Evolves, WorldOK, Sessions
<1>3. files'[p].since < clock
  BY <1>1, <1>2
<1> QED
  BY <1>1, <1>2, <1>3 DEF Evolves, Settled

LEMMA UptoStays ==
  ASSUME WorldOK, Evolves, NEW horizon \in Int, horizon <= clock, NEW mod,
         NEW p \in DOMAIN files', Settled(p, horizon)', Upto(p, horizon, mod)
  PROVE  Upto(p, horizon, mod)'
BY SettledBefore DEF Upto

LEMMA ClaimsStay ==
  ASSUME WorldOK, Evolves, NEW horizon \in Int, horizon <= clock,
         NEW sources, NEW records, Claims(sources, records, horizon)
  PROVE  Claims(sources, records, horizon)'
<1> SUFFICES ASSUME NEW p \in DOMAIN files', sources[p[1]].available, Settled(p, horizon)'
             PROVE  p \in DOMAIN records /\ Upto(p, horizon, records[p].stat.mod)'
  BY DEF Claims
<1>1. p \in DOMAIN files /\ Settled(p, horizon)
  BY SettledBefore
<1>2. p \in DOMAIN records /\ Upto(p, horizon, records[p].stat.mod)
  BY <1>1 DEF Claims
<1> DEFINE mod == records[p].stat.mod
<1>3. Upto(p, horizon, mod)
  BY <1>2
<1> HIDE DEF mod
<1>4. Upto(p, horizon, mod)'
  BY <1>3, UptoStays
<1> QED
  BY <1>2, <1>4 DEF mod

(* An index stays true while sessions, stores and time move on.              *)
LEMMA EvolvesStep ==
  ASSUME IndexInv, Evolves, load' = load, cache' \in {cache, Torn}
  PROVE  IndexInv'
<1> DEFINE now == load.now
<1>1. WorldOK /\ WorldOK' /\ clock' \in Int /\ clock \in Int /\ clock <= clock'
  BY DEF IndexInv, Evolves, WorldOK
<1>2. now \in Int /\ now <= clock /\ Horizon \in Int /\ Horizon <= clock /\ Horizon' = Horizon
  BY <1>1 DEF IndexInv, LoadOK, Horizon
<1>3. LoadOK'
  BY <1>1 DEF IndexInv, LoadOK
<1>4. \A r : Recorded(r) => Recorded(r)'
  BY RecordedStays
<1>5. \A s, r : \A h \in Int : h <= clock /\ Claims(s, r, h) => Claims(s, r, h)'
  BY <1>1, ClaimsStay
<1>6. CacheTrue'
  <2>1. CASE cache' = Torn
    BY <2>1 DEF CacheTrue, Torn, IsCache
  <2>2. CASE cache' = cache
    BY <1>1, <1>4, <1>5, <2>2 DEF IndexInv, CacheTrue, IsCache
  <2> QED
    BY <2>1, <2>2
<1>7. ASSUME NEW p \in DOMAIN files', Settled(p, load.now)'
      PROVE  /\ p \in DOMAIN files /\ Settled(p, load.now)
             /\ \A t \in files'[p].log : t < load.now => t \in files[p].log
  <2>1. Settled(p, now)' /\ now' = now
    BY <1>7
  <2>2. now \in Int /\ now <= clock
    BY <1>2
  <2> HIDE DEF now
  <2>3. \A horizon \in Int : horizon <= clock /\ Settled(p, horizon)' =>
          /\ p \in DOMAIN files /\ Settled(p, horizon)
          /\ \A t \in files'[p].log : t < horizon => t \in files[p].log
    BY <1>1, SettledBefore
  <2>4. p \in DOMAIN files /\ Settled(p, now) /\ \A t \in files'[p].log : t < now => t \in files[p].log
    BY <2>1, <2>2, <2>3 DEF Settled
  <2> QED
    BY <2>4 DEF now
<1>8. RootsTrue'
  <2>1. RootsTrue /\ Rooted' = Rooted
    BY DEF IndexInv, Rooted
  <2>2. ASSUME load.pc \in {"read", "home"} \cup Walking,
               NEW p \in DOMAIN files', Settled(p, load.now)', p[1] \in Rooted
        PROVE  <<p[1], p[2]>> \in load.roots
    BY <1>7, <2>1, <2>2 DEF RootsTrue
  <2> QED
    BY <2>1, <2>2 DEF RootsTrue, Walking
<1>9. WalkTrue'
  <2>1. WalkTrue
    BY DEF IndexInv
  <2>2. ASSUME NEW p \in DOMAIN files', Settled(p, load.now)', FoundThere(p)
        PROVE  FoundThere(p)'
    BY <1>7, <2>2 DEF FoundThere, Upto
  <2>3. \A p : Passed(p)' <=> Passed(p)
    BY DEF Passed
  <2>4. ASSUME load.pc \in Walking, NEW p \in DOMAIN files', p[1] = load.home, Settled(p, load.now)'
        PROVE  /\ Passed(p)' => FoundThere(p)'
               /\ load.pc = "stat" /\ p[2] = Stores[load.root] => p \in load.names
               /\ load.pc = "file" => p \in load.names \cup DOMAIN load.gathered
    BY <1>7, <2>1, <2>2, <2>3, <2>4 DEF WalkTrue
  <2>5. load.pc \in Walking => Recorded(load.gathered)'
    BY <1>4, <2>1 DEF WalkTrue
  <2> QED
    BY <2>1, <2>4, <2>5 DEF WalkTrue
<1>10. RecordsTrue'
  BY <1>1, <1>2, <1>4, <1>5 DEF now, IndexInv, RecordsTrue, IsCache
<1>11. AnswerTrue'
  <2> SUFFICES ASSUME load.answer # NoAnswer, NEW p \in DOMAIN files',
                      files'[p].cwd = load.answer.subject,
                      load.answer.subject.root # "orca" => p[1] = load.answer.subject.root,
                      files'[p].since < Horizon,
                      NEW t \in files'[p].log, t < Horizon
               PROVE  load.answer.latest >= t
    BY <1>2 DEF AnswerTrue, Upto
  <2>1. files'[p].since \in Int /\ t \in Int
    BY <1>1 DEF WorldOK, Sessions
  <2>2. files'[p].since < clock /\ t < clock
    BY <1>1, <1>2, <2>1
  <2>3. p \in DOMAIN files /\ files'[p].cwd = files[p].cwd /\ files'[p].since = files[p].since
          /\ t \in files[p].log
    BY <2>2 DEF Evolves
  <2> QED
    BY <2>3 DEF IndexInv, AnswerTrue, Upto
<1> QED
  BY <1>1, <1>3, <1>6, <1>8, <1>9, <1>10, <1>11 DEF IndexInv

(* A world in which only sessions of one name, or their store, change.       *)
LEMMA TimeEvolves == ASSUME IndexInv, Tick PROVE Evolves
BY DEF Tick, world, IndexInv, WorldOK, Evolves

LEMMA OtherSaveEvolves == ASSUME IndexInv, OtherSave PROVE Evolves
BY DEF OtherSave, Change, IndexInv, WorldOK, Evolves

LEMMA StartEvolves ==
  ASSUME IndexInv, NEW h \in Homes, NEW n \in Names, Start(h, n)
  PROVE  Evolves
<1> DEFINE new == <<h, "sessions", n>>
<1>1. PICK cwd \in Cwds, whole \in BOOLEAN :
        files' = With(files, new, [cwd |-> cwd, whole |-> whole, log |-> {clock}, since |-> clock])
  BY DEF Start
<1> DEFINE rec == [cwd |-> cwd, whole |-> whole, log |-> {clock}, since |-> clock]
<1>2. /\ clock' = clock /\ store' = store /\ store[h]["sessions"] = "dir"
      /\ \A s \in StoreNames : <<h, s, n>> \notin DOMAIN files
      /\ clock \in Int /\ clock \in 0 .. MaxTime /\ WorldOK
  BY StoresAre DEF Start, Change, IndexInv, WorldOK
<1>3. new \in Places /\ new[1] = h /\ new[2] = "sessions" /\ new[3] = n
  BY StoresAre DEF Places, StoreNames
<1>4. rec \in Sessions /\ IsFiniteSet(rec.log) /\ rec.log # {} /\ rec.since = clock
  BY <1>2, FS_Singleton DEF Sessions
<1> HIDE DEF new, rec
<1>5. /\ DOMAIN files' = {new} \cup DOMAIN files /\ files'[new] = rec
      /\ \A q \in DOMAIN files \ {new} : files'[q] = files[q]
      /\ files' = [q \in DOMAIN files' |-> files'[q]]
  <2>1. files' = With(files, new, rec)
    BY <1>1 DEF new, rec
  <2> QED
    BY <2>1 DEF With, Over
<1>6. new \notin DOMAIN files
  BY <1>2 DEF new, StoreNames
<1>7. files' \in [DOMAIN files' -> Sessions] /\ DOMAIN files' \subseteq Places
  BY <1>2, <1>3, <1>4, <1>5 DEF WorldOK
<1>8. \A p \in DOMAIN files' :
        /\ IsFiniteSet(files'[p].log) /\ files'[p].log # {}
        /\ store'[p[1]][p[2]] # "none"
  BY <1>2, <1>3, <1>4, <1>5 DEF WorldOK
<1>9. ASSUME NEW p \in DOMAIN files', NEW q \in DOMAIN files', p[1] = q[1], p[3] = q[3]
      PROVE  p = q
  <2>1. ASSUME NEW x \in DOMAIN files, x[1] = h, x[3] = n PROVE FALSE
    <3>1. x = <<h, x[2], n>> /\ x[2] \in StoreNames
      BY <1>2, <2>1, PlaceIs DEF WorldOK
    <3> QED
      BY <1>2, <3>1
  <2>2. p = new <=> q = new
    BY <1>3, <1>5, <1>9, <2>1
  <2> QED
    BY <1>2, <1>5, <1>9, <2>2 DEF WorldOK
<1>10. WorldOK'
  BY <1>2, <1>7, <1>8, <1>9 DEF WorldOK
<1>11. ASSUME NEW p \in DOMAIN files', files'[p].since < clock PROVE p \in DOMAIN files \ {new}
  BY <1>2, <1>4, <1>5, <1>11
<1> QED
  BY <1>2, <1>5, <1>6, <1>10, <1>11 DEF Evolves

LEMMA WriteEvolves ==
  ASSUME IndexInv, NEW p, Write(p)
  PROVE  Evolves
<1>1. /\ clock' = clock /\ store' = store /\ p \in DOMAIN files
      /\ files' = [files EXCEPT ![p].log = @ \cup {clock}, ![p].whole = TRUE]
      /\ clock \in Int /\ clock \in 0 .. MaxTime /\ WorldOK
  BY DEF Write, Change, IndexInv, WorldOK
<1>2. files \in [DOMAIN files -> Sessions]
  BY <1>1 DEF WorldOK
<1>3. /\ DOMAIN files' = DOMAIN files
      /\ \A q \in DOMAIN files \ {p} : files'[q] = files[q]
      /\ files'[p].cwd = files[p].cwd /\ files'[p].since = files[p].since
      /\ files'[p].log = files[p].log \cup {clock}
      /\ files' \in [DOMAIN files -> Sessions]
  BY <1>1, <1>2 DEF Sessions
<1>4. IsFiniteSet(files'[p].log)
  <2>1. IsFiniteSet(files[p].log)
    BY <1>1 DEF WorldOK
  <2>2. IsFiniteSet(files[p].log \cup {clock})
    BY <2>1, FS_AddElement
  <2> QED
    BY <1>3, <2>2
<1>5. WorldOK'
  BY <1>1, <1>3, <1>4 DEF WorldOK
<1>6. \A q \in DOMAIN files : files'[q].cwd = files[q].cwd /\ files'[q].since = files[q].since
  BY <1>3
<1>7. \A q \in DOMAIN files : \A t \in files'[q].log : t < clock => t \in files[q].log
  BY <1>1, <1>3
<1> QED
  BY <1>1, <1>3, <1>5, <1>6, <1>7 DEF Evolves

LEMMA MoveEvolves ==
  ASSUME IndexInv, NEW p, Move(p)
  PROVE  Evolves
<1>1. PICK s \in StoreNames \ {p[2]} :
        /\ store[p[1]][s] = "dir" /\ store[p[1]][p[2]] = "dir"
        /\ files' = With(Restrict(files, DOMAIN files \ {p}), <<p[1], s, p[3]>>,
                         [files[p] EXCEPT !.since = clock])
  BY StoresAre DEF Move
<1> DEFINE q == <<p[1], s, p[3]>>
           rec == [files[p] EXCEPT !.since = clock]
           rest == Restrict(files, DOMAIN files \ {p})
<1>2. /\ clock' = clock /\ store' = store /\ p \in DOMAIN files /\ p \in Places
      /\ clock \in Int /\ clock \in 0 .. MaxTime /\ WorldOK
  BY DEF Move, Change, IndexInv, WorldOK
<1>3. files[p] \in Sessions
  BY <1>2 DEF WorldOK
<1>4. /\ rec \in Sessions /\ rec.log = files[p].log /\ rec.since = clock /\ rec.cwd = files[p].cwd
  BY <1>2, <1>3 DEF Sessions
<1>5. q \in Places /\ q[1] = p[1] /\ q[2] = s /\ q[3] = p[3] /\ q # p
  BY <1>1, <1>2, PlaceIs, StoresAre DEF Places
<1>6. q \notin DOMAIN files
  BY <1>2, <1>5 DEF WorldOK
<1>7. /\ DOMAIN rest = DOMAIN files \ {p}
      /\ \A x \in DOMAIN files \ {p} : rest[x] = files[x]
  BY DEF Restrict
<1>8. files' = With(rest, q, rec)
  BY <1>1
<1> HIDE DEF q, rec, rest
<1>9. /\ DOMAIN files' = {q} \cup (DOMAIN files \ {p}) /\ files'[q] = rec
      /\ \A x \in DOMAIN files \ {p} : files'[x] = files[x]
      /\ files' = [x \in DOMAIN files' |-> files'[x]]
  <2>1. /\ DOMAIN With(rest, q, rec) = {q} \cup DOMAIN rest
        /\ With(rest, q, rec)[q] = rec
        /\ \A x \in DOMAIN rest \ {q} : With(rest, q, rec)[x] = rest[x]
        /\ With(rest, q, rec) = [x \in DOMAIN With(rest, q, rec) |-> With(rest, q, rec)[x]]
    BY DEF With, Over
  <2> QED
    BY <1>6, <1>7, <1>8, <2>1
<1>10. files' \in [DOMAIN files' -> Sessions] /\ DOMAIN files' \subseteq Places
  BY <1>2, <1>4, <1>5, <1>9 DEF WorldOK
<1>11. \A x \in DOMAIN files' :
        /\ IsFiniteSet(files'[x].log) /\ files'[x].log # {}
        /\ store'[x[1]][x[2]] # "none"
  <2>1. \A x \in DOMAIN files :
          IsFiniteSet(files[x].log) /\ files[x].log # {} /\ store[x[1]][x[2]] # "none"
    BY <1>2 DEF WorldOK
  <2>2. files'[q].log = files[p].log
    BY <1>4, <1>9
  <2>4. store'[q[1]][q[2]] # "none"
    BY <1>1, <1>2, <1>5
  <2>3. \A x \in DOMAIN files \ {p} :
          IsFiniteSet(files'[x].log) /\ files'[x].log # {} /\ store'[x[1]][x[2]] # "none"
    BY <1>2, <1>9, <2>1
  <2> QED
    BY <1>2, <1>9, <2>1, <2>2, <2>3, <2>4
<1>12. ASSUME NEW x \in DOMAIN files', NEW y \in DOMAIN files', x[1] = y[1], x[3] = y[3]
       PROVE  x = y
  <2>1. ASSUME NEW z \in DOMAIN files \ {p}, z[1] = p[1], z[3] = p[3] PROVE FALSE
    BY <1>2, <2>1 DEF WorldOK
  <2>2. x = q <=> y = q
    BY <1>5, <1>9, <1>12, <2>1
  <2> QED
    BY <1>2, <1>9, <1>12, <2>2 DEF WorldOK
<1>13. WorldOK'
  BY <1>2, <1>10, <1>11, <1>12 DEF WorldOK
<1>14. ASSUME NEW x \in DOMAIN files', files'[x].since < clock PROVE x \in DOMAIN files \ {p}
  BY <1>2, <1>4, <1>9, <1>14
<1>15. \A x \in DOMAIN files : \E y \in DOMAIN files' :
         y[1] = x[1] /\ y[3] = x[3] /\ files'[y].cwd = files[x].cwd
  BY <1>4, <1>5, <1>9
<1> QED
  BY <1>2, <1>9, <1>13, <1>14, <1>15 DEF Evolves

LEMMA ReplaceEvolves ==
  ASSUME IndexInv, NEW h \in Homes, NEW s \in StoreNames, NEW kind, Replace(h, s, kind)
  PROVE  Evolves
<1>1. /\ clock' = clock /\ store' = [store EXCEPT ![h][s] = kind]
      /\ kind \in {"dir", "denied", "astray"}
      /\ clock \in Int /\ clock \in 0 .. MaxTime /\ WorldOK
  BY DEF Replace, Change, IndexInv, WorldOK
<1>2. files' = IF "astray" \in {store[h][s], kind}
               THEN [p \in DOMAIN files |-> IF p \in Listed(h, s)
                       THEN [files[p] EXCEPT !.since = clock] ELSE files[p]]
               ELSE files
  BY DEF Replace
<1>3. store' \in [Homes -> [StoreNames -> Kinds]]
  BY <1>1 DEF WorldOK, Kinds
<1>4. \A g \in Homes, r \in StoreNames : ~(g = h /\ r = s) => store'[g][r] = store[g][r]
  BY <1>1 DEF WorldOK
<1>5. store'[h][s] = kind
  BY <1>1 DEF WorldOK
<1>6. \A p \in DOMAIN files : p[1] \in Homes /\ p[2] \in StoreNames /\ files[p] \in Sessions
  BY <1>1, PlaceIs DEF WorldOK
<1>7. /\ DOMAIN files' = DOMAIN files /\ files' \in [DOMAIN files -> Sessions]
      /\ \A p \in DOMAIN files :
           /\ files'[p].cwd = files[p].cwd /\ files'[p].log = files[p].log
           /\ files'[p].since \in {files[p].since, clock}
           /\ p[1] = h /\ p[2] = s /\ "astray" \in {store[h][s], kind} => files'[p].since = clock
  <2>1. CASE "astray" \in {store[h][s], kind}
    <3>1. files' = [p \in DOMAIN files |-> IF p \in Listed(h, s)
                       THEN [files[p] EXCEPT !.since = clock] ELSE files[p]]
      BY <1>2, <2>1
    <3>2. \A p \in DOMAIN files :
            /\ [files[p] EXCEPT !.since = clock] \in Sessions
            /\ [files[p] EXCEPT !.since = clock].cwd = files[p].cwd
            /\ [files[p] EXCEPT !.since = clock].log = files[p].log
            /\ [files[p] EXCEPT !.since = clock].since = clock
      BY <1>1, <1>6 DEF Sessions
    <3>3. \A p \in DOMAIN files : p[1] = h /\ p[2] = s <=> p \in Listed(h, s)
      BY DEF Listed
    <3> QED
      BY <1>6, <3>1, <3>2, <3>3
  <2>2. CASE "astray" \notin {store[h][s], kind}
    BY <1>1, <1>2, <2>2 DEF WorldOK
  <2> QED
    BY <2>1, <2>2
<1>8. WorldOK'
  BY <1>1, <1>3, <1>4, <1>5, <1>6, <1>7 DEF WorldOK
<1>9. ASSUME NEW p \in DOMAIN files', files'[p].since < clock
      PROVE  /\ files'[p].since = files[p].since
             /\ store[p[1]][p[2]] = "astray" => store'[p[1]][p[2]] = "astray"
  <2>1. files'[p].since = files[p].since
    BY <1>1, <1>7, <1>9
  <2>2. CASE p[1] = h /\ p[2] = s
    BY <1>1, <1>7, <1>9, <2>2
  <2>3. CASE ~(p[1] = h /\ p[2] = s)
    <3>1. p[1] \in Homes /\ p[2] \in StoreNames
      BY <1>6, <1>7
    <3>2. store'[p[1]][p[2]] = store[p[1]][p[2]]
      BY <1>4, <2>3, <3>1
    <3> QED
      BY <2>1, <3>2
  <2> QED
    BY <2>1, <2>2, <2>3
<1>10. \A p \in DOMAIN files : files'[p].cwd = files[p].cwd /\ files'[p].log = files[p].log
  BY <1>7
<1> QED
  BY <1>1, <1>7, <1>8, <1>9, <1>10 DEF Evolves

LEMMA WorldStep == ASSUME IndexInv, World PROVE IndexInv'
<1>1. load' = load /\ cache' \in {cache, Torn}
  BY DEF World, Start, Write, Move, Replace, OtherSave, Change
<1>2. Evolves
  BY StoresAre, StartEvolves, WriteEvolves, MoveEvolves, ReplaceEvolves, OtherSaveEvolves DEF World
<1> QED
  BY <1>1, <1>2, EvolvesStep

LEMMA TickStep == ASSUME IndexInv, Tick PROVE IndexInv'
<1>1. load' = load /\ cache' = cache
  BY DEF Tick
<1> QED
  BY <1>1, TimeEvolves, EvolvesStep

-----------------------------------------------------------------------------
(* The steps of a load.                                                      *)

LEMMA EmptyIs == DOMAIN <<>> = {}
OBVIOUS

LEMMA FieldsAre ==
  DOMAIN Fresh = {"pc", "requires", "now", "roots", "previous", "todo", "home", "root", "names",
                  "found", "gathered", "sources", "records", "wrote", "answer"}
BY DEF Fresh

LEMMA FreshIs ==
  /\ Fresh.pc = "idle" /\ Fresh.requires = FALSE /\ Fresh.now = 0 /\ Fresh.roots = {}
  /\ Fresh.previous = NoCache /\ Fresh.root = 1 /\ Fresh.names = {} /\ Fresh.found = <<>>
  /\ Fresh.sources = NoSources /\ Fresh.answer = NoAnswer
  /\ Fresh = [x \in DOMAIN Fresh |-> Fresh[x]]
BY DEF Fresh

LEMMA FreshOK ==
  /\ Fresh = [x \in DOMAIN Fresh |-> Fresh[x]]
  /\ Fresh.pc = "idle" /\ Fresh.pc \in Phases
  /\ Fresh.requires \in BOOLEAN /\ Fresh.now = 0
  /\ Fresh.roots \subseteq Homes \X StoreNames /\ Fresh.root \in 1 .. 3
  /\ Fresh.names \subseteq Places
  /\ \A p \in DOMAIN Fresh.found : Fresh.found[p].mod \in Int
  /\ Fresh.sources = [h \in Homes |-> Fresh.sources[h]]
  /\ Fresh.answer = NoAnswer
<1>1. Fresh.requires \in BOOLEAN
  BY DEF Fresh
<1>2. Fresh.sources = [h \in Homes |-> Fresh.sources[h]]
  BY FreshIs DEF NoSources
<1>3. \A p \in DOMAIN Fresh.found : Fresh.found[p].mod \in Int
  BY FreshIs, EmptyIs
<1>4. Fresh.pc \in Phases /\ Fresh.roots \subseteq Homes \X StoreNames /\ Fresh.root \in 1 .. 3
        /\ Fresh.names \subseteq Places
  BY FreshIs DEF Phases
<1> QED
  BY FreshIs, <1>1, <1>2, <1>3, <1>4

(* What a load knows is as true after a step of its own.                      *)
LEMMA StandStill ==
  ASSUME UNCHANGED <<clock, world>>
  PROVE  /\ WorldOK => WorldOK'
         /\ \A p, cwd : Known(p, cwd) => Known(p, cwd)'
         /\ \A r : Recorded(r) => Recorded(r)'
         /\ \A s, r, h : Claims(s, r, h) => Claims(s, r, h)'
         /\ \A p, h : Settled(p, h)' <=> Settled(p, h)
         /\ \A p, h, m : Upto(p, h, m)' <=> Upto(p, h, m)
<1>1. clock' = clock /\ store' = store /\ files' = files
  BY DEF world
<1>2. WorldOK => WorldOK'
  BY <1>1 DEF WorldOK
<1>3. \A p, cwd : Known(p, cwd) => Known(p, cwd)'
  BY <1>1 DEF Known
<1>4. \A r : Recorded(r) => Recorded(r)'
  BY <1>3 DEF Recorded
<1>5. \A p, h : Settled(p, h)' <=> Settled(p, h)
  BY <1>1 DEF Settled
<1>6. \A p, h, m : Upto(p, h, m)' <=> Upto(p, h, m)
  BY <1>1 DEF Upto
<1>7. \A s, r, h : Claims(s, r, h) => Claims(s, r, h)'
  BY <1>1, <1>5, <1>6 DEF Claims
<1> QED
  BY <1>2, <1>3, <1>4, <1>5, <1>6, <1>7

LEMMA CacheStands ==
  ASSUME IndexInv, UNCHANGED <<clock, world, cache>>
  PROVE  WorldOK' /\ CacheTrue'
<1>1. clock' = clock /\ cache' = cache /\ UNCHANGED <<clock, world>>
  OBVIOUS
<1> QED
  BY <1>1, StandStill DEF IndexInv, CacheTrue, IsCache

(* What is claimed up to a horizon is claimed up to an earlier one.           *)
LEMMA ClaimsEarlier ==
  ASSUME WorldOK, NEW horizon \in Int, NEW earlier \in Int, earlier <= horizon,
         NEW sources, NEW records, Claims(sources, records, horizon)
  PROVE  Claims(sources, records, earlier)
<1> SUFFICES ASSUME NEW p \in DOMAIN files, sources[p[1]].available, Settled(p, earlier)
             PROVE  p \in DOMAIN records /\ Upto(p, earlier, records[p].stat.mod)
  BY DEF Claims
<1>1. files[p].since \in Int /\ files[p].log \subseteq Int
  BY DEF WorldOK, Sessions
<1>2. Settled(p, horizon)
  BY <1>1 DEF Settled
<1>3. p \in DOMAIN records /\ Upto(p, horizon, records[p].stat.mod)
  BY <1>2 DEF Claims
<1> QED
  BY <1>1, <1>3 DEF Upto

LEMMA InitInv == ASSUME Init PROVE IndexInv
<1>1. /\ clock = 0 /\ store \in InitialStores /\ files \in InitialFiles /\ cache \in InitialCaches
      /\ \A p \in DOMAIN files : store[p[1]][p[2]] \in {"dir", "denied"}
      /\ load = Fresh
  BY DEF Init
<1>2. WorldOK
  <2>1. store \in [Homes -> [StoreNames -> Kinds]]
    BY <1>1, WorldAssumption DEF StoreNames, Kinds
  <2>2. files \in [DOMAIN files -> Sessions] /\ DOMAIN files \subseteq Places
    BY <1>1, WorldAssumption DEF Sessions
  <2>3. \A p \in DOMAIN files : IsFiniteSet(files[p].log) /\ files[p].log # {}
    BY <1>1, WorldAssumption
  <2>4. \A p, q \in DOMAIN files : p[1] = q[1] /\ p[3] = q[3] => p = q
    BY <1>1, WorldAssumption
  <2> QED
    BY <1>1, <2>1, <2>2, <2>3, <2>4 DEF WorldOK
<1>3. LoadOK
  BY <1>1, <1>2, FreshOK DEF LoadOK, WorldOK
<1>4. CacheTrue
  <2>1. CASE cache \in {NoCache, Torn}
    BY <2>1 DEF CacheTrue, NoCache, Torn, IsCache
  <2>2. CASE cache \notin {NoCache, Torn}
    <3>1. /\ cache.created \in Int /\ cache.created > MaxTime
          /\ DOMAIN cache.records \subseteq Places
          /\ \A p \in DOMAIN cache.records :
               /\ cache.records[p].stat.mod \in Int
               /\ \E q \in DOMAIN files : /\ q[1] = p[1] /\ q[3] = p[3]
                                         /\ cache.records[p].cwd = WorktreeFromCWD(files[q].cwd, p[1])
      BY <1>1, <2>2, WorldAssumption
    <3> QED
      BY <3>1 DEF CacheTrue, Recorded, Known
  <2> QED
    BY <2>1, <2>2
<1>5. load.pc = "idle" /\ load.previous = NoCache /\ load.answer = NoAnswer
  BY <1>1 DEF Fresh
<1>6. RootsTrue /\ WalkTrue
  BY <1>5 DEF RootsTrue, WalkTrue, Walking
<1>7. RecordsTrue
  BY <1>5 DEF RecordsTrue, Walking, NoCache, IsCache
<1>8. AnswerTrue
  BY <1>5 DEF AnswerTrue
<1> QED
  BY <1>2, <1>3, <1>4, <1>6, <1>7, <1>8 DEF IndexInv

LEMMA StopStep == ASSUME IndexInv, Stop PROVE IndexInv'
<1>1. load' = Fresh /\ UNCHANGED <<clock, world, cache>>
  BY DEF Stop
<1>2. WorldOK' /\ CacheTrue'
  BY <1>1, CacheStands
<1>3. LoadOK'
  BY <1>1, <1>2, FreshOK DEF LoadOK, WorldOK
<1>4. load'.pc = "idle" /\ load'.previous = NoCache /\ load'.answer = NoAnswer
  BY <1>1 DEF Fresh
<1>5. RootsTrue' /\ WalkTrue'
  BY <1>4 DEF RootsTrue, WalkTrue, Walking
<1>6. RecordsTrue'
  BY <1>4 DEF RecordsTrue, Walking, NoCache, IsCache
<1>7. AnswerTrue'
  BY <1>4 DEF AnswerTrue
<1> QED
  BY <1>2, <1>3, <1>5, <1>6, <1>7 DEF IndexInv

LEMMA BeginStep == ASSUME IndexInv, Begin PROVE IndexInv'
<1>1. PICK requires \in BOOLEAN :
        load' = [Fresh EXCEPT !.pc = "read", !.requires = requires, !.now = clock, !.roots = Roots]
  BY DEF Begin
<1>2. UNCHANGED <<clock, world, cache>> /\ clock' = clock /\ store' = store /\ files' = files
  BY DEF Begin, world
<1>3. WorldOK' /\ CacheTrue' /\ WorldOK
  BY <1>2, CacheStands DEF IndexInv
<1>4. /\ load'.pc = "read" /\ load'.requires = requires /\ load'.now = clock /\ load'.roots = Roots
      /\ load'.previous = NoCache /\ load'.sources = NoSources /\ load'.records = <<>>
      /\ load'.answer = NoAnswer /\ load'.root = 1 /\ load'.names = {} /\ load'.found = <<>>
      /\ DOMAIN load' = DOMAIN Fresh /\ load' = [x \in DOMAIN load' |-> load'[x]]
  BY <1>1 DEF Fresh
<1>5. Roots \subseteq Homes \X StoreNames
  BY StoresAre DEF Roots, CurrentHomes
<1>6. LoadOK'
  BY <1>2, <1>3, <1>4, <1>5, EmptyIs DEF LoadOK, Phases, NoSources, WorldOK
<1>7. RootsTrue'
  <2>1. ASSUME NEW p \in DOMAIN files, Settled(p, clock), p[1] \in {r[1] : r \in Roots}
        PROVE  <<p[1], p[2]>> \in Roots
    <3>1. p[1] \in CurrentHomes
      BY <2>1 DEF Roots
    <3>2. p[2] \in StoreNames
      BY <1>3, PlaceIs DEF WorldOK
    <3> QED
      BY <2>1, <3>1, <3>2, StoresAre DEF Roots, Settled
  <2>2. \A p : Settled(p, clock)' => Settled(p, clock)
    BY <1>2 DEF Settled
  <2> QED
    BY <1>2, <1>4, <2>1, <2>2 DEF RootsTrue, Walking, Rooted
<1>8. WalkTrue'
  BY <1>4 DEF WalkTrue, Walking
<1>9. RecordsTrue'
  <2>1. \A p \in DOMAIN files' : NoSources[p[1]].available = FALSE
    BY <1>3, PlaceIs DEF WorldOK, NoSources, NoCoverage
  <2>2. Claims(load.sources, load.records, load.now)'
    BY <1>4, <2>1 DEF Claims
  <2>3. Recorded(load.records)'
    BY <1>4, EmptyIs DEF Recorded
  <2> QED
    BY <1>4, <2>2, <2>3 DEF RecordsTrue, NoCache, IsCache, Walking
<1>10. AnswerTrue'
  BY <1>4 DEF AnswerTrue
<1> QED
  BY <1>3, <1>6, <1>7, <1>8, <1>9, <1>10 DEF IndexInv

LEMMA ReadCacheStep == ASSUME IndexInv, ReadCache PROVE IndexInv'
<1> DEFINE usable == IsCache(cache) /\ cache.roots = load.roots
<1>1. /\ UNCHANGED <<clock, world, cache>> /\ clock' = clock /\ files' = files /\ load.pc = "read"
      /\ IF usable /\ FreshEnough(cache)
         THEN load' = [load EXCEPT !.pc = "ask", !.roots = {},
                         !.sources = cache.sources, !.records = cache.records]
         ELSE load' = [load EXCEPT !.pc = "home",
                         !.previous = IF usable THEN cache ELSE NoCache,
                         !.todo = {r[1] : r \in load.roots}]
  BY DEF ReadCache, world, At
<1>2. /\ WorldOK' /\ CacheTrue' /\ WorldOK /\ CacheTrue /\ LoadOK /\ RootsTrue /\ RecordsTrue
      /\ DOMAIN load = DOMAIN Fresh /\ load.answer = NoAnswer
  BY <1>1, CacheStands DEF IndexInv, LoadOK
<1>3. CASE usable /\ FreshEnough(cache)
  <2>1. /\ load'.pc = "ask" /\ load'.requires = load.requires /\ load'.now = load.now
        /\ load'.roots = {} /\ load'.previous = load.previous /\ load'.sources = cache.sources
        /\ load'.records = cache.records /\ load'.answer = NoAnswer /\ load'.root = load.root
        /\ load'.names = load.names /\ load'.found = load.found
        /\ DOMAIN load' = DOMAIN Fresh /\ load' = [x \in DOMAIN load' |-> load'[x]]
    BY <1>1, <1>2, <1>3, FieldsAre
  <2>2. /\ ~load.requires /\ cache.created \in Int /\ load.now \in Int /\ clock <= MaxTime
        /\ load.now - cache.created \in 0 .. Window /\ load.now <= clock /\ clock \in Int
    BY <1>2, <1>3, IndexAssumption DEF FreshEnough, CacheTrue, LoadOK, WorldOK
  <2>3. cache.created <= MaxTime
    BY <2>2
  <2>4. /\ Recorded(cache.records) /\ cache.sources = [h \in Homes |-> cache.sources[h]]
        /\ Claims(cache.sources, cache.records, cache.created)
    BY <1>2, <1>3, <2>3 DEF CacheTrue
  <2>5. LoadOK'
    BY <1>1, <1>2, <2>1, <2>4 DEF LoadOK, Phases
  <2>6. Horizon' = load.now - Window
    BY <2>1, <2>2 DEF Horizon
  <2>7. load.now - Window \in Int /\ load.now - Window <= cache.created
    BY <2>2
  <2>8. Claims(cache.sources, cache.records, load.now - Window)
    BY <1>2, <2>2, <2>4, <2>7, ClaimsEarlier
  <2>9. RecordsTrue'
    <3>1. \A r : Recorded(r) => Recorded(r)'
      BY <1>1, StandStill
    <3>2. \A s, r, h : Claims(s, r, h) => Claims(s, r, h)'
      BY <1>1, StandStill
    <3> QED
      BY <1>2, <2>1, <2>4, <2>6, <2>8, <3>1, <3>2 DEF RecordsTrue, Walking, IsCache
  <2>10. RootsTrue' /\ WalkTrue' /\ AnswerTrue'
    BY <2>1 DEF RootsTrue, WalkTrue, AnswerTrue, Walking
  <2> QED
    BY <1>2, <2>5, <2>9, <2>10 DEF IndexInv
<1>4. CASE ~(usable /\ FreshEnough(cache))
  <2>1. /\ load'.pc = "home" /\ load'.requires = load.requires /\ load'.now = load.now
        /\ load'.roots = load.roots /\ load'.previous = (IF usable THEN cache ELSE NoCache)
        /\ load'.sources = load.sources /\ load'.todo = {r[1] : r \in load.roots}
        /\ load'.records = load.records /\ load'.answer = NoAnswer /\ load'.root = load.root
        /\ load'.names = load.names /\ load'.found = load.found
        /\ DOMAIN load' = DOMAIN Fresh /\ load' = [x \in DOMAIN load' |-> load'[x]]
    BY <1>1, <1>2, <1>4, FieldsAre
  <2>2. LoadOK'
    BY <1>1, <1>2, <2>1 DEF LoadOK, Phases
  <2>3. \A p, h : Settled(p, h)' <=> Settled(p, h)
    BY <1>1, StandStill
  <2>4. RootsTrue'
    BY <1>1, <1>2, <2>1, <2>3 DEF RootsTrue, Rooted, Walking
  <2>5. RecordsTrue'
    <3>1. \A r : Recorded(r) => Recorded(r)'
      BY <1>1, StandStill
    <3>2. \A s, r, h : Claims(s, r, h) => Claims(s, r, h)'
      BY <1>1, StandStill
    <3>3. load'.previous.created \in Int
      BY <1>2, <2>1 DEF CacheTrue, NoCache
    <3>4. IsCache(load'.previous) => Recorded(load'.previous.records)
      BY <1>2, <2>1 DEF CacheTrue, NoCache, IsCache
    <3>5. Claims(load.sources, load.records, load.now) /\ Recorded(load.records)
      BY <1>1, <1>2 DEF RecordsTrue
    <3> QED
      BY <2>1, <3>1, <3>2, <3>3, <3>4, <3>5 DEF RecordsTrue, Walking, IsCache
  <2>6. WalkTrue' /\ AnswerTrue'
    BY <2>1 DEF WalkTrue, AnswerTrue, Walking
  <2> QED
    BY <1>2, <2>2, <2>4, <2>5, <2>6 DEF IndexInv
<1> QED
  BY <1>3, <1>4

LEMMA StartHomeStep == ASSUME IndexInv, StartHome PROVE IndexInv'
<1>1. PICK h \in load.todo :
        load' = [load EXCEPT !.pc = "list", !.home = h, !.todo = @ \ {h},
                   !.root = 1, !.found = <<>>, !.gathered = <<>>]
  BY DEF StartHome
<1>2. UNCHANGED <<clock, world, cache>> /\ clock' = clock /\ files' = files /\ load.pc = "home"
  BY DEF StartHome, world, At
<1>3. /\ WorldOK' /\ CacheTrue' /\ WorldOK /\ LoadOK /\ RootsTrue /\ RecordsTrue
      /\ DOMAIN load = DOMAIN Fresh /\ load.answer = NoAnswer
  BY <1>2, CacheStands DEF IndexInv, LoadOK
<1>4. /\ load'.pc = "list" /\ load'.requires = load.requires /\ load'.now = load.now
      /\ load'.roots = load.roots /\ load'.previous = load.previous
      /\ load'.sources = load.sources /\ load'.todo = load.todo \ {h} /\ load'.home = h
      /\ load'.records = load.records /\ load'.answer = NoAnswer /\ load'.root = 1
      /\ load'.names = load.names /\ load'.found = <<>> /\ load'.gathered = <<>>
      /\ DOMAIN load' = DOMAIN Fresh /\ load' = [x \in DOMAIN load' |-> load'[x]]
  BY <1>1, <1>3, FieldsAre
<1>5. LoadOK'
  BY <1>2, <1>3, <1>4, EmptyIs DEF LoadOK, Phases
<1>6. RootsTrue'
  <2>1. \A p, t : Settled(p, t)' <=> Settled(p, t)
    BY <1>2, StandStill
  <2>2. h \in Rooted
    BY <1>2, <1>3 DEF RootsTrue
  <2> QED
    BY <1>2, <1>3, <1>4, <2>1, <2>2 DEF RootsTrue, Rooted, Walking
<1>7. WalkTrue'
  <2>1. \A p : ~Passed(p)'
    BY <1>4 DEF Passed
  <2>2. Recorded(load.gathered)'
    BY <1>4, EmptyIs DEF Recorded
  <2> QED
    BY <1>4, <2>1, <2>2, EmptyIs DEF WalkTrue
<1>8. RecordsTrue'
  <2>1. \A r : Recorded(r) => Recorded(r)'
    BY <1>2, StandStill
  <2>2. \A s, r, t : Claims(s, r, t) => Claims(s, r, t)'
    BY <1>2, StandStill
  <2> QED
    BY <1>2, <1>3, <1>4, <2>1, <2>2 DEF RecordsTrue, IsCache
<1>9. AnswerTrue'
  BY <1>4 DEF AnswerTrue
<1> QED
  BY <1>3, <1>5, <1>6, <1>7, <1>8, <1>9 DEF IndexInv

LEMMA EndRefreshStep == ASSUME IndexInv, EndRefresh PROVE IndexInv'
<1>1. /\ load' = [load EXCEPT !.pc = "save", !.previous = NoCache]
      /\ UNCHANGED <<clock, world, cache>> /\ clock' = clock /\ load.pc = "home"
  BY DEF EndRefresh, At
<1>2. /\ WorldOK' /\ CacheTrue' /\ WorldOK /\ LoadOK /\ RecordsTrue
      /\ DOMAIN load = DOMAIN Fresh /\ load.answer = NoAnswer
  BY <1>1, CacheStands DEF IndexInv, LoadOK
<1>3. /\ load'.pc = "save" /\ load'.requires = load.requires /\ load'.now = load.now
      /\ load'.roots = load.roots /\ load'.previous = NoCache /\ load'.sources = load.sources
      /\ load'.records = load.records /\ load'.answer = NoAnswer /\ load'.root = load.root
      /\ load'.names = load.names /\ load'.found = load.found
      /\ DOMAIN load' = DOMAIN Fresh /\ load' = [x \in DOMAIN load' |-> load'[x]]
  BY <1>1, <1>2, FieldsAre
<1>4. LoadOK'
  BY <1>1, <1>2, <1>3 DEF LoadOK, Phases
<1>5. RecordsTrue'
  <2>1. \A r : Recorded(r) => Recorded(r)'
    BY <1>1, StandStill
  <2>2. \A s, r, t : Claims(s, r, t) => Claims(s, r, t)'
    BY <1>1, StandStill
  <2> QED
    BY <1>1, <1>2, <1>3, <2>1, <2>2 DEF RecordsTrue, IsCache, NoCache
<1>6. RootsTrue' /\ WalkTrue' /\ AnswerTrue'
  BY <1>3 DEF RootsTrue, WalkTrue, AnswerTrue, Walking
<1> QED
  BY <1>2, <1>4, <1>5, <1>6 DEF IndexInv

(* Whatever a load leaves in the cache file, its index answers as it is.      *)
LEMMA AskStep ==
  ASSUME IndexInv, load.pc = "save", Ask, UNCHANGED <<clock, world>>
  PROVE  WorldOK' /\ LoadOK' /\ RootsTrue' /\ WalkTrue' /\ RecordsTrue' /\ AnswerTrue'
<1>1. clock' = clock /\ load' = [load EXCEPT !.pc = "ask", !.roots = {}, !.wrote = FALSE]
  BY DEF Ask
<1>2. /\ WorldOK' /\ WorldOK /\ LoadOK /\ RecordsTrue
      /\ DOMAIN load = DOMAIN Fresh /\ load.answer = NoAnswer
  BY StandStill DEF IndexInv, LoadOK
<1>3. /\ load'.pc = "ask" /\ load'.requires = load.requires /\ load'.now = load.now
      /\ load'.roots = {} /\ load'.previous = load.previous /\ load'.sources = load.sources
      /\ load'.records = load.records /\ load'.answer = NoAnswer /\ load'.root = load.root
      /\ load'.names = load.names /\ load'.found = load.found
      /\ DOMAIN load' = DOMAIN Fresh /\ load' = [x \in DOMAIN load' |-> load'[x]]
  BY <1>1, <1>2, FieldsAre
<1>4. LoadOK'
  BY <1>1, <1>2, <1>3 DEF LoadOK, Phases
<1>5. RecordsTrue'
  <2>1. \A r : Recorded(r) => Recorded(r)'
    BY StandStill
  <2>2. \A s, r, t : Claims(s, r, t) => Claims(s, r, t)'
    BY StandStill
  <2>3. Horizon' = Horizon /\ load.now \in Int /\ Horizon \in Int /\ Horizon <= load.now
    BY <1>2, <1>3, IndexAssumption DEF Horizon, LoadOK, WorldOK
  <2>4. Claims(load.sources, load.records, load.now) /\ Recorded(load.records)
    BY <1>2 DEF RecordsTrue
  <2>5. Claims(load.sources, load.records, Horizon)
    BY <1>2, <2>3, <2>4, ClaimsEarlier
  <2> QED
    BY <1>2, <1>3, <2>1, <2>2, <2>3, <2>4, <2>5 DEF RecordsTrue, IsCache, Walking
<1>6. RootsTrue' /\ WalkTrue' /\ AnswerTrue'
  BY <1>3 DEF RootsTrue, WalkTrue, AnswerTrue, Walking
<1> QED
  BY <1>2, <1>4, <1>5, <1>6

LEMMA OpenCacheStep == ASSUME IndexInv, OpenCache PROVE IndexInv'
<1>1. load.pc = "save" /\ UNCHANGED <<clock, world>> /\ clock' = clock
  BY DEF OpenCache, At
<1>2. CASE UNCHANGED cache /\ Ask
  <2>1. CacheTrue'
    BY <1>1, <1>2, CacheStands
  <2> QED
    BY <1>1, <1>2, <2>1, AskStep DEF IndexInv
<1>3. CASE cache' = Torn /\ load' = [load EXCEPT !.wrote = TRUE]
  <2>1. /\ WorldOK' /\ WorldOK /\ LoadOK /\ RecordsTrue
        /\ DOMAIN load = DOMAIN Fresh /\ load.answer = NoAnswer
    BY <1>1, StandStill DEF IndexInv, LoadOK
  <2>2. /\ load'.pc = "save" /\ load'.requires = load.requires /\ load'.now = load.now
        /\ load'.roots = load.roots /\ load'.previous = load.previous /\ load'.sources = load.sources
        /\ load'.records = load.records /\ load'.answer = NoAnswer /\ load'.root = load.root
        /\ load'.names = load.names /\ load'.found = load.found
        /\ DOMAIN load' = DOMAIN Fresh /\ load' = [x \in DOMAIN load' |-> load'[x]]
    BY <1>1, <1>3, <2>1, FieldsAre
  <2>3. LoadOK'
    BY <1>1, <2>1, <2>2 DEF LoadOK, Phases
  <2>4. RecordsTrue'
    <3>1. \A r : Recorded(r) => Recorded(r)'
      BY <1>1, StandStill
    <3>2. \A s, r, t : Claims(s, r, t) => Claims(s, r, t)'
      BY <1>1, StandStill
    <3> QED
      BY <1>1, <2>1, <2>2, <3>1, <3>2 DEF RecordsTrue, IsCache
  <2>5. RootsTrue' /\ WalkTrue' /\ AnswerTrue'
    BY <2>2 DEF RootsTrue, WalkTrue, AnswerTrue, Walking
  <2>6. CacheTrue'
    BY <1>3 DEF CacheTrue, Torn, IsCache
  <2> QED
    BY <2>1, <2>3, <2>4, <2>5, <2>6 DEF IndexInv
<1> QED
  BY <1>2, <1>3 DEF OpenCache

LEMMA WriteCacheStep == ASSUME IndexInv, WriteCache PROVE IndexInv'
<1>1. load.pc = "save" /\ UNCHANGED <<clock, world>> /\ clock' = clock /\ Ask
  BY DEF WriteCache, At
<1>2. CacheTrue'
  <2>1. CASE cache' = Torn
    BY <2>1 DEF CacheTrue, Torn, IsCache
  <2>2. CASE cache' = cache
    BY <1>1, <2>2, CacheStands
  <2>3. CASE cache' = Refreshed
    <3>1. /\ cache'.created = load.now /\ cache'.sources = load.sources
          /\ cache'.records = load.records
      BY <2>3 DEF Refreshed
    <3>2. /\ load.now \in 0 .. clock /\ clock \in Int
          /\ load.sources = [h \in Homes |-> load.sources[h]]
      BY DEF IndexInv, LoadOK, WorldOK
    <3>3. Claims(load.sources, load.records, load.now) /\ Recorded(load.records)
      BY <1>1 DEF IndexInv, RecordsTrue
    <3> QED
      BY <1>1, <3>1, <3>2, <3>3, StandStill DEF CacheTrue
  <2> QED
    BY <2>1, <2>2, <2>3 DEF WriteCache
<1> QED
  BY <1>1, <1>2, AskStep DEF IndexInv

(* A home that is left without being available claims nothing, and one that  *)
(* is available has all its settled sessions among the gathered ones.        *)
LEMMA LeaveHomeStep ==
  ASSUME IndexInv, UNCHANGED <<clock, world, cache>>, load.pc \in Walking,
         NEW available \in BOOLEAN, LeaveHome(available),
         available => load.pc = "file" /\ load.names = {}
  PROVE  IndexInv'
<1> DEFINE h == load.home
           coverage == Coverage(load.home, available)
           records == IF coverage.available THEN Over(load.gathered, load.records) ELSE load.records
<1>1. /\ load' = [load EXCEPT !.pc = "home", !.home = "none", !.root = 1,
                    !.names = {}, !.found = <<>>, !.gathered = <<>>,
                    !.sources[h] = coverage, !.records = records]
      /\ clock' = clock /\ files' = files /\ UNCHANGED <<clock, world>>
  BY DEF LeaveHome, world
<1>2. /\ WorldOK' /\ CacheTrue' /\ WorldOK /\ LoadOK /\ RootsTrue /\ WalkTrue /\ RecordsTrue
      /\ DOMAIN load = DOMAIN Fresh /\ load.pc # "idle" /\ load.answer = NoAnswer
  BY CacheStands DEF IndexInv, LoadOK, Walking
<1>3. coverage.available => available
  BY DEF Coverage
<1> HIDE DEF coverage, records
<1>4. /\ load'.pc = "home" /\ load'.requires = load.requires /\ load'.now = load.now
      /\ load'.roots = load.roots /\ load'.previous = load.previous /\ load'.todo = load.todo
      /\ load'.sources = [load.sources EXCEPT ![h] = coverage]
      /\ load'.records = records /\ load'.answer = NoAnswer /\ load'.root = 1
      /\ load'.names = {} /\ load'.found = <<>>
      /\ DOMAIN load' = DOMAIN Fresh /\ load' = [x \in DOMAIN load' |-> load'[x]]
  BY <1>1, <1>2, FieldsAre
<1>5. /\ load.sources = [g \in Homes |-> load.sources[g]] /\ DOMAIN load.sources = Homes
      /\ load'.sources = [g \in Homes |-> load'.sources[g]]
      /\ \A g \in Homes : load'.sources[g] = IF g = h THEN coverage ELSE load.sources[g]
  BY <1>2, <1>4 DEF LoadOK
<1>6. LoadOK'
  BY <1>1, <1>2, <1>4, <1>5, EmptyIs DEF LoadOK, Phases
<1>7. RootsTrue'
  <2>1. \A p, t : Settled(p, t)' <=> Settled(p, t)
    BY <1>1, StandStill
  <2> QED
    BY <1>1, <1>2, <1>4, <2>1 DEF RootsTrue, Rooted, Walking
<1>8. Recorded(records)
  <2>1. Recorded(load.records) /\ Recorded(load.gathered)
    BY <1>2 DEF RecordsTrue, WalkTrue
  <2>2. CASE ~coverage.available
    BY <2>1, <2>2 DEF records
  <2>3. CASE coverage.available
    <3>1. records = Over(load.gathered, load.records)
      BY <2>3 DEF records
    <3> QED
      BY <2>1, <3>1 DEF Over, Recorded
  <2> QED
    BY <2>2, <2>3
<1>9. Claims(load'.sources, records, load.now)
  <2> SUFFICES ASSUME NEW p \in DOMAIN files, load'.sources[p[1]].available, Settled(p, load.now)
               PROVE  p \in DOMAIN records /\ Upto(p, load.now, records[p].stat.mod)
    BY DEF Claims
  <2>1. p[1] \in Homes
    BY <1>2, PlaceIs DEF WorldOK
  <2>2. CASE p[1] = h
    <3>1. coverage.available /\ available /\ load.pc = "file" /\ load.names = {}
      BY <1>3, <1>5, <2>1, <2>2
    <3>2. records = Over(load.gathered, load.records)
      BY <3>1 DEF records
    <3>3. p \in DOMAIN load.gathered /\ FoundThere(p) /\ load.gathered[p].stat = load.found[p]
      BY <1>2, <2>2, <3>1 DEF WalkTrue, Passed, Walking
    <3>4. p \in DOMAIN records /\ records[p] = load.gathered[p]
      BY <3>2, <3>3 DEF Over
    <3> QED
      BY <3>3, <3>4 DEF FoundThere
  <2>3. CASE p[1] # h
    <3>1. load.sources[p[1]].available
      BY <1>5, <2>1, <2>3
    <3>2. p \in DOMAIN load.records /\ Upto(p, load.now, load.records[p].stat.mod)
      BY <1>2, <3>1 DEF RecordsTrue, Claims
    <3>3. p \notin DOMAIN load.gathered
      BY <1>2, <2>3 DEF WalkTrue
    <3>4. p \in DOMAIN records /\ records[p] = load.records[p]
      BY <3>2, <3>3 DEF Over, records
    <3> QED
      BY <3>2, <3>4
  <2> QED
    BY <2>2, <2>3
<1>10. RecordsTrue'
  <2>1. \A r : Recorded(r) => Recorded(r)'
    BY <1>1, StandStill
  <2>2. \A s, r, t : Claims(s, r, t) => Claims(s, r, t)'
    BY <1>1, StandStill
  <2> QED
    BY <1>2, <1>4, <1>8, <1>9, <2>1, <2>2 DEF RecordsTrue, IsCache, Walking
<1>11. WalkTrue' /\ AnswerTrue'
  BY <1>4 DEF WalkTrue, AnswerTrue, Walking
<1> QED
  BY <1>2, <1>6, <1>7, <1>10, <1>11 DEF IndexInv

(* What the steps within a home keep, whatever they found there.             *)
LEMMA WithinHome ==
  ASSUME IndexInv, UNCHANGED <<clock, world, cache>>, load.pc \in Walking,
         load'.pc \in Walking, DOMAIN load' = DOMAIN Fresh,
         load' = [x \in DOMAIN load' |-> load'[x]],
         \A x \in {"requires", "now", "roots", "previous", "todo", "home", "sources", "records", "answer"} :
           load'[x] = load[x],
         load'.root \in 1 .. 3, load'.names \subseteq Places,
         \A p \in DOMAIN load'.found : load'.found[p].mod \in Int,
         WalkTrue'
  PROVE  IndexInv'
<1>1. clock' = clock /\ files' = files /\ UNCHANGED <<clock, world>>
  BY DEF world
<1>2. /\ WorldOK' /\ CacheTrue' /\ WorldOK /\ LoadOK /\ RootsTrue /\ RecordsTrue
      /\ load.answer = NoAnswer
  BY CacheStands DEF IndexInv, LoadOK, Walking
<1>3. /\ load'.requires = load.requires /\ load'.now = load.now /\ load'.roots = load.roots
      /\ load'.previous = load.previous /\ load'.todo = load.todo /\ load'.home = load.home
      /\ load'.sources = load.sources /\ load'.records = load.records /\ load'.answer = load.answer
  OBVIOUS
<1>4. LoadOK'
  BY <1>1, <1>2, <1>3 DEF LoadOK, Walking, Phases
<1>5. RootsTrue'
  <2>1. \A p, t : Settled(p, t)' <=> Settled(p, t)
    BY <1>1, StandStill
  <2> QED
    BY <1>1, <1>2, <1>3, <2>1 DEF RootsTrue, Rooted, Walking
<1>6. RecordsTrue'
  <2>1. \A r : Recorded(r) => Recorded(r)'
    BY <1>1, StandStill
  <2>2. \A s, r, t : Claims(s, r, t) => Claims(s, r, t)'
    BY <1>1, StandStill
  <2> QED
    BY <1>1, <1>2, <1>3, <2>1, <2>2 DEF RecordsTrue, IsCache, Walking
<1>7. AnswerTrue'
  BY <1>2, <1>3 DEF AnswerTrue
<1> QED
  BY <1>2, <1>4, <1>5, <1>6, <1>7 DEF IndexInv

LEMMA ListStep == ASSUME IndexInv, List PROVE IndexInv'
<1> DEFINE h == load.home
           s == Stores[load.root]
           skip == s \notin StoresOf(h, load.roots) \/ store[h][s] = "none"
<1>1. /\ UNCHANGED <<clock, world, cache>> /\ clock' = clock /\ files' = files /\ store' = store
      /\ load.pc = "list"
      /\ IF load.root > Len(Stores)
         THEN load' = [load EXCEPT !.pc = "file", !.names = DOMAIN load.found]
         ELSE IF skip THEN load' = [load EXCEPT !.root = @ + 1]
         ELSE IF store[h][s] = "denied" THEN LeaveHome(FALSE)
         ELSE load' = [load EXCEPT !.pc = "stat",
                         !.names = IF store[h][s] = "dir" THEN Listed(h, s) ELSE {}]
  BY DEF List, world, At
<1>2. /\ WorldOK /\ LoadOK /\ RootsTrue /\ WalkTrue
      /\ DOMAIN load = DOMAIN Fresh /\ load.root \in 1 .. 3 /\ load.names \subseteq Places
      /\ \A p \in DOMAIN load.found : load.found[p].mod \in Int
      /\ h \in Rooted
  BY <1>1 DEF IndexInv, LoadOK, RootsTrue, Walking
<1>3. UNCHANGED <<clock, world>>
  BY <1>1
<1>4. /\ \A r : Recorded(r) => Recorded(r)'
      /\ \A p, t : Settled(p, t)' <=> Settled(p, t)
      /\ \A p, t, m : Upto(p, t, m)' <=> Upto(p, t, m)
  BY <1>3, StandStill
<1>5. /\ \A p \in DOMAIN load.found : p \in Places /\ p[1] = load.home
      /\ DOMAIN load.gathered = {} /\ Recorded(load.gathered)
      /\ \A p \in DOMAIN files : p[1] = load.home /\ Settled(p, load.now) =>
           (Passed(p) => FoundThere(p))
  BY <1>1, <1>2 DEF WalkTrue, Walking
<1>6. \A p \in DOMAIN files : p[1] = h /\ Settled(p, load.now) =>
        /\ p[2] \in StoresOf(h, load.roots) /\ p[2] \in {Stores[1], Stores[2]}
        /\ store[h][p[2]] \in {"dir", "denied"}
  <2> SUFFICES ASSUME NEW p \in DOMAIN files, p[1] = h, Settled(p, load.now)
               PROVE  /\ p[2] \in StoresOf(h, load.roots) /\ p[2] \in {Stores[1], Stores[2]}
                      /\ store[h][p[2]] \in {"dir", "denied"}
    OBVIOUS
  <2>1. p[2] \in StoreNames /\ p[1] \in Homes /\ store[p[1]][p[2]] # "none"
    BY <1>2, PlaceIs DEF WorldOK
  <2>2. store[h][p[2]] \in {"dir", "denied"}
    BY <1>2, <2>1 DEF WorldOK, Settled, Kinds
  <2>3. <<p[1], p[2]>> \in load.roots
    BY <1>1, <1>2 DEF RootsTrue, Walking
  <2>4. p[2] \in StoresOf(h, load.roots)
    BY <2>3 DEF StoresOf
  <2> QED
    BY <2>1, <2>2, <2>4, StoresAre DEF StoreNames
<1>7. CASE load.root > Len(Stores)
  <2>0. load.root = 3
    BY <1>2, <1>7, StoresAre
  <2>1. load' = [load EXCEPT !.pc = "file", !.names = DOMAIN load.found]
    BY <1>1, <1>7
  <2>2. /\ load'.pc = "file" /\ load'.now = load.now /\ load'.home = load.home
        /\ load'.root = load.root /\ load'.names = DOMAIN load.found
        /\ load'.found = load.found /\ load'.gathered = load.gathered
        /\ DOMAIN load' = DOMAIN Fresh /\ load' = [x \in DOMAIN load' |-> load'[x]]
        /\ \A x \in {"requires", "now", "roots", "previous", "todo", "home", "sources", "records", "answer"} :
             load'[x] = load[x]
    BY <1>2, <2>1, FieldsAre
  <2>3. WalkTrue'
    <3>1. \A p \in DOMAIN files : p[1] = h /\ Settled(p, load.now) => FoundThere(p)
      BY <1>5, <1>6, <2>0 DEF Passed
    <3>2. \A p : FoundThere(p) => FoundThere(p)'
      BY <1>4, <2>2 DEF FoundThere
    <3>3. \A p \in DOMAIN files' : p[1] = load'.home /\ Settled(p, load.now)' =>
            FoundThere(p)' /\ p \in load'.names
      BY <1>1, <1>4, <2>2, <3>1, <3>2 DEF FoundThere
    <3>4. Recorded(load.gathered)'
      BY <1>4, <1>5, <2>2
    <3> QED
      BY <1>5, <2>2, <3>3, <3>4 DEF WalkTrue
  <2> QED
    BY <1>1, <1>2, <1>5, <2>2, <2>3, WithinHome DEF Walking
<1>8. CASE load.root <= Len(Stores) /\ skip
  <2>0. load.root \in {1, 2} /\ ~(load.root > Len(Stores))
    BY <1>2, <1>8, StoresAre
  <2>1. load' = [load EXCEPT !.root = @ + 1]
    BY <1>1, <1>8, <2>0
  <2>2. /\ load'.pc = "list" /\ load'.now = load.now /\ load'.home = load.home
        /\ load'.root = load.root + 1 /\ load'.names = load.names
        /\ load'.found = load.found /\ load'.gathered = load.gathered
        /\ DOMAIN load' = DOMAIN Fresh /\ load' = [x \in DOMAIN load' |-> load'[x]]
        /\ \A x \in {"requires", "now", "roots", "previous", "todo", "home", "sources", "records", "answer"} :
             load'[x] = load[x]
    BY <1>1, <1>2, <2>1, FieldsAre
  <2>3. WalkTrue'
    <3>1. \A p \in DOMAIN files : p[1] = h /\ Settled(p, load.now) => p[2] # s
      BY <1>6, <1>8
    <3>2. \A p : FoundThere(p) => FoundThere(p)'
      BY <1>4, <2>2 DEF FoundThere
    <3>3. \A p : Passed(p)' /\ p[2] # s => Passed(p)
      BY <2>0, <2>2 DEF Passed
    <3>4. Recorded(load.gathered)'
      BY <1>4, <1>5, <2>2
    <3>5. \A p \in DOMAIN files' : p[1] = load'.home /\ Settled(p, load.now)' /\ Passed(p)' =>
            FoundThere(p)'
      BY <1>1, <1>4, <1>5, <2>2, <3>1, <3>2, <3>3
    <3> QED
      BY <1>5, <2>2, <3>4, <3>5 DEF WalkTrue
  <2> QED
    BY <1>1, <1>2, <2>0, <2>2, <2>3, WithinHome DEF Walking
<1>9. CASE load.root <= Len(Stores) /\ ~skip /\ store[h][s] = "denied"
  <2>0. ~(load.root > Len(Stores))
    BY <1>2, <1>9, StoresAre
  <2>1. LeaveHome(FALSE)
    BY <1>1, <1>9, <2>0
  <2> QED
    BY <1>1, <2>1, LeaveHomeStep DEF Walking
<1>10. CASE load.root <= Len(Stores) /\ ~skip /\ store[h][s] # "denied"
  <2>0. load.root \in {1, 2} /\ ~(load.root > Len(Stores))
    BY <1>2, <1>10, StoresAre
  <2>1. load' = [load EXCEPT !.pc = "stat",
                   !.names = IF store[h][s] = "dir" THEN Listed(h, s) ELSE {}]
    BY <1>1, <1>10, <2>0
  <2>2. /\ load'.pc = "stat" /\ load'.now = load.now /\ load'.home = load.home
        /\ load'.root = load.root
        /\ load'.names = (IF store[h][s] = "dir" THEN Listed(h, s) ELSE {})
        /\ load'.found = load.found /\ load'.gathered = load.gathered
        /\ DOMAIN load' = DOMAIN Fresh /\ load' = [x \in DOMAIN load' |-> load'[x]]
        /\ \A x \in {"requires", "now", "roots", "previous", "todo", "home", "sources", "records", "answer"} :
             load'[x] = load[x]
    BY <1>1, <1>2, <2>1, FieldsAre
  <2>3. load'.names \subseteq Places /\ \A p \in load'.names : p[1] = load.home
    BY <1>2, <2>2 DEF Listed, WorldOK
  <2>4. WalkTrue'
    <3>1. \A p \in DOMAIN files : p[1] = h /\ Settled(p, load.now) /\ p[2] = s => p \in load'.names
      BY <1>6, <1>10, <2>2 DEF Listed
    <3>2. \A p : FoundThere(p) => FoundThere(p)'
      BY <1>4, <2>2 DEF FoundThere
    <3>3. \A p : Passed(p)' => Passed(p)
      BY <2>2 DEF Passed
    <3>4. Recorded(load.gathered)'
      BY <1>4, <1>5, <2>2
    <3>5. \A p \in DOMAIN files' : p[1] = load'.home /\ Settled(p, load.now)' =>
            /\ Passed(p)' => FoundThere(p)'
            /\ p[2] = Stores[load'.root] => p \in load'.names
      BY <1>1, <1>4, <1>5, <2>2, <3>1, <3>2, <3>3
    <3> QED
      BY <1>5, <2>0, <2>2, <2>3, <3>4, <3>5 DEF WalkTrue
  <2> QED
    BY <1>1, <1>2, <2>0, <2>2, <2>3, <2>4, WithinHome DEF Walking
<1> QED
  BY <1>2, <1>7, <1>8, <1>9, <1>10, StoresAre

(* The modification time that is read is the last there is to see.           *)
LEMMA StatIs ==
  ASSUME WorldOK, NEW p \in DOMAIN files, NEW horizon
  PROVE  Stat(p).mod \in Int /\ Upto(p, horizon, Stat(p).mod)
<1>1. files[p].log \in SUBSET Int /\ IsFiniteSet(files[p].log) /\ files[p].log # {}
  BY DEF WorldOK, Sessions
<1>2. Max(files[p].log) \in files[p].log /\ \A t \in files[p].log : t <= Max(files[p].log)
  BY <1>1, GreatestExists
<1>3. Stat(p).mod = Max(files[p].log)
  BY DEF Stat, LastWrite
<1> QED
  BY <1>1, <1>2, <1>3 DEF Upto

LEMMA StatFilesStep == ASSUME IndexInv, StatFiles PROVE IndexInv'
<1> DEFINE h == load.home
           s == Stores[load.root]
           there == load.names \subseteq DOMAIN files /\ (store[h][s] = "dir" \/ load.names = {})
           stats == [p \in load.names |-> Stat(p)]
<1>1. /\ UNCHANGED <<clock, world, cache>> /\ clock' = clock /\ files' = files
      /\ load.pc = "stat"
      /\ IF there
         THEN load' = [load EXCEPT !.pc = "list", !.root = @ + 1, !.names = {},
                         !.found = Over(stats, @)]
         ELSE LeaveHome(FALSE)
  BY DEF StatFiles, world, At
<1>2. CASE ~there
  BY <1>1, <1>2, LeaveHomeStep DEF Walking
<1>3. CASE there
  <2>1. /\ WorldOK /\ LoadOK /\ WalkTrue /\ DOMAIN load = DOMAIN Fresh
        /\ \A p \in DOMAIN load.found : load.found[p].mod \in Int
        /\ load.names \subseteq DOMAIN files /\ load.names \subseteq Places
    BY <1>3 DEF IndexInv, LoadOK
  <2>2. /\ load.root \in 1 .. 2 /\ \A p \in load.names : p[1] = load.home
        /\ \A p \in DOMAIN load.found : p \in Places /\ p[1] = load.home
        /\ DOMAIN load.gathered = {} /\ Recorded(load.gathered)
        /\ \A p \in DOMAIN files : p[1] = load.home /\ Settled(p, load.now) =>
             /\ Passed(p) => FoundThere(p)
             /\ p[2] = Stores[load.root] => p \in load.names
    BY <1>1, <2>1 DEF WalkTrue, Walking
  <2>3. /\ load'.pc = "list" /\ load'.now = load.now /\ load'.home = load.home
        /\ load'.root = load.root + 1 /\ load'.names = {}
        /\ load'.found = Over(stats, load.found) /\ load'.gathered = load.gathered
        /\ DOMAIN load' = DOMAIN Fresh /\ load' = [x \in DOMAIN load' |-> load'[x]]
        /\ \A x \in {"requires", "now", "roots", "previous", "todo", "home", "sources", "records", "answer"} :
             load'[x] = load[x]
    BY <1>1, <1>3, <2>1, FieldsAre
  <2>4. /\ DOMAIN load'.found = load.names \cup DOMAIN load.found
        /\ \A p \in load.names : load'.found[p] = Stat(p)
        /\ \A p \in DOMAIN load.found \ load.names : load'.found[p] = load.found[p]
    BY <2>3 DEF Over
  <2>5. \A p \in DOMAIN load'.found : load'.found[p].mod \in Int
    BY <2>1, <2>4, StatIs
  <2>6. /\ \A r : Recorded(r) => Recorded(r)'
        /\ \A p, t : Settled(p, t)' <=> Settled(p, t)
        /\ \A p, t, m : Upto(p, t, m)' <=> Upto(p, t, m)
    BY <1>1, StandStill
  <2>7. WalkTrue'
    <3>1. ASSUME NEW p \in DOMAIN files, p[1] = load.home, Settled(p, load.now), Passed(p)'
          PROVE  p \in DOMAIN load'.found /\ Upto(p, load.now, load'.found[p].mod)
      <4>1. CASE p \in load.names
        BY <2>1, <2>4, <4>1, StatIs
      <4>2. CASE p \notin load.names
        <5>1. p[2] # Stores[load.root]
          BY <2>2, <3>1, <4>2
        <5>2. Passed(p)
          BY <2>2, <2>3, <3>1, <5>1 DEF Passed
        <5>3. FoundThere(p)
          BY <2>2, <3>1, <5>2
        <5> QED
          BY <2>4, <4>2, <5>3 DEF FoundThere
      <4> QED
        BY <4>1, <4>2
    <3>2. \A p \in DOMAIN files' : p[1] = load'.home /\ Settled(p, load.now)' /\ Passed(p)' =>
            FoundThere(p)'
      BY <1>1, <2>3, <2>6, <3>1 DEF FoundThere
    <3>3. Recorded(load.gathered)'
      BY <2>2, <2>3, <2>6
    <3> QED
      BY <2>1, <2>2, <2>3, <2>4, <3>2, <3>3 DEF WalkTrue
  <2> QED
    BY <1>1, <2>2, <2>3, <2>5, <2>7, WithinHome DEF Walking
<1> QED
  BY <1>2, <1>3

(* A record that is reused or read is one of what the walk found.            *)
LEMMA GatherStep ==
  ASSUME IndexInv, UNCHANGED <<clock, world, cache>>, load.pc = "file",
         NEW p \in load.names, NEW rec,
         load' = [load EXCEPT !.names = @ \ {p}, !.gathered = With(@, p, rec)],
         rec.stat = load.found[p], Known(p, rec.cwd)
  PROVE  IndexInv'
<1>1. /\ LoadOK /\ WalkTrue /\ DOMAIN load = DOMAIN Fresh /\ load.root \in 1 .. 3
      /\ \A x \in DOMAIN load.found : load.found[x].mod \in Int
      /\ load.names \subseteq Places
  BY DEF IndexInv, LoadOK
<1>2. /\ \A x \in DOMAIN load.found : x \in Places /\ x[1] = load.home
      /\ \A x \in DOMAIN load.gathered :
           x \in DOMAIN load.found /\ load.gathered[x].stat = load.found[x]
      /\ Recorded(load.gathered) /\ load.names \subseteq DOMAIN load.found
      /\ \A x \in DOMAIN files : x[1] = load.home /\ Settled(x, load.now) =>
           FoundThere(x) /\ x \in load.names \cup DOMAIN load.gathered
  BY <1>1 DEF WalkTrue, Walking, Passed
<1>3. /\ load'.pc = "file" /\ load'.now = load.now /\ load'.home = load.home
      /\ load'.root = load.root /\ load'.names = load.names \ {p}
      /\ load'.found = load.found /\ load'.gathered = With(load.gathered, p, rec)
      /\ DOMAIN load' = DOMAIN Fresh /\ load' = [x \in DOMAIN load' |-> load'[x]]
      /\ \A x \in {"requires", "now", "roots", "previous", "todo", "home", "sources", "records", "answer"} :
           load'[x] = load[x]
  BY <1>1, FieldsAre
<1>4. /\ DOMAIN load'.gathered = {p} \cup DOMAIN load.gathered /\ load'.gathered[p] = rec
      /\ \A x \in DOMAIN load.gathered \ {p} : load'.gathered[x] = load.gathered[x]
  <2> DEFINE gathered == load.gathered
  <2>1. /\ DOMAIN With(gathered, p, rec) = {p} \cup DOMAIN gathered
        /\ With(gathered, p, rec)[p] = rec
        /\ \A x \in DOMAIN gathered \ {p} : With(gathered, p, rec)[x] = gathered[x]
    BY DEF With, Over
  <2> QED
    BY <1>3, <2>1
<1>5. Recorded(load'.gathered)
  BY <1>1, <1>2, <1>4 DEF Recorded
<1>6. /\ \A r : Recorded(r) => Recorded(r)'
      /\ \A x, t : Settled(x, t)' <=> Settled(x, t)
      /\ \A x, t, m : Upto(x, t, m)' <=> Upto(x, t, m)
      /\ files' = files
  BY StandStill DEF world
<1>7. WalkTrue'
  <2>1. \A x : FoundThere(x) => FoundThere(x)'
    BY <1>3, <1>6 DEF FoundThere
  <2>2. Recorded(load.gathered)'
    BY <1>5, <1>6
  <2>3. \A x \in DOMAIN files' : x[1] = load'.home /\ Settled(x, load.now)' =>
          FoundThere(x)' /\ x \in load'.names \cup DOMAIN load'.gathered
    BY <1>2, <1>3, <1>4, <1>6, <2>1
  <2> QED
    BY <1>2, <1>3, <1>4, <2>2, <2>3 DEF WalkTrue
<1> QED
  BY <1>1, <1>3, <1>7, WithinHome DEF Walking

LEMMA ReadFileStep == ASSUME IndexInv, ReadFile PROVE IndexInv'
<1>1. UNCHANGED <<clock, world, cache>> /\ load.pc = "file"
  BY DEF ReadFile, At
<1>2. CASE load.names = {}
  <2>1. LeaveHome(TRUE)
    BY <1>2 DEF ReadFile
  <2> QED
    BY <1>1, <1>2, <2>1, LeaveHomeStep DEF Walking
<1>3. CASE load.names # {}
  <2> DEFINE p == CHOOSE q \in load.names : TRUE
  <2>1. IF Reusable(p)
        THEN load' = [load EXCEPT !.names = @ \ {p},
                        !.gathered = With(@, p, load.previous.records[p])]
        ELSE IF Readable(p)
        THEN load' = [load EXCEPT !.names = @ \ {p},
                        !.gathered = With(@, p, [stat |-> load.found[p],
                               cwd |-> WorktreeFromCWD(files[p].cwd, p[1])])]
        ELSE LeaveHome(FALSE)
    BY <1>3 DEF ReadFile
  <2>2. p \in load.names
    BY <1>3
  <2> HIDE DEF p
  <2>3. CASE Reusable(p)
    <3>1. load.previous.records[p].stat = load.found[p]
            /\ Known(p, load.previous.records[p].cwd)
      BY <2>3 DEF Reusable, IndexInv, RecordsTrue, Recorded
    <3> QED
      BY <1>1, <2>1, <2>2, <2>3, <3>1, GatherStep
  <2>4. CASE ~Reusable(p) /\ Readable(p)
    <3> DEFINE rec == [stat |-> load.found[p], cwd |-> WorktreeFromCWD(files[p].cwd, p[1])]
    <3>1. load' = [load EXCEPT !.names = @ \ {p}, !.gathered = With(@, p, rec)]
      BY <2>1, <2>4
    <3>2. rec.stat = load.found[p] /\ Known(p, rec.cwd)
      BY <2>4 DEF Readable, Known
    <3> HIDE DEF rec
    <3> QED
      BY <1>1, <2>2, <3>1, <3>2, GatherStep
  <2>5. CASE ~Reusable(p) /\ ~Readable(p)
    BY <1>1, <2>1, <2>5, LeaveHomeStep DEF Walking
  <2> QED
    BY <2>3, <2>4, <2>5
<1> QED
  BY <1>2, <1>3

-----------------------------------------------------------------------------
(* The answer.                                                               *)

(* The latest of records is none of them left behind.                        *)
LEMMA LatestIs ==
  ASSUME NEW records, DOMAIN records \subseteq Places,
         \A p \in DOMAIN records : records[p].stat.mod \in Int
  PROVE  /\ Latest(records) \in Int
         /\ \A p \in DOMAIN records : records[p].stat.mod <= Latest(records)
<1> DEFINE mods == {r.stat.mod : r \in Range(records)}
           mod == [p \in DOMAIN records |-> records[p].stat.mod]
<1>1. mods = {mod[p] : p \in DOMAIN records}
  BY DEF Range
<1>2. IsFiniteSet(DOMAIN records)
  BY PlacesAreFinite, FS_Subset
<1>3. mod \in Surjection(DOMAIN records, mods)
  BY <1>1 DEF Surjection
<1>4. IsFiniteSet(mods)
  BY <1>2, <1>3, FS_Surjection
<1>5. mods \subseteq Int /\ \A p \in DOMAIN records : records[p].stat.mod \in mods
  BY <1>1
<1> HIDE DEF mods, mod
<1>6. IsFiniteSet({-1} \cup mods)
  BY <1>4, FS_Singleton, FS_Union
<1>7. /\ Max({-1} \cup mods) \in {-1} \cup mods
      /\ \A k \in {-1} \cup mods : k <= Max({-1} \cup mods)
  <2>1. {-1} \cup mods \in SUBSET Int /\ {-1} \cup mods # {}
    BY <1>5
  <2> QED
    BY <1>6, <2>1, GreatestExists
<1>8. Latest(records) = Max({-1} \cup mods)
  BY DEF Latest, mods
<1>9. Latest(records) \in Int
  <2>1. {-1} \cup mods \subseteq Int
    BY <1>5
  <2> HIDE DEF mods
  <2>2. Max({-1} \cup mods) \in Int
    BY <1>7, <2>1
  <2> QED
    BY <1>8, <2>2
<1>10. \A p \in DOMAIN records : records[p].stat.mod \in {-1} \cup mods
  BY <1>5
<1> QED
  BY <1>7, <1>8, <1>9, <1>10

LEMMA ActivityIs ==
  ASSUME NEW records, DOMAIN records \subseteq Places,
         \A p \in DOMAIN records : records[p].stat.mod \in Int,
         NEW home, NEW subject
  PROVE  /\ MemberActivity(records, home, subject) \in Int
         /\ \A p \in DOMAIN records : p[1] = home /\ records[p].cwd = subject =>
              records[p].stat.mod <= MemberActivity(records, home, subject)
<1> DEFINE worktree == Restrict(records, {p \in DOMAIN records :
                         p[1] = home /\ records[p].cwd.id = subject.id})
           member == Restrict(worktree, {p \in DOMAIN worktree :
                       worktree[p].cwd.project = subject.project})
<1>1. /\ DOMAIN worktree = {p \in DOMAIN records : p[1] = home /\ records[p].cwd.id = subject.id}
      /\ \A p \in DOMAIN worktree : worktree[p] = records[p]
  BY DEF Restrict
<1>2. MemberActivity(records, home, subject) = Latest(IF DOMAIN member = {} THEN worktree ELSE member)
  BY DEF MemberActivity
<1> HIDE DEF worktree
<1>3. /\ DOMAIN member = {p \in DOMAIN worktree : worktree[p].cwd.project = subject.project}
      /\ \A p \in DOMAIN member : member[p] = worktree[p]
  BY DEF Restrict
<1> HIDE DEF member
<1>4. /\ Latest(worktree) \in Int
      /\ \A p \in DOMAIN worktree : worktree[p].stat.mod <= Latest(worktree)
  BY <1>1, LatestIs
<1>5. /\ Latest(member) \in Int
      /\ \A p \in DOMAIN member : member[p].stat.mod <= Latest(member)
  BY <1>1, <1>3, LatestIs
<1>6. ASSUME NEW p \in DOMAIN records, p[1] = home, records[p].cwd = subject
      PROVE  p \in DOMAIN member /\ member[p] = records[p]
  BY <1>1, <1>3, <1>6
<1> QED
  BY <1>2, <1>4, <1>5, <1>6

LEMMA AnswerIs ==
  ASSUME WorldOK, Recorded(load.records), NEW subject, NEW home \in Homes,
         subject.root = "orca" => home \in CurrentHomes /\ ~load.sources[home].absent,
         subject.root # "orca" => home = subject.root
  PROVE  AnswerTo(subject) \in Int /\ MemberActivity(load.records, home, subject) <= AnswerTo(subject)
<1> DEFINE asked == IF subject.root = "orca"
                    THEN {h \in CurrentHomes : ~load.sources[h].absent} ELSE {subject.root}
           activity == [h \in asked |-> MemberActivity(load.records, h, subject)]
           all == {MemberActivity(load.records, h, subject) : h \in asked}
<1>1. home \in asked /\ asked \subseteq Homes
  BY DEF CurrentHomes
<1>2. IsFiniteSet(asked)
  BY <1>1, IndexAssumption, FS_Subset
<1>3. AnswerTo(subject) = Max({-1} \cup all)
  BY DEF AnswerTo
<1> HIDE DEF asked
<1>4. all = {activity[h] : h \in asked} /\ MemberActivity(load.records, home, subject) \in all
  BY <1>1
<1>5. activity \in Surjection(asked, all)
  BY <1>4 DEF Surjection
<1>6. IsFiniteSet(all)
  BY <1>2, <1>5, FS_Surjection
<1>7. DOMAIN load.records \subseteq Places /\ \A p \in DOMAIN load.records : load.records[p].stat.mod \in Int
  BY DEF Recorded
<1>8. \A h : MemberActivity(load.records, h, subject) \in Int
  BY <1>7, ActivityIs
<1>9. all \subseteq Int
  BY <1>8
<1> HIDE DEF all, activity
<1>10. IsFiniteSet({-1} \cup all)
  BY <1>6, FS_Singleton, FS_Union
<1>11. /\ Max({-1} \cup all) \in {-1} \cup all
       /\ \A k \in {-1} \cup all : k <= Max({-1} \cup all)
  <2>1. {-1} \cup all \in SUBSET Int /\ {-1} \cup all # {}
    BY <1>9
  <2> QED
    BY <1>10, <2>1, GreatestExists
<1> QED
  BY <1>3, <1>4, <1>9, <1>11

(* An answer that is given is given by homes that claim to have all there is *)
(* of the subject, and the records of its sessions are of the subject.       *)
LEMMA LookupStep == ASSUME IndexInv, Lookup PROVE IndexInv'
<1>1. PICK subject \in Cwds :
        load' = [Fresh EXCEPT !.requires = load.requires, !.now = load.now,
                   !.answer = IF Vouched(subject)
                              THEN [subject |-> subject, latest |-> AnswerTo(subject)]
                              ELSE NoAnswer]
  BY DEF Lookup
<1>2. UNCHANGED <<clock, world, cache>> /\ clock' = clock /\ files' = files /\ load.pc = "ask"
  BY DEF Lookup, world, At
<1>3. /\ WorldOK' /\ CacheTrue' /\ WorldOK /\ LoadOK
      /\ Claims(load.sources, load.records, Horizon) /\ Recorded(load.records)
  BY <1>2, CacheStands DEF IndexInv, RecordsTrue
<1>4. /\ load'.pc = "idle" /\ load'.requires = load.requires /\ load'.now = load.now
      /\ load'.roots = {} /\ load'.previous = NoCache /\ load'.sources = NoSources
      /\ load'.answer = (IF Vouched(subject)
                         THEN [subject |-> subject, latest |-> AnswerTo(subject)] ELSE NoAnswer)
      /\ load'.root = 1 /\ load'.names = {} /\ load'.found = <<>>
      /\ DOMAIN load' = DOMAIN Fresh /\ load' = [x \in DOMAIN load' |-> load'[x]]
  BY <1>1 DEF Fresh
<1>5. LoadOK'
  BY <1>2, <1>3, <1>4, EmptyIs DEF LoadOK, Phases, NoSources
<1>6. RootsTrue' /\ WalkTrue'
  BY <1>4 DEF RootsTrue, WalkTrue, Walking
<1>7. RecordsTrue'
  BY <1>4 DEF RecordsTrue, Walking, NoCache, IsCache
<1>8. Horizon' = Horizon /\ Horizon \in Int
  BY <1>3, <1>4, IndexAssumption DEF Horizon, LoadOK, WorldOK
<1>9. ASSUME Vouched(subject), NEW p \in DOMAIN files, files[p].cwd = subject,
             subject.root # "orca" => p[1] = subject.root, files[p].since < Horizon
      PROVE  Upto(p, Horizon, AnswerTo(subject))
  <2>1. p[1] \in Homes /\ p[2] \in StoreNames /\ store[p[1]][p[2]] # "none"
    BY <1>3, PlaceIs DEF WorldOK
  <2>2. /\ load.sources[p[1]].available /\ HomeStoresAvailable(p[1])
        /\ subject.root = "orca" => p[1] \in CurrentHomes /\ ~load.sources[p[1]].absent
    <3>1. CASE subject.root = "orca"
      <4>1. CurrentHomes = Homes /\ HomeAvailable(load.sources, p[1], TRUE)
        BY <1>9, <2>1, <3>1 DEF Vouched, CurrentHomes
      <4>2. ~DefaultHomeAbsent(p[1])
        BY <2>1, StoresAre DEF DefaultHomeAbsent
      <4> QED
        BY <2>1, <4>1, <4>2 DEF HomeAvailable
    <3>2. CASE subject.root # "orca"
      <4>1. HomeAvailable(load.sources, p[1], FALSE)
        BY <1>9, <3>2 DEF Vouched
      <4> QED
        BY <3>2, <4>1 DEF HomeAvailable
    <3> QED
      BY <3>1, <3>2
  <2>3. Settled(p, Horizon)
    BY <1>9, <2>1, <2>2 DEF Settled, HomeStoresAvailable, StoreNames
  <2>4. p \in DOMAIN load.records /\ Upto(p, Horizon, load.records[p].stat.mod)
    BY <1>3, <2>2, <2>3 DEF Claims
  <2>5. load.records[p].cwd = subject /\ load.records[p].stat.mod \in Int
    <3>1. PICK q \in DOMAIN files :
            q[1] = p[1] /\ q[3] = p[3] /\ load.records[p].cwd = WorktreeFromCWD(files[q].cwd, p[1])
      BY <1>3, <2>4 DEF Recorded, Known
    <3>2. q = p
      BY <1>3, <3>1 DEF WorldOK
    <3> QED
      BY <1>3, <1>9, <2>4, <3>1, <3>2 DEF WorktreeFromCWD, Recorded
  <2>6. /\ DOMAIN load.records \subseteq Places
        /\ \A x \in DOMAIN load.records : load.records[x].stat.mod \in Int
    BY <1>3 DEF Recorded
  <2> DEFINE activity == MemberActivity(load.records, p[1], subject)
  <2>7. activity \in Int /\ load.records[p].stat.mod <= activity
    BY <2>4, <2>5, <2>6, ActivityIs
  <2>8. AnswerTo(subject) \in Int /\ activity <= AnswerTo(subject)
    BY <1>3, <1>9, <2>1, <2>2, AnswerIs
  <2> HIDE DEF activity
  <2>9. files[p].log \subseteq Int
    BY <1>3 DEF WorldOK, Sessions
  <2> QED
    BY <2>4, <2>5, <2>7, <2>8, <2>9 DEF Upto
<1>10. AnswerTrue'
  <2>1. CASE Vouched(subject)
    <3>1. load'.answer.subject = subject /\ load'.answer.latest = AnswerTo(subject)
      BY <1>4, <2>1
    <3>2. \A p, t, m : Upto(p, t, m)' <=> Upto(p, t, m)
      BY <1>2, StandStill
    <3> QED
      BY <1>2, <1>8, <1>9, <2>1, <3>1, <3>2 DEF AnswerTrue
  <2>2. CASE ~Vouched(subject)
    BY <1>4, <2>2 DEF AnswerTrue
  <2> QED
    BY <2>1, <2>2
<1> QED
  BY <1>3, <1>5, <1>6, <1>7, <1>10 DEF IndexInv

-----------------------------------------------------------------------------
(* The theorems.                                                             *)

LEMMA NextInv == ASSUME IndexInv, [Next]_vars PROVE IndexInv'
<1>1. CASE UNCHANGED vars
  <2>1. Evolves
    BY <1>1 DEF vars, world, IndexInv, WorldOK, Evolves
  <2> QED
    BY <1>1, <2>1, EvolvesStep DEF vars
<1>2. CASE Tick
  BY <1>2, TickStep
<1>3. CASE World
  BY <1>3, WorldStep
<1>4. CASE Step
  BY <1>4, BeginStep, ReadCacheStep, StartHomeStep, ListStep, StatFilesStep, ReadFileStep,
     EndRefreshStep, OpenCacheStep, WriteCacheStep, LookupStep, StopStep DEF Step
<1> QED
  BY <1>1, <1>2, <1>3, <1>4 DEF Next

(* What every part of the index claims is so, whatever sessions, stores, the *)
(* clock, another command's save or a crash do in between (index.go, Load).  *)
THEOREM IndexConsistent == Spec => []IndexInv
<1>1. Init => IndexInv
  BY InitInv
<1>2. IndexInv /\ [Next]_vars => IndexInv'
  BY NextInv
<1> QED
  BY <1>1, <1>2, PTL DEF Spec

(* An answer is at most Freshness behind, whoever gives it: a walk, a cache  *)
(* alone, one that another load wrote or the clock overtook (sources.go,     *)
(* LookupMember).                                                            *)
THEOREM AnswersAreBounded == Spec => []StalenessBounded
<1>1. IndexInv => StalenessBounded
  <2> SUFFICES ASSUME IndexInv, load.answer # NoAnswer, NEW p \in DOMAIN files,
                      Concerns(load.answer.subject, p), files[p].since < load.now - Window,
                      NEW t \in files[p].log, t < load.now - Window
               PROVE  load.answer.latest >= t
    BY DEF StalenessBounded, Reflected
  <2>1. /\ load.now \in Int /\ files[p].since \in Int /\ t \in Int /\ Window \in Nat
        /\ Horizon \in {load.now, load.now - Window}
    BY IndexAssumption DEF IndexInv, LoadOK, WorldOK, Sessions, Horizon
  <2>2. files[p].since < Horizon /\ t < Horizon
    BY <2>1
  <2> QED
    BY <2>2 DEF IndexInv, AnswerTrue, Concerns, Upto
<1> QED
  BY <1>1, IndexConsistent, PTL

(* What a deletion relies on is not behind at all: it saw everything written *)
(* before it started to sessions that stayed where they are (LookupMember).  *)
THEOREM DeletionsAreInformed == Spec => []DeletionsSeeAll
<1>1. IndexInv => DeletionsSeeAll
  BY DEF IndexInv, AnswerTrue, DeletionsSeeAll, Reflected, Concerns, Horizon, Upto
<1> QED
  BY <1>1, IndexConsistent, PTL

-----------------------------------------------------------------------------
(* The sweeps of temporary units: their types.                               *)

MemberKinds == UNION {{c[n].kind : n \in DOMAIN c} : c \in Contents}
Leads == UNION {{c[n].to : n \in DOMAIN c} : c \in Contents}

Members == [kind : MemberKinds, to : Leads, id : Nat]

Trees == UNION {[D -> Members] : D \in SUBSET Paths}

SweepPhases == {"look", "list", "stat", "scanned", "walk", "remove", "done"}

SweepRecords == [pc : SweepPhases, token : Nat, deletes : BOOLEAN, names : SUBSET Paths,
            members : Trees, first : Trees, expected : Trees, scanned : BOOLEAN,
            paths : SUBSET Paths]

SweepsTypeOK ==
  /\ writers \in Cooperating /\ version \in Versions
  /\ tree \in Trees /\ interfered \in Nat
  /\ token \in Nat /\ seq \in Nat
  /\ sweep \in [Sweeps -> SweepRecords]
  /\ lost \subseteq Sweeps

(* Trees are functions on some names.                                        *)
LEMMA TreeParts ==
  ASSUME NEW t \in Trees
  PROVE  /\ DOMAIN t \subseteq Paths
         /\ t \in [DOMAIN t -> Members]
BY DEF Trees

LEMMA TreeMade ==
  ASSUME NEW D \in SUBSET Paths, NEW t \in [D -> Members]
  PROVE  t \in Trees
BY DEF Trees

(* A part of a tree is one.                                                  *)
LEMMA TreeRestricted ==
  ASSUME NEW t \in Trees, NEW D \in SUBSET (DOMAIN t)
  PROVE  /\ Restrict(t, D) \in Trees
         /\ DOMAIN Restrict(t, D) = D
         /\ \A n \in D : Restrict(t, D)[n] = t[n]
<1>1. Restrict(t, D) \in [D -> Members]
  BY TreeParts DEF Restrict
<1>2. D \in SUBSET Paths
  BY TreeParts
<1> QED
  BY <1>1, <1>2, TreeMade DEF Restrict

(* A tree with one more member, or another one, is one.                      *)
LEMMA TreeExtended ==
  ASSUME NEW t \in Trees, NEW n \in Paths, NEW m \in Members
  PROVE  [k \in DOMAIN t \cup {n} |-> IF k = n THEN m ELSE t[k]] \in Trees
<1> DEFINE D == DOMAIN t \cup {n}
<1>1. D \in SUBSET Paths
  BY TreeParts
<1>2. [k \in D |-> IF k = n THEN m ELSE t[k]] \in [D -> Members]
  BY TreeParts
<1> QED
  BY <1>1, <1>2, TreeMade

(* The tree of nothing.                                                      *)
LEMMA NoTree == <<>> \in Trees
<1>1. <<>> \in [{} -> Members]
  OBVIOUS
<1> QED
  BY <1>1, TreeMade

LEMMA IdleRecord == Idle \in SweepRecords
BY NoTree DEF Idle, SweepRecords, SweepPhases

LEMMA SweepsInitType == TmpInit => SweepsTypeOK
<1> SUFFICES ASSUME TmpInit PROVE SweepsTypeOK
  OBVIOUS
<1>1. PICK c \in Contents :
        tree = [n \in DOMAIN c |-> [kind |-> c[n].kind, to |-> c[n].to, id |-> 0]]
  BY DEF TmpInit
<1>2. DOMAIN c \in SUBSET Paths
  BY DEF Paths
<1>3. \A n \in DOMAIN c : c[n].kind \in MemberKinds /\ c[n].to \in Leads
  BY DEF MemberKinds, Leads
<1>4. tree \in [DOMAIN c -> Members]
  BY <1>1, <1>3 DEF Members
<1>5. tree \in Trees
  BY <1>2, <1>4, TreeMade
<1>6. sweep \in [Sweeps -> SweepRecords]
  BY IdleRecord DEF TmpInit
<1> QED
  BY <1>5, <1>6 DEF TmpInit, SweepsTypeOK

-----------------------------------------------------------------------------
(* The invariant.                                                            *)

Working == {"list", "stat", "walk", "remove"}

(* Who works has a fence of its own, and it is the one that holds unless it  *)
(* was taken back.                                                           *)
Fences ==
  /\ token <= seq
  /\ \A s \in Sweeps :
       /\ sweep[s].token <= seq
       /\ sweep[s].token # 0 <=> sweep[s].pc \in Working
       /\ sweep[s].token # 0 => Complete
       /\ sweep[s].token # 0 /\ s \notin lost => Held(s)
       /\ \A t \in Sweeps \ {s} : sweep[s].token # 0 => sweep[s].token # sweep[t].token

(* What is there is among some members as it was read, or still to be read.  *)
Covers(members, left) ==
  \A n \in DOMAIN tree : n \in left \/ (n \in DOMAIN members /\ members[n] = tree[n])

(* What a sweep knows of its unit is true as long as its fence is.           *)
Sound(s) ==
  LET r == sweep[s] IN
  /\ r.pc \in {"look", "scanned", "done"} => r.first = <<>>
  /\ r.pc \in {"walk", "remove"} => r.first # <<>>
  /\ r.first # <<>> => r.first = r.expected /\ Accounted(r.expected)
  /\ s \notin lost /\ r.pc = "stat" => Covers(r.members, r.names)
  /\ s \notin lost /\ r.first # <<>> => Covers(r.first, {})

SweepsInv == SweepsTypeOK /\ Fences /\ \A s \in Sweeps : Sound(s)

LEMMA SweepsStart == TmpInit => SweepsInv
<1> SUFFICES ASSUME TmpInit PROVE SweepsInv
  OBVIOUS
<1>1. \A s \in Sweeps : sweep[s] = Idle
  BY DEF TmpInit
<1>2. Fences
  BY <1>1 DEF TmpInit, Fences, Idle, Working
<1>3. \A s \in Sweeps : Sound(s)
  BY <1>1 DEF Sound, Idle
<1> QED
  BY <1>2, <1>3, SweepsInitType DEF SweepsInv

-----------------------------------------------------------------------------
(* What the steps of a sweep have in common.                                 *)

(* Nothing that stays in the unit is altered.                                *)
Shrinks == \A n \in DOMAIN tree' : n \in DOMAIN tree /\ tree'[n] = tree[n]

(* Sweep s knows r from now on; the others know what they knew.              *)
Becomes(s, r) ==
  /\ sweep' = [sweep EXCEPT ![s] = r] /\ r \in SweepRecords
  /\ writers' = writers /\ version' = version /\ interfered' = interfered /\ lost' = lost
  /\ tree' \in Trees /\ Shrinks

(* The fence stays with whom it is.                                          *)
Keeps(s, r) ==
  /\ r.token = sweep[s].token
  /\ r.pc \in Working <=> sweep[s].pc \in Working
  /\ token' = token /\ seq' = seq

(* A sweep that had none gets one, while nobody has it.                      *)
Takes(s, r) ==
  /\ token = 0 /\ token' = seq + 1 /\ seq' = seq + 1
  /\ r.token = seq + 1 /\ r.pc \in Working /\ Complete

(* A sweep lets go of what it has.                                           *)
Leaves(s, r) ==
  /\ r.token = 0 /\ r.pc \notin Working /\ seq' = seq
  /\ token' = IF sweep[s].token # 0 /\ Held(s) THEN 0 ELSE token

LEMMA FencesKept ==
  ASSUME SweepsTypeOK, Fences, NEW s \in Sweeps, NEW r, Becomes(s, r),
         Keeps(s, r) \/ Takes(s, r) \/ Leaves(s, r)
  PROVE  SweepsTypeOK' /\ Fences'
<1> USE DEF Becomes
<1>1. sweep' \in [Sweeps -> SweepRecords] /\ sweep'[s] = r
  BY DEF SweepsTypeOK
<1>2. \A t \in Sweeps \ {s} : sweep'[t] = sweep[t]
  BY DEF SweepsTypeOK
<1>3. \A t \in Sweeps : sweep[t].token \in Nat
  BY DEF SweepsTypeOK, SweepRecords
<1>4. CASE Keeps(s, r)
  <2>1. SweepsTypeOK'
    BY <1>1, <1>4 DEF SweepsTypeOK, Keeps
  <2>2. Fences'
    BY <1>1, <1>2, <1>3, <1>4 DEF Fences, Keeps, Held, Complete
  <2> QED
    BY <2>1, <2>2
<1>5. CASE Takes(s, r)
  <2>1. SweepsTypeOK'
    BY <1>1, <1>5 DEF SweepsTypeOK, Takes
  <2>2. \A t \in Sweeps \ {s} : sweep[t].token # seq + 1
    BY <1>3 DEF Fences, SweepsTypeOK
  <2>3. \A t \in Sweeps \ {s} : sweep[t].token # 0 => t \in lost
    BY <1>5, <1>3 DEF Fences, Takes, Held
  <2>4. seq + 1 # 0 /\ seq <= seq + 1 /\ seq \in Nat
    BY DEF SweepsTypeOK
  <2>5. Complete'
    BY <1>5 DEF Takes, Complete
  <2>6. \A t \in Sweeps \ {s} :
          /\ sweep'[t].token <= seq'
          /\ sweep'[t].token # 0 <=> sweep'[t].pc \in Working
          /\ sweep'[t].token # 0 /\ t \notin lost' => Held(t)'
          /\ \A u \in Sweeps \ {t} : sweep'[t].token # 0 => sweep'[t].token # sweep'[u].token
    BY <1>1, <1>2, <1>3, <1>5, <2>2, <2>3, <2>4 DEF Fences, Takes, Held
  <2>7. /\ sweep'[s].token <= seq' /\ token' <= seq'
        /\ sweep'[s].token # 0 <=> sweep'[s].pc \in Working
        /\ Held(s)'
        /\ \A u \in Sweeps \ {s} : sweep'[s].token # sweep'[u].token
    BY <1>1, <1>2, <1>5, <2>2, <2>4 DEF Takes, Held
  <2> QED
    BY <2>1, <2>5, <2>6, <2>7 DEF Fences
<1>6. CASE Leaves(s, r)
  <2>1. SweepsTypeOK'
    BY <1>1, <1>6 DEF SweepsTypeOK, Leaves
  <2>2. Complete' <=> Complete
    BY DEF Complete
  <2>3. token' <= seq' /\ sweep'[s].token = 0 /\ sweep'[s].pc \notin Working
    BY <1>1, <1>6 DEF Fences, Leaves, SweepsTypeOK
  <2>4. \A t \in Sweeps \ {s} : sweep[t].token # 0 /\ Held(t) => Held(t)'
    BY <1>2, <1>6 DEF Fences, Leaves, Held
  <2>5. \A t \in Sweeps \ {s} :
          /\ sweep'[t].token <= seq'
          /\ sweep'[t].token # 0 <=> sweep'[t].pc \in Working
          /\ sweep'[t].token # 0 => Complete'
          /\ sweep'[t].token # 0 /\ t \notin lost' => Held(t)'
          /\ \A u \in Sweeps \ {t} : sweep'[t].token # 0 => sweep'[t].token # sweep'[u].token
    BY <1>2, <1>6, <2>2, <2>3, <2>4 DEF Fences, Leaves
  <2>6. sweep'[s].token <= seq'
    BY <2>3, <2>1 DEF SweepsTypeOK
  <2> QED
    BY <2>1, <2>3, <2>5, <2>6 DEF Fences
<1> QED
  BY <1>4, <1>5, <1>6

(* Nothing another sweep does makes what a sweep knows less true.            *)
LEMMA OthersSound ==
  ASSUME SweepsTypeOK, NEW s \in Sweeps, NEW r, Becomes(s, r),
         NEW t \in Sweeps \ {s}, Sound(t)
  PROVE  Sound(t)'
<1>1. sweep'[t] = sweep[t]
  BY DEF Becomes, SweepsTypeOK
<1>2. \A m : Accounted(m) <=> Accounted(m)'
  BY DEF Becomes, Accounted
<1>3. \A m, left : Covers(m, left) => Covers(m, left)'
  BY DEF Becomes, Shrinks, Covers
<1> QED
  BY <1>1, <1>2, <1>3 DEF Sound, Becomes

(* One step of one sweep, for what it makes of itself.                       *)
LEMMA OneStep ==
  ASSUME SweepsInv, NEW s \in Sweeps, NEW r, Becomes(s, r),
         Keeps(s, r) \/ Takes(s, r) \/ Leaves(s, r), Sound(s)'
  PROVE  SweepsInv'
<1>1. \A t \in Sweeps \ {s} : Sound(t)'
  BY OthersSound DEF SweepsInv
<1> QED
  BY <1>1, FencesKept DEF SweepsInv

(* A sweep that is done knows nothing.                                       *)
LEMMA Ending ==
  ASSUME SweepsInv, NEW s \in Sweeps, Refuse(s), seq' = seq, lost' = lost,
         writers' = writers, version' = version, interfered' = interfered,
         tree' \in Trees, Shrinks
  PROVE  SweepsInv'
<1> DEFINE r == [Idle EXCEPT !.pc = "done"]
<1>1. r \in SweepRecords /\ r.pc = "done" /\ r.token = 0 /\ r.first = <<>>
  BY IdleRecord DEF SweepRecords, SweepPhases, Idle
<1>2. Becomes(s, r)
  BY <1>1 DEF Refuse, Becomes
<1>3. Leaves(s, r)
  BY <1>1 DEF Leaves, Refuse, Release, Working
<1>4. sweep'[s] = r
  BY DEF Refuse, SweepsInv, SweepsTypeOK
<1>5. Sound(s)'
  BY <1>1, <1>4 DEF Sound
<1> QED
  BY <1>2, <1>3, <1>5, OneStep

(* So does one that ends without touching the unit.                          *)
LEMMA Refusing ==
  ASSUME SweepsInv, NEW s \in Sweeps, Refuse(s), seq' = seq, UNCHANGED <<unit, lost>>
  PROVE  SweepsInv'
<1>1. Shrinks /\ tree' \in Trees
  BY DEF SweepsInv, SweepsTypeOK, Shrinks, unit
<1> QED
  BY <1>1, Ending DEF unit

(* A step that leaves the unit alone.                                        *)
LEMMA Looking ==
  ASSUME SweepsInv, NEW s \in Sweeps, NEW r \in SweepRecords, sweep' = [sweep EXCEPT ![s] = r],
         UNCHANGED <<unit, lost>>
  PROVE  Becomes(s, r) /\ sweep'[s] = r
BY DEF SweepsInv, SweepsTypeOK, Becomes, Shrinks, unit

-----------------------------------------------------------------------------
(* The steps of a sweep.                                                     *)

LEMMA LookStep == ASSUME SweepsInv, NEW s \in Sweeps, Look(s) PROVE SweepsInv'
<1> USE DEF Look
<1>1. CASE Refuse(s) /\ seq' = seq
  BY <1>1, Refusing
<1>2. CASE Complete /\ token = 0 /\ Acquire(s)
  <2> DEFINE r == [sweep[s] EXCEPT !.pc = "list", !.token = seq + 1]
  <2>1. sweep[s] \in SweepRecords /\ seq + 1 \in Nat
    BY DEF SweepsInv, SweepsTypeOK
  <2>2. r \in SweepRecords /\ r.pc = "list" /\ r.token = seq + 1 /\ r.first = sweep[s].first
    BY <2>1 DEF SweepRecords, SweepPhases
  <2>3. sweep' = [sweep EXCEPT ![s] = r] /\ seq' = seq + 1 /\ token' = seq + 1
    BY <1>2 DEF Acquire
  <2>4. Becomes(s, r) /\ sweep'[s] = r
    BY <2>2, <2>3, Looking
  <2>5. Takes(s, r)
    BY <1>2, <2>2, <2>3 DEF Takes, Working
  <2>6. sweep[s].first = <<>>
    BY DEF SweepsInv, Sound, Stands
  <2>7. Sound(s)'
    BY <2>2, <2>4, <2>6 DEF Sound
  <2> QED
    BY <2>4, <2>5, <2>7, OneStep
<1> QED
  BY <1>1, <1>2 DEF Acquire

LEMMA InventoryStep == ASSUME SweepsInv, NEW s \in Sweeps, Inventory(s) PROVE SweepsInv'
<1> USE DEF Inventory
<1>1. CASE Refuse(s)
  BY <1>1, Refusing
<1>2. CASE sweep' = [sweep EXCEPT ![s].pc = "stat", ![s].names = DOMAIN tree,
                       ![s].members = <<>>] /\ token' = token
  <2> DEFINE r == [sweep[s] EXCEPT !.pc = "stat", !.names = DOMAIN tree, !.members = <<>>]
  <2>1. sweep[s] \in SweepRecords /\ DOMAIN tree \in SUBSET Paths
    BY TreeParts DEF SweepsInv, SweepsTypeOK
  <2>2. /\ r \in SweepRecords /\ r.pc = "stat" /\ r.token = sweep[s].token
        /\ r.first = sweep[s].first /\ r.expected = sweep[s].expected
        /\ r.names = DOMAIN tree
    BY <2>1, NoTree DEF SweepRecords, SweepPhases
  <2>3. sweep' = [sweep EXCEPT ![s] = r]
    BY <1>2 DEF SweepsInv, SweepsTypeOK, SweepRecords
  <2>4. Becomes(s, r) /\ sweep'[s] = r
    BY <2>2, <2>3, Looking
  <2>5. Keeps(s, r)
    BY <1>2, <2>2 DEF Keeps, Working, Stands
  <2>6. Sound(s)'
    BY <2>2, <2>4 DEF SweepsInv, Sound, Covers, Accounted, unit
  <2> QED
    BY <2>4, <2>5, <2>6, OneStep
<1> QED
  BY <1>1, <1>2

LEMMA StatMemberStep == ASSUME SweepsInv, NEW s \in Sweeps, StatMember(s) PROVE SweepsInv'
<1> USE DEF StatMember
<1>1. CASE Refuse(s)
  BY <1>1, Refusing
<1>2. ASSUME NEW n \in sweep[s].names, n \in DOMAIN tree,
             sweep' = [sweep EXCEPT ![s].names = @ \ {n},
                         ![s].members = [k \in DOMAIN @ \cup {n} |->
                                           IF k = n THEN tree[n] ELSE @[k]]],
             token' = token
      PROVE  SweepsInv'
  <2> DEFINE m == [k \in DOMAIN sweep[s].members \cup {n} |->
                     IF k = n THEN tree[n] ELSE sweep[s].members[k]]
             r == [sweep[s] EXCEPT !.names = @ \ {n}, !.members = m]
  <2>1. /\ sweep[s] \in SweepRecords /\ sweep[s].members \in Trees
        /\ sweep[s].names \in SUBSET Paths /\ tree[n] \in Members
    BY <1>2, TreeParts DEF SweepsInv, SweepsTypeOK, SweepRecords
  <2>2. m \in Trees
    BY <2>1, TreeExtended
  <2> HIDE DEF m
  <2>3. /\ r \in SweepRecords /\ r.pc = sweep[s].pc /\ r.token = sweep[s].token
        /\ r.first = sweep[s].first /\ r.expected = sweep[s].expected
        /\ r.names = sweep[s].names \ {n} /\ r.members = m
    BY <2>1, <2>2 DEF SweepRecords, SweepPhases
  <2>4. sweep' = [sweep EXCEPT ![s] = r]
    BY <1>2 DEF m
  <2>5. Becomes(s, r) /\ sweep'[s] = r
    BY <2>3, <2>4, Looking
  <2>6. Keeps(s, r)
    BY <1>2, <2>3 DEF Keeps
  <2>7. Covers(sweep[s].members, sweep[s].names) => Covers(m, sweep[s].names \ {n})
    BY DEF Covers, m
  <2>8. Sound(s)'
    BY <2>3, <2>5, <2>7 DEF SweepsInv, Sound, Covers, Accounted, unit
  <2> QED
    BY <2>5, <2>6, <2>8, OneStep
<1> QED
  BY <1>1, <1>2

LEMMA AdmitStep == ASSUME SweepsInv, NEW s \in Sweeps, Admit(s) PROVE SweepsInv'
<1> USE DEF Admit
<1>1. CASE Refuse(s)
  BY <1>1, Refusing
<1>2. CASE /\ sweep' = [sweep EXCEPT ![s] = [Idle EXCEPT !.pc = "scanned", !.scanned = TRUE,
                                              !.expected = sweep[s].members]]
           /\ Held(s) /\ Release(s)
  <2> DEFINE r == [Idle EXCEPT !.pc = "scanned", !.scanned = TRUE,
                                !.expected = sweep[s].members]
  <2>1. sweep[s].members \in Trees
    BY DEF SweepsInv, SweepsTypeOK, SweepRecords
  <2>2. r \in SweepRecords /\ r.pc = "scanned" /\ r.token = 0 /\ r.first = <<>>
    BY <2>1, NoTree DEF SweepRecords, SweepPhases, Idle
  <2>3. Becomes(s, r) /\ sweep'[s] = r
    BY <1>2, <2>2, Looking
  <2>4. sweep[s].token # 0
    BY DEF SweepsInv, Fences, Inventoried, Stands, Working
  <2>5. Leaves(s, r)
    BY <1>2, <2>2, <2>4 DEF Leaves, Release, Working
  <2>6. Sound(s)'
    BY <2>2, <2>3 DEF Sound
  <2> QED
    BY <2>3, <2>5, <2>6, OneStep
<1> QED
  BY <1>1, <1>2

LEMMA DeleteStep == ASSUME SweepsInv, NEW s \in Sweeps, Delete(s) PROVE SweepsInv'
<1> USE DEF Delete
<1>1. CASE Refuse(s) /\ seq' = seq
  BY <1>1, Refusing
<1>2. CASE /\ Complete /\ token = 0 /\ seq' = seq + 1 /\ token' = seq + 1
           /\ sweep' = [sweep EXCEPT ![s].pc = "list", ![s].token = seq + 1, ![s].deletes = TRUE]
  <2> DEFINE r == [sweep[s] EXCEPT !.pc = "list", !.token = seq + 1, !.deletes = TRUE]
  <2>1. sweep[s] \in SweepRecords /\ seq + 1 \in Nat
    BY DEF SweepsInv, SweepsTypeOK
  <2>2. r \in SweepRecords /\ r.pc = "list" /\ r.token = seq + 1 /\ r.first = sweep[s].first
    BY <2>1 DEF SweepRecords, SweepPhases
  <2>3. sweep' = [sweep EXCEPT ![s] = r]
    BY <1>2 DEF SweepsInv, SweepsTypeOK, SweepRecords
  <2>4. Becomes(s, r) /\ sweep'[s] = r
    BY <2>2, <2>3, Looking
  <2>5. Takes(s, r)
    BY <1>2, <2>2 DEF Takes, Working
  <2>6. sweep[s].first = <<>>
    BY DEF SweepsInv, Sound, Stands
  <2>7. Sound(s)'
    BY <2>2, <2>4, <2>6 DEF Sound
  <2> QED
    BY <2>4, <2>5, <2>7, OneStep
<1> QED
  BY <1>1, <1>2

LEMMA CompareStep == ASSUME SweepsInv, NEW s \in Sweeps, Compare(s) PROVE SweepsInv'
<1> USE DEF Compare
<1>1. CASE Refuse(s)
  BY <1>1, Refusing
<1>2. CASE /\ Held(s) /\ sweep[s].members = sweep[s].expected /\ Accounted(sweep[s].members)
           /\ sweep' = [sweep EXCEPT ![s].pc = "list", ![s].first = sweep[s].members]
           /\ token' = token
  <2> DEFINE r == [sweep[s] EXCEPT !.pc = "list", !.first = sweep[s].members]
  <2>1. sweep[s] \in SweepRecords /\ sweep[s].members \in Trees
    BY DEF SweepsInv, SweepsTypeOK, SweepRecords
  <2>2. /\ r \in SweepRecords /\ r.pc = "list" /\ r.token = sweep[s].token
        /\ r.first = sweep[s].members /\ r.expected = sweep[s].expected
    BY <2>1 DEF SweepRecords, SweepPhases
  <2>3. sweep' = [sweep EXCEPT ![s] = r]
    BY <1>2 DEF SweepsInv, SweepsTypeOK, SweepRecords
  <2>4. Becomes(s, r) /\ sweep'[s] = r
    BY <2>2, <2>3, Looking
  <2>5. Keeps(s, r)
    BY <1>2, <2>2 DEF Keeps, Working, Stands, Inventoried
  <2>6. \A m : Accounted(m) <=> Accounted(m)'
    BY DEF Accounted, unit
  <2>7. s \notin lost => Covers(sweep[s].members, {})
    BY DEF SweepsInv, Sound, Stands, Inventoried
  <2>8. \A m : Covers(m, {}) <=> Covers(m, {})'
    BY DEF Covers, unit
  <2>9. lost' = lost
    OBVIOUS
  <2>10. Sound(s)'
    BY <1>2, <2>2, <2>4, <2>6, <2>7, <2>8, <2>9 DEF Sound
  <2> QED
    BY <2>4, <2>5, <2>10, OneStep
<1> QED
  BY <1>1, <1>2

LEMMA RecheckStep == ASSUME SweepsInv, NEW s \in Sweeps, Recheck(s) PROVE SweepsInv'
<1> USE DEF Recheck
<1>1. CASE Refuse(s)
  BY <1>1, Refusing
<1>2. CASE sweep' = [sweep EXCEPT ![s].pc = "walk"] /\ token' = token
  <2> DEFINE r == [sweep[s] EXCEPT !.pc = "walk"]
  <2>1. sweep[s] \in SweepRecords
    BY DEF SweepsInv, SweepsTypeOK
  <2>2. /\ r \in SweepRecords /\ r.pc = "walk" /\ r.token = sweep[s].token
        /\ r.first = sweep[s].first /\ r.expected = sweep[s].expected
    BY <2>1 DEF SweepRecords, SweepPhases
  <2>3. Becomes(s, r) /\ sweep'[s] = r
    BY <1>2, <2>2, Looking
  <2>4. Keeps(s, r)
    BY <1>2, <2>2 DEF Keeps, Working, Stands, Inventoried
  <2>5. Sound(s)'
    BY <2>2, <2>3 DEF SweepsInv, Sound, Covers, Accounted, unit
  <2> QED
    BY <2>3, <2>4, <2>5, OneStep
<1> QED
  BY <1>1, <1>2

LEMMA WalkStep == ASSUME SweepsInv, NEW s \in Sweeps, Walk(s) PROVE SweepsInv'
<1> USE DEF Walk
<1>1. CASE Refuse(s)
  BY <1>1, Refusing
<1>2. CASE /\ sweep' = [sweep EXCEPT ![s].pc = "remove", ![s].paths = DOMAIN tree]
           /\ token' = token
  <2> DEFINE r == [sweep[s] EXCEPT !.pc = "remove", !.paths = DOMAIN tree]
  <2>1. sweep[s] \in SweepRecords /\ DOMAIN tree \in SUBSET Paths
    BY TreeParts DEF SweepsInv, SweepsTypeOK
  <2>2. /\ r \in SweepRecords /\ r.pc = "remove" /\ r.token = sweep[s].token
        /\ r.first = sweep[s].first /\ r.expected = sweep[s].expected
    BY <2>1 DEF SweepRecords, SweepPhases
  <2>3. sweep' = [sweep EXCEPT ![s] = r]
    BY <1>2 DEF SweepsInv, SweepsTypeOK, SweepRecords
  <2>4. Becomes(s, r) /\ sweep'[s] = r
    BY <2>2, <2>3, Looking
  <2>5. Keeps(s, r)
    BY <1>2, <2>2 DEF Keeps, Working, Stands
  <2>6. Sound(s)'
    BY <2>2, <2>4 DEF SweepsInv, Sound, Covers, Accounted, unit, Stands
  <2> QED
    BY <2>4, <2>5, <2>6, OneStep
<1> QED
  BY <1>1, <1>2

LEMMA RemoveMemberStep == ASSUME SweepsInv, NEW s \in Sweeps, RemoveMember(s) PROVE SweepsInv'
<1> USE DEF RemoveMember
<1>1. Shrinks /\ tree' \in Trees
  <2>1. ASSUME NEW n \in DOMAIN tree, tree' = Restrict(tree, DOMAIN tree \ {n})
        PROVE  Shrinks /\ tree' \in Trees
    BY <2>1, TreeRestricted DEF SweepsInv, SweepsTypeOK, Shrinks
  <2>2. ASSUME tree' = tree PROVE Shrinks /\ tree' \in Trees
    BY <2>2 DEF SweepsInv, SweepsTypeOK, Shrinks
  <2> QED
    BY <2>1, <2>2
<1>2. CASE Refuse(s)
  BY <1>1, <1>2, Ending
<1>3. ASSUME NEW n \in sweep[s].paths,
             sweep' = [sweep EXCEPT ![s].paths = @ \ {n}], token' = token
      PROVE  SweepsInv'
  <2> DEFINE r == [sweep[s] EXCEPT !.paths = @ \ {n}]
  <2>1. sweep[s] \in SweepRecords /\ sweep[s].paths \in SUBSET Paths
    BY DEF SweepsInv, SweepsTypeOK, SweepRecords
  <2>2. /\ r \in SweepRecords /\ r.pc = "remove" /\ r.token = sweep[s].token
        /\ r.first = sweep[s].first /\ r.expected = sweep[s].expected
    BY <2>1 DEF SweepRecords, SweepPhases, Stands
  <2>3. sweep' = [sweep EXCEPT ![s] = r] /\ sweep'[s] = r
    BY <1>3 DEF SweepsInv, SweepsTypeOK, SweepRecords
  <2>4. Becomes(s, r)
    BY <1>1, <2>2, <2>3 DEF Becomes
  <2>5. Keeps(s, r)
    BY <1>3, <2>2 DEF Keeps, Working, Stands
  <2>6. \A m : Covers(m, {}) => Covers(m, {})'
    BY <1>1 DEF Shrinks, Covers
  <2>7. Sound(s)'
    BY <2>2, <2>3, <2>6 DEF SweepsInv, Sound, Accounted
  <2> QED
    BY <2>4, <2>5, <2>7, OneStep
<1> QED
  BY <1>2, <1>3

-----------------------------------------------------------------------------
(* The steps of others.                                                      *)

(* No sweep whose fence holds is at work while a writer writes.              *)
LEMMA WriteMemberStep ==
  ASSUME SweepsInv, NEW class \in Required, NEW n \in Paths, WriteMember(class, n)
  PROVE  SweepsInv'
<1> USE DEF WriteMember, Interfere
<1>1. \A s \in Sweeps \ lost : sweep[s].token = 0
  BY DEF SweepsInv, SweepsTypeOK, SweepRecords, Fences, Held, Complete, MayWrite
<1>2. tree' \in Trees
  <2>1. ASSUME NEW member \in {c[n] : c \in {d \in Contents : n \in DOMAIN d}},
               tree' = [k \in DOMAIN tree \cup {n} |->
                          IF k = n THEN [kind |-> member.kind, to |-> member.to, id |-> interfered + 1]
                          ELSE tree[k]]
        PROVE  tree' \in Trees
    <3>1. member.kind \in MemberKinds /\ member.to \in Leads
      BY DEF MemberKinds, Leads
    <3>2. [kind |-> member.kind, to |-> member.to, id |-> interfered + 1] \in Members
      BY <3>1 DEF Members, SweepsInv, SweepsTypeOK
    <3> QED
      BY <2>1, <3>2, TreeExtended DEF SweepsInv, SweepsTypeOK
  <2>2. ASSUME tree' = Restrict(tree, {k \in DOMAIN tree : ~IsPrefix(n, k)})
        PROVE  tree' \in Trees
    <3> DEFINE D == {k \in DOMAIN tree : ~IsPrefix(n, k)}
    <3>1. D \in SUBSET (DOMAIN tree)
      OBVIOUS
    <3> HIDE DEF D
    <3>2. tree' = Restrict(tree, D)
      BY <2>2 DEF D
    <3> QED
      BY <3>1, <3>2, TreeRestricted DEF SweepsInv, SweepsTypeOK
  <2> QED
    BY <2>1, <2>2
<1>3. SweepsTypeOK'
  BY <1>2 DEF SweepsInv, SweepsTypeOK
<1>4. Fences'
  BY DEF SweepsInv, Fences, Held, Complete
<1>5. ASSUME NEW s \in Sweeps PROVE Sound(s)'
  <2>1. \A m : Accounted(m) <=> Accounted(m)'
    BY DEF Accounted
  <2>2. sweep[s].pc \in SweepPhases
    BY DEF SweepsInv, SweepsTypeOK, SweepRecords
  <2>3. s \notin lost => sweep[s].pc \notin Working
    BY <1>1 DEF SweepsInv, Fences
  <2> QED
    BY <2>1, <2>2, <2>3 DEF SweepsInv, Sound, Working, SweepPhases
<1> QED
  BY <1>3, <1>4, <1>5 DEF SweepsInv

LEMMA LoseStep == ASSUME SweepsInv, Lose PROVE SweepsInv'
<1> USE DEF Lose, Interfere
<1>1. SweepsTypeOK'
  BY DEF SweepsInv, SweepsTypeOK
<1>2. Fences'
  BY DEF SweepsInv, SweepsTypeOK, Fences, Held, Complete
<1>3. ASSUME NEW s \in Sweeps PROVE Sound(s)'
  <2>1. \A m : Accounted(m) <=> Accounted(m)'
    BY DEF Accounted
  <2>2. \A m, left : Covers(m, left) <=> Covers(m, left)'
    BY DEF Covers
  <2> QED
    BY <2>1, <2>2 DEF SweepsInv, Sound
<1> QED
  BY <1>1, <1>2, <1>3 DEF SweepsInv

LEMMA SweepsNext == SweepsInv /\ [TmpNext]_tmpVars => SweepsInv'
<1> SUFFICES ASSUME SweepsInv, [TmpNext]_tmpVars PROVE SweepsInv'
  OBVIOUS
<1>1. CASE Lose
  BY <1>1, LoseStep
<1>2. ASSUME NEW class \in Required, NEW n \in Paths, WriteMember(class, n) PROVE SweepsInv'
  BY <1>2, WriteMemberStep
<1>3. ASSUME NEW s \in Sweeps, SweepStep(s) PROVE SweepsInv'
  BY <1>3, LookStep, InventoryStep, StatMemberStep, AdmitStep, DeleteStep, CompareStep,
     RecheckStep, WalkStep, RemoveMemberStep DEF SweepStep
<1>4. CASE UNCHANGED tmpVars
  BY <1>4 DEF tmpVars, unit, fence, SweepsInv, SweepsTypeOK, Fences, Sound, Covers, Accounted, Held, Complete
<1> QED
  BY <1>1, <1>2, <1>3, <1>4 DEF TmpNext, Interference

(* The sweeps of a unit are consistent with it and with one another,         *)
(* whatever writers and the fence's owner do (adapter/codex_tmp_contract.go).*)
THEOREM SweepsConsistent == TmpSpec => []SweepsInv
BY SweepsStart, SweepsNext, PTL DEF TmpSpec

-----------------------------------------------------------------------------
(* The properties.                                                           *)

(* Type correctness of the sweeps and of the unit.                           *)
THEOREM SweepsTyped == TmpSpec => []SweepsTypeOK
<1>1. SweepsInv => SweepsTypeOK
  BY DEF SweepsInv
<1> QED
  BY <1>1, SweepsConsistent, PTL

(* A fence is one sweep's alone: no two at work hold it, though each may     *)
(* believe it does until it looks (codexTmpCooperativeExclusion).            *)
Exclusive ==
  \A s, t \in Sweeps : s # t /\ sweep[s].token # 0 /\ sweep[t].token # 0 =>
    ~(Held(s) /\ Held(t))

(* For any number of sweeps and any order of their fences' operations, no    *)
(* two of them hold the unit (acquireCodexTmpFence creates it exclusively).  *)
THEOREM FenceExclusive == TmpSpec => []Exclusive
<1>1. SweepsInv => Exclusive
  BY DEF SweepsInv, Fences, Exclusive, Held
<1> QED
  BY <1>1, SweepsConsistent, PTL

(* What a sweep removes is what its scan saw there and what a known version  *)
(* leaves behind, unless its fence was taken from it                         *)
(* (codex_tmp_contract.go, deleteCodexTmpUnit and removeCodexTmpUnit).       *)
THEOREM VettedRemovals == TmpSpec => RemovesOnlyVetted
<1>1. ASSUME SweepsInv, [TmpNext]_tmpVars, NEW s \in Sweeps, Stands(s, "remove"), s \notin lost,
             tree' # tree, sweep'[s] # sweep[s],
             NEW n \in DOMAIN tree \ DOMAIN tree'
      PROVE  /\ n \in DOMAIN sweep[s].expected /\ sweep[s].expected[n] = tree[n]
             /\ Accounted(sweep[s].expected)
  BY <1>1 DEF SweepsInv, Sound, Covers, Stands
<1>2. SweepsInv /\ [TmpNext]_tmpVars =>
        [ \A s \in Sweeps : Stands(s, "remove") /\ s \notin lost /\ tree' # tree
            /\ sweep'[s] # sweep[s] =>
              \A n \in DOMAIN tree \ DOMAIN tree' :
                /\ n \in DOMAIN sweep[s].expected /\ sweep[s].expected[n] = tree[n]
                /\ Accounted(sweep[s].expected) ]_tmpVars
  BY <1>1
<1> QED
  BY <1>2, SweepsConsistent, PTL DEF TmpSpec, RemovesOnlyVetted
=============================================================================
