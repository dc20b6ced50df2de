-------------------------- MODULE GuidedReviewProofs --------------------------
(****************************************************************************)
(* What holds of GuidedReview for every scan and every answer of Git, any    *)
(* number of units, paths and ages, and however long the operator toggles    *)
(* rows and changes the age: locks hold, proposals are justified, choices    *)
(* survive, and the plan that is handed over takes no locked unit along.     *)
(****************************************************************************)
EXTENDS GuidedReview, FiniteSetTheorems, WellFoundedInduction, TLAPS

-----------------------------------------------------------------------------
(* Least and greatest.                                                       *)

LEMMA LeastExists ==
  ASSUME NEW T \in SUBSET Nat, T # {}
  PROVE  \E m \in T : \A k \in T : m <= k
<1> DEFINE R == OpToRel(<, Nat)
<1>1. IsWellFoundedOn(R, Nat)
  BY NatLessThanWellFounded
<1>2. ASSUME NEW x \in Nat, NEW y \in Nat, <<x, y>> \notin R PROVE y <= x
  BY <1>2 DEF OpToRel
<1> HIDE DEF R
<1>3. PICK m \in T : \A y \in T : ~(<<y, m>> \in R)
  BY <1>1, WFMin
<1>4. ASSUME NEW k \in T PROVE m <= k
  <2>1. <<k, m>> \notin R
    BY <1>3
  <2> QED
    BY <2>1, <1>2
<1> QED
  BY <1>4

LEMMA MinIsLeast ==
  ASSUME NEW T \in SUBSET Nat, T # {}
  PROVE  Min(T) \in T /\ \A k \in T : Min(T) <= k
BY LeastExists DEF Min

(* Among finitely many things, one is preceded by none, whatever precedes    *)
(* what: the one that the fewest precede.                                    *)
LEMMA FirstExists ==
  ASSUME NEW S, IsFiniteSet(S), S # {}, NEW R,
         \A x \in S : <<x, x>> \notin R,
         \A x, y, z \in S : <<x, y>> \in R /\ <<y, z>> \in R => <<x, z>> \in R
  PROVE  \E x \in S : \A y \in S : <<y, x>> \notin R
<1> DEFINE before(x) == {y \in S : <<y, x>> \in R}
           counts == {Cardinality(before(x)) : x \in S}
<1>1. ASSUME NEW x \in S
      PROVE  IsFiniteSet(before(x)) /\ Cardinality(before(x)) \in Nat
  <2>1. before(x) \in SUBSET S
    OBVIOUS
  <2>2. IsFiniteSet(before(x))
    BY <2>1, FS_Subset
  <2> QED
    BY <2>2, FS_CardinalityType
<1> HIDE DEF before
<1>2. counts \in SUBSET Nat /\ counts # {}
  BY <1>1
<1>3. PICK m \in counts : \A k \in counts : m <= k
  <2> HIDE DEF counts
  <2> QED
    BY <1>2, LeastExists
<1>4. PICK x \in S : m = Cardinality(before(x))
  BY <1>3
<1>5. ASSUME NEW y \in S, <<y, x>> \in R PROVE FALSE
  <2>1. before(y) \in SUBSET before(x) /\ y \in before(x) /\ y \notin before(y)
    BY <1>5 DEF before
  <2>2. m <= Cardinality(before(y))
    BY <1>3
  <2>3. IsFiniteSet(before(x)) /\ Cardinality(before(x)) \in Nat /\ Cardinality(before(y)) \in Nat
    BY <1>1
  <2>4. Cardinality(before(y)) <= Cardinality(before(x)) /\ before(y) # before(x)
    BY <2>1, <2>3, FS_Subset
  <2>5. Cardinality(before(y)) # Cardinality(before(x))
    BY <2>1, <2>3, <2>4, FS_Subset
  <2> QED
    BY <1>4, <2>2, <2>3, <2>4, <2>5
<1> QED
  BY <1>5

LEMMA MaxIsGreatest ==
  ASSUME NEW T \in SUBSET Nat, IsFiniteSet(T), T # {}
  PROVE  Max(T) \in T /\ \A k \in T : k <= Max(T)
<1> DEFINE R == {p \in T \X T : p[1] > p[2]}
<1>1. \A x, y \in T : <<x, y>> \in R <=> x > y
  OBVIOUS
<1> HIDE DEF R
<1>2. \A x \in T : <<x, x>> \notin R
  BY <1>1
<1>3. \A x, y, z \in T : <<x, y>> \in R /\ <<y, z>> \in R => <<x, z>> \in R
  BY <1>1
<1>4. PICK x \in T : \A y \in T : <<y, x>> \notin R
  BY <1>2, <1>3, FirstExists
<1>5. ASSUME NEW y \in T PROVE y <= x
  <2>1. <<y, x>> \notin R
    BY <1>4
  <2>2. ~(y > x)
    BY <1>1, <2>1
  <2> QED
    BY <2>2
<1> QED
  BY <1>5 DEF Max

-----------------------------------------------------------------------------
(* The physical components of a plan, of any candidates.                     *)

(* A target that is covered has an outermost cover.                          *)
LEMMA OwnerCovers ==
  ASSUME NEW C, NEW p, Absorbing(C, p) # {}
  PROVE  /\ Owner(C, p) \in Absorbing(C, p)
         /\ \A r \in Absorbing(C, p) \ {Owner(C, p)} : <<r, Owner(C, p)>> \in Within
<1> DEFINE over == Absorbing(C, p)
           R == {e \in Paths \X Paths : <<e[2], e[1]>> \in Within}
<1>1. over \subseteq Paths /\ IsFiniteSet(over) /\ p \in Paths
  <2>1. over \subseteq Paths
    BY DEF Absorbing, Above
  <2>2. p \in Paths
    BY WithinAssumption DEF Absorbing, Above
  <2> QED
    BY <2>1, <2>2, FS_Subset, WithinAssumption
<1>2. \A x, y \in Paths : <<x, y>> \in R <=> <<y, x>> \in Within
  OBVIOUS
<1> HIDE DEF R
<1>3. \A x, y, z \in over : <<x, y>> \in R /\ <<y, z>> \in R => <<x, z>> \in R
  BY <1>1, <1>2, WithinAssumption
<1>4. \A x \in over : <<x, x>> \notin R
  BY <1>1, <1>2, WithinAssumption
<1> HIDE DEF over
<1>5. PICK q \in over : \A r \in over : <<r, q>> \notin R
  <2>1. over # {}
    BY DEF over
  <2> QED
    BY <1>1, <1>3, <1>4, <2>1, FirstExists
<1>6. \A r \in over : <<p, r>> \in Within
  BY DEF over, Absorbing, Above
<1>7. \A r \in over \ {q} : <<r, q>> \in Within
  BY <1>1, <1>2, <1>5, <1>6, WithinAssumption
<1>8. \E x \in over : \A r \in over \ {x} : <<r, x>> \in Within
  BY <1>7
<1>9. Owner(C, p) = CHOOSE x \in over : \A r \in over \ {x} : <<r, x>> \in Within
  BY DEF Owner, over
<1> QED
  BY <1>8, <1>9 DEF over

(* The owner of a component is covered by none, and so owns itself.          *)
LEMMA OwnersOnTop ==
  ASSUME NEW C, NEW o \in Components(C)
  PROVE  /\ Absorbing(C, o) = {}
         /\ o \in Owned(C, o)
<1>1. PICK p \in Targets(C) : o = Owner(C, p)
  BY DEF Components
<1>2. Absorbing(C, o) = {} /\ o \in Targets(C)
  <2>1. CASE Absorbing(C, p) = {}
    BY <1>1, <2>1 DEF Owner
  <2>2. CASE Absorbing(C, p) # {}
    <3>1. o \in Absorbing(C, p) /\ \A r \in Absorbing(C, p) \ {o} : <<r, o>> \in Within
      BY <1>1, <2>2, OwnerCovers
    <3>2. o \in Targets(C) /\ <<p, o>> \in Within
      BY <3>1 DEF Absorbing, Above
    <3>3. ASSUME NEW q \in Absorbing(C, o) PROVE FALSE
      <4>1. q \in Targets(C) /\ <<o, q>> \in Within /\ q \in Paths
               /\ PolicySelection(C, q) # "unselected"
        BY DEF Absorbing, Above
      <4>2. p \in Paths /\ o \in Paths
        BY <3>2, WithinAssumption
      <4>3. <<p, q>> \in Within
        BY <3>2, <4>1, <4>2, WithinAssumption
      <4>4. q \in Absorbing(C, p)
        BY <4>1, <4>3 DEF Absorbing, Above
      <4>5. q # o
        BY <4>1, <4>2, WithinAssumption
      <4>6. <<o, o>> \in Within
        BY <3>1, <4>1, <4>2, <4>4, <4>5, WithinAssumption
      <4> QED
        BY <4>2, <4>6, WithinAssumption
    <3> QED
      BY <3>2, <3>3
  <2> QED
    BY <2>1, <2>2
<1>3. Owner(C, o) = o
  BY <1>2 DEF Owner
<1> QED
  BY <1>2, <1>3 DEF Owned

(* What lies in a selected or locked owner belongs to its component.         *)
LEMMA OwnsWithin ==
  ASSUME NEW C, NEW o \in Components(C), PolicySelection(C, o) # "unselected",
         NEW q \in Targets(C), <<q, o>> \in Within
  PROVE  q \in Owned(C, o)
<1>1. Absorbing(C, o) = {} /\ o \in Targets(C)
  BY OwnersOnTop DEF Owned
<1>2. q \in Paths /\ o \in Paths
  BY WithinAssumption
<1>3. o \in Absorbing(C, q)
  BY <1>1, <1>2 DEF Absorbing, Above
<1>4. /\ Owner(C, q) \in Absorbing(C, q)
      /\ \A r \in Absorbing(C, q) \ {Owner(C, q)} : <<r, Owner(C, q)>> \in Within
  BY <1>3, OwnerCovers
<1>5. ASSUME Owner(C, q) # o PROVE FALSE
  <2>1. <<o, Owner(C, q)>> \in Within
    BY <1>3, <1>4, <1>5
  <2>2. Owner(C, q) \in Absorbing(C, o)
    BY <1>4, <2>1 DEF Absorbing, Above
  <2> QED
    BY <1>1, <2>2
<1> QED
  BY <1>5 DEF Owned

(* A selected component has a selected owner, and nothing locked in it.      *)
LEMMA SelectedComponent ==
  ASSUME NEW C, NEW o \in Components(C), BuildPlan(C)[o] = "selected"
  PROVE  /\ PolicySelection(C, o) = "selected"
         /\ \A p \in Owned(C, o) : PolicySelection(C, p) # "locked"
<1> DEFINE S == {PolicySelection(C, p) : p \in Owned(C, o)}
<1>1. Aggregate(S) = "selected"
  BY DEF BuildPlan
<1>2. "locked" \notin S /\ "selected" \in S
  BY <1>1 DEF Aggregate
<1>3. \A p \in Owned(C, o) : PolicySelection(C, p) # "locked"
  BY <1>2
<1>4. o \in Owned(C, o)
  BY OwnersOnTop
<1>5. ASSUME PolicySelection(C, o) = "unselected" PROVE FALSE
  <2>1. ASSUME NEW p \in Owned(C, o), p # o PROVE FALSE
    <3>1. Owner(C, p) = o
      BY DEF Owned
    <3>2. Absorbing(C, p) # {}
      BY <2>1, <3>1 DEF Owner
    <3>3. o \in Absorbing(C, p)
      BY <3>1, <3>2, OwnerCovers
    <3> QED
      BY <1>5, <3>3 DEF Absorbing
  <2>2. S = {"unselected"}
    BY <1>4, <1>5, <2>1
  <2> QED
    BY <1>2, <2>2
<1>6. PolicySelection(C, o) \in {"locked", "selected", "unselected"}
  BY DEF PolicySelection, Aggregate
<1> QED
  BY <1>3, <1>4, <1>5, <1>6

(* A lock keeps every component that is related to its path.                 *)
LEMMA LockKeepsComponent ==
  ASSUME NEW C, NEW o \in Components(C), BuildPlan(C)[o] = "selected",
         NEW c \in C, c.selection = "locked"
  PROVE  ~Related(o, c.path)
<1> DEFINE q == c.path
<1>1. q \in Targets(C)
  BY DEF Targets
<1>2. PolicySelection(C, q) = "locked"
  BY DEF PolicySelection, Aggregate, RowsAt
<1> HIDE DEF q
<1>3. q # o /\ q \notin Owned(C, o)
  BY <1>2, SelectedComponent
<1>4. <<q, o>> \notin Within
  BY <1>1, <1>3, SelectedComponent, OwnsWithin
<1>5. <<o, q>> \notin Within
  <2> SUFFICES ASSUME <<o, q>> \in Within PROVE FALSE
    OBVIOUS
  <2>1. q \in Absorbing(C, o)
    BY <1>1, <1>2, WithinAssumption DEF Absorbing, Above
  <2> QED
    BY <2>1, OwnersOnTop
<1> QED
  BY <1>3, <1>4, <1>5 DEF Related, q

(* No selected component lies in another one.                                *)
LEMMA ComponentsApart ==
  ASSUME NEW C, NEW o \in Components(C), BuildPlan(C)[o] = "selected",
         NEW p \in Components(C), BuildPlan(C)[p] = "selected", o # p
  PROVE  ~Related(o, p)
<1>1. ASSUME NEW x \in Components(C), NEW y \in Components(C), <<x, y>> \in Within,
             BuildPlan(C)[y] = "selected"
      PROVE  FALSE
  <2>1. PolicySelection(C, y) = "selected"
    BY <1>1, SelectedComponent
  <2>2. y \in Targets(C)
    BY OwnersOnTop DEF Owned
  <2>3. y \in Absorbing(C, x)
    BY <1>1, <2>1, <2>2, WithinAssumption DEF Absorbing, Above
  <2> QED
    BY <2>3, OwnersOnTop
<1> QED
  BY <1>1 DEF Related

-----------------------------------------------------------------------------
(* Units and decisions.                                                      *)

USE PolicyAssumption, AgesAssumption

Hard(k) == Locks(U[k], world.standing) # {}

LEMMA UnitIs ==
  ASSUME scan \in DOMAIN Worlds, NEW k \in DOMAIN U
  PROVE  /\ k \in DOMAIN world.target
         /\ IsUnit(world.target[k])
         /\ U[k] = Unit(world.target[k], world.checkout)
BY DEF U, UnitsOf, world

LEMMA UnitFields ==
  ASSUME scan \in DOMAIN Worlds, NEW k \in DOMAIN U
  PROVE  /\ U[k].path = Path(k)
         /\ U[k].size = UnitSize(world.target[k])
         /\ U[k].registered = Registered(world.target[k])
         /\ U[k].readable <=> /\ Readable(world.target[k], world.target[k].session)
                              /\ \A m \in MemberPaths(world.target[k]) :
                                   Readable(world.target[k], world.checkout[m].session)
<1>1. U[k] = Unit(world.target[k], world.checkout)
  BY UnitIs
<1> QED
  BY <1>1 DEF Unit, Path

LEMMA MembersAre ==
  ASSUME scan \in DOMAIN Worlds, NEW k \in DOMAIN U
  PROVE  /\ Members(U[k]) = MemberPaths(world.target[k])
         /\ Members(U[k]) \subseteq DOMAIN world.checkout /\ Members(U[k]) # {}
         /\ \A m \in Members(U[k]) : U[k].evidence[m] = Evidence(world.checkout[m])
<1>1. U[k] = Unit(world.target[k], world.checkout) /\ k \in DOMAIN world.target
         /\ IsUnit(world.target[k])
  BY UnitIs
<1>2. U[k].evidence = [m \in MemberPaths(world.target[k]) |-> Evidence(world.checkout[m])]
  BY <1>1 DEF Unit
<1>3. MemberPaths(world.target[k]) \subseteq DOMAIN world.checkout
  BY <1>1, WorldsAssumption DEF world
<1> QED
  BY <1>1, <1>2, <1>3 DEF Members, IsUnit

(* The youngest of some ages is an age, and no older than any of them.       *)
LEMMA YoungestIs ==
  ASSUME NEW ages \in SUBSET Nat
  PROVE  Youngest(ages) \in Nat /\ \A a \in ages : Youngest(ages) <= a
<1>1. ages \cup {Never} \in SUBSET Nat /\ ages \cup {Never} # {}
  OBVIOUS
<1> QED
  BY <1>1, MinIsLeast DEF Youngest

(* A unit was last used no earlier than its checkouts, by the reflog and, if *)
(* there is a reader, by their sessions.                                     *)
LEMMA LastIs ==
  ASSUME scan \in DOMAIN Worlds, NEW k \in DOMAIN U
  PROVE  /\ U[k].last \in Nat
         /\ \A m \in MemberPaths(world.target[k]) :
              /\ U[k].last <= world.checkout[m].reflog
              /\ Readable(world.target[k], world.checkout[m].session) =>
                   U[k].last <= world.checkout[m].session
<1> DEFINE t == world.target[k]
           activity(m) == MemberActivity(t, m, world.checkout[m])
           sources(m) == {world.checkout[m].reflog, Fallback(t, m)}
                \cup IF Readable(t, world.checkout[m].session)
                     THEN {world.checkout[m].session} ELSE {}
<1>1. /\ U[k] = Unit(t, world.checkout) /\ k \in DOMAIN world.target
      /\ IsUnit(t) /\ MemberPaths(t) \subseteq DOMAIN world.checkout
  BY UnitIs, WorldsAssumption DEF world
<1>2. \A row \in Range(ActiveRows(t)) : row.mtime \in Nat
  BY <1>1, WorldsAssumption DEF world
<1>3. ASSUME NEW m \in MemberPaths(t) PROVE Fallback(t, m) \in Nat
  <2> DEFINE rows == Range(ActiveRows(t))
             named == {r \in rows : r.project = m /\ m # t.path}
             ages == {r.mtime : r \in IF named # {} THEN named ELSE rows}
  <2>1. ages \in SUBSET Nat
    BY <1>2
  <2>2. Fallback(t, m) = Youngest(ages)
    BY DEF Fallback
  <2> HIDE DEF ages
  <2> QED
    BY <2>1, <2>2, YoungestIs
<1>4. ASSUME NEW m \in MemberPaths(t) PROVE sources(m) \in SUBSET Nat
  <2>1. /\ world.checkout[m].reflog \in Nat
        /\ world.checkout[m].session \in Nat \cup {Outage}
    BY <1>1, WorldsAssumption DEF world
  <2> QED
    BY <1>3, <2>1 DEF Readable
<1>5. ASSUME NEW m \in MemberPaths(t)
      PROVE  activity(m) \in Nat /\ \A a \in sources(m) : activity(m) <= a
  <2>1. activity(m) = Youngest(sources(m))
    BY DEF MemberActivity
  <2> HIDE DEF sources, activity
  <2> QED
    BY <2>1, <1>4, YoungestIs
<1> DEFINE all == {activity(m) : m \in MemberPaths(t)}
<1>6. U[k].last = Youngest(all)
  BY <1>1 DEF Unit
<1>7. all \in SUBSET Nat
  <2> HIDE DEF activity
  <2> QED
    BY <1>5
<1>8. Youngest(all) \in Nat /\ \A a \in all : Youngest(all) <= a
  <2> HIDE DEF all
  <2> QED
    BY <1>7, YoungestIs
<1>9. ASSUME NEW m \in MemberPaths(t)
      PROVE  /\ U[k].last <= world.checkout[m].reflog
             /\ Readable(t, world.checkout[m].session) =>
                  U[k].last <= world.checkout[m].session
  <2>1. activity(m) \in all
    OBVIOUS
  <2>2. U[k].last <= activity(m) /\ U[k].last \in Nat
    <3> HIDE DEF all, activity
    <3> QED
      BY <1>6, <1>8, <2>1
  <2>3. activity(m) \in Nat /\ \A a \in sources(m) : a \in Nat /\ activity(m) <= a
    BY <1>4, <1>5
  <2>4. world.checkout[m].reflog \in sources(m)
    OBVIOUS
  <2>5. Readable(t, world.checkout[m].session) => world.checkout[m].session \in sources(m)
    OBVIOUS
  <2> HIDE DEF sources, activity
  <2>6. ASSUME NEW a \in sources(m) PROVE U[k].last <= a
    BY <2>2, <2>3
  <2> QED
    BY <2>4, <2>5, <2>6
<1> QED
  BY <1>6, <1>8, <1>9

(* What locks a unit does not depend on the age or on any probe.             *)
LEMMA DecisionIs ==
  ASSUME NEW k \in DOMAIN U, NEW a, NEW results
  PROVE  /\ Decision(k, a, results).class \in {"locked", "reviewable", "recommended"}
         /\ Decision(k, a, results).class = "locked" <=> Hard(k)
         /\ Decision(k, a, results).class = "recommended" =>
              /\ HeldFor(U, k, a) = ""
              /\ Demotion({results[m] : m \in Members(U[k])}) = ""
<1> DEFINE held == HeldFor(U, k, a)
           demoted == Demotion({results[m] : m \in Members(U[k])})
           locks == Locks(U[k], world.standing)
<1>1. Decision(k, a, results) =
        IF locks # {}        THEN [class |-> "locked", reasons |-> locks]
        ELSE IF held # ""    THEN [class |-> "reviewable", reasons |-> {held}]
        ELSE IF demoted # "" THEN [class |-> "reviewable", reasons |-> {demoted}]
        ELSE [class |-> "recommended", reasons |-> {"cleanup_recommended"}]
  BY DEF Decision, Decide
<1>2. Hard(k) <=> locks # {}
  BY DEF Hard
<1> HIDE DEF held, demoted, locks
<1>3. /\ Decision(k, a, results).class \in {"locked", "reviewable", "recommended"}
      /\ Decision(k, a, results).class = "locked" <=> locks # {}
      /\ Decision(k, a, results).class = "recommended" => held = "" /\ demoted = ""
  <2>1. CASE locks # {}
    BY <1>1, <2>1
  <2>2. CASE locks = {} /\ held # ""
    <3>1. Decision(k, a, results) = [class |-> "reviewable", reasons |-> {held}]
      BY <1>1, <2>2, Zenon
    <3>2. Decision(k, a, results).class = "reviewable"
      BY <3>1
    <3> QED
      BY <2>2, <3>2
  <2>3. CASE locks = {} /\ held = "" /\ demoted # ""
    <3>1. Decision(k, a, results) = [class |-> "reviewable", reasons |-> {demoted}]
      BY <1>1, <2>3, Zenon
    <3>2. Decision(k, a, results).class = "reviewable"
      BY <3>1
    <3> QED
      BY <2>3, <3>2
  <2>4. CASE locks = {} /\ held = "" /\ demoted = ""
    <3>1. Decision(k, a, results) = [class |-> "recommended", reasons |-> {"cleanup_recommended"}]
      BY <1>1, <2>4, Zenon
    <3>2. Decision(k, a, results).class = "recommended"
      BY <3>1
    <3> QED
      BY <2>4, <3>2
  <2> QED
    BY <2>1, <2>2, <2>3, <2>4
<1> QED
  BY <1>2, <1>3 DEF held, demoted

-----------------------------------------------------------------------------
(* The invariant.                                                            *)

Rows == {"locked", "reviewable", "recommended"}

Columns == {"policy", "reasons", "selected", "override"}

Results == {"", "merged", "unknown", "not_merged"}

(* Where the command is, and what it has.                                    *)
TypeOK ==
  /\ scan \in DOMAIN Worlds
  /\ phase \in {"planning", "reviewing", "combining", "validating", "handed",
                "aborted", "failed"}
  /\ age \in Nat
  /\ probed \in [DOMAIN world.checkout -> Results]
  /\ DOMAIN review \subseteq DOMAIN U
  /\ review = [k \in DOMAIN review |-> review[k]]
  /\ \A k \in DOMAIN review :
       /\ DOMAIN review[k] = Columns
       /\ review[k].policy \in Rows /\ review[k].selected \in BOOLEAN
       /\ review[k].override \in Words
  /\ asked \in [DOMAIN review -> Words]

(* What is known of a checkout is what its probe says.                       *)
ProbesTrue == \A m \in DOMAIN probed : probed[m] \in {"", Probe(world.checkout[m])}

(* A row is locked and as it was, or what the plan at the present age and    *)
(* the operator's last word make of it.                                      *)
RowTrue(k) ==
  LET r == review[k] IN
  /\ Hard(k) => r.policy = "locked"
  /\ r.policy = "locked" => ~r.selected /\ r.override = "none" /\ asked[k] = "none"
  /\ r.policy # "locked" =>
       /\ r.policy = Decision(k, age, probed).class
       /\ r.override = asked[k]
       /\ r.selected = IF asked[k] = "none" THEN r.policy = "recommended"
                       ELSE asked[k] = "in"

(* The plan is the one of the candidates but where the operator changed it,  *)
(* and no locked unit is missing among them.                                 *)
PlanTrue ==
  /\ plan = [o \in DOMAIN plan |-> plan[o]]
  /\ DOMAIN plan = Components(candidates)
  /\ \A o \in DOMAIN plan \ revisited : plan[o] = BuildPlan(candidates)[o]
  /\ phase \in {"combining", "validating", "handed"} =>
       \A k \in DOMAIN review : review[k].policy = "locked" =>
         \E c \in candidates : c.path = Path(k) /\ c.selection = "locked"
  /\ handed \subseteq SelectedPhysicalTargets(plan)
  /\ handed # {} => phase = "handed"
  /\ phase = "planning" => review = <<>> /\ plan = <<>>

Inv ==
  TypeOK /\ ProbesTrue /\ PlanTrue /\ \A k \in DOMAIN review : RowTrue(k)

(* No candidates, no components.                                             *)
LEMMA NoComponents == Components({}) = {}
BY DEF Components, Targets

LEMMA InitInv == Init => Inv
<1> SUFFICES ASSUME Init PROVE Inv
  OBVIOUS
<1>1. review = <<>> /\ plan = <<>> /\ asked = <<>> /\ candidates = {} /\ handed = {}
        /\ revisited = {} /\ phase = "planning" /\ scan \in DOMAIN Worlds
  BY DEF Init
<1>2. \A f : f = <<>> => DOMAIN f = {} /\ \A S : f \in [{} -> S]
  OBVIOUS
<1>3. DOMAIN review = {} /\ DOMAIN plan = {}
  BY <1>1, <1>2
<1>4. \A f, g : DOMAIN f = {} /\ f = <<>> => f = [k \in DOMAIN f |-> g[k]]
  OBVIOUS
<1>5. age \in Nat
  BY WorldsAssumption DEF Init, world
<1>6. probed \in [DOMAIN world.checkout -> Results]
  BY DEF Init, Results
<1>7. review = [k \in DOMAIN review |-> review[k]]
  BY <1>1, <1>3, <1>4
<1>8. asked \in [DOMAIN review -> Words]
  BY <1>1, <1>2, <1>3
<1>9. TypeOK
  BY <1>1, <1>3, <1>5, <1>6, <1>7, <1>8 DEF TypeOK
<1>10. ProbesTrue
  BY DEF ProbesTrue, Init
<1>11. PlanTrue
  <2>1. plan = [o \in DOMAIN plan |-> plan[o]]
    BY <1>1, <1>3, <1>4
  <2>2. DOMAIN plan = Components(candidates)
    BY <1>1, <1>3, NoComponents
  <2> QED
    BY <1>1, <1>3, <2>1, <2>2 DEF PlanTrue
<1> QED
  BY <1>3, <1>9, <1>10, <1>11 DEF Inv

-----------------------------------------------------------------------------
(* Planning.                                                                 *)

LEMMA ProbedIs ==
  ASSUME scan \in DOMAIN Worlds, NEW a,
         NEW results \in [DOMAIN world.checkout -> Results],
         \A m \in DOMAIN results : results[m] \in {"", Probe(world.checkout[m])}
  PROVE  LET new == Probed(U, a, world.standing, world.checkout, results) IN
         /\ new \in [DOMAIN world.checkout -> Results]
         /\ \A m \in DOMAIN new : new[m] \in {"", Probe(world.checkout[m])}
<1> DEFINE new == Probed(U, a, world.standing, world.checkout, results)
<1>1. \A c : Probe(c) \in Results
  BY DEF Probe, Results
<1>2. DOMAIN new = DOMAIN world.checkout
  BY DEF Probed
<1>3. \A m \in DOMAIN new : new[m] \in {results[m], Probe(world.checkout[m])}
  BY DEF Probed
<1>4. new = [m \in DOMAIN world.checkout |-> new[m]]
  BY DEF Probed
<1> HIDE DEF new
<1> QED
  <2>1. \A m \in DOMAIN world.checkout : new[m] \in Results
    BY <1>1, <1>2, <1>3
  <2>2. \A m \in DOMAIN new : new[m] \in {"", Probe(world.checkout[m])}
    BY <1>2, <1>3
  <2> QED
    BY <1>4, <2>1, <2>2 DEF new

(* The world of a command stands still.                                      *)
LEMMA SameWorld ==
  ASSUME scan' = scan
  PROVE  /\ world' = world /\ U' = U
         /\ \A k : Path(k)' = Path(k)
         /\ \A k : Hard(k)' <=> Hard(k)
         /\ \A k, a, results : Decision(k, a, results)' = Decision(k, a, results)
BY DEF world, U, Path, Hard, Decision

(* A step that leaves the review alone.                                      *)
LEMMA SameReview ==
  ASSUME Inv, UNCHANGED <<scan, age, probed, review, asked>>,
         phase' \in {"planning", "reviewing", "combining", "validating", "handed",
                    "aborted", "failed"},
         PlanTrue'
  PROVE  Inv'
<1>1. /\ world' = world /\ U' = U
      /\ \A k : Hard(k)' <=> Hard(k)
      /\ \A k, a, results : Decision(k, a, results)' = Decision(k, a, results)
  BY SameWorld
<1>2. TypeOK'
  BY <1>1 DEF Inv, TypeOK
<1>3. ProbesTrue'
  BY <1>1 DEF Inv, ProbesTrue
<1>4. ASSUME NEW k \in DOMAIN review' PROVE RowTrue(k)'
  <2>1. RowTrue(k)
    BY DEF Inv
  <2>2. Decision(k, age, probed)' = Decision(k, age, probed) /\ (Hard(k)' <=> Hard(k))
    BY <1>1
  <2> QED
    BY <2>1, <2>2 DEF RowTrue
<1> QED
  BY <1>2, <1>3, <1>4 DEF Inv

LEMMA PinnedIs ==
  ASSUME NEW r, DOMAIN r = Columns
  PROVE  /\ DOMAIN Pinned(r) = Columns
         /\ Pinned(r).policy = "locked" /\ Pinned(r).selected = FALSE
         /\ Pinned(r).override = "none"
BY DEF Pinned, Columns

LEMMA BuildStep == ASSUME Inv, Build PROVE Inv'
<1> USE DEF Build
<1>1. scan \in DOMAIN Worlds /\ scan' = scan
  BY DEF Inv, TypeOK
<1>2. CASE phase' = "failed" /\ UNCHANGED <<probed, review, asked>>
  <2>1. PlanTrue'
    BY <1>2 DEF Inv, PlanTrue, choices
  <2> QED
    BY <1>2, <2>1, SameReview
<1>3. CASE /\ probed' = Probed(U, age, world.standing, world.checkout, probed)
           /\ review' = [k \in DOMAIN U |->
                LET row == Proposed(k, age, probed') IN
                IF ProtectMatch(world.pins, Path(k)) THEN Pinned(row) ELSE row]
           /\ asked' = [k \in DOMAIN U |-> "none"]
           /\ phase' = "reviewing"
  <2>1. /\ probed' \in [DOMAIN world.checkout -> Results]
        /\ \A m \in DOMAIN probed' : probed'[m] \in {"", Probe(world.checkout[m])}
    BY <1>1, <1>3, ProbedIs DEF Inv, TypeOK, ProbesTrue
  <2> DEFINE d(k) == Decision(k, age, probed')
             row(k) == Proposed(k, age, probed')
  <2>2. DOMAIN review' = DOMAIN U
    BY <1>3
  <2>3. ASSUME NEW k \in DOMAIN U
        PROVE  /\ DOMAIN review'[k] = Columns
               /\ review'[k].override = "none"
               /\ \/ review'[k].policy = "locked" /\ review'[k].selected = FALSE
                  \/ /\ review'[k].policy = d(k).class
                     /\ review'[k].selected = (d(k).class = "recommended")
    <3>1. /\ DOMAIN row(k) = Columns
          /\ row(k).policy = d(k).class /\ row(k).override = "none"
          /\ row(k).selected = (d(k).class = "recommended")
      BY DEF Proposed, Columns
    <3>2. review'[k] = IF ProtectMatch(world.pins, Path(k)) THEN Pinned(row(k)) ELSE row(k)
      BY <1>3
    <3> HIDE DEF row, d
    <3>3. CASE ProtectMatch(world.pins, Path(k))
      <4>1. review'[k] = Pinned(row(k))
        BY <3>2, <3>3
      <4>2. /\ DOMAIN Pinned(row(k)) = Columns
            /\ Pinned(row(k)).policy = "locked" /\ Pinned(row(k)).selected = FALSE
            /\ Pinned(row(k)).override = "none"
        BY <3>1, PinnedIs
      <4> QED
        BY <4>1, <4>2
    <3>4. CASE ~ProtectMatch(world.pins, Path(k))
      BY <3>1, <3>2, <3>4
    <3> QED
      BY <3>3, <3>4
  <2>4. \A k \in DOMAIN U : /\ d(k).class \in Rows
                            /\ d(k).class = "locked" <=> Hard(k)
    BY DecisionIs DEF Rows
  <2> HIDE DEF d
  <2>5. TypeOK'
    <3>1. review' = [k \in DOMAIN review' |-> review'[k]]
      BY <1>3
    <3>2. asked' \in [DOMAIN review' -> Words]
      BY <1>3, <2>2 DEF Words
    <3>3. \A k \in DOMAIN review' :
            /\ DOMAIN review'[k] = Columns
            /\ review'[k].policy \in Rows /\ review'[k].selected \in BOOLEAN
            /\ review'[k].override \in Words
      BY <2>2, <2>3, <2>4 DEF Rows, Words
    <3> QED
      BY <1>1, <1>3, <2>1, <2>2, <3>1, <3>2, <3>3, SameWorld DEF Inv, TypeOK
  <2>6. ProbesTrue'
    BY <1>1, <2>1, SameWorld DEF ProbesTrue
  <2>7. ASSUME NEW k \in DOMAIN review' PROVE RowTrue(k)'
    <3>1. k \in DOMAIN U /\ asked'[k] = "none"
      BY <1>3, <2>2
    <3>2. Decision(k, age, probed)' = d(k) /\ (Hard(k)' <=> Hard(k))
      BY <1>1, SameWorld DEF d
    <3> QED
      BY <2>3, <2>4, <3>1, <3>2 DEF RowTrue
  <2>8. PlanTrue'
    <3>1. plan = <<>>
      BY DEF Inv, PlanTrue
    <3> QED
      BY <1>3, <3>1 DEF Inv, PlanTrue, choices
  <2> QED
    BY <2>5, <2>6, <2>7, <2>8 DEF Inv
<1> QED
  BY <1>2, <1>3

-----------------------------------------------------------------------------
(* The operator's choices.                                                   *)

LEMMA ToggleRowStep == ASSUME Inv, NEW k \in DOMAIN review, ToggleRow(k) PROVE Inv'
<1> USE DEF ToggleRow
<1> DEFINE word == IF review[k].selected THEN "out" ELSE "in"
<1>1. /\ world' = world /\ U' = U
      /\ \A j : Path(j)' = Path(j)
      /\ \A j : Hard(j)' <=> Hard(j)
      /\ \A j, a, results : Decision(j, a, results)' = Decision(j, a, results)
  BY SameWorld
<1>2. /\ DOMAIN review' = DOMAIN review
      /\ \A j \in DOMAIN review \ {k} : review'[j] = review[j]
      /\ review' = [j \in DOMAIN review' |-> review'[j]]
  OBVIOUS
<1>3. /\ DOMAIN review'[k] = Columns /\ review'[k].policy = review[k].policy
      /\ review'[k].selected = (word = "in") /\ review'[k].override = word
  BY DEF Inv, TypeOK, Columns
<1>4. /\ word \in {"in", "out"} /\ asked' = [asked EXCEPT ![k] = word]
      /\ review[k].policy # "locked" /\ k \in DOMAIN review
      /\ UNCHANGED <<scan, phase, age, probed, choices>>
  OBVIOUS
<1> HIDE DEF word, ToggleRow
<1>5. TypeOK'
  <2>1. asked' \in [DOMAIN review' -> Words]
    BY <1>2, <1>4 DEF Inv, TypeOK, Words
  <2>2. \A j \in DOMAIN review' :
          /\ DOMAIN review'[j] = Columns
          /\ review'[j].policy \in Rows /\ review'[j].selected \in BOOLEAN
          /\ review'[j].override \in Words
    BY <1>2, <1>3, <1>4 DEF Inv, TypeOK, Words
  <2> QED
    BY <1>1, <1>2, <1>4, <2>1, <2>2 DEF Inv, TypeOK
<1>6. ProbesTrue'
  BY <1>1, <1>4 DEF Inv, ProbesTrue
<1>7. ASSUME NEW j \in DOMAIN review' PROVE RowTrue(j)'
  <2>1. Decision(j, age, probed)' = Decision(j, age, probed) /\ (Hard(j)' <=> Hard(j))
    BY <1>1, <1>4
  <2>2. CASE j = k
    BY <1>2, <1>3, <1>4, <2>1, <2>2 DEF Inv, TypeOK, RowTrue
  <2>3. CASE j # k
    BY <1>2, <1>4, <2>1, <2>3 DEF Inv, TypeOK, RowTrue
  <2> QED
    BY <2>2, <2>3
<1>8. PlanTrue'
  <2>1. phase # "planning"
    BY DEF Inv, PlanTrue
  <2>2. \A j \in DOMAIN review' : review'[j].policy = review[j].policy
    BY <1>2, <1>3
  <2> QED
    BY <1>1, <1>2, <1>4, <2>1, <2>2 DEF Inv, PlanTrue, choices
<1> QED
  BY <1>5, <1>6, <1>7, <1>8 DEF Inv

(* Another age plans anew and keeps what was said.                           *)
LEMMA ReplanStep == ASSUME Inv, NEW a \in Nat, Replan(a) PROVE Inv'
<1> USE DEF Replan
<1>1. /\ world' = world /\ U' = U
      /\ \A j : Path(j)' = Path(j)
      /\ \A j : Hard(j)' <=> Hard(j)
      /\ \A j, b, results : Decision(j, b, results)' = Decision(j, b, results)
  BY SameWorld
<1>2. /\ probed' \in [DOMAIN world.checkout -> Results]
      /\ \A m \in DOMAIN probed' : probed'[m] \in {"", Probe(world.checkout[m])}
  BY ProbedIs DEF Inv, TypeOK, ProbesTrue
<1> DEFINE d(k) == Decision(k, a, probed')
           new(k) == Replanned(review[k], d(k))
<1>3. /\ DOMAIN review' = DOMAIN review
      /\ review' = [k \in DOMAIN review' |-> review'[k]]
      /\ \A k \in DOMAIN review : review'[k] = new(k)
  OBVIOUS
<1>4. \A k \in DOMAIN review : /\ d(k).class \in Rows
                               /\ d(k).class = "locked" <=> Hard(k)
  BY DecisionIs DEF Rows, Inv, TypeOK
<1>5. UNCHANGED <<scan, phase, asked, choices>> /\ age' = a /\ phase = "reviewing"
  OBVIOUS
<1> HIDE DEF Replan
<1>6. ASSUME NEW k \in DOMAIN review
      PROVE  /\ DOMAIN new(k) = Columns
             /\ new(k).policy = d(k).class
             /\ d(k).class = "locked" => new(k).selected = FALSE /\ new(k).override = "none"
             /\ d(k).class # "locked" =>
                  /\ new(k).override = Override(review[k])
                  /\ new(k).selected = IF Override(review[k]) = "none"
                                       THEN d(k).class = "recommended"
                                       ELSE Override(review[k]) = "in"
  <2> HIDE DEF d
  <2>1. CASE d(k).class = "locked"
    BY <2>1 DEF Replanned, Columns
  <2>2. CASE d(k).class # "locked"
    BY <2>2 DEF Replanned, Columns
  <2> QED
    BY <2>1, <2>2
<1>7. ASSUME NEW k \in DOMAIN review
      PROVE  d(k).class # "locked" => Override(review[k]) = asked[k]
  <2>1. RowTrue(k) /\ asked[k] \in Words /\ review[k].selected \in BOOLEAN
    BY DEF Inv, TypeOK
  <2>2. CASE review[k].policy = "locked"
    BY <2>1, <2>2 DEF RowTrue, Override
  <2>3. CASE review[k].policy # "locked"
    BY <2>1, <2>3 DEF RowTrue, Override, Words
  <2> QED
    BY <2>2, <2>3
<1> HIDE DEF new, d
<1>8. ASSUME NEW k \in DOMAIN review PROVE d(k).class = "locked" => asked[k] = "none"
  BY <1>4 DEF Inv, RowTrue
<1>9. TypeOK'
  <2>1. \A k \in DOMAIN review' :
          /\ DOMAIN review'[k] = Columns
          /\ review'[k].policy \in Rows /\ review'[k].selected \in BOOLEAN
          /\ review'[k].override \in Words
    <3> SUFFICES ASSUME NEW k \in DOMAIN review
                 PROVE  /\ DOMAIN new(k) = Columns
                        /\ new(k).policy \in Rows /\ new(k).selected \in BOOLEAN
                        /\ new(k).override \in Words
      BY <1>3
    <3>1. asked[k] \in Words /\ "none" \in Words
      BY DEF Inv, TypeOK, Words
    <3>2. CASE d(k).class = "locked"
      BY <1>4, <1>6, <3>1, <3>2
    <3>3. CASE d(k).class # "locked"
      <4>1. /\ new(k).override = asked[k]
            /\ new(k).selected = IF asked[k] = "none" THEN d(k).class = "recommended"
                                 ELSE asked[k] = "in"
        BY <1>6, <1>7, <3>3
      <4>2. new(k).selected \in BOOLEAN
        BY <4>1
      <4> QED
        BY <1>4, <1>6, <3>1, <4>1, <4>2
    <3> QED
      BY <3>2, <3>3
  <2> QED
    BY <1>1, <1>2, <1>3, <1>5, <2>1 DEF Inv, TypeOK
<1>10. ProbesTrue'
  BY <1>1, <1>2 DEF ProbesTrue
<1>11. ASSUME NEW k \in DOMAIN review' PROVE RowTrue(k)'
  <2>1. Decision(k, age, probed)' = d(k) /\ (Hard(k)' <=> Hard(k))
    BY <1>1, <1>5 DEF d
  <2>2. k \in DOMAIN review /\ review'[k] = new(k) /\ asked'[k] = asked[k]
    BY <1>3, <1>5
  <2>3. CASE d(k).class = "locked"
    BY <1>4, <1>6, <1>8, <2>1, <2>2, <2>3 DEF RowTrue
  <2>4. CASE d(k).class # "locked"
    <3>1. /\ new(k).policy = d(k).class /\ new(k).override = asked[k]
          /\ new(k).selected = IF asked[k] = "none" THEN d(k).class = "recommended"
                               ELSE asked[k] = "in"
      BY <1>6, <1>7, <2>2, <2>4
    <3>2. ~Hard(k)
      BY <1>4, <2>2, <2>4
    <3> QED
      BY <2>1, <2>2, <2>4, <3>1, <3>2 DEF RowTrue
  <2> QED
    BY <2>3, <2>4
<1>12. PlanTrue'
  BY <1>1, <1>5 DEF Inv, PlanTrue, choices
<1> QED
  BY <1>9, <1>10, <1>11, <1>12 DEF Inv

LEMMA AgeStep ==
  ASSUME Inv, Longer \/ Shorter \/ \E a \in TypedAges : TypeAge(a)
  PROVE  Inv'
<1>1. age \in Nat
  BY DEF Inv, TypeOK
<1>2. CASE Longer
  <2> DEFINE over == {a \in AgePresets : a > age}
  <2>1. over \in SUBSET Nat
    OBVIOUS
  <2>2. over # {} => Min(over) \in Nat
    <3> HIDE DEF over
    <3> QED
      BY <2>1, MinIsLeast
  <2>3. (IF over = {} THEN age ELSE Min(over)) \in Nat
    BY <1>1, <2>2
  <2> QED
    BY <1>2, <2>3, ReplanStep DEF Longer
<1>3. CASE Shorter
  <2> DEFINE under == {a \in AgePresets : a < age}
  <2>1. under \in SUBSET Nat /\ IsFiniteSet(under)
    BY FS_Subset
  <2>2. under # {} => Max(under) \in Nat
    <3> HIDE DEF under
    <3> QED
      BY <2>1, MaxIsGreatest
  <2>3. (IF under = {} THEN age ELSE Max(under)) \in Nat
    BY <1>1, <2>2
  <2> QED
    BY <1>3, <2>3, ReplanStep DEF Shorter
<1>4. CASE \E a \in TypedAges : TypeAge(a)
  BY <1>4, ReplanStep DEF TypeAge
<1> QED
  BY <1>2, <1>3, <1>4

-----------------------------------------------------------------------------
(* The plan.                                                                 *)

(* A plan as it is built.                                                    *)
LEMMA PlanBuilt ==
  ASSUME NEW C
  PROVE  /\ BuildPlan(C) = [o \in DOMAIN BuildPlan(C) |-> BuildPlan(C)[o]]
         /\ DOMAIN BuildPlan(C) = Components(C)
BY DEF BuildPlan

LEMMA AcceptStep == ASSUME Inv, Accept PROVE Inv'
<1> USE DEF Accept
<1>1. candidates' = Candidates /\ plan' = BuildPlan(candidates')
        /\ UNCHANGED <<scan, age, probed, review, asked, handed, revisited>>
        /\ phase = "reviewing" /\ phase' \in {"combining", "validating"}
  OBVIOUS
<1>2. ASSUME NEW k \in DOMAIN review, review[k].policy = "locked"
      PROVE  \E c \in Candidates : c.path = Path(k) /\ c.selection = "locked"
  <2> DEFINE r == [path |-> Path(k), policy |-> review[k].policy,
                   selected |-> review[k].selected]
  <2>1. r \in Guided
    BY DEF Guided
  <2>2. GuidedCandidate(r) \in Candidates
    BY <2>1 DEF Candidates
  <2>3. GuidedCandidate(r).path = Path(k) /\ GuidedCandidate(r).selection = "locked"
    BY <1>2 DEF GuidedCandidate, GuidedSelection
  <2> QED
    BY <2>2, <2>3
<1> HIDE DEF Accept
<1>3. \A k : Path(k)' = Path(k)
  BY <1>1, SameWorld
<1>4. handed = {}
  BY <1>1 DEF Inv, PlanTrue
<1>5. PlanTrue'
  BY <1>1, <1>2, <1>3, <1>4, PlanBuilt DEF PlanTrue
<1> QED
  BY <1>1, <1>5, SameReview

LEMMA SelectClassicStep == ASSUME Inv, SelectClassic PROVE Inv'
<1>1. /\ plan' = BuildPlan(candidates') /\ phase = "planning" /\ phase' = "validating"
      /\ UNCHANGED <<scan, age, probed, review, asked, handed, revisited>>
  BY DEF SelectClassic
<1>2. handed = {} /\ review = <<>>
  BY <1>1 DEF Inv, PlanTrue
<1>3. DOMAIN review' = {}
  BY <1>1, <1>2
<1>4. PlanTrue'
  BY <1>1, <1>2, <1>3, PlanBuilt DEF PlanTrue
<1> QED
  BY <1>1, <1>4, SameReview

LEMMA ToggleComponentStep ==
  ASSUME Inv, NEW o \in DOMAIN plan, ToggleComponent(o)
  PROVE  Inv'
<1>1. /\ plan' = Toggle(plan, o) /\ phase = "combining" /\ revisited' = revisited \cup {o}
      /\ UNCHANGED <<scan, phase, age, probed, review, asked, candidates, handed>>
  BY DEF ToggleComponent
<1>2. /\ DOMAIN plan' = DOMAIN plan /\ plan' = [p \in DOMAIN plan' |-> plan'[p]]
      /\ \A p \in DOMAIN plan \ {o} : plan'[p] = plan[p]
  BY <1>1 DEF Toggle
<1>3. handed = {}
  BY <1>1 DEF Inv, PlanTrue
<1>4. \A k : Path(k)' = Path(k)
  BY <1>1, SameWorld
<1>5. PlanTrue'
  BY <1>1, <1>2, <1>3, <1>4 DEF Inv, PlanTrue
<1> QED
  BY <1>1, <1>5, SameReview DEF Inv, TypeOK

LEMMA AcceptPlanStep == ASSUME Inv, AcceptPlan PROVE Inv'
<1>1. /\ phase = "combining" /\ phase' = "validating"
      /\ UNCHANGED <<scan, age, probed, review, asked, choices>>
  BY DEF AcceptPlan
<1>2. \A k : Path(k)' = Path(k)
  BY <1>1, SameWorld
<1>3. PlanTrue'
  BY <1>1, <1>2 DEF Inv, PlanTrue, choices
<1> QED
  BY <1>1, <1>3, SameReview

LEMMA AbortStep == ASSUME Inv, Abort PROVE Inv'
<1>1. /\ phase \in {"reviewing", "combining"} /\ phase' \in {"aborted", "failed"}
      /\ UNCHANGED <<scan, age, probed, review, asked, choices>>
  BY DEF Abort
<1>2. PlanTrue'
  BY <1>1 DEF Inv, PlanTrue, choices
<1> QED
  BY <1>1, <1>2, SameReview

LEMMA HandStep == ASSUME Inv, Hand PROVE Inv'
<1>1. /\ phase = "validating"
      /\ \/ handed' \subseteq SelectedPhysicalTargets(plan) /\ phase' = "handed"
         \/ phase' = "failed" /\ handed' = handed
      /\ UNCHANGED <<scan, age, probed, review, asked, candidates, plan, revisited>>
  BY DEF Hand
<1>2. \A k : Path(k)' = Path(k)
  BY <1>1, SameWorld
<1>3. PlanTrue'
  BY <1>1, <1>2 DEF Inv, PlanTrue, SelectedPhysicalTargets
<1> QED
  BY <1>1, <1>3, SameReview

LEMMA NextInv == Inv /\ [Next]_vars => Inv'
<1> SUFFICES ASSUME Inv, [Next]_vars PROVE Inv'
  OBVIOUS
<1>1. ASSUME NEW k \in DOMAIN review, ToggleRow(k) PROVE Inv'
  BY <1>1, ToggleRowStep
<1>2. ASSUME NEW o \in DOMAIN plan, ToggleComponent(o) PROVE Inv'
  BY <1>2, ToggleComponentStep
<1>3. CASE UNCHANGED vars
  <2>1. UNCHANGED <<scan, phase, age, probed, review, asked, choices>>
    BY <1>3 DEF vars, choices
  <2>2. \A k : Path(k)' = Path(k)
    BY <2>1, SameWorld
  <2>3. PlanTrue'
    BY <2>1, <2>2 DEF Inv, PlanTrue, choices
  <2> QED
    BY <2>1, <2>3, SameReview DEF Inv, TypeOK
<1> QED
  BY <1>1, <1>2, <1>3, BuildStep, SelectClassicStep, AgeStep, AcceptStep,
     AcceptPlanStep, AbortStep, HandStep DEF Next

(* The review, its plan and what is handed over are consistent, whatever the *)
(* operator does (internal/worktree/guided.go, unified_cleanup_plan.go).     *)
THEOREM Consistent == Spec => []Inv
BY InitInv, NextInv, PTL DEF Spec

-----------------------------------------------------------------------------
(* The properties.                                                           *)

(* Type correctness of the review.                                           *)
THEOREM TypeCorrect == Spec => []TypeOK
<1>1. Inv => TypeOK
  BY DEF Inv
<1> QED
  BY <1>1, Consistent, PTL

(* The operator's last word outlives every change of the age                 *)
(* (guided.go's replanGuidedCleanAge and its overrides).                     *)
THEOREM ChoicesSurvive == Spec => []ChoiceSurvives
<1>1. Inv => ChoiceSurvives
  BY DEF Inv, RowTrue, ChoiceSurvives
<1> QED
  BY <1>1, Consistent, PTL

(* Nothing is handed over, unless the operator looked twice, that contains   *)
(* or lies in a locked unit or another target (unified_cleanup_plan.go).     *)
THEOREM PlansSound == Spec => []PlanSound
<1>1. ASSUME Inv, NEW p \in handed \ revisited
      PROVE  /\ \A k \in DOMAIN review : review[k].policy = "locked" => ~Related(p, Path(k))
             /\ \A q \in handed \ (revisited \cup {p}) : ~Related(p, q)
  <2>1. \A q \in handed \ revisited :
          q \in Components(candidates) /\ BuildPlan(candidates)[q] = "selected"
    BY <1>1 DEF Inv, PlanTrue, SelectedPhysicalTargets
  <2>2. phase = "handed"
    BY <1>1 DEF Inv, PlanTrue
  <2>3. ASSUME NEW k \in DOMAIN review, review[k].policy = "locked"
        PROVE  ~Related(p, Path(k))
    <3>1. PICK c \in candidates : c.path = Path(k) /\ c.selection = "locked"
      BY <1>1, <2>2, <2>3 DEF Inv, PlanTrue
    <3> QED
      BY <2>1, <3>1, LockKeepsComponent
  <2>4. ASSUME NEW q \in handed \ (revisited \cup {p}) PROVE ~Related(p, q)
    BY <2>1, ComponentsApart
  <2> QED
    BY <2>3, <2>4
<1>2. Inv => PlanSound
  BY <1>1 DEF PlanSound
<1> QED
  BY <1>2, Consistent, PTL

(* What no lock applies to is clean, kept by a ref, idle and readable.       *)
LEMMA UnlockedIs ==
  ASSUME Inv, NEW k \in DOMAIN U, ~Hard(k)
  PROVE  /\ Path(k) \notin world.standing
         /\ \A m \in MemberPaths(world.target[k]) :
              /\ CleanAndKept(world.checkout[m])
              /\ world.checkout[m].reflog >= RecentWindow
              /\ Tool(world.target[k]) = "codex" =>
                   /\ Readable(world.target[k], world.checkout[m].session)
                   /\ world.checkout[m].session # Outage
                   /\ world.checkout[m].session >= RecentWindow
<1> DEFINE t == world.target[k]
<1>1. scan \in DOMAIN Worlds
  BY DEF Inv, TypeOK
<1>2. U[k] = Unit(t, world.checkout) /\ k \in DOMAIN world.target
  BY <1>1, UnitIs
<1>3. GitLocks(U[k]) = {} /\ ActivityLocks(U[k]) = {} /\ U[k].path \notin world.standing
  BY DEF Hard, Locks
<1>4. Path(k) \notin world.standing
  BY <1>2, <1>3 DEF Unit, Path
<1>5. ASSUME NEW m \in MemberPaths(t) PROVE CleanAndKept(world.checkout[m])
  <2> DEFINE c == world.checkout[m]
             e == U[k].evidence[m]
  <2>1. m \in Members(U[k]) /\ e = Evidence(c) /\ m \in DOMAIN world.checkout
    BY <1>1, MembersAre
  <2>2. ~e.dirty
    <3>1. "git_dirty_or_untracked" \notin GitLocks(U[k])
      BY <1>3
    <3> QED
      BY <2>1, <3>1 DEF GitLocks
  <2>3. e.available
    <3>1. "git_evidence_unavailable" \notin GitLocks(U[k])
      BY <1>3
    <3> QED
      BY <2>1, <3>1 DEF GitLocks
  <2>4. e.recoverable
    <3>1. "git_detached_head_unreferenced" \notin GitLocks(U[k])
      BY <1>3
    <3> QED
      BY <2>1, <2>3, <3>1 DEF GitLocks
  <2>5. c.status \in {"clean", "dirty", "fails"}
    BY <1>1, <2>1, WorldsAssumption DEF world
  <2> QED
    BY <2>1, <2>2, <2>3, <2>4, <2>5 DEF Evidence, Recoverable, GitAnswers, CleanAndKept
<1>6. ~(U[k].last < RecentWindow)
  <2>1. "recent_activity" \notin ActivityLocks(U[k])
    BY <1>3
  <2> QED
    BY <2>1 DEF ActivityLocks
<1>7. ~(U[k].registered /\ ~U[k].readable)
  <2>1. "activity_evidence_unavailable" \notin ActivityLocks(U[k])
    BY <1>3
  <2> QED
    BY <2>1 DEF ActivityLocks
<1>8. /\ U[k].last \in Nat
      /\ \A m \in MemberPaths(t) :
           /\ U[k].last <= world.checkout[m].reflog
           /\ Readable(t, world.checkout[m].session) =>
                U[k].last <= world.checkout[m].session
  BY <1>1, LastIs
<1>9. ASSUME NEW m \in MemberPaths(t)
      PROVE  /\ world.checkout[m].reflog >= RecentWindow
             /\ Tool(t) = "codex" =>
                  /\ Readable(t, world.checkout[m].session)
                  /\ world.checkout[m].session # Outage
                  /\ world.checkout[m].session >= RecentWindow
  <2>1. /\ m \in DOMAIN world.checkout
        /\ world.checkout[m].reflog \in Nat
        /\ world.checkout[m].session \in Nat \cup {Outage}
    BY <1>1, MembersAre, WorldsAssumption DEF world
  <2>2. world.checkout[m].reflog >= RecentWindow
    BY <1>6, <1>8, <2>1
  <2>3. ASSUME Tool(t) = "codex"
        PROVE  /\ Readable(t, world.checkout[m].session)
               /\ world.checkout[m].session # Outage
               /\ world.checkout[m].session >= RecentWindow
    <3>1. U[k].readable
      <4>1. U[k].registered
        BY <1>1, <2>3, UnitFields DEF Registered
      <4> QED
        BY <1>7, <4>1
    <3>2. Readable(t, world.checkout[m].session)
      BY <1>1, <3>1, UnitFields
    <3>3. world.checkout[m].session # Outage
      BY <3>2 DEF Readable
    <3> QED
      BY <1>6, <1>8, <2>1, <3>2, <3>3
  <2> QED
    BY <2>2, <2>3
<1> QED
  BY <1>4, <1>5, <1>9

(* A selected unit is clean, kept, idle, readable and not underfoot          *)
(* (policy_helpers.go's hard locks).                                         *)
THEOREM LocksAlwaysHold == Spec => []LocksHold
<1>1. ASSUME Inv, NEW k \in DOMAIN review, review[k].selected
      PROVE  k \in DOMAIN U /\ ~Hard(k)
  BY <1>1 DEF Inv, TypeOK, RowTrue
<1>2. Inv => LocksHold
  BY <1>1, UnlockedIs DEF LocksHold
<1> QED
  BY <1>2, Consistent, PTL

(* A unit that is proposed was recommended by the plan at the present age.   *)
LEMMA ProposedIs ==
  ASSUME Inv, NEW k \in DOMAIN review, ByDefault(k)
  PROVE  /\ k \in DOMAIN U /\ ~Hard(k)
         /\ HeldFor(U, k, age) = ""
         /\ Demotion({probed[m] : m \in Members(U[k])}) = ""
<1>1. k \in DOMAIN U /\ RowTrue(k)
  BY DEF Inv, TypeOK
<1>2. review[k].policy = "recommended" /\ review[k].policy = Decision(k, age, probed).class
  BY <1>1 DEF RowTrue, ByDefault
<1>3. Decision(k, age, probed).class = "recommended"
  BY <1>2
<1> QED
  BY <1>1, <1>3, DecisionIs

(* Whoever is held for nothing is not retained, old and big enough, and has  *)
(* a reader.                                                                 *)
LEMMA HeldForNothing ==
  ASSUME NEW k \in DOMAIN U, NEW a, HeldFor(U, k, a) = ""
  PROVE  /\ k \notin Retained(U)
         /\ ~(U[k].last <= a)
         /\ ~(U[k].size < MinSize)
         /\ U[k].registered
<1> DEFINE first == k \in Retained(U)
           second == U[k].last <= a
           third == U[k].size < MinSize
           fourth == U[k].registered
<1>1. HeldFor(U, k, a) =
        CASE first   -> "retained_per_repository"
          [] second  -> "younger_than_min_idle_age"
          [] third   -> "below_min_size"
          [] ~fourth -> "activity_source_not_registered"
          [] OTHER   -> ""
  BY DEF HeldFor
<1> HIDE DEF first, second, third, fourth
<1>2. ~first /\ ~second /\ ~third /\ fourth
  BY <1>1
<1> QED
  BY <1>2 DEF first, second, third, fourth

(* The most recent units of every repository are never proposed              *)
(* (policy.go's retainedCleanupUnits).                                       *)
THEOREM RecentKept == Spec => []MostRecentKept
<1>1. ASSUME Inv, NEW k \in DOMAIN review, ByDefault(k), NEW r \in Repositories(U[k])
      PROVE  Cardinality({j \in Sharing(U, r) \ {k} : U[j].last <= U[k].last}) >= KeepPerRepo
  <2> DEFINE before == {j \in Sharing(U, r) : Precedes(U, j, k)}
             recent == {j \in Sharing(U, r) \ {k} : U[j].last <= U[k].last}
  <2>1. k \in DOMAIN U /\ k \notin Retained(U)
    BY <1>1, ProposedIs, HeldForNothing
  <2>2. ~(Cardinality(before) < KeepPerRepo)
    BY <2>1 DEF Retained
  <2>3. scan \in DOMAIN Worlds
    BY <1>1 DEF Inv, TypeOK
  <2>4. \A j \in DOMAIN U : U[j].last \in Nat /\ j \in Nat
    BY <2>3, LastIs, UnitIs, WorldsAssumption DEF world
  <2>5. Sharing(U, r) \subseteq DOMAIN U
    BY DEF Sharing
  <2>6. before \in SUBSET recent
    BY <2>1, <2>4, <2>5 DEF Precedes
  <2>7. IsFiniteSet(DOMAIN U)
    <3>1. DOMAIN U \in SUBSET (DOMAIN world.target)
      BY <2>3, UnitIs
    <3>2. IsFiniteSet(DOMAIN world.target)
      BY <2>3, WorldsAssumption DEF world
    <3> QED
      BY <3>1, <3>2, FS_Subset
  <2>8. recent \in SUBSET DOMAIN U
    BY <2>5
  <2> HIDE DEF before, recent
  <2>9. IsFiniteSet(recent)
    BY <2>7, <2>8, FS_Subset
  <2>10. IsFiniteSet(before) /\ Cardinality(before) <= Cardinality(recent)
    BY <2>6, <2>9, FS_Subset
  <2>11. Cardinality(before) \in Nat /\ Cardinality(recent) \in Nat
    BY <2>9, <2>10, FS_CardinalityType
  <2>12. Cardinality(recent) >= KeepPerRepo
    BY <2>2, <2>10, <2>11
  <2> QED
    BY <2>12 DEF recent
<1>2. Inv => MostRecentKept
  BY <1>1 DEF MostRecentKept
<1> QED
  BY <1>2, Consistent, PTL

(* A proposal is justified at the age in force: the unit idled longer in     *)
(* every source, is big enough, has a session reader, and adds nothing to    *)
(* the default branch (policy.go, units_uniqueness.go).                      *)
THEOREM ProposalsJustified == Spec => []ProposalJustified
<1>1. ASSUME Inv, NEW k \in DOMAIN review, ByDefault(k)
      PROVE  /\ Tool(world.target[k]) = "codex"
             /\ \E row \in Range(ActiveRows(world.target[k])) : row.size >= MinSize
             /\ \A m \in MemberPaths(world.target[k]) :
                  LET c == world.checkout[m] IN
                  /\ c.reflog > age /\ c.session > age
                  /\ c.default
                  /\ \/ c.ancestor = "yes"
                     \/ c.ancestor = "no" /\ c.merge = "same_tree"
  <2> DEFINE t == world.target[k]
  <2>1. k \in DOMAIN U /\ ~Hard(k) /\ scan \in DOMAIN Worlds /\ age \in Nat
    BY <1>1, ProposedIs DEF Inv, TypeOK
  <2>2. /\ ~(U[k].last <= age) /\ ~(U[k].size < MinSize) /\ U[k].registered
    BY <1>1, ProposedIs, HeldForNothing
  <2>3. U[k] = Unit(t, world.checkout) /\ k \in DOMAIN world.target /\ IsUnit(t)
    BY <2>1, UnitIs
  <2>4. Tool(t) = "codex"
    BY <2>1, <2>2, UnitFields DEF Registered
  <2>5. \E row \in Range(ActiveRows(t)) : row.size >= MinSize
    <3> DEFINE rows == Range(ActiveRows(t))
               sizes == {row.size : row \in rows}
               f == [row \in rows |-> row.size]
    <3>1. ActiveRows(t) \in Seq(rows) /\ \A row \in rows : row.size \in Nat
      BY <2>1, <2>3, WorldsAssumption DEF world
    <3>2. sizes \in SUBSET Nat
      BY <3>1
    <3>3. f \in Surjection(rows, sizes)
      BY DEF Surjection
    <3>4. rows # {}
      <4>1. ActiveRows(t) # <<>>
        BY <2>3 DEF IsUnit
      <4>2. 1 \in DOMAIN ActiveRows(t)
        <5> HIDE DEF rows
        <5> QED
          BY <3>1, <4>1
      <4> QED
        BY <4>2 DEF Range
    <3>5. sizes # {}
      BY <3>4
    <3>10. IsFiniteSet(rows)
      <4> DEFINE r == ActiveRows(t)
      <4>1. DOMAIN r = 1 .. Len(r) /\ Len(r) \in Nat
        <5> HIDE DEF rows, r
        <5>1. r \in Seq(rows)
          BY <3>1 DEF r
        <5> QED
          BY <5>1
      <4>2. r \in Surjection(DOMAIN r, rows)
        <5>1. r \in [DOMAIN r -> rows]
          <6> HIDE DEF rows
          <6> QED
            BY <3>1
        <5> QED
          BY <5>1 DEF Surjection, Range
      <4>3. IsFiniteSet(DOMAIN r)
        BY <4>1, FS_Interval
      <4> QED
        BY <4>2, <4>3, FS_Surjection
    <3>6. IsFiniteSet(sizes)
      <4> HIDE DEF rows, sizes, f
      <4> QED
        BY <3>3, <3>10, FS_Surjection
    <3>7. Max(sizes) \in sizes
      <4> HIDE DEF sizes
      <4> QED
        BY <3>2, <3>5, <3>6, MaxIsGreatest
    <3>8. U[k].size = Max(sizes)
      BY <2>1, UnitFields DEF UnitSize
    <3>9. PICK row \in rows : row.size = Max(sizes)
      BY <3>7
    <3> QED
      BY <2>2, <3>1, <3>8, <3>9
  <2>6. ASSUME NEW m \in MemberPaths(t)
        PROVE  LET c == world.checkout[m] IN
               /\ c.reflog > age /\ c.session > age
               /\ c.default
               /\ \/ c.ancestor = "yes"
                  \/ c.ancestor = "no" /\ c.merge = "same_tree"
    <3> DEFINE c == world.checkout[m]
    <3>1. /\ m \in DOMAIN world.checkout /\ m \in Members(U[k])
          /\ c.reflog \in Nat /\ c.session \in Nat \cup {Outage}
          /\ c.ancestor \in {"yes", "no", "error"}
      BY <2>1, MembersAre, WorldsAssumption DEF world
    <3>2. Readable(t, c.session) /\ c.session # Outage
      BY <1>1, <2>1, <2>4, UnlockedIs
    <3>3. U[k].last \in Nat /\ U[k].last <= c.reflog /\ U[k].last <= c.session
      BY <2>1, <3>2, LastIs
    <3>4. c.reflog > age /\ c.session > age
      BY <2>1, <2>2, <3>1, <3>2, <3>3
    <3>5. probed[m] = "merged"
      <4> DEFINE answers == {probed[n] : n \in Members(U[k])}
      <4>1. answers \subseteq {"merged"}
        <5> HIDE DEF answers
        <5> QED
          BY <1>1, ProposedIs DEF Demotion, answers
      <4> QED
        BY <3>1, <4>1
    <3>6. Probe(c) = "merged"
      BY <1>1, <3>1, <3>5 DEF Inv, TypeOK, ProbesTrue
    <3>7. c.default /\ (c.ancestor = "yes" \/ (c.ancestor = "no" /\ c.merge = "same_tree"))
      <4> HIDE DEF c
      <4>1. c.ancestor \in {"yes", "no", "error"}
        BY <3>1 DEF c
      <4> QED
        BY <3>6, <4>1 DEF Probe
    <3> QED
      BY <3>4, <3>7
  <2> QED
    BY <2>4, <2>5, <2>6
<1>2. Inv => ProposalJustified
  BY <1>1 DEF ProposalJustified
<1> QED
  BY <1>2, Consistent, PTL

-----------------------------------------------------------------------------
(* The consent to remove an active worktree.                                 *)

(* No provider but the one of worktrees has a row at the path of an active   *)
(* worktree. Otherwise that row would be judged for itself: neither the      *)
(* owners of targets.go nor the Git filter look at other categories.         *)
WorktreesApart ==
  \A r, s \in world.rows : IsActive(r) /\ s.path = r.path => s.category = "worktree"

ActivePaths == {r.path : r \in {s \in world.rows : IsActive(s)}}

(* A row of the lowest rank is one of the rows; of the direct ones, if any.  *)
LEMMA PreferredIs ==
  ASSUME NEW rows, rows # {}
  PROVE  Preferred(rows) \in rows
<1> DEFINE direct == {r \in rows : r.direct}
           first == IF direct # {} THEN direct ELSE rows
<1>1. first # {} /\ first \subseteq rows
  OBVIOUS
<1>2. \A r : Rank(r) \in {0, 1, 2}
  BY DEF Rank
<1>3. \E r \in first : \A s \in first : Rank(r) <= Rank(s)
  <2> HIDE DEF first
  <2>1. CASE \E r \in first : Rank(r) = 0
    BY <1>2, <2>1
  <2>2. CASE (\A r \in first : Rank(r) # 0) /\ \E r \in first : Rank(r) = 1
    BY <1>2, <2>2
  <2>3. CASE \A r \in first : Rank(r) # 0 /\ Rank(r) # 1
    BY <1>1, <1>2, <2>3
  <2> QED
    BY <2>1, <2>2, <2>3
<1>4. Preferred(rows) = CHOOSE r \in first : \A s \in first : Rank(r) <= Rank(s)
  BY DEF Preferred
<1> HIDE DEF first
<1>5. Preferred(rows) \in first
  BY <1>3, <1>4
<1> QED
  BY <1>1, <1>5

(* Among the rows that the physical owners let pass, one at the path of an   *)
(* active worktree is active, and was asked for.                             *)
LEMMA OwnersPass ==
  ASSUME Inv, WorktreesApart, NEW opts,
         NEW r \in OwnerSafe(world.rows, Eligible(world.rows, opts), opts)
  PROVE  /\ {"path", "category", "status"} \subseteq DOMAIN r
         /\ r.path \in ActivePaths => IsActive(r) /\ opts.includeActive
<1> DEFINE owned(s) == s.category = "worktree" /\ s.path \in ActiveOwners(world.rows)
<1>1. PICK s \in Eligible(world.rows, opts) :
        /\ opts.includeActive \/ ~owned(s)
        /\ r = IF owned(s) THEN [s EXCEPT !.status = "active"] ELSE s
  BY DEF OwnerSafe
<1>2. s \in world.rows /\ {"path", "category", "status"} \subseteq DOMAIN s
  BY <1>1, WorldsAssumption DEF Eligible, Inv, TypeOK, world
<1>3. /\ r.path = s.path /\ r.category = s.category
      /\ {"path", "category", "status"} \subseteq DOMAIN r
      /\ owned(s) => r.status = "active"
  BY <1>1, <1>2
<1>4. ActiveOwners(world.rows) = ActivePaths
  BY DEF ActiveOwners, ActivePaths
<1>5. ASSUME r.path \in ActivePaths PROVE owned(s)
  <2>1. s.category = "worktree"
    BY <1>2, <1>3, <1>5 DEF WorktreesApart, ActivePaths
  <2> QED
    BY <1>3, <1>4, <1>5, <2>1
<1> QED
  BY <1>1, <1>3, <1>5 DEF IsActive

(* What everything else than the guided review selects at the path of an     *)
(* active worktree: only what was asked for and what Git keeps.              *)
LEMMA ClassicIs ==
  ASSUME Inv, WorktreesApart, NEW t \in Classic, t.path \in ActivePaths
  PROVE  /\ world.route = "classic" /\ world.opts.includeActive
         /\ t.path \in SafePaths(world)
<1> DEFINE opts == [world.opts EXCEPT !.includeActive = @ /\ world.route = "classic"]
           owners == OwnerSafe(world.rows, Eligible(world.rows, opts), opts)
           allowed == Unprotected(world.rows, owners, world.pins)
           proved == {r \in allowed : r.there /\ r.vouched}
<1>1. /\ "includeActive" \in DOMAIN world.opts /\ world.opts.includeActive \in BOOLEAN
      /\ scan \in DOMAIN Worlds
  BY WorldsAssumption DEF Inv, TypeOK, world
<1>2. opts.includeActive <=> world.opts.includeActive /\ world.route = "classic"
  BY <1>1
<1>3. Classic = SelectCleanTargets(world.rows, opts, world.pins, SafePaths(world), world.refused)
  BY <1>1 DEF Classic, ClassicOf, world
<1>4. t \in Normalized(proved) /\ (~IsActive(t) \/ t.path \in SafePaths(world))
  BY <1>3 DEF SelectCleanTargets
<1>5. proved \subseteq owners
  BY DEF Unprotected
<1> HIDE DEF opts, proved, owners, allowed
<1>6. PICK p \in Targets(proved) : t = Representative(RowsAt(proved, p))
  BY <1>4 DEF Normalized
<1> DEFINE r == Preferred(RowsAt(proved, p))
<1>7. r \in proved /\ r.path = p
  <2>1. RowsAt(proved, p) # {}
    BY DEF RowsAt, Targets
  <2>2. r \in RowsAt(proved, p)
    BY <2>1, PreferredIs
  <2> QED
    BY <2>2 DEF RowsAt
<1>8. /\ {"path", "category", "status"} \subseteq DOMAIN r
      /\ r.path \in ActivePaths => IsActive(r) /\ opts.includeActive
  BY <1>5, <1>7, OwnersPass DEF owners
<1>9. t = r \/ t = [r EXCEPT !.status = "active"]
  BY <1>6 DEF Representative
<1> HIDE DEF r
<1>10. t.path = r.path /\ t.category = r.category
  BY <1>8, <1>9
<1>11. IsActive(r) /\ opts.includeActive
  BY <1>8, <1>10
<1>12. IsActive(t)
  BY <1>8, <1>9, <1>11 DEF IsActive
<1> QED
  BY <1>2, <1>4, <1>11, <1>12

(* What Git finds safe is clean and kept.                                    *)
LEMMA GitKeeps ==
  ASSUME Inv, NEW k \in DOMAIN world.target, Path(k) \in SafePaths(world)
  PROVE  IF IsUnit(world.target[k])
         THEN \A m \in MemberPaths(world.target[k]) : CleanAndKept(world.checkout[m])
         ELSE UpstreamSafe(world.repository[k])
<1>1. scan \in DOMAIN Worlds
  BY DEF Inv, TypeOK
<1>2. PICK j \in DOMAIN world.target :
        /\ world.target[j].path = Path(k)
        /\ GitSafe(world.target[j], world.checkout, world.repository[j])
  BY DEF SafePaths
<1>3. j = k
  BY <1>1, <1>2, WorldsAssumption DEF world, Path
<1>4. ASSUME NEW c, c.status \in {"clean", "dirty", "fails"}, ~MemberLocked(Evidence(c))
      PROVE  CleanAndKept(c)
  <2>1. Reason(c) \notin {"evidence_unavailable", "detached_head_unreferenced", "dirty_worktree"}
    BY <1>4 DEF MemberLocked, Evidence
  <2> QED
    BY <1>4, <2>1 DEF Reason, Recoverable, GitAnswers, CleanAndKept
<1>5. ASSUME NEW m \in MemberPaths(world.target[k]), IsUnit(world.target[k])
      PROVE  CleanAndKept(world.checkout[m])
  <2>1. m \in DOMAIN world.checkout /\ world.checkout[m].status \in {"clean", "dirty", "fails"}
    BY <1>1, WorldsAssumption DEF world
  <2>2. ~MemberLocked(Evidence(world.checkout[m]))
    BY <1>2, <1>3, <1>5 DEF GitSafe
  <2> QED
    BY <1>4, <2>1, <2>2
<1>6. ~IsUnit(world.target[k]) => UpstreamSafe(world.repository[k])
  BY <1>2, <1>3 DEF GitSafe
<1> QED
  BY <1>5, <1>6

(* The candidates of a plan are what the review and the filters offer; a     *)
(* review is only of a guided clean.                                         *)
Offered ==
  /\ phase = "reviewing" => world.route = "guided"
  /\ phase \in {"combining", "validating", "handed"} =>
       candidates = IF world.route = "guided" THEN Candidates
                    ELSE {ClassicCandidate(t) : t \in Classic}

LEMMA OfferedStep == Inv /\ Offered /\ [Next]_vars => Offered'
<1> SUFFICES ASSUME Inv, Offered, [Next]_vars PROVE Offered'
  OBVIOUS
<1>1. scan' = scan
  BY DEF Next, vars, choices, Build, SelectClassic, Longer, Shorter, Accept, AcceptPlan,
         Abort, Hand, ToggleRow, TypeAge, ToggleComponent, Replan
<1>2. world' = world /\ Classic' = Classic /\ \A k : Path(k)' = Path(k)
  BY <1>1 DEF world, Classic, Path
<1>3. ASSUME review' = review PROVE Candidates' = Candidates
  BY <1>2, <1>3 DEF Candidates, Guided
<1>4. CASE Build
  BY <1>2, <1>4 DEF Build, Offered
<1>5. CASE SelectClassic
  BY <1>2, <1>5 DEF SelectClassic, Offered
<1>6. ASSUME NEW a, Replan(a) PROVE Offered'
  BY <1>2, <1>6 DEF Replan, Offered
<1>7. ASSUME NEW k, ToggleRow(k) PROVE Offered'
  BY <1>2, <1>7 DEF ToggleRow, Offered
<1>8. CASE Accept
  BY <1>2, <1>3, <1>8 DEF Accept, Offered
<1>9. ASSUME NEW o, ToggleComponent(o) PROVE Offered'
  BY <1>2, <1>3, <1>9 DEF ToggleComponent, Offered
<1>10. CASE AcceptPlan \/ Abort \/ Hand \/ UNCHANGED vars
  BY <1>2, <1>3, <1>10 DEF AcceptPlan, Abort, Hand, vars, choices, Offered
<1> QED
  BY <1>4, <1>5, <1>6, <1>7, <1>8, <1>9, <1>10 DEF Next, Longer, Shorter, TypeAge

(* Whom a target at the path of an active worktree is handed over for.       *)
LEMMA ConsentGiven == Inv /\ Offered /\ WorktreesApart => ActiveNeedsConsent
<1> SUFFICES ASSUME Inv, Offered, WorktreesApart, NEW p \in handed, p \in ActivePaths
             PROVE  IF world.route = "guided"
                    THEN \E k \in DOMAIN review :
                           Path(k) = p /\ (review[k].selected \/ p \in revisited)
                    ELSE /\ world.opts.includeActive
                         /\ \A k \in DOMAIN world.target : Path(k) = p =>
                              IF IsUnit(world.target[k])
                              THEN \A m \in MemberPaths(world.target[k]) :
                                     CleanAndKept(world.checkout[m])
                              ELSE UpstreamSafe(world.repository[k])
  BY DEF ActiveNeedsConsent, ActivePaths
<1>1. /\ p \in Components(candidates) /\ phase = "handed"
      /\ p \notin revisited => BuildPlan(candidates)[p] = "selected"
  BY DEF Inv, PlanTrue, SelectedPhysicalTargets
<1>2. p \in Targets(candidates)
  BY <1>1, OwnersOnTop DEF Owned
<1>3. ASSUME NEW t \in Classic, ClassicCandidate(t).path = p
      PROVE  /\ world.route = "classic" /\ world.opts.includeActive
             /\ p \in SafePaths(world)
  <2>1. t.path = p
    BY <1>3 DEF ClassicCandidate
  <2> QED
    BY <2>1, ClassicIs
<1>4. CASE world.route = "guided"
  <2>1. candidates = Candidates
    BY <1>1, <1>4 DEF Offered
  <2>2. ASSUME NEW c \in candidates, c.path = p
        PROVE  \E k \in DOMAIN review :
                 Path(k) = p /\ (c.selection = "selected" => review[k].selected)
    <3>1. c \notin {ClassicCandidate(t) : t \in Classic}
      BY <1>3, <1>4, <2>2
    <3>2. PICK g \in Guided : c = GuidedCandidate(g)
      BY <2>1, <3>1 DEF Candidates
    <3>3. PICK k \in DOMAIN review : g = [path |-> Path(k), policy |-> review[k].policy,
                                          selected |-> review[k].selected]
      BY <3>2 DEF Guided
    <3>4. c.path = Path(k)
      BY <3>2, <3>3 DEF GuidedCandidate
    <3>5. c.selection = "selected" => review[k].selected
      BY <3>2, <3>3 DEF GuidedCandidate, GuidedSelection
    <3> QED
      BY <2>2, <3>4, <3>5
  <2>3. CASE p \in revisited
    BY <1>2, <1>4, <2>2, <2>3 DEF Targets
  <2>4. CASE p \notin revisited
    <3>1. PolicySelection(candidates, p) = "selected"
      BY <1>1, <2>4, SelectedComponent
    <3>2. PICK c \in RowsAt(candidates, p) : c.selection = "selected"
      BY <3>1 DEF PolicySelection, Aggregate
    <3> QED
      BY <1>4, <2>2, <3>2 DEF RowsAt
  <2> QED
    BY <2>3, <2>4
<1>5. CASE world.route # "guided"
  <2>1. PICK t \in Classic : ClassicCandidate(t).path = p
    BY <1>1, <1>2, <1>5 DEF Offered, Targets
  <2>2. world.opts.includeActive /\ p \in SafePaths(world)
    BY <1>3, <2>1
  <2> QED
    BY <1>5, <2>2, GitKeeps
<1> QED
  BY <1>4, <1>5

(* An active worktree is handed over only by the review of that very unit    *)
(* or by --include-active-worktrees, and then only if Git keeps what it      *)
(* holds: no orphaned row at its path is a way around (targets.go's          *)
(* ApplyPhysicalOwnerSafety, safety.go).                                     *)
THEOREM ConsentNeeded == Spec => [](WorktreesApart => ActiveNeedsConsent)
<1>1. Init => Offered
  BY DEF Init, Offered
<1>2. Spec => []Offered
  BY <1>1, OfferedStep, Consistent, PTL DEF Spec
<1> QED
  BY <1>2, ConsentGiven, Consistent, PTL
=============================================================================
