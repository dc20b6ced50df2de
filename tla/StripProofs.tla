----------------------------- MODULE StripProofs -----------------------------
(****************************************************************************)
(* What holds of the deletion gate and of strip, for every file system,      *)
(* every home, protected and relocated location, every plan, and any number  *)
(* of changes that others make meanwhile.                                    *)
(*                                                                           *)
(* First the gate: a path that passes resolves, step by step, to a place     *)
(* that none of what it protects lies below, whatever the links and the      *)
(* spelling. Then the file system, which stays one while directories are     *)
(* exchanged and subtrees removed, so that what the gate and the last look   *)
(* say of it holds at the removal. Then the heads of the checkouts.          *)
(****************************************************************************)
EXTENDS Strip, SequenceTheorems, WellFoundedInduction, FiniteSetTheorems, TLAPS

-----------------------------------------------------------------------------
(* Resolutions.                                                              *)

(* Numbers, one after the other.                                             *)
LEMMA Induction ==
  ASSUME NEW S, 0 \in S, \A n \in Nat : n \in S => n + 1 \in S
  PROVE  \A n \in Nat : n \in S
<1> DEFINE out == Nat \ S
           R == OpToRel(<, Nat)
<1>1. SUFFICES ASSUME out # {} PROVE FALSE
  OBVIOUS
<1>2. PICK m \in out : \A y \in out : ~(<<y, m>> \in R)
  <2>1. IsWellFoundedOn(R, Nat)
    BY NatLessThanWellFounded
  <2>2. out \in SUBSET Nat
    OBVIOUS
  <2> HIDE DEF R, out
  <2> QED
    BY <1>1, <2>1, <2>2, WFMin
<1>3. m # 0 /\ m - 1 \in Nat
  OBVIOUS
<1>4. <<m - 1, m>> \in R
  BY <1>3 DEF OpToRel
<1>5. m - 1 \in S
  BY <1>2, <1>3, <1>4
<1> QED
  BY <1>3, <1>5

(* A resolution is defined step by step.                                     *)
LEMMA ResolutionIs ==
  ASSUME NEW disk, NEW p
  PROVE  /\ Resolution(disk, p)[0] = Stand(<<>>, p, 0)
         /\ \A n \in Nat : Resolution(disk, p)[n + 1] = Onward(disk, Resolution(disk, p)[n])
<1> DEFINE First == Stand(<<>>, p, 0)
           UpTo(n, g) == /\ g = [m \in 0 .. n |-> g[m]] /\ g[0] = First
                         /\ \A m \in 0 .. n : m > 0 => g[m] = Onward(disk, g[m - 1])
           Whole(g) == g = [m \in Nat |-> IF m = 0 THEN First ELSE Onward(disk, g[m - 1])]
<1> HIDE DEF First
<1>1. \A n \in Nat : \E g : UpTo(n, g)
  <2> DEFINE S == {n \in Nat : \E g : UpTo(n, g)}
  <2>1. 0 \in S
    <3> DEFINE g == [m \in 0 .. 0 |-> First]
    <3>1. UpTo(0, g)
      OBVIOUS
    <3> QED
      BY <3>1
  <2>2. ASSUME NEW n \in Nat, n \in S PROVE n + 1 \in S
    <3>1. PICK g : UpTo(n, g)
      BY <2>2
    <3> DEFINE h == [m \in 0 .. n + 1 |-> IF m \in 0 .. n THEN g[m] ELSE Onward(disk, g[n])]
    <3>2. h = [m \in 0 .. n + 1 |-> h[m]] /\ h[0] = g[0]
      OBVIOUS
    <3>3. \A m \in 0 .. n + 1 : m > 0 => h[m] = Onward(disk, h[m - 1])
      <4> TAKE m \in 0 .. n + 1
      <4> HAVE m > 0
      <4>1. m - 1 \in 0 .. n /\ h[m - 1] = g[m - 1]
        OBVIOUS
      <4>2. CASE m \in 0 .. n
        <5>1. g[m] = Onward(disk, g[m - 1])
          BY <3>1, <4>2
        <5>2. h[m] = g[m]
          BY <4>2
        <5> QED
          BY <4>1, <5>1, <5>2
      <4>3. CASE m = n + 1
        <5>1. h[m] = Onward(disk, g[n]) /\ m - 1 = n
          BY <4>3
        <5> QED
          BY <4>1, <5>1
      <4> QED
        BY <4>2, <4>3
    <3> HIDE DEF h
    <3>4. UpTo(n + 1, h)
      BY <3>1, <3>2, <3>3
    <3> HIDE DEF UpTo
    <3> QED
      BY <3>4
  <2> HIDE DEF S
  <2>3. \A n \in Nat : n \in S
    BY <2>1, <2>2, Induction
  <2> QED
    BY <2>3 DEF S
<1>2. ASSUME NEW n \in Nat, NEW k \in Nat, NEW g, UpTo(n, g), NEW h, UpTo(k, h)
      PROVE  \A m \in Nat : m <= n /\ m <= k => g[m] = h[m]
  <2> DEFINE S == {m \in Nat : m <= n /\ m <= k => g[m] = h[m]}
  <2>1. 0 \in S
    BY <1>2
  <2>3. /\ \A i \in 0 .. n : i > 0 => g[i] = Onward(disk, g[i - 1])
        /\ \A i \in 0 .. k : i > 0 => h[i] = Onward(disk, h[i - 1])
    BY <1>2
  <2>2. ASSUME NEW m \in Nat, m \in S PROVE m + 1 \in S
    <3> SUFFICES ASSUME m + 1 <= n, m + 1 <= k PROVE g[m + 1] = h[m + 1]
      OBVIOUS
    <3>1. g[m] = h[m]
      BY <2>2
    <3>2. m + 1 \in 0 .. n /\ m + 1 \in 0 .. k /\ m + 1 > 0 /\ m + 1 - 1 = m
      OBVIOUS
    <3>3. g[m + 1] = Onward(disk, g[m]) /\ h[m + 1] = Onward(disk, h[m])
      BY <2>3, <3>2
    <3> QED
      BY <3>1, <3>3
  <2> HIDE DEF S
  <2>4. \A m \in Nat : m \in S
    BY <2>1, <2>2, Induction
  <2> QED
    BY <2>4 DEF S
<1> DEFINE Partial(n) == CHOOSE g : UpTo(n, g)
           whole == [n \in Nat |-> Partial(n)[n]]
<1> HIDE DEF UpTo
<1>3. \A n \in Nat : UpTo(n, Partial(n))
  BY <1>1
<1> HIDE DEF Partial
<1>4. \E g : Whole(g)
  <2>1. whole[0] = First
    BY <1>3 DEF UpTo
  <2>2. ASSUME NEW m \in Nat, m > 0 PROVE whole[m] = Onward(disk, whole[m - 1])
    <3>1. m - 1 \in Nat /\ m \in 0 .. m /\ m - 1 <= m
      BY <2>2
    <3>2. Partial(m)[m] = Onward(disk, Partial(m)[m - 1])
      BY <1>3, <2>2, <3>1 DEF UpTo
    <3>3. Partial(m)[m - 1] = Partial(m - 1)[m - 1]
      BY <1>2, <1>3, <3>1
    <3> QED
      BY <3>1, <3>2, <3>3
  <2>3. whole = [m \in Nat |-> whole[m]]
    OBVIOUS
  <2> HIDE DEF whole
  <2>4. \A m \in Nat : whole[m] = IF m = 0 THEN First ELSE Onward(disk, whole[m - 1])
    BY <2>1, <2>2
  <2>5. Whole(whole)
    BY <2>3, <2>4
  <2> QED
    BY <2>5
<1>5. Whole(Resolution(disk, p))
  BY <1>4 DEF Resolution, First
<1>6. Resolution(disk, p)[0] = First
  BY <1>5
<1>7. ASSUME NEW n \in Nat
      PROVE  Resolution(disk, p)[n + 1] = Onward(disk, Resolution(disk, p)[n])
  <2>1. n + 1 \in Nat /\ n + 1 # 0 /\ n + 1 - 1 = n
    OBVIOUS
  <2> QED
    BY <1>5, <2>1
<1> QED
  BY <1>6, <1>7 DEF First

-----------------------------------------------------------------------------
(* Paths.                                                                    *)

LEMMA FoundIs ==
  ASSUME NEW p \in Seq(Names)
  PROVE  /\ Found(p) \in Seq(Names) /\ Len(Found(p)) = Len(p)
         /\ \A i \in 1 .. Len(p) : Found(p)[i] = Stored(p[i])
<1>1. DOMAIN p = 1 .. Len(p) /\ Len(p) \in Nat /\ \A i \in 1 .. Len(p) : p[i] \in Names
  BY LenProperties
<1>2. Found(p) = [i \in 1 .. Len(p) |-> Stored(p[i])]
  BY <1>1 DEF Found
<1>3. \A i \in 1 .. Len(p) : Stored(p[i]) \in Names
  BY <1>1, GateAssumption DEF GateAssumption
<1> QED
  BY <1>1, <1>2, <1>3

LEMMA CutIs ==
  ASSUME NEW S, NEW p \in Seq(S), NEW k \in 0 .. Len(p)
  PROVE  /\ SubSeq(p, 1, k) \in Seq(S) /\ Len(SubSeq(p, 1, k)) = k
         /\ \A i \in 1 .. k : SubSeq(p, 1, k)[i] = p[i]
<1>1. k \in Int /\ Len(p) \in Nat /\ \A i \in 1 .. k : p[i] \in S
  BY LenProperties
<1>2. /\ SubSeq(p, 1, k) \in Seq(S)
      /\ Len(SubSeq(p, 1, k)) = IF 1 <= k THEN k - 1 + 1 ELSE 0
      /\ \A i \in 1 .. k - 1 + 1 : SubSeq(p, 1, k)[i] = p[1 + i - 1]
  BY <1>1, SubSeqProperties
<1> QED
  BY <1>1, <1>2

LEMMA FoundCut ==
  ASSUME NEW p \in Seq(Names), NEW k \in 0 .. Len(p)
  PROVE  Found(SubSeq(p, 1, k)) = SubSeq(Found(p), 1, k)
<1> DEFINE a == Found(SubSeq(p, 1, k))
           b == SubSeq(Found(p), 1, k)
<1>1. a \in Seq(Names) /\ Len(a) = k /\ \A i \in 1 .. k : a[i] = Stored(p[i])
  <2>1. /\ SubSeq(p, 1, k) \in Seq(Names) /\ Len(SubSeq(p, 1, k)) = k
        /\ \A i \in 1 .. k : SubSeq(p, 1, k)[i] = p[i]
    BY CutIs
  <2> QED
    BY <2>1, FoundIs
<1>2. b \in Seq(Names) /\ Len(b) = k /\ \A i \in 1 .. k : b[i] = Stored(p[i])
  <2>1. /\ Found(p) \in Seq(Names) /\ Len(Found(p)) = Len(p) /\ Len(p) \in Nat
        /\ \A i \in 1 .. Len(p) : Found(p)[i] = Stored(p[i])
    BY FoundIs, LenProperties
  <2>2. k \in 0 .. Len(Found(p)) /\ \A i \in 1 .. k : i \in 1 .. Len(p)
    BY <2>1
  <2>3. b \in Seq(Names) /\ Len(b) = k /\ \A i \in 1 .. k : b[i] = Found(p)[i]
    BY <2>1, <2>2, CutIs
  <2> QED
    BY <2>1, <2>2, <2>3
<1> HIDE DEF a, b
<1>3. a = b
  BY <1>1, <1>2, SeqEqual
<1> QED
  BY <1>3 DEF a, b

LEMMA PrefixIs ==
  ASSUME NEW S, NEW p \in Seq(S), NEW q \in Seq(S)
  PROVE  IsPrefix(p, q) <=> Len(p) <= Len(q) /\ SubSeq(q, 1, Len(p)) = p
  BY SubSeqFull DEF IsPrefix

(* All but the last name, and the last.                                      *)
LEMMA FrontIs ==
  ASSUME NEW S, NEW p \in Seq(S), p # <<>>
  PROVE  /\ Front(p) \in Seq(S) /\ Last(p) \in S /\ Len(Front(p)) = Len(p) - 1
         /\ Append(Front(p), Last(p)) = p
         /\ Front(p) = SubSeq(p, 1, Len(p) - 1)
         /\ Len(p) \in Nat \ {0}
<1>1. Len(p) \in Nat \ {0}
  BY EmptySeq
<1>2. Len(p) - 1 \in 0 .. Len(p) /\ Len(p) \in 1 .. Len(p)
  BY <1>1
<1>3. Front(p) \in Seq(S) /\ Len(Front(p)) = Len(p) - 1
      /\ \A i \in 1 .. Len(p) - 1 : Front(p)[i] = p[i]
  BY <1>2, CutIs DEF Front
<1>4. Last(p) \in S
  BY <1>2, ElementOfSeq DEF Last
<1> DEFINE whole == Append(Front(p), Last(p))
<1>5. whole \in Seq(S) /\ Len(whole) = Len(p)
      /\ \A i \in 1 .. Len(p) : whole[i] = p[i]
  <2>1. /\ whole \in Seq(S) /\ Len(whole) = Len(Front(p)) + 1
        /\ \A i \in 1 .. Len(Front(p)) : whole[i] = Front(p)[i]
        /\ whole[Len(Front(p)) + 1] = Last(p)
    BY <1>3, <1>4, AppendProperties
  <2> HIDE DEF whole
  <2> QED
    BY <1>1, <1>3, <2>1 DEF Last
<1> HIDE DEF whole
<1>6. whole = p
  BY <1>5, SeqEqual
<1> QED
  BY <1>1, <1>3, <1>4, <1>6 DEF whole, Front

(* What is at the end of a way, with what comes after it.                    *)
LEMMA AppendCut ==
  ASSUME NEW S, NEW p \in Seq(S), NEW x \in S, NEW k \in 0 .. Len(p)
  PROVE  SubSeq(Append(p, x), 1, k) = SubSeq(p, 1, k)
<1> DEFINE w == Append(p, x)
           a == SubSeq(w, 1, k)
           b == SubSeq(p, 1, k)
<1>1. w \in Seq(S) /\ Len(w) = Len(p) + 1 /\ \A i \in 1 .. Len(p) : w[i] = p[i]
  BY AppendProperties
<1> HIDE DEF w
<1>2. k \in 0 .. Len(w) /\ Len(p) \in Nat
  BY <1>1, LenProperties
<1>3. a \in Seq(S) /\ Len(a) = k /\ \A i \in 1 .. k : a[i] = w[i]
  BY <1>1, <1>2, CutIs
<1>4. b \in Seq(S) /\ Len(b) = k /\ \A i \in 1 .. k : b[i] = p[i]
  BY CutIs
<1> HIDE DEF a, b
<1>5. a = b
  BY <1>1, <1>2, <1>3, <1>4, SeqEqual
<1> QED
  BY <1>5 DEF a, b, w

-----------------------------------------------------------------------------
(* What a resolution passes.                                                 *)

\* No link is at p, nor on the way to it.
NoLinkOn(disk, p) ==
  \A k \in 0 .. Len(p) :
    Exists(disk, SubSeq(p, 1, k)) => Entry(disk, SubSeq(p, 1, k)).kind # "link"

StandOK(disk, s) ==
  /\ s = Stand(s.done, s.todo, s.links)
  /\ s.done \in Seq(Names) /\ s.todo \in Seq(Names) /\ s.links \in Nat
  /\ NoLinkOn(disk, s.done)

(* Every step goes by one of the ways of canonicalize.                       *)
LEMMA OnwardIs ==
  ASSUME NEW disk, FileSystem(disk), NEW done \in Seq(Names), NEW todo \in Seq(Names),
         NEW links \in Nat, todo # <<>>
  PROVE  LET beyond == Append(done, Head(todo))
             now  == Onward(disk, Stand(done, todo, links))
         IN  /\ Head(todo) \in Names /\ Tail(todo) \in Seq(Names) /\ beyond \in Seq(Names)
             /\ Head(todo) = Up => now = Stand(Parent(done), Tail(todo), links)
             /\ Head(todo) # Up
                  /\ ~Exists(disk, beyond) => now = Stand(beyond, Tail(todo), links)
             /\ Head(todo) # Up /\ Exists(disk, beyond) /\ Entry(disk, beyond).kind = "link" =>
                  now = IF links = MaxLinks THEN GivenUp
                        ELSE Stand(<<>>, Entry(disk, beyond).to \o Tail(todo), links + 1)
             /\ Head(todo) # Up /\ Exists(disk, beyond) /\ Entry(disk, beyond).kind = "file"
                  /\ Tail(todo) # <<>> => now = GivenUp
             /\ Head(todo) # Up /\ Exists(disk, beyond)
                  /\ (Entry(disk, beyond).kind = "file" => Tail(todo) = <<>>)
                  /\ Entry(disk, beyond).kind # "link" => now = Stand(beyond, Tail(todo), links)
<1>1. Head(todo) \in Names /\ Tail(todo) \in Seq(Names)
  BY HeadTailProperties
<1>2. Append(done, Head(todo)) \in Seq(Names)
  BY <1>1, AppendProperties
<1> DEFINE s == Stand(done, todo, links)
<1>3. s.done = done /\ s.todo = todo /\ s.links = links
  BY DEF Stand
<1> QED
  BY <1>1, <1>2, <1>3 DEF Onward

LEMMA NoLinkAtStart ==
  ASSUME NEW disk, FileSystem(disk)
  PROVE  NoLinkOn(disk, <<>>) /\ NoLinkOn(disk, Unresolved) /\ Unresolved \in Seq(Names)
<1> DEFINE first == <<>>
<1>1. Found(first) = first /\ first \in Seq(Names) /\ Len(first) = 0
  BY DEF Found
<1>2. \A p : SubSeq(p, 1, 0) = first
  BY SubSeqEmpty
<1> HIDE DEF first
<1>3. Entry(disk, first).kind # "link"
  BY <1>1 DEF Entry, FileSystem, first
<1>4. NoLinkOn(disk, first)
  <2>1. SUFFICES ASSUME NEW k \in 0 .. Len(first) PROVE SubSeq(first, 1, k) = first
    BY <1>3 DEF NoLinkOn
  <2>2. k = 0
    BY <1>1
  <2> QED
    BY <1>2, <2>2
<1>5. Unresolved \in Seq(Names) /\ Len(Unresolved) = 1 /\ DOMAIN Unresolved = {1}
      /\ Unresolved[1] = Up
  BY GateAssumption DEF GateAssumption, Unresolved
<1>6. Found(Unresolved)[1] = Up /\ Len(Found(Unresolved)) = 1
  BY <1>5, FoundIs, GateAssumption DEF GateAssumption
<1>7. ~Exists(disk, Unresolved)
  <2>1. SUFFICES ASSUME Found(Unresolved) \in Seq(Names \ {Up}) PROVE FALSE
    BY DEF Exists, FileSystem
  <2> QED
    BY <1>6, <2>1, ElementOfSeq
<1>8. NoLinkOn(disk, Unresolved)
  <2>1. SUFFICES ASSUME NEW k \in 0 .. Len(Unresolved)
                 PROVE  SubSeq(Unresolved, 1, k) \in {first, Unresolved}
    BY <1>3, <1>7 DEF NoLinkOn
  <2>2. k = 0 \/ k = Len(Unresolved)
    BY <1>5
  <2> QED
    BY <1>2, <1>5, <2>2, SubSeqFull
<1> QED
  BY <1>4, <1>5, <1>8 DEF first

LEMMA NoLinkAppended ==
  ASSUME NEW disk, NEW p \in Seq(Names), NEW x \in Names, NoLinkOn(disk, p),
         Exists(disk, Append(p, x)) => Entry(disk, Append(p, x)).kind # "link"
  PROVE  NoLinkOn(disk, Append(p, x))
<1>1. /\ Append(p, x) \in Seq(Names) /\ Len(Append(p, x)) = Len(p) + 1 /\ Len(p) \in Nat
  BY AppendProperties, LenProperties
<1>2. SUFFICES ASSUME NEW k \in 0 .. Len(p) + 1, Exists(disk, SubSeq(Append(p, x), 1, k))
               PROVE  Entry(disk, SubSeq(Append(p, x), 1, k)).kind # "link"
  BY <1>1 DEF NoLinkOn
<1>3. CASE k \in 0 .. Len(p)
  <2>1. SubSeq(Append(p, x), 1, k) = SubSeq(p, 1, k)
    BY <1>3, AppendCut
  <2> QED
    BY <1>2, <1>3, <2>1 DEF NoLinkOn
<1>4. CASE k = Len(p) + 1
  <2>1. SubSeq(Append(p, x), 1, k) = Append(p, x)
    BY <1>1, <1>4, SubSeqFull
  <2> QED
    BY <1>2, <2>1
<1> QED
  BY <1>1, <1>3, <1>4

LEMMA ParentIs ==
  ASSUME NEW p \in Seq(Names)
  PROVE  /\ Parent(p) \in Seq(Names)
         /\ p = <<>> => Parent(p) = <<>>
         /\ p # <<>> => /\ Parent(p) = Front(p) /\ Parent(p) = SubSeq(p, 1, Len(p) - 1)
                        /\ Len(p) \in Nat \ {0} /\ Len(Parent(p)) = Len(p) - 1
  BY FrontIs DEF Parent

LEMMA NoLinkAbove ==
  ASSUME NEW disk, NEW p \in Seq(Names), NoLinkOn(disk, p)
  PROVE  NoLinkOn(disk, Parent(p))
<1>1. CASE p = <<>>
  BY <1>1, ParentIs
<1>2. CASE p # <<>>
  <2>1. Parent(p) = Front(p) /\ Len(Parent(p)) = Len(p) - 1 /\ Len(p) \in Nat \ {0}
    BY <1>2, ParentIs
  <2>2. Append(Parent(p), Last(p)) = p /\ Last(p) \in Names /\ Parent(p) \in Seq(Names)
    BY <1>2, <2>1, FrontIs
  <2>3. ASSUME NEW k \in 0 .. Len(Parent(p))
        PROVE  k \in 0 .. Len(p) /\ SubSeq(Parent(p), 1, k) = SubSeq(p, 1, k)
    BY <2>1, <2>2, AppendCut
  <2> QED
    BY <2>3 DEF NoLinkOn
<1> QED
  BY <1>1, <1>2

LEMMA OnwardOK ==
  ASSUME NEW disk, FileSystem(disk), NEW s, StandOK(disk, s)
  PROVE  StandOK(disk, Onward(disk, s))
<1> DEFINE done == s.done  todo == s.todo  links == s.links
           beyond == Append(done, Head(todo))
           now == Onward(disk, s)
<1>1. /\ s = Stand(done, todo, links)
      /\ done \in Seq(Names) /\ todo \in Seq(Names) /\ links \in Nat /\ NoLinkOn(disk, done)
  BY DEF StandOK
<1>2. ASSUME NEW d \in Seq(Names), NEW t \in Seq(Names), NEW l \in Nat, NoLinkOn(disk, d)
      PROVE  StandOK(disk, Stand(d, t, l))
  BY <1>2 DEF StandOK, Stand
<1>3. StandOK(disk, GivenUp)
  <2>1. Unresolved \in Seq(Names) /\ <<>> \in Seq(Names)
    BY GateAssumption DEF GateAssumption, Unresolved
  <2> QED
    BY <1>2, <2>1, NoLinkAtStart DEF GivenUp
<1>4. CASE todo = <<>>
  BY <1>4 DEF Onward
<1>5. CASE todo # <<>>
  <2> HIDE DEF done, todo, links
  <2>1. /\ Head(todo) \in Names /\ Tail(todo) \in Seq(Names) /\ beyond \in Seq(Names)
        /\ Head(todo) = Up => now = Stand(Parent(done), Tail(todo), links)
        /\ Head(todo) # Up /\ ~Exists(disk, beyond) => now = Stand(beyond, Tail(todo), links)
        /\ Head(todo) # Up /\ Exists(disk, beyond) /\ Entry(disk, beyond).kind = "link" =>
             now = IF links = MaxLinks THEN GivenUp
                   ELSE Stand(<<>>, Entry(disk, beyond).to \o Tail(todo), links + 1)
        /\ Head(todo) # Up /\ Exists(disk, beyond) /\ Entry(disk, beyond).kind = "file"
             /\ Tail(todo) # <<>> => now = GivenUp
        /\ Head(todo) # Up /\ Exists(disk, beyond)
             /\ (Entry(disk, beyond).kind = "file" => Tail(todo) = <<>>)
             /\ Entry(disk, beyond).kind # "link" => now = Stand(beyond, Tail(todo), links)
    BY <1>1, <1>5, OnwardIs
  <2>2. CASE Head(todo) = Up
    <3>1. Parent(done) \in Seq(Names) /\ NoLinkOn(disk, Parent(done))
      BY <1>1, ParentIs, NoLinkAbove
    <3> QED
      BY <1>1, <1>2, <2>1, <2>2, <3>1
  <2>3. CASE Head(todo) # Up /\ Exists(disk, beyond) /\ Entry(disk, beyond).kind = "link"
    <3>1. Entry(disk, beyond).to \in Seq(Names) /\ links + 1 \in Nat /\ <<>> \in Seq(Names)
      BY <1>1, <2>3 DEF FileSystem, Exists, Entry
    <3>2. Entry(disk, beyond).to \o Tail(todo) \in Seq(Names)
      BY <2>1, <3>1, ConcatProperties
    <3> QED
      BY <1>2, <1>3, <2>1, <2>3, <3>1, <3>2, NoLinkAtStart
  <2>4. CASE Head(todo) # Up /\ (Exists(disk, beyond) => Entry(disk, beyond).kind # "link")
    <3>1. NoLinkOn(disk, beyond)
      BY <1>1, <2>1, <2>4, NoLinkAppended
    <3>2. now \in {GivenUp, Stand(beyond, Tail(todo), links)}
      BY <2>1, <2>4
    <3> QED
      BY <1>1, <1>2, <1>3, <2>1, <3>1, <3>2
  <2> QED
    BY <2>2, <2>3, <2>4
<1> QED
  BY <1>4, <1>5

(* So does a resolution.                                                     *)
LEMMA ResolutionOK ==
  ASSUME NEW disk, FileSystem(disk), NEW p \in Seq(Names)
  PROVE  \A n \in Nat : StandOK(disk, Resolution(disk, p)[n])
<1> DEFINE S == {n \in Nat : StandOK(disk, Resolution(disk, p)[n])}
<1>1. 0 \in S
  <2>1. StandOK(disk, Stand(<<>>, p, 0))
    <3>1. <<>> \in Seq(Names)
      OBVIOUS
    <3> QED
      BY <3>1, NoLinkAtStart DEF StandOK, Stand
  <2> QED
    BY <2>1, ResolutionIs
<1>2. ASSUME NEW n \in Nat, n \in S PROVE n + 1 \in S
  <2>1. StandOK(disk, Onward(disk, Resolution(disk, p)[n]))
    BY <1>2, OnwardOK
  <2>2. Resolution(disk, p)[n + 1] = Onward(disk, Resolution(disk, p)[n])
    BY ResolutionIs
  <2> QED
    BY <2>1, <2>2
<1> HIDE DEF S
<1>3. \A n \in Nat : n \in S
  BY <1>1, <1>2, Induction
<1> QED
  BY <1>3 DEF S

(* It stays where nothing is left to do.                                     *)
LEMMA ResolutionRests ==
  ASSUME NEW disk, NEW p, NEW n \in Nat, Resolution(disk, p)[n].todo = <<>>,
         NEW m \in Nat, m >= n
  PROVE  Resolution(disk, p)[m] = Resolution(disk, p)[n]
<1> DEFINE way == Resolution(disk, p)
           S == {k \in Nat : way[n + k] = way[n]}
<1>1. 0 \in S
  OBVIOUS
<1>2. ASSUME NEW k \in Nat, k \in S PROVE k + 1 \in S
  <2>1. n + k \in Nat /\ n + (k + 1) = (n + k) + 1 /\ way[n + k] = way[n]
    BY <1>2
  <2>2. way[(n + k) + 1] = Onward(disk, way[n + k])
    BY <2>1, ResolutionIs
  <2>3. Onward(disk, way[n]) = way[n]
    BY DEF Onward
  <2> HIDE DEF way
  <2> QED
    BY <2>1, <2>2, <2>3
<1> HIDE DEF S
<1>3. \A k \in Nat : k \in S
  BY <1>1, <1>2, Induction
<1>4. m - n \in Nat /\ n + (m - n) = m
  OBVIOUS
<1> QED
  BY <1>3, <1>4 DEF S

LEMMA StepsIs ==
  ASSUME NEW p \in Seq(Names)
  PROVE  /\ Steps(p) \in Nat /\ Len(p) \in Nat /\ Steps(p) >= Len(p)
         /\ p # <<>> => Steps(Parent(p)) + 1 = Steps(p)
<1>1. MaxLinks * MaxLength \in Nat
  BY GateAssumption DEF GateAssumption
<1>2. Len(p) \in Nat
  BY LenProperties
<1> DEFINE more == MaxLinks * MaxLength
<1>3. Steps(p) = Len(p) + more /\ Steps(Parent(p)) = Len(Parent(p)) + more
  BY DEF Steps
<1> HIDE DEF more
<1>4. more \in Nat
  BY <1>1 DEF more
<1>5. p # <<>> => Len(Parent(p)) + 1 = Len(p)
  BY <1>2, ParentIs
<1>6. p # <<>> => Len(Parent(p)) \in Nat
  BY ParentIs, LenProperties
<1> QED
  BY <1>2, <1>3, <1>4, <1>5, <1>6

(* A path is resolved where its resolution has come to an end.               *)
LEMMA CanonicalIs ==
  ASSUME NEW disk, FileSystem(disk), NEW p \in Seq(Names)
  PROVE  /\ Canonical(disk, p) \in Seq(Names) /\ NoLinkOn(disk, Canonical(disk, p))
         /\ Canonical(disk, p) # Unresolved =>
              \A m \in Nat : m >= Steps(p) =>
                /\ Resolution(disk, p)[m].todo = <<>>
                /\ Resolution(disk, p)[m].done = Canonical(disk, p)
         /\ \A n \in Nat : n <= Steps(p) /\ Resolution(disk, p)[n].todo = <<>> =>
              Canonical(disk, p) = Resolution(disk, p)[n].done
<1> DEFINE way == Resolution(disk, p)
           end == way[Steps(p)]
<1>1. Steps(p) \in Nat
  BY StepsIs
<1>2. StandOK(disk, end)
  BY <1>1, ResolutionOK
<1>3. Canonical(disk, p) = IF end.todo = <<>> THEN end.done ELSE Unresolved
  BY DEF Canonical
<1>4. Unresolved \in Seq(Names)
  BY GateAssumption DEF GateAssumption, Unresolved
<1>5. ASSUME Canonical(disk, p) # Unresolved, NEW m \in Nat, m >= Steps(p)
      PROVE  way[m].todo = <<>> /\ way[m].done = Canonical(disk, p)
  <2>1. end.todo = <<>> /\ end.done = Canonical(disk, p)
    BY <1>3, <1>5
  <2>2. way[m] = end
    BY <1>1, <1>5, <2>1, ResolutionRests
  <2> QED
    BY <2>1, <2>2
<1>6. ASSUME NEW n \in Nat, n <= Steps(p), way[n].todo = <<>>
      PROVE  Canonical(disk, p) = way[n].done
  <2>1. end = way[n]
    BY <1>1, <1>6, ResolutionRests
  <2> QED
    BY <1>3, <1>6, <2>1
<1> HIDE DEF end, way
<1>7. Canonical(disk, p) \in Seq(Names) /\ NoLinkOn(disk, Canonical(disk, p))
  BY <1>2, <1>3, <1>4, NoLinkAtStart DEF StandOK
<1> QED
  BY <1>5, <1>6, <1>7 DEF way

-----------------------------------------------------------------------------
(* A resolution comes to an end within Steps.                                *)

\* What a resolution may still need.
Left(s) == Len(s.todo) + (MaxLinks - s.links) * MaxLength

LEMMA LinksLeft ==
  ASSUME NEW l \in Nat, l <= MaxLinks
  PROVE  /\ (MaxLinks - l) * MaxLength \in Nat
         /\ l # MaxLinks => /\ (MaxLinks - (l + 1)) * MaxLength \in Nat
                            /\ (MaxLinks - (l + 1)) * MaxLength + MaxLength = (MaxLinks - l) * MaxLength
<1>1. MaxLinks \in Nat /\ MaxLength \in Nat
  BY GateAssumption DEF GateAssumption
<1>2. ASSUME NEW a \in Nat, NEW b \in Nat PROVE a * b \in Nat
  OBVIOUS
<1>3. ASSUME NEW a \in Nat, NEW b \in Nat PROVE a * b + b = (a + 1) * b
  OBVIOUS
<1>4. MaxLinks - l \in Nat
  BY <1>1
<1>5. CASE l # MaxLinks
  <2>1. MaxLinks - (l + 1) \in Nat /\ (MaxLinks - (l + 1)) + 1 = MaxLinks - l
    BY <1>1, <1>5
  <2> QED
    BY <1>1, <1>2, <1>3, <1>4, <2>1
<1> QED
  BY <1>1, <1>2, <1>4, <1>5

LEMMA OneLess ==
  ASSUME NEW disk, FileSystem(disk), NEW s, StandOK(disk, s), s.links <= MaxLinks,
         s.todo # <<>>
  PROVE  LET now == Onward(disk, s) IN
         /\ now.links <= MaxLinks /\ Left(s) \in Nat /\ Left(now) \in Nat
         /\ now.todo = <<>> \/ Left(now) + 1 <= Left(s)
<1> DEFINE done == s.done  todo == s.todo  links == s.links
           beyond == Append(done, Head(todo))
           rest == Tail(todo)
           now == Onward(disk, s)
           more == (MaxLinks - links) * MaxLength
<1>1. /\ s = Stand(done, todo, links)
      /\ done \in Seq(Names) /\ todo \in Seq(Names) /\ links \in Nat /\ todo # <<>>
  BY DEF StandOK
<1>2. /\ rest \in Seq(Names) /\ Len(rest) \in Nat /\ Len(todo) = Len(rest) + 1
  BY <1>1, HeadTailProperties, LenProperties
<1>3. more \in Nat /\ MaxLinks \in Nat /\ MaxLength \in Nat /\ links <= MaxLinks
  BY <1>1, LinksLeft, GateAssumption DEF GateAssumption
<1>4. Left(s) = Len(todo) + more
  BY DEF Left
<1>5. ASSUME NEW d PROVE LET u == Stand(d, rest, links) IN
                           u.links = links /\ Left(u) = Len(rest) + more
  BY DEF Left, Stand
<1>6. /\ GivenUp.todo = <<>> /\ GivenUp.links = 0 /\ 0 <= MaxLinks /\ Left(GivenUp) \in Nat
  <2>1. GivenUp.todo = <<>> /\ GivenUp.links = 0 /\ Len(GivenUp.todo) = 0
    BY DEF GivenUp, Stand
  <2>2. (MaxLinks - 0) * MaxLength \in Nat
    BY <1>3, LinksLeft
  <2> QED
    BY <1>3, <2>1, <2>2 DEF Left
<1> HIDE DEF done, todo, links, rest, beyond, more, now
<1>7. \/ now = GivenUp \/ \E d : now = Stand(d, rest, links)
      \/ /\ Exists(disk, beyond) /\ links # MaxLinks
         /\ now = Stand(<<>>, Entry(disk, beyond).to \o rest, links + 1)
  <2>1. /\ Head(todo) = Up => now = Stand(Parent(done), rest, links)
        /\ Head(todo) # Up /\ ~Exists(disk, beyond) => now = Stand(beyond, rest, links)
        /\ Head(todo) # Up /\ Exists(disk, beyond) /\ Entry(disk, beyond).kind = "link" =>
             now = IF links = MaxLinks THEN GivenUp
                   ELSE Stand(<<>>, Entry(disk, beyond).to \o rest, links + 1)
        /\ Head(todo) # Up /\ Exists(disk, beyond) /\ Entry(disk, beyond).kind = "file"
             /\ rest # <<>> => now = GivenUp
        /\ Head(todo) # Up /\ Exists(disk, beyond)
             /\ (Entry(disk, beyond).kind = "file" => rest = <<>>)
             /\ Entry(disk, beyond).kind # "link" => now = Stand(beyond, rest, links)
    BY <1>1, OnwardIs DEF now, beyond, rest
  <2> QED
    BY <2>1
<1>8. CASE now = GivenUp
  <2>1. Left(s) \in Nat
    BY <1>2, <1>3, <1>4
  <2> QED
    BY <1>6, <1>8, <2>1 DEF now
<1>9. CASE \E d : now = Stand(d, rest, links)
  <2>1. now.links = links /\ Left(now) = Len(rest) + more
    BY <1>5, <1>9
  <2> QED
    BY <1>2, <1>3, <1>4, <2>1 DEF now
<1>10. CASE /\ Exists(disk, beyond) /\ links # MaxLinks
            /\ now = Stand(<<>>, Entry(disk, beyond).to \o rest, links + 1)
  <2> DEFINE to == Entry(disk, beyond).to
             after == (MaxLinks - (links + 1)) * MaxLength
  <2>1. to \in Seq(Names) /\ Len(to) \in Nat /\ Len(to) <= MaxLength
    BY <1>10, LenProperties DEF FileSystem, Exists, Entry
  <2>2. Len(to \o rest) = Len(to) + Len(rest)
    BY <1>2, <2>1, ConcatProperties
  <2>3. after \in Nat /\ after + MaxLength = more
    BY <1>1, <1>3, <1>10, LinksLeft DEF more
  <2>4. now.links = links + 1 /\ Left(now) = Len(to \o rest) + after
    BY <1>10 DEF Stand, Left
  <2>5. links + 1 <= MaxLinks
    BY <1>1, <1>3, <1>10
  <2> HIDE DEF to, after
  <2>6. Left(now) \in Nat /\ Left(s) \in Nat /\ Left(now) + 1 <= Left(s)
    BY <1>2, <1>3, <1>4, <2>1, <2>2, <2>3, <2>4
  <2> QED
    BY <2>4, <2>5, <2>6 DEF now
<1> QED
  BY <1>7, <1>8, <1>9, <1>10

(* canonicalize ends: the number of steps after which its result is read off *)
(* cuts no resolution short, since links' destinations are bounded and so is *)
(* the number of links that are followed.                                    *)
THEOREM ResolutionsEnd ==
  ASSUME NEW disk, FileSystem(disk), NEW p \in Seq(Names)
  PROVE  Resolution(disk, p)[Steps(p)].todo = <<>>
<1> DEFINE way == Resolution(disk, p)
           ok(s, n) == s.links <= MaxLinks /\ (s.todo = <<>> \/ n + Left(s) <= Steps(p))
           S == {n \in Nat : ok(way[n], n)}
<1>1. Steps(p) \in Nat /\ \A n \in Nat : StandOK(disk, way[n])
  BY StepsIs, ResolutionOK
<1>2. way[0] = Stand(<<>>, p, 0) /\ \A n \in Nat : way[n + 1] = Onward(disk, way[n])
  BY ResolutionIs
<1> HIDE DEF way
<1>3. 0 \in S
  <2>1. way[0].links = 0 /\ way[0].todo = p
    BY <1>2 DEF Stand
  <2>2. MaxLinks \in Nat /\ MaxLinks - 0 = MaxLinks
    BY GateAssumption DEF GateAssumption
  <2>3. Left(way[0]) = Steps(p)
    BY <2>1, <2>2 DEF Left, Steps
  <2> QED
    BY <1>1, <2>1, <2>2, <2>3
<1>4. ASSUME NEW n \in Nat, n \in S PROVE n + 1 \in S
  <2>1. way[n].links <= MaxLinks /\ (way[n].todo = <<>> \/ n + Left(way[n]) <= Steps(p))
    BY <1>4
  <2>2. CASE way[n].todo = <<>>
    <3>1. way[n + 1] = way[n]
      BY <1>2, <2>2 DEF Onward
    <3> QED
      BY <2>1, <2>2, <3>1
  <2>3. CASE way[n].todo # <<>>
    <3>1. /\ way[n + 1].links <= MaxLinks /\ Left(way[n]) \in Nat /\ Left(way[n + 1]) \in Nat
          /\ way[n + 1].todo = <<>> \/ Left(way[n + 1]) + 1 <= Left(way[n])
      BY <1>1, <1>2, <2>1, <2>3, OneLess
    <3>2. n + Left(way[n]) <= Steps(p)
      BY <2>1, <2>3
    <3>3. way[n + 1].todo = <<>> \/ (n + 1) + Left(way[n + 1]) <= Steps(p)
      BY <1>1, <3>1, <3>2
    <3> QED
      BY <3>1, <3>3
  <2> QED
    BY <2>2, <2>3
<1> HIDE DEF S
<1>5. \A n \in Nat : n \in S
  BY <1>3, <1>4, Induction
<1>6. ok(way[Steps(p)], Steps(p))
  BY <1>1, <1>5 DEF S
<1> DEFINE end == way[Steps(p)]
<1>7. end.todo \in Seq(Names) /\ Len(end.todo) \in Nat /\ end.links \in Nat
      /\ end.links <= MaxLinks /\ (end.todo = <<>> \/ Steps(p) + Left(end) <= Steps(p))
  BY <1>1, <1>6, LenProperties DEF StandOK
<1> HIDE DEF end
<1>8. (MaxLinks - end.links) * MaxLength \in Nat
  BY <1>7, LinksLeft
<1>9. Left(end) = Len(end.todo) + (MaxLinks - end.links) * MaxLength
  BY DEF Left
<1>10. CASE Steps(p) + Left(end) <= Steps(p)
  <2>1. Len(end.todo) = 0
    BY <1>1, <1>7, <1>8, <1>9, <1>10
  <2> QED
    BY <1>7, <2>1, EmptySeq DEF end, way
<1> QED
  BY <1>7, <1>10 DEF end, way

-----------------------------------------------------------------------------
(* Through the parent.                                                       *)

LEMMA ConcatEnd ==
  ASSUME NEW x \in Names, NEW s \in Seq(Names), NEW t \in Seq(Names)
  PROVE  t \o Append(s, x) = Append(t \o s, x)
<1>1. <<x>> \in Seq(Names) /\ t \o s \in Seq(Names)
  BY ConcatProperties
<1>2. t \o (s \o <<x>>) = (t \o s) \o <<x>>
  BY <1>1, ConcatAssociative
<1> QED
  BY <1>1, <1>2, AppendIsConcat

LEMMA EndOfPath ==
  ASSUME NEW x \in Names, NEW s \in Seq(Names)
  PROVE  /\ Append(s, x) \in Seq(Names) /\ Append(s, x) # <<>>
         /\ s # <<>> => /\ Head(Append(s, x)) = Head(s)
                        /\ Tail(Append(s, x)) = Append(Tail(s), x)
         /\ s = <<>> => Head(Append(s, x)) = x /\ Tail(Append(s, x)) = <<>>
  BY AppendProperties, HeadTailAppend

Longer(s, x) == Stand(s.done, Append(s.todo, x), s.links)

(* With one more name at its end, a resolution takes the same steps, unless  *)
(* it is given up.                                                           *)
LEMMA OneMore ==
  ASSUME NEW disk, FileSystem(disk), NEW s, StandOK(disk, s), s.todo # <<>>, NEW x \in Names
  PROVE  Onward(disk, Longer(s, x)) \in {Longer(Onward(disk, s), x), GivenUp}
<1> DEFINE beyond == Append(s.done, Head(s.todo))
           u == Longer(s, x)
<1>1. s.done \in Seq(Names) /\ s.todo \in Seq(Names) /\ s.links \in Nat
  BY DEF StandOK
<1>2. u.done = s.done /\ u.todo = Append(s.todo, x) /\ u.links = s.links
  BY DEF Stand, Longer
<1>3. /\ u.todo # <<>> /\ Head(u.todo) = Head(s.todo)
      /\ Tail(u.todo) = Append(Tail(s.todo), x) /\ Tail(u.todo) # <<>>
      /\ Tail(s.todo) \in Seq(Names)
  BY <1>1, <1>2, EndOfPath, HeadTailProperties
<1>4. ASSUME NEW d, NEW t, NEW l PROVE Longer(Stand(d, t, l), x) = Stand(d, Append(t, x), l)
  BY DEF Stand, Longer
<1> HIDE DEF u
<1>5. CASE Head(s.todo) = Up
  <2>1. Onward(disk, s) = Stand(Parent(s.done), Tail(s.todo), s.links)
    BY <1>5 DEF Onward
  <2>2. Onward(disk, u) = Stand(Parent(s.done), Append(Tail(s.todo), x), s.links)
    BY <1>2, <1>3, <1>5 DEF Onward
  <2> QED
    BY <1>4, <2>1, <2>2 DEF u
<1>6. CASE Head(s.todo) # Up /\ ~Exists(disk, beyond)
  <2>1. Onward(disk, s) = Stand(beyond, Tail(s.todo), s.links)
    BY <1>6 DEF Onward
  <2>2. Onward(disk, u) = Stand(beyond, Append(Tail(s.todo), x), s.links)
    BY <1>2, <1>3, <1>6 DEF Onward
  <2> QED
    BY <1>4, <2>1, <2>2 DEF u
<1>7. CASE Head(s.todo) # Up /\ Exists(disk, beyond) /\ Entry(disk, beyond).kind = "link"
  <2> DEFINE to == Entry(disk, beyond).to
  <2>1. to \in Seq(Names)
    BY <1>7 DEF FileSystem, Exists, Entry
  <2>2. to \o Tail(u.todo) = Append(to \o Tail(s.todo), x)
    BY <1>3, <2>1, ConcatEnd
  <2>3. CASE s.links = MaxLinks
    <3>1. Onward(disk, u) = GivenUp
      BY <1>2, <1>3, <1>7, <2>3 DEF Onward
    <3> QED
      BY <3>1 DEF u
  <2>4. CASE s.links # MaxLinks
    <3>1. Onward(disk, s) = Stand(<<>>, to \o Tail(s.todo), s.links + 1)
      BY <1>7, <2>4 DEF Onward
    <3>2. Onward(disk, u) = Stand(<<>>, to \o Tail(u.todo), s.links + 1)
      BY <1>2, <1>3, <1>7, <2>4 DEF Onward
    <3>3. Longer(Stand(<<>>, to \o Tail(s.todo), s.links + 1), x)
            = Stand(<<>>, Append(to \o Tail(s.todo), x), s.links + 1)
      BY <1>4
    <3> QED
      BY <2>2, <3>1, <3>2, <3>3 DEF u
  <2> QED
    BY <2>3, <2>4
<1>8. CASE Head(s.todo) # Up /\ Exists(disk, beyond) /\ Entry(disk, beyond).kind = "file"
  <2>1. Onward(disk, u) = GivenUp
    BY <1>2, <1>3, <1>8 DEF Onward
  <2> QED
    BY <2>1 DEF u
<1>9. CASE Head(s.todo) # Up /\ Exists(disk, beyond)
           /\ Entry(disk, beyond).kind \notin {"link", "file"}
  <2>1. Onward(disk, s) = Stand(beyond, Tail(s.todo), s.links)
    BY <1>9 DEF Onward
  <2>2. Onward(disk, u) = Stand(beyond, Append(Tail(s.todo), x), s.links)
    BY <1>2, <1>3, <1>9 DEF Onward
  <2> QED
    BY <1>4, <2>1, <2>2 DEF u
<1> QED
  BY <1>5, <1>6, <1>7, <1>8, <1>9 DEF u

LEMMA GivenUpStays ==
  ASSUME NEW disk
  PROVE  Onward(disk, GivenUp) = GivenUp /\ GivenUp.todo = <<>> /\ GivenUp.done = Unresolved
  BY DEF Onward, GivenUp, Stand

LEMMA FirstEnd ==
  ASSUME NEW disk, NEW p, NEW n \in Nat, Resolution(disk, p)[n].todo = <<>>
  PROVE  \E m \in 0 .. n : /\ Resolution(disk, p)[m].todo = <<>>
                           /\ \A k \in 0 .. m - 1 : Resolution(disk, p)[k].todo # <<>>
<1> DEFINE ends == {m \in Nat : Resolution(disk, p)[m].todo = <<>>}
           R == OpToRel(<, Nat)
<1>1. IsWellFoundedOn(R, Nat)
  BY NatLessThanWellFounded
<1>2. ends \in SUBSET Nat /\ n \in ends
  OBVIOUS
<1> HIDE DEF R, ends
<1>3. PICK m \in ends : \A y \in ends : ~(<<y, m>> \in R)
  BY <1>1, <1>2, WFMin
<1>4. \A y \in ends : ~(y < m)
  BY <1>2, <1>3 DEF R, OpToRel
<1>5. m \in 0 .. n /\ \A k \in 0 .. m - 1 : k \notin ends
  BY <1>2, <1>4
<1> QED
  BY <1>3, <1>5 DEF ends

(* The resolution of a path comes to that of its parent, with the last name  *)
(* still to do.                                                              *)
LEMMA ThroughParent ==
  ASSUME NEW disk, FileSystem(disk), NEW p \in Seq(Names), p # <<>>,
         Canonical(disk, Parent(p)) # Unresolved, Canonical(disk, p) # Unresolved
  PROVE  \E n \in Nat, l \in Nat :
           /\ n + 1 <= Steps(p)
           /\ Resolution(disk, p)[n] = Stand(Canonical(disk, Parent(p)), <<Last(p)>>, l)
<1> DEFINE x == Last(p)
           a == Resolution(disk, Parent(p))
           b == Resolution(disk, p)
<1>1. /\ Parent(p) \in Seq(Names) /\ x \in Names /\ Append(Parent(p), x) = p
      /\ Steps(Parent(p)) + 1 = Steps(p) /\ Steps(Parent(p)) \in Nat
  BY ParentIs, FrontIs, StepsIs
<1>2. a[Steps(Parent(p))].todo = <<>>
  BY <1>1, CanonicalIs
<1>3. PICK m \in 0 .. Steps(Parent(p)) : a[m].todo = <<>>
               /\ \A k \in 0 .. m - 1 : a[k].todo # <<>>
  BY <1>1, <1>2, FirstEnd
<1>4. a[m].done = Canonical(disk, Parent(p))
  BY <1>1, <1>3, CanonicalIs
<1>5. \A n \in Nat : StandOK(disk, a[n])
  BY <1>1, ResolutionOK
<1>6. /\ a[0] = Stand(<<>>, Parent(p), 0) /\ b[0] = Stand(<<>>, p, 0)
      /\ \A n \in Nat : a[n + 1] = Onward(disk, a[n]) /\ b[n + 1] = Onward(disk, b[n])
  BY ResolutionIs
<1> HIDE DEF a, b
<1> DEFINE S == {n \in Nat : n <= m => b[n] \in {Longer(a[n], x), GivenUp}}
<1>7. 0 \in S
  <2>1. Longer(a[0], x) = Stand(<<>>, Append(Parent(p), x), 0)
    BY <1>6 DEF Stand, Longer
  <2> HIDE DEF x
  <2> QED
    BY <1>1, <1>6, <2>1 DEF x
<1>8. ASSUME NEW n \in Nat, n \in S PROVE n + 1 \in S
  <2>1. SUFFICES ASSUME n + 1 <= m PROVE b[n + 1] \in {Longer(a[n + 1], x), GivenUp}
    OBVIOUS
  <2>2. b[n] \in {Longer(a[n], x), GivenUp}
    BY <1>8, <2>1
  <2>3. b[n + 1] = Onward(disk, b[n]) /\ a[n + 1] = Onward(disk, a[n])
    BY <1>6
  <2>4. CASE b[n] = GivenUp
    BY <2>3, <2>4, GivenUpStays
  <2>5. CASE b[n] = Longer(a[n], x)
    <3>1. n \in 0 .. m - 1
      BY <2>1
    <3>2. a[n].todo # <<>> /\ StandOK(disk, a[n])
      BY <1>3, <1>5, <3>1
    <3>3. Onward(disk, Longer(a[n], x)) \in {Longer(Onward(disk, a[n]), x), GivenUp}
      BY <1>1, <3>2, OneMore
    <3> QED
      BY <2>3, <2>5, <3>3
  <2> QED
    BY <2>2, <2>4, <2>5
<1> HIDE DEF S
<1>9. \A n \in Nat : n \in S
  BY <1>7, <1>8, Induction
<1>10. b[m] \in {Longer(a[m], x), GivenUp} /\ m \in Nat /\ m + 1 <= Steps(p) /\ m <= Steps(p)
  BY <1>1, <1>9 DEF S
<1>11. b[m] # GivenUp
  <2>1. SUFFICES ASSUME b[m] = GivenUp PROVE FALSE
    OBVIOUS
  <2>2. Canonical(disk, p) = b[m].done
    BY <1>10, <2>1, CanonicalIs, GivenUpStays DEF b
  <2> QED
    BY <2>1, <2>2, GivenUpStays
<1>12. Longer(a[m], x) = Stand(Canonical(disk, Parent(p)), <<x>>, a[m].links)
       /\ a[m].links \in Nat
  <2>1. Append(<<>>, x) = <<x>>
    OBVIOUS
  <2> QED
    BY <1>3, <1>4, <1>5, <1>10, <2>1 DEF StandOK, Longer
<1> QED
  BY <1>10, <1>11, <1>12 DEF b

(* What is in no link's place is found there.                                *)
LEMMA LeafStays ==
  ASSUME NEW disk, FileSystem(disk), NEW p \in Seq(Names), p # <<>>, Last(p) # Up,
         Canonical(disk, Parent(p)) # Unresolved, Canonical(disk, p) # Unresolved,
         Entry(disk, Append(Canonical(disk, Parent(p)), Last(p))).kind # "link",
         Exists(disk, Append(Canonical(disk, Parent(p)), Last(p)))
  PROVE  Canonical(disk, p) = Append(Canonical(disk, Parent(p)), Last(p))
<1> DEFINE done == Canonical(disk, Parent(p))
           x == Last(p)
<1>1. PICK n \in Nat, l \in Nat : n + 1 <= Steps(p)
               /\ Resolution(disk, p)[n] = Stand(done, <<x>>, l)
  BY ThroughParent
<1>2. done \in Seq(Names) /\ x \in Names
  BY ParentIs, CanonicalIs, FrontIs
<1>3. <<x>> \in Seq(Names) /\ <<x>> # <<>> /\ Head(<<x>>) = x /\ Tail(<<x>>) = <<>>
  BY <1>2
<1> HIDE DEF done, x
<1> DEFINE todo == <<x>>
<1>4. todo \in Seq(Names) /\ todo # <<>> /\ Head(todo) = x /\ Tail(todo) = <<>>
  BY <1>3
<1> HIDE DEF todo
<1>5. Onward(disk, Stand(done, todo, l)) = Stand(Append(done, x), <<>>, l)
  <2> DEFINE s == Stand(done, todo, l)
  <2>1. s.done = done /\ s.todo = todo /\ s.links = l
    BY DEF Stand
  <2>2. x # Up /\ Exists(disk, Append(done, x)) /\ Entry(disk, Append(done, x)).kind # "link"
    BY DEF done, x
  <2> HIDE DEF s
  <2>3. Onward(disk, s) = Stand(Append(done, x), <<>>, l)
    BY <1>4, <2>1, <2>2 DEF Onward
  <2> QED
    BY <2>3 DEF s
<1>6. Resolution(disk, p)[n + 1] = Stand(Append(done, x), <<>>, l)
  BY <1>1, <1>5, ResolutionIs DEF todo
<1>7. Resolution(disk, p)[n + 1].todo = <<>>
      /\ Resolution(disk, p)[n + 1].done = Append(done, x)
  BY <1>6 DEF Stand
<1> QED
  BY <1>1, <1>7, CanonicalIs DEF done, x

(* From a link on, it is the way of where the link leads.                    *)
LEMMA LeafLeads ==
  ASSUME NEW disk, FileSystem(disk), NEW p \in Seq(Names), p # <<>>, Last(p) # Up,
         Canonical(disk, Parent(p)) # Unresolved, Canonical(disk, p) # Unresolved,
         Entry(disk, Append(Canonical(disk, Parent(p)), Last(p))).kind = "link",
         Exists(disk, Append(Canonical(disk, Parent(p)), Last(p)))
  PROVE  \E n \in Nat, l \in Nat :
           Resolution(disk, p)[n] =
             Stand(<<>>, Entry(disk, Append(Canonical(disk, Parent(p)), Last(p))).to, l)
<1> DEFINE done == Canonical(disk, Parent(p))
           x == Last(p)
           to == Entry(disk, Append(done, x)).to
<1>1. PICK n \in Nat, l \in Nat : n + 1 <= Steps(p)
               /\ Resolution(disk, p)[n] = Stand(done, <<x>>, l)
  BY ThroughParent
<1>2. done \in Seq(Names) /\ x \in Names
  BY ParentIs, CanonicalIs, FrontIs
<1>3. to \in Seq(Names)
  BY DEF Exists, Entry, FileSystem
<1> DEFINE todo == <<x>>
<1>4. todo \in Seq(Names) /\ todo # <<>> /\ Head(todo) = x /\ Tail(todo) = <<>>
  BY <1>2
<1>5. to \o <<>> = to
  BY <1>3, ConcatEmptySeq
<1> HIDE DEF done, x, to, todo
<1>6. Onward(disk, Stand(done, todo, l)) = IF l = MaxLinks THEN GivenUp
                                          ELSE Stand(<<>>, to \o Tail(todo), l + 1)
  <2> DEFINE s == Stand(done, todo, l)
  <2>1. s.done = done /\ s.todo = todo /\ s.links = l
    BY DEF Stand
  <2>2. /\ x # Up /\ Exists(disk, Append(done, x))
        /\ Entry(disk, Append(done, x)).kind = "link"
        /\ to = Entry(disk, Append(done, x)).to
    BY DEF done, x, to
  <2> HIDE DEF s
  <2>3. Onward(disk, s) = IF l = MaxLinks THEN GivenUp ELSE Stand(<<>>, to \o Tail(todo), l + 1)
    BY <1>4, <2>1, <2>2 DEF Onward
  <2> QED
    BY <2>3 DEF s
<1>7. Resolution(disk, p)[n + 1] = Onward(disk, Stand(done, todo, l))
  BY <1>1, ResolutionIs DEF todo
<1>8. l # MaxLinks
  <2>1. SUFFICES ASSUME Resolution(disk, p)[n + 1] = GivenUp PROVE FALSE
    BY <1>6, <1>7
  <2>2. Canonical(disk, p) = Resolution(disk, p)[n + 1].done
    BY <1>1, <2>1, CanonicalIs, GivenUpStays
  <2> QED
    BY <2>1, <2>2, GivenUpStays
<1>9. Resolution(disk, p)[n + 1] = Stand(<<>>, to, l + 1)
  BY <1>4, <1>5, <1>6, <1>7, <1>8
<1> QED
  BY <1>9 DEF to, done, x

(* Resolutions that come to stand alike end alike, however many links each   *)
(* has behind it, unless one is given up.                                    *)
Alike(s, u) == s.done = u.done /\ s.todo = u.todo

LEMMA OnwardAlike ==
  ASSUME NEW disk, NEW s, NEW u, Alike(s, u)
  PROVE  Alike(Onward(disk, s), Onward(disk, u))
         \/ GivenUp \in {Onward(disk, s), Onward(disk, u)}
<1> DEFINE beyond == Append(s.done, Head(s.todo))
<1>1. u.done = s.done /\ u.todo = s.todo
  BY DEF Alike
<1>7. \A d, t, k, j : Alike(Stand(d, t, k), Stand(d, t, j))
  BY DEF Alike, Stand
<1>2. CASE s.todo = <<>>
  BY <1>1, <1>2 DEF Onward, Alike
<1>3. CASE s.todo # <<>> /\ Head(s.todo) = Up
  BY <1>1, <1>3 DEF Onward, Alike, Stand
<1>4. CASE s.todo # <<>> /\ Head(s.todo) # Up /\ ~Exists(disk, beyond)
  BY <1>1, <1>4 DEF Onward, Alike, Stand
<1>5. CASE s.todo # <<>> /\ Head(s.todo) # Up /\ Exists(disk, beyond)
           /\ Entry(disk, beyond).kind = "link"
  <2>1. CASE MaxLinks \in {s.links, u.links}
    BY <1>1, <1>5, <2>1 DEF Onward
  <2>2. CASE s.links # MaxLinks /\ u.links # MaxLinks
    <3>1. /\ Onward(disk, s) = Stand(<<>>, Entry(disk, beyond).to \o Tail(s.todo), s.links + 1)
          /\ Onward(disk, u) = Stand(<<>>, Entry(disk, beyond).to \o Tail(s.todo), u.links + 1)
      BY <1>1, <1>5, <2>2 DEF Onward
    <3> QED
      BY <1>7, <3>1
  <2> QED
    BY <2>1, <2>2
<1>6. CASE s.todo # <<>> /\ Head(s.todo) # Up /\ Exists(disk, beyond)
           /\ Entry(disk, beyond).kind # "link"
  <2>1. \/ GivenUp \in {Onward(disk, s), Onward(disk, u)}
        \/ /\ Onward(disk, s) = Stand(beyond, Tail(s.todo), s.links)
           /\ Onward(disk, u) = Stand(beyond, Tail(s.todo), u.links)
    BY <1>1, <1>6 DEF Onward
  <2> QED
    BY <1>7, <2>1
<1> QED
  BY <1>2, <1>3, <1>4, <1>5, <1>6

LEMMA SameEnd ==
  ASSUME NEW disk, FileSystem(disk), NEW p \in Seq(Names), NEW q \in Seq(Names),
         NEW n \in Nat, NEW m \in Nat, Alike(Resolution(disk, p)[n], Resolution(disk, q)[m]),
         Canonical(disk, p) # Unresolved, Canonical(disk, q) # Unresolved
  PROVE  Canonical(disk, p) = Canonical(disk, q)
<1> DEFINE a == Resolution(disk, p)
           b == Resolution(disk, q)
           S == {k \in Nat : Alike(a[n + k], b[m + k])}
<1>1. \A k \in Nat : a[k] # GivenUp /\ b[k] # GivenUp
  <2>1. ASSUME NEW r \in Seq(Names), NEW k \in Nat, Resolution(disk, r)[k] = GivenUp,
               Canonical(disk, r) # Unresolved
        PROVE  FALSE
    <3>1. Steps(r) \in Nat /\ k + Steps(r) \in Nat /\ k + Steps(r) >= Steps(r)
          /\ k + Steps(r) >= k
      BY StepsIs
    <3>2. Resolution(disk, r)[k + Steps(r)] = GivenUp
      <4>1. Resolution(disk, r)[k].todo = <<>>
        BY <2>1, GivenUpStays
      <4>2. \A i \in Nat : i >= k => Resolution(disk, r)[i] = Resolution(disk, r)[k]
        BY <4>1, ResolutionRests
      <4> QED
        BY <2>1, <3>1, <4>2
    <3>3. Canonical(disk, r) = Resolution(disk, r)[k + Steps(r)].done
      BY <2>1, <3>1, CanonicalIs
    <3> QED
      BY <2>1, <3>2, <3>3, GivenUpStays
  <2> QED
    BY <2>1
<1>2. 0 \in S
  OBVIOUS
<1>3. ASSUME NEW k \in Nat, k \in S PROVE k + 1 \in S
  <2>1. /\ n + k \in Nat /\ n + (k + 1) = (n + k) + 1
        /\ m + k \in Nat /\ m + (k + 1) = (m + k) + 1
    OBVIOUS
  <2>2. a[(n + k) + 1] = Onward(disk, a[n + k]) /\ b[(m + k) + 1] = Onward(disk, b[m + k])
    BY <2>1, ResolutionIs
  <2>3. Alike(a[n + k], b[m + k])
    BY <1>3
  <2>4. a[(n + k) + 1] # GivenUp /\ b[(m + k) + 1] # GivenUp
    BY <1>1, <2>1
  <2> HIDE DEF a, b
  <2>5. Alike(a[(n + k) + 1], b[(m + k) + 1])
    BY <2>2, <2>3, <2>4, OnwardAlike
  <2> QED
    BY <2>1, <2>5
<1> HIDE DEF S
<1>4. \A k \in Nat : k \in S
  BY <1>2, <1>3, Induction
<1> DEFINE far == Steps(p) + Steps(q)
<1>5. /\ far \in Nat /\ n + far \in Nat /\ m + far \in Nat
      /\ n + far >= Steps(p) /\ m + far >= Steps(q)
  BY StepsIs
<1> HIDE DEF far
<1>6. Canonical(disk, p) = a[n + far].done /\ Canonical(disk, q) = b[m + far].done
  BY <1>5, CanonicalIs
<1>7. Alike(a[n + far], b[m + far])
  BY <1>4, <1>5 DEF S
<1> QED
  BY <1>6, <1>7 DEF Alike

-----------------------------------------------------------------------------
(* What is there, and is no link, is found under its own name.               *)

LEMMA Within ==
  ASSUME NEW disk, FileSystem(disk), NEW p \in Seq(Names), Exists(disk, p),
         NEW k \in 0 .. Len(p)
  PROVE  /\ Exists(disk, SubSeq(p, 1, k))
         /\ k < Len(p) => Entry(disk, SubSeq(p, 1, k)).kind = "dir"
         /\ \A i \in 1 .. Len(p) : p[i] # Up
<1>1. Found(SubSeq(p, 1, k)) = SubSeq(Found(p), 1, k) /\ Len(Found(p)) = Len(p)
      /\ Len(p) \in Nat
  BY FoundCut, FoundIs, LenProperties
<1>2. Found(p) \in DOMAIN disk
  BY DEF Exists
<1>3. ASSUME NEW i \in 1 .. Len(p), p[i] = Up PROVE FALSE
  <2>1. Found(p) \in Seq(Names \ {Up})
    BY <1>2 DEF FileSystem
  <2>2. Found(p)[i] = Up
    BY <1>3, FoundIs, GateAssumption DEF GateAssumption
  <2> QED
    BY <1>1, <2>1, <2>2, ElementOfSeq
<1>4. CASE k = Len(p)
  <2>1. SubSeq(p, 1, k) = p
    BY <1>4, SubSeqFull
  <2>2. ~(k < Len(p))
    BY <1>1, <1>4
  <2> QED
    BY <1>3, <2>1, <2>2
<1>5. CASE k < Len(p)
  <2>1. k \in 0 .. Len(Found(p)) - 1
    BY <1>1, <1>5
  <2>2. SubSeq(Found(p), 1, k) \in DOMAIN disk /\ disk[SubSeq(Found(p), 1, k)].kind = "dir"
    BY <1>2, <2>1 DEF FileSystem
  <2>3. Exists(disk, SubSeq(p, 1, k)) /\ Entry(disk, SubSeq(p, 1, k)).kind = "dir"
    BY <1>1, <2>2 DEF Exists, Entry
  <2> QED
    BY <1>3, <2>3
<1> QED
  BY <1>1, <1>4, <1>5

LEMMA Direct ==
  ASSUME NEW disk, FileSystem(disk), NEW p \in Seq(Names), Exists(disk, p),
         Entry(disk, p).kind # "link"
  PROVE  Canonical(disk, p) = p
<1> DEFINE way == Resolution(disk, p)
           from(n) == SubSeq(p, n + 1, Len(p))
           S == {n \in Nat : n <= Len(p) => way[n] = Stand(SubSeq(p, 1, n), from(n), 0)}
<1>10. Len(p) \in Nat
  BY LenProperties
<1>1. Len(p) \in Nat /\ SubSeq(p, 1, 0) = <<>> /\ from(0) = p /\ from(Len(p)) = <<>>
      /\ SubSeq(p, 1, Len(p)) = p
  BY LenProperties, SubSeqEmpty, SubSeqFull
<1>2. way[0] = Stand(<<>>, p, 0) /\ \A n \in Nat : way[n + 1] = Onward(disk, way[n])
  BY ResolutionIs
<1> HIDE DEF way
<1>3. 0 \in S
  BY <1>1, <1>2
<1>4. ASSUME NEW n \in Nat, n \in S PROVE n + 1 \in S
  <2>1. SUFFICES ASSUME n + 1 <= Len(p)
                 PROVE  way[n + 1] = Stand(SubSeq(p, 1, n + 1), from(n + 1), 0)
    OBVIOUS
  <2>2. way[n] = Stand(SubSeq(p, 1, n), from(n), 0)
    BY <1>1, <1>4, <2>1
  <2> DEFINE x == p[n + 1]
             beyond == Append(SubSeq(p, 1, n), x)
  <2>3. /\ n + 1 \in 1 .. Len(p) /\ Len(p) \in n + 1 .. Len(p) /\ n + 1 \in 0 .. Len(p)
        /\ n \in 0 .. Len(p) /\ 1 \in 1 .. Len(p) /\ n + 1 \in 1 .. Len(p)
        /\ (n + 1) - 1 = n
    BY <1>1, <2>1
  <2>4. Head(from(n)) = x /\ Tail(from(n)) = from(n + 1)
    BY <2>3, HeadTailOfSubSeq
  <2>5. from(n) # <<>>
    <3>1. \A i \in n + 1 .. Len(p) : p[i] \in Names
      BY <1>1, LenProperties
    <3>2. Len(from(n)) = Len(p) - (n + 1) + 1
      BY <1>1, <2>1, <3>1, SubSeqProperties
    <3> HIDE DEF from
    <3>3. Len(from(n)) # 0
      BY <1>10, <2>1, <3>2
    <3> QED
      BY <3>3
  <2>6. beyond = SubSeq(p, 1, n + 1)
    <3>1. SubSeq(p, 1, n + 1) = SubSeq(p, 1, (n + 1) - 1) \o <<x>>
      BY <2>3, SubSeqRecursiveSecond
    <3>2. SubSeq(p, 1, n) \in Seq(Names) /\ x \in Names
      BY <2>3, CutIs, ElementOfSeq
    <3>3. beyond = SubSeq(p, 1, n) \o <<x>>
      BY <3>2, AppendIsConcat
    <3> QED
      BY <2>3, <3>1, <3>3
  <2>7. Exists(disk, beyond) /\ (n + 1 < Len(p) => Entry(disk, beyond).kind = "dir") /\ x # Up
    BY <2>3, <2>6, Within
  <2>8. Entry(disk, beyond).kind # "link"
        /\ (Entry(disk, beyond).kind = "file" => from(n + 1) = <<>>)
    <3>1. CASE n + 1 = Len(p)
      BY <1>1, <2>6, <3>1
    <3>2. CASE n + 1 < Len(p)
      BY <2>7, <3>2
    <3>3. n + 1 = Len(p) \/ n + 1 < Len(p)
      BY <1>10, <2>1
    <3> HIDE DEF beyond, from
    <3> QED
      BY <3>1, <3>2, <3>3
  <2> DEFINE s == way[n]
  <2>9. s.done = SubSeq(p, 1, n) /\ s.todo = from(n) /\ s.links = 0
    BY <2>2 DEF Stand
  <2> HIDE DEF s, from, x
  <2>10. Onward(disk, s) = Stand(beyond, from(n + 1), 0)
    BY <2>4, <2>5, <2>7, <2>8, <2>9 DEF Onward
  <2> QED
    BY <1>2, <2>6, <2>10 DEF s
<1> HIDE DEF S
<1>5. \A n \in Nat : n \in S
  BY <1>3, <1>4, Induction
<1>6. way[Len(p)] = Stand(p, <<>>, 0)
  <2>1. Len(p) \in S
    BY <1>1, <1>5
  <2>2. way[Len(p)] = Stand(SubSeq(p, 1, Len(p)), from(Len(p)), 0)
    <3> HIDE DEF from
    <3> QED
      BY <1>1, <2>1 DEF S
  <2> HIDE DEF from
  <2> QED
    BY <1>1, <2>2
<1>7. way[Len(p)].todo = <<>> /\ way[Len(p)].done = p
  BY <1>6 DEF Stand
<1>8. Steps(p) >= Len(p)
  BY StepsIs
<1> QED
  BY <1>1, <1>7, <1>8, CanonicalIs DEF way

-----------------------------------------------------------------------------
(* The gate.                                                                 *)

LEMMA RootIs ==
  ASSUME NEW disk, FileSystem(disk)
  PROVE  Canonical(disk, <<>>) = <<>> /\ <<>> # Unresolved
<1> DEFINE top == <<>>
<1>1. Found(top) = top /\ top \in Seq(Names)
  BY DEF Found
<1> HIDE DEF top
<1>2. Exists(disk, top) /\ Entry(disk, top).kind # "link"
  BY <1>1 DEF FileSystem, Exists, Entry, top
<1>3. Canonical(disk, top) = top
  BY <1>1, <1>2, Direct
<1>4. <<>> # Unresolved
  BY DEF Unresolved
<1> QED
  BY <1>3, <1>4 DEF top

(* Where p exists, its longest existing prefix is all of it.                 *)
LEMMA ExistingIs ==
  ASSUME NEW disk, NEW p \in Seq(Names), Exists(disk, p)
  PROVE  ExistingLength(disk, p) = Len(p)
<1> DEFINE longest(n) == /\ Exists(disk, SubSeq(p, 1, n))
                         /\ \A k \in n + 1 .. Len(p) : ~Exists(disk, SubSeq(p, 1, k))
<1>1. Len(p) \in Nat /\ Len(p) \in 0 .. Len(p)
  BY LenProperties
<1>2. Exists(disk, SubSeq(p, 1, Len(p)))
  BY SubSeqFull
<1>3. longest(Len(p))
  BY <1>1, <1>2
<1>4. ASSUME NEW n \in 0 .. Len(p), longest(n) PROVE n = Len(p)
  <2>1. SUFFICES ASSUME Len(p) \in n + 1 .. Len(p) PROVE FALSE
    BY <1>1
  <2> QED
    BY <1>2, <1>4, <2>1
<1> HIDE DEF longest
<1>5. (CHOOSE n \in 0 .. Len(p) : longest(n)) = Len(p)
  BY <1>1, <1>3, <1>4
<1> QED
  BY <1>5 DEF ExistingLength, longest

(* What lies above a location, and is no link, has its identity covered.     *)
LEMMA IdentityCovered ==
  ASSUME NEW disk, FileSystem(disk), NEW p \in Seq(Names), Exists(disk, p),
         Entry(disk, p).kind # "link",
         NEW form \in Seq(Names), IsPrefix(Found(p), Found(form))
  PROVE  CoversIdentity(disk, p, form)
<1>1. Found(p) \in Seq(Names) /\ Found(form) \in Seq(Names) /\ Len(p) \in Nat
      /\ Len(Found(p)) = Len(p) /\ Len(Found(form)) = Len(form) /\ Len(form) \in Nat
  BY FoundIs, LenProperties
<1>2. Len(p) <= Len(form) /\ SubSeq(Found(form), 1, Len(p)) = Found(p)
  BY <1>1, PrefixIs
<1> DEFINE k == Len(p)
           cut == SubSeq(form, 1, k)
<1>3. k \in 0 .. Len(form)
  BY <1>1, <1>2
<1>4. cut \in Seq(Names) /\ Found(cut) = Found(p)
  BY <1>2, <1>3, CutIs, FoundCut
<1> HIDE DEF cut, k
<1>5. Exists(disk, cut) /\ Entry(disk, cut) = Entry(disk, p)
  BY <1>4 DEF Exists, Entry
<1>6. IdentityAt(disk, cut) = Entry(disk, p).id
  BY <1>4, <1>5, Direct DEF IdentityAt
<1>7. ExistingLength(disk, p) = k /\ SubSeq(p, 1, k) = p
  BY ExistingIs, SubSeqFull DEF k
<1>8. SubSeq(p, k + 1, Len(p)) = <<>>
  BY <1>1, SubSeqEmpty DEF k
<1> DEFINE rest == SubSeq(form, k + 1, Len(form))
<1>9. IsPrefix(<<>>, rest)
  <2>1. rest \in Seq(Names)
    <3>1. \A i \in k + 1 .. Len(form) : form[i] \in Names
      BY <1>1, <1>3, LenProperties
    <3> QED
      BY <1>1, <1>3, <3>1, SubSeqProperties
  <2> DEFINE none == <<>>
  <2> HIDE DEF rest
  <2>2. Len(rest) \in Nat /\ SubSeq(rest, 1, 0) = none
    BY <2>1, LenProperties, SubSeqEmpty
  <2>3. none \in Seq(Names) /\ Len(none) = 0
    OBVIOUS
  <2>4. IsPrefix(none, rest)
    <3> HIDE DEF none
    <3>1. Len(none) <= Len(rest) /\ SubSeq(rest, 1, Len(none)) = none
      BY <2>2, <2>3
    <3> QED
      BY <2>1, <2>3, <3>1, PrefixIs
  <2> QED
    BY <2>4
<1> QED
  BY <1>3, <1>6, <1>7, <1>8, <1>9 DEF CoversIdentity, Covers, cut

(* Nothing that passes the gate takes along what has to stay: in every file  *)
(* system, for every home, protected and relocated location, and every path. *)
THEOREM GateKeeps ==
  ASSUME NEW disk, FileSystem(disk), NEW path \in Seq(Names)
  PROVE  Sound(disk, path)
<1> DEFINE parent == Canonical(disk, Parent(path))
           x == Last(path)
           t == Append(parent, x)
           top == Found(t)
           home == Canonical(disk, Home)
           canonical == Canonical(disk, path)
<1>1. SUFFICES ASSUME Passes(disk, path), NEW q \in Taken(disk, path), q \in Kept(disk)
               PROVE  FALSE
  BY DEF Sound
<1>2. path # <<>> /\ parent # Unresolved /\ q \in DOMAIN disk /\ IsPrefix(top, q)
  BY <1>1 DEF Taken, Below
<1>3. /\ Up \notin Range(path) /\ canonical # Unresolved
      /\ IsPrefix(home, canonical) /\ canonical # home
      /\ \A l \in Locations(home) : ~CoversLocation(disk, path, canonical, l)
  BY <1>1 DEF Passes, Below
<1>4. /\ parent \in Seq(Names) /\ x \in Names /\ t \in Seq(Names) /\ Len(t) = Len(parent) + 1
      /\ Len(parent) \in Nat
  BY <1>2, ParentIs, FrontIs, CanonicalIs, AppendProperties, LenProperties
<1>5. x # Up
  BY <1>2, <1>3, FrontIs DEF Range, Last
<1>6. home \in Seq(Names) /\ canonical \in Seq(Names) /\ NoLinkOn(disk, home)
  BY CanonicalIs, GateAssumption DEF GateAssumption
<1>7. top \in Seq(Names) /\ Len(top) = Len(t)
  BY <1>4, FoundIs
<1>8. q \in Seq(Names)
  BY <1>2 DEF FileSystem
<1> HIDE DEF parent, x, t, top, home, canonical
<1>9. Len(top) <= Len(q) /\ SubSeq(q, 1, Len(top)) = top /\ Len(q) \in Nat /\ Len(top) \in Nat
  BY <1>2, <1>7, <1>8, PrefixIs, LenProperties
<1>10. top \in DOMAIN disk /\ (q # top => disk[top].kind = "dir")
  <2>1. CASE Len(top) = Len(q)
    <3>1. q = top
      BY <1>8, <1>9, <2>1, SubSeqFull
    <3> QED
      BY <1>2, <3>1
  <2>2. CASE Len(top) < Len(q)
    <3>1. Len(top) \in 0 .. Len(q) - 1
      BY <1>9, <2>2
    <3> QED
      BY <1>2, <1>9, <3>1 DEF FileSystem
  <2> QED
    BY <1>9, <2>1, <2>2
<1>11. Exists(disk, t) /\ Entry(disk, t) = disk[top]
  BY <1>10 DEF Exists, Entry, top
<1>12. \/ q = Found(home)
       \/ \E l \in Locations(home) : \E form \in Forms(disk, l) : q = Found(form)
  BY <1>1 DEF Kept, home
<1>13. \A l \in Locations(home) : l \in Seq(Names)
  BY <1>6, ConcatProperties, GateAssumption DEF GateAssumption, Locations
<1>14. ASSUME NEW l \in Locations(home)
       PROVE  /\ Canonical(disk, Parent(l)) \in Seq(Names) /\ Physical(disk, l) \in Seq(Names)
              /\ Canonical(disk, l) \in Seq(Names) /\ Canonical(disk, l) # Unresolved
              /\ NoLinkOn(disk, Canonical(disk, l))
              /\ Canonical(disk, Parent(l)) # Unresolved
  <2>1. l \in Seq(Names) /\ Parent(l) \in Seq(Names)
    BY <1>13, ParentIs
  <2>2. /\ Canonical(disk, Parent(l)) \in Seq(Names) /\ Canonical(disk, l) \in Seq(Names)
        /\ NoLinkOn(disk, Canonical(disk, l))
    BY <2>1, CanonicalIs
  <2>3. Physical(disk, l) \in Seq(Names)
    BY <2>1, <2>2, FrontIs, AppendProperties DEF Physical
  <2>4. Canonical(disk, l) # Unresolved /\ Canonical(disk, Parent(l)) # Unresolved
    BY <1>3, RootIs DEF CoversLocation
  <2> QED
    BY <2>2, <2>3, <2>4
<1>15. CASE Entry(disk, t).kind # "link"
  <2>1. canonical = t
    BY <1>2, <1>3, <1>5, <1>11, <1>15, LeafStays DEF parent, x, t, canonical
  <2>2. CASE q = Found(home)
    <3>1. Len(home) <= Len(t) /\ SubSeq(t, 1, Len(home)) = home
      BY <1>3, <1>4, <1>6, <2>1, PrefixIs
    <3>2. Len(home) \in Nat /\ Len(t) \in Nat /\ Len(home) = Len(q)
      BY <1>4, <1>6, <2>2, FoundIs, LenProperties
    <3>3. Len(t) <= Len(q) /\ Len(home) <= Len(t)
      BY <1>7, <1>9, <3>1
    <3>4. Len(home) = Len(t)
      BY <3>2, <3>3
    <3>5. home = t
      BY <1>4, <3>1, <3>4, SubSeqFull
    <3> QED
      BY <1>3, <2>1, <3>5
  <2>3. ASSUME NEW l \in Locations(home), NEW form \in Forms(disk, l), q = Found(form)
        PROVE  FALSE
    <3>1. form \in Seq(Names)
      BY <1>14 DEF Forms
    <3>2. CoversIdentity(disk, t, form)
      BY <1>2, <1>4, <1>11, <1>15, <2>3, <3>1, IdentityCovered DEF top
    <3> QED
      BY <1>3, <2>1, <3>2 DEF CoversLocation
  <2> QED
    BY <1>12, <2>2, <2>3
<1>16. CASE Entry(disk, t).kind = "link"
  <2>1. q = top
    BY <1>10, <1>11, <1>16
  <2>2. ASSUME NEW p \in Seq(Names), NoLinkOn(disk, p), q = Found(p) PROVE FALSE
    <3>1. Exists(disk, p) /\ Entry(disk, p).kind = "link"
      BY <1>10, <1>11, <1>16, <2>1, <2>2 DEF Exists, Entry
    <3>2. SubSeq(p, 1, Len(p)) = p /\ Len(p) \in 0 .. Len(p)
      BY SubSeqFull, LenProperties
    <3> QED
      BY <2>2, <3>1, <3>2 DEF NoLinkOn
  <2>3. ASSUME NEW l \in Locations(home), q = Found(Physical(disk, l)) PROVE FALSE
    <3> DEFINE form == Physical(disk, l)
               to == Entry(disk, t).to
    <3>1. l \in Seq(Names) /\ form \in Seq(Names) /\ Len(form) = Len(top)
      BY <1>13, <1>14, <2>1, <2>3, FoundIs
    <3>2. l # <<>>
      <4>1. SUFFICES ASSUME l = <<>> PROVE FALSE
        OBVIOUS
      <4>2. form = <<>>
        BY <4>1 DEF Physical
      <4> QED
        BY <1>4, <1>7, <3>1, <4>2, EmptySeq
    <3>3. form = Append(Canonical(disk, Parent(l)), Last(l))
      BY <3>2 DEF Physical
    <3>4. Exists(disk, form) /\ Entry(disk, form) = Entry(disk, t)
      BY <1>10, <1>11, <2>1, <2>3 DEF Exists, Entry
    <3>5. Last(l) # Up
      <4>1. Last(l) \in Names /\ Canonical(disk, Parent(l)) \in Seq(Names)
        BY <1>14, <3>1, <3>2, FrontIs
      <4>2. Len(form) \in 1 .. Len(form) /\ form[Len(form)] = Last(l)
        BY <3>3, <4>1, AppendProperties, LenProperties
      <4>3. 0 \in 0 .. Len(form)
        BY <3>1, LenProperties
      <4> QED
        BY <3>1, <3>4, <4>2, <4>3, Within
    <3>6. PICK n \in Nat, j \in Nat : Resolution(disk, l)[n] = Stand(<<>>, to, j)
      BY <1>14, <1>16, <3>1, <3>2, <3>3, <3>4, <3>5, LeafLeads
    <3>7. PICK m \in Nat, k \in Nat : Resolution(disk, path)[m] = Stand(<<>>, to, k)
      BY <1>2, <1>3, <1>5, <1>11, <1>16, LeafLeads DEF parent, x, t, canonical
    <3>8. Alike(Resolution(disk, l)[n], Resolution(disk, path)[m])
      BY <3>6, <3>7 DEF Alike, Stand
    <3>9. Canonical(disk, l) = canonical
      BY <1>3, <1>14, <3>1, <3>8, SameEnd DEF canonical
    <3>10. IsPrefix(canonical, canonical)
      BY <1>6, PrefixIs, SubSeqFull, LenProperties
    <3> QED
      BY <1>3, <3>9, <3>10 DEF CoversLocation, Forms, Covers
  <2>4. ASSUME NEW l \in Locations(home), NEW form \in Forms(disk, l), q = Found(form)
        PROVE  FALSE
    BY <1>14, <2>2, <2>3, <2>4 DEF Forms
  <2> QED
    BY <1>6, <1>12, <2>2, <2>4
<1> QED
  BY <1>15, <1>16

-----------------------------------------------------------------------------
(* What lies below what.                                                     *)

LEMMA BelowIs ==
  ASSUME NEW p \in Seq(Names), NEW q \in Seq(Names)
  PROVE  /\ Len(p) \in Nat /\ Len(q) \in Nat
         /\ Below(p, q) <=> Len(q) <= Len(p) /\ \A i \in 1 .. Len(q) : p[i] = q[i]
<1>1. Len(p) \in Nat /\ Len(q) \in Nat
  BY LenProperties
<1>2. Below(p, q) <=> Len(q) <= Len(p) /\ SubSeq(p, 1, Len(q)) = q
  BY PrefixIs DEF Below
<1>3. ASSUME Len(q) <= Len(p)
      PROVE  SubSeq(p, 1, Len(q)) = q <=> \A i \in 1 .. Len(q) : p[i] = q[i]
  <2>1. Len(q) \in 0 .. Len(p)
    BY <1>1, <1>3
  <2>2. /\ SubSeq(p, 1, Len(q)) \in Seq(Names) /\ Len(SubSeq(p, 1, Len(q))) = Len(q)
        /\ \A i \in 1 .. Len(q) : SubSeq(p, 1, Len(q))[i] = p[i]
    BY <2>1, CutIs
  <2>3. (\A i \in 1 .. Len(q) : p[i] = q[i]) => SubSeq(p, 1, Len(q)) = q
    BY <2>2, SeqEqual
  <2> QED
    BY <2>2, <2>3
<1> QED
  BY <1>1, <1>2, <1>3

LEMMA NotBelow ==
  ASSUME NEW p \in Seq(Names), NEW q \in Seq(Names), Len(p) < Len(q)
  PROVE  ~Below(p, q)
<1>1. Len(p) \in Nat /\ Len(q) \in Nat
  BY LenProperties
<1>2. ~(Len(q) <= Len(p))
  BY <1>1
<1> QED
  BY <1>2, PrefixIs DEF Below

LEMMA BelowItself ==
  ASSUME NEW p \in Seq(Names)
  PROVE  Below(p, p)
<1>1. Len(p) \in Nat
  BY LenProperties
<1> QED
  BY <1>1, BelowIs

LEMMA BelowAll ==
  ASSUME NEW p \in Seq(Names), NEW q \in Seq(Names), NEW r \in Seq(Names),
         Below(p, q), Below(q, r)
  PROVE  Below(p, r)
<1>1. /\ Len(p) \in Nat /\ Len(q) \in Nat /\ Len(r) \in Nat
      /\ Len(q) <= Len(p) /\ Len(r) <= Len(q)
      /\ \A i \in 1 .. Len(q) : p[i] = q[i]
      /\ \A i \in 1 .. Len(r) : q[i] = r[i]
  BY BelowIs
<1>2. \A i \in 1 .. Len(r) : p[i] = r[i]
  BY <1>1
<1>3. Len(r) <= Len(p)
  BY <1>1
<1> QED
  BY <1>2, <1>3, BelowIs

LEMMA BelowEnds ==
  ASSUME NEW p \in Seq(Names), NEW q \in Seq(Names), Below(p, q), Len(p) <= Len(q)
  PROVE  p = q
<1>1. Len(p) = Len(q) /\ \A i \in 1 .. Len(q) : p[i] = q[i]
  BY BelowIs
<1> QED
  BY <1>1, SeqEqual

(* What a path is cut to lies above it.                                      *)
LEMMA CutAbove ==
  ASSUME NEW p \in Seq(Names), NEW k \in 0 .. Len(p)
  PROVE  SubSeq(p, 1, k) \in Seq(Names) /\ Len(SubSeq(p, 1, k)) = k
         /\ Below(p, SubSeq(p, 1, k))
<1>1. /\ SubSeq(p, 1, k) \in Seq(Names) /\ Len(SubSeq(p, 1, k)) = k
      /\ \A i \in 1 .. k : SubSeq(p, 1, k)[i] = p[i]
  BY CutIs
<1>2. k <= Len(p)
  BY LenProperties
<1>3. Below(p, SubSeq(p, 1, k))
  BY <1>1, <1>2, BelowIs
<1> QED
  BY <1>1, <1>3

(* What is left of a path below its first k names.                           *)
LEMMA RestIs ==
  ASSUME NEW S, NEW p \in Seq(S), NEW k \in 0 .. Len(p)
  PROVE  /\ SubSeq(p, k + 1, Len(p)) \in Seq(S)
         /\ Len(SubSeq(p, k + 1, Len(p))) = Len(p) - k
         /\ \A i \in 1 .. Len(p) - k : SubSeq(p, k + 1, Len(p))[i] = p[i + k]
<1>1. Len(p) \in Nat /\ k \in Nat /\ k <= Len(p)
  BY LenProperties
<1>2. k + 1 \in Int /\ Len(p) \in Int /\ Len(p) - (k + 1) + 1 = Len(p) - k
  BY <1>1
<1>3. \A i \in k + 1 .. Len(p) : p[i] \in S
  <2> TAKE i \in k + 1 .. Len(p)
  <2>1. i \in 1 .. Len(p)
    BY <1>1
  <2> QED
    BY <2>1, ElementOfSeq
<1>4. /\ SubSeq(p, k + 1, Len(p)) \in Seq(S)
      /\ Len(SubSeq(p, k + 1, Len(p)))
           = IF k + 1 <= Len(p) THEN Len(p) - (k + 1) + 1 ELSE 0
      /\ \A i \in 1 .. Len(p) - (k + 1) + 1 : SubSeq(p, k + 1, Len(p))[i] = p[k + 1 + i - 1]
  BY <1>2, <1>3, SubSeqProperties
<1>5. (IF k + 1 <= Len(p) THEN Len(p) - (k + 1) + 1 ELSE 0) = Len(p) - k
  BY <1>1
<1>6. \A i \in 1 .. Len(p) - k : k + 1 + i - 1 = i + k
  BY <1>1
<1> QED
  BY <1>2, <1>4, <1>5, <1>6

(* What lies below p, when p goes to q.                                      *)
LEMMA MovedIs ==
  ASSUME NEW p \in Seq(Names), NEW q \in Seq(Names), NEW r \in Seq(Names), Below(r, p)
  PROVE  /\ MovedTo(p, q, r) \in Seq(Names)
         /\ Len(MovedTo(p, q, r)) = Len(q) + (Len(r) - Len(p))
         /\ Len(p) \in Nat /\ Len(q) \in Nat /\ Len(r) \in Nat /\ Len(p) <= Len(r)
         /\ \A i \in 1 .. Len(q) : MovedTo(p, q, r)[i] = q[i]
         /\ \A i \in 1 .. Len(r) - Len(p) : MovedTo(p, q, r)[Len(q) + i] = r[Len(p) + i]
<1> DEFINE rest == SubSeq(r, Len(p) + 1, Len(r))
<1>1. Len(p) \in Nat /\ Len(q) \in Nat /\ Len(r) \in Nat /\ Len(p) <= Len(r)
  BY BelowIs
<1>2. Len(p) \in 0 .. Len(r)
  BY <1>1
<1>3. /\ rest \in Seq(Names) /\ Len(rest) = Len(r) - Len(p)
      /\ \A i \in 1 .. Len(r) - Len(p) : rest[i] = r[i + Len(p)]
  <2>1. ASSUME NEW k \in 0 .. Len(r), k = Len(p)
        PROVE  /\ rest \in Seq(Names) /\ Len(rest) = Len(r) - Len(p)
               /\ \A i \in 1 .. Len(r) - Len(p) : rest[i] = r[i + Len(p)]
    BY <2>1, RestIs
  <2> QED
    BY <1>2, <2>1
<1> HIDE DEF rest
<1>4. /\ q \o rest \in Seq(Names) /\ Len(q \o rest) = Len(q) + Len(rest)
      /\ \A i \in 1 .. Len(q) + Len(rest) :
           (q \o rest)[i] = IF i <= Len(q) THEN q[i] ELSE rest[i - Len(q)]
  <2>1. rest \in Seq(Names)
    BY <1>3
  <2> QED
    BY <2>1, ConcatProperties
<1>5. MovedTo(p, q, r) = q \o rest
  BY DEF MovedTo, rest
<1>6. ASSUME NEW i \in 1 .. Len(q) PROVE (q \o rest)[i] = q[i]
  <2>1. i \in 1 .. Len(q) + Len(rest) /\ i <= Len(q)
    BY <1>1, <1>3
  <2> QED
    BY <1>4, <2>1
<1>7. ASSUME NEW i \in 1 .. Len(r) - Len(p) PROVE (q \o rest)[Len(q) + i] = r[Len(p) + i]
  <2>1. /\ Len(q) + i \in 1 .. Len(q) + Len(rest) /\ ~(Len(q) + i <= Len(q))
        /\ Len(q) + i - Len(q) = i /\ i + Len(p) = Len(p) + i
    BY <1>1, <1>3
  <2>2. (q \o rest)[Len(q) + i] = rest[i]
    BY <1>4, <2>1
  <2> QED
    BY <1>3, <2>1, <2>2
<1> QED
  BY <1>1, <1>3, <1>4, <1>5, <1>6, <1>7

(* It can be told where it came from.                                        *)
LEMMA MovedBack ==
  ASSUME NEW p \in Seq(Names), NEW q \in Seq(Names), NEW r \in Seq(Names), Below(r, p)
  PROVE  Below(MovedTo(p, q, r), q) /\ MovedTo(q, p, MovedTo(p, q, r)) = r
<1> DEFINE m == MovedTo(p, q, r)
           b == MovedTo(q, p, m)
<1>1. /\ m \in Seq(Names) /\ Len(m) = Len(q) + (Len(r) - Len(p))
      /\ Len(p) \in Nat /\ Len(q) \in Nat /\ Len(r) \in Nat /\ Len(p) <= Len(r)
      /\ \A i \in 1 .. Len(q) : m[i] = q[i]
      /\ \A i \in 1 .. Len(r) - Len(p) : m[Len(q) + i] = r[Len(p) + i]
  BY MovedIs
<1> HIDE DEF m
<1>2. Below(m, q)
  <2>1. Len(q) <= Len(m)
    BY <1>1
  <2> QED
    BY <1>1, <2>1, BelowIs
<1>3. /\ b \in Seq(Names) /\ Len(b) = Len(p) + (Len(m) - Len(q))
      /\ \A i \in 1 .. Len(p) : b[i] = p[i]
      /\ \A i \in 1 .. Len(m) - Len(q) : b[Len(p) + i] = m[Len(q) + i]
  BY <1>1, <1>2, MovedIs
<1> HIDE DEF b
<1>4. Len(b) = Len(r) /\ Len(m) - Len(q) = Len(r) - Len(p)
  BY <1>1, <1>3
<1>5. ASSUME NEW i \in 1 .. Len(r) PROVE b[i] = r[i]
  <2>1. CASE i <= Len(p)
    <3>1. i \in 1 .. Len(p)
      BY <1>1, <2>1
    <3>2. r[i] = p[i]
      BY <3>1, BelowIs
    <3> QED
      BY <1>3, <3>1, <3>2
  <2>2. CASE ~(i <= Len(p))
    <3> DEFINE j == i - Len(p)
    <3>1. j \in 1 .. Len(r) - Len(p) /\ Len(p) + j = i
      BY <1>1, <2>2
    <3> HIDE DEF j
    <3>2. b[Len(p) + j] = m[Len(q) + j] /\ m[Len(q) + j] = r[Len(p) + j]
      BY <1>1, <1>3, <1>4, <3>1
    <3> QED
      BY <3>1, <3>2
  <2> QED
    BY <2>1, <2>2
<1>6. b = r
  BY <1>3, <1>4, <1>5, SeqEqual
<1> QED
  BY <1>2, <1>6 DEF m, b

(* What lies above it lies above it there too.                               *)
LEMMA MovedCut ==
  ASSUME NEW p \in Seq(Names), NEW q \in Seq(Names), NEW r \in Seq(Names), Below(r, p),
         NEW k \in 0 .. Len(MovedTo(p, q, r))
  PROVE  \/ k < Len(q) /\ SubSeq(MovedTo(p, q, r), 1, k) = SubSeq(q, 1, k)
         \/ \E j \in 0 .. Len(r) :
              /\ k = Len(q) + (j - Len(p)) /\ Below(SubSeq(r, 1, j), p)
              /\ SubSeq(MovedTo(p, q, r), 1, k) = MovedTo(p, q, SubSeq(r, 1, j))
<1> DEFINE m == MovedTo(p, q, r)
<1>1. /\ m \in Seq(Names) /\ Len(m) = Len(q) + (Len(r) - Len(p))
      /\ Len(p) \in Nat /\ Len(q) \in Nat /\ Len(r) \in Nat /\ Len(p) <= Len(r)
      /\ \A i \in 1 .. Len(q) : m[i] = q[i]
      /\ \A i \in 1 .. Len(r) - Len(p) : m[Len(q) + i] = r[Len(p) + i]
  BY MovedIs
<1>0. k \in 0 .. Len(m)
  OBVIOUS
<1>11. \A i \in 1 .. Len(p) : r[i] = p[i]
  BY BelowIs
<1>13. SubSeq(m, 1, k) = SubSeq(MovedTo(p, q, r), 1, k)
  OBVIOUS
<1> HIDE DEF m
<1>2. /\ SubSeq(m, 1, k) \in Seq(Names) /\ Len(SubSeq(m, 1, k)) = k
      /\ \A i \in 1 .. k : SubSeq(m, 1, k)[i] = m[i]
  BY <1>0, <1>1, CutIs
<1>3. CASE k < Len(q)
  <2>1. k \in 0 .. Len(q) /\ \A i \in 1 .. k : i \in 1 .. Len(q)
    BY <1>0, <1>1, <1>3
  <2>2. /\ SubSeq(q, 1, k) \in Seq(Names) /\ Len(SubSeq(q, 1, k)) = k
        /\ \A i \in 1 .. k : SubSeq(q, 1, k)[i] = q[i]
    BY <2>1, CutIs
  <2>3. SubSeq(m, 1, k) = SubSeq(q, 1, k)
    BY <1>1, <1>2, <2>1, <2>2, SeqEqual
  <2> QED
    BY <1>3, <1>13, <2>3
<1>4. CASE ~(k < Len(q))
  <2> DEFINE j == k - Len(q) + Len(p)
             c == SubSeq(r, 1, j)
             n == MovedTo(p, q, c)
  <2>1. /\ j \in 0 .. Len(r) /\ k = Len(q) + (j - Len(p)) /\ Len(p) <= j
        /\ \A i \in 1 .. Len(p) : i \in 1 .. j
        /\ \A i \in 1 .. j - Len(p) : Len(p) + i \in 1 .. j /\ i \in 1 .. Len(r) - Len(p)
    BY <1>0, <1>1, <1>4
  <2> HIDE DEF j
  <2>2. c \in Seq(Names) /\ Len(c) = j /\ \A i \in 1 .. j : c[i] = r[i]
    BY <2>1, CutIs
  <2> HIDE DEF c
  <2>3. Below(c, p)
    BY <1>11, <2>1, <2>2, BelowIs
  <2>4. /\ n \in Seq(Names) /\ Len(n) = Len(q) + (Len(c) - Len(p))
        /\ \A i \in 1 .. Len(q) : n[i] = q[i]
        /\ \A i \in 1 .. Len(c) - Len(p) : n[Len(q) + i] = c[Len(p) + i]
    BY <2>2, <2>3, MovedIs
  <2> HIDE DEF n
  <2>5. Len(n) = k
    BY <2>1, <2>2, <2>4
  <2>6. ASSUME NEW i \in 1 .. k PROVE n[i] = SubSeq(m, 1, k)[i]
    <3>1. CASE i <= Len(q)
      <4>1. i \in 1 .. Len(q)
        BY <1>1, <3>1
      <4> QED
        BY <1>1, <1>2, <2>4, <4>1
    <3>2. CASE ~(i <= Len(q))
      <4> DEFINE h == i - Len(q)
      <4>1. h \in 1 .. j - Len(p) /\ Len(q) + h = i
        BY <1>1, <2>1, <3>2
      <4> HIDE DEF h
      <4>2. n[Len(q) + h] = c[Len(p) + h] /\ c[Len(p) + h] = r[Len(p) + h]
        BY <2>1, <2>2, <2>4, <4>1
      <4>3. m[Len(q) + h] = r[Len(p) + h]
        BY <1>1, <2>1, <4>1
      <4> QED
        BY <1>2, <4>1, <4>2, <4>3
    <3> QED
      BY <3>1, <3>2
  <2>7. SubSeq(m, 1, k) = n
    BY <1>2, <2>4, <2>5, <2>6, SeqEqual
  <2>8. /\ k = Len(q) + (j - Len(p)) /\ Below(SubSeq(r, 1, j), p)
        /\ SubSeq(MovedTo(p, q, r), 1, k) = MovedTo(p, q, SubSeq(r, 1, j))
    BY <1>13, <2>1, <2>3, <2>7 DEF n, c
  <2> QED
    BY <2>1, <2>8
<1> QED
  BY <1>3, <1>4

-----------------------------------------------------------------------------
(* What the steps do to the file system.                                     *)

LEMMA NothingBelow ==
  ASSUME NEW disk, FileSystem(disk), NEW p \in Seq(Names), p \notin DOMAIN disk,
         NEW q \in DOMAIN disk
  PROVE  ~Below(q, p)
<1> SUFFICES ASSUME Below(q, p) PROVE FALSE
  OBVIOUS
<1>1. q \in Seq(Names)
  BY DEF FileSystem
<1>2. Len(p) <= Len(q) /\ SubSeq(q, 1, Len(p)) = p /\ Len(p) \in Nat /\ Len(q) \in Nat
  BY <1>1, PrefixIs, BelowIs DEF Below
<1>3. Len(p) # Len(q)
  BY <1>1, <1>2, BelowEnds
<1>4. Len(p) \in 0 .. Len(q) - 1
  BY <1>2, <1>3
<1> QED
  BY <1>2, <1>4 DEF FileSystem

Staying(disk, p) == {q \in DOMAIN disk : ~Below(q, p)}
Away(disk, p, attic) == {MovedTo(p, attic, q) : q \in RemovalOf(disk, p)}

(* What a file system holds after an exchange.                               *)
IsExchange(disk, attic, p, entry, E) ==
  /\ DOMAIN E = Staying(disk, p) \cup Away(disk, p, attic) \cup {p} /\ E[p] = entry
  /\ \A q \in Staying(disk, p) : E[q] = disk[q]
  /\ \A q \in RemovalOf(disk, p) :
       /\ MovedTo(p, attic, q) \in Seq(Names) /\ Below(MovedTo(p, attic, q), attic)
       /\ MovedTo(p, attic, q) # p /\ E[MovedTo(p, attic, q)] = disk[q]

LEMMA ExchangedIs ==
  ASSUME NEW disk, FileSystem(disk), NEW attic \in Seq(Names), attic \notin DOMAIN disk,
         NEW p \in DOMAIN disk, NEW entry
  PROVE  IsExchange(disk, attic, p, entry, Exchanged(disk, attic, p, entry))
<1> DEFINE E == Exchanged(disk, attic, p, entry)
<1>1. E = [q \in Staying(disk, p) \cup Away(disk, p, attic) \cup {p} |->
             IF q = p THEN entry ELSE IF q \in Staying(disk, p) THEN disk[q]
             ELSE disk[MovedTo(attic, p, q)]]
  BY DEF Exchanged, Staying, Away
<1> HIDE DEF E
<1>2. p \in Seq(Names) /\ Below(p, p)
  BY BelowItself DEF FileSystem
<1>3. DOMAIN E = Staying(disk, p) \cup Away(disk, p, attic) \cup {p} /\ E[p] = entry
  BY <1>1
<1>4. ASSUME NEW q \in Staying(disk, p) PROVE E[q] = disk[q]
  <2>1. q # p
    BY <1>2 DEF Staying
  <2> QED
    BY <1>1, <2>1
<1>5. ASSUME NEW q \in RemovalOf(disk, p)
      PROVE  /\ MovedTo(p, attic, q) \in Seq(Names) /\ Below(MovedTo(p, attic, q), attic)
             /\ MovedTo(p, attic, q) # p /\ E[MovedTo(p, attic, q)] = disk[q]
  <2>1. q \in DOMAIN disk /\ q \in Seq(Names) /\ Below(q, p)
    BY DEF RemovalOf, FileSystem
  <2>2. MovedTo(p, attic, q) \in Seq(Names)
    BY <1>2, <2>1, MovedIs
  <2>3. Below(MovedTo(p, attic, q), attic) /\ MovedTo(attic, p, MovedTo(p, attic, q)) = q
    BY <1>2, <2>1, MovedBack
  <2>4. MovedTo(p, attic, q) \notin DOMAIN disk
    BY <2>3, NothingBelow
  <2>5. MovedTo(p, attic, q) # p /\ MovedTo(p, attic, q) \notin Staying(disk, p)
    BY <2>4 DEF Staying
  <2>6. MovedTo(p, attic, q) \in Away(disk, p, attic)
    BY DEF Away
  <2>7. E[MovedTo(p, attic, q)] = disk[MovedTo(attic, p, MovedTo(p, attic, q))]
    BY <1>1, <2>5, <2>6
  <2> QED
    BY <2>2, <2>3, <2>5, <2>7
<1> QED
  BY <1>3, <1>4, <1>5 DEF E, IsExchange

(* One name, as the file system stores it.                                   *)
AtticOK(attic) ==
  attic \in Seq(Names \ {Up}) /\ Len(attic) = 1 /\ Found(attic) = attic

LEMMA AtticIs ==
  ASSUME NEW attic, AtticOK(attic)
  PROVE  /\ attic \in Seq(Names) /\ Len(attic) = 1 /\ attic[1] \in Names \ {Up}
         /\ Stored(attic[1]) = attic[1] /\ SubSeq(attic, 1, 0) = <<>>
<1>1. attic \in Seq(Names \ {Up}) /\ Len(attic) = 1
  BY DEF AtticOK
<1>2. attic \in Seq(Names)
  BY <1>1, SeqMonotonic
<1>3. 1 \in 1 .. Len(attic)
  BY <1>1
<1>4. attic[1] \in Names \ {Up}
  BY <1>1, <1>3, ElementOfSeq
<1>5. Found(attic)[1] = Stored(attic[1])
  BY <1>2, <1>3, FoundIs
<1>6. SubSeq(attic, 1, 0) = <<>>
  BY SubSeqEmpty
<1> QED
  BY <1>1, <1>2, <1>4, <1>5, <1>6 DEF AtticOK

(* A path under its stored spelling.                                         *)
LEMMA StoredIs ==
  ASSUME NEW p \in Seq(Names)
  PROVE  /\ p \in Seq(Names \ {Up}) <=> \A i \in 1 .. Len(p) : p[i] # Up
         /\ Found(p) = p <=> \A i \in 1 .. Len(p) : Stored(p[i]) = p[i]
<1>1. Len(p) \in Nat /\ \A i \in 1 .. Len(p) : p[i] \in Names
  BY LenProperties, ElementOfSeq
<1>2. p \in Seq(Names \ {Up}) => \A i \in 1 .. Len(p) : p[i] # Up
  BY ElementOfSeq
<1>3. (\A i \in 1 .. Len(p) : p[i] # Up) => p \in Seq(Names \ {Up})
  <2> SUFFICES ASSUME \A i \in 1 .. Len(p) : p[i] # Up PROVE p \in Seq(Names \ {Up})
    OBVIOUS
  <2>1. p \in [1 .. Len(p) -> Names]
    BY LenProperties
  <2>2. p \in [1 .. Len(p) -> Names \ {Up}]
    BY <2>1
  <2> QED
    BY <1>1, <2>2, SeqDef
<1>4. /\ Found(p) \in Seq(Names) /\ Len(Found(p)) = Len(p)
      /\ \A i \in 1 .. Len(p) : Found(p)[i] = Stored(p[i])
  BY FoundIs
<1>5. Found(p) = p => \A i \in 1 .. Len(p) : Stored(p[i]) = p[i]
  BY <1>4
<1>6. (\A i \in 1 .. Len(p) : Stored(p[i]) = p[i]) => Found(p) = p
  BY <1>4, SeqEqual
<1> QED
  BY <1>2, <1>3, <1>5, <1>6

EntryOK(disk, q) ==
  /\ q \in Seq(Names \ {Up}) /\ Found(q) = q
  /\ disk[q].to \in Seq(Names) /\ Len(disk[q].to) <= MaxLength
  /\ \A k \in 0 .. Len(q) - 1 :
       SubSeq(q, 1, k) \in DOMAIN disk /\ disk[SubSeq(q, 1, k)].kind = "dir"

LEMMA ExchangedKeeps ==
  ASSUME NEW disk, FileSystem(disk), NEW attic, AtticOK(attic), attic \notin DOMAIN disk,
         NEW p \in DOMAIN disk, p # <<>>, NEW entry,
         entry.to \in Seq(Names), Len(entry.to) <= MaxLength
  PROVE  FileSystem(Exchanged(disk, attic, p, entry))
<1> DEFINE E == Exchanged(disk, attic, p, entry)
<1>1. attic \in Seq(Names) /\ Len(attic) = 1 /\ attic[1] \in Names \ {Up}
      /\ Stored(attic[1]) = attic[1] /\ SubSeq(attic, 1, 0) = <<>>
  BY AtticIs
<1>2. /\ DOMAIN E = Staying(disk, p) \cup Away(disk, p, attic) \cup {p} /\ E[p] = entry
      /\ \A q \in Staying(disk, p) : E[q] = disk[q]
      /\ \A q \in RemovalOf(disk, p) : E[MovedTo(p, attic, q)] = disk[q]
  <2>1. IsExchange(disk, attic, p, entry, E)
    BY <1>1, ExchangedIs
  <2> QED
    BY <2>1 DEF IsExchange
<1> HIDE DEF E
<1>3. \A q \in DOMAIN disk : q \in Seq(Names) /\ EntryOK(disk, q)
  <2> TAKE q \in DOMAIN disk
  <2>1. EntryOK(disk, q)
    BY DEF FileSystem, EntryOK
  <2>2. q \in Seq(Names)
    BY <2>1, SeqMonotonic DEF EntryOK
  <2> QED
    BY <2>1, <2>2
<1>4. <<>> \in Staying(disk, p) /\ <<>> \in DOMAIN E /\ E[<<>>].kind = "dir"
  <2>1. p \in Seq(Names) /\ Len(p) \in Nat \ {0} /\ <<>> \in Seq(Names) /\ Len(<<>>) = 0
    BY <1>3, EmptySeq
  <2>2. ~Below(<<>>, p)
    <3> DEFINE none == <<>>
    <3>1. none \in Seq(Names) /\ Len(none) < Len(p) /\ p \in Seq(Names)
      BY <2>1
    <3> HIDE DEF none
    <3>2. ~Below(none, p)
      BY <3>1, NotBelow
    <3> QED
      BY <3>2 DEF none
  <2> QED
    BY <1>2, <2>2 DEF Staying, FileSystem
<1>5. ASSUME NEW q \in DOMAIN disk, NEW k \in 0 .. Len(q) - 1, ~Below(SubSeq(q, 1, k), p)
      PROVE  SubSeq(q, 1, k) \in DOMAIN E /\ E[SubSeq(q, 1, k)].kind = "dir"
  <2>1. SubSeq(q, 1, k) \in DOMAIN disk /\ disk[SubSeq(q, 1, k)].kind = "dir"
    BY <1>3 DEF EntryOK
  <2>2. SubSeq(q, 1, k) \in Staying(disk, p)
    BY <1>5, <2>1 DEF Staying
  <2> QED
    BY <1>2, <2>1, <2>2
<1>6. ASSUME NEW q \in Staying(disk, p) PROVE EntryOK(E, q)
  <2>1. q \in DOMAIN disk /\ ~Below(q, p) /\ E[q] = disk[q]
    BY <1>2 DEF Staying
  <2>2. ASSUME NEW k \in 0 .. Len(q) - 1
        PROVE  SubSeq(q, 1, k) \in DOMAIN E /\ E[SubSeq(q, 1, k)].kind = "dir"
    <3>1. q \in Seq(Names) /\ p \in Seq(Names) /\ k \in 0 .. Len(q)
      BY <1>3, <2>1, LenProperties
    <3>2. SubSeq(q, 1, k) \in Seq(Names) /\ Below(q, SubSeq(q, 1, k))
      BY <3>1, CutAbove
    <3>3. ~Below(SubSeq(q, 1, k), p)
      BY <2>1, <3>1, <3>2, BelowAll
    <3> QED
      BY <1>5, <2>1, <3>3
  <2> QED
    BY <1>3, <2>1, <2>2 DEF EntryOK
<1>7. EntryOK(E, p)
  <2>1. ASSUME NEW k \in 0 .. Len(p) - 1
        PROVE  SubSeq(p, 1, k) \in DOMAIN E /\ E[SubSeq(p, 1, k)].kind = "dir"
    <3>1. p \in Seq(Names) /\ Len(p) \in Nat /\ k \in 0 .. Len(p) /\ k < Len(p)
      BY <1>3, LenProperties
    <3>2. SubSeq(p, 1, k) \in Seq(Names) /\ Len(SubSeq(p, 1, k)) = k
      BY <3>1, CutAbove
    <3>3. ~Below(SubSeq(p, 1, k), p)
      BY <3>1, <3>2, NotBelow
    <3> QED
      BY <1>5, <3>3
  <2> QED
    BY <1>2, <1>3, <2>1 DEF EntryOK
<1>8. ASSUME NEW q \in RemovalOf(disk, p) PROVE EntryOK(E, MovedTo(p, attic, q))
  <2> DEFINE m == MovedTo(p, attic, q)
  <2>1. /\ q \in DOMAIN disk /\ q \in Seq(Names) /\ Below(q, p) /\ p \in Seq(Names)
        /\ EntryOK(disk, q) /\ E[m] = disk[q]
    BY <1>2, <1>3 DEF RemovalOf
  <2>2. /\ m \in Seq(Names) /\ Len(m) = Len(attic) + (Len(q) - Len(p))
        /\ Len(p) \in Nat /\ Len(attic) \in Nat /\ Len(q) \in Nat /\ Len(p) <= Len(q)
        /\ \A i \in 1 .. Len(attic) : m[i] = attic[i]
        /\ \A i \in 1 .. Len(q) - Len(p) : m[Len(attic) + i] = q[Len(p) + i]
    <3>1. attic \in Seq(Names) /\ p \in Seq(Names) /\ q \in Seq(Names) /\ Below(q, p)
      BY <1>1, <2>1
    <3> QED
      BY <3>1, MovedIs
  <2>3. \A k \in 0 .. Len(m) :
          \/ k < Len(attic) /\ SubSeq(m, 1, k) = SubSeq(attic, 1, k)
          \/ \E j \in 0 .. Len(q) :
               /\ k = Len(attic) + (j - Len(p)) /\ Below(SubSeq(q, 1, j), p)
               /\ SubSeq(m, 1, k) = MovedTo(p, attic, SubSeq(q, 1, j))
    BY <1>1, <2>1, MovedCut
  <2>4. EntryOK(E, m) = EntryOK(E, MovedTo(p, attic, q))
    OBVIOUS
  <2> HIDE DEF m
  <2>5. \A i \in 1 .. Len(m) : m[i] # Up /\ Stored(m[i]) = m[i]
    <3> TAKE i \in 1 .. Len(m)
    <3>1. CASE i = 1
      <4>1. m[1] = attic[1]
        BY <1>1, <2>2
      <4> QED
        BY <1>1, <3>1, <4>1
    <3>2. CASE i # 1
      <4> DEFINE j == Len(p) + (i - 1)
      <4>1. i - 1 \in 1 .. Len(q) - Len(p) /\ Len(attic) + (i - 1) = i /\ j \in 1 .. Len(q)
        BY <1>1, <2>2, <3>2
      <4>2. m[i] = q[j]
        BY <2>2, <4>1
      <4>3. q[j] # Up /\ Stored(q[j]) = q[j]
        BY <2>1, <4>1, StoredIs DEF EntryOK
      <4> QED
        BY <4>2, <4>3
    <3> QED
      BY <3>1, <3>2
  <2>6. m \in Seq(Names \ {Up}) /\ Found(m) = m
    BY <2>2, <2>5, StoredIs
  <2>7. ASSUME NEW k \in 0 .. Len(m) - 1
        PROVE  SubSeq(m, 1, k) \in DOMAIN E /\ E[SubSeq(m, 1, k)].kind = "dir"
    <3>1. Len(m) \in Nat /\ k \in 0 .. Len(m) /\ k < Len(m)
      BY <2>2
    <3>2. CASE k < Len(attic)
      <4>1. k = 0 /\ k < Len(attic)
        BY <1>1, <3>1, <3>2
      <4>2. SubSeq(m, 1, 0) = <<>>
        BY SubSeqEmpty
      <4> QED
        BY <1>4, <4>1, <4>2
    <3>3. CASE ~(k < Len(attic))
      <4>1. PICK j \in 0 .. Len(q) :
              /\ k = Len(attic) + (j - Len(p)) /\ Below(SubSeq(q, 1, j), p)
              /\ SubSeq(m, 1, k) = MovedTo(p, attic, SubSeq(q, 1, j))
        BY <2>3, <3>1, <3>3
      <4>2. j \in 0 .. Len(q) - 1
        BY <1>1, <2>2, <3>1, <4>1
      <4>3. SubSeq(q, 1, j) \in DOMAIN disk /\ disk[SubSeq(q, 1, j)].kind = "dir"
        BY <2>1, <4>2 DEF EntryOK
      <4>4. SubSeq(q, 1, j) \in RemovalOf(disk, p)
        BY <4>1, <4>3 DEF RemovalOf
      <4>5. E[SubSeq(m, 1, k)] = disk[SubSeq(q, 1, j)]
        BY <1>2, <4>1, <4>4
      <4>6. SubSeq(m, 1, k) \in DOMAIN E
        BY <1>2, <4>1, <4>4 DEF Away
      <4> QED
        BY <4>3, <4>5, <4>6
    <3> QED
      BY <3>2, <3>3
  <2>8. EntryOK(E, m)
    BY <2>1, <2>6, <2>7 DEF EntryOK
  <2> QED
    BY <2>4, <2>8
<1>9. \A q \in DOMAIN E : EntryOK(E, q)
  BY <1>2, <1>6, <1>7, <1>8 DEF Away
<1> QED
  BY <1>4, <1>9 DEF E, FileSystem, EntryOK

(* An exchange leaves every object somewhere, and adds one.                  *)
LEMMA ExchangedIds ==
  ASSUME NEW disk, FileSystem(disk), NEW attic \in Seq(Names), attic \notin DOMAIN disk,
         NEW p \in DOMAIN disk, NEW entry
  PROVE  /\ Ids(disk) \subseteq Ids(Exchanged(disk, attic, p, entry))
         /\ Ids(Exchanged(disk, attic, p, entry)) \subseteq Ids(disk) \cup {entry.id}
<1> DEFINE E == Exchanged(disk, attic, p, entry)
<1>1. IsExchange(disk, attic, p, entry, E)
  BY ExchangedIs
<1> HIDE DEF E
<1>2. ASSUME NEW q \in DOMAIN disk PROVE \E r \in DOMAIN E : E[r].id = disk[q].id
  <2>1. CASE Below(q, p)
    <3>1. q \in RemovalOf(disk, p)
      BY <2>1 DEF RemovalOf
    <3>2. MovedTo(p, attic, q) \in DOMAIN E /\ E[MovedTo(p, attic, q)] = disk[q]
      BY <1>1, <3>1 DEF IsExchange, Away
    <3> QED
      BY <3>2
  <2>2. CASE ~Below(q, p)
    <3>1. q \in Staying(disk, p)
      BY <2>2 DEF Staying
    <3>2. q \in DOMAIN E /\ E[q] = disk[q]
      BY <1>1, <3>1 DEF IsExchange
    <3> QED
      BY <3>2
  <2> QED
    BY <2>1, <2>2
<1>3. ASSUME NEW r \in DOMAIN E
      PROVE  E[r].id = entry.id \/ \E q \in DOMAIN disk : E[r].id = disk[q].id
  <2>1. CASE r = p
    BY <1>1, <2>1 DEF IsExchange
  <2>2. CASE r \in Staying(disk, p)
    BY <1>1, <2>2 DEF IsExchange, Staying
  <2>3. CASE r \in Away(disk, p, attic)
    BY <1>1, <2>3 DEF IsExchange, Away, RemovalOf
  <2> QED
    BY <1>1, <2>1, <2>2, <2>3 DEF IsExchange
<1>4. Ids(disk) \subseteq Ids(E)
  BY <1>2 DEF Ids
<1>5. Ids(E) \subseteq Ids(disk) \cup {entry.id}
  BY <1>3 DEF Ids
<1> QED
  BY <1>4, <1>5 DEF E

LEMMA ExchangedDistinct ==
  ASSUME NEW disk, FileSystem(disk), Distinct(disk),
         NEW attic \in Seq(Names), attic \notin DOMAIN disk,
         NEW p \in DOMAIN disk, NEW entry, entry.id \in Int, entry.id \notin Ids(disk)
  PROVE  Distinct(Exchanged(disk, attic, p, entry))
<1> DEFINE E == Exchanged(disk, attic, p, entry)
           OldPlace(r) == IF r \in Staying(disk, p) THEN r ELSE MovedTo(attic, p, r)
<1>1. IsExchange(disk, attic, p, entry, E)
  BY ExchangedIs
<1>2. Ids(E) \subseteq Ids(disk) \cup {entry.id}
  BY ExchangedIds
<1> HIDE DEF E
<1>3. Ids(E) \subseteq Int /\ IsFiniteSet(Ids(E))
  <2>1. Ids(disk) \subseteq Int /\ IsFiniteSet(Ids(disk))
    BY DEF Distinct
  <2>2. IsFiniteSet(Ids(disk) \cup {entry.id})
    BY <2>1, FS_AddElement
  <2> QED
    BY <1>2, <2>1, <2>2, FS_Subset
<1>4. p \in Seq(Names) /\ p \in RemovalOf(disk, p) /\ p \notin Staying(disk, p)
  BY BelowItself DEF FileSystem, RemovalOf, Staying
<1>5. ASSUME NEW q \in RemovalOf(disk, p)
      PROVE  MovedTo(attic, p, MovedTo(p, attic, q)) = q
  <2>1. q \in Seq(Names) /\ Below(q, p)
    BY DEF FileSystem, RemovalOf
  <2> QED
    BY <1>4, <2>1, MovedBack
<1>6. \A r \in DOMAIN E : r = p \/ \E q \in DOMAIN disk :
        /\ E[r] = disk[q]
        /\ \/ r = q /\ q \in Staying(disk, p)
           \/ r = MovedTo(p, attic, q) /\ q \in RemovalOf(disk, p)
  <2> TAKE r \in DOMAIN E
  <2>1. CASE r \in Staying(disk, p)
    BY <1>1, <2>1 DEF IsExchange, Staying
  <2>2. CASE r \in Away(disk, p, attic)
    BY <1>1, <2>2 DEF IsExchange, Away, RemovalOf
  <2> QED
    BY <1>1, <2>1, <2>2 DEF IsExchange
<1>7. \A q \in DOMAIN disk : disk[q].id # entry.id
  BY DEF Ids
<1>8. E[p].id = entry.id
  BY <1>1 DEF IsExchange
<1>9. ASSUME NEW r \in DOMAIN E, NEW s \in DOMAIN E, E[r].id = E[s].id, r # p, s # p
      PROVE  r = s
  <2>1. PICK q \in DOMAIN disk :
          /\ E[r] = disk[q]
          /\ \/ r = q /\ q \in Staying(disk, p)
             \/ r = MovedTo(p, attic, q) /\ q \in RemovalOf(disk, p)
    BY <1>6, <1>9
  <2>2. PICK o \in DOMAIN disk :
          /\ E[s] = disk[o]
          /\ \/ s = o /\ o \in Staying(disk, p)
             \/ s = MovedTo(p, attic, o) /\ o \in RemovalOf(disk, p)
    BY <1>6, <1>9
  <2>3. q = o
    BY <1>9, <2>1, <2>2 DEF Distinct
  <2>4. ~(q \in Staying(disk, p) /\ q \in RemovalOf(disk, p))
    BY DEF Staying, RemovalOf
  <2> QED
    BY <2>1, <2>2, <2>3, <2>4
<1>10. ASSUME NEW r \in DOMAIN E, r # p PROVE E[r].id # entry.id
  BY <1>6, <1>7, <1>10
<1>11. \A r, s \in DOMAIN E : E[r].id = E[s].id => r = s
  BY <1>8, <1>9, <1>10
<1> QED
  BY <1>3, <1>11 DEF E, Distinct

(* An attic that is still empty stays empty.                                 *)
LEMMA ExchangedSpares ==
  ASSUME NEW disk, FileSystem(disk), NEW attic, AtticOK(attic), attic \notin DOMAIN disk,
         NEW other, AtticOK(other), other \notin DOMAIN disk, other # attic,
         NEW p \in DOMAIN disk, NEW entry
  PROVE  other \notin DOMAIN Exchanged(disk, attic, p, entry)
<1> DEFINE E == Exchanged(disk, attic, p, entry)
<1>1. /\ attic \in Seq(Names) /\ other \in Seq(Names)
      /\ Len(attic) = 1 /\ Len(other) = 1
  BY AtticIs
<1>2. IsExchange(disk, attic, p, entry, E)
  BY <1>1, ExchangedIs
<1> HIDE DEF E
<1>3. other \notin Away(disk, p, attic)
  <2> SUFFICES ASSUME NEW q \in RemovalOf(disk, p), other = MovedTo(p, attic, q) PROVE FALSE
    BY DEF Away
  <2>1. Below(other, attic)
    BY <1>2 DEF IsExchange
  <2>2. other = attic
    BY <1>1, <2>1, BelowEnds
  <2> QED
    BY <2>2
<1>4. other \notin DOMAIN E
  BY <1>2, <1>3 DEF IsExchange, Staying
<1> QED
  BY <1>4 DEF E

(* A removal, with or without what lay at its top.                           *)
LEMMA RemovalKeeps ==
  ASSUME NEW disk, FileSystem(disk), NEW p \in Seq(Names), p # <<>>, NEW rest \in SUBSET {p}
  PROVE  FileSystem(Without(disk, RemovalOf(disk, p) \ rest))
<1> DEFINE E == Without(disk, RemovalOf(disk, p) \ rest)
<1>1. /\ DOMAIN E = {q \in DOMAIN disk : Below(q, p) => q \in rest}
      /\ \A q \in DOMAIN E : E[q] = disk[q]
  BY DEF Without, RemovalOf
<1> HIDE DEF E
<1>2. \A q \in DOMAIN disk : q \in Seq(Names) /\ EntryOK(disk, q)
  <2> TAKE q \in DOMAIN disk
  <2>1. EntryOK(disk, q)
    BY DEF FileSystem, EntryOK
  <2>2. q \in Seq(Names)
    BY <2>1, SeqMonotonic DEF EntryOK
  <2> QED
    BY <2>1, <2>2
<1>3. <<>> \in DOMAIN E /\ E[<<>>].kind = "dir"
  <2> DEFINE none == <<>>
  <2>1. none \in Seq(Names) /\ Len(none) < Len(p)
    BY EmptySeq
  <2>2. none \in DOMAIN disk /\ disk[none].kind = "dir"
    BY DEF FileSystem
  <2> HIDE DEF none
  <2>3. ~Below(none, p)
    BY <2>1, NotBelow
  <2>4. none \in DOMAIN E /\ E[none].kind = "dir"
    BY <1>1, <2>2, <2>3
  <2> QED
    BY <2>4 DEF none
<1>4. ASSUME NEW q \in DOMAIN E PROVE EntryOK(E, q)
  <2>1. q \in DOMAIN disk /\ q \in Seq(Names) /\ E[q] = disk[q] /\ EntryOK(disk, q)
        /\ (Below(q, p) => q = p)
    BY <1>1, <1>2
  <2>2. ASSUME NEW k \in 0 .. Len(q) - 1
        PROVE  SubSeq(q, 1, k) \in DOMAIN E /\ E[SubSeq(q, 1, k)].kind = "dir"
    <3>1. Len(q) \in Nat /\ k \in 0 .. Len(q) /\ k < Len(q)
      BY <2>1, LenProperties
    <3>2. SubSeq(q, 1, k) \in Seq(Names) /\ Len(SubSeq(q, 1, k)) = k
          /\ Below(q, SubSeq(q, 1, k))
      BY <2>1, <3>1, CutAbove
    <3>3. ~Below(SubSeq(q, 1, k), p)
      <4> SUFFICES ASSUME Below(SubSeq(q, 1, k), p) PROVE FALSE
        OBVIOUS
      <4>1. Below(q, p)
        BY <2>1, <3>2, BelowAll
      <4>2. q = p
        BY <2>1, <4>1
      <4>3. ~Below(SubSeq(q, 1, k), p)
        BY <3>1, <3>2, <4>2, NotBelow
      <4> QED
        BY <4>3
    <3>4. SubSeq(q, 1, k) \in DOMAIN disk /\ disk[SubSeq(q, 1, k)].kind = "dir"
      BY <2>1 DEF EntryOK
    <3> QED
      BY <1>1, <3>3, <3>4
  <2> QED
    BY <2>1, <2>2 DEF EntryOK
<1> QED
  BY <1>3, <1>4 DEF E, FileSystem, EntryOK

LEMMA WithoutIs ==
  ASSUME NEW disk, NEW out
  PROVE  /\ DOMAIN Without(disk, out) = DOMAIN disk \ out
         /\ \A q \in DOMAIN disk \ out : Without(disk, out)[q] = disk[q]
         /\ Ids(Without(disk, out)) \subseteq Ids(disk)
         /\ Distinct(disk) => Distinct(Without(disk, out))
<1> DEFINE E == Without(disk, out)
<1>1. DOMAIN E = DOMAIN disk \ out /\ \A q \in DOMAIN disk \ out : E[q] = disk[q]
  BY DEF Without
<1> HIDE DEF E
<1>2. Ids(E) \subseteq Ids(disk)
  BY <1>1 DEF Ids
<1>3. Distinct(disk) => Distinct(E)
  <2> SUFFICES ASSUME Distinct(disk) PROVE Distinct(E)
    OBVIOUS
  <2>1. Ids(E) \subseteq Int /\ IsFiniteSet(Ids(E))
    BY <1>2, FS_Subset DEF Distinct
  <2>2. \A r, s \in DOMAIN E : E[r].id = E[s].id => r = s
    BY <1>1 DEF Distinct
  <2> QED
    BY <2>1, <2>2 DEF Distinct
<1> QED
  BY <1>1, <1>2, <1>3 DEF E

(* The greatest of finitely many numbers.                                    *)
LEMMA GreatestExists ==
  ASSUME NEW T \in SUBSET Int, IsFiniteSet(T), T # {}
  PROVE  Max(T) \in T /\ \A k \in T : k <= Max(T)
<1> DEFINE above(x) == {y \in T : y > x}
           counts == {Cardinality(above(x)) : x \in T}
           R == OpToRel(<, Nat)
<1>1. ASSUME NEW x \in T
      PROVE  IsFiniteSet(above(x)) /\ Cardinality(above(x)) \in Nat
  <2>1. above(x) \in SUBSET T
    OBVIOUS
  <2>2. IsFiniteSet(above(x))
    BY <2>1, FS_Subset
  <2> QED
    BY <2>2, FS_CardinalityType
<1> HIDE DEF above
<1>2. counts \in SUBSET Nat /\ counts # {}
  BY <1>1
<1>3. PICK m \in counts : \A k \in counts : m <= k
  <2> HIDE DEF counts
  <2>1. IsWellFoundedOn(R, Nat)
    BY NatLessThanWellFounded
  <2>2. ASSUME NEW x \in Nat, NEW y \in Nat, <<x, y>> \notin R PROVE y <= x
    BY <2>2 DEF OpToRel
  <2> HIDE DEF R
  <2>3. PICK m \in counts : \A y \in counts : ~(<<y, m>> \in R)
    BY <1>2, <2>1, WFMin
  <2> QED
    BY <1>2, <2>2, <2>3
<1>4. PICK x \in T : m = Cardinality(above(x))
  BY <1>3
<1>5. ASSUME NEW y \in T, y > x PROVE FALSE
  <2>1. above(y) \in SUBSET above(x) /\ y \in above(x) /\ y \notin above(y)
    <3>1. ASSUME NEW z \in T, z > y PROVE z > x
      BY <1>5, <3>1
    <3>2. x \in T /\ x \in Int /\ y \in Int
      BY <1>4, <1>5
    <3>3. ~(y > y)
      BY <3>2
    <3>4. \A a, z : z \in above(a) <=> z \in T /\ z > a
      BY DEF above
    <3> QED
      BY <1>5, <3>1, <3>2, <3>3, <3>4
  <2>2. m <= Cardinality(above(y))
    BY <1>3
  <2>3. IsFiniteSet(above(x)) /\ Cardinality(above(x)) \in Nat /\ Cardinality(above(y)) \in Nat
    BY <1>1
  <2>4. Cardinality(above(y)) <= Cardinality(above(x)) /\ above(y) # above(x)
    BY <2>1, <2>3, FS_Subset
  <2>5. Cardinality(above(y)) # Cardinality(above(x))
    BY <2>1, <2>3, <2>4, FS_Subset
  <2> QED
    BY <1>4, <2>2, <2>3, <2>4, <2>5
<1>6. \A y \in T : y <= x
  BY <1>5
<1> QED
  BY <1>6 DEF Max

-----------------------------------------------------------------------------
(* The file system stays one, whatever the program and the others do.        *)

Unused == \A i \in DOMAIN Attics : i > changes => Attics[i] \notin DOMAIN fs

Files == FileSystem(fs) /\ Distinct(fs) /\ changes \in Nat /\ Unused

AtSubtree == pc \in {"baseline", "git", "look", "remove"}

Cursor ==
  /\ targets \in Seq(Planned) /\ unit \in Nat \ {0} /\ next \in Nat \ {0}
  /\ pc \notin {"idle", "done"} => unit \in DOMAIN targets
  /\ AtSubtree => /\ next \in DOMAIN target.subtrees
                  /\ Below(subtree, target.path) /\ subtree # target.path

SubtreeLooked == RootPath # {} /\ NoLinks(subtree) /\ IdInRoot(subtree) = authorized

Vetted == pc = "remove" /\ ~late => SubtreeLooked

LEMMA TargetIs ==
  ASSUME targets \in Seq(Planned), unit \in DOMAIN targets
  PROVE  /\ target.path \in Seq(Names) /\ target.id \in Int
         /\ target.subtrees \in Seq(Seq(Names))
         /\ DOMAIN target.subtrees = 1 .. Len(target.subtrees) /\ Len(target.subtrees) \in Nat
         /\ next \in DOMAIN target.subtrees => subtree \in Seq(Names)
<1>1. unit \in 1 .. Len(targets)
  BY LenProperties
<1>2. target \in Planned
  BY <1>1, ElementOfSeq DEF target
<1>3. target.path \in Seq(Names) /\ target.id \in Int /\ target.subtrees \in Seq(Seq(Names))
  BY <1>2 DEF Planned
<1>4. DOMAIN target.subtrees = 1 .. Len(target.subtrees) /\ Len(target.subtrees) \in Nat
  BY <1>3, LenProperties
<1>5. ASSUME NEW n \in DOMAIN target.subtrees PROVE target.subtrees[n] \in Seq(Names)
  BY <1>3, <1>4, ElementOfSeq
<1> QED
  BY <1>3, <1>4, <1>5 DEF subtree

LEMMA AtticsAre ==
  /\ Attics \in Seq(Seq(Names \ {Up})) /\ DOMAIN Attics = 1 .. Len(Attics)
       /\ Len(Attics) \in Nat
  /\ \A i \in DOMAIN Attics : AtticOK(Attics[i])
  /\ \A i, j \in DOMAIN Attics : j # i => Attics[j] # Attics[i]
<1>1. Attics \in Seq(Seq(Names \ {Up}))
  BY StripAssumption
<1>2. DOMAIN Attics = 1 .. Len(Attics) /\ Len(Attics) \in Nat
  BY <1>1, LenProperties
<1>3. \A i \in DOMAIN Attics : Attics[i] \in Seq(Names \ {Up})
  BY <1>1, <1>2, ElementOfSeq
<1> QED
  BY <1>1, <1>2, <1>3, StripAssumption DEF AtticOK

LEMMA FilesInit == Init => Files /\ Cursor /\ Vetted
<1> SUFFICES ASSUME Init PROVE Files /\ Cursor /\ Vetted
  OBVIOUS
<1>1. PICK case \in Initial :
        /\ fs = case.fs
        /\ targets = Targets(fs, case.request, cwd) /\ pinned = PinnedObjects(fs, case.request)
  BY DEF Init
<1>2. cwd \in Here /\ pc = "idle" /\ unit = 1 /\ next = 1 /\ changes = 0
  BY DEF Init
<1>3. /\ FileSystem(case.fs) /\ Distinct(case.fs)
      /\ \A i \in DOMAIN Attics : Attics[i] \notin DOMAIN case.fs
      /\ \A here \in Here : Targets(case.fs, case.request, here) \in Seq(Planned)
  BY StripAssumption
<1>4. Files
  BY <1>1, <1>2, <1>3 DEF Files, Unused
<1>5. Cursor
  BY <1>1, <1>2, <1>3 DEF Cursor, AtSubtree
<1> QED
  BY <1>2, <1>4, <1>5 DEF Vetted

(* A removal is at no other place than below the directory that was opened.  *)
LEMMA PlacesOfRemoval ==
  ASSUME Files, Cursor, pc = "remove", NEW p \in RootPlace
  PROVE  /\ p \in Seq(Names) /\ p # <<>>
         /\ \E base \in RootPath : Below(p, base) /\ p # base
<1>1. /\ FileSystem(fs) /\ unit \in DOMAIN targets /\ next \in DOMAIN target.subtrees
      /\ targets \in Seq(Planned) /\ Below(subtree, target.path) /\ subtree # target.path
  BY DEF Files, Cursor, AtSubtree
<1>2. subtree \in Seq(Names) /\ target.path \in Seq(Names)
  BY <1>1, TargetIs
<1>3. PICK base \in RootPath :
        /\ Below(Canonical(fs, Parent(InRoot(base, subtree))), base)
        /\ p = Found(Append(Canonical(fs, Parent(InRoot(base, subtree))), Last(subtree)))
  BY DEF RootPlace
<1> DEFINE way == Canonical(fs, Parent(InRoot(base, subtree)))
           at == Append(way, Last(subtree))
<1>4. base \in DOMAIN fs /\ base \in Seq(Names) /\ Found(base) = base
  <2>1. base \in DOMAIN fs
    BY DEF RootPath
  <2>2. base \in Seq(Names \ {Up}) /\ Found(base) = base
    BY <1>1, <2>1 DEF FileSystem
  <2> QED
    BY <2>1, <2>2, SeqMonotonic
<1>5. InRoot(base, subtree) \in Seq(Names)
  <2>1. MovedTo(target.path, base, subtree) \in Seq(Names)
    BY <1>1, <1>2, <1>4, MovedIs
  <2> QED
    BY <2>1 DEF InRoot, MovedTo
<1>6. way \in Seq(Names)
  BY <1>1, <1>5, ParentIs, CanonicalIs
<1>7. Last(subtree) \in Names
  <2>1. subtree # <<>>
    <3> SUFFICES ASSUME subtree = <<>> PROVE FALSE
      OBVIOUS
    <3>1. Len(subtree) = 0 /\ Len(target.path) \in Nat
      BY <1>2, LenProperties, EmptySeq
    <3>2. Len(subtree) <= Len(target.path)
      BY <3>1
    <3> QED
      BY <1>1, <1>2, <3>2, BelowEnds
  <2> QED
    BY <1>2, <2>1, FrontIs
<1> HIDE DEF way
<1>8. at \in Seq(Names) /\ Len(at) = Len(way) + 1 /\ \A i \in 1 .. Len(way) : at[i] = way[i]
  BY <1>6, <1>7, AppendProperties
<1>9. p = Found(at) /\ Below(way, base)
  BY <1>3 DEF way
<1> HIDE DEF at
<1>10. p \in Seq(Names) /\ Len(p) = Len(way) + 1
       /\ \A i \in 1 .. Len(at) : p[i] = Stored(at[i])
  BY <1>8, <1>9, FoundIs
<1>11. Len(base) \in Nat /\ Len(way) \in Nat /\ Len(base) <= Len(way)
       /\ \A i \in 1 .. Len(base) : way[i] = base[i]
  BY <1>4, <1>6, <1>9, BelowIs
<1>12. \A i \in 1 .. Len(base) : p[i] = base[i]
  <2> TAKE i \in 1 .. Len(base)
  <2>1. i \in 1 .. Len(way) /\ i \in 1 .. Len(at)
    BY <1>8, <1>11
  <2>2. p[i] = Stored(base[i])
    BY <1>8, <1>10, <1>11, <2>1
  <2>3. Stored(base[i]) = base[i]
    BY <1>4, StoredIs
  <2> QED
    BY <2>2, <2>3
<1>13. Len(base) < Len(p) /\ Len(base) <= Len(p)
  BY <1>10, <1>11
<1>14. Below(p, base) /\ p # base
  BY <1>4, <1>10, <1>12, <1>13, BelowIs
<1>15. p # <<>>
  BY <1>10, <1>11, EmptySeq
<1> QED
  BY <1>10, <1>14, <1>15

LEMMA FilesRemoved ==
  ASSUME Files, Cursor, Vetted, RemoveSubtree
  PROVE  Files'
<1>1. pc = "remove" /\ changes' = changes
  BY DEF RemoveSubtree
<1>2. CASE UNCHANGED fs
  BY <1>1, <1>2 DEF Files, Unused
<1>3. ASSUME NEW p \in RootPlace, NEW rest \in SUBSET {p},
             fs' = Without(fs, RemovalOf(fs, p) \ rest)
      PROVE  Files'
  <2>1. p \in Seq(Names) /\ p # <<>>
    BY <1>1, PlacesOfRemoval
  <2>2. FileSystem(fs) /\ Distinct(fs) /\ changes \in Nat /\ Unused
    BY DEF Files
  <2>3. FileSystem(fs')
    BY <1>3, <2>1, <2>2, RemovalKeeps
  <2>4. Distinct(fs')
    BY <1>3, <2>2, WithoutIs
  <2>6. DOMAIN fs' \subseteq DOMAIN fs
    BY <1>3 DEF Without
  <2>5. Unused'
    BY <1>1, <2>2, <2>6 DEF Unused
  <2> QED
    BY <1>1, <2>2, <2>3, <2>4, <2>5 DEF Files
<1>4. CASE \E p \in RootPlace : fs' = Without(fs, RemovalOf(fs, p))
  <2>1. PICK p \in RootPlace : fs' = Without(fs, RemovalOf(fs, p))
    BY <1>4
  <2>2. RemovalOf(fs, p) = RemovalOf(fs, p) \ {} /\ {} \in SUBSET {p}
    OBVIOUS
  <2> QED
    BY <1>3, <2>1, <2>2
<1>5. CASE \E p \in RootPlace : fs' = Without(fs, RemovalOf(fs, p) \ {p})
  <2>1. PICK p \in RootPlace : fs' = Without(fs, RemovalOf(fs, p) \ {p})
    BY <1>5
  <2>2. {p} \in SUBSET {p}
    OBVIOUS
  <2> QED
    BY <1>3, <2>1, <2>2
<1> QED
  BY <1>2, <1>4, <1>5 DEF RemoveSubtree

(* A fresh id is no other's.                                                 *)
LEMMA NewIdIs ==
  ASSUME FileSystem(fs), Distinct(fs)
  PROVE  NewId \in Int /\ NewId \notin Ids(fs)
<1>1. Ids(fs) \in SUBSET Int /\ IsFiniteSet(Ids(fs))
  BY DEF Distinct
<1>2. Ids(fs) # {}
  BY DEF Ids, FileSystem
<1>3. Max(Ids(fs)) \in Ids(fs) /\ \A k \in Ids(fs) : k <= Max(Ids(fs))
  BY <1>1, <1>2, GreatestExists
<1>4. Max(Ids(fs)) \in Int
  BY <1>1, <1>3
<1>5. ~(1 + Max(Ids(fs)) <= Max(Ids(fs)))
  BY <1>4
<1> QED
  BY <1>3, <1>4, <1>5 DEF NewId

LEMMA FilesExchanged ==
  ASSUME Files, NEW p \in Places, Exchange(p)
  PROVE  Files' /\ Ids(fs) \subseteq Ids(fs')
<1>1. /\ FileSystem(fs) /\ Distinct(fs) /\ changes \in Nat /\ Unused
      /\ p \in DOMAIN fs /\ changes < Len(Attics) /\ changes' = changes + 1
  BY DEF Files, Exchange, Change
<1> DEFINE attic == Attics[changes + 1]
<1>2. PICK entry : /\ entry.to \in Seq(Names) /\ Len(entry.to) <= MaxLength /\ entry.id = NewId
                   /\ fs' = Exchanged(fs, attic, p, entry)
  <2>1. CASE \E to \in Leads : PutInPlace(p, "link", to)
    <3>1. PICK to \in Leads : PutInPlace(p, "link", to)
      BY <2>1
    <3>2. to \in Seq(Names) /\ Len(to) <= MaxLength
      BY StripAssumption
    <3>3. fs' = Exchanged(fs, attic, p, [kind |-> "link", to |-> to, id |-> NewId])
      BY <3>1 DEF PutInPlace
    <3> QED
      BY <3>2, <3>3
  <2>2. CASE PutInPlace(p, "dir", <<>>)
    <3>1. <<>> \in Seq(Names) /\ Len(<<>>) <= MaxLength
      BY EmptySeq, GateAssumption
    <3>2. fs' = Exchanged(fs, attic, p, [kind |-> "dir", to |-> <<>>, id |-> NewId])
      BY <2>2 DEF PutInPlace
    <3> QED
      BY <3>1, <3>2
  <2> QED
    BY <2>1, <2>2 DEF Exchange
<1>3. changes + 1 \in DOMAIN Attics
  BY <1>1, AtticsAre
<1>4. AtticOK(attic) /\ attic \notin DOMAIN fs
  <2>1. changes + 1 > changes
    BY <1>1
  <2> QED
    BY <1>1, <1>3, <2>1, AtticsAre DEF Unused
<1>5. attic \in Seq(Names)
  BY <1>4, AtticIs
<1>6. p # <<>>
  BY StripAssumption
<1>7. \A i \in DOMAIN Attics : i > changes + 1 =>
        AtticOK(Attics[i]) /\ Attics[i] \notin DOMAIN fs /\ Attics[i] # attic
  <2> TAKE i \in DOMAIN Attics
  <2> HAVE i > changes + 1
  <2>1. i > changes /\ i # changes + 1
    BY <1>1, AtticsAre
  <2> QED
    BY <1>1, <1>3, <2>1, AtticsAre DEF Unused
<1> HIDE DEF attic
<1>8. FileSystem(fs')
  BY <1>1, <1>2, <1>4, <1>6, ExchangedKeeps
<1>9. entry.id \in Int /\ entry.id \notin Ids(fs)
  BY <1>1, <1>2, NewIdIs
<1>10. Distinct(fs')
  BY <1>1, <1>2, <1>4, <1>5, <1>9, ExchangedDistinct
<1>11. Unused'
  <2> SUFFICES ASSUME NEW i \in DOMAIN Attics, i > changes + 1
               PROVE  Attics[i] \notin DOMAIN fs'
    BY <1>1 DEF Unused
  <2>1. AtticOK(Attics[i]) /\ Attics[i] \notin DOMAIN fs /\ Attics[i] # attic
    BY <1>7
  <2> QED
    BY <1>1, <1>2, <1>4, <2>1, ExchangedSpares
<1>12. Ids(fs) \subseteq Ids(fs')
  BY <1>1, <1>2, <1>4, <1>5, ExchangedIds
<1>13. changes' \in Nat
  BY <1>1
<1> QED
  BY <1>8, <1>10, <1>11, <1>12, <1>13 DEF Files

(* Where nothing moves, a look shows the same.                               *)
LEMMA SameLook ==
  ASSUME fs' = fs, root' = root, authorized' = authorized, targets' = targets, unit' = unit,
         next' = next
  PROVE  SubtreeLooked' = SubtreeLooked
<1>1. target' = target /\ subtree' = subtree
  BY DEF target, subtree
<1>2. RootPath' = RootPath
  BY DEF RootPath
<1>3. NoLinks(subtree)' = NoLinks(subtree)
  BY <1>1, <1>2 DEF NoLinks, Components, InRoot
<1>4. IdInRoot(subtree)' = IdInRoot(subtree)
  BY <1>1, <1>2 DEF IdInRoot, InRoot
<1> QED
  BY <1>2, <1>3, <1>4 DEF SubtreeLooked

(* The steps that leave files as they are, or change them as told above.     *)
Moves == RemoveSubtree \/ \E p \in Places : Exchange(p)

LEMMA OtherSteps ==
  ASSUME Next, ~Moves
  PROVE  UNCHANGED fs
BY DEF Next, Moves, Program, StopRun, EndRun, OpenUnit, Authorize, Baseline, GitSafe, Look,
   StopUnit, Verify, VerifyOne, EndUnit, Cancel, Add, Commit, Edit, world

LEMMA FilesNext == Files /\ Cursor /\ Vetted /\ [Next]_vars => Files'
<1> SUFFICES ASSUME Files, Cursor, Vetted, [Next]_vars PROVE Files'
  OBVIOUS
<1>1. CASE RemoveSubtree
  BY <1>1, FilesRemoved
<1>2. CASE \E p \in Places : Exchange(p)
  BY <1>2, FilesExchanged
<1>3. CASE Next /\ ~Moves
  <2>1. UNCHANGED fs
    BY <1>3, OtherSteps
  <2>2. changes' \in Nat /\ changes' >= changes
    <3>1. changes' = changes \/ changes' = changes + 1
      BY <1>3 DEF Next, Moves, Program, StopRun, EndRun, OpenUnit, Authorize, Baseline,
         GitSafe, Look, StopUnit, Verify, VerifyOne, EndUnit, Cancel, Add, Commit, Edit,
         Change, world
    <3>2. changes \in Nat
      BY DEF Files
    <3> QED
      BY <3>1, <3>2
  <2>3. Unused'
    <3> SUFFICES ASSUME NEW i \in DOMAIN Attics, i > changes' PROVE Attics[i] \notin DOMAIN fs
      BY <2>1 DEF Unused
    <3>1. i > changes
      BY <2>2, AtticsAre DEF Files
    <3> QED
      BY <3>1 DEF Files, Unused
  <2> QED
    BY <2>1, <2>2, <2>3 DEF Files
<1>4. CASE UNCHANGED vars
  BY <1>4 DEF Files, Unused, vars, world
<1> QED
  BY <1>1, <1>2, <1>3, <1>4 DEF Moves

LEMMA CursorNext == Cursor /\ [Next]_vars => Cursor'
<1> SUFFICES ASSUME Cursor, [Next]_vars PROVE Cursor'
  OBVIOUS
<1>1. /\ targets \in Seq(Planned) /\ unit \in Nat \ {0} /\ next \in Nat \ {0}
      /\ pc \notin {"idle", "done"} => unit \in DOMAIN targets
      /\ AtSubtree => /\ next \in DOMAIN target.subtrees
                      /\ Below(subtree, target.path) /\ subtree # target.path
  BY DEF Cursor
<1>2. targets' = targets
  BY DEF Next, Program, StopRun, EndRun, OpenUnit, Authorize, Baseline, GitSafe, Look,
     RemoveSubtree, StopUnit, Verify, VerifyOne, EndUnit, Cancel, Exchange, Add, Commit,
     Edit, Change, given, vars
<1>3. ASSUME UNCHANGED <<unit, next>>, pc' = pc PROVE Cursor'
  BY <1>1, <1>2, <1>3 DEF Cursor, AtSubtree, target, subtree
<1>4. ASSUME pc' \in {"idle", "done"}, unit' \in Nat \ {0}, next' \in Nat \ {0} PROVE Cursor'
  BY <1>1, <1>2, <1>4 DEF Cursor, AtSubtree
<1>5. unit + 1 \in Nat \ {0} /\ next + 1 \in Nat \ {0} /\ 1 \in Nat \ {0}
  BY <1>1
<1>6. ASSUME NEW out, NEW bad, Leave(out, bad) PROVE Cursor'
  BY <1>4, <1>5, <1>6 DEF Leave
<1>7. ASSUME pc \notin {"idle", "done"}, pc' \in {"subtree", "verify"},
             unit' = unit, next' \in {next, next + 1}
      PROVE Cursor'
  BY <1>1, <1>2, <1>5, <1>7 DEF Cursor, AtSubtree
<1>8. ASSUME NEW word, AtSubtree \/ pc = "subtree", Line(word) PROVE Cursor'
  BY <1>7, <1>8 DEF Line, AtSubtree
<1>9. ASSUME AtSubtree, pc' \in {"git", "look", "remove"}, UNCHANGED <<unit, next>>
      PROVE  Cursor'
  <2>1. target' = target /\ subtree' = subtree
    BY <1>2, <1>9 DEF target, subtree
  <2> QED
    BY <1>1, <1>2, <1>9, <2>1 DEF Cursor, AtSubtree
<1>10. CASE StopRun \/ EndRun
  BY <1>1, <1>4, <1>10 DEF StopRun, EndRun
<1>11. CASE OpenUnit
  <2>1. CASE pc' = "subtree" /\ UNCHANGED <<unit, next>>
    <3>1. unit <= Len(targets) /\ Len(targets) \in Nat /\ DOMAIN targets = 1 .. Len(targets)
      BY <1>1, <1>11, LenProperties DEF OpenUnit
    <3>2. unit \in DOMAIN targets
      BY <1>1, <3>1
    <3> QED
      BY <1>1, <1>2, <2>1, <3>2 DEF Cursor, AtSubtree
  <2>2. CASE Leave({}, TRUE) \/ Leave(Range(target.subtrees), FALSE)
    BY <1>6, <2>2
  <2> QED
    BY <1>11, <2>1, <2>2 DEF OpenUnit
<1>12. CASE Authorize
  <2>1. pc = "subtree" /\ next <= Len(target.subtrees)
    BY <1>12 DEF Authorize
  <2>2. CASE Line("kept")
    BY <1>8, <2>1, <2>2
  <2>3. CASE /\ Below(subtree, target.path) /\ subtree # target.path
             /\ pc' = "baseline" /\ UNCHANGED <<unit, next>>
    <3>1. unit \in DOMAIN targets
      BY <1>1, <2>1
    <3>2. DOMAIN target.subtrees = 1 .. Len(target.subtrees) /\ Len(target.subtrees) \in Nat
      BY <1>1, <3>1, TargetIs
    <3>3. next \in DOMAIN target.subtrees
      BY <1>1, <2>1, <3>2
    <3>4. target' = target /\ subtree' = subtree
      BY <1>2, <2>3 DEF target, subtree
    <3> QED
      BY <1>1, <1>2, <2>3, <3>1, <3>3, <3>4 DEF Cursor, AtSubtree
  <2> QED
    BY <1>12, <2>2, <2>3 DEF Authorize
<1>13. CASE Baseline
  BY <1>8, <1>9, <1>13 DEF Baseline, AtSubtree
<1>14. CASE GitSafe
  BY <1>8, <1>9, <1>14 DEF GitSafe, AtSubtree
<1>15. CASE Look
  BY <1>8, <1>9, <1>15 DEF Look, AtSubtree
<1>16. CASE RemoveSubtree
  BY <1>8, <1>16 DEF RemoveSubtree, AtSubtree
<1>17. CASE StopUnit \/ EndUnit
  BY <1>6, <1>17 DEF StopUnit, EndUnit
<1>18. CASE Verify
  BY <1>7, <1>18 DEF Verify
<1>19. CASE VerifyOne
  BY <1>3, <1>6, <1>19 DEF VerifyOne, place
<1>20. CASE Cancel \/ (\E p \in Places : Exchange(p) \/ Add(p))
            \/ (\E i \in DOMAIN git : Commit(i) \/ Edit(i))
  BY <1>3, <1>20 DEF Cancel, Exchange, Add, Commit, Edit, Change, place
<1>21. CASE UNCHANGED vars
  BY <1>3, <1>21 DEF vars, place
<1> QED
  BY <1>10, <1>11, <1>12, <1>13, <1>14, <1>15, <1>16, <1>17, <1>18, <1>19, <1>20, <1>21
     DEF Next, Program

LEMMA VettedNext == Cursor /\ Vetted /\ [Next]_vars => Vetted'
<1> SUFFICES ASSUME Cursor, Vetted, [Next]_vars, pc' = "remove", ~late' PROVE SubtreeLooked'
  BY DEF Vetted
<1>1. ASSUME pc = "remove", late' = late,
             UNCHANGED <<fs, root, authorized, targets, unit, next>>
      PROVE  SubtreeLooked'
  BY <1>1, SameLook DEF Vetted
<1>2. CASE Look
  <2>1. Unchanged /\ UNCHANGED <<fs, root, authorized, targets, unit, next>>
    BY <1>2 DEF Look, Line, world, given, unitState, chosen
  <2>2. SubtreeLooked
    BY <2>1 DEF Unchanged, SubtreeLooked
  <2> QED
    BY <2>1, <2>2, SameLook
<1>3. CASE Program /\ ~Look
  BY <1>3 DEF Program, StopRun, EndRun, OpenUnit, Authorize, Baseline, GitSafe,
     RemoveSubtree, StopUnit, Verify, VerifyOne, EndUnit, Leave, Line, place
<1>4. CASE \E p \in Places : Exchange(p)
  BY <1>4 DEF Exchange
<1>5. CASE Cancel \/ (\E p \in Places : Add(p)) \/ (\E i \in DOMAIN git : Commit(i) \/ Edit(i))
  <2>1. /\ pc = "remove" /\ late' = late
        /\ UNCHANGED <<fs, root, authorized, targets, unit, next>>
    BY <1>5 DEF Cancel, Add, Commit, Edit, Change, given, place, unitState, chosen, history
  <2> QED
    BY <1>1, <2>1
<1>6. CASE UNCHANGED vars
  BY <1>1, <1>6 DEF vars, world, given, place, unitState, chosen, history
<1> QED
  BY <1>2, <1>3, <1>4, <1>5, <1>6 DEF Next

-----------------------------------------------------------------------------
(* Theorems about the gate and the removal.                                  *)

FilesInv == Files /\ Cursor /\ Vetted

(* However the others exchange directories and links, and whatever is        *)
(* removed, what is left is a file system, where an id tells one object; and *)
(* unless something moved after the last look (stripSubtreeUnchanged), what  *)
(* is about to be removed is the subtree that was authorized.                *)
THEOREM FilesStay == Spec => []FilesInv
<1>1. Init => FilesInv
  BY FilesInit DEF FilesInv
<1>2. FilesInv /\ [Next]_vars => FilesInv'
  BY FilesNext, CursorNext, VettedNext DEF FilesInv
<1> QED
  BY <1>1, <1>2, PTL DEF Spec

(* At no time of a run, and for no path whatever, does the gate (Check) pass *)
(* a removal that takes a protected location along.                          *)
THEOREM GateStaysSound == Spec => [](\A path \in Seq(Names) : Sound(fs, path))
<1>1. FilesInv => \A path \in Seq(Names) : Sound(fs, path)
  BY GateKeeps DEF FilesInv, Files
<1> QED
  BY <1>1, FilesStay, PTL

(* The same for the paths of which a run of TLC asks.                        *)
THEOREM GateSoundHolds == Spec => []GateSound
<1>1. FilesInv => GateSound
  BY GateKeeps, StripAssumption DEF FilesInv, Files, GateSound
<1> QED
  BY <1>1, FilesStay, PTL

(* What goes lay where it was removed.                                       *)
LEMMA GoneIs ==
  ASSUME FilesInv, RemoveSubtree, NEW p \in Gone
  PROVE  p \in DOMAIN fs /\ p \in Seq(Names) /\ \E q \in RootPlace : Below(p, q)
<1>1. p \in DOMAIN fs /\ fs[p].id \notin Ids(fs')
  BY DEF Gone
<1>2. fs' # fs
  BY <1>1 DEF Ids
<1>3. p \in Seq(Names)
  <2>1. p \in Seq(Names \ {Up})
    BY <1>1 DEF FilesInv, Files, FileSystem
  <2> QED
    BY <2>1, SeqMonotonic
<1>4. ASSUME NEW q \in RootPlace, NEW out \in SUBSET RemovalOf(fs, q), fs' = Without(fs, out)
      PROVE  Below(p, q)
  <2>1. DOMAIN fs' = DOMAIN fs \ out /\ \A r \in DOMAIN fs \ out : fs'[r] = fs[r]
    BY <1>4 DEF Without
  <2>2. p \in out
    BY <1>1, <2>1 DEF Ids
  <2> QED
    BY <1>4, <2>2 DEF RemovalOf
<1>5. PICK q \in RootPlace : \/ fs' = Without(fs, RemovalOf(fs, q))
                             \/ fs' = Without(fs, RemovalOf(fs, q) \ {q})
  BY <1>2 DEF RemoveSubtree
<1>6. Below(p, q)
  BY <1>4, <1>5
<1> QED
  BY <1>1, <1>3, <1>6

LEMMA GoneByRemovalOnly ==
  ASSUME FilesInv, [Next]_vars, ~RemoveSubtree
  PROVE  Gone = {}
<1>1. CASE \E p \in Places : Exchange(p)
  <2>1. Ids(fs) \subseteq Ids(fs')
    BY <1>1, FilesExchanged DEF FilesInv
  <2> QED
    BY <2>1 DEF Gone, Ids
<1>2. ASSUME fs' = fs PROVE Gone = {}
  BY <1>2 DEF Gone, Ids
<1>3. CASE Next /\ ~Moves
  BY <1>2, <1>3, OtherSteps
<1>4. CASE UNCHANGED vars
  BY <1>2, <1>4 DEF vars, world
<1> QED
  BY <1>1, <1>3, <1>4 DEF Moves

(* The directory that is open lies at one place.                             *)
LEMMA OneRoot ==
  ASSUME FilesInv, NEW a \in RootPath, NEW b \in RootPath
  PROVE  a = b
BY DEF FilesInv, Files, Distinct, RootPath

(* After a look that holds, there is one place for the removal: where the    *)
(* authorized subtree lies.                                                  *)
LEMMA PlaceLooked ==
  ASSUME FilesInv, pc = "remove", ~late, NEW p \in RootPlace
  PROVE  p \in DOMAIN fs /\ fs[p].id = authorized
<1>1. /\ FileSystem(fs) /\ unit \in DOMAIN targets /\ next \in DOMAIN target.subtrees
      /\ targets \in Seq(Planned) /\ Below(subtree, target.path) /\ subtree # target.path
  BY DEF FilesInv, Files, Cursor, AtSubtree
<1>2. subtree \in Seq(Names) /\ target.path \in Seq(Names)
  BY <1>1, TargetIs
<1>3. NoLinks(subtree) /\ IdInRoot(subtree) = authorized
  BY DEF FilesInv, Vetted, SubtreeLooked
<1>4. PICK base \in RootPath :
        p = Found(Append(Canonical(fs, Parent(InRoot(base, subtree))), Last(subtree)))
  BY DEF RootPlace
<1> DEFINE at == InRoot(base, subtree)
<1>5. base \in Seq(Names)
  <2>1. base \in Seq(Names \ {Up})
    BY <1>1 DEF FileSystem, RootPath
  <2> QED
    BY <2>1, SeqMonotonic
<1>6. /\ Len(target.path) \in Nat /\ Len(subtree) \in Nat /\ Len(base) \in Nat
      /\ Len(target.path) < Len(subtree)
  <2>1. Len(target.path) \in Nat /\ Len(subtree) \in Nat /\ Len(base) \in Nat
    BY <1>2, <1>5, LenProperties
  <2>2. ~(Len(subtree) <= Len(target.path))
    BY <1>1, <1>2, BelowEnds
  <2> QED
    BY <2>1, <2>2
<1>7. /\ at \in Seq(Names) /\ Len(at) = Len(base) + (Len(subtree) - Len(target.path))
      /\ \A i \in 1 .. Len(subtree) - Len(target.path) :
           at[Len(base) + i] = subtree[Len(target.path) + i]
  <2> DEFINE h == target.path
             s == subtree
  <2>1. at = MovedTo(h, base, s)
    BY DEF InRoot, MovedTo
  <2>2. h \in Seq(Names) /\ s \in Seq(Names) /\ Below(s, h) /\ base \in Seq(Names)
    BY <1>1, <1>2, <1>5
  <2> HIDE DEF at, h, s
  <2> DEFINE m == MovedTo(h, base, s)
  <2>3. m \in Seq(Names)
    BY <2>2, MovedIs
  <2>4. Len(m) = Len(base) + (Len(s) - Len(h))
    BY <2>2, MovedIs
  <2>5. \A i \in 1 .. Len(s) - Len(h) : m[Len(base) + i] = s[Len(h) + i]
    BY <2>2, MovedIs
  <2> HIDE DEF m
  <2>6. at = m
    BY <2>1 DEF m
  <2>7. /\ at \in Seq(Names) /\ Len(at) = Len(base) + (Len(s) - Len(h))
        /\ \A i \in 1 .. Len(s) - Len(h) : at[Len(base) + i] = s[Len(h) + i]
    BY <2>3, <2>4, <2>5, <2>6
  <2> QED
    BY <2>7 DEF h, s
<1>8. Exists(fs, at) /\ Entry(fs, at).id = authorized
  <2>1. subtree \in Components(subtree)
    <3>1. Len(subtree) \in Len(target.path) + 1 .. Len(subtree)
      BY <1>6
    <3>2. SubSeq(subtree, 1, Len(subtree)) = subtree
      BY <1>2, SubSeqFull
    <3> QED
      BY <3>1, <3>2 DEF Components
  <2>2. PICK b \in RootPath : Exists(fs, InRoot(b, subtree))
    BY <1>3, <2>1 DEF NoLinks
  <2>3. b = base
    BY <2>2, OneRoot
  <2>4. (CHOOSE a \in RootPath : TRUE) \in RootPath
    OBVIOUS
  <2>5. (CHOOSE a \in RootPath : TRUE) = base
    BY <2>4, OneRoot
  <2>6. Entry(fs, InRoot(base, subtree)).id = IdInRoot(subtree)
    BY <2>5 DEF IdInRoot
  <2> QED
    BY <1>3, <2>2, <2>3, <2>6
<1> HIDE DEF at
<1>9. at # <<>> /\ Len(at) \in Nat /\ Len(at) > 0
  <2>1. Len(at) = Len(base) + (Len(subtree) - Len(target.path))
    BY <1>7
  <2>2. Len(at) \in Nat /\ Len(at) > 0
    <3>1. \A a, b, c \in Nat : b < c => a + (c - b) \in Nat /\ a + (c - b) > 0
      OBVIOUS
    <3>2. Len(at) \in Nat /\ Len(base) + (Len(subtree) - Len(target.path)) > 0
      BY <1>6, <1>7, <3>1, LenProperties
    <3> QED
      BY <2>1, <3>2
  <2>3. at = <<>> => Len(at) = 0
    OBVIOUS
  <2> QED
    BY <2>2, <2>3
<1>10. Last(at) = Last(subtree)
  <2>1. Len(subtree) - Len(target.path) \in 1 .. Len(subtree) - Len(target.path)
    BY <1>6
  <2>2. at[Len(base) + (Len(subtree) - Len(target.path))]
          = subtree[Len(target.path) + (Len(subtree) - Len(target.path))]
    BY <1>7, <2>1
  <2>3. Len(target.path) + (Len(subtree) - Len(target.path)) = Len(subtree)
    BY <1>6
  <2> QED
    BY <1>7, <2>2, <2>3 DEF Last
<1>11. Canonical(fs, Parent(at)) = Parent(at)
  <2> DEFINE k == Len(at) - 1
  <2>1. k \in 0 .. Len(at) /\ k < Len(at)
    BY <1>9
  <2>2. Parent(at) = SubSeq(at, 1, k) /\ Parent(at) \in Seq(Names)
    BY <1>7, <1>9, ParentIs
  <2> HIDE DEF k
  <2>3. Exists(fs, SubSeq(at, 1, k)) /\ Entry(fs, SubSeq(at, 1, k)).kind = "dir"
    BY <1>1, <1>7, <1>8, <2>1, Within
  <2>4. Exists(fs, Parent(at)) /\ Entry(fs, Parent(at)).kind # "link"
    BY <2>2, <2>3
  <2> QED
    BY <1>1, <2>2, <2>4, Direct
<1>12. Append(Parent(at), Last(at)) = at
  BY <1>7, <1>9, FrontIs DEF Parent
<1>13. p = Found(at)
  BY <1>4, <1>10, <1>11, <1>12 DEF at
<1> QED
  BY <1>8, <1>13 DEF Exists, Entry

(* stripWorktreeUnit: whatever a run removes lay within the directory it had *)
(* opened, wherever that went since; and unless something moved after the    *)
(* last look, within the very subtree that was authorized.                   *)
THEOREM RemovalsStayInside == Spec => [][StaysInUnit /\ IsAuthorized]_vars
<1>1. ASSUME FilesInv, [Next]_vars PROVE StaysInUnit /\ IsAuthorized
  <2>1. CASE ~RemoveSubtree
    <3>1. Gone = {}
      BY <1>1, <2>1, GoneByRemovalOnly
    <3> QED
      BY <3>1 DEF StaysInUnit, IsAuthorized
  <2>2. CASE RemoveSubtree
    <3>1. pc = "remove" /\ Files /\ Cursor
      BY <1>1, <2>2 DEF RemoveSubtree, FilesInv
    <3>2. ASSUME NEW p \in Gone
          PROVE  /\ \E base \in RootPath : Below(p, base) /\ p # base
                 /\ ~late => \E q \in DOMAIN fs : fs[q].id = authorized /\ Below(p, q)
      <4>1. PICK q \in RootPlace : Below(p, q)
        BY <1>1, <2>2, <3>2, GoneIs
      <4>2. p \in Seq(Names)
        BY <1>1, <2>2, <3>2, GoneIs
      <4>3. q \in Seq(Names) /\ \E base \in RootPath : Below(q, base) /\ q # base
        BY <3>1, <4>1, PlacesOfRemoval
      <4>4. PICK base \in RootPath : Below(q, base) /\ q # base
        BY <4>3
      <4>5. base \in Seq(Names)
        <5>1. base \in Seq(Names \ {Up})
          BY <1>1 DEF FilesInv, Files, FileSystem, RootPath
        <5> QED
          BY <5>1, SeqMonotonic
      <4>6. Below(p, base)
        BY <4>1, <4>2, <4>3, <4>4, <4>5, BelowAll
      <4>7. p # base
        <5> SUFFICES ASSUME p = base PROVE FALSE
          OBVIOUS
        <5>1. Len(base) <= Len(q) /\ Len(q) <= Len(base) /\ Len(q) \in Nat /\ Len(base) \in Nat
          BY <4>1, <4>3, <4>4, <4>5, BelowIs
        <5>2. q = base
          BY <4>3, <4>4, <4>5, <5>1, BelowEnds
        <5> QED
          BY <4>4, <5>2
      <4>8. ~late => q \in DOMAIN fs /\ fs[q].id = authorized
        BY <1>1, <3>1, <4>1, PlaceLooked
      <4> QED
        BY <4>1, <4>6, <4>7, <4>8
    <3>3. StaysInUnit
      BY <3>2 DEF StaysInUnit
    <3>4. IsAuthorized
      <4> SUFFICES ASSUME ~late, Gone # {}
                   PROVE  \E q \in DOMAIN fs : fs[q].id = authorized
                          /\ \A p \in Gone : Below(p, q)
        BY DEF IsAuthorized
      <4>1. PICK o \in Gone : TRUE
        OBVIOUS
      <4>2. PICK q \in DOMAIN fs : fs[q].id = authorized /\ Below(o, q)
        BY <3>2, <4>1
      <4>3. ASSUME NEW p \in Gone PROVE Below(p, q)
        <5>1. PICK r \in DOMAIN fs : fs[r].id = authorized /\ Below(p, r)
          BY <3>2
        <5>2. r = q
          BY <1>1, <4>2, <5>1 DEF FilesInv, Files, Distinct
        <5> QED
          BY <5>1, <5>2
      <4> QED
        BY <4>2, <4>3
    <3> QED
      BY <3>3, <3>4
  <2> QED
    BY <2>1, <2>2
<1> QED
  BY <1>1, FilesStay, PTL DEF Spec

-----------------------------------------------------------------------------
(* What the last look at a checkout finds.                                   *)

Heads ==
  /\ \A i \in DOMAIN git : git[i].head[2] \in Nat /\ git[i].head = <<i, git[i].head[2]>>
  /\ moved \subseteq DOMAIN baseline
  /\ \A c \in DOMAIN baseline : \E i \in DOMAIN git, n \in Nat :
       /\ baseline[c].head = <<i, n>> /\ n <= git[i].head[2]
       /\ c \in moved => n < git[i].head[2]

Accounted ==
  /\ DOMAIN error = DOMAIN targets
  /\ pc = "idle" => stripped = {}
  /\ pc # "verify" => stripped \subseteq mutated
  /\ pc = "verify" => stripped \cap moved \subseteq mutated

LEMMA HeadsInit == Init => Heads /\ Accounted
<1> SUFFICES ASSUME Init PROVE Heads /\ Accounted
  OBVIOUS
<1>1. \A i \in DOMAIN git : git[i].head = <<i, 1>>
  BY DEF Init
<1>2. baseline = <<>> /\ moved = {} /\ stripped = {} /\ pc = "idle"
      /\ DOMAIN error = DOMAIN targets
  BY DEF Init
<1>3. DOMAIN baseline = {}
  BY <1>2
<1> QED
  BY <1>1, <1>2, <1>3 DEF Heads, Accounted

(* Where Git answers, its answer names the head of the directory that lies   *)
(* there now.                                                                *)
LEMMA EvidenceIs ==
  ASSUME Heads, NEW c, Answers(c), NEW status
  PROVE  \E i \in DOMAIN git : Evidence(c, status).head = <<i, git[i].head[2]>>
         /\ git[i].head[2] \in Nat
BY DEF Heads, Answers, Evidence

LEMMA HeadsNext == Heads /\ [Next]_vars => Heads'
<1> SUFFICES ASSUME Heads, [Next]_vars PROVE Heads'
  OBVIOUS
<1>1. ASSUME UNCHANGED <<git, baseline, moved>> PROVE Heads'
  BY <1>1 DEF Heads
<1>2. ASSUME NEW out, NEW bad, Leave(out, bad), git' = git PROVE Heads'
  <2>1. baseline' = <<>> /\ DOMAIN baseline' = {} /\ moved' = {}
    BY <1>2 DEF Leave
  <2> QED
    BY <1>2, <2>1 DEF Heads
<1>3. CASE Baseline
  <2>1. git' = git /\ moved' = moved
    BY <1>3 DEF Baseline, world, history
  <2>2. CASE UNCHANGED baseline
    BY <1>1, <2>1, <2>2
  <2>3. CASE /\ checkout \in DOMAIN baseline \/ Answers(checkout)
             /\ \E status \in BOOLEAN :
                  baseline' = [c \in DOMAIN baseline \cup {checkout} |->
                                 IF c \in DOMAIN baseline THEN baseline[c] ELSE Evidence(c, status)]
    <3>1. PICK status \in BOOLEAN :
            baseline' = [c \in DOMAIN baseline \cup {checkout} |->
                           IF c \in DOMAIN baseline THEN baseline[c] ELSE Evidence(c, status)]
      BY <2>3
    <3>2. DOMAIN baseline' = DOMAIN baseline \cup {checkout}
          /\ \A c \in DOMAIN baseline : baseline'[c] = baseline[c]
      BY <3>1
    <3>3. checkout \notin DOMAIN baseline => baseline'[checkout] = Evidence(checkout, status)
      BY <3>1
    <3>4. ASSUME NEW c \in DOMAIN baseline'
          PROVE  \E i \in DOMAIN git, n \in Nat :
                   /\ baseline'[c].head = <<i, n>> /\ n <= git[i].head[2]
                   /\ c \in moved => n < git[i].head[2]
      <4>1. CASE c \in DOMAIN baseline
        BY <3>2, <4>1 DEF Heads
      <4>2. CASE c \notin DOMAIN baseline
        <5>1. c = checkout /\ Answers(checkout) /\ c \notin moved
          BY <2>3, <3>2, <3>4, <4>2 DEF Heads
        <5>2. PICK i \in DOMAIN git :
                Evidence(checkout, status).head = <<i, git[i].head[2]>>
                /\ git[i].head[2] \in Nat
          BY <5>1, EvidenceIs
        <5>3. baseline'[c].head = <<i, git[i].head[2]>>
          BY <3>3, <4>2, <5>1, <5>2
        <5>4. git[i].head[2] <= git[i].head[2]
          BY <5>2
        <5> QED
          BY <5>1, <5>2, <5>3, <5>4
      <4> QED
        BY <4>1, <4>2
    <3> QED
      BY <2>1, <3>2, <3>4 DEF Heads
  <2> QED
    BY <1>3, <2>2, <2>3 DEF Baseline
<1>4. CASE OpenUnit \/ StopUnit \/ VerifyOne \/ EndUnit
  <2>1. git' = git
    BY <1>4 DEF OpenUnit, StopUnit, VerifyOne, EndUnit, world
  <2>2. (\E out, bad : Leave(out, bad)) \/ UNCHANGED <<baseline, moved>>
    BY <1>4 DEF OpenUnit, StopUnit, VerifyOne, EndUnit, history
  <2> QED
    BY <1>1, <1>2, <2>1, <2>2
<1>5. CASE StopRun \/ EndRun \/ Authorize \/ GitSafe \/ Look \/ RemoveSubtree \/ Verify
  BY <1>1, <1>5 DEF StopRun, EndRun, Authorize, GitSafe, Look, RemoveSubtree, Verify, Line,
     world, unitState, history
<1>6. ASSUME NEW i \in DOMAIN git, Commit(i) PROVE Heads'
  <2>1. PICK kept \in BOOLEAN :
          git' = [git EXCEPT ![i] =
                    [head |-> <<i, @.head[2] + 1>>, kept |-> kept, dirty |-> FALSE]]
    BY <1>6 DEF Commit
  <2>2. baseline' = baseline
    BY <1>6 DEF Commit, Change, unitState
  <2> DEFINE n == git[i].head[2]
  <2>3. n \in Nat /\ n + 1 \in Nat
    BY DEF Heads
  <2>4. DOMAIN git' = DOMAIN git /\ git'[i].head = <<i, n + 1>>
    BY <2>1
  <2>5. \A j \in DOMAIN git : j # i => git'[j] = git[j]
    BY <2>1
  <2> HIDE DEF n
  <2>6. \A j \in DOMAIN git' : git'[j].head[2] \in Nat /\ git'[j].head = <<j, git'[j].head[2]>>
    BY <2>3, <2>4, <2>5 DEF Heads
  <2>7. moved' \subseteq moved \cup {c \in DOMAIN baseline : baseline[c].head[1] = i}
    BY <1>6 DEF Commit
  <2>8. ASSUME NEW c \in DOMAIN baseline
        PROVE  \E j \in DOMAIN git', m \in Nat :
                 /\ baseline[c].head = <<j, m>> /\ m <= git'[j].head[2]
                 /\ c \in moved' => m < git'[j].head[2]
    <3>1. PICK j \in DOMAIN git, m \in Nat :
            /\ baseline[c].head = <<j, m>> /\ m <= git[j].head[2]
            /\ c \in moved => m < git[j].head[2]
      BY DEF Heads
    <3>2. CASE j = i
      <4>1. m <= n
        BY <3>1, <3>2 DEF n
      <4>2. m < n + 1 /\ m <= n + 1
        BY <2>3, <4>1
      <4>3. git'[j].head[2] = n + 1
        BY <2>4, <3>2
      <4> QED
        BY <2>4, <3>1, <4>2, <4>3
    <3>3. CASE j # i
      <4>1. git'[j] = git[j]
        BY <2>5, <3>3
      <4>2. c \in moved' => c \in moved
        BY <2>7, <3>1, <3>3
      <4> QED
        BY <2>4, <3>1, <4>1, <4>2
    <3> QED
      BY <3>2, <3>3
  <2>9. moved' \subseteq DOMAIN baseline
    BY <2>7 DEF Heads
  <2> QED
    BY <2>2, <2>6, <2>8, <2>9 DEF Heads
<1>7. ASSUME NEW i \in DOMAIN git, Edit(i) PROVE Heads'
  <2>1. git' = [git EXCEPT ![i].dirty = TRUE] /\ baseline' = baseline /\ moved' = moved
    BY <1>7 DEF Edit, Change, unitState
  <2>2. DOMAIN git' = DOMAIN git /\ \A j \in DOMAIN git : git'[j].head = git[j].head
    BY <2>1
  <2> QED
    BY <2>1, <2>2 DEF Heads
<1>8. CASE Cancel \/ (\E p \in Places : Exchange(p) \/ Add(p)) \/ UNCHANGED vars
  BY <1>1, <1>8 DEF Cancel, Exchange, Add, Change, vars, world, unitState, history
<1> QED
  BY <1>3, <1>4, <1>5, <1>6, <1>7, <1>8 DEF Next, Program

(* A checkout that moved is damaged at the last look.                        *)
LEMMA MovedIsDamaged ==
  ASSUME Heads, NEW c \in moved, Answers(c), NEW status
  PROVE  Damaged(c, Evidence(c, status))
<1>1. PICK i \in DOMAIN git : Evidence(c, status).head = <<i, git[i].head[2]>>
               /\ git[i].head[2] \in Nat
  BY EvidenceIs
<1>2. PICK j \in DOMAIN git, n \in Nat : baseline[c].head = <<j, n>> /\ n < git[j].head[2]
  BY DEF Heads
<1>3. Evidence(c, status).head # baseline[c].head
  <2> SUFFICES ASSUME Evidence(c, status).head = baseline[c].head PROVE FALSE
    OBVIOUS
  <2> DEFINE m == git[i].head[2]
  <2>3. <<i, m>> = <<j, n>>
    BY <1>1, <1>2
  <2> HIDE DEF m
  <2>4. i = j /\ n = m
    BY <2>3
  <2>1. i = j /\ n = git[i].head[2]
    BY <2>4 DEF m
  <2>2. n < n
    BY <1>2, <2>1
  <2> QED
    BY <2>2
<1> QED
  BY <1>3 DEF Damaged

LEMMA AccountedNext == Heads /\ Cursor /\ Accounted /\ [Next]_vars => Accounted'
<1> SUFFICES ASSUME Heads, Cursor, Accounted, [Next]_vars PROVE Accounted'
  OBVIOUS
<1>1. targets' = targets
  BY DEF Next, Program, StopRun, EndRun, OpenUnit, Authorize, Baseline, GitSafe, Look,
     RemoveSubtree, StopUnit, Verify, VerifyOne, EndUnit, Cancel, Exchange, Add, Commit,
     Edit, Change, given, vars
<1>2. DOMAIN error' = DOMAIN error
  BY DEF Next, Program, StopRun, EndRun, OpenUnit, Authorize, Baseline, GitSafe, Look,
     RemoveSubtree, StopUnit, Verify, VerifyOne, EndUnit, Cancel, Exchange, Add, Commit,
     Edit, Change, Leave, outcome, vars
<1>3. ASSUME NEW out, NEW bad, Leave(out, bad) PROVE Accounted'
  BY <1>1, <1>2, <1>3 DEF Accounted, Leave
<1>4. ASSUME pc # "verify", pc' \notin {"idle", "verify"}, UNCHANGED <<mutated, stripped>>
      PROVE  Accounted'
  BY <1>1, <1>2, <1>4 DEF Accounted
<1>5. ASSUME UNCHANGED <<pc, mutated, stripped>>, pc = "verify" => moved' = moved
      PROVE  Accounted'
  BY <1>1, <1>2, <1>5 DEF Accounted
<1>6. CASE StopRun \/ EndRun \/ Authorize \/ Baseline \/ GitSafe \/ Look
  <2>1. pc # "verify" /\ pc' \notin {"idle", "verify"} /\ UNCHANGED <<mutated, stripped>>
    BY <1>6 DEF StopRun, EndRun, Authorize, Baseline, GitSafe, Look, Line, unitState, history
  <2> QED
    BY <1>4, <2>1
<1>7. CASE OpenUnit
  <2>1. CASE pc' = "subtree" /\ UNCHANGED <<mutated, stripped>>
    BY <1>4, <1>7, <2>1 DEF OpenUnit
  <2>2. CASE Leave({}, TRUE) \/ Leave(Range(target.subtrees), FALSE)
    BY <1>3, <2>2
  <2> QED
    BY <1>7, <2>1, <2>2 DEF OpenUnit, history
<1>8. CASE RemoveSubtree
  <2>1. pc = "remove" /\ pc' = "subtree" /\ stripped \subseteq mutated
    BY <1>8 DEF RemoveSubtree, Line, Accounted
  <2>2. \/ UNCHANGED <<mutated, stripped>>
        \/ mutated' = mutated \cup {checkout} /\ stripped' = stripped \cup {checkout}
    BY <1>8 DEF RemoveSubtree
  <2>3. stripped' \subseteq mutated'
    BY <2>1, <2>2
  <2> QED
    BY <1>1, <1>2, <2>1, <2>3 DEF Accounted
<1>9. CASE StopUnit \/ EndUnit
  BY <1>3, <1>9 DEF StopUnit, EndUnit
<1>10. CASE Verify
  BY <1>1, <1>2, <1>10 DEF Verify, Accounted, unitState, history
<1>11. CASE VerifyOne
  <2>1. PICK c \in mutated :
          \/ Leave({}, TRUE)
          \/ /\ Answers(c)
             /\ \E status \in BOOLEAN :
                  /\ ~Damaged(c, Evidence(c, status)) /\ mutated' = mutated \ {c}
                  /\ UNCHANGED <<place, moved, stripped>>
    BY <1>11 DEF VerifyOne
  <2>2. CASE Leave({}, TRUE)
    BY <1>3, <2>2
  <2>3. CASE /\ Answers(c)
             /\ \E status \in BOOLEAN :
                  /\ ~Damaged(c, Evidence(c, status)) /\ mutated' = mutated \ {c}
                  /\ UNCHANGED <<place, moved, stripped>>
    <3>1. c \notin moved
      BY <2>3, MovedIsDamaged
    <3>2. pc = "verify" /\ pc' = "verify" /\ stripped \cap moved \subseteq mutated
      BY <1>11, <2>3 DEF VerifyOne, place, Accounted
    <3>3. stripped' \cap moved' \subseteq mutated'
      BY <2>3, <3>1, <3>2
    <3> QED
      BY <1>1, <1>2, <3>2, <3>3 DEF Accounted
  <2> QED
    BY <2>1, <2>2, <2>3
<1>12. CASE Cancel \/ (\E p \in Places : Exchange(p) \/ Add(p))
            \/ (\E i \in DOMAIN git : Commit(i) \/ Edit(i))
            \/ UNCHANGED vars
  <2>1. UNCHANGED <<pc, mutated, stripped>> /\ (pc = "verify" => moved' = moved)
    BY <1>12 DEF Cancel, Exchange, Add, Commit, Edit, Change, place, unitState, history, vars
  <2> QED
    BY <1>5, <2>1
<1> QED
  BY <1>6, <1>7, <1>8, <1>9, <1>10, <1>11, <1>12 DEF Next, Program

HeadsInv == Cursor /\ Heads /\ Accounted

(* A unit's baseline of a checkout is never ahead of its HEAD; and until the *)
(* last look at it, each checkout that something was stripped from is among  *)
(* those that are looked at.                                                 *)
THEOREM CheckoutsAreAccounted == Spec => []HeadsInv
<1>1. Init => HeadsInv
  BY FilesInit, HeadsInit DEF HeadsInv
<1>2. HeadsInv /\ [Next]_vars => HeadsInv'
  BY CursorNext, HeadsNext, AccountedNext DEF HeadsInv
<1> QED
  BY <1>1, <1>2, PTL DEF Spec

(* stripWorktreeUnit: a unit that ends without an error left no checkout     *)
(* behind that something was stripped from and whose HEAD moved between its  *)
(* baseline and the last look.                                               *)
THEOREM UnitsAreIntactOrReported == Spec => IntactOrReported
<1>1. ASSUME HeadsInv, [Next]_vars, unit' = unit + 1, ~error'[unit]
      PROVE  stripped \cap moved = {}
  <2>1. unit' # unit
    BY <1>1 DEF HeadsInv, Cursor
  <2>2. ASSUME NEW out, Leave(out, TRUE), pc \in {"subtree", "verify"} PROVE FALSE
    <3>1. unit \in DOMAIN error
      BY <1>1, <2>2 DEF HeadsInv, Cursor, Accounted, Leave
    <3> QED
      BY <1>1, <2>2, <3>1 DEF Leave
  <2>3. CASE OpenUnit
    BY <1>1, <2>3 DEF OpenUnit, HeadsInv, Accounted
  <2>4. CASE StopUnit
    BY <2>2, <2>4 DEF StopUnit
  <2>5. CASE VerifyOne
    BY <2>1, <2>2, <2>5 DEF VerifyOne, place
  <2>6. CASE EndUnit
    BY <1>1, <2>6 DEF EndUnit, HeadsInv, Accounted
  <2>7. ~(OpenUnit \/ StopUnit \/ VerifyOne \/ EndUnit) => unit' = unit
    BY <1>1 DEF Next, Program, StopRun, EndRun, Authorize, Baseline, GitSafe, Look,
       RemoveSubtree, Line, Verify, Cancel, Exchange, Add, Commit, Edit, Change, place, vars
  <2> QED
    BY <2>1, <2>3, <2>4, <2>5, <2>6, <2>7
<1> QED
  BY <1>1, CheckoutsAreAccounted, PTL DEF Spec, IntactOrReported
=============================================================================
