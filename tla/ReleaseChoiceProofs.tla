------------------------ MODULE ReleaseChoiceProofs ------------------------
(***************************************************************************)
(* Proofs about ReleaseChoice, for any identifiers, versions and listings: *)
(* the order of versions is a strict total order, it is the one of         *)
(* Semantic Versioning where the two read identifiers alike, and the loop  *)
(* over a listing ends with a release that none is newer than.             *)
(***************************************************************************)
EXTENDS ReleaseChoice, SequenceTheorems, WellFoundedInduction,
        TLAPS

-----------------------------------------------------------------------------
(* Identifiers *)

\* Precedes is a strict total order of identifiers.
LEMMA PrecedesOrders ==
  ASSUME NEW x \in Identifiers, NEW y \in Identifiers, NEW z \in Identifiers
  PROVE  /\ ~Precedes(x, x)
         /\ Precedes(x, y) /\ Precedes(y, z) => Precedes(x, z)
         /\ x # y => Precedes(x, y) \/ Precedes(y, x)
<1>1. /\ x.text \in Nat /\ y.text \in Nat /\ z.text \in Nat
      /\ x.number # NaN => x.number \in Int
      /\ y.number # NaN => y.number \in Int
      /\ z.number # NaN => z.number \in Int
  BY IdentifiersAssumption
<1>2. x # y => x.text # y.text
  BY IdentifiersAssumption
<1> QED BY <1>1, <1>2 DEF Precedes

-----------------------------------------------------------------------------
(* Sequences of identifiers *)

\* Two sequences differ at a first place, or one begins with the other.
LEMMA FirstDifference ==
  ASSUME NEW S, NEW s \in Seq(S), NEW t \in Seq(S), s # t
  PROVE  \/ \E i \in DOMAIN s \cap DOMAIN t : DiffersFirst(s, t, i)
         \/ PrefixOf(s, t) \/ PrefixOf(t, s)
<1> DEFINE T == {i \in DOMAIN s \cap DOMAIN t : s[i] # t[i]}
<1>0. /\ Len(s) \in Nat /\ DOMAIN s = 1..Len(s)
      /\ Len(t) \in Nat /\ DOMAIN t = 1..Len(t)
  OBVIOUS
<1>1. CASE T = {}
  <2>1. Len(s) # Len(t)
    BY <1>0, <1>1, SeqEqual
  <2>2. \A i \in DOMAIN s \cap DOMAIN t : s[i] = t[i]
    BY <1>1
  <2>3. CASE Len(s) < Len(t)
    <3>1. \A i \in DOMAIN s : i \in DOMAIN t
      BY <1>0, <2>3
    <3> QED BY <2>2, <2>3, <3>1 DEF PrefixOf
  <2>4. CASE Len(t) < Len(s)
    <3>1. \A i \in DOMAIN t : i \in DOMAIN s
      BY <1>0, <2>4
    <3> QED BY <2>2, <2>4, <3>1 DEF PrefixOf
  <2>5. Len(s) < Len(t) \/ Len(t) < Len(s)
    <3>1. \A m, n \in Nat : m = n \/ m < n \/ n < m
      OBVIOUS
    <3> QED BY <1>0, <2>1, <3>1
  <2> QED BY <2>3, <2>4, <2>5
<1>2. CASE T # {}
  <2>1. T \subseteq Nat
    BY <1>0
  <2>2. PICK i \in T : \A j \in T : ~(<<j, i>> \in OpToRel(<, Nat))
    BY <1>2, <2>1, NatLessThanWellFounded, WFMin
  <2>3. \A j \in T : ~(j < i)
    BY <2>1, <2>2 DEF OpToRel
  <2>4. ASSUME NEW j \in 1..(i - 1) PROVE s[j] = t[j]
    <3>1. i \in 1..Len(s) /\ i \in 1..Len(t)
      BY <1>0, <2>2
    <3>2. j \in 1..Len(s) /\ j \in 1..Len(t) /\ j < i
      BY <1>0, <3>1
    <3> QED BY <1>0, <2>3, <3>2
  <2>5. DiffersFirst(s, t, i)
    BY <2>2, <2>4 DEF DiffersFirst
  <2> QED BY <2>2, <2>5
<1> QED BY <1>1, <1>2

\* The order of pre-releases that are not empty.
Before(s, t) ==
  \/ \E i \in DOMAIN s : DiffersFirst(s, t, i) /\ Precedes(s[i], t[i])
  \/ PrefixOf(s, t)

Pres == Seq(Identifiers)

\* Before is a strict total order of sequences.
LEMMA BeforeOrders ==
  ASSUME NEW s \in Pres, NEW t \in Pres, NEW u \in Pres
  PROVE  /\ ~Before(s, s)
         /\ Before(s, t) /\ Before(t, u) => Before(s, u)
         /\ s # t => Before(s, t) \/ Before(t, s)
<1>0. /\ Len(s) \in Nat /\ DOMAIN s = 1..Len(s)
      /\ Len(t) \in Nat /\ DOMAIN t = 1..Len(t)
      /\ Len(u) \in Nat /\ DOMAIN u = 1..Len(u)
      /\ \A i \in DOMAIN s : s[i] \in Identifiers
      /\ \A i \in DOMAIN t : t[i] \in Identifiers
      /\ \A i \in DOMAIN u : u[i] \in Identifiers
  BY DEF Pres
<1>1. ~Before(s, s)
  BY <1>0 DEF Before, DiffersFirst, PrefixOf
<1>2. ASSUME Before(s, t), Before(t, u) PROVE Before(s, u)
  <2>1. ASSUME NEW i \in DOMAIN s, DiffersFirst(s, t, i), Precedes(s[i], t[i]),
               NEW j \in DOMAIN t, DiffersFirst(t, u, j), Precedes(t[j], u[j])
        PROVE  Before(s, u)
    <3>1. CASE i < j
      <4>1. DiffersFirst(s, u, i) /\ u[i] = t[i]
        BY <1>0, <2>1, <3>1 DEF DiffersFirst
      <4> QED BY <2>1, <4>1 DEF Before
    <3>2. CASE j < i
      <4>1. DiffersFirst(s, u, j) /\ s[j] = t[j]
        BY <1>0, <2>1, <3>2 DEF DiffersFirst
      <4> QED BY <1>0, <2>1, <3>2, <4>1 DEF Before, DiffersFirst
    <3>3. CASE i = j
      <4>1. /\ s[i] \in Identifiers /\ t[i] \in Identifiers
            /\ u[i] \in Identifiers /\ i \in DOMAIN u
        BY <1>0, <2>1, <3>3 DEF DiffersFirst
      <4>2. Precedes(s[i], u[i])
        BY <2>1, <3>3, <4>1, PrecedesOrders
      <4>3. s[i] # u[i]
        BY <4>1, <4>2, PrecedesOrders
      <4>4. DiffersFirst(s, u, i)
        BY <1>0, <2>1, <3>3, <4>1, <4>3 DEF DiffersFirst
      <4> QED BY <4>2, <4>4 DEF Before
    <3> QED BY <1>0, <2>1, <3>1, <3>2, <3>3
  <2>2. ASSUME NEW i \in DOMAIN s, DiffersFirst(s, t, i), Precedes(s[i], t[i]),
               PrefixOf(t, u)
        PROVE  Before(s, u)
    <3>1. DiffersFirst(s, u, i) /\ u[i] = t[i]
      BY <1>0, <2>2 DEF DiffersFirst, PrefixOf
    <3> QED BY <2>2, <3>1 DEF Before
  <2>3. ASSUME PrefixOf(s, t),
               NEW j \in DOMAIN t, DiffersFirst(t, u, j), Precedes(t[j], u[j])
        PROVE  Before(s, u)
    <3>1. CASE j \in DOMAIN s
      <4>1. DiffersFirst(s, u, j) /\ s[j] = t[j]
        BY <1>0, <2>3, <3>1 DEF DiffersFirst, PrefixOf
      <4> QED BY <2>3, <3>1, <4>1 DEF Before
    <3>2. CASE j \notin DOMAIN s
      BY <1>0, <2>3, <3>2 DEF Before, DiffersFirst, PrefixOf
    <3> QED BY <3>1, <3>2
  <2>4. ASSUME PrefixOf(s, t), PrefixOf(t, u)
        PROVE  Before(s, u)
    BY <1>0, <2>4 DEF Before, PrefixOf
  <2> QED BY <1>2, <2>1, <2>2, <2>3, <2>4 DEF Before
<1>3. ASSUME s # t PROVE Before(s, t) \/ Before(t, s)
  <2>1. CASE PrefixOf(s, t) \/ PrefixOf(t, s)
    BY <2>1 DEF Before
  <2>2. ASSUME NEW i \in DOMAIN s \cap DOMAIN t, DiffersFirst(s, t, i)
        PROVE  Before(s, t) \/ Before(t, s)
    <3>1. DiffersFirst(t, s, i)
      BY <2>2 DEF DiffersFirst
    <3>2. Precedes(s[i], t[i]) \/ Precedes(t[i], s[i])
      BY <1>0, <2>2, PrecedesOrders DEF DiffersFirst
    <3> QED BY <2>2, <3>1, <3>2 DEF Before
  <2> QED BY <1>3, <2>1, <2>2, FirstDifference DEF Pres
<1> QED BY <1>1, <1>2, <1>3

-----------------------------------------------------------------------------
(* Versions *)

Cores == [1..3 -> Nat]

CoreBefore(c, d) ==
  \E i \in 1..3 : DiffersFirst(c, d, i) /\ c[i] < d[i]

\* Cores are ordered by the first number that differs.
LEMMA CoreIs ==
  ASSUME NEW c \in Cores, NEW d \in Cores
  PROVE  CoreBefore(c, d) <=>
           \/ c[1] < d[1]
           \/ c[1] = d[1] /\ c[2] < d[2]
           \/ c[1] = d[1] /\ c[2] = d[2] /\ c[3] < d[3]
<1>1. /\ DOMAIN c = {1, 2, 3} /\ DOMAIN d = {1, 2, 3} /\ 1..3 = {1, 2, 3}
      /\ \A i \in {1, 2, 3} : c[i] \in Nat /\ d[i] \in Nat
  BY DEF Cores
<1>2. 1..0 = {} /\ 1..1 = {1} /\ 1..2 = {1, 2}
  OBVIOUS
<1>3. DiffersFirst(c, d, 1) <=> c[1] # d[1]
  BY <1>1, <1>2 DEF DiffersFirst
<1>4. DiffersFirst(c, d, 2) <=> c[2] # d[2] /\ c[1] = d[1]
  BY <1>1, <1>2 DEF DiffersFirst
<1>5. DiffersFirst(c, d, 3) <=> c[3] # d[3] /\ c[1] = d[1] /\ c[2] = d[2]
  BY <1>1, <1>2 DEF DiffersFirst
<1> QED BY <1>1, <1>3, <1>4, <1>5 DEF CoreBefore

\* CoreBefore is a strict total order of cores.
LEMMA CoreOrders ==
  ASSUME NEW c \in Cores, NEW d \in Cores, NEW e \in Cores
  PROVE  /\ ~CoreBefore(c, c)
         /\ CoreBefore(c, d) /\ CoreBefore(d, e) => CoreBefore(c, e)
         /\ c # d => CoreBefore(c, d) \/ CoreBefore(d, c)
<1>1. \A i \in {1, 2, 3} : c[i] \in Nat /\ d[i] \in Nat /\ e[i] \in Nat
  BY DEF Cores
<1>2. c # d => c[1] # d[1] \/ c[2] # d[2] \/ c[3] # d[3]
  <2>1. 1..3 = {1, 2, 3}
    OBVIOUS
  <2> QED BY <2>1 DEF Cores
<1> QED BY <1>1, <1>2, CoreIs

VersionSet == [core : Cores, pre : Pres]

\* compare looks at the cores, then at the pre-releases, none being the newest.
LEMMA OlderIs ==
  ASSUME NEW v, NEW w
  PROVE  Older(v, w) <=>
           \/ CoreBefore(v.core, w.core)
           \/ /\ v.core = w.core /\ v.pre # << >>
              /\ w.pre = << >> \/ Before(v.pre, w.pre)
BY DEF Older, CoreBefore, Before

\* Older is a strict total order of versions.
LEMMA OlderOrders ==
  ASSUME NEW v \in VersionSet, NEW w \in VersionSet, NEW x \in VersionSet
  PROVE  /\ ~Older(v, v)
         /\ Older(v, w) /\ Older(w, x) => Older(v, x)
         /\ v # w => Older(v, w) \/ Older(w, v)
<1>1. /\ v.core \in Cores /\ w.core \in Cores /\ x.core \in Cores
      /\ v.pre \in Pres /\ w.pre \in Pres /\ x.pre \in Pres
      /\ v # w => v.core # w.core \/ v.pre # w.pre
  BY DEF VersionSet
<1>2. << >> \in Pres
  BY DEF Pres
<1>3. ~Before(v.pre, << >>) /\ ~Before(w.pre, << >>)
  <2>1. ASSUME NEW s \in Pres PROVE ~Before(s, << >>)
    <3>1. Len(s) \in Nat /\ Len(<< >>) = 0 /\ DOMAIN << >> = {}
      BY DEF Pres
    <3> QED BY <3>1 DEF Before, DiffersFirst, PrefixOf
  <2> QED BY <1>1, <2>1
<1>4. ~Older(v, v)
  BY <1>1, OlderIs, CoreOrders, BeforeOrders
<1>5. Older(v, w) /\ Older(w, x) => Older(v, x)
  BY <1>1, <1>3, OlderIs, CoreOrders, BeforeOrders
<1>6. v # w => Older(v, w) \/ Older(w, v)
  BY <1>1, OlderIs, CoreOrders, BeforeOrders
<1> QED BY <1>4, <1>5, <1>6

-----------------------------------------------------------------------------
(* Semantic Versioning *)

\* The parts of a key are numbers, and a key of a part that is there is above
\* the one of the end of a pre-release and below the one of no pre-release.
LEMMA Keys ==
  ASSUME NEW v \in VersionSet, Plain(v), NEW i \in Nat \ {0}
  PROVE  /\ KeyOf(v, i)[1] \in Int /\ KeyOf(v, i)[2] \in Int
         /\ KeyOf(v, i) = <<KeyOf(v, i)[1], KeyOf(v, i)[2]>>
         /\ i <= 3 => KeyOf(v, i) = <<1, v.core[i]>>
         /\ i > 3 /\ v.pre = << >> => KeyOf(v, i) = <<3, 0>>
         /\ i > 3 /\ v.pre # << >> /\ i - 3 > Len(v.pre) =>
              KeyOf(v, i) = <<0, 0>>
         /\ i > 3 /\ v.pre # << >> /\ i - 3 <= Len(v.pre) =>
              KeyOf(v, i)[1] \in {1, 2}
<1>1. /\ v.pre \in Pres /\ Len(v.pre) \in Nat /\ DOMAIN v.pre = 1..Len(v.pre)
      /\ \A j \in 1..3 : v.core[j] \in Nat
  BY DEF VersionSet, Pres, Cores
<1>2. CASE i <= 3
  BY <1>1, <1>2 DEF KeyOf
<1>3. CASE i > 3 /\ (v.pre = << >> \/ i - 3 > Len(v.pre))
  BY <1>1, <1>3 DEF KeyOf
<1>4. CASE i > 3 /\ v.pre # << >> /\ i - 3 <= Len(v.pre)
  <2> DEFINE x == v.pre[i - 3]
  <2>1. i - 3 \in DOMAIN v.pre
    BY <1>1, <1>4
  <2>2. x \in Identifiers
    BY <1>1, <2>1 DEF Pres
  <2>3. x.digits \in BOOLEAN /\ x.text \in Int /\ x.number \in Int \cup {NaN}
    BY <2>2, IdentifiersAssumption
  <2>4. x.digits => x.number \in Int
    BY <2>1, <2>3 DEF Plain
  <2>5. KeyOf(v, i) = IF x.digits THEN <<1, x.number>> ELSE <<2, x.text>>
    BY <1>1, <1>4 DEF KeyOf
  <2> HIDE DEF x
  <2> QED BY <1>4, <2>3, <2>4, <2>5
<1> QED BY <1>2, <1>3, <1>4

\* Identifiers that the two read alike have the order of their keys.
LEMMA KeysOrder ==
  ASSUME NEW v \in VersionSet, NEW w \in VersionSet, Plain(v), Plain(w),
         NEW i \in DOMAIN v.pre, i \in DOMAIN w.pre,
         Precedes(v.pre[i], w.pre[i])
  PROVE  KeyLess(KeyOf(v, i + 3), KeyOf(w, i + 3))
<1> DEFINE x == v.pre[i]
           y == w.pre[i]
<1>1. /\ v.pre \in Seq(Identifiers) /\ w.pre \in Seq(Identifiers)
      /\ v.pre # << >> /\ w.pre # << >>
  BY DEF VersionSet, Pres
<1>2. i \in Nat \ {0} /\ i <= Len(v.pre) /\ i <= Len(w.pre)
  BY <1>1
<1>3. x \in Identifiers /\ y \in Identifiers
  BY <1>1
<1>4. /\ x.digits \in BOOLEAN /\ x.digits = (x.number # NaN)
      /\ y.digits \in BOOLEAN /\ y.digits = (y.number # NaN)
  BY <1>3, IdentifiersAssumption DEF Plain
<1>5. /\ x.text \in Nat /\ x.number \in Int \cup {NaN}
      /\ y.text \in Nat /\ y.number \in Int \cup {NaN}
  BY <1>3, IdentifiersAssumption
<1>6. x.digits /\ y.digits /\ x.number = y.number => x = y
  BY <1>3, <1>4, IdentifiersAssumption
<1>a. /\ (i + 3) - 3 = i /\ ~(i + 3 <= 3)
      /\ ~(i > Len(v.pre)) /\ ~(i > Len(w.pre))
  BY <1>1, <1>2
<1>7. KeyOf(v, i + 3) = IF x.digits THEN <<1, x.number>> ELSE <<2, x.text>>
  BY <1>1, <1>a DEF KeyOf
<1>8. KeyOf(w, i + 3) = IF y.digits THEN <<1, y.number>> ELSE <<2, y.text>>
  BY <1>1, <1>a DEF KeyOf
<1>9. x # y
  BY <1>3, PrecedesOrders
<1>10. Precedes(x, y)
  OBVIOUS
<1> HIDE DEF x, y
<1>11. CASE x.digits /\ y.digits
  <2>1. x.number \in Int /\ y.number \in Int /\ x.number < y.number
    BY <1>4, <1>5, <1>6, <1>9, <1>10, <1>11 DEF Precedes
  <2>2. KeyOf(v, i + 3) = <<1, x.number>> /\ KeyOf(w, i + 3) = <<1, y.number>>
    BY <1>7, <1>8, <1>11
  <2> QED BY <2>1, <2>2 DEF KeyLess
<1>12. CASE ~x.digits /\ ~y.digits
  <2>1. x.text < y.text
    BY <1>4, <1>10, <1>12 DEF Precedes
  <2>2. KeyOf(v, i + 3) = <<2, x.text>> /\ KeyOf(w, i + 3) = <<2, y.text>>
    BY <1>7, <1>8, <1>12
  <2> QED BY <1>5, <2>1, <2>2 DEF KeyLess
<1>13. CASE x.digits /\ ~y.digits
  BY <1>7, <1>8, <1>13 DEF KeyLess
<1>14. CASE ~x.digits /\ y.digits
  BY <1>4, <1>10, <1>14 DEF Precedes
<1> QED BY <1>4, <1>11, <1>12, <1>13, <1>14

\* A version with a pre-release differs from another in a key, at the place
\* that compare looks at.
LEMMA OlderIsSemver ==
  ASSUME NEW v \in VersionSet, NEW w \in VersionSet, Plain(v), Plain(w),
         Older(v, w)
  PROVE  SemverOlder(v, w)
<1>0. /\ v.core \in Cores /\ w.core \in Cores
      /\ v.pre \in Pres /\ w.pre \in Pres
      /\ Len(v.pre) \in Nat /\ DOMAIN v.pre = 1..Len(v.pre)
      /\ Len(w.pre) \in Nat /\ DOMAIN w.pre = 1..Len(w.pre)
      /\ v.pre # << >> => Len(v.pre) > 0
      /\ w.pre # << >> => Len(w.pre) > 0
  BY DEF VersionSet, Pres
<1> DEFINE Last == 4 + Len(v.pre) + Len(w.pre)
<1>a. /\ Last \in Nat /\ 4 <= Last
      /\ \A i \in Nat : i <= Len(v.pre) + 1 \/ i <= Len(w.pre) => i + 3 <= Last
  <2>1. \A m, n \in Nat :
          /\ 4 + m + n \in Nat /\ 4 <= 4 + m + n
          /\ \A i \in Nat : i <= m + 1 \/ i <= n => i + 3 <= 4 + m + n
    OBVIOUS
  <2>2. Len(v.pre) \in Nat /\ Len(w.pre) \in Nat
    BY <1>0
  <2> QED BY <2>1, <2>2
<1>b. SemverOlder(v, w) <=> \E i \in 1..Last :
                              /\ KeyLess(KeyOf(v, i), KeyOf(w, i))
                              /\ \A j \in 1..(i - 1) : KeyOf(v, j) = KeyOf(w, j)
  BY DEF SemverOlder
<1> HIDE DEF Last
<1>1. ASSUME NEW i \in Nat \ {0}, i <= Last, KeyLess(KeyOf(v, i), KeyOf(w, i)),
             \A j \in 1..(i - 1) : KeyOf(v, j) = KeyOf(w, j)
      PROVE  SemverOlder(v, w)
  <2>1. i \in 1..Last
    BY <1>a, <1>1
  <2> QED BY <1>1, <1>b, <2>1
<1>2. CASE CoreBefore(v.core, w.core)
  <2>1. PICK i \in 1..3 : /\ DiffersFirst(v.core, w.core, i)
                          /\ v.core[i] < w.core[i]
    BY <1>2 DEF CoreBefore
  <2>2. \A j \in Nat \ {0} : j <= 3 => /\ KeyOf(v, j) = <<1, v.core[j]>>
                                      /\ KeyOf(w, j) = <<1, w.core[j]>>
    BY Keys
  <2>3. KeyLess(KeyOf(v, i), KeyOf(w, i))
    BY <2>1, <2>2 DEF KeyLess
  <2>4. ASSUME NEW j \in 1..(i - 1) PROVE KeyOf(v, j) = KeyOf(w, j)
    <3>1. j \in Nat \ {0} /\ j <= 3 /\ v.core[j] = w.core[j]
      BY <2>1 DEF DiffersFirst
    <3> QED BY <2>2, <3>1
  <2>5. i \in Nat \ {0} /\ i <= Last
    BY <1>a
  <2> QED BY <1>1, <2>3, <2>4, <2>5
<1>3. CASE v.core = w.core /\ v.pre # << >>
           /\ (w.pre = << >> \/ Before(v.pre, w.pre))
  <2>1. \A j \in Nat \ {0} : j <= 3 => KeyOf(v, j) = KeyOf(w, j)
    BY <1>3, Keys
  <2>2. CASE w.pre = << >>
    <3>1. KeyOf(w, 4) = <<3, 0>> /\ KeyOf(v, 4)[1] \in {1, 2}
      BY <1>0, <1>3, <2>2, Keys
    <3>2. KeyLess(KeyOf(v, 4), KeyOf(w, 4))
      BY <3>1 DEF KeyLess
    <3>3. \A j \in 1..(4 - 1) : KeyOf(v, j) = KeyOf(w, j)
      BY <2>1
    <3> QED BY <1>1, <1>a, <3>2, <3>3
  <2>3. ASSUME w.pre # << >>, NEW i \in Nat \ {0},
               i <= Len(v.pre) + 1, i <= Len(w.pre) + 1,
               \A j \in 1..(i - 1) : v.pre[j] = w.pre[j]
        PROVE  \A j \in 1..((i + 3) - 1) : KeyOf(v, j) = KeyOf(w, j)
    <3> SUFFICES ASSUME NEW j \in 1..((i + 3) - 1)
                 PROVE  KeyOf(v, j) = KeyOf(w, j)
      OBVIOUS
    <3>1. CASE j <= 3
      BY <2>1, <3>1
    <3>2. CASE j > 3
      <4>1. j - 3 \in 1..(i - 1)
        BY <3>2
      <4>2. /\ ~(j <= 3) /\ ~(j - 3 > Len(v.pre)) /\ ~(j - 3 > Len(w.pre))
            /\ v.pre[j - 3] = w.pre[j - 3]
        BY <1>0, <2>3, <3>2, <4>1
      <4> QED BY <1>3, <2>3, <4>2 DEF KeyOf
    <3> QED BY <3>1, <3>2
  <2>4. ASSUME NEW i \in DOMAIN v.pre, DiffersFirst(v.pre, w.pre, i),
               Precedes(v.pre[i], w.pre[i])
        PROVE  SemverOlder(v, w)
    <3>1. /\ i \in Nat \ {0} /\ i <= Len(v.pre) /\ i <= Len(w.pre)
          /\ i \in DOMAIN w.pre /\ w.pre # << >>
          /\ \A j \in 1..(i - 1) : v.pre[j] = w.pre[j]
      BY <1>0, <2>4 DEF DiffersFirst
    <3>2. KeyLess(KeyOf(v, i + 3), KeyOf(w, i + 3))
      BY <2>4, <3>1, KeysOrder
    <3>3. \A j \in 1..((i + 3) - 1) : KeyOf(v, j) = KeyOf(w, j)
      BY <1>0, <2>3, <3>1
    <3>4. i + 3 \in Nat \ {0} /\ i + 3 <= Last
      BY <1>a, <3>1
    <3> QED BY <1>1, <3>2, <3>3, <3>4
  <2>5. ASSUME PrefixOf(v.pre, w.pre)
        PROVE  SemverOlder(v, w)
    <3> DEFINE i == Len(v.pre) + 1
    <3>1. /\ i \in Nat \ {0} /\ i <= Len(v.pre) + 1 /\ i <= Len(w.pre)
          /\ w.pre # << >>
          /\ \A j \in 1..(i - 1) : v.pre[j] = w.pre[j]
      BY <1>0, <2>5 DEF PrefixOf
    <3>2. /\ i + 3 > 3 /\ (i + 3) - 3 > Len(v.pre)
          /\ (i + 3) - 3 <= Len(w.pre) /\ i + 3 \in Nat \ {0}
      BY <1>0, <3>1
    <3>3. KeyOf(v, i + 3) = <<0, 0>> /\ KeyOf(w, i + 3)[1] \in {1, 2}
      BY <1>3, <3>1, <3>2, Keys
    <3>4. KeyLess(KeyOf(v, i + 3), KeyOf(w, i + 3))
      BY <3>3 DEF KeyLess
    <3>5. \A j \in 1..((i + 3) - 1) : KeyOf(v, j) = KeyOf(w, j)
      BY <1>0, <2>3, <3>1
    <3>6. i + 3 <= Last
      BY <1>a, <3>1
    <3> QED BY <1>1, <3>2, <3>4, <3>5, <3>6
  <2> QED BY <1>3, <2>2, <2>4, <2>5 DEF Before
<1> QED BY <1>2, <1>3, OlderIs

\* No two versions are each older than the other to Semantic Versioning.
LEMMA SemverIsAsymmetric ==
  ASSUME NEW v \in VersionSet, NEW w \in VersionSet, Plain(v), Plain(w),
         SemverOlder(v, w)
  PROVE  v # w /\ ~SemverOlder(w, v)
<1>0. Len(v.pre) \in Nat /\ Len(w.pre) \in Nat
  BY DEF VersionSet, Pres
<1>1. PICK i \in Nat \ {0} : /\ KeyLess(KeyOf(v, i), KeyOf(w, i))
                             /\ \A j \in 1..(i - 1) : KeyOf(v, j) = KeyOf(w, j)
  BY <1>0 DEF SemverOlder
<1>2. \A k \in Nat \ {0} : /\ KeyOf(v, k)[1] \in Int /\ KeyOf(v, k)[2] \in Int
                           /\ KeyOf(w, k)[1] \in Int /\ KeyOf(w, k)[2] \in Int
  BY Keys
<1>3. v # w
  BY <1>1, <1>2 DEF KeyLess
<1>4. ASSUME SemverOlder(w, v) PROVE FALSE
  <2>1. PICK k \in Nat \ {0} :
               /\ KeyLess(KeyOf(w, k), KeyOf(v, k))
               /\ \A j \in 1..(k - 1) : KeyOf(w, j) = KeyOf(v, j)
    BY <1>0, <1>4 DEF SemverOlder
  <2>2. CASE i = k
    BY <1>1, <1>2, <2>1, <2>2 DEF KeyLess
  <2>3. CASE i < k
    <3>1. KeyOf(w, i) = KeyOf(v, i)
      BY <2>1, <2>3
    <3> QED BY <1>1, <1>2, <3>1 DEF KeyLess
  <2>4. CASE k < i
    <3>1. KeyOf(v, k) = KeyOf(w, k)
      BY <1>1, <2>4
    <3> QED BY <1>2, <2>1, <3>1 DEF KeyLess
  <2> QED BY <2>2, <2>3, <2>4
<1> QED BY <1>3, <1>4

\* The two orders agree.
LEMMA OrdersAgree ==
  ASSUME NEW v \in VersionSet, NEW w \in VersionSet, Plain(v), Plain(w)
  PROVE  Older(v, w) <=> SemverOlder(v, w)
<1>1. ASSUME SemverOlder(v, w) PROVE Older(v, w)
  <2>1. v # w /\ ~SemverOlder(w, v)
    BY <1>1, SemverIsAsymmetric
  <2>2. ~Older(w, v)
    BY <2>1, OlderIsSemver
  <2> QED BY <2>1, <2>2, OlderOrders
<1> QED BY <1>1, OlderIsSemver

-----------------------------------------------------------------------------
(* The loop *)

TypeInv == /\ listing \in Seq(Candidates)
           /\ seen \in 0..Len(listing)
           /\ best \in Candidates \cup {None}

Inv == TypeInv /\ BestIsNewest

\* The versions of a listing are versions.
LEMMA VersionsAreVersions == Versions \subseteq VersionSet
BY VersionsAssumption DEF VersionSet, Cores, Pres

\* Nothing was considered at first.
LEMMA InitInv == Init => Inv
<1> SUFFICES ASSUME Init PROVE Inv
  OBVIOUS
<1>1. PICK n \in Nat : listing \in [1..n -> Candidates]
  BY BoundAssumption DEF Init
<1>2. listing \in Seq(Candidates)
  BY <1>1
<1>3. seen \in 0..Len(listing)
  BY <1>2 DEF Init
<1>4. 1..seen = {}
  BY DEF Init
<1>5. best = None
  BY DEF Init
<1> QED BY <1>2, <1>3, <1>4, <1>5 DEF Inv, TypeInv, BestIsNewest

\* Considering one more release keeps the best one the best.
LEMMA NextKeepsInv == Inv /\ [Next]_vars => Inv'
<1> SUFFICES ASSUME Inv, [Next]_vars PROVE Inv'
  OBVIOUS
<1>0. /\ listing \in Seq(Candidates) /\ seen \in 0..Len(listing)
      /\ best \in Candidates \cup {None} /\ Len(listing) \in Nat
  BY DEF Inv, TypeInv
<1>1. CASE UNCHANGED vars
  BY <1>1 DEF vars, Inv, TypeInv, BestIsNewest, Eligible
<1>2. CASE Consider
  <2> DEFINE r == listing[seen + 1]
  <2>1. /\ seen + 1 \in 1..Len(listing) /\ seen' = seen + 1
        /\ best' = IF Better(r) THEN r ELSE best
        /\ UNCHANGED listing
    BY <1>0, <1>2 DEF Consider
  <2>2. r \in Candidates
    BY <1>0, <2>1
  <2>3. TypeInv'
    BY <1>0, <2>1, <2>2 DEF TypeInv
  <2>4. r # None /\ (best # None => best \in Candidates)
    <3>1. None.kind = "none"
      BY DEF None
    <3>2. r.kind \in {"published", "draft", "no version"}
      BY <2>2 DEF Candidates
    <3> QED BY <1>0, <3>1, <3>2
  <2>5. \A i \in 1..(seen + 1) : i \in 1..seen \/ listing[i] = r
    BY <1>0
  <2>6. \A i \in 1..seen : i \in 1..(seen + 1) /\ listing[i] \in Candidates
    BY <1>0
  <2>7. seen + 1 \in 1..(seen + 1)
    BY <1>0
  <2>8. \A c, d, e \in Candidates :
          /\ ~Older(c.version, c.version)
          /\ Older(c.version, d.version) /\ Older(d.version, e.version) =>
               Older(c.version, e.version)
    BY VersionsAreVersions, OlderOrders DEF Candidates
  <2>9. /\ best = None <=> ~\E i \in 1..seen : Eligible(listing[i])
        /\ best # None =>
             /\ \E i \in 1..seen : Eligible(listing[i]) /\ listing[i] = best
             /\ \A i \in 1..seen : Eligible(listing[i]) =>
                  ~Older(best.version, listing[i].version)
    BY DEF Inv, BestIsNewest
  <2> SUFFICES
        /\ best' = None <=> ~\E i \in 1..(seen + 1) : Eligible(listing[i])
        /\ best' # None =>
             /\ \E i \in 1..(seen + 1) :
                  Eligible(listing[i]) /\ listing[i] = best'
             /\ \A i \in 1..(seen + 1) : Eligible(listing[i]) =>
                  ~Older(best'.version, listing[i].version)
    BY <2>1, <2>3 DEF Inv, BestIsNewest, Eligible
  <2> HIDE DEF r
  <2>10. CASE Better(r)
    <3>1. best' = r /\ Eligible(r)
      BY <2>1, <2>10 DEF Better
    <3>2. listing[seen + 1] = r
      BY DEF r
    <3>3. ASSUME NEW i \in 1..(seen + 1), Eligible(listing[i]),
                 Older(r.version, listing[i].version)
          PROVE  FALSE
      <4>1. i \in 1..seen /\ best # None
        BY <2>2, <2>5, <2>8, <2>9, <3>3
      <4>2. Older(best.version, r.version)
        BY <2>10, <4>1 DEF Better
      <4> QED BY <2>2, <2>4, <2>6, <2>8, <2>9, <3>3, <4>1, <4>2
    <3> QED BY <2>4, <2>7, <3>1, <3>2, <3>3
  <2>11. CASE ~Better(r)
    <3>1. best' = best
      BY <2>1, <2>11
    <3>2. Eligible(r) => best # None /\ ~Older(best.version, r.version)
      BY <2>11 DEF Better
    <3> QED BY <2>5, <2>6, <2>9, <3>1, <3>2
  <2> QED BY <2>10, <2>11
<1> QED BY <1>1, <1>2 DEF Next

-----------------------------------------------------------------------------
(* Theorems *)

\* The loop over the listing keeps the newest eligible release so far, in
\* whatever order the server lists them (latestRelease).
THEOREM NewestIsChosen == Spec => []BestIsNewest
<1>1. Inv => BestIsNewest
  BY DEF Inv
<1>2. Spec => []Inv
  BY InitInv, NextKeepsInv, PTL DEF Spec
<1> QED BY <1>1, <1>2, PTL

\* Of any versions, the order is strict and total, a status is the same
\* whichever version is asked about first, and it is the order of Semantic
\* Versioning wherever Atoi and Semantic Versioning read the identifiers alike
\* (version.compare, compareVersions).
THEOREM VersionsAreOrdered == Spec => []OrdersVersions
<1>1. Inv => OrdersVersions
  <2> SUFFICES ASSUME Inv, NEW v \in Listed, NEW w \in Listed
               PROVE  /\ Plain(v) /\ Plain(w) =>
                           (Older(v, w) <=> SemverOlder(v, w))
                      /\ ~(Older(v, w) /\ Older(w, v))
                      /\ v = w <=> Status(v, w) = "current"
                      /\ \A x \in Listed : Older(v, w) /\ Older(w, x) =>
                                             Older(v, x)
    BY DEF OrdersVersions
  <2>1. Listed \subseteq VersionSet
    <3>1. \A i \in DOMAIN listing : listing[i] \in Candidates
      BY DEF Inv, TypeInv
    <3> QED BY <3>1, VersionsAreVersions DEF Listed, Candidates
  <2>2. ~(Older(v, w) /\ Older(w, v))
    BY <2>1, OlderOrders
  <2>3. v = w <=> Status(v, w) = "current"
    BY <2>1, OlderOrders DEF Status
  <2>4. \A x \in Listed : Older(v, w) /\ Older(w, x) => Older(v, x)
    BY <2>1, OlderOrders
  <2>5. Plain(v) /\ Plain(w) => (Older(v, w) <=> SemverOlder(v, w))
    BY <2>1, OrdersAgree
  <2> QED BY <2>2, <2>3, <2>4, <2>5
<1>2. Spec => []Inv
  BY InitInv, NextKeepsInv, PTL DEF Spec
<1> QED BY <1>1, <1>2, PTL
=============================================================================
