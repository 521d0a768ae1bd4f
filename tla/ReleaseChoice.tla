--------------------------- MODULE ReleaseChoice ---------------------------
(***************************************************************************)
(* Which release verso update takes for the newest: the order of versions  *)
(* (internal/updater/version.go) and the loop of latestRelease             *)
(* (internal/updater/updater.go) over the listing of releases.             *)
(*                                                                         *)
(* An identifier of a pre-release is its place in the order of strings, the *)
(* number strconv.Atoi makes of it, and whether it consists of digits.     *)
(* Atoi also reads "-1", which Semantic Versioning takes for a word, and   *)
(* no number of twenty digits, which it takes for a number.                *)
(***************************************************************************)
EXTENDS Integers, Sequences

CONSTANTS
  Identifiers,  \* pre-release identifiers
  NaN,          \* Atoi's error
  Versions,     \* versions a tag may stand for
  MaxListed     \* bound: releases in a listing

\* parseVersion refuses leading zeros, so digits that are the same number are
\* the same text.
ASSUME IdentifiersAssumption ==
  /\ NaN \notin Int
  /\ Identifiers \subseteq [text : Nat, number : Int \cup {NaN},
                            digits : BOOLEAN]
  /\ \A x, y \in Identifiers :
       \/ x.text = y.text
       \/ x.digits /\ y.digits /\ x.number = y.number /\ x.number # NaN
       => x = y
ASSUME VersionsAssumption ==
  Versions \subseteq [core : [1..3 -> Nat], pre : Seq(Identifiers)]
ASSUME BoundAssumption == MaxListed \in Nat

VARIABLES
  listing,  \* the releases the server lists
  seen,     \* how many of them the loop has considered
  best      \* the newest of those, or None

vars == <<listing, seen, best>>

-----------------------------------------------------------------------------
(* version.compare *)

\* A version is its core (major, minor and patch) and its pre-release, << >>
\* for none.

PrecedesMixedMutant(x, y) ==
  IF x.number # NaN /\ y.number # NaN /\ x.number # y.number
  THEN x.number < y.number
  ELSE x.text < y.text

\* Identifiers that the code takes for numbers come first, in their order; two
\* that it does not, or that are the same number, are ordered as strings.
Precedes(x, y) ==
  IF x.number # NaN /\ y.number # NaN /\ x.number # y.number
  THEN x.number < y.number
  ELSE IF (x.number = NaN) # (y.number = NaN)
       THEN y.number = NaN
       ELSE x.text < y.text

\* The first position where two sequences differ decides, if there is one.
DiffersFirst(s, t, i) ==
  /\ i \in DOMAIN s \cap DOMAIN t /\ s[i] # t[i]
  /\ \A j \in 1..(i - 1) : s[j] = t[j]

PrefixOf(s, t) ==
  Len(s) < Len(t) /\ \A i \in DOMAIN s : s[i] = t[i]

\* compare(v, w) < 0.
Older(v, w) ==
  \/ \E i \in 1..3 : DiffersFirst(v.core, w.core, i) /\ v.core[i] < w.core[i]
  \/ /\ v.core = w.core
     /\ \/ v.pre # << >> /\ w.pre = << >>
        \/ /\ v.pre # << >>
           /\ \/ \E i \in DOMAIN v.pre :
                   DiffersFirst(v.pre, w.pre, i)
                   /\ Precedes(v.pre[i], w.pre[i])
              \/ PrefixOf(v.pre, w.pre)

\* compareVersions.
Status(current, latest) ==
  IF Older(current, latest) THEN "outdated"
  ELSE IF Older(latest, current) THEN "ahead" ELSE "current"

-----------------------------------------------------------------------------
(* latestRelease *)

\* A release with its version; drafts, and tags that parseVersion refuses, are
\* listed too.
Candidates == [version : Versions, kind : {"published", "draft", "no version"}]
None == [kind |-> "none"]

Eligible(release) == release.kind = "published"

BetterMutant(release) == Eligible(release)

Better(release) ==
  Eligible(release) /\ (best = None \/ Older(best.version, release.version))

Init ==
  /\ \E n \in 0..MaxListed : listing \in [1..n -> Candidates]
  /\ seen = 0 /\ best = None

Consider ==
  /\ seen < Len(listing)
  /\ seen' = seen + 1
  /\ best' = IF Better(listing[seen + 1]) THEN listing[seen + 1] ELSE best
  /\ UNCHANGED listing

Next == Consider

Spec == Init /\ [][Next]_vars

-----------------------------------------------------------------------------
(* Properties *)

\* Precedence in Semantic Versioning, as a sort key: a core; then versions
\* with a pre-release; then identifier by identifier, digits as numbers below
\* words in the order of strings, and the end of a pre-release below all.
KeyOf(v, i) ==
  IF i <= 3 THEN <<1, v.core[i]>>
  ELSE IF v.pre = << >> THEN <<3, 0>>
  ELSE IF i - 3 > Len(v.pre) THEN <<0, 0>>
  ELSE IF v.pre[i - 3].digits THEN <<1, v.pre[i - 3].number>>
  ELSE <<2, v.pre[i - 3].text>>

KeyLess(k, l) == k[1] < l[1] \/ (k[1] = l[1] /\ k[2] < l[2])

SemverOlder(v, w) ==
  \E i \in 1..(4 + Len(v.pre) + Len(w.pre)) :
    /\ KeyLess(KeyOf(v, i), KeyOf(w, i))
    /\ \A j \in 1..(i - 1) : KeyOf(v, j) = KeyOf(w, j)

\* Identifiers that Atoi and Semantic Versioning read alike.
Plain(v) == \A i \in DOMAIN v.pre : v.pre[i].digits = (v.pre[i].number # NaN)

Listed == {listing[i].version : i \in DOMAIN listing}

\* Versions are compared as Semantic Versioning says wherever the two read the
\* identifiers alike (TestLatestReleaseIncludesAlphaAndComparesSemver), and in
\* one total order also where they do not, so that a status never depends on
\* which version is asked about first and updates cannot go round in circles
\* (version.compare).
OrdersVersions ==
  \A v, w \in Listed :
    /\ Plain(v) /\ Plain(w) => (Older(v, w) <=> SemverOlder(v, w))
    /\ ~(Older(v, w) /\ Older(w, v))
    /\ v = w <=> Status(v, w) = "current"
    /\ \A x \in Listed : Older(v, w) /\ Older(w, x) => Older(v, x)

\* Whatever the order of the listing, the release that was chosen is eligible
\* and no eligible one is newer (latestRelease).
BestIsNewest ==
  LET eligible == {i \in 1..seen : Eligible(listing[i])} IN
    /\ best = None <=> eligible = {}
    /\ best # None =>
         /\ \E i \in eligible : listing[i] = best
         /\ \A i \in eligible : ~Older(best.version, listing[i].version)

=============================================================================
