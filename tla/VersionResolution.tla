------------------------- MODULE VersionResolution -------------------------
(***************************************************************************)
(* How gimme reads the version part of pkg@version: which stored versions  *)
(* an alias matches, which of them it resolves to, and which cache keys a  *)
(* deleted version invalidates.                                            *)
(*                                                                         *)
(* A version text is the tuple of its numbers.  <<>> is "latest", <<1>> is *)
(* "1", <<1, 0>> is "1.0", and <<1, 0, 2, p, b>> is the full version 1.0.2 *)
(* with pre-release rc.p and build metadata b, where 0 stands for none.    *)
(* Only full versions can be published (isFullSemver).                     *)
(***************************************************************************)
EXTENDS Integers, Sequences, FiniteSets, SequencesExt

Latest == <<>>

isFullSemver(t) == Len(t) = 5

Prerelease(t) == t[4]

\* "1.0.0" is pinned; "1.0" and "1.0.0-rc.1" are looked up.
IsPinnedVersion(t) == isFullSemver(t) /\ Prerelease(t) = 0

versionMatches(candidate, requested) ==
  \/ requested = Latest /\ Prerelease(candidate) = 0
  \/ candidate = requested
  \/ /\ Len(requested) \in {1, 2}
     /\ Prerelease(candidate) = 0
     /\ SubSeq(candidate, 1, Len(requested)) = requested

\* What semver.Sort compares, in this order: the numbers, a release being above
\* its pre-releases, the pre-release, the rest of the text.
SemverRank(t) == <<t[1], t[2], t[3], IF t[4] = 0 THEN 1 ELSE 0, t[4], t[5]>>

SemverBefore(v, w) ==
  \E i \in 1..6 : /\ SemverRank(v)[i] < SemverRank(w)[i]
                  /\ \A j \in 1..(i - 1) : SemverRank(v)[j] = SemverRank(w)[j]

Matching(listed, requested) == { v \in listed : versionMatches(v, requested) }

\* Mutant of resolveVersion: the wrong end of the sorted list is taken.
resolveVersionLowest(listed, requested) ==
  LET matching == Matching(listed, requested) IN
  IF matching = {} THEN requested
  ELSE CHOOSE v \in matching : \A w \in matching \ {v} : SemverBefore(v, w)

\* The last of the matching versions once semver.Sort has put them in order.  When
\* none matches, the caller goes on with the version text it was asked for.
resolveVersion(listed, requested) ==
  LET matching == Matching(listed, requested) IN
  IF matching = {} THEN requested
  ELSE CHOOSE v \in matching : \A w \in matching \ {v} : SemverBefore(w, v)

\* The versions of a package's page: all that are full, the highest first.
ListVersions(listed) ==
  LET full == { v \in listed : isFullSemver(v) }
  IN CHOOSE page \in [1..Cardinality(full) -> full] :
       \A m, n \in DOMAIN page : m < n => SemverBefore(page[n], page[m])

\* Mutant of mutableAliasPrefixes: "latest" is forgotten.
mutableAliasPrefixesPartial(v) == << <<v[1]>>, <<v[1], v[2]>> >>

mutableAliasPrefixes(v) == << Latest, <<v[1]>>, <<v[1], v[2]>> >>

\* The digits of a open the digits of b, a number of up to seven digits; "0" opens
\* no other number.
DigitsPrefix(a, b) ==
  \/ a = b
  \/ a # 0 /\ \E n \in {10, 100, 1000, 10000, 100000, 1000000} : b \div n = a

\* Whether the text p is a prefix of the text t, so that DeleteByPrefix on
\* pkg@p removes the cache keys of pkg@t: "1" is one of "1", "1.0" and "10.2".
TextPrefixOf(p, t) ==
  IF p = Latest \/ t = Latest THEN p = t
  ELSE IF isFullSemver(p) /\ (p[4] # 0 \/ p[5] # 0) THEN p = t
  ELSE LET n == IF isFullSemver(p) THEN 3 ELSE Len(p)
       IN /\ Len(t) >= n
          /\ SubSeq(t, 1, n - 1) = SubSeq(p, 1, n - 1)
          /\ DigitsPrefix(p[n], t[n])

=============================================================================
