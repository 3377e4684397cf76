-------------------------- MODULE AliasCacheProofs --------------------------
(***************************************************************************)
(* What AliasCache promises for any versions, requested texts, readers,    *)
(* deletions and failures: an alias resolves to the highest version it     *)
(* matches, every cache entry can be reached by the invalidation of the    *)
(* version it points at, and an entry that outlives its version has one of *)
(* the known causes.                                                       *)
(***************************************************************************)
EXTENDS AliasCache, FiniteSetTheorems, SequenceTheorems, TLAPS

-----------------------------------------------------------------------------
(* The order of versions                                                   *)

Text == Seq(Nat)

FullVersion == { t \in Text : isFullSemver(t) }

\* The numbers of a full version.
LEMMA FullParts ==
  ASSUME NEW t \in FullVersion
  PROVE  /\ t \in Seq(Nat) /\ Len(t) = 5
         /\ t[1] \in Nat /\ t[2] \in Nat /\ t[3] \in Nat /\ t[4] \in Nat /\ t[5] \in Nat
<1>1. t \in Seq(Nat) /\ Len(t) = 5
  BY DEF FullVersion, Text, isFullSemver
<1>2. \A i \in 1..5 : t[i] \in Nat
  BY <1>1, ElementOfSeq
<1>. QED  BY <1>1, <1>2

\* The first part that differs decides.
LexLess(a, b) ==
  \/ a[1] < b[1]
  \/ a[1] = b[1] /\ a[2] < b[2]
  \/ a[1] = b[1] /\ a[2] = b[2] /\ a[3] < b[3]
  \/ a[1] = b[1] /\ a[2] = b[2] /\ a[3] = b[3] /\ a[4] < b[4]
  \/ a[1] = b[1] /\ a[2] = b[2] /\ a[3] = b[3] /\ a[4] = b[4] /\ a[5] < b[5]
  \/ a[1] = b[1] /\ a[2] = b[2] /\ a[3] = b[3] /\ a[4] = b[4] /\ a[5] = b[5] /\ a[6] < b[6]

\* SemverBefore is lexicographic.
LEMMA Lexicographic ==
  ASSUME NEW v, NEW w
  PROVE  SemverBefore(v, w) <=> LexLess(SemverRank(v), SemverRank(w))
<1> DEFINE a == SemverRank(v)
           b == SemverRank(w)
<1>1. SemverBefore(v, w) <=>
        \E i \in 1..6 : a[i] < b[i] /\ \A j \in 1..(i - 1) : a[j] = b[j]
  BY DEF SemverBefore
<1> HIDE DEF a, b
<1> DEFINE First(i) == a[i] < b[i] /\ \A j \in 1..(i - 1) : a[j] = b[j]
<1>2. \A i \in 1..6 : i = 1 \/ i = 2 \/ i = 3 \/ i = 4 \/ i = 5 \/ i = 6
  OBVIOUS
<1>3. /\ First(1) <=> a[1] < b[1]
      /\ First(2) <=> a[1] = b[1] /\ a[2] < b[2]
      /\ First(3) <=> a[1] = b[1] /\ a[2] = b[2] /\ a[3] < b[3]
  OBVIOUS
<1>4. /\ First(4) <=> a[1] = b[1] /\ a[2] = b[2] /\ a[3] = b[3] /\ a[4] < b[4]
  OBVIOUS
<1>5. /\ First(5) <=> a[1] = b[1] /\ a[2] = b[2] /\ a[3] = b[3] /\ a[4] = b[4] /\ a[5] < b[5]
  OBVIOUS
<1>6. First(6) <=> a[1] = b[1] /\ a[2] = b[2] /\ a[3] = b[3] /\ a[4] = b[4] /\ a[5] = b[5]
                     /\ a[6] < b[6]
  OBVIOUS
<1>7. SemverBefore(v, w) <=> \E i \in 1..6 : First(i)
  BY <1>1
<1> HIDE DEF First
<1>8. (\E i \in 1..6 : First(i)) <=>
        First(1) \/ First(2) \/ First(3) \/ First(4) \/ First(5) \/ First(6)
  BY <1>2
<1>. QED  BY <1>3, <1>4, <1>5, <1>6, <1>7, <1>8 DEF LexLess, a, b

\* The rank of a full version, part by part.
LEMMA RankParts ==
  ASSUME NEW t \in FullVersion
  PROVE  /\ SemverRank(t)[1] = t[1] /\ SemverRank(t)[2] = t[2] /\ SemverRank(t)[3] = t[3]
         /\ SemverRank(t)[4] = (IF t[4] = 0 THEN 1 ELSE 0)
         /\ SemverRank(t)[5] = t[4] /\ SemverRank(t)[6] = t[5]
  BY DEF SemverRank

\* The parts of a rank are numbers.
LEMMA RankTypes ==
  ASSUME NEW t \in FullVersion
  PROVE  /\ SemverRank(t)[1] \in Int /\ SemverRank(t)[2] \in Int
         /\ SemverRank(t)[3] \in Int /\ SemverRank(t)[4] \in Int
         /\ SemverRank(t)[5] \in Int /\ SemverRank(t)[6] \in Int
<1>1. (IF t[4] = 0 THEN 1 ELSE 0) \in Int
  OBVIOUS
<1>. QED  BY <1>1, FullParts, RankParts

\* Of two full versions one is before the other.
LEMMA BeforeIsTotal ==
  ASSUME NEW v \in FullVersion, NEW w \in FullVersion, v # w
  PROVE  SemverBefore(v, w) \/ SemverBefore(w, v)
<1>1. \/ v[1] # w[1] \/ v[2] # w[2] \/ v[3] # w[3] \/ v[4] # w[4] \/ v[5] # w[5]
  <2> SUFFICES ASSUME v[1] = w[1], v[2] = w[2], v[3] = w[3], v[4] = w[4], v[5] = w[5]
               PROVE  v = w
    OBVIOUS
  <2>1. ASSUME NEW i \in 1..5 PROVE v[i] = w[i]
    <3>1. i = 1 \/ i = 2 \/ i = 3 \/ i = 4 \/ i = 5
      OBVIOUS
    <3>. QED  BY <3>1
  <2>2. v \in Seq(Nat) /\ w \in Seq(Nat) /\ Len(v) = 5 /\ Len(w) = 5
    BY FullParts
  <2>. QED  BY <2>1, <2>2, SeqEqual
<1> DEFINE a == SemverRank(v)
           b == SemverRank(w)
<1> HIDE DEF a, b
<1>2. /\ a[1] \in Int /\ a[2] \in Int /\ a[3] \in Int
      /\ a[4] \in Int /\ a[5] \in Int /\ a[6] \in Int
      /\ b[1] \in Int /\ b[2] \in Int /\ b[3] \in Int
      /\ b[4] \in Int /\ b[5] \in Int /\ b[6] \in Int
  BY RankTypes DEF a, b
<1>3. a[1] # b[1] \/ a[2] # b[2] \/ a[3] # b[3] \/ a[5] # b[5] \/ a[6] # b[6]
  BY <1>1, RankParts DEF a, b
<1>4. LexLess(a, b) \/ LexLess(b, a)
  BY <1>2, <1>3 DEF LexLess
<1>. QED  BY <1>4, Lexicographic DEF a, b

\* The order is transitive.
LEMMA BeforeIsTransitive ==
  ASSUME NEW u \in FullVersion, NEW v \in FullVersion, NEW w \in FullVersion,
         SemverBefore(u, v), SemverBefore(v, w)
  PROVE  SemverBefore(u, w)
<1> DEFINE a == SemverRank(u)
           b == SemverRank(v)
           c == SemverRank(w)
<1> HIDE DEF a, b, c
<1>1. /\ a[1] \in Int /\ a[2] \in Int /\ a[3] \in Int
      /\ a[4] \in Int /\ a[5] \in Int /\ a[6] \in Int
      /\ b[1] \in Int /\ b[2] \in Int /\ b[3] \in Int
      /\ b[4] \in Int /\ b[5] \in Int /\ b[6] \in Int
      /\ c[1] \in Int /\ c[2] \in Int /\ c[3] \in Int
      /\ c[4] \in Int /\ c[5] \in Int /\ c[6] \in Int
  BY RankTypes DEF a, b, c
<1>2. LexLess(a, b) /\ LexLess(b, c)
  BY Lexicographic DEF a, b, c
<1>3. LexLess(a, c)
  BY <1>1, <1>2 DEF LexLess
<1>. QED  BY <1>3, Lexicographic DEF a, c

\* A finite set of full versions that is not empty has a highest one.  The smallest
\* set without one has a rest that is empty or has one.
LEMMA HighestExists ==
  ASSUME NEW S, IsFiniteSet(S), S \subseteq FullVersion, S # {}
  PROVE  \E v \in S : \A w \in S \ {v} : SemverBefore(w, v)
<1> DEFINE Has(T) == \E v \in T : \A w \in T \ {v} : SemverBefore(w, v)
           Bad == { T \in SUBSET S : T # {} /\ ~Has(T) }
<1> SUFFICES ASSUME Bad # {} PROVE FALSE
  OBVIOUS
<1>1. Bad \subseteq FiniteSubsetsOf(S)
  BY FS_FiniteSubsetsOfFinite
<1>2. PICK T \in Bad : \A U \in Bad : <<U, T>> \notin StrictSubsetOrdering(S)
  BY <1>1, FS_StrictSubsetOrderingWellFounded, WFMin
<1>3. PICK x \in T : TRUE
  BY <1>2
<1>4. T \ {x} \notin Bad
  <2>1. <<T \ {x}, T>> \in StrictSubsetOrdering(S)
    BY <1>2, <1>3 DEF StrictSubsetOrdering
  <2>. QED  BY <1>2, <2>1
<1>5. CASE T \ {x} = {}
  BY <1>2, <1>3, <1>5
<1>6. CASE T \ {x} # {}
  <2>1. PICK v \in T \ {x} : \A w \in (T \ {x}) \ {v} : SemverBefore(w, v)
    BY <1>2, <1>4, <1>6
  <2>2. x \in FullVersion /\ v \in FullVersion /\ T \subseteq FullVersion
    BY <1>2, <1>3, <2>1
  <2>3. CASE SemverBefore(x, v)
    BY <1>2, <2>1, <2>3
  <2>4. CASE SemverBefore(v, x)
    <3>1. ASSUME NEW w \in T \ {x} PROVE SemverBefore(w, x)
      BY <2>1, <2>2, <2>4, <3>1, BeforeIsTransitive
    <3>. QED  BY <1>2, <1>3, <3>1
  <2>. QED  BY <2>1, <2>2, <2>3, <2>4, BeforeIsTotal
<1>. QED  BY <1>5, <1>6

\* An alias resolves to the highest version that it matches, and to itself when it
\* matches none.
LEMMA ResolvesToHighest ==
  ASSUME NEW listed, IsFiniteSet(listed), listed \subseteq FullVersion, NEW requested
  PROVE  LET matching == Matching(listed, requested)
             path     == resolveVersion(listed, requested)
         IN IF matching = {} THEN path = requested
            ELSE path \in matching /\ \A w \in matching \ {path} : SemverBefore(w, path)
<1> DEFINE matching == Matching(listed, requested)
<1>1. matching \subseteq listed
  BY DEF Matching
<1>2. IsFiniteSet(matching)
  BY <1>1, FS_Subset
<1>3. matching # {} => \E v \in matching : \A w \in matching \ {v} : SemverBefore(w, v)
  BY <1>1, <1>2, HighestExists
<1> HIDE DEF matching
<1>4. resolveVersion(listed, requested) =
        IF matching = {} THEN requested
        ELSE CHOOSE v \in matching : \A w \in matching \ {v} : SemverBefore(w, v)
  BY DEF resolveVersion, matching
<1>5. IF matching = {} THEN resolveVersion(listed, requested) = requested
      ELSE /\ resolveVersion(listed, requested) \in matching
           /\ \A w \in matching \ {resolveVersion(listed, requested)} :
                SemverBefore(w, resolveVersion(listed, requested))
  BY <1>3, <1>4
<1>. QED  BY <1>5 DEF matching

\* No version is before one that is before it.
LEMMA BeforeIsStrict ==
  ASSUME NEW v \in FullVersion, NEW w \in FullVersion, SemverBefore(v, w)
  PROVE  v # w /\ ~SemverBefore(w, v)
<1> DEFINE a == SemverRank(v)
<1>1. /\ a[1] \in Int /\ a[2] \in Int /\ a[3] \in Int
      /\ a[4] \in Int /\ a[5] \in Int /\ a[6] \in Int
  BY RankTypes
<1> HIDE DEF a
<1>2. ~LexLess(a, a)
  BY <1>1 DEF LexLess
<1>3. ~SemverBefore(v, v)
  BY <1>2, Lexicographic DEF a
<1>. QED  BY <1>3, BeforeIsTransitive

\* Highest first.
Descending(page) == \A m, n \in DOMAIN page : m < n => SemverBefore(page[n], page[m])

\* A finite set of full versions can be put in order: the highest goes in front of
\* the others, which can in a smallest counterexample.
LEMMA PageExists ==
  ASSUME NEW S, IsFiniteSet(S), S \subseteq FullVersion
  PROVE  \E page \in [1..Cardinality(S) -> S] : Descending(page)
<1> DEFINE Has(T) == \E page \in [1..Cardinality(T) -> T] : Descending(page)
           Bad == { T \in SUBSET S : ~Has(T) }
<1> SUFFICES ASSUME Bad # {} PROVE FALSE
  OBVIOUS
<1>1. Bad \subseteq FiniteSubsetsOf(S)
  BY FS_FiniteSubsetsOfFinite
<1>2. PICK T \in Bad : \A U \in Bad : <<U, T>> \notin StrictSubsetOrdering(S)
  BY <1>1, FS_StrictSubsetOrderingWellFounded, WFMin
<1>3. T \subseteq FullVersion /\ IsFiniteSet(T) /\ ~Has(T)
  BY <1>2, FS_Subset
<1>4. T # {}
  <2>1. SUFFICES ASSUME T = {} PROVE FALSE
    OBVIOUS
  <2>2. Cardinality(T) = 0
    BY <2>1, FS_EmptySet
  <2> DEFINE page == [i \in 1..0 |-> i]
  <2>3. DOMAIN page = {} /\ page \in [1..Cardinality(T) -> T]
    BY <2>2
  <2>4. Descending(page)
    BY <2>3 DEF Descending
  <2>. QED  BY <1>3, <2>3, <2>4
<1>5. PICK v \in T : \A w \in T \ {v} : SemverBefore(w, v)
  BY <1>3, <1>4, HighestExists
<1>6. T \ {v} \notin Bad
  <2>1. <<T \ {v}, T>> \in StrictSubsetOrdering(S)
    BY <1>2, <1>5 DEF StrictSubsetOrdering
  <2>. QED  BY <1>2, <2>1
<1>7. PICK rest \in [1..Cardinality(T \ {v}) -> T \ {v}] : Descending(rest)
  BY <1>2, <1>6
<1> DEFINE n == Cardinality(T)
<1>8. n \in Nat /\ Cardinality(T \ {v}) = n - 1
  BY <1>3, <1>5, FS_RemoveElement, FS_CardinalityType
<1>9. rest \in [1..(n - 1) -> T \ {v}]
  BY <1>7, <1>8
<1> HIDE DEF n
<1> DEFINE page == [i \in 1..n |-> IF i = 1 THEN v ELSE rest[i - 1]]
<1>10. page \in [1..n -> T]
  <2>1. ASSUME NEW i \in 1..n, i # 1 PROVE i - 1 \in 1..(n - 1)
    BY <1>8, <2>1
  <2>. QED  BY <1>5, <1>9, <2>1
<1>11. ASSUME NEW i \in 1..n, NEW j \in 1..n, i < j
       PROVE  SemverBefore(page[j], page[i])
  <2>1. j # 1 /\ j - 1 \in 1..(n - 1)
    BY <1>8, <1>11
  <2>2. page[j] = rest[j - 1] /\ rest[j - 1] \in T \ {v}
    BY <1>9, <2>1
  <2>3. CASE i = 1
    BY <1>5, <2>2, <2>3
  <2>4. CASE i # 1
    <3>1. i - 1 \in 1..(n - 1) /\ i - 1 < j - 1
      BY <1>8, <1>11, <2>4
    <3>2. DOMAIN rest = 1..(n - 1)
      BY <1>9
    <3>3. SemverBefore(rest[j - 1], rest[i - 1])
      BY <1>7, <2>1, <3>1, <3>2, Zenon DEF Descending
    <3>. QED  BY <2>2, <2>4, <3>3
  <2>. QED  BY <2>3, <2>4
<1>12. Descending(page)
  <2>1. DOMAIN page = 1..n
    OBVIOUS
  <2> HIDE DEF page
  <2>. QED  BY <1>11, <2>1 DEF Descending
<1> HIDE DEF page
<1>. QED  BY <1>3, <1>10, <1>12 DEF n

\* Every listed version is on the page, behind the ones it is before and no others.
LEMMA PageIsSorted ==
  ASSUME NEW listed, IsFiniteSet(listed), listed \subseteq FullVersion, NEW v \in listed
  PROVE  \E n \in DOMAIN ListVersions(listed) :
           /\ ListVersions(listed)[n] = v
           /\ \A m \in 1..(n - 1) :
                /\ ListVersions(listed)[m] \in listed
                /\ SemverBefore(v, ListVersions(listed)[m])
<1> DEFINE page == ListVersions(listed)
           size == Cardinality(listed)
<1>1. { w \in listed : isFullSemver(w) } = listed
  BY DEF FullVersion
<1>2. page = CHOOSE p \in [1..size -> listed] : Descending(p)
  BY <1>1, Zenon DEF ListVersions, Descending
<1>3. page \in [1..size -> listed] /\ Descending(page)
  BY <1>2, PageExists
<1>4. size \in Nat
  BY FS_CardinalityType
<1> HIDE DEF page, size
<1>5. ASSUME NEW m \in 1..size, NEW n \in 1..size, m < n
      PROVE  SemverBefore(page[n], page[m]) /\ page[n] # page[m]
  <2>1. SemverBefore(page[n], page[m])
    BY <1>3, <1>5 DEF Descending
  <2>. QED  BY <1>3, <2>1, BeforeIsStrict
<1>6. page \in Injection(1..size, listed)
  <2>1. ASSUME NEW m \in 1..size, NEW n \in 1..size, page[m] = page[n] PROVE m = n
    <3>1. m < n \/ n < m \/ m = n
      BY <1>4
    <3>. QED  BY <1>5, <2>1, <3>1
  <2>. QED  BY <1>3, <2>1 DEF Injection, IsInjective
<1>7. IsFiniteSet(1..size) /\ Cardinality(1..size) = size
  <2>1. IsFiniteSet(1..size) /\ Cardinality(1..size) = IF 1 > size THEN 0 ELSE size - 1 + 1
    BY <1>4, FS_Interval
  <2>. QED  BY <1>4, <2>1
<1>8. page \in Surjection(1..size, listed)
  BY <1>6, <1>7, FS_Injection DEF size
<1>9. PICK n \in 1..size : page[n] = v
  BY <1>8 DEF Surjection
<1>10. DOMAIN page = 1..size
  BY <1>3
<1>11. ASSUME NEW m \in 1..(n - 1) PROVE page[m] \in listed /\ SemverBefore(v, page[m])
  <2>1. m \in 1..size /\ m < n
    BY <1>4
  <2>. QED  BY <1>3, <1>5, <1>9, <2>1
<1>. QED  BY <1>9, <1>10, <1>11, Zenon DEF page

-----------------------------------------------------------------------------
(* What an invalidation reaches                                            *)

\* v is what the text r may have been resolved to.
Sourced(r, v) == v = r \/ versionMatches(v, r)

\* The prefixes that are dropped for a version, as a set.
LEMMA PrefixesOf ==
  ASSUME NEW v \in FullVersion
  PROVE  /\ InvalidatedPrefixes(v) \in Seq(Text)
         /\ Range(InvalidatedPrefixes(v)) = {v, Latest, <<v[1]>>, <<v[1], v[2]>>}
<1> DEFINE tail == mutableAliasPrefixes(v)
           all  == InvalidatedPrefixes(v)
<1>1. v \in Text /\ Latest \in Text /\ <<v[1]>> \in Text /\ <<v[1], v[2]>> \in Text
  BY FullParts DEF Text, Latest
<1>2. tail \in Seq(Text) /\ Len(tail) = 3
      /\ tail[1] = Latest /\ tail[2] = <<v[1]>> /\ tail[3] = <<v[1], v[2]>>
  BY <1>1 DEF mutableAliasPrefixes
<1>3. <<v>> \in Seq(Text) /\ Len(<<v>>) = 1 /\ <<v>>[1] = v
  BY <1>1
<1> HIDE DEF tail
<1>4. all = <<v>> \o tail
  BY DEF InvalidatedPrefixes, tail
<1>5. /\ all \in Seq(Text) /\ Len(all) = 4
      /\ all[1] = v /\ all[2] = Latest /\ all[3] = <<v[1]>> /\ all[4] = <<v[1], v[2]>>
  BY <1>2, <1>3, <1>4, ConcatProperties
<1> HIDE DEF all
<1>6. DOMAIN all = 1..4
  BY <1>5
<1>7. \A i \in 1..4 : i = 1 \/ i = 2 \/ i = 3 \/ i = 4
  OBVIOUS
<1>8. Range(all) = {all[1], all[2], all[3], all[4]}
  BY <1>6, <1>7 DEF Range
<1>. QED  BY <1>5, <1>8 DEF all

\* The digits of a number open themselves.
LEMMA OwnDigits ==
  ASSUME NEW n \in Nat
  PROVE  DigitsPrefix(n, n)
  BY DEF DigitsPrefix

\* Every text is a prefix of itself.
LEMMA OwnPrefix ==
  ASSUME NEW t \in Text, t = Latest \/ Len(t) \in {1, 2, 5}
  PROVE  TextPrefixOf(t, t)
<1>1. CASE t = Latest
  BY <1>1 DEF TextPrefixOf
<1>2. CASE Len(t) \in {1, 2, 5}
  <2> DEFINE n == IF isFullSemver(t) THEN 3 ELSE Len(t)
  <2>1. n \in 1..Len(t)
    BY <1>2 DEF isFullSemver
  <2>2. DigitsPrefix(t[n], t[n]) /\ Len(t) >= n
    BY <1>2, <2>1, ElementOfSeq, OwnDigits DEF Text
  <2>. QED  BY <2>2 DEF TextPrefixOf
<1>. QED  BY <1>1, <1>2

\* One of the prefixes dropped for v opens every text that may resolve to v.
LEMMA SourcedIsCovered ==
  ASSUME NEW v \in FullVersion, NEW r \in Text, Sourced(r, v)
  PROVE  \E p \in Range(InvalidatedPrefixes(v)) : TextPrefixOf(p, r)
<1>1. CASE v = r
  <2>1. TextPrefixOf(v, r)
    BY <1>1, OwnPrefix DEF FullVersion, isFullSemver
  <2>. QED  BY <2>1, PrefixesOf
<1>2. CASE r = Latest
  <2>1. TextPrefixOf(Latest, r)
    BY <1>2, OwnPrefix
  <2>. QED  BY <2>1, PrefixesOf
<1>3. CASE Len(r) \in {1, 2} /\ SubSeq(v, 1, Len(r)) = r
  <2>1. TextPrefixOf(r, r)
    BY <1>3, OwnPrefix
  <2>2. r = <<v[1]>> \/ r = <<v[1], v[2]>>
    <3>1. v \in Seq(Nat) /\ Len(v) = 5
      BY FullParts
    <3>2. Len(r) = 1 => r[1] = v[1]
      BY <1>3, <3>1
    <3>3. Len(r) = 2 => r[1] = v[1] /\ r[2] = v[2]
      BY <1>3, <3>1
    <3>. QED  BY <1>3, <3>2, <3>3 DEF Text
  <2>. QED  BY <2>1, <2>2, PrefixesOf
<1>. QED  BY <1>1, <1>2, <1>3 DEF Sourced, versionMatches

-----------------------------------------------------------------------------
(* The invariants                                                          *)

Paths == Requested \union Versions

Fetches == [pc : {"lookup", "resolve", "fill", "serve"}, asked : Requested, path : Paths]

Deletions ==
  [pc : {"remove", "invalidate", "failed", "done"}, version : Versions,
   prefixes : Seq(Text)]

\* The types, and that the bucket holds finitely many versions.
Types ==
  /\ stored \in [Versions -> {"absent", "partial", "full"}]
  /\ Keys \subseteq Requested
  /\ \A r \in Keys : cache[r] \in Paths
  /\ reader \in [Readers -> Fetches \union {Idle}]
  /\ del \in [Deletes -> Deletions \union {Idle}]
  /\ IsFiniteSet(Listed)

\* What a key is mapped to, or is about to be, is something that its text may
\* resolve to.
SourceInv ==
  /\ \A r \in Keys : Sourced(r, cache[r])
  /\ \A g \in Readers :
       reader[g].pc = "fill" => Sourced(reader[g].asked, reader[g].path)

\* A deletion of the version that r points at has a prefix of r left to drop.
Awaited(r) ==
  \E d \in Deletes :
    /\ del[d].pc = "invalidate" /\ del[d].version = cache[r]
    /\ \E p \in Range(del[d].prefixes) : TextPrefixOf(p, r)

\* An entry whose version is gone is excused or about to be dropped.
StaleInv ==
  \A r \in Keys :
    cache[r] \in Versions /\ stored[cache[r]] = "absent" => r \in excused \/ Awaited(r)

Inv == Types /\ SourceInv /\ StaleInv

\* Every version is full.
LEMMA VersionsAreFull == Versions \subseteq FullVersion /\ Requested \subseteq Text
  BY AliasAssumption DEF FullVersion, Text

\* The prefixes of a deletion reach every entry that points at its version.
LEMMA EntriesAreCovered ==
  ASSUME Inv, NEW r \in Keys, cache[r] \in Versions
  PROVE  \E p \in Range(InvalidatedPrefixes(cache[r])) : TextPrefixOf(p, r)
<1>1. cache[r] \in FullVersion /\ r \in Text /\ Sourced(r, cache[r])
  BY VersionsAreFull DEF Inv, Types, SourceInv
<1>. QED  BY <1>1, SourcedIsCovered

\* Only a first upload makes the bucket list more versions, and then one.
LEMMA ListedGrowsByOne ==
  ASSUME Inv, NEW v \in Versions, \A w \in Versions \ {v} : stored'[w] = stored[w]
  PROVE  IsFiniteSet(Listed')
<1>1. Listed' \subseteq Listed \union {v}
  BY DEF Listed
<1>2. IsFiniteSet(Listed \union {v})
  BY FS_AddElement DEF Inv, Types
<1>. QED  BY <1>1, <1>2, FS_Subset

\* The uploads.
LEMMA UploadSteps ==
  ASSUME Inv, NEW v \in Versions,
         StartUpload(v) \/ FinishUpload(v) \/ RollBackUpload(v) \/ AbandonUpload(v)
  PROVE  Inv'
<1> USE DEF Inv, Types
<1>1. UNCHANGED <<cache, reader, del>>
  BY DEF StartUpload, FinishUpload, RollBackUpload, AbandonUpload
<1>2. /\ stored' \in [Versions -> {"absent", "partial", "full"}]
      /\ \A w \in Versions \ {v} : stored'[w] = stored[w]
  BY DEF StartUpload, FinishUpload, RollBackUpload, AbandonUpload
<1>3. Types'
  BY <1>1, <1>2, ListedGrowsByOne DEF Keys
<1>4. SourceInv'
  BY <1>1 DEF SourceInv, Keys
<1>5. \A r \in Keys : Awaited(r) => Awaited(r)'
  BY <1>1 DEF Awaited
<1>6. StaleInv'
  <2>1. CASE RollBackUpload(v)
    <3>1. \A r \in Keys : r \in excused \/ cache[r] = v => r \in excused'
      BY <2>1 DEF RollBackUpload, Excuse, PointingAt, Keys
    <3>. QED  BY <1>1, <1>2, <1>5, <3>1 DEF StaleInv, Keys
  <2>2. CASE ~RollBackUpload(v)
    <3>1. excused' = excused /\ (stored'[v] = "absent" => stored[v] = "absent")
      BY <2>2 DEF StartUpload, FinishUpload, AbandonUpload
    <3>. QED  BY <1>1, <1>2, <1>5, <3>1 DEF StaleInv, Keys
  <2>. QED  BY <2>1, <2>2
<1>. QED  BY <1>3, <1>4, <1>6

\* A listing, whole or cut short, resolves to something that matches.
LEMMA ResolveSources ==
  ASSUME Inv, NEW g \in Readers, reader[g].pc = "resolve",
         NEW listed \in SUBSET Listed, ResolveIn(g, listed),
         UNCHANGED <<stored, cache, del, excused>>
  PROVE  Inv'
<1> USE DEF Inv, Types
<1> DEFINE path == resolveVersion(listed, reader[g].asked)
<1>1. reader[g] \in Fetches
  BY DEF Idle
<1>2. reader[g].asked \in Requested
  BY <1>1 DEF Fetches
<1>3. path \in Paths /\ Sourced(reader[g].asked, path)
  <2>1. IsFiniteSet(listed) /\ listed \subseteq Versions
    BY FS_Subset DEF Listed
  <2>2. IF Matching(listed, reader[g].asked) = {} THEN path = reader[g].asked
        ELSE path \in Matching(listed, reader[g].asked)
    BY <2>1, VersionsAreFull, ResolvesToHighest
  <2>. QED  BY <1>2, <2>1, <2>2 DEF Matching, Sourced, Paths
<1> HIDE DEF path
<1>4. reader' = [reader EXCEPT ![g] = [reader[g] EXCEPT !.pc = "fill", !.path = path]]
  BY DEF ResolveIn, path
<1>5. /\ reader'[g] \in Fetches /\ reader'[g].asked = reader[g].asked
      /\ reader'[g].path = path
      /\ \A h \in Readers \ {g} : reader'[h] = reader[h]
      /\ reader' \in [Readers -> Fetches \union {Idle}]
  BY <1>1, <1>3, <1>4 DEF Fetches
<1>6. Types'
  BY <1>5 DEF Keys, Listed
<1>7. SourceInv'
  BY <1>3, <1>5 DEF SourceInv, Keys
<1>8. StaleInv'
  BY DEF StaleInv, Awaited, Keys
<1>. QED  BY <1>6, <1>7, <1>8

\* A reader that moves on without a listing, and leaves the cache alone.
LEMMA ReaderMoves ==
  ASSUME Inv, NEW g \in Readers, UNCHANGED <<stored, cache, del, excused>>,
         NEW f \in Fetches \union {Idle}, f.pc # "fill",
         reader' = [reader EXCEPT ![g] = f]
  PROVE  Inv'
<1> USE DEF Inv, Types
<1>1. Types'
  BY DEF Keys, Listed
<1>2. SourceInv'
  BY DEF SourceInv, Keys
<1>3. StaleInv'
  BY DEF StaleInv, Awaited, Keys
<1>. QED  BY <1>1, <1>2, <1>3

\* GetFile: the lookup, the resolution, the fill and the answer.
LEMMA ReaderSteps ==
  ASSUME Inv, NEW g \in Readers, Request(g) \/ ReaderStep(g)
  PROVE  Inv'
<1> USE DEF Inv, Types
<1>1. CASE Request(g)
  <2>1. PICK r \in Requested :
          reader' = [reader EXCEPT ![g] =
                       [pc |-> IF IsPinnedVersion(r) THEN "serve" ELSE "lookup",
                        asked |-> r, path |-> r]]
    BY <1>1 DEF Request
  <2> DEFINE f == [pc |-> IF IsPinnedVersion(r) THEN "serve" ELSE "lookup",
                   asked |-> r, path |-> r]
  <2>2. f \in Fetches /\ f.pc # "fill"
    BY DEF Fetches, Paths
  <2>3. UNCHANGED <<stored, cache, del, excused>>
    BY <1>1 DEF Request
  <2> HIDE DEF f
  <2>4. reader' = [reader EXCEPT ![g] = f]
    BY <2>1 DEF f
  <2>. QED  BY <2>2, <2>3, <2>4, ReaderMoves
<1>2. CASE Serve(g)
  <2>1. UNCHANGED <<stored, cache, del, excused>> /\ reader' = [reader EXCEPT ![g] = Idle]
    BY <1>2 DEF Serve
  <2>2. Idle.pc # "fill"
    BY DEF Idle
  <2>. QED  BY <2>1, <2>2, ReaderMoves
<1>3. CASE CacheHit(g)
  <2>1. reader[g] \in Fetches
    BY <1>3 DEF CacheHit, At, Idle
  <2> DEFINE f == [reader[g] EXCEPT !.pc = "serve", !.path = cache[reader[g].asked]]
  <2>2. f \in Fetches /\ f.pc # "fill"
    BY <1>3, <2>1 DEF CacheHit, Fetches
  <2> HIDE DEF f
  <2>3. UNCHANGED <<stored, cache, del, excused>> /\ reader' = [reader EXCEPT ![g] = f]
    BY <1>3 DEF CacheHit, f
  <2>. QED  BY <2>2, <2>3, ReaderMoves
<1>4. CASE CacheMiss(g) \/ FillFails(g)
  <2>1. reader[g] \in Fetches
    BY <1>4 DEF CacheMiss, FillFails, At, Idle
  <2>2. PICK pc \in {"resolve", "serve"} : Goto(g, pc)
    BY <1>4 DEF CacheMiss, FillFails
  <2> DEFINE f == [reader[g] EXCEPT !.pc = pc]
  <2>3. f \in Fetches /\ f.pc # "fill"
    BY <2>1, <2>2 DEF Fetches
  <2> HIDE DEF f
  <2>4. UNCHANGED <<stored, cache, del, excused>> /\ reader' = [reader EXCEPT ![g] = f]
    BY <1>4, <2>2 DEF CacheMiss, FillFails, Goto, f
  <2>. QED  BY <2>3, <2>4, ReaderMoves
<1>5. CASE Resolve(g)
  BY <1>5, ResolveSources DEF Resolve, At
<1>6. CASE ResolveBroken(g)
  BY <1>6, ResolveSources DEF ResolveBroken, At
<1>7. CASE Fill(g)
  <2> DEFINE r == reader[g].asked
             path == reader[g].path
             f == [reader[g] EXCEPT !.pc = "serve"]
  <2>1. reader[g] \in Fetches /\ reader[g].pc = "fill"
    BY <1>7 DEF Fill, At, Idle
  <2>2. r \in Requested /\ path \in Paths /\ Sourced(r, path)
    BY <2>1 DEF Fetches, SourceInv
  <2>3. f \in Fetches /\ f.pc # "fill"
    BY <2>1 DEF Fetches
  <2>4. UNCHANGED <<stored, del>> /\ reader' = [reader EXCEPT ![g] = f]
    BY <1>7 DEF Fill, Goto
  <2>5. /\ Keys' = Keys \union {r} /\ cache'[r] = path
        /\ \A k \in Keys \ {r} : cache'[k] = cache[k]
    BY <1>7 DEF Fill, Keys
  <2>6. /\ State(path) = "absent" => r \in excused'
        /\ \A k \in Keys \ {r} : k \in excused => k \in excused'
    BY <1>7 DEF Fill
  <2> HIDE DEF r, path, f
  <2>7. Types'
    BY <2>2, <2>3, <2>4, <2>5 DEF Listed
  <2>8. SourceInv'
    BY <2>2, <2>3, <2>4, <2>5 DEF SourceInv
  <2>9. ASSUME NEW k \in Keys', cache'[k] \in Versions, stored'[cache'[k]] = "absent"
        PROVE  k \in excused' \/ Awaited(k)'
    <3>1. CASE k = r
      BY <2>4, <2>5, <2>6, <2>9, <3>1 DEF State
    <3>2. CASE k # r
      <4>1. k \in Keys /\ cache'[k] = cache[k]
        BY <2>5, <3>2
      <4>2. k \in excused \/ Awaited(k)
        BY <2>4, <2>9, <4>1 DEF StaleInv
      <4>3. Awaited(k) => Awaited(k)'
        BY <2>4, <4>1 DEF Awaited
      <4>. QED  BY <2>6, <3>2, <4>1, <4>2, <4>3
    <3>. QED  BY <3>1, <3>2
  <2>. QED  BY <2>7, <2>8, <2>9 DEF StaleInv
<1>. QED  BY <1>1, <1>2, <1>3, <1>4, <1>5, <1>6, <1>7 DEF ReaderStep

\* A deletion d becomes e, which has no fewer prefixes unless the keys they opened
\* are gone or excused.  Keys that stay keep their entries.
LEMMA DeletionMoves ==
  ASSUME Inv, NEW d \in Deletes, NEW e \in Deletions, del' = [del EXCEPT ![d] = e],
         reader' = reader,
         stored' \in [Versions -> {"absent", "partial", "full"}], IsFiniteSet(Listed'),
         Keys' \subseteq Keys, \A k \in Keys' : cache'[k] = cache[k],
         \A k \in Keys' :
           cache[k] \in Versions /\ stored'[cache[k]] = "absent" =>
             \/ k \in excused' \/ Awaited(k)'
             \/ stored[cache[k]] = "absent" /\ k \notin excused
                  /\ ~(/\ del[d].pc = "invalidate" /\ del[d].version = cache[k]
                       /\ \E p \in Range(del[d].prefixes) : TextPrefixOf(p, k))
  PROVE  Inv'
<1> USE DEF Inv, Types
<1>1. Types'
  BY DEF Types
<1>2. SourceInv'
  BY DEF SourceInv
<1>3. ASSUME NEW k \in Keys', cache'[k] \in Versions, stored'[cache'[k]] = "absent",
             stored[cache[k]] = "absent" /\ k \notin excused,
             ~(/\ del[d].pc = "invalidate" /\ del[d].version = cache[k]
               /\ \E p \in Range(del[d].prefixes) : TextPrefixOf(p, k))
      PROVE  Awaited(k)'
  <2>1. k \in Keys /\ cache'[k] = cache[k]
    BY <1>3
  <2>2. Awaited(k)
    BY <1>3, <2>1 DEF StaleInv
  <2>3. PICK c \in Deletes : /\ del[c].pc = "invalidate" /\ del[c].version = cache[k]
                             /\ \E p \in Range(del[c].prefixes) : TextPrefixOf(p, k)
    BY <2>2 DEF Awaited
  <2>4. c # d /\ del'[c] = del[c]
    BY <1>3, <2>3
  <2>. QED  BY <2>1, <2>3, <2>4 DEF Awaited
<1>4. StaleInv'
  BY <1>3 DEF StaleInv
<1>. QED  BY <1>1, <1>2, <1>4

\* What a prefix that is dropped leaves of the others.
LEMMA RestOfPrefixes ==
  ASSUME NEW s \in Seq(Text), s # <<>>
  PROVE  /\ Tail(s) \in Seq(Text) /\ Head(s) \in Text
         /\ \A p \in Range(s) : p = Head(s) \/ p \in Range(Tail(s))
<1>1. Tail(s) \in Seq(Text) /\ Head(s) \in Text /\ Head(s) = s[1]
      /\ Len(s) \in Nat \ {0} /\ Len(Tail(s)) = Len(s) - 1
      /\ \A i \in 1..Len(Tail(s)) : Tail(s)[i] = s[i + 1]
  BY HeadTailProperties
<1>2. ASSUME NEW i \in 1..Len(s), i # 1 PROVE s[i] \in Range(Tail(s))
  <2>1. i - 1 \in 1..Len(Tail(s)) /\ Tail(s)[i - 1] = s[i]
    BY <1>1, <1>2
  <2>2. DOMAIN Tail(s) = 1..Len(Tail(s))
    BY <1>1
  <2>. QED  BY <2>1, <2>2 DEF Range
<1>3. DOMAIN s = 1..Len(s)
  OBVIOUS
<1>. QED  BY <1>1, <1>2, <1>3 DEF Range

\* DeletePackage: the removal and the invalidation.
LEMMA DeleteSteps ==
  ASSUME Inv, NEW d \in Deletes, BeginDelete(d) \/ DeleteStep(d)
  PROVE  Inv'
<1> USE DEF Inv, Types
<1>0. reader' = reader
  BY DEF BeginDelete, DeleteStep, RemoveFile, RemoveDone, RemoveFails, DeleteByPrefix,
         DeleteByPrefixFails, DeleteDone
<1>1. ASSUME NEW e \in Deletions, del' = [del EXCEPT ![d] = e],
             del[d].pc # "invalidate" \/ del[d].prefixes = <<>>,
             UNCHANGED <<stored, cache, excused>>
      PROVE  Inv'
  <2>1. ASSUME NEW k \in Keys
        PROVE  ~(/\ del[d].pc = "invalidate" /\ del[d].version = cache[k]
                 /\ \E p \in Range(del[d].prefixes) : TextPrefixOf(p, k))
    BY <1>1 DEF Range
  <2>2. Listed' = Listed /\ Keys' = Keys
    BY <1>1 DEF Listed, Keys
  <2>. QED  BY <1>0, <1>1, <2>1, <2>2, DeletionMoves
<1>2. CASE BeginDelete(d)
  <2>1. PICK v \in Versions :
          del' = [del EXCEPT ![d] = [pc |-> "remove", version |-> v, prefixes |-> <<>>]]
    BY <1>2 DEF BeginDelete
  <2> DEFINE e == [pc |-> "remove", version |-> v, prefixes |-> <<>>]
  <2>2. e \in Deletions
    BY DEF Deletions
  <2> HIDE DEF e
  <2>3. del' = [del EXCEPT ![d] = e]
    BY <2>1 DEF e
  <2>. QED  BY <1>1, <1>2, <2>2, <2>3 DEF BeginDelete
<1>3. ASSUME del[d].pc \in {"remove", "invalidate"}
      PROVE  del[d] \in Deletions /\ del[d].version \in Versions
             /\ del[d].prefixes \in Seq(Text)
  <2>1. del[d] \in Deletions
    BY <1>3 DEF Idle
  <2>. QED  BY <2>1 DEF Deletions
<1>4. CASE DeleteDone(d)
  <2>1. [del[d] EXCEPT !.pc = "done"] \in Deletions
    BY <1>3, <1>4 DEF DeleteDone, Deletions
  <2>. QED  BY <1>1, <1>4, <2>1 DEF DeleteDone
<1>5. CASE RemoveFile(d)
  <2>1. del[d].version \in Versions /\ UNCHANGED <<cache, del, excused>>
        /\ stored' = [stored EXCEPT ![del[d].version] = "partial"]
    BY <1>3, <1>5 DEF RemoveFile
  <2>2. IsFiniteSet(Listed')
    BY <2>1, ListedGrowsByOne
  <2>3. Types' /\ SourceInv'
    BY <1>0, <2>1, <2>2 DEF SourceInv, Keys
  <2>4. \A r \in Keys : Awaited(r) => Awaited(r)'
    BY <2>1 DEF Awaited
  <2>5. StaleInv'
    BY <2>1, <2>4 DEF StaleInv, Keys
  <2>. QED  BY <2>3, <2>5
<1>6. CASE RemoveDone(d)
  <2> DEFINE v == del[d].version
             e == [del[d] EXCEPT !.pc = "invalidate", !.prefixes = InvalidatedPrefixes(v)]
  <2>1. /\ del[d].pc = "remove" /\ UNCHANGED <<cache, excused>>
        /\ stored' = [stored EXCEPT ![v] = "absent"]
        /\ del' = [del EXCEPT ![d] = e]
    BY <1>6 DEF RemoveDone
  <2>2. del[d] \in Deletions /\ v \in Versions
    BY <1>3, <2>1
  <2>3. e \in Deletions /\ e.pc = "invalidate" /\ e.version = v
        /\ e.prefixes = InvalidatedPrefixes(v)
    BY <2>2, PrefixesOf, VersionsAreFull DEF Deletions
  <2> HIDE DEF v, e
  <2>4. Keys' = Keys /\ stored' \in [Versions -> {"absent", "partial", "full"}]
        /\ IsFiniteSet(Listed')
    BY <2>1, <2>2, ListedGrowsByOne DEF Keys
  <2>5. ASSUME NEW k \in Keys, cache[k] = v PROVE Awaited(k)'
    <3>1. \E p \in Range(e.prefixes) : TextPrefixOf(p, k)
      BY <2>2, <2>3, <2>5, EntriesAreCovered
    <3>2. del'[d] = e /\ cache'[k] = v
      BY <2>1, <2>5
    <3>. QED  BY <2>3, <3>1, <3>2 DEF Awaited
  <2>6. ASSUME NEW k \in Keys', cache[k] \in Versions, stored'[cache[k]] = "absent"
        PROVE  \/ k \in excused' \/ Awaited(k)'
               \/ stored[cache[k]] = "absent" /\ k \notin excused /\ del[d].pc # "invalidate"
    BY <2>1, <2>2, <2>4, <2>5, <2>6
  <2>. QED  BY <1>0, <2>1, <2>3, <2>4, <2>6, DeletionMoves
<1>7. CASE RemoveFails(d)
  <2> DEFINE v == del[d].version
             e == [del[d] EXCEPT !.pc = "failed"]
  <2>1. /\ del[d].pc = "remove" /\ cache' = cache
        /\ del' = [del EXCEPT ![d] = e]
    BY <1>7 DEF RemoveFails
  <2>2. del[d] \in Deletions /\ v \in Versions
    BY <1>3, <2>1
  <2>3. e \in Deletions
    BY <2>2 DEF Deletions
  <2>4. CASE UNCHANGED <<stored, excused>>
    BY <1>1, <2>1, <2>3, <2>4
  <2>5. CASE stored' = [stored EXCEPT ![v] = "absent"] /\ Excuse(PointingAt(v))
    <3>1. \A k \in Keys : k \in excused \/ cache[k] = v => k \in excused'
      BY <2>1, <2>5 DEF Excuse, PointingAt, Keys
    <3> HIDE DEF v, e
    <3>2. Keys' = Keys /\ stored' \in [Versions -> {"absent", "partial", "full"}]
          /\ IsFiniteSet(Listed')
      BY <2>1, <2>2, <2>5, ListedGrowsByOne DEF Keys
    <3>3. ASSUME NEW k \in Keys', cache[k] \in Versions, stored'[cache[k]] = "absent"
          PROVE  \/ k \in excused'
                 \/ stored[cache[k]] = "absent" /\ k \notin excused
                      /\ del[d].pc # "invalidate"
      BY <2>1, <2>2, <2>5, <3>1, <3>2, <3>3
    <3>. QED  BY <1>0, <2>1, <2>3, <3>2, <3>3, DeletionMoves
  <2>. QED  BY <1>7, <2>4, <2>5 DEF RemoveFails
<1>8. CASE DeleteByPrefix(d) \/ DeleteByPrefixFails(d)
  <2> DEFINE head == Head(del[d].prefixes)
             e == [del[d] EXCEPT !.prefixes = Tail(del[d].prefixes)]
  <2>1. /\ del[d].pc = "invalidate" /\ del[d].prefixes # <<>>
        /\ del' = [del EXCEPT ![d] = e] /\ UNCHANGED stored
    BY <1>8 DEF DeleteByPrefix, DeleteByPrefixFails, Invalidating, NextPrefix
  <2>2. del[d] \in Deletions /\ del[d].prefixes \in Seq(Text)
    BY <1>3, <2>1
  <2>3. Tail(del[d].prefixes) \in Seq(Text)
        /\ \A p \in Range(del[d].prefixes) : p = head \/ p \in Range(Tail(del[d].prefixes))
    BY <2>1, <2>2, RestOfPrefixes
  <2>4. e \in Deletions /\ e.pc = "invalidate" /\ e.version = del[d].version
        /\ e.prefixes = Tail(del[d].prefixes)
    BY <2>1, <2>2, <2>3 DEF Deletions
  <2>5. /\ Keys' \subseteq Keys /\ \A k \in Keys' : cache'[k] = cache[k]
        /\ \A k \in Keys' : k \in excused => k \in excused'
        /\ \A k \in Keys' : TextPrefixOf(head, k) /\ cache[k] = del[d].version
                              => k \in excused'
    <3>1. CASE DeleteByPrefix(d)
      <4>1. Drop(Covered(head)) /\ Excuse({})
        BY <3>1 DEF DeleteByPrefix
      <4>. QED  BY <4>1 DEF Drop, Excuse, Covered, Keys
    <3>2. CASE DeleteByPrefixFails(d)
      <4>1. PICK keys \in SUBSET Covered(head) : Drop(keys)
        BY <3>2 DEF DeleteByPrefixFails
      <4>2. Excuse(Covered(head) \intersect PointingAt(del[d].version))
        BY <3>2 DEF DeleteByPrefixFails
      <4>. QED  BY <4>1, <4>2 DEF Drop, Excuse, Covered, PointingAt, Keys
    <3>. QED  BY <1>8, <3>1, <3>2
  <2> HIDE DEF head, e
  <2>6. Listed' = Listed
    BY <2>1 DEF Listed
  <2>7. ASSUME NEW k \in Keys', cache[k] \in Versions, stored'[cache[k]] = "absent",
               k \notin excused', del[d].version = cache[k],
               \E p \in Range(del[d].prefixes) : TextPrefixOf(p, k)
        PROVE  Awaited(k)'
    <3>1. \E p \in Range(e.prefixes) : TextPrefixOf(p, k)
      BY <2>3, <2>4, <2>5, <2>7
    <3>2. del'[d] = e /\ cache'[k] = cache[k]
      BY <2>1, <2>5, <2>7
    <3>. QED  BY <2>4, <2>7, <3>1, <3>2 DEF Awaited
  <2>8. ASSUME NEW k \in Keys', cache[k] \in Versions, stored'[cache[k]] = "absent",
               k \notin excused', ~Awaited(k)'
        PROVE  /\ stored[cache[k]] = "absent" /\ k \notin excused
               /\ ~(/\ del[d].pc = "invalidate" /\ del[d].version = cache[k]
                    /\ \E p \in Range(del[d].prefixes) : TextPrefixOf(p, k))
    BY <2>1, <2>5, <2>7, <2>8
  <2>. QED  BY <1>0, <2>1, <2>4, <2>5, <2>6, <2>8, DeletionMoves
<1>. QED  BY <1>2, <1>4, <1>5, <1>6, <1>7, <1>8 DEF DeleteStep

\* The end of a TTL.
LEMMA ExpireStep ==
  ASSUME Inv, NEW r \in Requested, Expire(r)
  PROVE  Inv'
<1>1. /\ UNCHANGED <<stored, reader, del>>
      /\ Keys' = Keys \ {r} /\ \A k \in Keys' : cache'[k] = cache[k]
      /\ \A k \in Keys' : k \in excused => k \in excused'
  BY DEF Expire, Drop, Excuse, Keys
<1>2. Types' /\ SourceInv'
  BY <1>1 DEF Inv, Types, SourceInv, Listed
<1>3. \A k \in Keys' : Awaited(k) => Awaited(k)'
  BY <1>1 DEF Awaited
<1>4. StaleInv'
  BY <1>1, <1>3 DEF Inv, StaleInv
<1>. QED  BY <1>2, <1>4 DEF Inv

\* The invariants hold throughout.
LEMMA CacheInvariant == Spec => []Inv
<1>1. Init => Inv
  <2> SUFFICES ASSUME Init PROVE Inv
    OBVIOUS
  <2>1. Listed = {}
    BY DEF Init, Listed
  <2>2. IsFiniteSet(Listed)
    BY <2>1, FS_EmptySet
  <2>3. Keys = {}
    BY DEF Init, Keys
  <2>. QED  BY <2>2, <2>3 DEF Init, Inv, Types, SourceInv, StaleInv, Idle
<1>2. Inv /\ [Next]_vars => Inv'
  <2> SUFFICES ASSUME Inv, [Next]_vars PROVE Inv'
    OBVIOUS
  <2>1. CASE UNCHANGED vars
    BY <2>1 DEF vars, Inv, Types, SourceInv, StaleInv, Awaited, Listed, Keys
  <2>. QED  BY <2>1, UploadSteps, ReaderSteps, DeleteSteps, ExpireStep DEF Next
<1>. QED  BY <1>1, <1>2, PTL DEF Spec

-----------------------------------------------------------------------------
(* The theorems                                                            *)

\* DELETE reaches every entry that can point at its version, whatever texts were
\* asked for and whatever listings were cut short.
THEOREM InvalidationIsComplete == Spec => []InvalidationCovers
<1>1. Inv => InvalidationCovers
  BY EntriesAreCovered DEF InvalidationCovers
<1>. QED  BY <1>1, CacheInvariant, PTL

\* An entry that outlives its version has one of the four causes that are excused,
\* or a DELETE is working on it, for any number of readers and deletions.
THEOREM StaleEntriesAreExplained == Spec => []StaleOnlyIfExcused
<1>1. Inv => StaleOnlyIfExcused
  BY DEF Inv, StaleInv, Awaited, StaleOnlyIfExcused, Deleting
<1>. QED  BY <1>1, CacheInvariant, PTL

\* The failures are counted.
LEMMA ErrorsCounted == Spec => [](errors \in Nat)
<1>1. Init => errors \in Nat
  BY DEF Init
<1>2. ASSUME errors \in Nat, [Next]_vars PROVE errors' \in Nat
  <2>1. UNCHANGED errors \/ Error
    BY <1>2 DEF vars, Next, StartUpload, FinishUpload, RollBackUpload, AbandonUpload,
         Request, ReaderStep, CacheHit, CacheMiss, Resolve, ResolveBroken, Fill, FillFails,
         Serve, BeginDelete, DeleteStep, RemoveFile, RemoveDone, RemoveFails,
         DeleteByPrefix, DeleteByPrefixFails, DeleteDone, Expire
  <2>. QED  BY <1>2, <2>1 DEF Error
<1>3. errors \in Nat /\ [Next]_vars => (errors \in Nat)'
  BY <1>2
<1>. QED  BY <1>1, <1>3, PTL DEF Spec

\* A reader gets from the resolution to the fill, without an error, only by Resolve.
LEMMA OnlyResolve ==
  ASSUME Inv, errors \in Nat, Next, NEW g \in Readers,
         At(g, "resolve"), reader'[g].pc = "fill", errors' = errors
  PROVE  Resolve(g)
<1> USE DEF Inv, Types
<1>1. reader' # reader
  BY DEF At
<1>2. PICK h \in Readers : Request(h) \/ ReaderStep(h)
  BY <1>1 DEF Next, StartUpload, FinishUpload, RollBackUpload, AbandonUpload, BeginDelete,
       DeleteStep, RemoveFile, RemoveDone, RemoveFails, DeleteByPrefix,
       DeleteByPrefixFails, DeleteDone, Expire
<1>3. h = g
  <2>1. \A k \in Readers \ {h} : reader'[k] = reader[k]
    BY <1>2 DEF Request, ReaderStep, CacheHit, CacheMiss, Resolve, ResolveBroken, Fill,
         FillFails, Serve, Goto, ResolveIn
  <2>. QED  BY <2>1 DEF At
<1>4. ~Error
  BY DEF Error
<1>5. ~Request(g) /\ ~CacheHit(g) /\ ~CacheMiss(g) /\ ~Fill(g) /\ ~FillFails(g) /\ ~Serve(g)
  BY DEF Request, CacheHit, CacheMiss, Fill, FillFails, Serve, At
<1>6. ~ResolveBroken(g)
  BY <1>4 DEF ResolveBroken
<1>. QED  BY <1>2, <1>3, <1>5, <1>6 DEF ReaderStep

\* Whoever resolves a version text with a whole listing goes on with the highest
\* version that matches it, and with the text itself when nothing does.
ResolvedIsHighest(g) ==
  LET matching == Matching(Listed, reader[g].asked)
      path     == reader'[g].path
  IN IF matching = {} THEN path = reader[g].asked
     ELSE path \in matching /\ \A w \in matching \ {path} : SemverBefore(w, path)

\* Resolve stores what resolveVersion returns for the whole listing.
LEMMA ResolveIsHighest ==
  ASSUME Inv, errors \in Nat, Next, NEW g \in Readers,
         ResolvesWhole(g)
  PROVE  ResolvedIsHighest(g)
<1>1. ResolveIn(g, Listed) /\ At(g, "resolve")
  BY OnlyResolve DEF Resolve, ResolvesWhole
<1>2. reader[g] \in Fetches
  BY <1>1 DEF Inv, Types, At, Idle
<1> DEFINE path == resolveVersion(Listed, reader[g].asked)
<1> HIDE DEF path
<1>3. reader'[g].path = path
  <2>1. reader' = [reader EXCEPT ![g] = [reader[g] EXCEPT !.pc = "fill", !.path = path]]
    BY <1>1 DEF ResolveIn, path
  <2>2. reader'[g] = [reader[g] EXCEPT !.pc = "fill", !.path = path]
    BY <2>1 DEF Inv, Types
  <2>. QED  BY <1>2, <2>2 DEF Fetches
<1>4. IsFiniteSet(Listed) /\ Listed \subseteq FullVersion
  BY VersionsAreFull DEF Inv, Types, Listed
<1>. QED  BY <1>3, <1>4, ResolvesToHighest DEF ResolvedIsHighest, path

\* An alias resolves to the highest version it matches in semver order, for any set
\* of versions, whatever else is going on.
THEOREM AliasesResolveToHighest ==
  Spec => [][\A g \in Readers : ResolvesWhole(g) => ResolvedIsHighest(g)]_vars
<1>1. ASSUME Inv, errors \in Nat, [Next]_vars
      PROVE  [\A g \in Readers : ResolvesWhole(g) => ResolvedIsHighest(g)]_vars
  BY <1>1, ResolveIsHighest
<1>. QED  BY <1>1, CacheInvariant, ErrorsCounted, PTL DEF Spec

\* The versions that an alias matches are the stable ones of its line.
LEMMA MatchingIsLine ==
  ASSUME NEW r \in Requested, ~isFullSemver(r)
  PROVE  Matching(Listed, r) = Line(r)
<1>1. r \in Seq(Nat) /\ Len(r) \in {0, 1, 2}
  BY AliasAssumption DEF isFullSemver
<1>2. ASSUME NEW v \in Listed
      PROVE  versionMatches(v, r) <=> Prerelease(v) = 0 /\ \A i \in 1..Len(r) : v[i] = r[i]
  <2>1. v \in Seq(Nat) /\ Len(v) = 5 /\ v # r
    BY AliasAssumption DEF Listed, isFullSemver
  <2>2. r = Latest <=> Len(r) = 0
    BY <1>1, EmptySeq DEF Latest
  <2>3. ASSUME Len(r) \in {1, 2}
        PROVE  SubSeq(v, 1, Len(r)) = r <=> \A i \in 1..Len(r) : v[i] = r[i]
    <3> DEFINE n == Len(r)
               head == SubSeq(v, 1, n)
    <3>1. n \in Int /\ 1 <= n /\ \A i \in 1..n : i \in 1..Len(v)
      <4>1. n = 1 \/ n = 2
        BY <2>3
      <4>2. Len(v) = 5
        BY <2>1
      <4> HIDE DEF n
      <4>. QED  BY <4>1, <4>2
    <3>2. \A i \in 1..n : v[i] \in Nat
      BY <2>1, <3>1, ElementOfSeq
    <3>3. /\ head \in Seq(Nat) /\ Len(head) = n - 1 + 1
          /\ \A i \in 1..(n - 1 + 1) : head[i] = v[1 + i - 1]
      <4>1. 1 \in Int
        OBVIOUS
      <4> HIDE DEF n
      <4>. QED  BY <3>1, <3>2, <4>1, SubSeqProperties
    <3>4. head \in Seq(Nat) /\ Len(head) = n /\ \A i \in 1..n : head[i] = v[i]
      BY <3>1, <3>3
    <3> HIDE DEF head
    <3>5. head = r <=> \A i \in 1..n : head[i] = r[i]
      BY <1>1, <3>4, SeqEqual
    <3>. QED  BY <3>4, <3>5 DEF head
  <2>4. Len(r) = 0 => \A i \in 1..Len(r) : v[i] = r[i]
    OBVIOUS
  <2>5. Len(r) = 0 => Len(r) \notin {1, 2}
    OBVIOUS
  <2>6. CASE Len(r) = 0
    BY <2>1, <2>2, <2>4, <2>6, Zenon DEF versionMatches
  <2>7. CASE Len(r) \in {1, 2}
    <3>1. r # Latest
      BY <2>2, <2>7
    <3>. QED  BY <2>1, <2>3, <2>7, <3>1, Zenon DEF versionMatches
  <2>. QED  BY <1>1, <2>6, <2>7
<1>. QED  BY <1>2 DEF Matching, Line

\* What is before a stable version and stable has no higher numbers.
LEMMA BeforeIsNotAbove ==
  ASSUME NEW v \in FullVersion, NEW w \in FullVersion, SemverBefore(v, w)
  PROVE  NotAbove(v, w)
<1>1. LexLess(SemverRank(v), SemverRank(w))
  BY Lexicographic
<1>2. /\ SemverRank(v)[1] = v[1] /\ SemverRank(v)[2] = v[2] /\ SemverRank(v)[3] = v[3]
      /\ SemverRank(w)[1] = w[1] /\ SemverRank(w)[2] = w[2] /\ SemverRank(w)[3] = w[3]
  BY RankParts
<1>3. v[3] \in Nat /\ w[3] \in Nat
  BY FullParts
<1>. QED  BY <1>1, <1>2, <1>3 DEF LexLess, NotAbove

\* An alias stands for the highest stable version of its line, which is the first of
\* the line on the version page, for any versions (resolveVersion, ListVersions).
THEOREM AliasesAreHighestStable == Spec => AliasIsHighestStable
<1>1. ASSUME Inv, NEW g \in Readers, ResolvesWhole(g), ~isFullSemver(reader[g].asked),
             ResolvedIsHighest(g)
      PROVE  IF Line(reader[g].asked) = {} THEN reader'[g].path = reader[g].asked
             ELSE StandsFor(Line(reader[g].asked), reader'[g].path)
  <2> DEFINE r == reader[g].asked
             line == Line(r)
             path == reader'[g].path
             page == ListVersions(Listed)
  <2>1. r \in Requested /\ ~isFullSemver(r)
    BY <1>1 DEF Inv, Types, ResolvesWhole, At, Idle, Fetches
  <2>2. Matching(Listed, r) = line
    BY <2>1, MatchingIsLine
  <2>3. IF line = {} THEN path = r
        ELSE path \in line /\ \A w \in line \ {path} : SemverBefore(w, path)
    BY <1>1, <2>2 DEF ResolvedIsHighest
  <2>4. IsFiniteSet(Listed) /\ Listed \subseteq FullVersion /\ line \subseteq Listed
    BY <1>1, VersionsAreFull DEF Inv, Types, Listed, Line
  <2> HIDE DEF line, path, page, r
  <2>5. ASSUME line # {} PROVE StandsFor(line, path)
    <3>1. path \in line /\ path \in FullVersion /\ path \in Listed
      BY <2>3, <2>4, <2>5
    <3>2. ASSUME NEW v \in line PROVE NotAbove(v, path)
      <4>1. CASE v = path
        <5>1. path[3] \in Nat
          BY <3>1, FullParts
        <5>. QED  BY <4>1, <5>1 DEF NotAbove
      <4>2. CASE v # path
        BY <2>3, <2>4, <2>5, <3>1, <4>2, BeforeIsNotAbove
      <4>. QED  BY <4>1, <4>2
    <3>3. PICK n \in DOMAIN page :
            /\ page[n] = path
            /\ \A m \in 1..(n - 1) : page[m] \in Listed /\ SemverBefore(path, page[m])
      BY <2>4, <3>1, PageIsSorted DEF page
    <3>4. ASSUME NEW m \in 1..(n - 1), page[m] \in line PROVE FALSE
      <4>1. page[m] \in FullVersion /\ SemverBefore(path, page[m])
        BY <2>4, <3>3
      <4>2. page[m] # path /\ ~SemverBefore(page[m], path)
        BY <3>1, <4>1, BeforeIsStrict
      <4>. QED  BY <2>3, <2>5, <3>4, <4>2
    <3>. QED  BY <3>1, <3>2, <3>3, <3>4, Zenon DEF StandsFor, page
  <2>. QED  BY <2>3, <2>5, Zenon DEF line, path, r
<1>2. ASSUME Inv, errors \in Nat, [Next]_vars
      PROVE  [\A g \in Readers :
                ResolvesWhole(g) /\ ~isFullSemver(reader[g].asked) =>
                  IF Line(reader[g].asked) = {} THEN reader'[g].path = reader[g].asked
                  ELSE StandsFor(Line(reader[g].asked), reader'[g].path)]_vars
  BY <1>1, <1>2, ResolveIsHighest
<1>. QED  BY <1>2, CacheInvariant, ErrorsCounted, PTL DEF Spec, AliasIsHighestStable

=============================================================================
