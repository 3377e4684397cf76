------------------------- MODULE FileListingProofs -------------------------
(***************************************************************************)
(* What ArchiveKeys and FileListing promise for any archives, limits, page *)
(* size and order of keys: no key leaves the package's folder, the size    *)
(* limit holds for what an archive really expands to, a wrapper folder     *)
(* makes no difference, and the pages of a listing are complete and show   *)
(* no variant.                                                             *)
(***************************************************************************)
EXTENDS FileListing, SequenceTheorems, FiniteSetTheorems, WellFoundedInduction, TLAPS

-----------------------------------------------------------------------------
(* Loops: induction and recursion over the first naturals                  *)

\* Induction over the naturals, with a set for the predicate.
LEMMA NatSet ==
  ASSUME NEW S, 0 \in S, \A n \in Nat : n \in S => n + 1 \in S
  PROVE  Nat \subseteq S
<1> SUFFICES ASSUME NEW x \in Nat, x \notin S PROVE FALSE
  OBVIOUS
<1> DEFINE Bad == { n \in Nat : n \notin S }
<1>1. Bad \subseteq Nat /\ Bad # {}
  OBVIOUS
<1>2. PICK n \in Bad : \A m \in Bad : <<m, n>> \notin OpToRel(<, Nat)
  BY <1>1, NatLessThanWellFounded, WFMin
<1>3. \A m \in Bad : ~(m < n)
  BY <1>2 DEF OpToRel
<1>4. n \in Nat /\ n \notin S
  BY <1>2
<1> HIDE DEF Bad
<1>5. n # 0
  BY <1>4
<1>6. n - 1 \in Nat /\ n - 1 < n /\ (n - 1) + 1 = n
  BY <1>4, <1>5
<1>7. n - 1 \in S
  BY <1>3, <1>6 DEF Bad
<1>. QED  BY <1>4, <1>6, <1>7

\* The values a loop with n turns goes through.
Loops(f, n, a, step) == f[0] = a /\ \A i \in 1..n : f[i] = step[<<i, f[i - 1]>>]

\* There are such values.
LEMMA Recursion ==
  ASSUME NEW n \in Nat, NEW A, NEW a \in A, NEW step \in [(1..n) \X A -> A]
  PROVE  \E f \in [0..n -> A] : Loops(f, n, a, step)
<1> DEFINE S == { m \in Nat : m <= n => \E f \in [0..m -> A] : Loops(f, m, a, step) }
<1>1. 0 \in S
  <2>1. [i \in 0..0 |-> a] \in [0..0 -> A]
    OBVIOUS
  <2>2. Loops([i \in 0..0 |-> a], 0, a, step)
    BY DEF Loops
  <2>. QED  BY <2>1, <2>2
<1>2. ASSUME NEW m \in Nat, m \in S PROVE m + 1 \in S
  <2> SUFFICES ASSUME m + 1 <= n
               PROVE  \E g \in [0..(m + 1) -> A] : Loops(g, m + 1, a, step)
    OBVIOUS
  <2>1. PICK f \in [0..m -> A] : Loops(f, m, a, step)
    BY <1>2
  <2> DEFINE g == [i \in 0..(m + 1) |-> IF i = m + 1 THEN step[<<m + 1, f[m]>>] ELSE f[i]]
  <2>2. <<m + 1, f[m]>> \in (1..n) \X A
    OBVIOUS
  <2>3. step[<<m + 1, f[m]>>] \in A
    BY <2>2
  <2> HIDE DEF S
  <2>4. g \in [0..(m + 1) -> A]
    BY <2>3
  <2>5. \A i \in 0..m : g[i] = f[i]
    OBVIOUS
  <2>6. g[m + 1] = step[<<m + 1, f[m]>>]
    OBVIOUS
  <2> HIDE DEF g
  <2>7. g[0] = a
    BY <2>1, <2>5 DEF Loops
  <2>8. ASSUME NEW i \in 1..(m + 1) PROVE g[i] = step[<<i, g[i - 1]>>]
    <3>1. CASE i = m + 1
      <4>1. i - 1 = m /\ m \in 0..m
        BY <3>1
      <4>. QED  BY <3>1, <4>1, <2>5, <2>6
    <3>2. CASE i # m + 1
      <4>1. i \in 1..m /\ i \in 0..m /\ i - 1 \in 0..m
        BY <3>2
      <4>. QED  BY <4>1, <2>1, <2>5 DEF Loops
    <3>. QED  BY <3>1, <3>2
  <2>9. Loops(g, m + 1, a, step)
    BY <2>7, <2>8 DEF Loops
  <2>. QED  BY <2>4, <2>9
<1>3. n \in S
  <2> HIDE DEF S
  <2>. QED  BY <1>1, <1>2, NatSet
<1>. QED  BY <1>3

-----------------------------------------------------------------------------
(* Clean                                                                   *)

\* A part of a path is a path.
LEMMA Slice ==
  ASSUME NEW S, NEW p \in Seq(S), NEW m \in Nat \ {0}, NEW n \in Nat, n <= Len(p), m <= n + 1
  PROVE  /\ SubSeq(p, m, n) \in Seq(S) /\ Len(SubSeq(p, m, n)) = n - m + 1
         /\ \A i \in 1..(n - m + 1) : SubSeq(p, m, n)[i] = p[m + i - 1]
<1>1. Len(p) \in Nat
  BY LenProperties
<1>2. \A i \in m..n : i \in 1..Len(p)
  BY <1>1
<1>3. \A i \in m..n : p[i] \in S
  BY <1>2, ElementOfSeq
<1>4. m \in Int /\ n \in Int
  OBVIOUS
<1>5. /\ SubSeq(p, m, n) \in Seq(S)
      /\ Len(SubSeq(p, m, n)) = IF m <= n THEN n - m + 1 ELSE 0
      /\ \A i \in 1..(n - m + 1) : SubSeq(p, m, n)[i] = p[m + i - 1]
  BY <1>3, <1>4, SubSeqProperties
<1>6. (IF m <= n THEN n - m + 1 ELSE 0) = n - m + 1
  OBVIOUS
<1>. QED  BY <1>5, <1>6, Zenon

\* The front of a path that is not empty.
LEMMA FrontOfPath ==
  ASSUME NEW p \in Seq(Segments), p # <<>>
  PROVE  /\ Front(p) \in Seq(Segments) /\ Len(Front(p)) = Len(p) - 1
         /\ \A i \in 1..(Len(p) - 1) : Front(p)[i] = p[i]
<1>1. Len(p) \in Nat \ {0}
  BY EmptySeq
<1> DEFINE n == Len(p) - 1
<1>2. n \in Nat /\ n <= Len(p) /\ 1 <= n + 1 /\ n - 1 + 1 = n /\ 1 \in Nat \ {0}
  BY <1>1
<1>3. \A i \in 1..n : 1 + i - 1 = i
  BY <1>2
<1> HIDE DEF n
<1>4. /\ SubSeq(p, 1, n) \in Seq(Segments) /\ Len(SubSeq(p, 1, n)) = n - 1 + 1
      /\ \A i \in 1..(n - 1 + 1) : SubSeq(p, 1, n)[i] = p[1 + i - 1]
  BY <1>2, Slice
<1>5. /\ SubSeq(p, 1, n) \in Seq(Segments) /\ Len(SubSeq(p, 1, n)) = n
      /\ \A i \in 1..n : SubSeq(p, 1, n)[i] = p[i]
  BY <1>2, <1>3, <1>4, Zenon
<1>. QED  BY <1>5, Zenon DEF Front, n

\* One segment on, a path is still a path.
LEMMA CleanStepType ==
  ASSUME NEW p \in Seq(Segments), NEW seg \in Segments
  PROVE  CleanStep(p, seg) \in Seq(Segments)
<1>1. Append(p, seg) \in Seq(Segments)
  BY AppendProperties
<1>2. p # <<>> => Front(p) \in Seq(Segments)
  BY FrontOfPath
<1>. QED  BY <1>1, <1>2, Zenon DEF CleanStep

\* The paths Clean goes through.
LEMMA CleanLoop ==
  ASSUME NEW name \in Seq(Segments)
  PROVE  \E f \in [0..Len(name) -> Seq(Segments)] :
           /\ f[0] = <<>> /\ Clean(name) = f[Len(name)]
           /\ \A i \in 1..Len(name) : f[i] = CleanStep(f[i - 1], NFC[name[i]])
<1> DEFINE n == Len(name)
           A == Seq(Segments)
           step == [x \in (1..n) \X A |-> CleanStep(x[2], NFC[name[x[1]]])]
           Def(f) == [m \in 0..n |-> IF m = 0 THEN <<>> ELSE CleanStep(f[m - 1], NFC[name[m]])]
<1>1. n \in Nat /\ <<>> \in A
  BY LenProperties, EmptySeq
<1>2. ASSUME NEW i \in 1..n PROVE NFC[name[i]] \in Segments
  BY ElementOfSeq, SegmentsAssumption
<1>3. ASSUME NEW x \in (1..n) \X A PROVE CleanStep(x[2], NFC[name[x[1]]]) \in A
  BY <1>2, CleanStepType
<1>4. step \in [(1..n) \X A -> A]
  BY <1>3
<1>5. \A i \in 1..n : \A p \in A : step[<<i, p>>] = CleanStep(p, NFC[name[i]])
  OBVIOUS
<1> HIDE DEF step, n, A
<1>6. PICK f \in [0..n -> A] : Loops(f, n, <<>>, step)
  BY <1>1, <1>4, Recursion
<1>7. \A i \in 1..n : i - 1 \in 0..n /\ i # 0 /\ i \in 0..n
  BY <1>1
<1>8. ASSUME NEW i \in 1..n PROVE f[i] = CleanStep(f[i - 1], NFC[name[i]])
  BY <1>5, <1>6, <1>7 DEF Loops
<1>9. f = Def(f)
  <2>1. ASSUME NEW m \in 0..n
        PROVE  f[m] = IF m = 0 THEN <<>> ELSE CleanStep(f[m - 1], NFC[name[m]])
    <3>1. m # 0 => m \in 1..n
      BY <1>1
    <3>. QED  BY <1>6, <1>8, <3>1 DEF Loops
  <2>. QED  BY <2>1
<1> DEFINE g == CHOOSE h : h = Def(h)
<1>10. g = Def(g)
  BY <1>9
<1>11. Clean(name) = g[n]
  BY DEF Clean, n
<1> HIDE DEF g
<1>12. g[0] = <<>> /\ \A m \in 1..n : g[m] = CleanStep(g[m - 1], NFC[name[m]])
  BY <1>1, <1>7, <1>10
<1> DEFINE S == { m \in Nat : m <= n => g[m] = f[m] }
<1>13. 0 \in S
  BY <1>6, <1>12 DEF Loops
<1>14. ASSUME NEW m \in Nat, m \in S PROVE m + 1 \in S
  <2> SUFFICES ASSUME m + 1 <= n PROVE g[m + 1] = f[m + 1]
    OBVIOUS
  <2>1. m + 1 \in 1..n /\ (m + 1) - 1 = m /\ m <= n
    BY <1>1
  <2>. QED  BY <1>8, <1>12, <1>14, <2>1
<1>15. n \in S
  <2> HIDE DEF S
  <2>. QED  BY <1>1, <1>13, <1>14, NatSet
<1>16. Clean(name) = f[n]
  BY <1>1, <1>11, <1>15
<1>17. f[0] = <<>>
  BY <1>6 DEF Loops
<1>. QED  BY <1>6, <1>8, <1>16, <1>17 DEF n, A

\* What Clean keeps to: no empty segments, all composed, and "..", if there is
\* any, only in front.
Tidy(p) ==
  \A i \in 1..Len(p) :
    /\ p[i] \notin {"", "."} /\ NFC[p[i]] = p[i]
    /\ p[i] = ".." => \A j \in 1..i : p[j] = ".."

\* One segment on, it still does.
LEMMA CleanStepTidy ==
  ASSUME NEW p \in Seq(Segments), Tidy(p), NEW seg \in Segments, NFC[seg] = seg
  PROVE  Tidy(CleanStep(p, seg))
<1>1. Len(p) \in Nat
  BY LenProperties
<1>2. CASE seg \in {"", "."}
  BY <1>2 DEF CleanStep
<1>3. CASE seg \notin {"", "."} /\ seg = ".." /\ p # <<>> /\ Last(p) # ".."
  <2>1. CleanStep(p, seg) = Front(p)
    BY <1>3, Zenon DEF CleanStep
  <2>2. /\ Len(Front(p)) = Len(p) - 1
        /\ \A i \in 1..(Len(p) - 1) : Front(p)[i] = p[i]
    BY <1>3, FrontOfPath
  <2>3. \A i \in 1..(Len(p) - 1) : i \in 1..Len(p) /\ \A j \in 1..i : j \in 1..(Len(p) - 1)
    BY <1>1
  <2> HIDE DEF Front
  <2>4. Tidy(Front(p))
    BY <2>2, <2>3, Zenon DEF Tidy
  <2>. QED  BY <2>1, <2>4
<1>4. CASE seg \notin {"", "."} /\ ~(seg = ".." /\ p # <<>> /\ Last(p) # "..")
  <2> DEFINE q == Append(p, seg)
             n == Len(p) + 1
  <2>1. CleanStep(p, seg) = q
    BY <1>4, Zenon DEF CleanStep
  <2>2. Len(q) = n /\ (\A i \in 1..Len(p) : q[i] = p[i]) /\ q[n] = seg
    BY AppendProperties
  <2> HIDE DEF q
  <2>3. ASSUME NEW i \in 1..n
        PROVE  /\ q[i] \notin {"", "."} /\ NFC[q[i]] = q[i]
               /\ q[i] = ".." => \A j \in 1..i : q[j] = ".."
    <3>1. CASE i \in 1..Len(p)
      <4>1. \A j \in 1..i : j \in 1..Len(p)
        BY <1>1, <3>1
      <4>. QED  BY <2>2, <3>1, <4>1 DEF Tidy
    <3>2. CASE i = n
      <4>1. q[i] = seg
        BY <2>2, <3>2
      <4>2. ASSUME seg = "..", NEW j \in 1..n PROVE q[j] = ".."
        <5>1. CASE j = n
          BY <2>2, <4>2, <5>1
        <5>2. CASE j # n
          <6>1. j \in 1..Len(p) /\ Len(p) \in 1..Len(p)
            BY <1>1, <5>2
          <6>2. p # <<>>
            BY <6>1, EmptySeq
          <6>3. p[Len(p)] = ".."
            BY <1>4, <4>2, <6>2 DEF Last
          <6>4. p[j] = ".."
            BY <6>1, <6>3 DEF Tidy
          <6>. QED  BY <2>2, <6>1, <6>4
        <5>. QED  BY <5>1, <5>2
      <4>. QED  BY <1>4, <3>2, <4>1, <4>2
    <3>3. i \in 1..Len(p) \/ i = n
      BY <1>1
    <3>. QED  BY <3>1, <3>2, <3>3
  <2>. QED  BY <2>1, <2>2, <2>3 DEF Tidy
<1>. QED  BY <1>2, <1>3, <1>4

\* Clean makes a tidy path of every name.
LEMMA CleanIsTidy ==
  ASSUME NEW name \in Seq(Segments)
  PROVE  Clean(name) \in Seq(Segments) /\ Tidy(Clean(name))
<1> DEFINE n == Len(name)
<1>1. n \in Nat
  BY LenProperties
<1>2. PICK f \in [0..n -> Seq(Segments)] :
        /\ f[0] = <<>> /\ Clean(name) = f[n]
        /\ \A i \in 1..n : f[i] = CleanStep(f[i - 1], NFC[name[i]])
  BY CleanLoop
<1> DEFINE S == { m \in Nat : m <= n => Tidy(f[m]) }
<1>3. 0 \in S
  <2>1. Tidy(<<>>)
    <3>1. 1..Len(<<>>) = {}
      OBVIOUS
    <3>. QED  BY <3>1, Zenon DEF Tidy
  <2>. QED  BY <1>2, <2>1
<1>4. ASSUME NEW m \in Nat, m \in S PROVE m + 1 \in S
  <2> SUFFICES ASSUME m + 1 <= n PROVE Tidy(f[m + 1])
    OBVIOUS
  <2>1. m + 1 \in 1..n /\ (m + 1) - 1 = m /\ m <= n /\ m \in 0..n
    BY <1>1
  <2>2. name[m + 1] \in Segments
    BY <2>1, ElementOfSeq
  <2>3. NFC[name[m + 1]] \in Segments /\ NFC[NFC[name[m + 1]]] = NFC[name[m + 1]]
    BY <2>2, SegmentsAssumption
  <2>4. Tidy(f[m]) /\ f[m] \in Seq(Segments)
    BY <1>4, <2>1
  <2>5. f[m + 1] = CleanStep(f[m], NFC[name[m + 1]])
    BY <1>2, <2>1
  <2>. QED  BY <2>3, <2>4, <2>5, CleanStepTidy
<1>5. n \in S
  <2> HIDE DEF S, n
  <2>. QED  BY <1>1, <1>3, <1>4, NatSet
<1>6. n \in 0..n /\ Tidy(f[n])
  BY <1>1, <1>5
<1>. QED  BY <1>2, <1>6

-----------------------------------------------------------------------------
(* KeysStayInside                                                          *)

\* A path that may be a key.
Fine(p) ==
  /\ p \in Seq(Segments) /\ Len(p) > 0
  /\ \A i \in 1..Len(p) : p[i] \notin {"", ".", ".."} /\ NFC[p[i]] = p[i]

\* The name of an entry that does not escape becomes such a path.
LEMMA CleanIsFine ==
  ASSUME NEW name \in Seq(Segments), ~Escapes(name)
  PROVE  Fine(Clean(name))
<1> DEFINE p == Clean(name)
<1>1. p \in Seq(Segments) /\ Tidy(p)
  BY CleanIsTidy
<1>2. p # <<>> /\ p[1] # ".."
  BY DEF Escapes
<1> HIDE DEF p
<1>3. Len(p) \in Nat /\ Len(p) > 0
  BY <1>1, <1>2, EmptySeq, LenProperties
<1>4. ASSUME NEW i \in 1..Len(p) PROVE p[i] # ".."
  <2>1. 1 \in 1..i
    BY <1>3
  <2>. QED  BY <1>1, <1>2, <2>1 DEF Tidy
<1>. QED  BY <1>1, <1>3, <1>4 DEF Fine, Tidy, p

\* Entries as validatedEntries leaves them.
Sound(entries) ==
  \A i \in DOMAIN entries : Fine(entries[i].path) /\ ~isArchiveJunk(entries[i].path)

LEMMA EntryFacts ==
  ASSUME NEW z \in Seq(Entry)
  PROVE  /\ DOMAIN z = 1..Len(z) /\ Len(z) \in Nat /\ Files(z) \subseteq DOMAIN z
         /\ \A i \in DOMAIN z : /\ z[i] \in Entry /\ z[i].name \in Seq(Segments)
                                /\ Len(z[i].name) \in Nat \ {0}
<1>1. DOMAIN z = 1..Len(z) /\ Len(z) \in Nat
  BY LenProperties
<1>2. \A i \in DOMAIN z : z[i] \in Entry
  BY <1>1, ElementOfSeq
<1>3. \A i \in DOMAIN z : z[i].name \in Seq(Segments) /\ z[i].name # <<>>
  BY <1>2 DEF Entry
<1>4. \A i \in DOMAIN z : Len(z[i].name) \in Nat \ {0}
  BY <1>3, EmptySeq
<1>. QED  BY <1>1, <1>2, <1>3, <1>4 DEF Files

LEMMA ValidatedIsSound ==
  ASSUME NEW z \in Seq(Entry)
  PROVE  Sound(validatedEntries(z)) /\ DOMAIN validatedEntries(z) \subseteq Files(z)
<1>1. CASE \E i \in Files(z) : Escapes(z[i].name)
  <2>1. validatedEntries(z) = <<>>
    BY <1>1 DEF validatedEntries
  <2>. QED  BY <2>1 DEF Sound
<1>2. CASE ~\E i \in Files(z) : Escapes(z[i].name)
  <2> DEFINE I == { j \in Files(z) : ~isArchiveJunk(Clean(z[j].name)) }
  <2>1. validatedEntries(z) =
          [ i \in I |-> [path |-> Clean(z[i].name), readable |-> z[i].readable,
                        patterns |-> z[i].patterns] ]
    BY <1>2 DEF validatedEntries
  <2>2. \A i \in I : validatedEntries(z)[i].path = Clean(z[i].name)
    BY <2>1
  <2>3. DOMAIN validatedEntries(z) = I
    BY <2>1
  <2>4. ASSUME NEW i \in I PROVE Fine(Clean(z[i].name)) /\ ~isArchiveJunk(Clean(z[i].name))
    BY <1>2, EntryFacts, CleanIsFine
  <2>. QED  BY <2>2, <2>3, <2>4 DEF Sound
<1>. QED  BY <1>1, <1>2

\* An ignore file takes entries away, and does nothing else to them.
LEMMA IgnoringDrops ==
  ASSUME NEW entries
  PROVE  /\ DOMAIN applyIgnoreFile(entries) \subseteq DOMAIN entries
         /\ \A i \in DOMAIN applyIgnoreFile(entries) : applyIgnoreFile(entries)[i] = entries[i]
<1>1. CASE findIgnoreFile(entries) = 0
  BY <1>1 DEF applyIgnoreFile
<1>3. CASE findIgnoreFile(entries) # 0 /\ ~entries[findIgnoreFile(entries)].readable
  <2>1. applyIgnoreFile(entries) = <<>>
    BY <1>3, Zenon DEF applyIgnoreFile
  <2>. QED  BY <2>1
<1>2. CASE findIgnoreFile(entries) # 0 /\ entries[findIgnoreFile(entries)].readable
  <2> DEFINE I == { i \in DOMAIN entries :
                      KeptBy(entries[findIgnoreFile(entries)], entries[i]) }
  <2>1. applyIgnoreFile(entries) = [i \in I |-> entries[i]]
    BY <1>2, Zenon DEF applyIgnoreFile, Restrict
  <2>. QED  BY <2>1
<1>. QED  BY <1>1, <1>2, <1>3

\* What is left of a path below its first folder, or below none.
LEMMA BelowPath ==
  ASSUME NEW p \in Seq(Segments)
  PROVE  /\ Below(<<>>, p) = p
         /\ Len(p) > 1 => \A folder :
              /\ Below(<<folder>>, p) \in Seq(Segments)
              /\ Len(Below(<<folder>>, p)) = Len(p) - 1
              /\ \A i \in 1..(Len(p) - 1) : Below(<<folder>>, p)[i] = p[i + 1]
<1>1. Len(p) \in Nat
  BY LenProperties
<1>2. Below(<<>>, p) = p
  <2>1. Len(<<>>) + 1 = 1
    OBVIOUS
  <2>. QED  BY <2>1, SubSeqFull DEF Below
<1>3. ASSUME Len(p) > 1, NEW folder
      PROVE  /\ Below(<<folder>>, p) \in Seq(Segments)
             /\ Len(Below(<<folder>>, p)) = Len(p) - 1
             /\ \A i \in 1..(Len(p) - 1) : Below(<<folder>>, p)[i] = p[i + 1]
  <2> DEFINE n == Len(p)
  <2>1. Len(<<folder>>) + 1 = 2
    OBVIOUS
  <2>2. 2 \in Nat \ {0} /\ n \in Nat /\ n <= Len(p) /\ 2 <= n + 1 /\ n - 2 + 1 = n - 1
    BY <1>1, <1>3
  <2>3. \A i \in 1..(n - 1) : 2 + i - 1 = i + 1
    BY <2>2
  <2>4. Below(<<folder>>, p) = SubSeq(p, 2, n)
    BY <2>1, Zenon DEF Below
  <2> HIDE DEF n
  <2>5. /\ SubSeq(p, 2, n) \in Seq(Segments) /\ Len(SubSeq(p, 2, n)) = n - 2 + 1
        /\ \A i \in 1..(n - 2 + 1) : SubSeq(p, 2, n)[i] = p[2 + i - 1]
    BY <2>2, Slice
  <2>6. /\ SubSeq(p, 2, n) \in Seq(Segments) /\ Len(SubSeq(p, 2, n)) = n - 1
        /\ \A i \in 1..(n - 1) : SubSeq(p, 2, n)[i] = p[i + 1]
    BY <2>2, <2>3, <2>5, Zenon
  <2>. QED  BY <2>4, <2>6, Zenon DEF n
<1>. QED  BY <1>2, <1>3

\* A wrapper folder is one segment, and all paths go on below it.
LEMMA WrapperFacts ==
  ASSUME NEW entries
  PROVE  \/ singleTopLevelFolder(entries) = <<>>
         \/ /\ \E folder : singleTopLevelFolder(entries) = <<folder>>
            /\ \A i \in DOMAIN entries : Len(entries[i].path) > 1
  BY DEF singleTopLevelFolder

\* The keys are the paths, or what is left of them below the wrapper.
LEMMA KeysOfEntries ==
  ASSUME NEW entries, NEW k \in Range(objectKeys(entries))
  PROVE  \E i \in DOMAIN entries : k = Below(singleTopLevelFolder(entries), entries[i].path)
<1> DEFINE all == [i \in DOMAIN entries |->
                     Below(singleTopLevelFolder(entries), entries[i].path)]
<1>1. objectKeys(entries) = <<>> \/ objectKeys(entries) = all
  BY Zenon DEF objectKeys
<1>2. CASE objectKeys(entries) = <<>>
  BY <1>2 DEF Range
<1>3. CASE objectKeys(entries) = all
  BY <1>3 DEF Range
<1>. QED  BY <1>1, <1>2, <1>3

\* What KeysStayInside asks of a key.
Proper(k, wrapper) ==
  /\ Fine(k) /\ Last(k) # ".DS_Store"
  /\ k[1] = "__MACOSX" => wrapper # <<>>

LEMMA KeysAreProper ==
  ASSUME NEW z \in Seq(Entry), NEW k \in Range(archiveKeys(z))
  PROVE  Proper(k, WrapperOf(z))
<1> DEFINE entries == applyIgnoreFile(validatedEntries(z))
<1>1. Sound(entries)
  <2>1. Sound(validatedEntries(z))
    BY ValidatedIsSound
  <2>2. /\ DOMAIN entries \subseteq DOMAIN validatedEntries(z)
        /\ \A i \in DOMAIN entries : entries[i] = validatedEntries(z)[i]
    BY IgnoringDrops
  <2> HIDE DEF entries
  <2>. QED  BY <2>1, <2>2 DEF Sound
<1>2. WrapperOf(z) = singleTopLevelFolder(entries) /\ archiveKeys(z) = objectKeys(entries)
  BY DEF WrapperOf, archiveKeys
<1> HIDE DEF entries
<1>3. PICK i \in DOMAIN entries : k = Below(WrapperOf(z), entries[i].path)
  BY <1>2, KeysOfEntries
<1> DEFINE p == entries[i].path
<1>4. Fine(p) /\ ~isArchiveJunk(p)
  BY <1>1 DEF Sound
<1>5. k = Below(WrapperOf(z), p)
  BY <1>3
<1>6. \/ WrapperOf(z) = <<>>
      \/ (\E folder : WrapperOf(z) = <<folder>>) /\ Len(p) > 1
  BY <1>2, WrapperFacts
<1> HIDE DEF p
<1>7. p \in Seq(Segments) /\ Len(p) \in Nat /\ Len(p) > 0
  BY <1>4, LenProperties DEF Fine
<1>8. CASE WrapperOf(z) = <<>>
  <2>1. k = p
    BY <1>5, <1>7, <1>8, BelowPath
  <2>. QED  BY <1>4, <2>1 DEF Proper, isArchiveJunk
<1>9. CASE (\E folder : WrapperOf(z) = <<folder>>) /\ Len(p) > 1
  <2>1. PICK folder : WrapperOf(z) = <<folder>>
    BY <1>9
  <2>2. /\ k \in Seq(Segments) /\ Len(k) = Len(p) - 1
        /\ \A j \in 1..(Len(p) - 1) : k[j] = p[j + 1]
    BY <1>5, <1>7, <1>9, <2>1, BelowPath, Zenon
  <2>3. \A j \in 1..Len(k) : k[j] = p[j + 1] /\ j + 1 \in 1..Len(p)
    BY <1>7, <2>2
  <2>4. Len(k) > 0 /\ Len(k) \in 1..Len(k) /\ Len(k) + 1 = Len(p)
    BY <1>7, <1>9, <2>2
  <2>5. Fine(k)
    BY <1>4, <2>2, <2>3, <2>4 DEF Fine
  <2>6. Last(k) = Last(p)
    BY <2>3, <2>4 DEF Last
  <2>7. WrapperOf(z) # <<>>
    <3>1. Len(<<folder>>) = 1 /\ Len(<<>>) = 0
      OBVIOUS
    <3>. QED  BY <2>1, <3>1
  <2>. QED  BY <1>4, <2>5, <2>6, <2>7 DEF Proper, isArchiveJunk
<1>. QED  BY <1>6, <1>8, <1>9

\* A variant is as proper a key as its sibling.
LEMMA VariantsAreProper ==
  ASSUME NEW v \in DOMAIN SiblingOf, NEW wrapper, Proper(SiblingOf[v], wrapper)
  PROVE  Proper(v, wrapper)
<1> DEFINE k == SiblingOf[v]
           n == Len(k)
<1>1. /\ v \in Seq(Segments) /\ v # <<>>
      /\ Len(v) = n /\ Front(v) = Front(k)
      /\ Last(v) \notin {"", ".", "..", "__MACOSX", ".DS_Store"}
      /\ NFC[Last(k)] = Last(k) => NFC[Last(v)] = Last(v)
  BY SiblingAssumption, OrderAssumption
<1>2. Fine(k) /\ (k[1] = "__MACOSX" => wrapper # <<>>)
  BY DEF Proper
<1> HIDE DEF k
<1>3. k \in Seq(Segments) /\ n \in Nat /\ n > 0 /\ k # <<>>
  <2>1. Len(<<>>) = 0
    OBVIOUS
  <2>2. k \in Seq(Segments) /\ n \in Nat /\ n > 0
    BY <1>2, LenProperties DEF Fine
  <2>3. n # 0
    BY <2>2
  <2>. QED  BY <2>1, <2>2, <2>3, Zenon
<1>4. \A i \in 1..(n - 1) : v[i] = k[i]
  <2>1. \A i \in 1..(n - 1) : Front(v)[i] = v[i]
    BY <1>1, FrontOfPath
  <2>2. \A i \in 1..(n - 1) : Front(k)[i] = k[i]
    BY <1>3, FrontOfPath
  <2> HIDE DEF Front
  <2>. QED  BY <1>1, <2>1, <2>2
<1>5. Last(v) = v[n] /\ Last(k) = k[n]
  BY <1>1 DEF Last
<1>6. NFC[v[n]] = v[n] /\ v[n] \notin {"", ".", "..", "__MACOSX", ".DS_Store"}
  <2>1. n \in 1..n
    BY <1>3
  <2>. QED  BY <1>1, <1>2, <1>5, <2>1 DEF Fine
<1>7. \A i \in 1..n : i = n \/ i \in 1..(n - 1)
  BY <1>3
<1> HIDE DEF n
<1>8. \A i \in 1..n : v[i] \notin {"", ".", ".."} /\ NFC[v[i]] = v[i]
  BY <1>2, <1>4, <1>6, <1>7 DEF Fine, n
<1>9. Fine(v)
  BY <1>1, <1>3, <1>8 DEF Fine
<1>10. v[1] = "__MACOSX" => k[1] = "__MACOSX"
  <2>1. 1 \in 1..n
    BY <1>3
  <2>. QED  BY <1>4, <1>6, <1>7, <2>1
<1>. QED  BY <1>1, <1>2, <1>9, <1>10 DEF Proper

-----------------------------------------------------------------------------
(* LimitsHold                                                              *)

\* The sums the counter goes through.
LEMMA DeclaredLoop ==
  ASSUME NEW z \in Seq(Entry)
  PROVE  \E f \in [0..Len(z) -> 0..MaxUint] :
           /\ f[0] = 0 /\ DeclaredSize(z) = f[Len(z)]
           /\ \A i \in 1..Len(z) : f[i] = IF i \in Files(z) THEN AddSize(f[i - 1], z[i].size) ELSE f[i - 1]
<1> DEFINE n == Len(z)
           A == 0..MaxUint
           step == [x \in (1..n) \X A |-> IF x[1] \in Files(z) THEN AddSize(x[2], z[x[1]].size) ELSE x[2]]
           Def(f) == [m \in 0..n |->
                        IF m = 0 THEN 0
                        ELSE IF m \in Files(z) THEN AddSize(f[m - 1], z[m].size) ELSE f[m - 1]]
<1>1. n \in Nat /\ 0 \in A
  BY EntryFacts, LimitsAssumption
<1>2. ASSUME NEW i \in 1..n PROVE z[i].size \in 0..MaxUint
  BY EntryFacts DEF Entry
<1>3. ASSUME NEW x \in (1..n) \X A
      PROVE  (IF x[1] \in Files(z) THEN AddSize(x[2], z[x[1]].size) ELSE x[2]) \in A
  BY <1>2, LimitsAssumption DEF AddSize
<1>4. step \in [(1..n) \X A -> A]
  BY <1>3
<1>5. \A i \in 1..n : \A p \in A :
        step[<<i, p>>] = IF i \in Files(z) THEN AddSize(p, z[i].size) ELSE p
  OBVIOUS
<1> HIDE DEF step, n, A
<1>6. PICK f \in [0..n -> A] : Loops(f, n, 0, step)
  BY <1>1, <1>4, Recursion
<1>7. \A i \in 1..n : i - 1 \in 0..n /\ i # 0 /\ i \in 0..n
  BY <1>1
<1>8. ASSUME NEW i \in 1..n
      PROVE  f[i] = IF i \in Files(z) THEN AddSize(f[i - 1], z[i].size) ELSE f[i - 1]
  BY <1>5, <1>6, <1>7 DEF Loops
<1>9. f = Def(f)
  <2>1. ASSUME NEW m \in 0..n
        PROVE  f[m] = IF m = 0 THEN 0 ELSE IF m \in Files(z) THEN AddSize(f[m - 1], z[m].size) ELSE f[m - 1]
    <3>1. m # 0 => m \in 1..n
      BY <1>1
    <3>. QED  BY <1>6, <1>8, <3>1 DEF Loops
  <2>. QED  BY <2>1
<1> DEFINE g == CHOOSE h : h = Def(h)
<1>10. g = Def(g)
  BY <1>9
<1>11. DeclaredSize(z) = g[n]
  BY DEF DeclaredSize, n
<1> HIDE DEF g
<1>12. g[0] = 0 /\ \A m \in 1..n :
        g[m] = IF m \in Files(z) THEN AddSize(g[m - 1], z[m].size) ELSE g[m - 1]
  BY <1>1, <1>7, <1>10
<1> DEFINE S == { m \in Nat : m <= n => g[m] = f[m] }
<1>13. 0 \in S
  BY <1>6, <1>12 DEF Loops
<1>14. ASSUME NEW m \in Nat, m \in S PROVE m + 1 \in S
  <2> SUFFICES ASSUME m + 1 <= n PROVE g[m + 1] = f[m + 1]
    OBVIOUS
  <2>1. m + 1 \in 1..n /\ (m + 1) - 1 = m /\ m <= n
    BY <1>1
  <2>. QED  BY <1>8, <1>12, <1>14, <2>1
<1>15. n \in S
  <2> HIDE DEF S
  <2>. QED  BY <1>1, <1>13, <1>14, NatSet
<1>16. DeclaredSize(z) = f[n]
  BY <1>1, <1>11, <1>15
<1>17. f[0] = 0
  BY <1>6 DEF Loops
<1>. QED  BY <1>6, <1>8, <1>16, <1>17 DEF n, A

\* The sums without the counter's bound.
LEMMA TrueLoop ==
  ASSUME NEW z \in Seq(Entry)
  PROVE  \E f \in [0..Len(z) -> Nat] :
           /\ f[0] = 0 /\ TrueSize(z) = f[Len(z)]
           /\ \A i \in 1..Len(z) : f[i] = f[i - 1] + IF i \in Files(z) THEN z[i].size ELSE 0
<1> DEFINE n == Len(z)
           A == Nat
           step == [x \in (1..n) \X A |-> x[2] + IF x[1] \in Files(z) THEN z[x[1]].size ELSE 0]
           Def(f) == [m \in 0..n |->
                        IF m = 0 THEN 0
                        ELSE f[m - 1] + IF m \in Files(z) THEN z[m].size ELSE 0]
<1>1. n \in Nat /\ 0 \in A
  BY EntryFacts, LimitsAssumption
<1>2. ASSUME NEW i \in 1..n PROVE z[i].size \in 0..MaxUint
  BY EntryFacts DEF Entry
<1>3. ASSUME NEW x \in (1..n) \X A
      PROVE  x[2] + (IF x[1] \in Files(z) THEN z[x[1]].size ELSE 0) \in A
  BY <1>2, LimitsAssumption
<1>4. step \in [(1..n) \X A -> A]
  BY <1>3
<1>5. \A i \in 1..n : \A p \in A :
        step[<<i, p>>] = p + IF i \in Files(z) THEN z[i].size ELSE 0
  OBVIOUS
<1> HIDE DEF step, n, A
<1>6. PICK f \in [0..n -> A] : Loops(f, n, 0, step)
  BY <1>1, <1>4, Recursion
<1>7. \A i \in 1..n : i - 1 \in 0..n /\ i # 0 /\ i \in 0..n
  BY <1>1
<1>8. ASSUME NEW i \in 1..n
      PROVE  f[i] = f[i - 1] + IF i \in Files(z) THEN z[i].size ELSE 0
  BY <1>5, <1>6, <1>7 DEF Loops
<1>9. f = Def(f)
  <2>1. ASSUME NEW m \in 0..n
        PROVE  f[m] = IF m = 0 THEN 0 ELSE f[m - 1] + IF m \in Files(z) THEN z[m].size ELSE 0
    <3>1. m # 0 => m \in 1..n
      BY <1>1
    <3>. QED  BY <1>6, <1>8, <3>1 DEF Loops
  <2>. QED  BY <2>1
<1> DEFINE g == CHOOSE h : h = Def(h)
<1>10. g = Def(g)
  BY <1>9
<1>11. TrueSize(z) = g[n]
  BY DEF TrueSize, n
<1> HIDE DEF g
<1>12. g[0] = 0 /\ \A m \in 1..n :
        g[m] = g[m - 1] + IF m \in Files(z) THEN z[m].size ELSE 0
  BY <1>1, <1>7, <1>10
<1> DEFINE S == { m \in Nat : m <= n => g[m] = f[m] }
<1>13. 0 \in S
  BY <1>6, <1>12 DEF Loops
<1>14. ASSUME NEW m \in Nat, m \in S PROVE m + 1 \in S
  <2> SUFFICES ASSUME m + 1 <= n PROVE g[m + 1] = f[m + 1]
    OBVIOUS
  <2>1. m + 1 \in 1..n /\ (m + 1) - 1 = m /\ m <= n
    BY <1>1
  <2>. QED  BY <1>8, <1>12, <1>14, <2>1
<1>15. n \in S
  <2> HIDE DEF S
  <2>. QED  BY <1>1, <1>13, <1>14, NatSet
<1>16. TrueSize(z) = f[n]
  BY <1>1, <1>11, <1>15
<1>17. f[0] = 0
  BY <1>6 DEF Loops
<1>. QED  BY <1>6, <1>8, <1>16, <1>17 DEF n, A

\* The counter has the true size, or stands at its bound.
LEMMA SizeIsTrueOrBound ==
  ASSUME NEW z \in Seq(Entry)
  PROVE  /\ TrueSize(z) \in Nat
         /\ DeclaredSize(z) = IF TrueSize(z) < MaxUint THEN TrueSize(z) ELSE MaxUint
<1> DEFINE n == Len(z)
<1>1. n \in Nat /\ MaxUint \in Nat
  BY EntryFacts, LimitsAssumption
<1>2. PICK d \in [0..n -> 0..MaxUint] :
        /\ d[0] = 0 /\ DeclaredSize(z) = d[n]
        /\ \A i \in 1..n : d[i] = IF i \in Files(z) THEN AddSize(d[i - 1], z[i].size)
                               ELSE d[i - 1]
  BY DeclaredLoop
<1>3. PICK t \in [0..n -> Nat] :
        /\ t[0] = 0 /\ TrueSize(z) = t[n]
        /\ \A i \in 1..n : t[i] = t[i - 1] + IF i \in Files(z) THEN z[i].size ELSE 0
  BY TrueLoop
<1> DEFINE S == { m \in Nat : m <= n => d[m] = IF t[m] < MaxUint THEN t[m] ELSE MaxUint }
<1>4. 0 \in S
  BY <1>1, <1>2, <1>3
<1>5. ASSUME NEW m \in Nat, m \in S PROVE m + 1 \in S
  <2> SUFFICES ASSUME m + 1 <= n
               PROVE  d[m + 1] = IF t[m + 1] < MaxUint THEN t[m + 1] ELSE MaxUint
    OBVIOUS
  <2>1. m + 1 \in 1..n /\ (m + 1) - 1 = m /\ m <= n /\ m \in 0..n
    BY <1>1
  <2>2. z[m + 1].size \in 0..MaxUint
    BY <2>1, EntryFacts DEF Entry
  <2>3. /\ d[m] = IF t[m] < MaxUint THEN t[m] ELSE MaxUint
        /\ t[m] \in Nat
    BY <1>5, <2>1
  <2>4. /\ d[m + 1] = IF m + 1 \in Files(z) THEN AddSize(d[m], z[m + 1].size) ELSE d[m]
        /\ t[m + 1] = t[m] + IF m + 1 \in Files(z) THEN z[m + 1].size ELSE 0
    BY <1>2, <1>3, <2>1
  <2>5. CASE m + 1 \in Files(z)
    BY <1>1, <2>2, <2>3, <2>4, <2>5 DEF AddSize
  <2>6. CASE m + 1 \notin Files(z)
    BY <1>1, <2>3, <2>4, <2>6
  <2>. QED  BY <2>5, <2>6
<1>6. n \in S
  <2> HIDE DEF S, n
  <2>. QED  BY <1>1, <1>4, <1>5, NatSet
<1>7. n \in 0..n
  BY <1>1
<1>. QED  BY <1>2, <1>3, <1>6, <1>7

\* An archive within the limit really is.
LEMMA LimitIsTrue ==
  ASSUME NEW z \in Seq(Entry), checkArchiveLimits(z), MaxUncompressedSize > 0
  PROVE  TrueSize(z) <= MaxUncompressedSize
  BY SizeIsTrueOrBound, LimitsAssumption DEF checkArchiveLimits

-----------------------------------------------------------------------------
(* WrapperIsTransparent                                                    *)

\* A path, moved into the wrapper.
Under(p) == <<"dist">> \o p

LEMMA UnderFacts ==
  ASSUME NEW p \in Seq(Segments)
  PROVE  /\ Len(p) \in Nat
         /\ Under(p) \in Seq(Segments) /\ Len(Under(p)) = Len(p) + 1
         /\ Under(p)[1] = "dist" /\ \A i \in 1..Len(p) : Under(p)[i + 1] = p[i]
<1>1. Len(p) \in Nat /\ <<"dist">> \in Seq(Segments) /\ Len(<<"dist">>) = 1 /\ <<"dist">>[1] = "dist"
  BY SegmentsAssumption, LenProperties
<1> DEFINE d == <<"dist">>
<1> HIDE DEF d
<1>2. Len(d) = 1 /\ d \in Seq(Segments) /\ d[1] = "dist"
  BY <1>1 DEF d
<1>3. /\ d \o p \in Seq(Segments) /\ Len(d \o p) = Len(d) + Len(p)
      /\ \A i \in 1..(Len(d) + Len(p)) :
           (d \o p)[i] = IF i <= Len(d) THEN d[i] ELSE p[i - Len(d)]
  BY <1>2, ConcatProperties
<1>4. Under(p) = d \o p
  BY DEF Under, d
<1> HIDE DEF Under
<1>5. \A i \in 1..(1 + Len(p)) : Under(p)[i] = IF i <= 1 THEN d[i] ELSE p[i - 1]
  BY <1>2, <1>3, <1>4
<1>6. Under(p) \in Seq(Segments) /\ Len(Under(p)) = Len(p) + 1
  BY <1>1, <1>2, <1>3, <1>4
<1>7. Under(p)[1] = "dist"
  <2>1. 1 \in 1..(1 + Len(p))
    BY <1>1
  <2>. QED  BY <1>2, <1>5, <2>1
<1>8. ASSUME NEW i \in 1..Len(p) PROVE Under(p)[i + 1] = p[i]
  <2>1. i + 1 \in 1..(1 + Len(p)) /\ ~(i + 1 <= 1) /\ (i + 1) - 1 = i
    BY <1>1
  <2>. QED  BY <1>5, <2>1
<1>. QED  BY <1>1, <1>6, <1>7, <1>8

\* Which path that is, and that it tells paths apart.
LEMMA UnderIs ==
  ASSUME NEW p \in Seq(Segments), NEW q \in Seq(Segments), Len(q) = Len(p) + 1,
         q[1] = "dist", \A i \in 1..Len(p) : q[i + 1] = p[i]
  PROVE  q = Under(p)
<1>1. /\ Len(p) \in Nat
      /\ Under(p) \in Seq(Segments) /\ Len(Under(p)) = Len(p) + 1
      /\ Under(p)[1] = "dist" /\ \A i \in 1..Len(p) : Under(p)[i + 1] = p[i]
  BY UnderFacts
<1>2. ASSUME NEW i \in 1..Len(q) PROVE q[i] = Under(p)[i]
  <2>1. i = 1 \/ (i - 1 \in 1..Len(p) /\ (i - 1) + 1 = i)
    BY <1>1
  <2>. QED  BY <1>1, <2>1
<1>. QED  BY <1>1, <1>2, SeqEqual

LEMMA UnderInjective ==
  ASSUME NEW p \in Seq(Segments), NEW q \in Seq(Segments), Under(p) = Under(q)
  PROVE  p = q
<1>1. /\ Len(p) \in Nat /\ Len(q) \in Nat /\ Len(p) + 1 = Len(q) + 1
      /\ \A i \in 1..Len(p) : Under(p)[i + 1] = p[i]
      /\ \A i \in 1..Len(q) : Under(p)[i + 1] = q[i]
  BY UnderFacts
<1>2. Len(p) = Len(q)
  BY <1>1
<1>. QED  BY <1>1, <1>2, SeqEqual

\* A path that has left the package's folder.
Outside(p) == Len(p) > 0 /\ p[1] = ".."

\* It does not come back.
LEMMA OutsideStays ==
  ASSUME NEW p \in Seq(Segments), Outside(p), NEW seg \in Segments
  PROVE  Outside(CleanStep(p, seg))
<1>1. Len(p) \in Nat /\ Len(p) > 0 /\ p[1] = ".."
  BY LenProperties DEF Outside
<1>2. CASE CleanStep(p, seg) = p
  BY <1>2
<1>3. CASE CleanStep(p, seg) = Front(p) /\ p # <<>> /\ Last(p) # ".."
  <2>1. Len(p) # 1
    <3>1. Last(p) = p[Len(p)]
      BY DEF Last
    <3> HIDE DEF Last
    <3>2. p[Len(p)] # ".."
      BY <1>3, <3>1, Zenon
    <3>. QED  BY <1>1, <3>2
  <2>2. 1 \in 1..(Len(p) - 1) /\ Len(p) - 1 > 0
    <3>1. \A n \in Nat : n > 0 /\ n # 1 => 1 \in 1..(n - 1) /\ n - 1 > 0
      OBVIOUS
    <3>. QED  BY <1>1, <2>1, <3>1, Zenon
  <2>3. Len(Front(p)) = Len(p) - 1 /\ Front(p)[1] = p[1]
    BY <1>3, <2>2, FrontOfPath
  <2> HIDE DEF Front
  <2>. QED  BY <1>1, <1>3, <2>2, <2>3 DEF Outside
<1>4. CASE CleanStep(p, seg) = Append(p, seg)
  <2>1. Len(Append(p, seg)) = Len(p) + 1 /\ \A i \in 1..Len(p) : Append(p, seg)[i] = p[i]
    BY AppendProperties
  <2>2. 1 \in 1..Len(p) /\ Len(p) + 1 > 0
    BY <1>1
  <2>. QED  BY <1>1, <1>4, <2>1, <2>2 DEF Outside
<1>. QED  BY <1>2, <1>3, <1>4, Zenon DEF CleanStep

\* Cleaning goes the same way inside the wrapper, until the path gets outside.
LEMMA CleanStepUnder ==
  ASSUME NEW p \in Seq(Segments), Tidy(p), ~Outside(p), NEW seg \in Segments
  PROVE  \/ Outside(CleanStep(p, seg))
         \/ CleanStep(Under(p), seg) = Under(CleanStep(p, seg))
<1> DEFINE u == Under(p)
<1>1. /\ Len(p) \in Nat /\ u \in Seq(Segments) /\ Len(u) = Len(p) + 1
      /\ u[1] = "dist" /\ \A i \in 1..Len(p) : u[i + 1] = p[i]
  BY UnderFacts
<1> HIDE DEF u
<1>2. u # <<>>
  <2>1. Len(u) # 0 /\ Len(<<>>) = 0
    BY <1>1
  <2>. QED  BY <2>1
<1>3. CASE seg \in {"", "."}
  BY <1>3 DEF CleanStep, u
<1>4. CASE seg \notin {"", "."} /\ seg = ".." /\ p # <<>>
  <2>1. Len(p) > 0
    BY <1>4, EmptySeq
  <2>2. Last(p) # ".."
    <3>1. Len(p) \in 1..Len(p) /\ 1 \in 1..Len(p)
      BY <1>1, <2>1
    <3>. QED  BY <2>1, <3>1 DEF Last, Tidy, Outside
  <2>3. Last(u) = Last(p)
    <3>1. Len(p) \in 1..Len(p)
      BY <1>1, <2>1
    <3>. QED  BY <1>1, <3>1 DEF Last
  <2>4. CleanStep(p, seg) = Front(p) /\ CleanStep(u, seg) = Front(u)
    BY <1>2, <1>4, <2>2, <2>3, Zenon DEF CleanStep
  <2>5. /\ Front(p) \in Seq(Segments) /\ Len(Front(p)) = Len(p) - 1
        /\ \A i \in 1..(Len(p) - 1) : Front(p)[i] = p[i]
    BY <1>4, FrontOfPath
  <2>6. /\ Front(u) \in Seq(Segments) /\ Len(Front(u)) = Len(u) - 1
        /\ \A i \in 1..(Len(u) - 1) : Front(u)[i] = u[i]
    BY <1>1, <1>2, FrontOfPath
  <2> HIDE DEF Front
  <2>7. Len(Front(u)) = Len(Front(p)) + 1 /\ Front(u)[1] = "dist"
    <3>1. 1 \in 1..(Len(u) - 1) /\ Len(u) - 1 = (Len(p) - 1) + 1
      BY <1>1, <2>1
    <3>. QED  BY <1>1, <2>5, <2>6, <3>1
  <2>8. ASSUME NEW i \in 1..Len(Front(p)) PROVE Front(u)[i + 1] = Front(p)[i]
    <3>1. i \in 1..(Len(p) - 1) /\ i \in 1..Len(p) /\ i + 1 \in 1..(Len(u) - 1)
      BY <1>1, <2>1, <2>5
    <3>. QED  BY <1>1, <2>5, <2>6, <3>1
  <2>9. Front(u) = Under(Front(p))
    BY <2>5, <2>6, <2>7, <2>8, UnderIs
  <2>. QED  BY <2>4, <2>9 DEF u
<1>5. CASE seg \notin {"", "."} /\ seg = ".." /\ p = <<>>
  <2>1. CleanStep(p, seg) = Append(p, seg)
    BY <1>5, Zenon DEF CleanStep
  <2>2. Len(Append(p, seg)) = Len(p) + 1 /\ Append(p, seg)[Len(p) + 1] = seg
    BY AppendProperties
  <2>3. Len(p) = 0
    BY <1>5
  <2>. QED  BY <1>5, <2>1, <2>2, <2>3 DEF Outside
<1>6. CASE seg \notin {"", "."} /\ seg # ".."
  <2> DEFINE a == Append(p, seg)
             b == Append(u, seg)
  <2>1. CleanStep(p, seg) = a /\ CleanStep(u, seg) = b
    BY <1>6, Zenon DEF CleanStep
  <2>2. /\ a \in Seq(Segments) /\ Len(a) = Len(p) + 1
        /\ (\A i \in 1..Len(p) : a[i] = p[i]) /\ a[Len(p) + 1] = seg
    BY AppendProperties
  <2>3. /\ b \in Seq(Segments) /\ Len(b) = Len(u) + 1
        /\ (\A i \in 1..Len(u) : b[i] = u[i]) /\ b[Len(u) + 1] = seg
    BY <1>1, AppendProperties
  <2> HIDE DEF a, b
  <2>4. Len(b) = Len(a) + 1 /\ b[1] = "dist"
    <3>1. 1 \in 1..Len(u)
      BY <1>1
    <3>. QED  BY <1>1, <2>2, <2>3, <3>1
  <2>5. ASSUME NEW i \in 1..Len(a) PROVE b[i + 1] = a[i]
    <3>1. CASE i = Len(p) + 1
      BY <1>1, <2>2, <2>3, <3>1
    <3>2. CASE i # Len(p) + 1
      <4>1. i \in 1..Len(p) /\ i + 1 \in 1..Len(u)
        BY <1>1, <2>2, <3>2
      <4>. QED  BY <1>1, <2>2, <2>3, <4>1
    <3>. QED  BY <3>1, <3>2
  <2>6. b = Under(a)
    BY <2>2, <2>3, <2>4, <2>5, UnderIs
  <2>. QED  BY <2>1, <2>6 DEF u
<1>. QED  BY <1>3, <1>4, <1>5, <1>6

\* A name that does not escape is cleaned to the same path inside the wrapper.
LEMMA CleanUnder ==
  ASSUME NEW name \in Seq(Segments), ~Escapes(name)
  PROVE  Clean(Under(name)) = Under(Clean(name))
<1> DEFINE n == Len(name)
           w == Under(name)
<1>1. /\ n \in Nat /\ w \in Seq(Segments) /\ Len(w) = n + 1
      /\ w[1] = "dist" /\ \A i \in 1..n : w[i + 1] = name[i]
  BY UnderFacts
<1>2. PICK f \in [0..n -> Seq(Segments)] :
        /\ f[0] = <<>> /\ Clean(name) = f[n]
        /\ \A i \in 1..n : f[i] = CleanStep(f[i - 1], NFC[name[i]])
  BY CleanLoop
<1> HIDE DEF w
<1>3. PICK g \in [0..Len(w) -> Seq(Segments)] :
        /\ g[0] = <<>> /\ Clean(w) = g[Len(w)]
        /\ \A i \in 1..Len(w) : g[i] = CleanStep(g[i - 1], NFC[w[i]])
  BY <1>1, CleanLoop
<1> DEFINE S == { m \in Nat : m <= n => /\ Tidy(f[m])
                                        /\ Outside(f[m]) \/ g[m + 1] = Under(f[m]) }
<1>4. 0 \in S
  <2>1. 1 \in 1..Len(w) /\ 1 - 1 = 0 /\ 0 + 1 = 1
    BY <1>1
  <2>2. g[1] = CleanStep(<<>>, "dist")
    BY <1>1, <1>3, <2>1, SegmentsAssumption
  <2>3. CleanStep(<<>>, "dist") = Append(<<>>, "dist")
    BY Zenon DEF CleanStep
  <2>4. Append(<<>>, "dist") = Under(<<>>)
    <3>1. "dist" \in Segments /\ <<>> \in Seq(Segments)
      BY SegmentsAssumption, EmptySeq
    <3>2. /\ Append(<<>>, "dist") \in Seq(Segments)
          /\ Len(Append(<<>>, "dist")) = Len(<<>>) + 1
          /\ Append(<<>>, "dist")[Len(<<>>) + 1] = "dist"
      BY <3>1, AppendProperties
    <3>3. Len(<<>>) + 1 = 1 /\ 1..Len(<<>>) = {}
      OBVIOUS
    <3>4. Append(<<>>, "dist")[1] = "dist"
      BY <3>2, <3>3, Zenon
    <3>5. \A i \in 1..Len(<<>>) : Append(<<>>, "dist")[i + 1] = <<>>[i]
      BY <3>3, Zenon
    <3>. QED  BY <3>1, <3>2, <3>4, <3>5, UnderIs, Zenon
  <2>5. Tidy(<<>>)
    <3>1. 1..Len(<<>>) = {}
      OBVIOUS
    <3>. QED  BY <3>1, Zenon DEF Tidy
  <2>6. Tidy(f[0]) /\ g[0 + 1] = Under(f[0])
    BY <1>2, <2>1, <2>2, <2>3, <2>4, <2>5, Zenon
  <2>. QED  BY <2>6
<1>5. ASSUME NEW m \in Nat, m \in S PROVE m + 1 \in S
  <2> SUFFICES ASSUME m + 1 <= n
               PROVE  /\ Tidy(f[m + 1])
                      /\ Outside(f[m + 1]) \/ g[(m + 1) + 1] = Under(f[m + 1])
    OBVIOUS
  <2>1. /\ m + 1 \in 1..n /\ (m + 1) - 1 = m /\ m <= n /\ m \in 0..n
        /\ (m + 1) + 1 \in 1..(n + 1) /\ ((m + 1) + 1) - 1 = m + 1
    BY <1>1
  <2> DEFINE seg == NFC[name[m + 1]]
  <2>2. name[m + 1] \in Segments
    BY <2>1, ElementOfSeq
  <2>3. seg \in Segments /\ NFC[seg] = seg
    BY <2>2, SegmentsAssumption
  <2>4. f[m] \in Seq(Segments) /\ Tidy(f[m])
    BY <1>5, <2>1
  <2>5. f[m + 1] = CleanStep(f[m], seg)
    BY <1>2, <2>1
  <2>6. g[(m + 1) + 1] = CleanStep(g[m + 1], seg)
    BY <1>1, <1>3, <2>1
  <2> HIDE DEF seg
  <2>7. Tidy(f[m + 1])
    BY <2>3, <2>4, <2>5, CleanStepTidy
  <2>8. CASE Outside(f[m])
    BY <2>3, <2>4, <2>5, <2>7, <2>8, OutsideStays
  <2>9. CASE ~Outside(f[m])
    <3>1. g[m + 1] = Under(f[m])
      BY <1>5, <2>1, <2>9
    <3>. QED  BY <2>3, <2>4, <2>5, <2>6, <2>7, <2>9, <3>1, CleanStepUnder
  <2>. QED  BY <2>8, <2>9
<1>6. n \in S
  <2> HIDE DEF S, n
  <2>. QED  BY <1>1, <1>4, <1>5, NatSet
<1>7. ~Outside(f[n])
  BY <1>2 DEF Escapes, Outside
<1>8. g[n + 1] = Under(f[n])
  BY <1>1, <1>6, <1>7
<1>. QED  BY <1>1, <1>2, <1>3, <1>8 DEF w

\* What an archive that is not refused owes to every step.
LEMMA AcceptedFacts ==
  ASSUME NEW z \in Seq(Entry), archiveKeys(z) # <<>>
  PROVE  /\ \A i \in Files(z) : ~Escapes(z[i].name)
         /\ DOMAIN applyIgnoreFile(validatedEntries(z)) # {}
<1> DEFINE entries == applyIgnoreFile(validatedEntries(z))
<1>1. DOMAIN entries # {}
  <2> SUFFICES ASSUME DOMAIN entries = {} PROVE archiveKeys(z) = <<>>
    OBVIOUS
  <2> DEFINE all == [i \in DOMAIN entries |->
                       Below(singleTopLevelFolder(entries), entries[i].path)]
  <2>1. archiveKeys(z) = <<>> \/ archiveKeys(z) = all
    BY Zenon DEF archiveKeys, objectKeys
  <2> HIDE DEF entries
  <2>2. all = [i \in {} |-> <<>>]
    OBVIOUS
  <2>3. [i \in {} |-> <<>>] = <<>>
    OBVIOUS
  <2>. QED  BY <2>1, <2>2, <2>3
<1>2. DOMAIN validatedEntries(z) # {}
  BY <1>1, IgnoringDrops
<1>3. ASSUME NEW i \in Files(z), Escapes(z[i].name) PROVE FALSE
  <2>1. validatedEntries(z) = <<>>
    BY <1>3, Zenon DEF validatedEntries
  <2>. QED  BY <1>2, <2>1
<1>. QED  BY <1>1, <1>3

\* These entries are those ones, moved into the wrapper.
Lifted(W, E) ==
  /\ DOMAIN W = DOMAIN E
  /\ \A i \in DOMAIN E : /\ E[i].path \in Seq(Segments) /\ Len(E[i].path) > 0
                         /\ W[i].path = Under(E[i].path) /\ W[i].patterns = E[i].patterns
                         /\ W[i].readable = E[i].readable

\* The archive moved into the wrapper keeps its files, and they are validated alike.
LEMMA WrappedIsLifted ==
  ASSUME NEW z \in Seq(Entry), \A i \in Files(z) : ~Escapes(z[i].name)
  PROVE  Lifted(validatedEntries(Wrapped(z)), validatedEntries(z))
<1> DEFINE w == Wrapped(z)
           P(i) == Clean(z[i].name)
           Mac(i) == i \in Files(z) /\ P(i)[1] = "__MACOSX"
<1>1. DOMAIN w = DOMAIN z
  BY DEF Wrapped
<1>2. ASSUME NEW i \in DOMAIN z
      PROVE  /\ z[i].name \in Seq(Segments) /\ Len(z[i].name) \in Nat \ {0}
             /\ Mac(i) => w[i] = z[i]
             /\ ~Mac(i) => w[i].name = Under(z[i].name)
             /\ w[i].patterns = z[i].patterns /\ w[i].readable = z[i].readable
             /\ w[i].dirMode = z[i].dirMode
  <2>1. z[i].name \in Seq(Segments) /\ Len(z[i].name) \in Nat \ {0} /\ z[i] \in Entry
    BY EntryFacts
  <2>2. w[i] = IF Mac(i) THEN z[i] ELSE [z[i] EXCEPT !.name = Under(z[i].name)]
    BY DEF Wrapped, Under
  <2> HIDE DEF Mac, w
  <2>3. CASE Mac(i)
    BY <2>1, <2>2, <2>3
  <2>4. CASE ~Mac(i)
    BY <2>1, <2>2, <2>4 DEF Entry
  <2>. QED  BY <2>3, <2>4
<1> HIDE DEF w
<1>3. ASSUME NEW i \in DOMAIN z, ~Mac(i)
      PROVE  /\ Len(w[i].name) = Len(z[i].name) + 1
             /\ Last(w[i].name) = Last(z[i].name) /\ w[i].name[1] = "dist"
  <2> DEFINE p == z[i].name
  <2>1. p \in Seq(Segments) /\ Len(p) \in Nat \ {0} /\ w[i].name = Under(p)
    BY <1>2, <1>3
  <2> HIDE DEF p, Mac
  <2>2. Len(p) \in 1..Len(p)
    BY <2>1
  <2>3. Len(Under(p)) = Len(p) + 1 /\ Under(p)[1] = "dist" /\ Under(p)[Len(p) + 1] = p[Len(p)]
    BY <2>1, <2>2, UnderFacts
  <2>. QED  BY <2>1, <2>3, Zenon DEF Last, p
<1>4. ASSUME NEW i \in Files(z)
      PROVE  i \in DOMAIN z /\ ~IsDir(w[i]) /\ ~IsDir(z[i]) /\ Fine(P(i)) /\ P(i) \in Seq(Segments)
  <2>1. i \in DOMAIN z /\ ~IsDir(z[i]) /\ ~Escapes(z[i].name)
    BY DEF Files
  <2>2. Fine(P(i)) /\ P(i) \in Seq(Segments)
    BY <1>2, <2>1, CleanIsFine DEF Fine
  <2>3. CASE Mac(i)
    BY <1>2, <2>1, <2>2, <2>3
  <2>4. CASE ~Mac(i)
    <3>1. Last(z[i].name) # ""
      <4>1. CASE Len(z[i].name) = 1
        BY <2>1, <4>1 DEF Escapes, Last
      <4>2. CASE Len(z[i].name) # 1
        <5>1. Len(z[i].name) > 1
          <6>1. \A n \in Nat \ {0} : n # 1 => n > 1
            OBVIOUS
          <6>. QED  BY <1>2, <2>1, <4>2, <6>1, Zenon
        <5>. QED  BY <2>1, <5>1 DEF IsDir
      <4>. QED  BY <4>1, <4>2
    <3>. QED  BY <1>2, <1>3, <2>1, <2>2, <2>4, <3>1 DEF IsDir
  <2>. QED  BY <2>3, <2>4
<1>5. ASSUME NEW i \in DOMAIN z, i \notin Files(z) PROVE IsDir(w[i])
  <2>1. IsDir(z[i])
    BY <1>5 DEF Files
  <2>2. ~Mac(i) /\ Len(z[i].name) \in Nat
    BY <1>2, <1>5
  <2> HIDE DEF Mac
  <2>3. Len(w[i].name) = Len(z[i].name) + 1 /\ Last(w[i].name) = Last(z[i].name)
    BY <1>3, <2>2
  <2>4. \A n \in Nat : n > 1 => n + 1 > 1
    OBVIOUS
  <2>5. w[i].dirMode = z[i].dirMode
    BY <1>2
  <2>. QED  BY <2>1, <2>2, <2>3, <2>4, <2>5, Zenon DEF IsDir
<1>6. Files(w) = Files(z)
  <2>1. Files(w) \subseteq Files(z)
    BY <1>1, <1>5 DEF Files
  <2>2. Files(z) \subseteq Files(w)
    BY <1>1, <1>4 DEF Files
  <2>. QED  BY <2>1, <2>2
<1>7. ASSUME NEW i \in Files(z), ~Mac(i)
      PROVE  /\ Clean(w[i].name) = Under(P(i)) /\ ~Escapes(w[i].name)
             /\ isArchiveJunk(Clean(w[i].name)) <=> isArchiveJunk(P(i))
  <2>1. Clean(w[i].name) = Under(P(i))
    BY <1>2, <1>4, <1>7, CleanUnder
  <2> DEFINE p == P(i)
  <2>2. p \in Seq(Segments) /\ Len(p) \in Nat /\ Len(p) > 0 /\ p[1] # "__MACOSX"
    BY <1>4, <1>7, LenProperties DEF Fine
  <2> HIDE DEF p
  <2>3. /\ Len(Under(p)) = Len(p) + 1 /\ Under(p)[1] = "dist"
        /\ \A j \in 1..Len(p) : Under(p)[j + 1] = p[j]
    BY <2>2, UnderFacts
  <2>4. Last(Under(p)) = Last(p)
    <3>1. Len(p) \in 1..Len(p)
      BY <2>2
    <3>. QED  BY <2>3, <3>1 DEF Last
  <2>5. isArchiveJunk(Under(p)) <=> isArchiveJunk(p)
    BY <2>2, <2>3, <2>4 DEF isArchiveJunk
  <2>6. Under(p) # <<>>
    <3>1. Len(Under(p)) # 0 /\ Len(<<>>) = 0
      BY <2>2, <2>3
    <3>. QED  BY <3>1
  <2>7. ~Escapes(w[i].name)
    <3>1. w[i].name[1] = "dist" /\ Clean(w[i].name) = Under(p)
      BY <1>3, <1>4, <1>7, <2>1 DEF p
    <3>2. w[i].name[1] # "" /\ Clean(w[i].name)[1] # ".."
      BY <2>3, <3>1
    <3>. QED  BY <2>6, <3>1, <3>2, Zenon DEF Escapes
  <2>. QED  BY <2>1, <2>5, <2>7 DEF p
<1>8. ASSUME NEW i \in Files(z), Mac(i)
      PROVE  /\ ~Escapes(w[i].name) /\ isArchiveJunk(P(i)) /\ isArchiveJunk(Clean(w[i].name))
  BY <1>2, <1>4, <1>8 DEF isArchiveJunk
<1> HIDE DEF Mac
<1>9. \A i \in Files(z) : isArchiveJunk(Clean(w[i].name)) <=> isArchiveJunk(P(i))
  BY <1>7, <1>8
<1> DEFINE I == { j \in Files(z) : ~isArchiveJunk(P(j)) }
           E == [ i \in I |-> [path |-> P(i), readable |-> z[i].readable,
                               patterns |-> z[i].patterns] ]
           W == [ i \in I |-> [path |-> Clean(w[i].name), readable |-> w[i].readable,
                               patterns |-> w[i].patterns] ]
<1>10. validatedEntries(z) = E
  BY Zenon DEF validatedEntries
<1>11. validatedEntries(w) = W
  <2>1. ~\E i \in Files(w) : Escapes(w[i].name)
    BY <1>6, <1>7, <1>8
  <2>2. { j \in Files(w) : ~isArchiveJunk(Clean(w[j].name)) } = I
    BY <1>6, <1>9
  <2>3. validatedEntries(w) =
          [ i \in { j \in Files(w) : ~isArchiveJunk(Clean(w[j].name)) } |->
              [path |-> Clean(w[i].name), readable |-> w[i].readable,
               patterns |-> w[i].patterns] ]
    BY <2>1, Zenon DEF validatedEntries
  <2> HIDE DEF I
  <2>. QED  BY <2>2, <2>3
<1>12. ASSUME NEW i \in I
       PROVE  /\ P(i) \in Seq(Segments) /\ Len(P(i)) > 0
              /\ Clean(w[i].name) = Under(P(i)) /\ w[i].patterns = z[i].patterns
              /\ w[i].readable = z[i].readable
  <2>1. ~Mac(i)
    BY <1>8
  <2>. QED  BY <1>2, <1>4, <1>7, <2>1 DEF Fine
<1> HIDE DEF I, P
<1>13. Lifted(W, E)
  BY <1>12 DEF Lifted
<1>. QED  BY <1>10, <1>11, <1>13 DEF w

\* Moved into the wrapper, entries have it for their single folder.
LEMMA LiftedFolder ==
  ASSUME NEW W, NEW E, Lifted(W, E), DOMAIN E # {}
  PROVE  singleTopLevelFolder(W) = <<"dist">>
<1> DEFINE folders == { W[i].path[1] : i \in DOMAIN W }
<1>1. ASSUME NEW i \in DOMAIN W PROVE W[i].path[1] = "dist" /\ Len(W[i].path) > 1
  <2> DEFINE p == E[i].path
  <2>1. p \in Seq(Segments) /\ Len(p) > 0 /\ W[i].path = Under(p)
    BY DEF Lifted
  <2> HIDE DEF p
  <2>2. Len(p) \in Nat /\ Len(Under(p)) = Len(p) + 1 /\ Under(p)[1] = "dist"
    BY <2>1, UnderFacts
  <2>3. \A n \in Nat : n > 0 => n + 1 > 1
    OBVIOUS
  <2>. QED  BY <2>1, <2>2, <2>3
<1>2. DOMAIN W # {}
  BY DEF Lifted
<1>3. folders = {"dist"}
  BY <1>1, <1>2
<1>4. singleTopLevelFolder(W) =
        IF /\ \E folder \in folders : folders = {folder}
           /\ \A i \in DOMAIN W : Len(W[i].path) > 1
        THEN <<CHOOSE folder \in folders : TRUE>> ELSE <<>>
  BY Zenon DEF singleTopLevelFolder
<1> HIDE DEF folders
<1>5. (CHOOSE folder \in folders : TRUE) = "dist"
  BY <1>3
<1>. QED  BY <1>1, <1>3, <1>4, <1>5

\* What is left of entries of a single folder has a single folder.
LEMMA FolderStays ==
  ASSUME NEW E, NEW D, DOMAIN D \subseteq DOMAIN E, DOMAIN D # {},
         \A i \in DOMAIN D : D[i] = E[i], singleTopLevelFolder(E) # <<>>
  PROVE  singleTopLevelFolder(D) # <<>>
<1> DEFINE folders == { E[i].path[1] : i \in DOMAIN E }
           left == { D[i].path[1] : i \in DOMAIN D }
<1>1. PICK folder \in folders : folders = {folder}
  BY Zenon DEF singleTopLevelFolder
<1>2. \A i \in DOMAIN E : Len(E[i].path) > 1
  BY Zenon DEF singleTopLevelFolder
<1>3. left = {folder}
  <2>1. \A i \in DOMAIN D : D[i].path[1] \in folders
    OBVIOUS
  <2>2. \A i \in DOMAIN D : D[i].path[1] = folder
    BY <1>1, <2>1
  <2>3. PICK i \in DOMAIN D : TRUE
    OBVIOUS
  <2>. QED  BY <2>2, <2>3
<1>4. singleTopLevelFolder(D) =
        IF /\ \E x \in left : left = {x}
           /\ \A i \in DOMAIN D : Len(D[i].path) > 1
        THEN <<CHOOSE x \in left : TRUE>> ELSE <<>>
  BY Zenon DEF singleTopLevelFolder
<1> HIDE DEF left
<1>5. singleTopLevelFolder(D) = <<CHOOSE x \in left : TRUE>>
  BY <1>2, <1>3, <1>4
<1>6. Len(<<CHOOSE x \in left : TRUE>>) = 1 /\ Len(<<>>) = 0
  OBVIOUS
<1>. QED  BY <1>5, <1>6

\* Below the wrapper are the paths that were moved into it.
LEMMA BelowUnder ==
  ASSUME NEW p \in Seq(Segments), Len(p) > 0
  PROVE  Below(<<"dist">>, Under(p)) = p
<1> DEFINE u == Under(p)
           b == Below(<<"dist">>, u)
<1>1. /\ Len(p) \in Nat /\ u \in Seq(Segments) /\ Len(u) = Len(p) + 1
      /\ \A i \in 1..Len(p) : u[i + 1] = p[i]
  BY UnderFacts
<1>2. Len(u) > 1 /\ Len(u) - 1 = Len(p)
  <2>1. \A n \in Nat : n > 0 => n + 1 > 1 /\ (n + 1) - 1 = n
    OBVIOUS
  <2> HIDE DEF u
  <2>. QED  BY <1>1, <2>1
<1> HIDE DEF u
<1>3. b \in Seq(Segments) /\ Len(b) = Len(u) - 1 /\ \A i \in 1..(Len(u) - 1) : b[i] = u[i + 1]
  BY <1>1, <1>2, BelowPath, Zenon
<1> HIDE DEF b
<1>4. Len(b) = Len(p) /\ \A i \in 1..Len(b) : b[i] = p[i]
  BY <1>1, <1>2, <1>3
<1>5. b = p
  BY <1>3, <1>4, SeqEqual
<1>. QED  BY <1>5 DEF b, u

\* The path of an ignore file at the root, and of one in the wrapper.
LEMMA IgnorePaths ==
  /\ Append(<<>>, ".gimmeignore") \in Seq(Segments) /\ Len(Append(<<>>, ".gimmeignore")) = 1
  /\ Append(<<"dist">>, ".gimmeignore") = Under(Append(<<>>, ".gimmeignore"))
  /\ Front(Append(<<>>, ".gimmeignore")) = <<>>
  /\ Front(Under(Append(<<>>, ".gimmeignore"))) = <<"dist">>
<1> DEFINE e == ".gimmeignore"
           n == <<>>
           o == <<"dist">>
<1>1. /\ e \in Segments /\ n \in Seq(Segments) /\ o \in Seq(Segments)
      /\ Len(n) = 0 /\ Len(o) = 1 /\ o[1] = "dist"
  BY SegmentsAssumption, EmptySeq
<1> DEFINE g == Append(n, e)
           d == Append(o, e)
<1> HIDE DEF e, n, o
<1>2. g \in Seq(Segments) /\ Len(g) = Len(n) + 1 /\ g[Len(n) + 1] = e
  BY <1>1, AppendProperties
<1>3. /\ d \in Seq(Segments) /\ Len(d) = Len(o) + 1
      /\ (\A i \in 1..Len(o) : d[i] = o[i]) /\ d[Len(o) + 1] = e
  <2>1. e \in Segments /\ o \in Seq(Segments)
    BY <1>1
  <2>. QED  BY <2>1, AppendProperties
<1> HIDE DEF d, g
<1>6. Len(g) = 1 /\ g[1] = e
  BY <1>1, <1>2
<1>7. Len(d) = 2 /\ d[1] = "dist" /\ d[2] = e
  BY <1>1, <1>3
<1>8. d = Under(g)
  <2>1. \A i \in 1..Len(g) : d[i + 1] = g[i]
    BY <1>6, <1>7
  <2>2. Len(d) = Len(g) + 1 /\ d[1] = "dist"
    BY <1>6, <1>7
  <2>3. g \in Seq(Segments) /\ d \in Seq(Segments)
    BY <1>2, <1>3, Zenon
  <2>. QED  BY <2>1, <2>2, <2>3, UnderIs
<1>9. g # <<>> /\ d # <<>>
  <2>1. Len(g) # 0 /\ Len(d) # 0
    BY <1>6, <1>7
  <2>2. Len(<<>>) = 0
    OBVIOUS
  <2>. QED  BY <2>1, <2>2, Zenon
<1>10. Front(g) = n
  <2>1. Front(g) \in Seq(Segments) /\ Len(Front(g)) = Len(g) - 1
    BY <1>2, <1>9, FrontOfPath
  <2> HIDE DEF Front
  <2>2. Len(Front(g)) = Len(n) /\ \A i \in 1..Len(Front(g)) : Front(g)[i] = n[i]
    BY <1>1, <1>6, <2>1
  <2>. QED  BY <1>1, <2>1, <2>2, SeqEqual
<1>11. Front(d) = o
  <2>1. /\ Front(d) \in Seq(Segments) /\ Len(Front(d)) = Len(d) - 1
        /\ \A i \in 1..(Len(d) - 1) : Front(d)[i] = d[i]
    BY <1>3, <1>9, FrontOfPath
  <2> HIDE DEF Front
  <2>2. Len(Front(d)) = Len(o) /\ \A i \in 1..Len(Front(d)) : Front(d)[i] = o[i]
    BY <1>1, <1>7, <2>1
  <2>. QED  BY <1>1, <2>1, <2>2, SeqEqual
<1>. QED  BY <1>2, <1>6, <1>8, <1>10, <1>11, Zenon DEF g, d, o, n, e

\* Of a set of positions there is a first one.
LEMMA FirstPosition ==
  ASSUME NEW I, I \subseteq Nat, I # {}
  PROVE  Min(I) \in I
<1>1. PICK n \in I : \A m \in I : <<m, n>> \notin OpToRel(<, Nat)
  BY NatLessThanWellFounded, WFMin
<1>2. \A m \in I : ~(m < n)
  BY <1>1 DEF OpToRel
<1>3. \A m \in I : n <= m
  BY <1>2
<1>. QED  BY <1>3 DEF Min

\* An ignore file at the root does in the wrapper what it does outside.
LEMMA LiftedKept ==
  ASSUME NEW W, NEW E, Lifted(W, E), NEW f \in DOMAIN E, NEW i \in DOMAIN E,
         E[f].path = Append(<<>>, ".gimmeignore")
  PROVE  KeptBy(W[f], W[i]) <=> KeptBy(E[f], E[i])
<1> DEFINE g == Append(<<>>, ".gimmeignore")
           p == E[i].path
<1>1. /\ W[f].path = Under(g) /\ W[i].path = Under(p)
      /\ W[f].patterns = E[f].patterns /\ p \in Seq(Segments) /\ Len(p) > 0 /\ E[f].path = g
  BY DEF Lifted
<1>2. g \in Seq(Segments) /\ Front(g) = <<>> /\ Front(Under(g)) = <<"dist">>
  BY IgnorePaths
<1> HIDE DEF g, p
<1>3. Under(p) = Under(g) <=> p = g
  BY <1>1, <1>2, UnderInjective
<1>4. Below(Front(W[f].path), W[i].path) = p
  BY <1>1, <1>2, BelowUnder
<1>5. Below(Front(E[f].path), E[i].path) = p
  <2>1. Below(<<>>, p) = p
    BY <1>1, BelowPath
  <2>. QED  BY <1>1, <1>2, <2>1, Zenon DEF p
<1>6. W[i].path = W[f].path <=> E[i].path = E[f].path
  BY <1>1, <1>3 DEF p
<1>. QED  BY <1>1, <1>4, <1>5, <1>6, Zenon DEF KeptBy

\* Ignoring leaves the same entries, inside the wrapper and outside.
LEMMA LiftedIgnore ==
  ASSUME NEW W, NEW E, Lifted(W, E), DOMAIN E \subseteq Nat \ {0},
         DOMAIN applyIgnoreFile(E) # {}, singleTopLevelFolder(applyIgnoreFile(E)) = <<>>
  PROVE  Lifted(applyIgnoreFile(W), applyIgnoreFile(E))
<1> DEFINE g == Append(<<>>, ".gimmeignore")
<1>1. DOMAIN W = DOMAIN E /\ DOMAIN E # {}
  BY IgnoringDrops DEF Lifted
<1>2. singleTopLevelFolder(W) = <<"dist">> /\ <<"dist">> # <<>>
  <2>1. Len(<<"dist">>) = 1 /\ Len(<<>>) = 0
    OBVIOUS
  <2>. QED  BY <1>1, <2>1, LiftedFolder
<1>3. IgnoreFilesIn(<<>>, W) = {}
  <2> SUFFICES ASSUME NEW i \in DOMAIN W, W[i].path = g PROVE FALSE
    BY Zenon DEF IgnoreFilesIn
  <2> DEFINE p == E[i].path
  <2>1. p \in Seq(Segments) /\ Len(p) > 0 /\ Under(p) = g
    BY <1>1 DEF Lifted
  <2> HIDE DEF p, g
  <2>2. Len(p) \in Nat /\ Len(Under(p)) = Len(p) + 1
    BY <2>1, UnderFacts
  <2>3. Len(Under(p)) = 1
    BY <2>1, IgnorePaths, Zenon DEF g
  <2>4. \A n \in Nat : n > 0 => n + 1 # 1
    OBVIOUS
  <2>. QED  BY <2>1, <2>2, <2>3, <2>4, Zenon
<1>4. IgnoreFilesIn(<<"dist">>, W) = IgnoreFilesIn(<<>>, E)
  <2>1. g \in Seq(Segments) /\ Append(<<"dist">>, ".gimmeignore") = Under(g)
    BY IgnorePaths
  <2>2. ASSUME NEW i \in DOMAIN E PROVE W[i].path = Under(g) <=> E[i].path = g
    <3>1. E[i].path \in Seq(Segments) /\ W[i].path = Under(E[i].path)
      BY DEF Lifted
    <3> HIDE DEF g
    <3>. QED  BY <2>1, <3>1, UnderInjective
  <2> HIDE DEF g
  <2>3. IgnoreFilesIn(<<"dist">>, W) = { i \in DOMAIN W : W[i].path = Under(g) }
    BY <2>1, Zenon DEF IgnoreFilesIn
  <2>4. IgnoreFilesIn(<<>>, E) = { i \in DOMAIN E : E[i].path = g }
    BY Zenon DEF IgnoreFilesIn, g
  <2>. QED  BY <1>1, <2>2, <2>3, <2>4
<1> DEFINE A == IgnoreFilesIn(<<>>, E)
<1>5. findIgnoreFile(W) = IF A = {} THEN 0 ELSE Min(A)
  BY <1>2, <1>3, <1>4, Zenon DEF findIgnoreFile
<1>6. CASE A # {}
  <2>1. findIgnoreFile(E) = Min(A)
    BY <1>6, Zenon DEF findIgnoreFile
  <2>2. A \subseteq DOMAIN E /\ \A i \in A : E[i].path = g
    BY Zenon DEF IgnoreFilesIn
  <2>3. Min(A) \in A
    BY <1>6, <2>2, FirstPosition
  <2> DEFINE f == Min(A)
  <2> HIDE DEF A, g
  <2>4. f \in DOMAIN E /\ f # 0 /\ E[f].path = g
    BY <2>2, <2>3
  <2>5. findIgnoreFile(E) = f /\ findIgnoreFile(W) = f
    BY <1>5, <1>6, <2>1
  <2> HIDE DEF f
  <2>ok. E[f].readable /\ W[f].readable
    <3>1. E[f].readable
      <4> SUFFICES ASSUME ~E[f].readable PROVE DOMAIN applyIgnoreFile(E) = {}
        OBVIOUS
      <4>1. applyIgnoreFile(E) = <<>>
        BY <2>4, <2>5, Zenon DEF applyIgnoreFile
      <4>. QED  BY <4>1
    <3>. QED  BY <2>4, <3>1 DEF Lifted
  <2> DEFINE I == { i \in DOMAIN E : KeptBy(E[f], E[i]) }
  <2>6. applyIgnoreFile(E) = [i \in I |-> E[i]]
    BY <2>4, <2>5, <2>ok, Zenon DEF applyIgnoreFile, Restrict
  <2>7. \A i \in DOMAIN E : KeptBy(W[f], W[i]) <=> KeptBy(E[f], E[i])
    BY <2>4, LiftedKept DEF g
  <2>8. { i \in DOMAIN W : KeptBy(W[f], W[i]) } = I
    BY <1>1, <2>7
  <2>9. applyIgnoreFile(W) = [i \in I |-> W[i]]
    BY <2>4, <2>5, <2>8, <2>ok, Zenon DEF applyIgnoreFile, Restrict
  <2>10. I \subseteq DOMAIN E
    OBVIOUS
  <2> HIDE DEF I
  <2>11. Lifted([i \in I |-> W[i]], [i \in I |-> E[i]])
    BY <2>10 DEF Lifted
  <2>. QED  BY <2>6, <2>9, <2>11
<1>7. CASE A = {}
  <2>1. singleTopLevelFolder(E) = <<>>
    BY <1>7, IgnoringDrops, FolderStays
  <2>2. findIgnoreFile(E) = 0
    BY <1>7, <2>1, Zenon DEF findIgnoreFile
  <2>3. findIgnoreFile(W) = 0
    BY <1>5, <1>7
  <2>4. applyIgnoreFile(E) = E /\ applyIgnoreFile(W) = W
    BY <2>2, <2>3, Zenon DEF applyIgnoreFile
  <2>. QED  BY <2>4
<1>. QED  BY <1>6, <1>7

\* Where the archive has no folder of its own, the wrapper is stripped, and the keys
\* are the same.
LEMMA WrappingKeepsKeys ==
  ASSUME NEW z \in Seq(Entry), archiveKeys(z) # <<>>, WrapperOf(z) = <<>>
  PROVE  archiveKeys(Wrapped(z)) = archiveKeys(z)
<1> DEFINE E == applyIgnoreFile(validatedEntries(z))
           W == applyIgnoreFile(validatedEntries(Wrapped(z)))
<1>1. (\A i \in Files(z) : ~Escapes(z[i].name)) /\ DOMAIN E # {}
  BY AcceptedFacts
<1>2. DOMAIN validatedEntries(z) \subseteq Nat \ {0}
  <2>1. Files(z) \subseteq 1..Len(z) /\ Len(z) \in Nat
    BY EntryFacts
  <2>. QED  BY <2>1, ValidatedIsSound
<1>3. Lifted(W, E)
  <2>1. Lifted(validatedEntries(Wrapped(z)), validatedEntries(z))
    BY <1>1, WrappedIsLifted
  <2>2. singleTopLevelFolder(E) = <<>>
    BY DEF WrapperOf
  <2>. QED  BY <1>1, <1>2, <2>1, <2>2, LiftedIgnore
<1> HIDE DEF E, W
<1>4. singleTopLevelFolder(W) = <<"dist">> /\ singleTopLevelFolder(E) = <<>>
  BY <1>1, <1>3, LiftedFolder DEF WrapperOf, E
<1>5. ASSUME NEW i \in DOMAIN E
      PROVE  Below(<<"dist">>, W[i].path) = E[i].path /\ Below(<<>>, E[i].path) = E[i].path
  BY <1>3, BelowUnder, BelowPath DEF Lifted
<1> DEFINE K == [i \in DOMAIN E |-> E[i].path]
<1>6. [i \in DOMAIN E |-> Below(<<>>, E[i].path)] = K
  BY <1>5
<1>7. [i \in DOMAIN W |-> Below(<<"dist">>, W[i].path)] = K
  BY <1>3, <1>5 DEF Lifted
<1> HIDE DEF K
<1>8. objectKeys(E) = IF \E i, j \in DOMAIN K : i # j /\ K[i] = K[j] THEN <<>> ELSE K
  <2> DEFINE L == [i \in DOMAIN E |-> Below(singleTopLevelFolder(E), E[i].path)]
  <2>1. L = K
    BY <1>4, <1>6
  <2>2. objectKeys(E) = IF \E i, j \in DOMAIN L : i # j /\ L[i] = L[j] THEN <<>> ELSE L
    BY Zenon DEF objectKeys
  <2> HIDE DEF L
  <2>. QED  BY <2>1, <2>2, Zenon
<1>9. objectKeys(W) = IF \E i, j \in DOMAIN K : i # j /\ K[i] = K[j] THEN <<>> ELSE K
  <2> DEFINE L == [i \in DOMAIN W |-> Below(singleTopLevelFolder(W), W[i].path)]
  <2>1. L = K
    BY <1>4, <1>7
  <2>2. objectKeys(W) = IF \E i, j \in DOMAIN L : i # j /\ L[i] = L[j] THEN <<>> ELSE L
    BY Zenon DEF objectKeys
  <2> HIDE DEF L
  <2>. QED  BY <2>1, <2>2, Zenon
<1>10. objectKeys(E) = objectKeys(W)
  BY <1>8, <1>9
<1>. QED  BY <1>10 DEF archiveKeys, E, W

-----------------------------------------------------------------------------
(* What a listing is at                                                    *)

\* In front of all keys.
Start == <<>>

Cursors == Keys \union {Start}

\* The keys are where the order puts them, and the page is between its cursor and
\* the last key gone through, each file behind its own cursor.
ListTypeOK ==
  /\ pc \in {"upload", "refused", "page", "fetch", "answer", "end"}
  /\ stored \subseteq Keys /\ shown \subseteq Keys /\ keys \subseteq Keys
  /\ after \in Cursors /\ cursor \in Cursors
  /\ DOMAIN collected \subseteq Keys
  /\ \A k \in DOMAIN collected : collected[k] \in Cursors

Paging == pc \in {"page", "fetch", "answer"}

Filling == pc \in {"fetch", "answer"}

OrderInv ==
  /\ Paging => \A k \in shown : Pos(k) <= Pos(after)
  /\ Filling =>
       /\ Pos(after) <= Pos(cursor)
       /\ \A k \in keys : Pos(k) <= Pos(cursor)
       /\ \A k \in DOMAIN collected :
            /\ Pos(after) <= Pos(collected[k]) /\ Pos(collected[k]) < Pos(k)
            /\ Pos(k) <= Pos(cursor)
            /\ \A j \in DOMAIN collected : Pos(j) < Pos(k) => Pos(j) <= Pos(collected[k])

\* Nothing was deleted and no listing broke off: the keys seen are those stored up to
\* the cursor, and no stored key is between a file and its cursor.
SeenInv ==
  Untouched =>
    /\ Paging => after \in stored \union {Start}
    /\ Filling =>
         /\ cursor \in stored \union {Start}
         /\ seedBoundaryKeys(after) \subseteq keys
         /\ keys \subseteq stored \union seedBoundaryKeys(after)
         /\ \A k \in stored : Pos(after) < Pos(k) /\ Pos(k) <= Pos(cursor) => k \in keys
         /\ \A k \in DOMAIN collected :
              /\ k \in stored /\ collected[k] \in stored \union {Start}
              /\ \A j \in stored : ~Between(collected[k], j, k)
    /\ pc = "fetch" => ~single /\ Cardinality(DOMAIN collected) <= Limit

\* The files up to the page's cursor were shown; those behind it are collected.
CompleteInv ==
  Untouched /\ NoOrphans =>
    /\ Paging => \A k \in Visible : Pos(k) <= Pos(after) => k \in shown
    /\ pc = "fetch" => \A k \in Visible :
         Pos(after) < Pos(k) /\ Pos(k) <= Pos(cursor) => k \in DOMAIN collected
    /\ pc = "answer" => \A k \in Visible :
         /\ Pos(after) < Pos(k)
         /\ HasMore => \E e \in DOMAIN collected : Pos(k) <= Pos(e)
         => k \in DOMAIN collected
    /\ pc = "answer" /\ single /\ ~HasMore => DOMAIN collected = Visible
    /\ pc = "end" => Visible \subseteq shown

\* A page other than the first starts just before a file.
Opens(file) == Pos(after) < Pos(file) /\ \A j \in stored : ~Between(after, j, file)

HiddenInv ==
  Untouched /\ NoOrphans /\ VariantsAreNear =>
    /\ shown \subseteq Visible
    /\ Filling => DOMAIN collected \subseteq Visible
    /\ Paging /\ after # Start => \E file \in Visible : Opens(file)

\* What was published is an archive that may be.
ArchiveInv ==
  /\ Published => zip \in Zips /\ Accepted(zip)
  /\ ~Published => stored = {} /\ shown = {} /\ after = <<>>
  /\ \A k \in stored : Proper(k, WrapperOf(zip))

ListInv ==
  /\ errors \in Nat /\ deletes \in Nat
  /\ ListTypeOK /\ OrderInv /\ SeenInv /\ CompleteInv /\ HiddenInv

-----------------------------------------------------------------------------
(* The archive that was published                                          *)

LEMMA ArchiveHolds == Init => ArchiveInv
  BY DEF Init, ArchiveInv, Published

\* Every step but Publish leaves the archive, and adds no object.
LEMMA OnlyPublishStores ==
  ASSUME [Next]_vars
  PROVE  \/ \E z \in Zips : Publish(z)
         \/ /\ zip' = zip /\ stored' \subseteq stored
            /\ Published' <=> Published
            /\ ~Published => shown' = shown /\ after' = after
<1>1. CASE UNCHANGED vars
  BY <1>1 DEF vars, Published
<1>2. CASE Delete
  BY <1>2 DEF Delete, Published
<1>3. CASE BeginPage
  BY <1>3 DEF BeginPage, Published
<1>4. CASE Fetch
  BY <1>4 DEF Fetch, Take, Published
<1>5. CASE FetchBroken
  BY <1>5 DEF FetchBroken, Take, Published
<1>6. CASE Answer
  BY <1>6 DEF Answer, Published
<1>. QED  BY <1>1, <1>2, <1>3, <1>4, <1>5, <1>6 DEF Next

LEMMA ArchiveKept ==
  ASSUME ArchiveInv, [Next]_vars
  PROVE  ArchiveInv'
<1>1. ASSUME NEW z \in Zips, Publish(z) PROVE ArchiveInv'
  <2>1. z \in Seq(Entry) /\ Range(archiveKeys(z)) \subseteq Keys
    BY OrderAssumption
  <2>2. /\ pc = "upload" /\ zip' = z /\ UNCHANGED <<shown, after>>
        /\ stored = {} /\ shown = {} /\ after = <<>>
    BY <1>1 DEF Publish, ArchiveInv, Published
  <2>3. CASE Accepted(z)
    <3>1. pc' = "page"
      BY <1>1, <2>3 DEF Publish
    <3>2. PICK added \in SUBSET Addable(Range(archiveKeys(z))) :
            stored' = Range(archiveKeys(z)) \union added
      BY <1>1, <2>3 DEF Publish
    <3>3. ASSUME NEW k \in stored' PROVE Proper(k, WrapperOf(z))
      <4>1. CASE k \in Range(archiveKeys(z))
        BY <2>1, <4>1, KeysAreProper
      <4>2. CASE k \in added
        <5>1. k \in DOMAIN SiblingOf /\ SiblingOf[k] \in Range(archiveKeys(z))
          BY <4>2 DEF Addable
        <5>2. Proper(SiblingOf[k], WrapperOf(z))
          BY <2>1, <5>1, KeysAreProper
        <5>. QED  BY <5>1, <5>2, VariantsAreProper
      <4>. QED  BY <3>2, <4>1, <4>2
    <3>4. Published'
      BY <3>1 DEF Published
    <3>. QED  BY <2>2, <2>3, <3>3, <3>4 DEF ArchiveInv
  <2>4. CASE ~Accepted(z)
    <3>1. pc' = "refused" /\ stored' = stored
      BY <1>1, <2>4 DEF Publish
    <3>. QED  BY <2>2, <3>1 DEF ArchiveInv, Published
  <2>. QED  BY <2>3, <2>4
<1>2. CASE /\ zip' = zip /\ stored' \subseteq stored
           /\ Published' <=> Published
           /\ ~Published => shown' = shown /\ after' = after
  BY <1>2 DEF ArchiveInv
<1>. QED  BY <1>1, <1>2, OnlyPublishStores

LEMMA ArchiveStays == Spec => []ArchiveInv
<1>1. Init => ArchiveInv
  BY ArchiveHolds
<1>2. ArchiveInv /\ [Next]_vars => ArchiveInv'
  BY ArchiveKept
<1>. QED  BY <1>1, <1>2, PTL DEF Spec

\* No archive, whatever its entries are called, puts an object outside the package's
\* folder, or one whose key is not clean and composed (validatedEntries, objectKeys).
THEOREM KeysAreInside == Spec => []KeysStayInside
<1>1. ASSUME ArchiveInv PROVE KeysStayInside
  <2> SUFFICES ASSUME NEW k \in stored
               PROVE  /\ k # <<>>
                      /\ \A i \in DOMAIN k : k[i] \notin {"", ".", ".."} /\ k[i] = NFC[k[i]]
                      /\ Last(k) # ".DS_Store"
                      /\ k[1] = "__MACOSX" => WrapperOf(zip) # <<>>
    BY Zenon DEF KeysStayInside
  <2>1. Proper(k, WrapperOf(zip))
    BY <1>1 DEF ArchiveInv
  <2>2. k \in Seq(Segments) /\ Len(k) > 0 /\ DOMAIN k = 1..Len(k)
    BY <2>1, LenProperties DEF Proper, Fine
  <2>3. k # <<>>
    <3>1. Len(<<>>) = 0 /\ ~(0 > 0)
      OBVIOUS
    <3>. QED  BY <2>2, <3>1, Zenon
  <2>4. \A i \in DOMAIN k : k[i] \notin {"", ".", ".."} /\ k[i] = NFC[k[i]]
    BY <2>1, <2>2 DEF Proper, Fine
  <2>. QED  BY <2>1, <2>3, <2>4, Zenon DEF Proper
<1>2. ArchiveInv => KeysStayInside
  BY <1>1
<1>. QED  BY <1>2, ArchiveStays, PTL

\* An archive that was published expands to no more than the limit, whatever sizes
\* its entries declare (checkArchiveLimits).
THEOREM SizesAreLimited == Spec => []LimitsHold
<1>1. ASSUME ArchiveInv PROVE LimitsHold
  BY <1>1, OrderAssumption, LimitIsTrue DEF ArchiveInv, LimitsHold, Accepted
<1>2. ArchiveInv => LimitsHold
  BY <1>1
<1>. QED  BY <1>2, ArchiveStays, PTL

\* A published archive with no folder of its own yields the same keys when it is
\* zipped inside one, its .gimmeignore included (applyIgnoreFile, objectKeys).
THEOREM WrapperMakesNoDifference == Spec => []WrapperIsTransparent
<1>1. ASSUME ArchiveInv PROVE WrapperIsTransparent
  BY <1>1, OrderAssumption, WrappingKeepsKeys DEF ArchiveInv, WrapperIsTransparent, Accepted
<1>2. ArchiveInv => WrapperIsTransparent
  BY <1>1
<1>. QED  BY <1>2, ArchiveStays, PTL

-----------------------------------------------------------------------------
(* The order of the keys                                                   *)

\* Pos is all that the proofs below need of the order.
LEMMA PosFacts ==
  /\ Start \notin Keys /\ Pos(Start) = 0
  /\ \A k \in Keys : Pos(k) \in Nat /\ 0 < Pos(k)
  /\ \A k \in Cursors : Pos(k) \in Nat
  /\ \A j, k \in Cursors : Pos(j) = Pos(k) => j = k
<1>1. Start \notin Keys /\ Pos(Start) = 0
  BY OrderAssumption, Zenon DEF Start, Pos
<1>2. \A k \in Keys : Pos(k) = Place[k]
  BY <1>1, Zenon DEF Start, Pos
<1>3. \A k \in Keys : Place[k] \in Nat \ {0}
  BY OrderAssumption
<1>4. \A j, k \in Keys : Place[j] = Place[k] => j = k
  BY OrderAssumption, Zenon
<1> HIDE DEF Start, Pos, Keys
<1>5. \A k \in Keys : Pos(k) \in Nat /\ 0 < Pos(k)
  BY <1>2, <1>3
<1>. QED  BY <1>1, <1>2, <1>4, <1>5 DEF Cursors

\* Of some keys, one is the last.
LEMMA LastExists ==
  ASSUME NEW some \in SUBSET Keys, some # {}
  PROVE  \E k \in some : \A j \in some : Pos(j) <= Pos(k)
<1> DEFINE Has(T) == \E n \in T : \A m \in T : Pos(m) <= Pos(n)
           Bad == { T \in SUBSET Keys : T # {} /\ ~Has(T) }
<1>1. Bad = {}
  <2> SUFFICES ASSUME Bad # {} PROVE FALSE
    OBVIOUS
  <2>1. IsFiniteSet(Keys)
    BY OrderAssumption
  <2> HIDE DEF Pos, Keys
  <2>2. Bad \subseteq FiniteSubsetsOf(Keys)
    BY <2>1, FS_FiniteSubsetsOfFinite
  <2>3. PICK T \in Bad : \A U \in Bad : <<U, T>> \notin StrictSubsetOrdering(Keys)
    BY <2>2, FS_StrictSubsetOrderingWellFounded, WFMin
  <2>4. PICK x \in T : TRUE
    BY <2>3
  <2>5. T \ {x} \notin Bad
    <3>1. <<T \ {x}, T>> \in StrictSubsetOrdering(Keys)
      BY <2>3, <2>4 DEF StrictSubsetOrdering
    <3>. QED  BY <2>3, <3>1
  <2>6. \A k \in Keys : Pos(k) \in Nat
    BY PosFacts
  <2>7. CASE T \ {x} = {}
    BY <2>3, <2>4, <2>6, <2>7
  <2>8. CASE T \ {x} # {}
    <3>1. PICK n \in T \ {x} : \A m \in T \ {x} : Pos(m) <= Pos(n)
      BY <2>3, <2>5, <2>8
    <3>2. Pos(x) \in Nat /\ Pos(n) \in Nat /\ \A m \in T : Pos(m) \in Nat
      BY <2>3, <2>4, <2>6, <3>1
    <3>3. CASE Pos(x) <= Pos(n)
      BY <2>3, <3>1, <3>3
    <3>4. CASE Pos(n) <= Pos(x)
      BY <2>3, <2>4, <3>1, <3>2, <3>4
    <3>. QED  BY <3>2, <3>3, <3>4
  <2>. QED  BY <2>7, <2>8
<1>. QED  BY <1>1

LEMMA LastOfFacts ==
  ASSUME NEW some \in SUBSET Keys, NEW none \in Cursors
  PROVE  /\ LastOf(some, none) \in some \union {none}
         /\ some = {} => LastOf(some, none) = none
         /\ some # {} => LastOf(some, none) \in some
         /\ \A k \in some : Pos(k) <= Pos(LastOf(some, none))
<1>1. CASE some = {}
  BY <1>1, Zenon DEF LastOf
<1>2. CASE some # {}
  <2>1. LastOf(some, none) = CHOOSE k \in some : \A j \in some : Pos(j) <= Pos(k)
    BY <1>2, Zenon DEF LastOf
  <2>. QED  BY <1>2, <2>1, LastExists, Zenon
<1>. QED  BY <1>1, <1>2

\* A page is cut off one file behind its last, if there are that many.
LEMMA CutOff ==
  ASSUME NEW all \in SUBSET Keys, NEW kept \in SUBSET all,
         Cardinality(kept) = Min({Cardinality(all), Limit + 1})
  PROVE  /\ Cardinality(all) \in Nat /\ Cardinality(kept) \in Nat
         /\ Cardinality(all) <= Limit => kept = all
         /\ Cardinality(kept) <= Limit <=> Cardinality(all) <= Limit
<1>1. IsFiniteSet(all) /\ IsFiniteSet(kept)
  BY OrderAssumption, FS_Subset
<1> DEFINE a == Cardinality(all)  n == Cardinality(kept)
<1>2. a \in Nat /\ n \in Nat /\ Limit \in Nat
  BY <1>1, FS_CardinalityType, ListingAssumption
<1>3. a = n => kept = all
  BY <1>1, FS_Subset
<1>4. n = CHOOSE x \in {a, Limit + 1} : \A y \in {a, Limit + 1} : x <= y
  BY DEF Min
<1> HIDE DEF a, n
<1>5. \E x \in {a, Limit + 1} : \A y \in {a, Limit + 1} : x <= y
  BY <1>2
<1>6. n \in {a, Limit + 1} /\ n <= a /\ n <= Limit + 1
  BY <1>4, <1>5
<1>7. (a <= Limit => n = a) /\ (n <= Limit <=> a <= Limit)
  BY <1>2, <1>6
<1>. QED  BY <1>2, <1>3, <1>7 DEF a, n

-----------------------------------------------------------------------------
(* One turn of GetFiles' loop                                              *)

\* What the steps below use of a turn: the objects fetched are the first behind the
\* cursor, the files kept the first of those found, each with the cursor before it.
Turn(objects, hasMore) ==
  /\ objects \subseteq stored /\ \A k \in objects : Pos(cursor) < Pos(k)
  /\ \A k \in objects, j \in stored :
       Pos(cursor) < Pos(j) /\ Pos(j) <= Pos(k) => j \in objects
  /\ keys' = keys \union objects
  /\ cursor' \in objects \union {cursor}
  /\ Pos(cursor) <= Pos(cursor') /\ \A k \in objects : Pos(k) <= Pos(cursor')
  /\ DOMAIN collected' \subseteq DOMAIN collected \union Found(objects)
  /\ \A k \in DOMAIN collected', j \in DOMAIN collected \union Found(objects) :
       Pos(j) <= Pos(k) => j \in DOMAIN collected'
  /\ ~HasMore' => DOMAIN collected' = DOMAIN collected \union Found(objects)
  /\ \A k \in DOMAIN collected' :
       \/ k \in DOMAIN collected /\ collected'[k] = collected[k]
       \/ /\ k \in Found(objects) /\ collected'[k] \in objects \union {cursor}
          /\ Pos(cursor) <= Pos(collected'[k]) /\ Pos(collected'[k]) < Pos(k)
          /\ \A j \in objects : Pos(j) < Pos(k) => Pos(j) <= Pos(collected'[k])
  /\ single' = (single \/ FirstAndOnly(hasMore))
  /\ \/ pc' = "fetch" /\ hasMore /\ ~HasMore'
     \/ pc' = "answer" /\ (HasMore' \/ ~hasMore)

LEMMA TakeIsTurn ==
  ASSUME ListTypeOK, NEW objects \in Leading(Listed), NEW hasMore \in BOOLEAN,
         Take(objects, hasMore)
  PROVE  Turn(objects, hasMore)
<1> DEFINE all == DOMAIN collected \union Found(objects)
           before(k) == { j \in objects : Pos(j) < Pos(k) }
<1>1. /\ objects \subseteq stored /\ objects \subseteq Keys
      /\ \A k \in objects : Pos(cursor) < Pos(k)
  <2>1. \A k \in Listed : k \in stored /\ Pos(k) > Pos(cursor)
    BY DEF Listed
  <2>2. objects \subseteq Listed /\ stored \subseteq Keys /\ cursor \in Cursors
    BY DEF Leading, ListTypeOK
  <2>. QED  BY <2>1, <2>2, PosFacts
<1>2. Found(objects) \subseteq objects /\ all \subseteq Keys
  BY <1>1 DEF Found, ListTypeOK
<1>3. cursor \in Cursors /\ stored \subseteq Keys /\ Keys \subseteq Cursors
  BY DEF ListTypeOK, Cursors
<1>4. \A k \in objects, j \in stored :
        Pos(cursor) < Pos(j) /\ Pos(j) <= Pos(k) => j \in objects
  <2> SUFFICES ASSUME NEW k \in objects, NEW j \in stored,
                      Pos(cursor) < Pos(j), Pos(j) <= Pos(k)
               PROVE  j \in objects
    OBVIOUS
  <2>1. Pos(j) \in Nat /\ Pos(k) \in Nat /\ Pos(cursor) \in Nat
    BY <1>1, <1>3, PosFacts
  <2>2. j \in Listed
    BY <2>1 DEF Listed
  <2>3. CASE Pos(j) = Pos(k)
    BY <1>1, <1>3, <2>3, PosFacts
  <2>4. CASE Pos(j) < Pos(k)
    BY <2>2, <2>4 DEF Leading
  <2>. QED  BY <2>1, <2>3, <2>4
<1>5. /\ keys' = keys \union objects
      /\ cursor' = LastOf(objects, cursor)
      /\ single' = (single \/ FirstAndOnly(hasMore))
      /\ pc' = IF hasMore /\ Cardinality(all) <= Limit THEN "fetch" ELSE "answer"
  BY Zenon DEF Take, GoneThrough
<1>6. PICK kept \in Leading(all) :
        /\ Cardinality(kept) = Min({Cardinality(all), Limit + 1})
        /\ collected' = [ k \in kept |->
             IF k \in DOMAIN collected THEN collected[k] ELSE LastOf(before(k), cursor) ]
  BY Zenon DEF Take
<1>7. /\ DOMAIN collected' = kept
      /\ \A k \in kept : collected'[k] =
           IF k \in DOMAIN collected THEN collected[k] ELSE LastOf(before(k), cursor)
  BY <1>6
<1>8. /\ kept \subseteq all
      /\ \A k \in kept, j \in all : Pos(j) < Pos(k) => j \in kept
  BY <1>6 DEF Leading
<1>9. /\ cursor' \in objects \union {cursor}
      /\ Pos(cursor) <= Pos(cursor') /\ \A k \in objects : Pos(k) <= Pos(cursor')
  <2>1. /\ LastOf(objects, cursor) \in objects \union {cursor}
        /\ \A k \in objects : Pos(k) <= Pos(LastOf(objects, cursor))
    BY <1>1, <1>3, LastOfFacts
  <2>. QED  BY <1>1, <1>3, <1>5, <2>1, PosFacts
<1> HIDE DEF all, before
<1>10. /\ Cardinality(all) \in Nat
       /\ Cardinality(all) <= Limit => kept = all
       /\ Cardinality(kept) <= Limit <=> Cardinality(all) <= Limit
       /\ Cardinality(kept) \in Nat
  BY <1>2, <1>6, <1>8, CutOff
<1>11. HasMore' <=> ~(Cardinality(all) <= Limit)
  <2>1. HasMore' <=> Cardinality(kept) > Limit
    BY <1>7 DEF HasMore
  <2>. QED  BY <2>1, <1>10, ListingAssumption
<1>12. \A k \in kept, j \in all : Pos(j) <= Pos(k) => j \in kept
  <2> SUFFICES ASSUME NEW k \in kept, NEW j \in all, Pos(j) <= Pos(k)
               PROVE  j \in kept
    OBVIOUS
  <2>1. j \in Cursors /\ k \in Cursors /\ Pos(j) \in Nat /\ Pos(k) \in Nat
    BY <1>2, <1>3, <1>8, PosFacts
  <2>2. Pos(j) < Pos(k) \/ Pos(j) = Pos(k)
    BY <2>1
  <2>. QED  BY <1>8, <2>1, <2>2, PosFacts
<1>13. ASSUME NEW k \in kept
       PROVE  \/ k \in DOMAIN collected /\ collected'[k] = collected[k]
              \/ /\ k \in Found(objects) /\ collected'[k] \in objects \union {cursor}
                 /\ Pos(cursor) <= Pos(collected'[k]) /\ Pos(collected'[k]) < Pos(k)
                 /\ \A j \in objects : Pos(j) < Pos(k) => Pos(j) <= Pos(collected'[k])
  <2>1. CASE k \in DOMAIN collected
    BY <1>7, <2>1
  <2>2. CASE k \notin DOMAIN collected
    <3> DEFINE last == LastOf(before(k), cursor)
    <3>1. collected'[k] = last
      BY <1>7, <2>2
    <3>2. k \in Found(objects)
      BY <1>8, <2>2 DEF all
    <3>3. before(k) \in SUBSET Keys /\ before(k) \subseteq objects
      BY <1>1 DEF before
    <3>4. /\ last \in before(k) \union {cursor}
          /\ \A j \in before(k) : Pos(j) <= Pos(last)
      BY <1>3, <3>3, LastOfFacts
    <3> HIDE DEF last
    <3>5. last \in objects \union {cursor} /\ Pos(last) < Pos(k)
      BY <1>1, <1>2, <3>2, <3>3, <3>4 DEF before
    <3>6. Pos(cursor) <= Pos(last)
      BY <1>1, <1>3, <3>5, PosFacts
    <3>7. \A j \in objects : Pos(j) < Pos(k) => Pos(j) <= Pos(last)
      BY <3>4 DEF before
    <3>. QED  BY <3>1, <3>2, <3>5, <3>6, <3>7
  <2>. QED  BY <2>1, <2>2
<1>14. \/ pc' = "fetch" /\ hasMore /\ ~HasMore'
       \/ pc' = "answer" /\ (HasMore' \/ ~hasMore)
  BY <1>5, <1>11
<1>. QED
  BY <1>1, <1>4, <1>5, <1>7, <1>8, <1>9, <1>10, <1>11, <1>12, <1>13, <1>14, Zenon
  DEF Turn, all

\* A turn leaves the keys in order, whatever was deleted or broke off.
LEMMA TurnKeepsOrder ==
  ASSUME ListTypeOK, OrderInv, pc = "fetch", NEW objects, NEW hasMore,
         Turn(objects, hasMore), UNCHANGED <<stored, after, shown>>
  PROVE  ListTypeOK' /\ OrderInv'
<1>1. /\ objects \subseteq Keys /\ cursor \in Cursors /\ Keys \subseteq Cursors
      /\ DOMAIN collected \subseteq Keys
      /\ Found(objects) \subseteq objects /\ DOMAIN collected' \subseteq Keys
      /\ cursor' \in Cursors /\ after \in Cursors
  BY DEF ListTypeOK, Turn, Cursors, Found
<1>2. ASSUME NEW k \in DOMAIN collected' PROVE collected'[k] \in Cursors
  <2>1. CASE k \in DOMAIN collected /\ collected'[k] = collected[k]
    BY <2>1 DEF ListTypeOK
  <2>2. CASE k \in Found(objects) /\ collected'[k] \in objects \union {cursor}
    BY <1>1, <2>2
  <2>. QED  BY <2>1, <2>2 DEF Turn
<1>3. ListTypeOK'
  BY <1>1, <1>2 DEF ListTypeOK, Turn
<1>4. /\ Pos(after) <= Pos(cursor) /\ Pos(cursor) <= Pos(cursor')
      /\ Pos(after) \in Nat /\ Pos(cursor) \in Nat /\ Pos(cursor') \in Nat
  BY <1>1, PosFacts DEF OrderInv, Filling, Turn
<1>5. ASSUME NEW k \in keys' PROVE Pos(k) <= Pos(cursor')
  <2>1. CASE k \in keys
    <3>1. Pos(k) <= Pos(cursor) /\ Pos(k) \in Nat
      BY <2>1, PosFacts DEF OrderInv, Filling, ListTypeOK
    <3>. QED  BY <1>4, <3>1
  <2>2. CASE k \in objects
    BY <2>2 DEF Turn
  <2>. QED  BY <2>1, <2>2 DEF Turn
<1>6. ASSUME NEW k \in DOMAIN collected'
      PROVE  /\ Pos(after) <= Pos(collected'[k]) /\ Pos(collected'[k]) < Pos(k)
             /\ Pos(k) <= Pos(cursor')
             /\ \A j \in DOMAIN collected' :
                  Pos(j) < Pos(k) => Pos(j) <= Pos(collected'[k])
  <2>1. Pos(k) \in Nat /\ Pos(collected'[k]) \in Nat
    BY <1>1, <1>2, PosFacts
  <2>2. \A j \in DOMAIN collected' :
          /\ Pos(j) \in Nat
          /\ \/ j \in DOMAIN collected /\ Pos(j) <= Pos(cursor)
             \/ j \in objects /\ Pos(cursor) < Pos(j)
    BY <1>1, PosFacts DEF Turn, OrderInv, Filling
  <2>3. CASE k \in DOMAIN collected /\ collected'[k] = collected[k]
    <3>1. /\ Pos(after) <= Pos(collected[k]) /\ Pos(collected[k]) < Pos(k)
          /\ Pos(k) <= Pos(cursor)
          /\ \A j \in DOMAIN collected : Pos(j) < Pos(k) => Pos(j) <= Pos(collected[k])
      BY <2>3 DEF OrderInv, Filling
    <3>. QED  BY <1>4, <2>1, <2>2, <2>3, <3>1
  <2>4. CASE /\ k \in Found(objects) /\ collected'[k] \in objects \union {cursor}
             /\ Pos(cursor) <= Pos(collected'[k]) /\ Pos(collected'[k]) < Pos(k)
             /\ \A j \in objects : Pos(j) < Pos(k) => Pos(j) <= Pos(collected'[k])
    <3>1. Pos(k) <= Pos(cursor')
      BY <1>1, <2>4 DEF Turn
    <3>. QED  BY <1>4, <2>1, <2>2, <2>4, <3>1
  <2>. QED  BY <2>3, <2>4 DEF Turn
<1>7. \A k \in shown' : Pos(k) <= Pos(after')
  BY DEF OrderInv, Paging
<1>8. Pos(after') <= Pos(cursor')
  BY <1>4
<1>. QED  BY <1>3, <1>5, <1>6, <1>7, <1>8, Zenon DEF OrderInv, Paging, Filling

\* The objects up to the new cursor that were not gone through before were fetched.
LEMMA TurnFetches ==
  ASSUME ListTypeOK, NEW objects, NEW hasMore, Turn(objects, hasMore)
  PROVE  \A j \in stored : Pos(cursor) < Pos(j) /\ Pos(j) <= Pos(cursor') => j \in objects
<1> SUFFICES ASSUME NEW j \in stored, Pos(cursor) < Pos(j), Pos(j) <= Pos(cursor')
             PROVE  j \in objects
  OBVIOUS
<1>1. Pos(cursor) \in Nat /\ Pos(j) \in Nat
  BY PosFacts DEF ListTypeOK
<1>2. cursor' # cursor
  BY <1>1
<1>3. cursor' \in objects
  BY <1>2 DEF Turn
<1>. QED  BY <1>3 DEF Turn

\* A turn that did not break off sees every stored key up to the new cursor.
LEMMA TurnKeepsSeen ==
  ASSUME ListTypeOK, OrderInv, SeenInv, Untouched, pc = "fetch", NEW objects, NEW hasMore,
         Turn(objects, hasMore), UNCHANGED <<stored, after, shown, errors, deletes>>
  PROVE  SeenInv'
<1>1. /\ cursor \in stored \union {Start} /\ after \in stored \union {Start}
      /\ seedBoundaryKeys(after) \subseteq keys
      /\ keys \subseteq stored \union seedBoundaryKeys(after)
      /\ \A k \in stored : Pos(after) < Pos(k) /\ Pos(k) <= Pos(cursor) => k \in keys
      /\ \A k \in DOMAIN collected :
           /\ k \in stored /\ collected[k] \in stored \union {Start}
           /\ \A j \in stored : ~Between(collected[k], j, k)
      /\ ~single
  BY DEF SeenInv, Paging, Filling
<1>2. objects \subseteq stored /\ Found(objects) \subseteq objects
  BY DEF Turn, Found
<1>3. cursor' \in stored \union {Start}
  BY <1>1, <1>2 DEF Turn
<1>4. /\ seedBoundaryKeys(after) \subseteq keys'
      /\ keys' \subseteq stored \union seedBoundaryKeys(after)
  BY <1>1, <1>2 DEF Turn
<1>5. \A k \in stored : Pos(k) \in Nat
  BY PosFacts DEF ListTypeOK
<1>6. Pos(cursor) \in Nat /\ Pos(after) \in Nat
  BY PosFacts DEF ListTypeOK
<1>7. ASSUME NEW k \in stored, Pos(after) < Pos(k), Pos(k) <= Pos(cursor')
      PROVE  k \in keys'
  <2>1. CASE Pos(k) <= Pos(cursor)
    BY <1>1, <1>7, <2>1 DEF Turn
  <2>2. CASE Pos(cursor) < Pos(k)
    BY <1>7, <2>2, TurnFetches DEF Turn
  <2>. QED  BY <1>5, <1>6, <2>1, <2>2
<1>8. ASSUME NEW k \in DOMAIN collected'
      PROVE  /\ k \in stored /\ collected'[k] \in stored \union {Start}
             /\ \A j \in stored : ~Between(collected'[k], j, k)
  <2>1. CASE k \in DOMAIN collected /\ collected'[k] = collected[k]
    BY <1>1, <2>1
  <2>2. CASE /\ k \in Found(objects) /\ collected'[k] \in objects \union {cursor}
             /\ Pos(cursor) <= Pos(collected'[k]) /\ Pos(collected'[k]) < Pos(k)
             /\ \A j \in objects : Pos(j) < Pos(k) => Pos(j) <= Pos(collected'[k])
    <3>1. k \in stored /\ k \in objects /\ collected'[k] \in stored \union {Start}
      BY <1>1, <1>2, <2>2
    <3>2. Pos(collected'[k]) \in Nat
      BY <1>5, <1>6, <1>2, <2>2
    <3>3. ASSUME NEW j \in stored, Between(collected'[k], j, k) PROVE FALSE
      <4>1. Pos(collected'[k]) < Pos(j) /\ Pos(j) < Pos(k) /\ Pos(j) \in Nat /\ Pos(k) \in Nat
        BY <1>5, <3>1, <3>3 DEF Between
      <4>2. Pos(cursor) < Pos(j) /\ Pos(j) <= Pos(k)
        BY <1>6, <2>2, <3>2, <4>1
      <4>3. j \in objects
        BY <3>1, <4>2 DEF Turn
      <4>. QED  BY <2>2, <3>2, <4>1, <4>3
    <3>. QED  BY <3>1, <3>3
  <2>. QED  BY <2>1, <2>2 DEF Turn
<1>9. pc' = "fetch" => ~single' /\ Cardinality(DOMAIN collected') <= Limit
  <2> SUFFICES ASSUME pc' = "fetch"
               PROVE  ~single' /\ Cardinality(DOMAIN collected') <= Limit
    OBVIOUS
  <2>1. hasMore /\ ~HasMore'
    BY DEF Turn
  <2>2. ~single'
    BY <1>1, <2>1, Zenon DEF Turn, FirstAndOnly
  <2>3. ListTypeOK'
    BY TurnKeepsOrder
  <2>4. DOMAIN collected' \in SUBSET Keys
    BY <2>3 DEF ListTypeOK
  <2>5. Cardinality(DOMAIN collected') \in Nat
    BY <2>4, OrderAssumption, FS_Subset, FS_CardinalityType
  <2>6. ~(Cardinality(DOMAIN collected') > Limit)
    BY <2>1 DEF HasMore
  <2>7. Cardinality(DOMAIN collected') <= Limit
    BY <2>5, <2>6, ListingAssumption
  <2>. QED  BY <2>2, <2>7
<1>10. after' = after /\ stored' = stored
  OBVIOUS
<1>. QED  BY <1>1, <1>3, <1>4, <1>7, <1>8, <1>9, <1>10, Zenon
     DEF SeenInv, Paging, Filling, Between

LEMMA SeedFacts ==
  ASSUME NEW k \in Cursors
  PROVE  /\ k = Start => seedBoundaryKeys(k) = {}
         /\ k \in Keys => k \in seedBoundaryKeys(k)
         /\ k \in DOMAIN SiblingOf => SiblingOf[k] \in seedBoundaryKeys(k)
         /\ \A s \in seedBoundaryKeys(k) :
              s = k \/ (k \in DOMAIN SiblingOf /\ s = SiblingOf[k])
<1>1. CASE k = Start
  <2>1. seedBoundaryKeys(k) = {}
    BY <1>1, Zenon DEF seedBoundaryKeys, Start
  <2>2. k \notin Keys /\ k \notin DOMAIN SiblingOf
    BY <1>1, PosFacts, SiblingAssumption
  <2>. QED  BY <2>1, <2>2
<1>2. CASE k \in Keys
  <2>1. seedBoundaryKeys(k) =
          {k} \union { SiblingOf[v] : v \in {k} \intersect DOMAIN SiblingOf }
    BY <1>2, PosFacts, Zenon DEF seedBoundaryKeys, Start
  <2>. QED  BY <1>2, <2>1, PosFacts
<1>. QED  BY <1>1, <1>2 DEF Cursors

\* What the order of a variant's text means for Pos.
LEMMA SiblingFacts ==
  /\ DOMAIN SiblingOf \subseteq Keys
  /\ \A v \in DOMAIN SiblingOf : SiblingOf[v] \in Keys /\ Pos(SiblingOf[v]) < Pos(v)
  /\ \A k \in Compressible : k \in Keys /\ k \notin DOMAIN SiblingOf
  /\ \A v, w \in DOMAIN SiblingOf :
       Pos(SiblingOf[v]) < Pos(SiblingOf[w]) /\ Pos(SiblingOf[w]) < Pos(v)
         => Pos(w) < Pos(v)
<1>1. \A k \in Keys : Pos(k) = Place[k]
  BY PosFacts, Zenon DEF Pos, Start
<1>2. /\ DOMAIN SiblingOf \subseteq Keys
      /\ \A v \in DOMAIN SiblingOf : SiblingOf[v] \in Keys
      /\ \A k \in Compressible : k \in Keys /\ k \notin DOMAIN SiblingOf
  BY SiblingAssumption
<1>3. \A v \in DOMAIN SiblingOf : Place[SiblingOf[v]] < Place[v]
  BY SiblingAssumption, Zenon
<1>4. \A v, w \in DOMAIN SiblingOf :
        Place[SiblingOf[v]] < Place[SiblingOf[w]] /\ Place[SiblingOf[w]] < Place[v]
          => Place[w] < Place[v]
  BY SiblingAssumption, Zenon
<1>5. \A v \in DOMAIN SiblingOf : Pos(v) = Place[v] /\ Pos(SiblingOf[v]) = Place[SiblingOf[v]]
  BY <1>1, <1>2
<1>. QED  BY <1>2, <1>3, <1>4, <1>5

\* A file of the package is found when its object is fetched: the only key seen that
\* may not be stored is the sibling of the page's cursor.
LEMMA FilesAreFound ==
  ASSUME ListTypeOK, OrderInv, SeenInv, Untouched, NoOrphans, pc = "fetch",
         NEW objects, NEW hasMore, Turn(objects, hasMore)
  PROVE  \A k \in Visible \intersect objects : k \in Found(objects)
<1> SUFFICES ASSUME NEW k \in Visible, k \in objects, isEncodedVariant(k, keys \union objects)
             PROVE  FALSE
  BY DEF Found
<1> DEFINE s == SiblingOf[k]
<1>1. /\ k \in DOMAIN SiblingOf /\ s \in Compressible /\ s \in keys \union objects
  BY DEF isEncodedVariant
<1>2. k \in stored /\ s \notin stored
  BY <1>1 DEF Visible, isEncodedVariant
<1>3. s \in keys /\ objects \subseteq stored
  BY <1>1, <1>2 DEF Turn
<1>4. /\ keys \subseteq stored \union seedBoundaryKeys(after)
      /\ after \in stored \union {Start} /\ after \in Cursors
  BY DEF SeenInv, Filling, Paging, ListTypeOK
<1>5. s \in seedBoundaryKeys(after)
  BY <1>2, <1>3, <1>4
<1>6. after \in stored
  BY <1>4, <1>5, SeedFacts
<1>7. after \in DOMAIN SiblingOf /\ s = SiblingOf[after]
  BY <1>2, <1>4, <1>5, <1>6, SeedFacts
<1>8. after # k
  <2>1. Pos(after) <= Pos(cursor) /\ Pos(cursor) < Pos(k)
    BY DEF OrderInv, Filling, Turn
  <2>2. Pos(after) \in Nat /\ Pos(cursor) \in Nat
    BY PosFacts DEF ListTypeOK
  <2>. QED  BY <2>1, <2>2
<1>. QED  BY <1>1, <1>2, <1>6, <1>7, <1>8 DEF NoOrphans

\* A variant is not found when its object is fetched, where the variants are near: its
\* sibling would be in front of the cursor of the page, and the file that opens the
\* page between the two, with another.
LEMMA VariantsAreNotFound ==
  ASSUME ListTypeOK, OrderInv, SeenInv, HiddenInv, Untouched, NoOrphans, VariantsAreNear,
         pc = "fetch", NEW objects, NEW hasMore, Turn(objects, hasMore)
  PROVE  Found(objects) \subseteq Visible
<1> SUFFICES ASSUME NEW k \in Found(objects), k \notin Visible
             PROVE  FALSE
  OBVIOUS
<1> DEFINE s == SiblingOf[k]
<1>1. /\ k \in objects /\ k \in stored /\ isEncodedVariant(k, stored)
      /\ ~isEncodedVariant(k, keys \union objects)
  BY DEF Found, Visible, Turn
<1>2. /\ k \in DOMAIN SiblingOf /\ s \in stored /\ s \in Compressible
      /\ s \notin keys /\ s \notin objects
  BY <1>1 DEF isEncodedVariant
<1>3. \A j \in stored : Pos(j) \in Nat /\ 0 < Pos(j) /\ j \in Cursors
  BY PosFacts DEF ListTypeOK, Cursors
<1>4. Pos(after) \in Nat /\ Pos(cursor) \in Nat /\ after \in Cursors
  BY PosFacts DEF ListTypeOK
<1>5. Pos(s) < Pos(k)
  BY <1>2, SiblingFacts
<1>6. Pos(after) <= Pos(cursor) /\ Pos(cursor) < Pos(k) /\ Pos(after) < Pos(k)
  <2>1. Pos(after) <= Pos(cursor) /\ Pos(cursor) < Pos(k)
    BY <1>1 DEF OrderInv, Filling, Turn
  <2>. QED  BY <1>1, <1>3, <1>4, <2>1
<1> HIDE DEF s
<1>7. ~(Pos(cursor) < Pos(s))
  <2>1. Pos(s) <= Pos(k)
    BY <1>1, <1>2, <1>3, <1>5
  <2>. QED  BY <1>1, <1>2, <2>1 DEF Turn
<1>8. ~(Pos(after) < Pos(s))
  <2>1. Pos(s) <= Pos(cursor)
    BY <1>2, <1>3, <1>4, <1>7
  <2>. QED  BY <1>2, <2>1 DEF SeenInv, Filling
<1>9. after \in stored /\ after # Start
  <2>1. after # Start
    BY <1>2, <1>3, <1>4, <1>8, PosFacts
  <2>. QED  BY <2>1 DEF SeenInv, Paging
<1>10. seedBoundaryKeys(after) \subseteq keys /\ after \in Keys
  BY <1>9 DEF SeenInv, Filling, ListTypeOK
<1>11. Pos(s) < Pos(after)
  <2>1. s # after
    BY <1>2, <1>4, <1>10, SeedFacts
  <2>2. Pos(s) # Pos(after)
    BY <1>2, <1>3, <1>4, <2>1, PosFacts
  <2>. QED  BY <1>2, <1>3, <1>4, <1>8, <2>2
<1>12. PICK file \in Visible : Opens(file)
  BY <1>9 DEF HiddenInv, Paging
<1>13. file \in stored /\ Pos(after) < Pos(file) /\ \A j \in stored : ~Between(after, j, file)
  BY <1>12 DEF Opens, Visible
<1>14. Pos(s) < Pos(file) /\ Pos(file) < Pos(k)
  <2>1. ~(Pos(k) < Pos(file))
    BY <1>1, <1>6, <1>13 DEF Between
  <2>2. Pos(file) # Pos(k)
    BY <1>1, <1>3, <1>12, <1>13, PosFacts
  <2>. QED  BY <1>1, <1>2, <1>3, <1>4, <1>11, <1>13, <2>1, <2>2
<1>15. \A j \in Visible : Pos(s) < Pos(j) /\ Pos(j) < Pos(k) => j = file
  BY <1>1, <1>12, <1>14 DEF VariantsAreNear, Between, s
<1>16. CASE after \in Visible
  <2>1. after = file
    BY <1>6, <1>11, <1>15, <1>16
  <2>. QED  BY <1>4, <1>13, <2>1
<1>17. CASE after \notin Visible
  <2> DEFINE t == SiblingOf[after]
  <2>1. after \in DOMAIN SiblingOf /\ t \in stored /\ t \in Compressible
    BY <1>9, <1>17 DEF Visible, isEncodedVariant
  <2>2. t \in keys
    BY <1>4, <1>10, <2>1, SeedFacts
  <2>3. Pos(t) < Pos(after) /\ t \notin DOMAIN SiblingOf
    BY <2>1, SiblingFacts
  <2>4. t \in Visible
    BY <2>1, <2>3 DEF Visible, isEncodedVariant
  <2>5. \A v, w \in DOMAIN SiblingOf :
          Pos(SiblingOf[v]) < Pos(SiblingOf[w]) /\ Pos(SiblingOf[w]) < Pos(v)
            => Pos(w) < Pos(v)
    BY SiblingFacts
  <2>6. Pos(t) < Pos(s) => Pos(k) < Pos(after)
    BY <1>2, <1>11, <2>1, <2>5 DEF s
  <2> HIDE DEF t
  <2>7. Pos(t) # Pos(s)
    BY <1>2, <1>3, <2>1, <2>2, PosFacts
  <2>8. ~(Pos(t) < Pos(s))
    BY <1>1, <1>3, <1>4, <1>6, <2>6
  <2>9. Pos(s) < Pos(t)
    BY <1>2, <1>3, <2>1, <2>7, <2>8
  <2>10. Pos(t) < Pos(k)
    BY <1>1, <1>3, <1>4, <1>6, <2>1, <2>3
  <2>11. t = file
    BY <1>15, <2>4, <2>9, <2>10
  <2>. QED  BY <1>3, <1>4, <1>13, <2>3, <2>11
<1>. QED  BY <1>16, <1>17

\* The files up to the new cursor are collected; where the listing was cut off none
\* is, and a total is the number of them all.
LEMMA TurnKeepsComplete ==
  ASSUME ListTypeOK, OrderInv, SeenInv, CompleteInv, Untouched, pc = "fetch",
         NEW objects, Turn(objects, objects # Listed),
         UNCHANGED <<stored, after, shown, errors, deletes>>
  PROVE  CompleteInv'
<1> SUFFICES ASSUME NoOrphans PROVE CompleteInv'
  BY DEF CompleteInv, NoOrphans
<1> DEFINE hasMore == objects # Listed
           all == DOMAIN collected \union Found(objects)
<1>1. /\ \A k \in Visible : Pos(k) <= Pos(after) => k \in shown
      /\ \A k \in Visible :
           Pos(after) < Pos(k) /\ Pos(k) <= Pos(cursor) => k \in DOMAIN collected
      /\ ~single
  BY DEF CompleteInv, SeenInv, Paging
<1>2. \A k \in Visible \intersect objects : k \in Found(objects)
  BY FilesAreFound
<1>3. Pos(cursor) \in Nat /\ Pos(after) \in Nat /\ \A k \in stored : Pos(k) \in Nat
  BY PosFacts DEF ListTypeOK
<1>4. Visible \subseteq stored
  BY DEF Visible
<1>5. ASSUME NEW k \in Visible, Pos(after) < Pos(k), Pos(k) <= Pos(cursor')
      PROVE  k \in all
  <2>1. CASE Pos(k) <= Pos(cursor)
    BY <1>1, <1>5, <2>1
  <2>2. CASE Pos(cursor) < Pos(k)
    <3>1. k \in objects
      BY <1>4, <1>5, <2>2, TurnFetches
    <3>. QED  BY <1>2, <3>1
  <2>. QED  BY <1>3, <1>4, <2>1, <2>2
<1>6. ListTypeOK' /\ OrderInv'
  BY TurnKeepsOrder
<1>7. /\ DOMAIN collected' \subseteq all
      /\ \A k \in DOMAIN collected', j \in all : Pos(j) <= Pos(k) => j \in DOMAIN collected'
      /\ ~HasMore' => DOMAIN collected' = all
      /\ single' = (single \/ FirstAndOnly(hasMore))
      /\ \/ pc' = "fetch" /\ hasMore /\ ~HasMore'
         \/ pc' = "answer" /\ (HasMore' \/ ~hasMore)
  BY DEF Turn
<1>8. \A e \in DOMAIN collected' : Pos(e) <= Pos(cursor') /\ Pos(e) \in Nat
  <2>1. Filling'
    BY <1>7 DEF Filling
  <2>. QED  BY <1>6, <2>1, PosFacts DEF OrderInv, ListTypeOK
<1>9. Pos(cursor') \in Nat
  BY <1>6, PosFacts DEF ListTypeOK
<1> HIDE DEF all
<1>10. pc' = "fetch" => \A k \in Visible :
         Pos(after) < Pos(k) /\ Pos(k) <= Pos(cursor') => k \in DOMAIN collected'
  BY <1>5, <1>7
<1>11. ASSUME pc' = "answer", NEW k \in Visible, Pos(after) < Pos(k),
              HasMore' => \E e \in DOMAIN collected' : Pos(k) <= Pos(e)
       PROVE  k \in DOMAIN collected'
  <2>1. CASE HasMore'
    <3>1. PICK e \in DOMAIN collected' : Pos(k) <= Pos(e)
      BY <1>11, <2>1
    <3>2. Pos(k) <= Pos(cursor')
      BY <1>3, <1>4, <1>8, <1>9, <3>1
    <3>. QED  BY <1>5, <1>7, <1>11, <3>1, <3>2
  <2>2. CASE ~HasMore'
    <3>1. objects = Listed
      BY <1>7, <1>11, <2>2
    <3>2. CASE Pos(k) <= Pos(cursor)
      BY <1>1, <1>7, <1>11, <2>2, <3>2 DEF all
    <3>3. CASE Pos(k) > Pos(cursor)
      <4>1. k \in objects
        BY <1>4, <3>1, <3>3 DEF Listed
      <4>. QED  BY <1>2, <1>7, <2>2, <4>1 DEF all
    <3>. QED  BY <1>3, <1>4, <3>2, <3>3
  <2>. QED  BY <2>1, <2>2
<1>12. ASSUME pc' = "answer", single', ~HasMore'
       PROVE  DOMAIN collected' = Visible
  <2>1. cursor = Start /\ objects = Listed
    BY <1>1, <1>7, <1>12 DEF FirstAndOnly, Start
  <2>2. Pos(cursor) = 0 /\ \A k \in Keys : 0 < Pos(k) /\ Pos(k) \in Nat
    BY <2>1, PosFacts
  <2>3. keys = {} /\ DOMAIN collected = {}
    <3>1. /\ \A k \in keys : Pos(k) <= Pos(cursor) /\ k \in Keys
          /\ \A k \in DOMAIN collected : Pos(k) <= Pos(cursor) /\ k \in Keys
      BY DEF OrderInv, Filling, ListTypeOK
    <3>2. \A k \in Keys : ~(Pos(k) <= Pos(cursor))
      BY <2>2
    <3>. QED  BY <3>1, <3>2, Zenon
  <2>4. objects = stored
    BY <2>1, <2>2 DEF Listed, ListTypeOK
  <2>5. Found(objects) = Visible
    BY <2>3, <2>4 DEF Found, Visible
  <2>. QED  BY <1>7, <1>12, <2>3, <2>5 DEF all
<1>13. Visible' = Visible /\ shown' = shown /\ after' = after
  BY DEF Visible
<1>14. pc' \in {"fetch", "answer"}
  BY <1>7
<1>. QED
  <2>1. Paging' => \A k \in Visible : Pos(k) <= Pos(after) => k \in shown
    BY <1>1
  <2>2. pc' # "end"
    BY <1>14
  <2> HIDE DEF hasMore
  <2>3. pc' = "answer" => \A k \in Visible :
          /\ Pos(after) < Pos(k)
          /\ HasMore' => \E e \in DOMAIN collected' : Pos(k) <= Pos(e)
          => k \in DOMAIN collected'
    BY <1>11, Zenon
  <2>4. pc' = "answer" /\ single' /\ ~HasMore' => DOMAIN collected' = Visible
    BY <1>12
  <2>. QED  BY <1>10, <1>13, <2>1, <2>2, <2>3, <2>4, Zenon DEF CompleteInv

LEMMA TurnKeepsHidden ==
  ASSUME ListTypeOK, OrderInv, SeenInv, HiddenInv, Untouched, pc = "fetch",
         NEW objects, NEW hasMore, Turn(objects, hasMore),
         UNCHANGED <<stored, after, shown, errors, deletes>>
  PROVE  HiddenInv'
<1>1. Visible' = Visible
  BY DEF Visible
<1>2. (NoOrphans' <=> NoOrphans) /\ (VariantsAreNear' <=> VariantsAreNear)
  BY <1>1 DEF NoOrphans, VariantsAreNear
<1> SUFFICES ASSUME NoOrphans, VariantsAreNear PROVE HiddenInv'
  BY <1>2 DEF HiddenInv
<1>3. /\ shown \subseteq Visible /\ DOMAIN collected \subseteq Visible
      /\ after # Start => \E file \in Visible : Opens(file)
  BY DEF HiddenInv, Filling, Paging
<1>4. Found(objects) \subseteq Visible
  BY VariantsAreNotFound
<1>5. DOMAIN collected' \subseteq Visible
  BY <1>3, <1>4 DEF Turn
<1>6. \A file : Opens(file)' <=> Opens(file)
  BY DEF Opens
<1>. QED  BY <1>1, <1>3, <1>5, <1>6, Zenon DEF HiddenInv

-----------------------------------------------------------------------------
(* Every step of the listing                                               *)

LEMMA ListHolds == Init => ListInv
<1> SUFFICES ASSUME Init PROVE ListInv
  OBVIOUS
<1>1. /\ stored = {} /\ shown = {} /\ keys = {} /\ pc = "upload" /\ DOMAIN collected = {}
      /\ after \in Cursors /\ cursor \in Cursors
      /\ errors \in Nat /\ deletes \in Nat
  <2>1. after = Start /\ cursor = Start /\ collected = <<>>
    BY Zenon DEF Init, Start
  <2>2. DOMAIN collected = {}
    BY <2>1
  <2>3. after \in Cursors /\ cursor \in Cursors
    BY <2>1, Zenon DEF Cursors
  <2>. QED  BY <2>2, <2>3 DEF Init
<1>2. ListTypeOK
  BY <1>1 DEF ListTypeOK
<1>3. ~Paging /\ ~Filling
  BY <1>1 DEF Paging, Filling
<1>. QED
  BY <1>1, <1>2, <1>3 DEF ListInv, OrderInv, SeenInv, CompleteInv, HiddenInv

LEMMA PublishKeeps ==
  ASSUME ListInv, ArchiveInv, NEW z \in Zips, Publish(z)
  PROVE  ListInv'
<1>1. /\ pc = "upload" /\ stored = {} /\ shown = {} /\ after = Start
      /\ UNCHANGED <<after, cursor, keys, collected, shown, errors, deletes>>
  BY Zenon DEF Publish, ArchiveInv, Published, Start
<1>2. stored' \subseteq Keys
  <2>1. Range(archiveKeys(z)) \subseteq Keys
    BY OrderAssumption, Zenon
  <2>2. CASE Accepted(z)
    <3>1. PICK added \in SUBSET Addable(Range(archiveKeys(z))) :
            stored' = Range(archiveKeys(z)) \union added
      BY <2>2, Zenon DEF Publish
    <3>2. added \subseteq Keys
      BY <3>1, SiblingFacts DEF Addable
    <3>. QED  BY <2>1, <3>1, <3>2
  <2>3. CASE ~Accepted(z)
    BY <1>1, <2>3 DEF Publish
  <2>. QED  BY <2>2, <2>3
<1>3. pc' \in {"page", "refused"}
  BY Zenon DEF Publish
<1>4. ListTypeOK'
  BY <1>1, <1>2, <1>3 DEF ListInv, ListTypeOK
<1>5. ~Filling' /\ pc' \notin {"fetch", "answer", "end"}
  BY <1>3 DEF Filling
<1>6. OrderInv' /\ SeenInv'
  BY <1>1, <1>5 DEF OrderInv, SeenInv
<1>7. \A k \in Visible' : ~(Pos(k) <= Pos(after'))
  <2>1. Visible' \subseteq Keys
    BY <1>2 DEF Visible
  <2>. QED  BY <1>1, <2>1, PosFacts
<1>8. CompleteInv' /\ HiddenInv'
  <2>1. after' = Start /\ shown' = {}
    BY <1>1
  <2>. QED  BY <1>5, <1>7, <2>1, Zenon DEF CompleteInv, HiddenInv
<1>. QED  BY <1>1, <1>4, <1>6, <1>8 DEF ListInv

\* Behind a deletion only the order is left.
LEMMA DeleteKeeps ==
  ASSUME ListInv, Delete
  PROVE  ListInv'
<1>1. /\ errors' \in Nat /\ deletes' \in Nat /\ deletes' > 0
      /\ stored' \subseteq stored
      /\ UNCHANGED <<pc, after, cursor, keys, collected, shown>>
  BY DEF ListInv, Delete
<1>2. ListTypeOK'
  BY <1>1 DEF ListInv, ListTypeOK
<1>3. OrderInv'
  BY <1>1 DEF ListInv, OrderInv, Paging, Filling
<1>4. ~Untouched'
  BY <1>1 DEF Untouched
<1>. QED  BY <1>1, <1>2, <1>3, <1>4 DEF ListInv, SeenInv, CompleteInv, HiddenInv

LEMMA BeginPageKeeps ==
  ASSUME ListInv, BeginPage
  PROVE  ListInv'
<1>1. /\ pc = "page" /\ pc' = "fetch" /\ cursor' = after
      /\ keys' = seedBoundaryKeys(after) /\ collected' = <<>> /\ ~single'
      /\ UNCHANGED <<stored, after, shown, errors, deletes>>
  BY DEF BeginPage
<1>2. DOMAIN collected' = {}
  BY <1>1
<1>3. after \in Cursors /\ stored \subseteq Keys /\ shown \subseteq Keys /\ Paging
  BY <1>1 DEF ListInv, ListTypeOK, Paging
<1>4. ASSUME NEW k \in keys' PROVE k \in Keys /\ Pos(k) <= Pos(after)
  <2>1. after # Start
    BY <1>1, <1>3, <1>4, SeedFacts
  <2>2. after \in Keys /\ Pos(after) \in Nat
    BY <1>3, <2>1, PosFacts DEF Cursors
  <2>3. CASE k = after
    BY <2>2, <2>3
  <2>4. CASE after \in DOMAIN SiblingOf /\ k = SiblingOf[after]
    <3>1. k \in Keys /\ Pos(k) < Pos(after) /\ Pos(k) \in Nat
      BY <2>4, SiblingFacts, PosFacts
    <3>. QED  BY <2>2, <3>1
  <2>. QED  BY <1>1, <1>3, <1>4, <2>3, <2>4, SeedFacts
<1>5. Pos(after) \in Nat /\ \A k \in stored : Pos(k) \in Nat
  BY <1>3, PosFacts
<1>6. ListTypeOK'
  BY <1>1, <1>2, <1>3, <1>4 DEF ListTypeOK
<1>7. OrderInv'
  <2>1. \A k \in shown : Pos(k) <= Pos(after)
    BY <1>3 DEF ListInv, OrderInv
  <2>2. Pos(after) <= Pos(after)
    BY <1>5
  <2>. QED  BY <1>1, <1>2, <1>4, <2>1, <2>2 DEF OrderInv
<1>8. \A k : ~(Pos(after) < Pos(k) /\ Pos(k) <= Pos(after) /\ k \in stored)
  BY <1>5
<1>9. SeenInv'
  <2> SUFFICES ASSUME Untouched' PROVE SeenInv'
    BY DEF SeenInv
  <2>1. Untouched
    BY <1>1 DEF Untouched
  <2>2. after \in stored \union {Start}
    BY <1>3, <2>1 DEF ListInv, SeenInv
  <2>3. Cardinality(DOMAIN collected') <= Limit
    BY <1>2, FS_EmptySet, ListingAssumption
  <2>. QED  BY <1>1, <1>2, <1>8, <2>2, <2>3 DEF SeenInv
<1>10. Visible' = Visible
  BY <1>1 DEF Visible
<1>11. (Untouched' <=> Untouched) /\ (NoOrphans' <=> NoOrphans)
  BY <1>1 DEF Untouched, NoOrphans
<1>12. VariantsAreNear' <=> VariantsAreNear
  BY <1>1, <1>10 DEF VariantsAreNear
<1>13. \A k \in Visible : k \in stored
  BY DEF Visible
<1>14. CompleteInv'
  <2> SUFFICES ASSUME Untouched, NoOrphans PROVE CompleteInv'
    BY <1>11 DEF CompleteInv
  <2>1. \A k \in Visible : Pos(k) <= Pos(after) => k \in shown
    BY <1>3 DEF ListInv, CompleteInv
  <2>. QED  BY <1>1, <1>8, <1>10, <1>13, <2>1 DEF CompleteInv
<1>15. HiddenInv'
  <2> SUFFICES ASSUME Untouched, NoOrphans, VariantsAreNear PROVE HiddenInv'
    BY <1>11, <1>12 DEF HiddenInv
  <2>1. shown \subseteq Visible /\ (after # Start => \E file \in Visible : Opens(file))
    BY <1>3 DEF ListInv, HiddenInv
  <2>2. \A file : Opens(file)' <=> Opens(file)
    BY <1>1 DEF Opens
  <2>. QED  BY <1>1, <1>2, <1>10, <2>1, <2>2, Zenon DEF HiddenInv
<1>. QED  BY <1>1, <1>6, <1>7, <1>9, <1>14, <1>15 DEF ListInv

LEMMA FetchKeeps ==
  ASSUME ListInv, Fetch
  PROVE  ListInv'
<1>1. pc = "fetch" /\ UNCHANGED <<stored, after, shown, errors, deletes>>
  BY DEF Fetch
<1>2. PICK objects \in Leading(Listed) : Take(objects, objects # Listed)
  BY DEF Fetch
<1>3. ListTypeOK /\ OrderInv /\ SeenInv /\ CompleteInv /\ HiddenInv
  BY DEF ListInv
<1>4. Turn(objects, objects # Listed)
  <2>1. (objects # Listed) \in BOOLEAN
    OBVIOUS
  <2>. QED  BY <1>2, <1>3, <2>1, TakeIsTurn
<1>5. ListTypeOK' /\ OrderInv'
  BY <1>1, <1>3, <1>4, TurnKeepsOrder
<1>6. CASE Untouched
  <2>1. SeenInv'
    BY <1>1, <1>3, <1>4, <1>6, TurnKeepsSeen
  <2>2. CompleteInv'
    BY <1>1, <1>3, <1>4, <1>6, TurnKeepsComplete
  <2>3. HiddenInv'
    BY <1>1, <1>3, <1>4, <1>6, TurnKeepsHidden
  <2>. QED  BY <1>1, <1>5, <2>1, <2>2, <2>3 DEF ListInv
<1>7. CASE ~Untouched
  <2>1. ~Untouched'
    BY <1>1, <1>7 DEF Untouched
  <2>. QED  BY <1>1, <1>5, <2>1 DEF ListInv, SeenInv, CompleteInv, HiddenInv
<1>. QED  BY <1>6, <1>7

\* Nor is more left behind a listing that broke off.
LEMMA FetchBrokenKeeps ==
  ASSUME ListInv, FetchBroken
  PROVE  ListInv'
<1>1. /\ pc = "fetch" /\ UNCHANGED <<stored, after, shown, deletes>>
      /\ errors' = errors + 1
  BY DEF FetchBroken
<1>2. PICK objects \in Leading(Listed) : Take(objects, FALSE)
  BY DEF FetchBroken
<1>3. ListTypeOK /\ OrderInv /\ errors \in Nat /\ deletes \in Nat
  BY DEF ListInv
<1>4. Turn(objects, FALSE)
  BY <1>2, <1>3, TakeIsTurn
<1>5. ListTypeOK' /\ OrderInv'
  BY <1>1, <1>3, <1>4, TurnKeepsOrder
<1>6. errors' \in Nat /\ deletes' \in Nat /\ ~Untouched'
  BY <1>1, <1>3 DEF Untouched
<1>. QED  BY <1>5, <1>6 DEF ListInv, SeenInv, CompleteInv, HiddenInv

\* The file that decides HasMore is the last one, and not alone.
LEMMA ExtraFacts ==
  ASSUME ListTypeOK, HasMore
  PROVE  /\ Extra \in DOMAIN collected
         /\ \A k \in DOMAIN collected : Pos(k) <= Pos(Extra)
         /\ ThisPage = DOMAIN collected \ {Extra} /\ ThisPage # {}
<1> DEFINE D == DOMAIN collected
<1>1. D \in SUBSET Keys /\ IsFiniteSet(D)
  BY OrderAssumption, FS_Subset DEF ListTypeOK
<1>2. Cardinality(D) \in Nat /\ Cardinality(D) > 1
  <2>1. Cardinality(D) > Limit /\ Cardinality(D) \in Nat
    BY <1>1, FS_CardinalityType DEF HasMore
  <2>. QED  BY <2>1, ListingAssumption
<1>3. D # {}
  BY <1>1, <1>2, FS_EmptySet
<1>4. Start \in Cursors
  BY DEF Cursors
<1>5. Extra = LastOf(D, Start)
  BY Zenon DEF Extra, Start
<1>6. Extra \in D /\ \A k \in D : Pos(k) <= Pos(Extra)
  BY <1>1, <1>3, <1>4, <1>5, LastOfFacts
<1>7. ThisPage = D \ {Extra}
  BY Zenon DEF ThisPage
<1>8. D # {Extra}
  BY <1>1, <1>2, FS_Singleton
<1>. QED  BY <1>3, <1>6, <1>7, <1>8

LEMMA AnswerKeeps ==
  ASSUME ListInv, Answer
  PROVE  ListInv'
<1>1. /\ pc = "answer" /\ shown' = shown \union ThisPage
      /\ UNCHANGED <<stored, cursor, keys, collected, single, errors, deletes>>
  BY DEF Answer
<1>2. IF HasMore THEN pc' = "page" /\ after' = collected[Extra]
      ELSE pc' = "end" /\ after' = after
  BY DEF Answer, NextCursor
<1>3. ListTypeOK /\ OrderInv /\ SeenInv /\ CompleteInv /\ HiddenInv
  BY DEF ListInv
<1>4. ThisPage \subseteq DOMAIN collected
  BY DEF ThisPage
<1>5. ListTypeOK'
  <2>1. after' \in Cursors
    BY <1>2, <1>3, ExtraFacts DEF ListTypeOK
  <2>. QED  BY <1>1, <1>2, <1>3, <1>4, <2>1 DEF ListTypeOK
<1>6. /\ Visible' = Visible /\ \A k \in Visible : k \in stored /\ Pos(k) \in Nat
      /\ (Untouched' <=> Untouched) /\ (NoOrphans' <=> NoOrphans)
  BY <1>1, <1>3, PosFacts DEF Visible, Untouched, NoOrphans, ListTypeOK
<1>7. VariantsAreNear' <=> VariantsAreNear
  BY <1>1, <1>6 DEF VariantsAreNear
<1>8. ~Filling' /\ pc' \notin {"fetch", "answer"}
  BY <1>2 DEF Filling
<1>9. CASE HasMore
  <2> DEFINE next == collected[Extra]
  <2>1. /\ Extra \in DOMAIN collected /\ ThisPage = DOMAIN collected \ {Extra}
        /\ \A k \in DOMAIN collected : Pos(k) <= Pos(Extra)
    BY <1>3, <1>9, ExtraFacts
  <2>2. pc' = "page" /\ after' = next
    BY <1>2, <1>9
  <2>3. /\ Pos(after) <= Pos(next) /\ Pos(next) < Pos(Extra)
        /\ \A j \in DOMAIN collected : Pos(j) < Pos(Extra) => Pos(j) <= Pos(next)
        /\ \A j \in shown : Pos(j) <= Pos(after)
    BY <1>1, <1>3, <2>1 DEF OrderInv, Filling, Paging
  <2>4. /\ next \in Cursors /\ Pos(next) \in Nat /\ Pos(after) \in Nat
        /\ Extra \in Cursors /\ Pos(Extra) \in Nat
        /\ \A k \in DOMAIN collected : Pos(k) \in Nat /\ k \in Cursors
        /\ \A k \in shown : Pos(k) \in Nat
    BY <1>3, <2>1, PosFacts DEF ListTypeOK, Cursors
  <2> HIDE DEF next
  <2>5. ASSUME NEW k \in ThisPage PROVE Pos(k) < Pos(Extra)
    <3>1. k \in DOMAIN collected /\ k # Extra /\ Pos(k) <= Pos(Extra)
      BY <2>1
    <3>2. Pos(k) # Pos(Extra)
      BY <2>4, <3>1, PosFacts
    <3>. QED  BY <2>4, <3>1, <3>2
  <2>6. OrderInv'
    <3>1. ASSUME NEW k \in shown' PROVE Pos(k) <= Pos(next)
      BY <1>1, <1>4, <2>3, <2>4, <2>5
    <3>. QED  BY <1>8, <2>2, <3>1, Zenon DEF OrderInv
  <2>7. SeenInv'
    <3>1. Untouched => next \in stored \union {Start}
      BY <1>1, <1>3, <2>1 DEF SeenInv, Filling, next
    <3>. QED  BY <1>1, <1>6, <1>8, <2>2, <3>1 DEF SeenInv
  <2>8. CompleteInv'
    <3> SUFFICES ASSUME Untouched, NoOrphans, NEW k \in Visible, Pos(k) <= Pos(next)
                 PROVE  k \in shown'
      BY <1>6, <1>8, <2>2 DEF CompleteInv
    <3>1. CASE Pos(k) <= Pos(after)
      BY <1>1, <1>3, <3>1 DEF CompleteInv, Paging
    <3>2. CASE Pos(after) < Pos(k)
      <4>1. Pos(k) <= Pos(Extra) /\ k # Extra
        BY <1>6, <2>3, <2>4
      <4>2. k \in DOMAIN collected
        BY <1>1, <1>3, <2>1, <3>2, <4>1 DEF CompleteInv
      <4>. QED  BY <1>1, <2>1, <4>1, <4>2
    <3>. QED  BY <1>6, <2>4, <3>1, <3>2
  <2>9. HiddenInv'
    <3> SUFFICES ASSUME Untouched, NoOrphans, VariantsAreNear PROVE HiddenInv'
      BY <1>6, <1>7 DEF HiddenInv
    <3>1. shown \subseteq Visible /\ DOMAIN collected \subseteq Visible
      BY <1>1, <1>3 DEF HiddenInv, Filling
    <3>2. \A j \in stored : ~Between(next, j, Extra)
      BY <1>1, <1>3, <2>1 DEF SeenInv, Filling, next
    <3>3. Pos(after') < Pos(Extra) /\ \A j \in stored' : ~Between(after', j, Extra)
      BY <1>1, <2>2, <2>3, <3>2
    <3>4. \E file \in Visible' : Pos(after') < Pos(file)
                                 /\ \A j \in stored' : ~Between(after', j, file)
      BY <1>6, <2>1, <3>1, <3>3, Zenon
    <3>5. shown' \subseteq Visible'
      BY <1>1, <1>4, <1>6, <3>1
    <3>. QED  BY <1>8, <3>4, <3>5, Zenon DEF HiddenInv, Opens
  <2>. QED  BY <1>1, <1>5, <2>6, <2>7, <2>8, <2>9 DEF ListInv
<1>10. CASE ~HasMore
  <2>1. pc' = "end" /\ ThisPage = DOMAIN collected /\ ~Paging'
    BY <1>2, <1>10 DEF ThisPage, Paging
  <2>2. OrderInv' /\ SeenInv'
    BY <1>8, <2>1 DEF OrderInv, SeenInv
  <2>3. CompleteInv'
    <3> SUFFICES ASSUME Untouched, NoOrphans, NEW k \in Visible
                 PROVE  k \in shown'
      BY <1>6, <2>1 DEF CompleteInv
    <3>1. Pos(after) \in Nat
      BY <1>3, PosFacts DEF ListTypeOK
    <3>2. CASE Pos(k) <= Pos(after)
      BY <1>1, <1>3, <3>2 DEF CompleteInv, Paging
    <3>3. CASE Pos(after) < Pos(k)
      BY <1>1, <1>3, <1>10, <2>1, <3>3 DEF CompleteInv
    <3>. QED  BY <1>6, <3>1, <3>2, <3>3
  <2>4. HiddenInv'
    <3> SUFFICES ASSUME Untouched, NoOrphans, VariantsAreNear PROVE shown' \subseteq Visible'
      BY <1>6, <1>7, <1>8, <2>1 DEF HiddenInv
    <3>1. shown \subseteq Visible /\ DOMAIN collected \subseteq Visible
      BY <1>1, <1>3 DEF HiddenInv, Filling
    <3>. QED  BY <1>1, <1>4, <1>6, <3>1
  <2>. QED  BY <1>1, <1>5, <2>2, <2>3, <2>4 DEF ListInv
<1>. QED  BY <1>9, <1>10

LEMMA ListStutters ==
  ASSUME ListInv, UNCHANGED vars
  PROVE  ListInv'
<1>1. UNCHANGED <<stored, pc, after, cursor, keys, collected, single, shown, errors, deletes>>
  BY DEF vars
<1>2. ListTypeOK' /\ OrderInv'
  BY <1>1 DEF ListInv, ListTypeOK, OrderInv, Paging, Filling
<1>3. Visible' = Visible /\ (NoOrphans' <=> NoOrphans) /\ (Untouched' <=> Untouched)
  BY <1>1 DEF Visible, NoOrphans, Untouched
<1>4. VariantsAreNear' <=> VariantsAreNear
  BY <1>1, <1>3 DEF VariantsAreNear
<1>5. SeenInv'
  BY <1>1 DEF ListInv, SeenInv, Untouched, Paging, Filling
<1>6. CompleteInv'
  BY <1>1, <1>3 DEF ListInv, CompleteInv, Paging, HasMore
<1>7. HiddenInv'
  BY <1>1, <1>3, <1>4 DEF ListInv, HiddenInv, Opens, Paging, Filling
<1>. QED  BY <1>1, <1>2, <1>5, <1>6, <1>7 DEF ListInv

LEMMA ListKept ==
  ASSUME ListInv, ArchiveInv, [Next]_vars
  PROVE  ListInv'
<1>1. ASSUME NEW z \in Zips, Publish(z) PROVE ListInv'
  BY <1>1, PublishKeeps
<1>2. CASE Delete
  BY <1>2, DeleteKeeps
<1>3. CASE BeginPage
  BY <1>3, BeginPageKeeps
<1>4. CASE Fetch
  BY <1>4, FetchKeeps
<1>5. CASE FetchBroken
  BY <1>5, FetchBrokenKeeps
<1>6. CASE Answer
  BY <1>6, AnswerKeeps
<1>7. CASE UNCHANGED vars
  BY <1>7, ListStutters
<1>. QED  BY <1>1, <1>2, <1>3, <1>4, <1>5, <1>6, <1>7 DEF Next

LEMMA ListStays == Spec => []ListInv
<1>1. Init => ListInv
  BY ListHolds
<1>2. ListInv /\ ArchiveInv /\ [Next]_vars => ListInv'
  BY ListKept
<1>. QED  BY <1>1, <1>2, ArchiveStays, PTL DEF Spec

\* Whoever follows the links of GetFiles never meets a file twice or out of order,
\* whatever is deleted or breaks off; where nothing does, the last page completes the
\* files of the package, and a total is given only with all of them.
THEOREM PagesAreWhole == Spec => []PagesAreComplete
<1>1. ASSUME ListInv PROVE PagesAreComplete
  <2>1. ListTypeOK /\ OrderInv /\ SeenInv /\ CompleteInv
    BY <1>1 DEF ListInv
  <2>2. ASSUME pc = "answer", NEW j \in shown, NEW k \in ThisPage
        PROVE  Pos(j) < Pos(k)
    <3>1. k \in DOMAIN collected
      BY DEF ThisPage
    <3>2. /\ Pos(j) <= Pos(after)
          /\ Pos(after) <= Pos(collected[k]) /\ Pos(collected[k]) < Pos(k)
      BY <2>1, <2>2, <3>1 DEF OrderInv, Paging, Filling
    <3>3. /\ Pos(j) \in Nat /\ Pos(after) \in Nat /\ Pos(k) \in Nat
          /\ Pos(collected[k]) \in Nat
      BY <2>1, <3>1, PosFacts DEF ListTypeOK
    <3>. QED  BY <3>2, <3>3
  <2>3. ASSUME Untouched, NoOrphans
        PROVE  /\ pc = "end" => Visible \subseteq shown
               /\ pc = "answer" /\ single /\ ~HasMore => ThisPage = Visible
    BY <2>1, <2>3 DEF CompleteInv, ThisPage
  <2>. QED  BY <2>2, <2>3 DEF PagesAreComplete
<1>2. ListInv => PagesAreComplete
  BY <1>1
<1>. QED  BY <1>2, ListStays, PTL

\* What seedBoundaryKeys is for: no page shows a variant, and a page that was
\* advertised has a file, where at most one file is between a file and its variant.
THEOREM PagesShowNoVariant == Spec => []VariantsStayHidden
<1>1. ASSUME ListInv PROVE VariantsStayHidden
  <2> SUFFICES ASSUME Untouched, NoOrphans, VariantsAreNear
               PROVE  /\ shown \subseteq Visible
                      /\ pc = "answer" => ThisPage \subseteq Visible
                      /\ pc = "answer" /\ after # <<>> => ThisPage # {}
    BY DEF VariantsStayHidden
  <2>1. ListTypeOK /\ CompleteInv /\ HiddenInv
    BY <1>1 DEF ListInv
  <2>2. shown \subseteq Visible
    BY <2>1 DEF HiddenInv
  <2>3. pc = "answer" => ThisPage \subseteq Visible
    BY <2>1 DEF HiddenInv, Filling, ThisPage
  <2>4. ASSUME pc = "answer", after # Start PROVE ThisPage # {}
    <3>1. CASE HasMore
      BY <2>1, <3>1, ExtraFacts
    <3>2. CASE ~HasMore
      <4>1. PICK file \in Visible : Pos(after) < Pos(file)
        BY <2>1, <2>4 DEF HiddenInv, Paging, Opens
      <4>2. file \in DOMAIN collected
        BY <2>1, <2>4, <3>2, <4>1 DEF CompleteInv
      <4>. QED  BY <3>2, <4>2 DEF ThisPage
    <3>. QED  BY <3>1, <3>2
  <2>. QED  BY <2>2, <2>3, <2>4, Zenon DEF Start
<1>2. ListInv => VariantsStayHidden
  BY <1>1
<1>. QED  BY <1>2, ListStays, PTL

=============================================================================
