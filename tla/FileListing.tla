---------------------------- MODULE FileListing ----------------------------
(***************************************************************************)
(* What a published archive looks like to somebody who pages through its   *)
(* files: the keys archiveKeys makes of it, the variants CreatePackage     *)
(* adds, and GetFiles, which lists a package page by page without the      *)
(* encoded variants, while the package may be deleted and listings fail.   *)
(*                                                                         *)
(* GetFiles keeps no state between pages but the cursor in the link to the *)
(* next one.  The browser follows the links from the first page on.  The   *)
(* version is a pinned one; AliasCache has how others are resolved.        *)
(***************************************************************************)
EXTENDS ArchiveKeys, FiniteSets

CONSTANTS
  Zips,           \* the archives that may be uploaded
  Place,          \* the place of each key in the order of their text
  SiblingOf,      \* the key of each key that ends in .br or .gz, without the ending
  Compressible,   \* the keys compressibleContentType accepts
  Limit,          \* files per page
  MaxListErrors,  \* bound: listings that break off
  MaxDeletes      \* bound: steps in which a deletion removes objects

Keys == DOMAIN Place

ASSUME ListingAssumption ==
  Limit \in Nat \ {0} /\ MaxListErrors \in Nat /\ MaxDeletes \in Nat

\* Every key an archive yields has a place of its own.
ASSUME OrderAssumption ==
  /\ IsFiniteSet(Keys) /\ Keys \subseteq Seq(Segments) \ {<<>>}
  /\ Place \in [Keys -> Nat \ {0}]
  /\ \A j, k \in Keys : Place[j] = Place[k] => j = k
  /\ \A z \in Zips : z \in Seq(Entry) /\ Range(archiveKeys(z)) \subseteq Keys

\* The ending is all that a variant's path adds to its sibling's; text that starts
\* alike is put in order by it.  What ends in .br or .gz is not compressible.
ASSUME SiblingAssumption ==
  /\ DOMAIN SiblingOf \subseteq Keys /\ SiblingOf \in [DOMAIN SiblingOf -> Keys]
  /\ Compressible \subseteq Keys \ DOMAIN SiblingOf
  /\ \A v \in DOMAIN SiblingOf :
       /\ Len(v) = Len(SiblingOf[v]) /\ Front(v) = Front(SiblingOf[v])
       /\ Last(v) \notin {"", ".", "..", "__MACOSX", ".DS_Store"}
       /\ NFC[Last(SiblingOf[v])] = Last(SiblingOf[v]) => NFC[Last(v)] = Last(v)
       /\ Place[SiblingOf[v]] < Place[v]
  /\ \A v, w \in DOMAIN SiblingOf :
       Place[SiblingOf[v]] < Place[SiblingOf[w]] /\ Place[SiblingOf[w]] < Place[v]
         => Place[w] < Place[v]

VARIABLES
  zip,        \* the uploaded archive
  stored,     \* the keys under the package's folder
  pc,         \* where the browser and GetFiles are
  after,      \* the cursor of the page being asked for; <<>> on the first
  cursor,     \* GetFiles: the last key gone through
  keys,       \* GetFiles: the keys seen, to tell variants by
  collected,  \* GetFiles: the cursor of each file of the page, and of one more
  single,     \* GetFiles: the first fetch had it all
  shown,      \* the files of all pages so far
  errors,     \* how many listings broke off
  deletes     \* steps in which objects were removed

vars == <<zip, stored, pc, after, cursor, keys, collected, single, shown, errors,
          deletes>>

Init ==
  /\ zip = <<>> /\ stored = {} /\ pc = "upload"
  /\ after = <<>> /\ cursor = <<>> /\ keys = {} /\ collected = <<>>
  /\ single = FALSE /\ shown = {}
  /\ errors = 0 /\ deletes = 0

-----------------------------------------------------------------------------
(* Publishing and deleting, as PackageStore has them                       *)

\* The variants compressVariants may add.
Addable(objects) ==
  { v \in DOMAIN SiblingOf : SiblingOf[v] \in objects \intersect Compressible }

\* A file that cannot be read fails the upload, and what was stored is rolled back.
Accepted(z) ==
  /\ checkArchiveLimits(z) /\ archiveKeys(z) # <<>>
  /\ \A i \in DOMAIN archiveKeys(z) : z[i].readable

Publish(z) ==
  /\ pc = "upload"
  /\ zip' = z
  /\ IF Accepted(z)
     THEN /\ pc' = "page"
          /\ \E added \in SUBSET Addable(Range(archiveKeys(z))) :
               stored' = Range(archiveKeys(z)) \union added
     ELSE pc' = "refused" /\ UNCHANGED stored
  /\ UNCHANGED <<after, cursor, keys, collected, single, shown, errors, deletes>>

\* RemoveObjects has removed a part of the package, or what was left of it.
Delete ==
  /\ deletes < MaxDeletes
  /\ deletes' = deletes + 1
  /\ \E gone \in SUBSET stored : gone # {} /\ stored' = stored \ gone
  /\ UNCHANGED <<zip, pc, after, cursor, keys, collected, single, shown, errors>>

-----------------------------------------------------------------------------
(* GetFiles                                                                *)

\* The start of the listing is in front of all keys.
Pos(k) == IF k = <<>> THEN 0 ELSE Place[k]

\* The sets of keys a listing of these objects may start with.
Leading(objects) ==
  { some \in SUBSET objects :
      \A k \in some : \A j \in objects : Pos(j) < Pos(k) => j \in some }

\* The last of some keys; the one given if there is none.
LastOf(some, none) ==
  IF some = {} THEN none ELSE CHOOSE k \in some : \A j \in some : Pos(j) <= Pos(k)

\* Mutant of seedBoundaryKeys: the set starts empty.
seedBoundaryKeysNone(k) == {}

\* The cursor, and the file it may be a variant of.
seedBoundaryKeys(k) ==
  IF k = <<>> THEN {} ELSE {k} \union { SiblingOf[v] : v \in {k} \intersect DOMAIN SiblingOf }

isEncodedVariant(k, seen) ==
  k \in DOMAIN SiblingOf /\ SiblingOf[k] \in seen \intersect Compressible

BeginPage ==
  /\ pc = "page"
  /\ pc' = "fetch"
  /\ cursor' = after
  /\ keys' = seedBoundaryKeys(after)
  /\ collected' = <<>>
  /\ single' = FALSE
  /\ UNCHANGED <<zip, stored, after, shown, errors, deletes>>

\* What the store lists behind the cursor.
Listed == { k \in stored : Pos(k) > Pos(cursor) }

\* It is the first fetch of the first page, and the store had no more.
FirstAndOnly(hasMore) == cursor = <<>> /\ ~hasMore

\* The files among these objects, by the keys seen so far.
Found(objects) == { k \in objects : ~isEncodedVariant(k, keys \union objects) }

\* Mutant of GoneThrough: the cursor is only moved by files that are listed.
GoneThroughVisible(objects) == LastOf(Found(objects), cursor)

\* Where the cursor is after these objects.
GoneThrough(objects) == LastOf(objects, cursor)

\* One turn of the loop.  A visible file is collected with the cursor that
\* resumes just before it; one file more than the page holds ends the loop.
Take(objects, hasMore) ==
  LET all == DOMAIN collected \union Found(objects)
  IN /\ keys' = keys \union objects
     /\ \E kept \in Leading(all) :
          /\ Cardinality(kept) = Min({Cardinality(all), Limit + 1})
          /\ collected' = [ k \in kept |->
               IF k \in DOMAIN collected THEN collected[k]
               ELSE LastOf({ j \in objects : Pos(j) < Pos(k) }, cursor) ]
     /\ cursor' = GoneThrough(objects)
     /\ single' = (single \/ FirstAndOnly(hasMore))
     /\ pc' = IF hasMore /\ Cardinality(all) <= Limit THEN "fetch" ELSE "answer"

\* ListObjectsPage returns Limit objects, and whether there are more.
Fetch ==
  /\ pc = "fetch"
  /\ \E objects \in Leading(Listed) :
       /\ Cardinality(objects) = Min({Cardinality(Listed), Limit})
       /\ Take(objects, objects # Listed)
  /\ UNCHANGED <<zip, stored, after, shown, errors, deletes>>

\* The listing breaks off: the error is skipped, and the end of what was listed
\* is taken for the end of the package.
FetchBroken ==
  /\ pc = "fetch"
  /\ errors < MaxListErrors
  /\ errors' = errors + 1
  /\ \E objects \in Leading(Listed) :
       Cardinality(objects) <= Limit /\ Take(objects, FALSE)
  /\ UNCHANGED <<zip, stored, after, shown, deletes>>

HasMore == Cardinality(DOMAIN collected) > Limit

\* The file that decides HasMore.
Extra == LastOf(DOMAIN collected, <<>>)

ThisPage == IF HasMore THEN DOMAIN collected \ {Extra} ELSE DOMAIN collected

\* Mutant of NextCursor: the file that decided HasMore.
NextCursorLate == Extra

NextCursor == collected[Extra]

\* The page is answered (404 when it has no file), and the link followed.
Answer ==
  /\ pc = "answer"
  /\ shown' = shown \union ThisPage
  /\ IF HasMore THEN pc' = "page" /\ after' = NextCursor
     ELSE pc' = "end" /\ UNCHANGED after
  /\ UNCHANGED <<zip, stored, cursor, keys, collected, single, errors, deletes>>

Next ==
  \/ \E z \in Zips : Publish(z)
  \/ Delete
  \/ BeginPage \/ Fetch \/ FetchBroken \/ Answer

\* The browser follows every link, and listings return.
Fairness == WF_vars(BeginPage) /\ WF_vars(Fetch) /\ WF_vars(Answer)

Spec == Init /\ [][Next]_vars

FairSpec == Spec /\ Fairness

-----------------------------------------------------------------------------
(* Properties                                                              *)

Published == pc \notin {"upload", "refused"}

\* The folder that is stripped off the keys of an archive.
WrapperOf(z) == singleTopLevelFolder(applyIgnoreFile(validatedEntries(z)))

Untouched == errors = 0 /\ deletes = 0

\* Whatever an archive's entries are called, a stored key is a clean path below
\* the package's folder, in composed form, and no macOS metadata, unless it came
\* in a folder that was stripped.
KeysStayInside ==
  \A k \in stored :
    /\ k # <<>>
    /\ \A i \in DOMAIN k : k[i] \notin {"", ".", ".."} /\ k[i] = NFC[k[i]]
    /\ Last(k) # ".DS_Store"
    /\ k[1] = "__MACOSX" => WrapperOf(zip) # <<>>

\* What the entries at these positions declare to expand to.
TrueSize(z) ==
  LET sum[n \in 0..Len(z)] ==
        IF n = 0 THEN 0 ELSE sum[n - 1] + IF n \in Files(z) THEN z[n].size ELSE 0
  IN sum[Len(z)]

\* No archive is published that expands beyond the limit, however large the
\* sizes it declares: the counter does not wrap around.
LimitsHold ==
  Published /\ MaxUncompressedSize > 0 => TrueSize(zip) <= MaxUncompressedSize

\* The archive with everything but Finder's __MACOSX moved into a folder.
Wrapped(z) ==
  [ i \in DOMAIN z |->
      IF i \in Files(z) /\ Clean(z[i].name)[1] = "__MACOSX" THEN z[i]
      ELSE [z[i] EXCEPT !.name = <<"dist">> \o z[i].name] ]

\* docs/site/index.html:1839, zipping a folder or its contents produces "the same
\* URLs", .gimmeignore included: it holds for an archive that does not lose a
\* folder of its own to the stripping.
WrapperIsTransparent ==
  Published /\ WrapperOf(zip) = <<>> => archiveKeys(Wrapped(zip)) = archiveKeys(zip)

\* The files of the package: what is stored, without the variants of other files.
Visible == { k \in stored : ~isEncodedVariant(k, stored) }

\* No two variants are stored of a file that is not: seedBoundaryKeys takes the file
\* for stored when one of its variants is the cursor, and the other would be hidden.
NoOrphans ==
  \A v, w \in stored \intersect DOMAIN SiblingOf :
    v # w /\ SiblingOf[v] = SiblingOf[w] /\ SiblingOf[v] \in Compressible
      => SiblingOf[v] \in stored

\* Though GetFiles starts each page from nothing but a cursor, no file is on two
\* pages, or behind one that is on a later page, whatever fails or is deleted
\* meanwhile.  Where nothing is, whoever follows the links to the last page has
\* seen every file, and a total is given only on a page that has them all.
PagesAreComplete ==
  /\ pc = "answer" => \A j \in shown, k \in ThisPage : Pos(j) < Pos(k)
  /\ Untouched /\ NoOrphans =>
       /\ pc = "end" => Visible \subseteq shown
       /\ pc = "answer" /\ single /\ ~HasMore => ThisPage = Visible

Between(j, k, l) == Pos(j) < Pos(k) /\ Pos(k) < Pos(l)

\* At most one file comes between a file and each of its variants.
VariantsAreNear ==
  \A v \in stored : isEncodedVariant(v, stored) =>
    \A j, k \in { file \in Visible : Between(SiblingOf[v], file, v) } : j = k

\* seedBoundaryKeys, "a variant opening a page is still recognised when its sibling
\* was the last key of the previous one": no page shows a variant, and none that
\* was advertised is empty, where the variants are near.
VariantsStayHidden ==
  Untouched /\ NoOrphans /\ VariantsAreNear =>
    /\ shown \subseteq Visible
    /\ pc = "answer" => ThisPage \subseteq Visible
    /\ pc = "answer" /\ after # <<>> => ThisPage # {}

\* Following the links comes to an end, whatever is deleted meanwhile.
BrowsingEnds == Published ~> pc = "end"

=============================================================================
