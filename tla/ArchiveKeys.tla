---------------------------- MODULE ArchiveKeys ----------------------------
(***************************************************************************)
(* Which object keys the entries of an uploaded zip archive become, and    *)
(* which archives are refused: checkArchiveLimits and archiveKeys.         *)
(*                                                                         *)
(* The name of an entry is its text split at the slashes: "" is <<"">>,    *)
(* "/a" is <<"", "a">> and the directory "a/" is <<"a", "">>.  An entry    *)
(* has its declared size, mode bits that may make it a directory, content  *)
(* that can be read or not, and, should it be read as a .gimmeignore, the  *)
(* patterns it holds.  A key is the path below name@version/.              *)
(*                                                                         *)
(* The entries that are left of an archive, and its keys, are functions on *)
(* their positions in it.  The empty one stands for a refusal, as an       *)
(* archive that yields no file is refused too.                             *)
(***************************************************************************)
EXTENDS Integers, Sequences, SequencesExt

CONSTANTS
  Segments,             \* the path segments entries are named with
  NFC,                  \* Unicode normalisation of a path segment
  MaxEntries,           \* upload.max_entries; 0 is no limit
  MaxUncompressedSize,  \* upload.max_uncompressed_size; 0 is no limit
  MaxUint               \* the largest value of the size counter, 2^64 - 1 in Go

\* Normalising again changes nothing; plain ASCII names are in composed form.
ASSUME SegmentsAssumption ==
  /\ {"dist", "__MACOSX", ".DS_Store", ".gimmeignore"} \subseteq Segments
  /\ NFC \in [Segments -> Segments]
  /\ \A seg \in Segments : NFC[NFC[seg]] = NFC[seg]
  /\ NFC["dist"] = "dist"

\* The limit is an int64 and the counter a uint64.
ASSUME LimitsAssumption ==
  /\ MaxEntries \in Nat /\ MaxUncompressedSize \in Nat /\ MaxUint \in Nat
  /\ MaxUncompressedSize < MaxUint

Entry == [name : Seq(Segments) \ {<<>>}, size : 0..MaxUint, dirMode : BOOLEAN,
          readable : BOOLEAN, patterns : SUBSET Segments]

\* By its mode bits or by its name.
IsDir(e) == e.dirMode \/ (Len(e.name) > 1 /\ Last(e.name) = "")

\* The positions of the entries that are no directories.
Files(zip) == { i \in DOMAIN zip : ~IsDir(zip[i]) }

-----------------------------------------------------------------------------
(* checkArchiveLimits                                                      *)

\* Mutant of AddSize: the sum wraps around.
AddSizeWrapping(sum, size) == (sum + size) % (MaxUint + 1)

\* The sum saturates.
AddSize(sum, size) == IF MaxUint - sum < size THEN MaxUint ELSE sum + size

DeclaredSize(zip) ==
  LET sum[n \in 0..Len(zip)] ==
        IF n = 0 THEN 0
        ELSE IF n \in Files(zip) THEN AddSize(sum[n - 1], zip[n].size) ELSE sum[n - 1]
  IN sum[Len(zip)]

checkArchiveLimits(zip) ==
  /\ MaxEntries > 0 => Cardinality(Files(zip)) <= MaxEntries
  /\ MaxUncompressedSize > 0 => DeclaredSize(zip) <= MaxUncompressedSize

-----------------------------------------------------------------------------
(* validatedEntries                                                        *)

\* path.Clean, one segment on.
CleanStep(path, seg) ==
  IF seg \in {"", "."} THEN path
  ELSE IF seg = ".." /\ path # <<>> /\ Last(path) # ".." THEN Front(path)
  ELSE Append(path, seg)

\* path.Clean, of the normalised name.
Clean(name) ==
  LET path[n \in 0..Len(name)] ==
        IF n = 0 THEN <<>> ELSE CleanStep(path[n - 1], NFC[name[n]])
  IN path[Len(name)]

\* Mutant of Escapes: the name is looked at before it is cleaned.
EscapesAsWritten(name) == name[1] \in {"", ".", ".."}

\* Empty, absolute, or out of the package's namespace once cleaned.
Escapes(name) ==
  \/ name[1] = ""
  \/ Clean(name) = <<>>
  \/ Clean(name)[1] = ".."

isArchiveJunk(path) == path[1] = "__MACOSX" \/ Last(path) = ".DS_Store"

\* An entry that escapes refuses the archive; junk is dropped.
validatedEntries(zip) ==
  IF \E i \in Files(zip) : Escapes(zip[i].name) THEN <<>>
  ELSE [ i \in { j \in Files(zip) : ~isArchiveJunk(Clean(zip[j].name)) } |->
           [path |-> Clean(zip[i].name), readable |-> zip[i].readable,
            patterns |-> zip[i].patterns] ]

-----------------------------------------------------------------------------
(* applyIgnoreFile                                                         *)

\* The folder all entries are under, as a path; <<>> when there is none.
singleTopLevelFolder(entries) ==
  LET folders == { entries[i].path[1] : i \in DOMAIN entries }
  IN IF /\ \E folder \in folders : folders = {folder}
        /\ \A i \in DOMAIN entries : Len(entries[i].path) > 1
     THEN <<CHOOSE folder \in folders : TRUE>> ELSE <<>>

IgnoreFilesIn(folder, entries) ==
  { i \in DOMAIN entries : entries[i].path = Append(folder, ".gimmeignore") }

\* Mutant of findIgnoreFile: the wrapper folder is not searched.
findIgnoreFileAtRoot(entries) ==
  IF IgnoreFilesIn(<<>>, entries) = {} THEN 0 ELSE Min(IgnoreFilesIn(<<>>, entries))

\* The first .gimmeignore of the root, else of the wrapper folder; 0 if none.
findIgnoreFile(entries) ==
  LET wrapper == singleTopLevelFolder(entries)
      atRoot  == IgnoreFilesIn(<<>>, entries)
      nested  == IF wrapper = <<>> THEN {} ELSE IgnoreFilesIn(wrapper, entries)
      found   == IF atRoot # {} THEN atRoot ELSE nested
  IN IF found = {} THEN 0 ELSE Min(found)

Below(folder, path) == SubSeq(path, Len(folder) + 1, Len(path))

\* go-gitignore, for patterns without a slash: any segment may match.
MatchesPath(patterns, path) == \E i \in DOMAIN path : path[i] \in patterns

\* The entry stays, though this one is the archive's ignore file.
KeptBy(ignore, e) ==
  /\ e.path # ignore.path
  /\ ~MatchesPath(ignore.patterns, Below(Front(ignore.path), e.path))

\* An ignore file that cannot be read refuses the archive.
applyIgnoreFile(entries) ==
  LET found == findIgnoreFile(entries)
  IN IF found = 0 THEN entries
     ELSE IF ~entries[found].readable THEN <<>>
     ELSE Restrict(entries, { i \in DOMAIN entries : KeptBy(entries[found], entries[i]) })

-----------------------------------------------------------------------------
(* objectKeys                                                              *)

\* The wrapper folder is looked for among the entries that are left; two
\* entries of one key refuse the archive.
objectKeys(entries) ==
  LET wrapper == singleTopLevelFolder(entries)
      keys    == [i \in DOMAIN entries |-> Below(wrapper, entries[i].path)]
  IN IF \E i, j \in DOMAIN keys : i # j /\ keys[i] = keys[j] THEN <<>> ELSE keys

archiveKeys(zip) == objectKeys(applyIgnoreFile(validatedEntries(zip)))

=============================================================================
