----------------------------- MODULE AliasCache -----------------------------
(***************************************************************************)
(* Serving one file of one package through the Redis resolution cache:     *)
(* ContentService.GetFile with its lookup, resolution and fill, and the    *)
(* invalidation at the end of DeletePackage, while versions are published, *)
(* rolled back and deleted.                                                *)
(*                                                                         *)
(* The cache maps a requested version text to the version text whose path  *)
(* is served.  The bucket is abstracted to three states per version:       *)
(* "absent" (no object under the folder), "partial" (some objects, not the *)
(* file) and "full" (the file is there).  PackageStore has the details of  *)
(* how uploads and removals move a folder between them.                    *)
(***************************************************************************)
EXTENDS VersionResolution

CONSTANTS
  Versions,       \* full versions that may be published
  Requested,      \* version texts that are asked for
  Readers,        \* GET /gimme/pkg@version/file handlers
  Deletes,        \* DELETE /packages/pkg@version requests
  MaxPublished,   \* bound: uploads
  MaxErrors       \* bound: broken listings, failed removals and Redis calls

ASSUME AliasAssumption ==
  /\ \A v \in Versions : v \in Seq(Nat) /\ isFullSemver(v)
  /\ \A r \in Requested : r \in Seq(Nat) /\ Len(r) \in {0, 1, 2, 5}
  /\ MaxPublished \in Nat /\ MaxErrors \in Nat

VARIABLES
  stored,    \* state of each version's folder in the bucket
  cache,     \* Redis: requested text |-> text of the cached path
  reader,    \* each GET handler: where it is, what was asked, the path it serves
  del,       \* each DELETE: where it is, its version, the prefixes left to drop
  uploading, \* the versions an upload is storing
  published, \* how many uploads have started
  errors,    \* how many listings, removals and Redis calls have failed
  excused    \* history: keys whose entry may point at a version that is gone

vars == <<stored, cache, reader, del, uploading, published, errors, excused>>

Idle == [pc |-> "idle"]

Init ==
  /\ stored    = [v \in Versions |-> "absent"]
  /\ cache     = <<>>
  /\ reader    = [g \in Readers |-> Idle]
  /\ del       = [d \in Deletes |-> Idle]
  /\ uploading = {}
  /\ published = 0
  /\ errors    = 0
  /\ excused   = {}

Keys == DOMAIN cache

Drop(keys) == cache' = [r \in Keys \ keys |-> cache[r]]

Excuse(keys) == excused' = (excused \union keys) \intersect DOMAIN cache'

Error == errors < MaxErrors /\ errors' = errors + 1

State(t) == IF t \in Versions THEN stored[t] ELSE "absent"

Listed == { v \in Versions : stored[v] # "absent" }

PointingAt(v) == { r \in Keys : cache[r] = v }

-----------------------------------------------------------------------------
(* Publishing, as PackageStore has it.  CreatePackage never touches the    *)
(* cache, and neither does rollbackPartialUpload.                          *)

\* ObjectExists finds nothing and the first object is stored.
StartUpload(v) ==
  /\ stored[v] = "absent"
  /\ v \notin uploading
  /\ published < MaxPublished
  /\ published' = published + 1
  /\ uploading' = uploading \union {v}
  /\ stored' = [stored EXCEPT ![v] = "partial"]
  /\ UNCHANGED <<cache, reader, del, errors, excused>>

\* The file is stored too.
FinishUpload(v) ==
  /\ v \in uploading
  /\ uploading' = uploading \ {v}
  /\ stored' = [stored EXCEPT ![v] = "full"]
  /\ UNCHANGED <<cache, reader, del, published, errors, excused>>

RollBackUpload(v) ==
  /\ v \in uploading
  /\ uploading' = uploading \ {v}
  /\ stored' = [stored EXCEPT ![v] = "absent"]
  /\ cache' = cache
  /\ Excuse(PointingAt(v))
  /\ UNCHANGED <<reader, del, published, errors>>

\* The rollback fails or the process is killed: what is stored stays.
AbandonUpload(v) ==
  /\ v \in uploading
  /\ uploading' = uploading \ {v}
  /\ UNCHANGED <<stored, cache, reader, del, published, errors, excused>>

-----------------------------------------------------------------------------
(* GetFile                                                                 *)

At(g, pc) == reader[g].pc = pc

Goto(g, pc) == reader' = [reader EXCEPT ![g].pc = pc]

\* A pinned version is its own path and bypasses the cache; anything else is
\* looked up.
Request(g) ==
  /\ At(g, "idle")
  /\ \E r \in Requested :
       reader' = [reader EXCEPT ![g] =
                    [pc |-> IF IsPinnedVersion(r) THEN "serve" ELSE "lookup",
                     asked |-> r, path |-> r]]
  /\ UNCHANGED <<stored, cache, del, uploading, published, errors, excused>>

CacheHit(g) ==
  /\ At(g, "lookup")
  /\ reader[g].asked \in Keys
  /\ reader' = [reader EXCEPT ![g] =
                  [@ EXCEPT !.pc = "serve", !.path = cache[reader[g].asked]]]
  /\ UNCHANGED <<stored, cache, del, uploading, published, errors, excused>>

\* A failing Get counts as a miss.
CacheMiss(g) ==
  /\ At(g, "lookup")
  /\ IF reader[g].asked \in Keys THEN Error ELSE UNCHANGED errors
  /\ Goto(g, "resolve")
  /\ UNCHANGED <<stored, cache, del, uploading, published, excused>>

ResolveIn(g, listed) ==
  reader' = [reader EXCEPT ![g] =
               [@ EXCEPT !.pc = "fill",
                         !.path = resolveVersion(listed, reader[g].asked)]]

Resolve(g) ==
  /\ At(g, "resolve")
  /\ ResolveIn(g, Listed)
  /\ UNCHANGED <<stored, cache, del, uploading, published, errors, excused>>

\* The listing breaks off.  ListCommonPrefixes skips the error: the versions it
\* did return are taken for all there are.
ResolveBroken(g) ==
  /\ At(g, "resolve")
  /\ Error
  /\ \E listed \in SUBSET Listed : listed # Listed /\ ResolveIn(g, listed)
  /\ UNCHANGED <<stored, cache, del, uploading, published, excused>>

\* The path is stored under the text asked for, whether or not it exists:
\* GetObject is lazy and reports nothing.
Fill(g) ==
  /\ At(g, "fill")
  /\ Goto(g, "serve")
  /\ cache' = [r \in Keys \union {reader[g].asked} |->
                 IF r = reader[g].asked THEN reader[g].path ELSE cache[r]]
  /\ LET fresh == excused \ {reader[g].asked}
     IN excused' = IF State(reader[g].path) = "absent"
                   THEN fresh \union {reader[g].asked} ELSE fresh
  /\ UNCHANGED <<stored, del, uploading, published, errors>>

\* A failing Set is logged.
FillFails(g) ==
  /\ At(g, "fill")
  /\ Error
  /\ Goto(g, "serve")
  /\ UNCHANGED <<stored, cache, del, uploading, published, excused>>

\* getPackage stats the object of the path: 200, or 404 when it is not there.
Serve(g) ==
  /\ At(g, "serve")
  /\ reader' = [reader EXCEPT ![g] = Idle]
  /\ UNCHANGED <<stored, cache, del, uploading, published, errors, excused>>

\* Mutant of Expire: entries are set without a TTL.
ExpireNever(r) ==
  /\ r \in Keys \intersect {}
  /\ UNCHANGED vars

\* The TTL of an entry runs out.
Expire(r) ==
  /\ r \in Keys
  /\ Drop({r})
  /\ Excuse({})
  /\ UNCHANGED <<stored, reader, del, uploading, published, errors>>

-----------------------------------------------------------------------------
(* DeletePackage                                                           *)

BeginDelete(d) ==
  /\ del[d].pc = "idle"
  /\ \E v \in Versions :
       del' = [del EXCEPT ![d] = [pc |-> "remove", version |-> v, prefixes |-> <<>>]]
  /\ UNCHANGED <<stored, cache, reader, uploading, published, errors, excused>>

\* RemoveObjects gets to the file.
RemoveFile(d) ==
  /\ del[d].pc = "remove"
  /\ stored[del[d].version] = "full"
  /\ stored' = [stored EXCEPT ![del[d].version] = "partial"]
  /\ UNCHANGED <<cache, reader, del, uploading, published, errors, excused>>

\* The exact version, then its mutable aliases.
InvalidatedPrefixes(v) == <<v>> \o mutableAliasPrefixes(v)

\* Mutant of RemoveDone: the invalidation leaves the aliases out.
RemoveDoneExactOnly(d) ==
  /\ del[d].pc = "remove"
  /\ stored[del[d].version] # "full"
  /\ stored' = [stored EXCEPT ![del[d].version] = "absent"]
  /\ del' = [del EXCEPT ![d] =
               [@ EXCEPT !.pc = "invalidate", !.prefixes = <<del[d].version>>]]
  /\ UNCHANGED <<cache, reader, uploading, published, errors, excused>>

\* It has removed everything: the version's own prefix is invalidated, then
\* the prefixes of its aliases.
RemoveDone(d) ==
  /\ del[d].pc = "remove"
  /\ stored[del[d].version] # "full"
  /\ stored' = [stored EXCEPT ![del[d].version] = "absent"]
  /\ del' = [del EXCEPT ![d] =
               [@ EXCEPT !.pc = "invalidate",
                         !.prefixes = InvalidatedPrefixes(del[d].version)]]
  /\ UNCHANGED <<cache, reader, uploading, published, errors, excused>>

\* It collected an error, whatever it has removed by then: DeletePackage
\* returns 500, and the cache is left alone.
RemoveFails(d) ==
  /\ del[d].pc = "remove"
  /\ Error
  /\ del' = [del EXCEPT ![d].pc = "failed"]
  /\ cache' = cache
  /\ \/ UNCHANGED <<stored, excused>>
     \/ /\ stored' = [stored EXCEPT ![del[d].version] = "absent"]
        /\ Excuse(PointingAt(del[d].version))
  /\ UNCHANGED <<reader, uploading, published>>

Covered(prefix) == { r \in Keys : TextPrefixOf(prefix, r) }

Invalidating(d) == del[d].pc = "invalidate" /\ del[d].prefixes # <<>>

NextPrefix(d) == del' = [del EXCEPT ![d].prefixes = Tail(@)]

\* DeleteByPrefix scans for the keys and deletes them.
DeleteByPrefix(d) ==
  /\ Invalidating(d)
  /\ Drop(Covered(Head(del[d].prefixes)))
  /\ Excuse({})
  /\ NextPrefix(d)
  /\ UNCHANGED <<stored, reader, uploading, published, errors>>

\* It fails part way; the failure is logged and the next prefix is tried.
DeleteByPrefixFails(d) ==
  /\ Invalidating(d)
  /\ Error
  /\ \E keys \in SUBSET Covered(Head(del[d].prefixes)) : Drop(keys)
  /\ Excuse(Covered(Head(del[d].prefixes)) \intersect PointingAt(del[d].version))
  /\ NextPrefix(d)
  /\ UNCHANGED <<stored, reader, uploading, published>>

DeleteDone(d) ==
  /\ del[d].pc = "invalidate" /\ del[d].prefixes = <<>>
  /\ del' = [del EXCEPT ![d].pc = "done"]
  /\ UNCHANGED <<stored, cache, reader, uploading, published, errors, excused>>

-----------------------------------------------------------------------------
ReaderStep(g) ==
  \/ CacheHit(g) \/ CacheMiss(g) \/ Resolve(g) \/ ResolveBroken(g)
  \/ Fill(g) \/ FillFails(g) \/ Serve(g)

DeleteStep(d) ==
  \/ RemoveFile(d) \/ RemoveDone(d) \/ RemoveFails(d)
  \/ DeleteByPrefix(d) \/ DeleteByPrefixFails(d) \/ DeleteDone(d)

Next ==
  \/ \E v \in Versions :
       \/ StartUpload(v) \/ FinishUpload(v)
       \/ RollBackUpload(v) \/ AbandonUpload(v)
  \/ \E g \in Readers : Request(g) \/ ReaderStep(g)
  \/ \E d \in Deletes : BeginDelete(d) \/ DeleteStep(d)
  \/ \E r \in Requested : Expire(r)

\* Handlers run on, and Redis drops an entry when its TTL is over.
Fairness ==
  /\ \A g \in Readers : WF_vars(ReaderStep(g))
  /\ \A d \in Deletes : WF_vars(DeleteStep(d))
  /\ \A r \in Requested : WF_vars(Expire(r))

Spec == Init /\ [][Next]_vars

FairSpec == Spec /\ Fairness

-----------------------------------------------------------------------------
(* Properties                                                              *)

\* The order of the stable versions, independent of semver.Sort.
NotAbove(v, w) ==
  \/ v[1] < w[1]
  \/ v[1] = w[1] /\ v[2] < w[2]
  \/ v[1] = w[1] /\ v[2] = w[2] /\ v[3] <= w[3]

\* The stable versions an alias stands for: the same leading numbers.
Line(r) ==
  { v \in Listed : Prerelease(v) = 0 /\ \A i \in 1..Len(r) : v[i] = r[i] }

\* A reader resolves what was asked, and its listing comes back whole.
ResolvesWhole(g) == At(g, "resolve") /\ reader'[g].pc = "fill" /\ errors' = errors

\* path is the highest of the line, and the first of it on the package's page.
StandsFor(line, path) ==
  /\ path \in line /\ \A v \in line : NotAbove(v, path)
  /\ LET page == ListVersions(Listed)
     IN \E n \in DOMAIN page : page[n] = path /\ \A m \in 1..(n - 1) : page[m] \notin line

\* An alias whose listing came back whole resolves to the highest stable
\* version of its line, never to a pre-release and never to another line's,
\* and to nothing exactly when the line is empty.  It is the first of its line on
\* the package's page too (ListVersions), which lists pre-releases as well.
AliasIsHighestStable ==
  [][\A g \in Readers :
       ResolvesWhole(g) /\ ~isFullSemver(reader[g].asked) =>
         IF Line(reader[g].asked) = {} THEN reader'[g].path = reader[g].asked
         ELSE StandsFor(Line(reader[g].asked), reader'[g].path)]_vars

\* DELETE reaches every entry that can point at its version: whatever text an
\* entry is stored under, one of the prefixes dropped for the version is a
\* prefix of it.
InvalidationCovers ==
  \A r \in Keys :
    cache[r] \in Versions =>
      \E p \in Range(InvalidatedPrefixes(cache[r])) : TextPrefixOf(p, r)

Deleting(v) ==
  \E d \in Deletes : del[d].pc \in {"remove", "invalidate"} /\ del[d].version = v

\* An entry that points at a version which is gone, and which no DELETE is
\* working on, has one of four causes: a GET resolved the version before it
\* went and stored the entry after, an upload was rolled back, Redis failed
\* during the invalidation, or RemoveObjects reported an error.
StaleOnlyIfExcused ==
  \A r \in Keys :
    cache[r] \in Versions /\ stored[cache[r]] = "absent" /\ ~Deleting(cache[r])
      => r \in excused

\* The cache recovers from all four, and from uploads it is not told about:
\* once an alias keeps resolving to one version, its entry is that version's
\* or is missing, for good.
CacheConverges ==
  \A r \in { t \in Requested : ~IsPinnedVersion(t) } :
    \A v \in Versions :
      <>[](resolveVersion(Listed, r) = v) => <>[](r \in Keys => cache[r] = v)

=============================================================================
