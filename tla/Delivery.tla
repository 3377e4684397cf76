------------------------------ MODULE Delivery ------------------------------
(***************************************************************************)
(* Delivering one compressible file of one package to clients behind an    *)
(* HTTP cache: the negotiation of an encoding, the search for a stored     *)
(* variant, conditional requests and what the cache keeps, while versions  *)
(* of the package are published, rolled back and deleted.                  *)
(*                                                                         *)
(* An object is the upload that wrote it and the second it was written in. *)
(* Its ETag is the upload and the coding: other bytes, another ETag.  An   *)
(* Accept-Encoding header is a sequence of <<token, quality>>, the quality *)
(* in tenths, or Malformed.  The highest version with an object is what    *)
(* the alias stands for; AliasCache has the resolution and its cache.      *)
(***************************************************************************)
EXTENDS Integers, Sequences, FiniteSets

CONSTANTS
  Versions,     \* numbers, ordered as the versions are
  Scenes,       \* which URL is asked for, with which Accept-Encoding headers,
                \* which versions are published and in which codings
  MaxUploads,   \* bound: uploads
  MaxTime,      \* bound: seconds
  MaxErrors     \* bound: failed calls to the object store

Alias == 0                                  \* pkg@1 or pkg@latest
Codings == {"br", "gzip", "identity"}       \* "identity": the object itself
Malformed == -1
NoObject == [upload |-> 0, modified |-> 0]

\* A quality that is not between 0 and 1 is malformed.
ASSUME DeliveryAssumption ==
  /\ Versions \subseteq Nat \ {0} /\ Versions # {} /\ IsFiniteSet(Versions)
  /\ \A s \in Scenes :
       /\ s.url \in Versions \union {Alias}
       /\ s.versions \subseteq Versions /\ s.codings \subseteq Codings
       /\ \A h \in s.headers : \A i \in DOMAIN h : h[i][2] \in 0..10 \union {Malformed}
  /\ MaxUploads \in Nat /\ MaxTime \in Nat /\ MaxErrors \in Nat

VARIABLES
  object,   \* the bucket: the file of each version in each coding
  source,   \* the upload that is at work on a version, 0 if none is
  uploads,  \* how many uploads there were; the last one's number
  now,      \* the clock, in seconds
  scene,    \* the scene, chosen at the start
  request,  \* the request that the cache has sent to the server
  copies,   \* the HTTP cache: header |-> response stored for the URL
  errors    \* how many calls to the object store have failed

store == <<object, source, uploads>>
vars == <<store, now, scene, request, copies, errors>>

\* The cache waits for no answer; the last one was a 304, 404 or 406, or (0) had
\* a body, whole or not.
Idle(status) == [pc |-> "idle", status |-> status]

Init ==
  /\ object   = [o \in Versions \X Codings |-> NoObject]
  /\ source   = [v \in Versions |-> 0]
  /\ uploads  = 0
  /\ now      = 0
  /\ scene    \in Scenes
  /\ request  = Idle(0)
  /\ copies   = <<>>
  /\ errors   = 0

Error == errors < MaxErrors /\ errors' = errors + 1

Stored(v, e) == object[<<v, e>>] # NoObject

\* A version that is being uploaded may have other files in its folder already.
Listed == { v \in Versions : source[v] # 0 \/ \E e \in Codings : Stored(v, e) }

\* History: what a request goes through changed while it was served.
Disturb(v) ==
  request' = IF request.pc = "open" /\ request.version = v
             THEN [request EXCEPT !.calm = FALSE] ELSE request

-----------------------------------------------------------------------------
(* Publishing, as PackageStore has it.                                     *)

StartUpload(v) ==
  /\ v \notin Listed
  /\ uploads < MaxUploads
  /\ uploads' = uploads + 1
  /\ source' = [source EXCEPT ![v] = uploads + 1]
  /\ UNCHANGED <<object, now, scene, request, copies, errors>>

\* The file and its variants are stored in any order: an archive may carry
\* the variants itself.
Put(v, e) ==
  /\ source[v] # 0 /\ ~Stored(v, e)
  /\ object' = [object EXCEPT ![<<v, e>>] =
                  [upload |-> source[v], modified |-> now + 1]]
  /\ Disturb(v)
  /\ UNCHANGED <<source, uploads, now, scene, copies, errors>>

FinishUpload(v) ==
  /\ source[v] # 0 /\ Stored(v, "identity")
  /\ source' = [source EXCEPT ![v] = 0]
  /\ UNCHANGED <<object, uploads, now, scene, request, copies, errors>>

\* rollbackPartialUpload or DeletePackage removes the folder, here in one step:
\* what a reader may meet in between, an upload shows as well.
Remove(v) ==
  /\ v \in Listed
  /\ object' = [o \in Versions \X Codings |-> IF o[1] = v THEN NoObject ELSE object[o]]
  /\ source' = [source EXCEPT ![v] = 0]
  /\ Disturb(v)
  /\ UNCHANGED <<uploads, now, scene, copies, errors>>

Tick ==
  /\ now < MaxTime
  /\ now' = now + 1
  /\ UNCHANGED <<store, scene, request, copies, errors>>

-----------------------------------------------------------------------------
(* Negotiation                                                             *)

Valid(h) == { i \in DOMAIN h : h[i][2] # Malformed }

Qualities(h, token) == { h[i][2] : i \in { j \in Valid(h) : h[j][1] = token } }

Highest(S) == CHOOSE n \in S : \A m \in S : m <= n

\* resolve: the highest quality the token is listed with, the wildcard's when
\* it is not listed, Malformed when neither is.
Quality(h, token) ==
  LET wildcard == Qualities(h, "*") named == Qualities(h, token)
  IN IF named # {} THEN Highest(named)
     ELSE IF wildcard # {} THEN Highest(wildcard) ELSE Malformed

Wanted(h, e) == IF Quality(h, e) > 0 THEN <<e>> ELSE <<>>

\* Mutant of parseAcceptEncoding: br always comes first.
parseAcceptEncodingUnsorted(h) ==
  [encodings |-> Wanted(h, "br") \o Wanted(h, "gzip"),
   identity  |-> Quality(h, "identity") # 0]

\* The stored encodings the client accepts, the preferred one first and br
\* first among equals, and whether it accepts the object as it is.
parseAcceptEncoding(h) ==
  [encodings |-> IF Quality(h, "gzip") > Quality(h, "br")
                 THEN Wanted(h, "gzip") \o Wanted(h, "br")
                 ELSE Wanted(h, "br") \o Wanted(h, "gzip"),
   identity  |-> Quality(h, "identity") # 0]

-----------------------------------------------------------------------------
(* Conditional requests                                                    *)

\* Mutant of ETag: one ETag for all codings of a file.
ETagOfFile(o, e) == <<o.upload, "identity">>

\* The ETag of the object that is served, the variant's own.
ETag(o, e) == <<o.upload, e>>

\* Mutant of notModified: the date is looked at too when no ETag matches.
notModifiedEither(cond, tag, modified) ==
  \/ tag \in cond.tags
  \/ cond.since # 0 /\ modified <= cond.since

\* If-None-Match decides when it is there, and only then is the date ignored.
notModified(cond, tag, modified) ==
  IF cond.tags # {} THEN tag \in cond.tags
  ELSE cond.since # 0 /\ modified <= cond.since

\* Mutant of cacheControlHeader: every version is immutable.
cacheControlHeaderAlways(url) == "immutable"

cacheControlHeader(url) ==
  IF url \in Versions THEN "immutable" ELSE "max-age=300"

-----------------------------------------------------------------------------
(* The HTTP cache and its clients.                                         *)

Keys == DOMAIN copies

Keep(copy) ==
  copies' = [h \in Keys \union {request.header} |->
               IF h = request.header THEN copy ELSE copies[h]]

Unconditional == [tags |-> {}, since |-> 0]

\* What the cache may send: nothing, the ETags of all responses it stored for
\* the URL with the date of its own, or from a simple client the date alone.
Conditions(h) ==
  LET since == IF h \in Keys THEN copies[h].modified ELSE 0
  IN { Unconditional,
       [tags |-> { copies[k].etag : k \in Keys }, since |-> since],
       [tags |-> {}, since |-> since] }

\* The version getPackage serves from: the one asked for, or the one the alias
\* resolves to; Alias when no version is there.
Target ==
  IF scene.url # Alias THEN scene.url
  ELSE IF Listed = {} THEN Alias ELSE Highest(Listed)

\* A client wants the URL anew, or the cache has no fresh copy: the request goes
\* to the server, which negotiates and resolves.  A fresh copy is used without a
\* request, for clients with the header it was stored for.
Ask(h) ==
  /\ request.pc = "idle"
  /\ \E cond \in Conditions(h) :
       request' = [pc |-> "open", header |-> h, cond |-> cond,
                   version |-> Target, calm |-> TRUE,
                   tries |-> parseAcceptEncoding(h).encodings]
  /\ UNCHANGED <<store, now, scene, copies, errors>>

\* Five minutes are over.  An immutable copy is not asked for again.
Expire(h) ==
  /\ h \in Keys /\ copies[h].fresh /\ copies[h].kept # "immutable"
  /\ copies' = [copies EXCEPT ![h].fresh = FALSE]
  /\ UNCHANGED <<store, now, scene, request, errors>>

-----------------------------------------------------------------------------
(* getEncodedObject and getPackage                                         *)

Opening == request.pc = "open"
Found(e) == request.version # Alias /\ Stored(request.version, e)

\* The encoding tried next, the object itself after the last one.
Trying == IF request.tries = <<>> THEN "identity" ELSE Head(request.tries)

Admitted(e) == e # "identity" \/ parseAcceptEncoding(request.header).identity

Response(o, e) ==
  [etag |-> ETag(o, e), modified |-> o.modified, body |-> <<o.upload, e>>,
   kept |-> cacheControlHeader(scene.url), fresh |-> TRUE]

\* A 304 makes the cache use the stored response with the answer's ETag, if it
\* asked by ETag; a client that sent the date alone keeps what it has.
Confirmed(tag) ==
  LET named == { h \in Keys : copies[h].etag = tag }
  IN IF tag \in request.cond.tags THEN copies[CHOOSE h \in named : TRUE]
     ELSE copies[request.header]

\* Stat succeeded on the object that is served: 406, 304 with the headers, or the
\* body is still to be read.
Open ==
  /\ Opening /\ Found(Trying)
  /\ LET o == object[<<request.version, Trying>>]
         tag == ETag(o, Trying)
     IN \/ /\ ~Admitted(Trying)
           /\ request' = Idle(406)
           /\ UNCHANGED copies
        \/ /\ Admitted(Trying)
           /\ notModified(request.cond, tag, o.modified)
           /\ Keep([Confirmed(tag) EXCEPT !.fresh = TRUE])
           /\ request' = Idle(304)
        \/ /\ Admitted(Trying)
           /\ ~notModified(request.cond, tag, o.modified)
           /\ request' = [pc |-> "read", object |-> o, coding |-> Trying,
                          header |-> request.header, version |-> request.version]
           /\ UNCHANGED copies
  /\ UNCHANGED <<store, now, scene, errors>>

\* There is no object for the encoding, or its Stat fails: the next one is tried.
SkipVariant ==
  /\ Opening /\ request.tries # <<>>
  /\ IF Found(Trying) THEN Error ELSE UNCHANGED errors
  /\ request' = [request EXCEPT !.tries = Tail(@), !.calm = @ /\ errors' = errors]
  /\ UNCHANGED <<store, now, scene, copies>>

\* There is no file, or its Stat fails: 404, not to be stored.
NotFound ==
  /\ Opening /\ request.tries = <<>>
  /\ IF Found("identity") THEN Error ELSE UNCHANGED errors
  /\ request' = Idle(404)
  /\ UNCHANGED <<store, now, scene, copies>>

Reading == request.pc = "read"
Present == object[<<request.version, request.coding>>]

\* The body is read from the object that Stat described: minio asks for it with
\* the ETag.  The cache stores the answer for its Accept-Encoding.
ReadBody ==
  /\ Reading /\ Present = request.object
  /\ Keep(Response(request.object, request.coding))
  /\ request' = Idle(0)
  /\ UNCHANGED <<store, now, scene, errors>>

\* The object has gone or was replaced, or the store fails: the answer breaks
\* off short of its Content-Length, and nobody stores it.
ReadBreaksOff ==
  /\ Reading
  /\ IF Present = request.object THEN Error ELSE UNCHANGED errors
  /\ request' = Idle(0)
  /\ UNCHANGED <<store, now, scene, copies>>

-----------------------------------------------------------------------------
ServeStep == Open \/ SkipVariant \/ NotFound \/ ReadBody \/ ReadBreaksOff

Next ==
  \/ \E v \in scene.versions :
       \/ StartUpload(v) \/ FinishUpload(v) \/ Remove(v)
       \/ \E e \in scene.codings : Put(v, e)
  \/ Tick
  \/ \E h \in scene.headers : Ask(h) \/ Expire(h)
  \/ ServeStep

\* Handlers run on, time passes for the copies.
Fairness ==
  /\ WF_vars(ServeStep)
  /\ \A h \in UNION { s.headers : s \in Scenes } : WF_vars(Expire(h))

Spec == Init /\ [][Next]_vars

FairSpec == Spec /\ Fairness

-----------------------------------------------------------------------------
(* Properties                                                              *)

\* RFC 9110's rule, stated over the entries of the header and not over what
\* parseAcceptEncoding computes from them.
Accepts(h, e) ==
  LET entries(token) == { i \in Valid(h) : h[i][1] = token }
      asked == IF entries(e) # {} THEN entries(e) ELSE entries("*")
  IN IF asked = {} THEN e = "identity" ELSE \E i \in asked : h[i][2] > 0

\* What a cache holds for the clients with one Accept-Encoding is in a coding
\* that they admit, whether the server sent it to them or a 304 made the cache
\* pick one of its copies for them (getPackage's ETag and Vary).
NoRefusedCoding ==
  \A h \in Keys : Accepts(h, copies[h].body[2])

\* A 304 confirms the bytes of the file that is served now, whatever was removed
\* and published again since.  It may be wrong only for a client that sent no
\* ETag: when it asked for the alias, which may have gone back to a version with
\* an earlier date, or when the two files were stored in the same second.
NotModifiedIsTrue ==
  [][Opening /\ request' = Idle(304) =>
       LET served == object[<<request.version, Trying>>]
           copy == copies'[request.header]
       IN \/ copy.body[1] = served.upload
          \/ /\ request.cond.tags = {}
             /\ scene.url = Alias \/ copy.modified = served.modified]_vars

\* The qualities that count for a coding.
Wishes(h, e) ==
  IF Qualities(h, e) # {} THEN Qualities(h, e) ELSE Qualities(h, "*")

\* What a header ought to get of a file that is stored in some codings: one of
\* the best liked variants, else the file as it is, else a refusal.
Expected(h, there) ==
  LET variants == { e \in there \ {"identity"} : Accepts(h, e) }
      Best(d) == \A e \in variants :
                   Highest(Wishes(h, e)) <= Highest(Wishes(h, d))
  IN IF variants # {} THEN { e \in variants : Best(e) }
     ELSE IF "identity" \notin there THEN {"404"}
     ELSE IF Accepts(h, "identity") THEN {"identity"} ELSE {"406"}

\* A request during which the file's objects did not change and no call failed
\* is answered as the header asks: with the best liked variant, with the file as
\* it is when no stored variant is admitted, with 406 only when that is refused
\* too, and with 404 only when there is no file (getEncodedObject's loop).
NegotiationIsRight ==
  [][(/\ Opening /\ request'.pc # "open"
      /\ request.calm /\ errors' = errors) =>
        LET there == { e \in Codings : Found(e) }
            given == IF request' = Idle(404) THEN "404"
                     ELSE IF request' = Idle(406) THEN "406" ELSE Trying
        IN given \in Expected(request.header, there)]_vars

\* The upload whose file the alias gives when nothing is under way, else 0.
Current ==
  IF Listed # {} /\ source[Highest(Listed)] = 0
  THEN object[<<Highest(Listed), "identity">>].upload ELSE 0

Dated == Opening /\ request.cond.tags = {} /\ request.cond.since # 0

\* Copies of an alias catch up: once the alias stays with one upload, and as
\* long as copies are confirmed by their ETags, no copy of another upload stays
\* fresh (cacheControlHeader gives an alias five minutes, notModified goes by
\* the ETags).
AliasCopiesConverge ==
  \A u \in 1..MaxUploads :
    <>[](scene.url = Alias /\ Current = u /\ ~Dated) =>
      <>[](\A h \in Keys : copies[h].fresh => copies[h].body[1] = u)

=============================================================================
