--------------------------- MODULE DeliveryProofs ---------------------------
(***************************************************************************)
(* What Delivery promises for any versions, scenes, headers, uploads and   *)
(* failures: nobody is given a coding that they refuse, a 304 confirms the *)
(* bytes that are served, and an undisturbed request is answered as its    *)
(* header asks.                                                            *)
(***************************************************************************)
EXTENDS Delivery, FiniteSetTheorems, SequenceTheorems, TLAPS

(* Qualities                                                               *)

\* A finite set of numbers that is not empty has a highest one.
LEMMA HighestExists ==
  ASSUME NEW S, IsFiniteSet(S), S \subseteq Int, S # {}
  PROVE  Highest(S) \in S /\ \A m \in S : m <= Highest(S)
<1> DEFINE Has(T) == \E n \in T : \A m \in T : m <= n
           Bad == { T \in SUBSET S : T # {} /\ ~Has(T) }
<1>1. Bad = {}
  <2> SUFFICES ASSUME Bad # {} PROVE FALSE
    OBVIOUS
  <2>1. Bad \subseteq FiniteSubsetsOf(S)
    BY FS_FiniteSubsetsOfFinite
  <2>2. PICK T \in Bad : \A U \in Bad : <<U, T>> \notin StrictSubsetOrdering(S)
    BY <2>1, FS_StrictSubsetOrderingWellFounded, WFMin
  <2>3. PICK x \in T : TRUE
    BY <2>2
  <2>4. T \ {x} \notin Bad
    <3>1. <<T \ {x}, T>> \in StrictSubsetOrdering(S)
      BY <2>2, <2>3 DEF StrictSubsetOrdering
    <3>. QED  BY <2>2, <3>1
  <2>5. CASE T \ {x} = {}
    BY <2>2, <2>3, <2>5
  <2>6. CASE T \ {x} # {}
    <3>1. PICK n \in T \ {x} : \A m \in T \ {x} : m <= n
      BY <2>2, <2>4, <2>6
    <3>2. x \in Int /\ n \in Int /\ T \subseteq Int
      BY <2>2, <2>3, <3>1
    <3>3. CASE x <= n
      BY <2>2, <3>1, <3>3
    <3>4. CASE n <= x
      BY <2>2, <2>3, <3>1, <3>2, <3>4
    <3>. QED  BY <3>2, <3>3, <3>4
  <2>. QED  BY <2>5, <2>6
<1>2. Has(S)
  BY <1>1
<1>. QED  BY <1>2 DEF Highest

\* A header as the code reads it.
Header(h) == \A i \in DOMAIN h : h[i][2] \in 0..10 \union {Malformed}

\* The qualities that count are between 0 and 1, and Quality is the highest one.
LEMMA QualityIsHighestWish ==
  ASSUME NEW h, Header(h), NEW e
  PROVE  /\ Wishes(h, e) \subseteq 0..10
         /\ Wishes(h, e) = {} => Quality(h, e) = -1
         /\ Wishes(h, e) # {} =>
              /\ Quality(h, e) = Highest(Wishes(h, e))
              /\ Quality(h, e) \in Wishes(h, e)
              /\ \A q \in Wishes(h, e) : q <= Quality(h, e)
<1>1. ASSUME NEW token PROVE Qualities(h, token) \subseteq 0..10
  <2>1. \A i \in Valid(h) : h[i][2] \in 0..10
    BY DEF Valid, Header
  <2>. QED  BY <2>1, Zenon DEF Qualities
<1>2. Wishes(h, e) \subseteq 0..10
  BY <1>1 DEF Wishes
<1>3. IsFiniteSet(Wishes(h, e)) /\ Wishes(h, e) \subseteq Int
  <2>1. IsFiniteSet(0..10)
    <3>1. 0 \in Int /\ 10 \in Int
      OBVIOUS
    <3>. QED  BY <3>1, FS_Interval, Zenon
  <2>2. IsFiniteSet(Wishes(h, e))
    BY <1>2, <2>1, FS_Subset, Zenon
  <2>. QED  BY <1>2, <2>2
<1>4. Quality(h, e) = IF Wishes(h, e) = {} THEN -1 ELSE Highest(Wishes(h, e))
  BY DEF Quality, Wishes, Malformed
<1>. QED  BY <1>2, <1>3, <1>4, HighestExists

\* Quality decides as RFC 9110 does.
LEMMA QualityAccepts ==
  ASSUME NEW h, Header(h), NEW e \in Codings
  PROVE  /\ Quality(h, e) \in (-1)..10
         /\ e # "identity" => (Quality(h, e) > 0 <=> Accepts(h, e))
         /\ Quality(h, "identity") # 0 <=> Accepts(h, "identity")
<1> DEFINE Entries(token) == { i \in Valid(h) : h[i][1] = token }
           Asked(t) == IF Entries(t) # {} THEN Entries(t) ELSE Entries("*")
<1>1. \A token : Qualities(h, token) = { h[i][2] : i \in Entries(token) }
  BY DEF Qualities
<1>2. \A t : Wishes(h, t) = { h[i][2] : i \in Asked(t) }
  BY <1>1 DEF Wishes
<1>3. \A t : Accepts(h, t) =
        IF Asked(t) = {} THEN t = "identity" ELSE \E i \in Asked(t) : h[i][2] > 0
  BY DEF Accepts
<1> HIDE DEF Asked
<1>4. ASSUME NEW t
      PROVE  Accepts(h, t) <=>
               IF Wishes(h, t) = {} THEN t = "identity"
               ELSE \E q \in Wishes(h, t) : q > 0
  <2>1. Wishes(h, t) = {} <=> Asked(t) = {}
    BY <1>2
  <2>2. (\E q \in Wishes(h, t) : q > 0) <=> \E i \in Asked(t) : h[i][2] > 0
    BY <1>2
  <2>. QED  BY <1>3, <2>1, <2>2
<1>5. ASSUME NEW t
      PROVE  /\ Quality(h, t) \in (-1)..10
             /\ Wishes(h, t) # {} => Quality(h, t) >= 0
             /\ Wishes(h, t) # {} => (Quality(h, t) > 0 <=> \E q \in Wishes(h, t) : q > 0)
  <2> DEFINE W == Wishes(h, t)  Q == Quality(h, t)
  <2>1. W \subseteq 0..10 /\ (W = {} => Q = -1)
    BY QualityIsHighestWish
  <2>2. W # {} => Q \in W /\ \A q \in W : q <= Q
    BY QualityIsHighestWish
  <2> HIDE DEF W, Q
  <2>3. CASE W = {}
    BY <2>1, <2>3 DEF W, Q
  <2>4. CASE W # {}
    <3>1. Q \in 0..10 /\ Q \in W /\ \A q \in W : q \in 0..10 /\ q <= Q
      BY <2>1, <2>2, <2>4
    <3>2. Q > 0 <=> \E q \in W : q > 0
      BY <3>1
    <3>3. Q \in (-1)..10 /\ Q >= 0
      BY <3>1
    <3>. QED  BY <3>2, <3>3, <2>4, Zenon DEF W, Q
  <2>. QED  BY <2>3, <2>4
<1>6. ASSUME NEW t, Wishes(h, t) = {} PROVE Quality(h, t) = -1
  BY <1>6, QualityIsHighestWish
<1>7. e # "identity" => (Quality(h, e) > 0 <=> Accepts(h, e))
  <2>1. CASE Wishes(h, e) = {}
    BY <2>1, <1>4, <1>6
  <2>2. CASE Wishes(h, e) # {}
    BY <2>2, <1>4, <1>5
  <2>. QED  BY <2>1, <2>2
<1>8. Quality(h, "identity") # 0 <=> Accepts(h, "identity")
  <2>1. CASE Wishes(h, "identity") = {}
    BY <2>1, <1>4, <1>6
  <2>2. CASE Wishes(h, "identity") # {}
    BY <2>2, <1>4, <1>5
  <2>. QED  BY <2>1, <2>2
<1>. QED  BY <1>5, <1>7, <1>8

-----------------------------------------------------------------------------
(* The variants that are still to be tried                                 *)

Variants == {"br", "gzip"}

Tries == {<<>>, <<"br">>, <<"gzip">>, <<"br", "gzip">>, <<"gzip", "br">>}

Rest(t) == { e \in Variants : \E i \in DOMAIN t : t[i] = e }

\* What the loop of getEncodedObject does with the list.
LEMMA RestShrinks ==
  ASSUME NEW t \in Tries
  PROVE  /\ t = <<>> => Rest(t) = {}
         /\ t # <<>> =>
              /\ Head(t) \in Rest(t) /\ Head(t) \in Variants
              /\ Tail(t) \in Tries
              /\ Rest(t) = Rest(Tail(t)) \union {Head(t)}
              /\ Tail(t) # <<>> => Rest(Tail(t)) = {Head(Tail(t))}
<1>1. Rest(<<>>) = {}
  BY DEF Rest
<1>2. \A a \in Variants : Rest(<<a>>) = {a} /\ Head(<<a>>) = a /\ Tail(<<a>>) = <<>>
  BY DEF Rest
<1>3. \A a, b \in Variants :
        /\ Rest(<<a, b>>) = {a, b}
        /\ Head(<<a, b>>) = a /\ Tail(<<a, b>>) = <<b>>
  BY DEF Rest
<1>4. <<"br">> # <<>> /\ <<"gzip">> # <<>>
  OBVIOUS
<1>5. CASE t = <<>>
  BY <1>1, <1>5
<1>6. CASE t \in {<<"br">>, <<"gzip">>}
  BY <1>1, <1>2, <1>4, <1>6 DEF Variants, Tries
<1>7. CASE t = <<"br", "gzip">>
  BY <1>2, <1>3, <1>4, <1>7 DEF Variants, Tries
<1>8. CASE t = <<"gzip", "br">>
  BY <1>2, <1>3, <1>4, <1>8 DEF Variants, Tries
<1>. QED  BY <1>5, <1>6, <1>7, <1>8 DEF Tries

\* The list of two variants, as parseAcceptEncoding appends one to the other.
LEMMA PairOfVariants ==
  ASSUME NEW a \in Variants, NEW b \in Variants
  PROVE  <<a>> \o <<b>> = <<a, b>>
<1>1. <<a>> \in Seq(Variants) /\ <<b>> \in Seq(Variants) /\ <<a, b>> \in Seq(Variants)
  OBVIOUS
<1>2. Len(<<a>>) = 1 /\ Len(<<b>>) = 1 /\ Len(<<a, b>>) = 2
  OBVIOUS
<1>3. /\ <<a>> \o <<b>> \in Seq(Variants)
      /\ Len(<<a>> \o <<b>>) = 2
      /\ \A i \in 1..2 : (<<a>> \o <<b>>)[i] = IF i <= 1 THEN <<a>>[i] ELSE <<b>>[i - 1]
  BY <1>1, <1>2, ConcatProperties
<1>4. \A i \in 1..2 : (<<a>> \o <<b>>)[i] = <<a, b>>[i]
  BY <1>3
<1>. QED  BY <1>1, <1>2, <1>3, <1>4, SeqEqual

\* parseAcceptEncoding lists the variants that the client accepts, the best
\* liked one first.
LEMMA EncodingsAreSorted ==
  ASSUME NEW h, Header(h)
  PROVE  LET t == parseAcceptEncoding(h).encodings
         IN /\ t \in Tries
            /\ Rest(t) = { e \in Variants : Quality(h, e) > 0 }
            /\ t # <<>> => \A e \in Rest(t) : Quality(h, e) <= Quality(h, Head(t))
<1> DEFINE t == parseAcceptEncoding(h).encodings
           b == Quality(h, "br")
           g == Quality(h, "gzip")
<1>1. b \in Int /\ g \in Int
  BY QualityAccepts DEF Codings
<1>2. t = IF g > b
          THEN (IF g > 0 THEN <<"gzip">> ELSE <<>>) \o (IF b > 0 THEN <<"br">> ELSE <<>>)
          ELSE (IF b > 0 THEN <<"br">> ELSE <<>>) \o (IF g > 0 THEN <<"gzip">> ELSE <<>>)
  BY DEF parseAcceptEncoding, Wanted
<1>3. Rest(<<>>) = {} /\ Rest(<<"br">>) = {"br"} /\ Rest(<<"gzip">>) = {"gzip"}
  BY DEF Rest, Variants
<1>4. Rest(<<"br", "gzip">>) = Variants /\ Rest(<<"gzip", "br">>) = Variants
  BY DEF Rest, Variants
<1>5. { e \in Variants : Quality(h, e) > 0 } =
        (IF b > 0 THEN {"br"} ELSE {}) \union (IF g > 0 THEN {"gzip"} ELSE {})
  BY DEF Variants
<1> HIDE DEF t, b, g
<1>6. CASE b > 0 /\ g > 0
  <2>1. CASE g > b
    <3>1. t = <<"gzip", "br">>
      BY <1>2, <1>6, <2>1, PairOfVariants DEF Variants
    <3>. QED  BY <1>1, <1>4, <1>5, <1>6, <2>1, <3>1 DEF Tries, Variants, t, b, g
  <2>2. CASE ~(g > b)
    <3>1. t = <<"br", "gzip">>
      BY <1>2, <1>6, <2>2, PairOfVariants DEF Variants
    <3>. QED  BY <1>1, <1>4, <1>5, <1>6, <2>2, <3>1 DEF Tries, Variants, t, b, g
  <2>. QED  BY <2>1, <2>2
<1>7. CASE b > 0 /\ ~(g > 0)
  <2>1. t = <<"br">>
    BY <1>1, <1>2, <1>7
  <2>. QED  BY <1>1, <1>3, <1>5, <1>7, <2>1 DEF Tries, Variants, t, b, g
<1>8. CASE ~(b > 0) /\ g > 0
  <2>1. t = <<"gzip">>
    BY <1>1, <1>2, <1>8
  <2>. QED  BY <1>1, <1>3, <1>5, <1>8, <2>1 DEF Tries, Variants, t, b, g
<1>9. CASE ~(b > 0) /\ ~(g > 0)
  <2>1. t = <<>>
    BY <1>1, <1>2, <1>9
  <2>. QED  BY <1>1, <1>3, <1>5, <1>9, <2>1 DEF Tries, Variants, t, b, g
<1>. QED  BY <1>6, <1>7, <1>8, <1>9

-----------------------------------------------------------------------------
(* Types                                                                   *)

Objects == [upload : Nat, modified : Nat]
Tags == Nat \X Codings
Copies == [etag : Tags, modified : Nat, body : Tags,
           kept : {"immutable", "max-age=300"}, fresh : BOOLEAN]

IdleRequests == [pc : {"idle"}, status : {0, 304, 404, 406}]
OpenRequests(headers) ==
  [pc : {"open"}, header : headers, cond : [tags : SUBSET Tags, since : Nat],
   version : Versions \union {Alias}, calm : BOOLEAN, tries : Tries]
ReadRequests(headers) ==
  [pc : {"read"}, object : Objects, coding : Codings, header : headers,
   version : Versions]

StoreType ==
  /\ object \in [Versions \X Codings -> Objects]
  /\ source \in [Versions -> Nat]
  /\ uploads \in Nat /\ now \in Nat /\ errors \in Nat
  /\ scene \in Scenes

CopyType ==
  /\ Keys \subseteq scene.headers
  /\ copies \in [Keys -> Copies]

RequestType ==
  \/ request \in IdleRequests
  \/ request \in OpenRequests(scene.headers)
  \/ request \in ReadRequests(scene.headers)

TypeInv == StoreType /\ CopyType /\ RequestType

\* What the scene may bring in.
LEMMA SceneFacts ==
  ASSUME scene \in Scenes
  PROVE  /\ scene.url \in Versions \union {Alias}
         /\ scene.versions \subseteq Versions /\ scene.codings \subseteq Codings
         /\ \A h \in scene.headers : Header(h)
BY DeliveryAssumption DEF Header

\* The alias stands for a version that is there.
LEMMA TargetIsThere ==
  ASSUME scene \in Scenes
  PROVE  /\ Target \in Versions \union {Alias}
         /\ scene.url # Alias => Target = scene.url
<1>1. Listed \subseteq Versions
  BY DEF Listed
<1>2. IsFiniteSet(Listed) /\ Listed \subseteq Int
  <2>1. IsFiniteSet(Versions) /\ Versions \subseteq Nat
    BY DeliveryAssumption
  <2>2. IsFiniteSet(Listed)
    BY <1>1, <2>1, FS_Subset, Zenon
  <2>. QED  BY <1>1, <2>1, <2>2
<1>3. Listed # {} => Highest(Listed) \in Versions
  BY <1>1, <1>2, HighestExists
<1>. QED  BY <1>3, SceneFacts DEF Target

\* What the pc of a request says about it.
LEMMA RequestKinds ==
  ASSUME RequestType
  PROVE  /\ request.pc = "idle" => request \in IdleRequests
         /\ Opening => request \in OpenRequests(scene.headers)
         /\ Reading => request \in ReadRequests(scene.headers)
BY DEF RequestType, IdleRequests, OpenRequests, ReadRequests, Opening, Reading

\* A change of the file spoils the calm of a request and nothing else.
LEMMA DisturbKeeps ==
  ASSUME RequestType, NEW v, Disturb(v)
  PROVE  /\ request'.pc = request.pc
         /\ ~Opening => request' = request
         /\ Opening =>
              /\ request' \in OpenRequests(scene.headers)
              /\ request'.header = request.header /\ request'.cond = request.cond
              /\ request'.version = request.version /\ request'.tries = request.tries
              /\ request'.calm => request.calm /\ request.version # v
<1>1. CASE Opening /\ request.version = v
  <2>1. request \in OpenRequests(scene.headers)
    BY <1>1, RequestKinds
  <2>2. request' = [request EXCEPT !.calm = FALSE]
    BY <1>1 DEF Disturb, Opening
  <2>. QED  BY <1>1, <2>1, <2>2 DEF OpenRequests, Opening
<1>2. CASE ~(Opening /\ request.version = v)
  <2>1. request' = request
    BY <1>2 DEF Disturb, Opening
  <2>. QED  BY <1>2, <2>1, RequestKinds
<1>. QED  BY <1>1, <1>2

\* The actions, one by one.
Publishing ==
  \E v \in scene.versions :
    \/ StartUpload(v) \/ FinishUpload(v) \/ Remove(v)
    \/ \E e \in scene.codings : Put(v, e)

Calling == \E h \in scene.headers : Ask(h) \/ Expire(h)

\* A step is one of these.
LEMMA NextCases ==
  ASSUME [Next]_vars
  PROVE  \/ Publishing \/ Tick \/ Calling
         \/ Open \/ SkipVariant \/ NotFound \/ ReadBody \/ ReadBreaksOff
         \/ UNCHANGED vars
BY DEF Next, Publishing, Calling, ServeStep

\* What each kind of step leaves alone.
LEMMA StoreTypeStep ==
  ASSUME TypeInv, [Next]_vars
  PROVE  StoreType' /\ scene' = scene
<1> USE DEF TypeInv
<1>1. CASE Publishing
  <2>1. PICK v \in Versions : \/ StartUpload(v) \/ FinishUpload(v) \/ Remove(v)
                              \/ \E e \in Codings : Put(v, e)
    BY <1>1, SceneFacts DEF Publishing, StoreType
  <2>2. CASE StartUpload(v)
    BY <2>2 DEF StartUpload, StoreType
  <2>3. CASE FinishUpload(v)
    BY <2>3 DEF FinishUpload, StoreType
  <2>4. CASE Remove(v)
    BY <2>4 DEF Remove, StoreType, Objects, NoObject
  <2>5. ASSUME NEW e \in Codings, Put(v, e) PROVE StoreType' /\ scene' = scene
    <3>1. [upload |-> source[v], modified |-> now + 1] \in Objects
      BY DEF StoreType, Objects
    <3>. QED  BY <2>5, <3>1 DEF Put, StoreType
  <2>. QED  BY <2>1, <2>2, <2>3, <2>4, <2>5
<1>2. CASE Tick
  BY <1>2 DEF Tick, StoreType, store
<1>3. CASE Calling
  BY <1>3 DEF Calling, Ask, Expire, StoreType, store
<1>4. CASE Open \/ ReadBody
  BY <1>4 DEF Open, ReadBody, StoreType, store
<1>5. CASE SkipVariant \/ NotFound \/ ReadBreaksOff
  BY <1>5 DEF SkipVariant, NotFound, ReadBreaksOff, Error, StoreType, store
<1>6. CASE UNCHANGED vars
  BY <1>6 DEF vars, store, StoreType
<1>. QED  BY <1>1, <1>2, <1>3, <1>4, <1>5, <1>6, NextCases

\* The object that Stat found.
LEMMA ServedObject ==
  ASSUME TypeInv, Opening
  PROVE  /\ Trying \in Codings
         /\ request.tries # <<>> => Trying \in Variants
         /\ request.tries = <<>> => Trying = "identity"
         /\ request.header \in scene.headers /\ Header(request.header)
         /\ Found(Trying) =>
              /\ request.version \in Versions
              /\ object[<<request.version, Trying>>] \in Objects
<1>1. request \in OpenRequests(scene.headers)
  BY RequestKinds DEF TypeInv
<1>2. request.tries \in Tries /\ request.version \in Versions \union {Alias}
      /\ request.header \in scene.headers
  BY <1>1 DEF OpenRequests
<1>3. /\ request.tries # <<>> => Trying \in Variants
      /\ request.tries = <<>> => Trying = "identity"
  BY <1>2, RestShrinks DEF Trying
<1>4. Trying \in Codings
  BY <1>3 DEF Variants, Codings
<1>5. Found(Trying) => request.version \in Versions
  BY <1>2 DEF Found
<1>6. Header(request.header)
  BY <1>2, SceneFacts DEF TypeInv, StoreType
<1>. QED  BY <1>2, <1>3, <1>4, <1>5, <1>6 DEF TypeInv, StoreType

\* Storing an answer.
LEMMA KeepCopy ==
  ASSUME CopyType, NEW c \in Copies, Keep(c), request.header \in scene.headers,
         scene' = scene
  PROVE  /\ CopyType'
         /\ Keys' = Keys \union {request.header}
         /\ copies'[request.header] = c
         /\ \A h \in Keys \ {request.header} : copies'[h] = copies[h]
BY DEF CopyType, Keep, Keys

\* The copy that a 304 makes the cache use: one with the ETag of the object that
\* is served, or the client's own when it sent the date alone.
LEMMA ConfirmedCopy ==
  ASSUME CopyType, NEW tag,
         request.cond.tags \subseteq { copies[k].etag : k \in Keys },
         request.cond.since # 0 => request.header \in Keys,
         NEW modified, notModified(request.cond, tag, modified)
  PROVE  /\ Confirmed(tag) \in Copies
         /\ \/ /\ tag \in request.cond.tags
               /\ \E k \in Keys : Confirmed(tag) = copies[k]
               /\ Confirmed(tag).etag = tag
            \/ /\ request.cond.tags = {} /\ request.cond.since # 0
               /\ modified <= request.cond.since
               /\ request.header \in Keys
               /\ Confirmed(tag) = copies[request.header]
<1>1. CASE tag \in request.cond.tags
  <2> DEFINE named == { h \in Keys : copies[h].etag = tag }
  <2>1. named # {}
    BY <1>1
  <2>2. (CHOOSE h \in named : TRUE) \in named
    BY <2>1
  <2>3. Confirmed(tag) = copies[CHOOSE h \in named : TRUE]
    BY <1>1 DEF Confirmed
  <2>. QED  BY <1>1, <2>2, <2>3 DEF CopyType
<1>2. CASE tag \notin request.cond.tags
  <2>1. request.cond.tags = {} /\ request.cond.since # 0 /\ modified <= request.cond.since
    BY <1>2 DEF notModified
  <2>. QED  BY <1>2, <2>1 DEF Confirmed, CopyType
<1>. QED  BY <1>1, <1>2

\* A request names only what the cache holds, until it is answered, and a pinned
\* URL is served from its own version.
AskInv ==
  /\ Opening =>
       /\ request.cond.tags \subseteq { copies[k].etag : k \in Keys }
       /\ request.cond.since # 0 =>
            /\ request.header \in Keys
            /\ request.cond.since = copies[request.header].modified
  /\ (Opening \/ Reading) /\ scene.url # Alias => request.version = scene.url

\* The copies are untouched, or lose their freshness.
SameCopies ==
  /\ Keys' = Keys
  /\ \A h \in Keys : /\ copies'[h].etag = copies[h].etag
                     /\ copies'[h].body = copies[h].body
                     /\ copies'[h].modified = copies[h].modified

\* A copy that expires keeps all but its freshness.
LEMMA Expires ==
  ASSUME CopyType, NEW h \in Keys, copies' = [copies EXCEPT ![h].fresh = FALSE],
         scene' = scene
  PROVE  CopyType' /\ SameCopies
<1>1. [copies[h] EXCEPT !.fresh = FALSE] \in Copies
  BY DEF CopyType, Copies
<1>2. Keys' = Keys /\ copies' \in [Keys -> Copies]
  BY <1>1 DEF CopyType, Keys
<1>3. \A k \in Keys : copies'[k] = IF k = h THEN [copies[h] EXCEPT !.fresh = FALSE]
                                             ELSE copies[k]
  BY DEF CopyType, Keys
<1>4. copies[h] \in Copies
  BY DEF CopyType
<1>. QED  BY <1>2, <1>3, <1>4 DEF CopyType, SameCopies, Copies

\* Types and what a request names are kept by every step.
LEMMA TypeStep ==
  ASSUME TypeInv, AskInv, [Next]_vars
  PROVE  TypeInv' /\ AskInv'
<1>1. StoreType' /\ scene' = scene
  BY StoreTypeStep
<1>2. ASSUME UNCHANGED copies,
             \/ UNCHANGED request
             \/ \E v : Disturb(v)
      PROVE  TypeInv' /\ AskInv'
  <2>1. CopyType' /\ Keys' = Keys
    BY <1>1, <1>2 DEF CopyType, Keys, TypeInv
  <2>2. CASE UNCHANGED request
    BY <1>1, <1>2, <2>1, <2>2 DEF TypeInv, RequestType, AskInv, Opening, Reading
  <2>3. ASSUME NEW v, Disturb(v) PROVE TypeInv' /\ AskInv'
    <3>1. CASE Opening
      <4>1. /\ request' \in OpenRequests(scene.headers)
            /\ request'.pc = "open"
            /\ request'.header = request.header /\ request'.cond = request.cond
            /\ request'.version = request.version
        BY <2>3, <3>1, DisturbKeeps DEF TypeInv, Opening
      <4>. QED  BY <1>1, <1>2, <2>1, <3>1, <4>1
                DEF TypeInv, RequestType, AskInv, Opening, Reading
    <3>2. CASE ~Opening
      <4>1. request' = request
        BY <2>3, <3>2, DisturbKeeps DEF TypeInv
      <4>. QED  BY <2>2, <4>1
    <3>. QED  BY <3>1, <3>2
  <2>. QED  BY <1>2, <2>2, <2>3
<1>3. ASSUME CopyType', request' \in IdleRequests
      PROVE  TypeInv' /\ AskInv'
  BY <1>1, <1>3 DEF TypeInv, RequestType, AskInv, Opening, Reading, IdleRequests
<1>4. \A n \in {0, 304, 404, 406} : Idle(n) \in IdleRequests
  BY DEF Idle, IdleRequests
<1>5. UNCHANGED copies => CopyType'
  BY <1>1 DEF CopyType, Keys, TypeInv
<1>6. CASE Publishing
  <2>1. UNCHANGED copies /\ (UNCHANGED request \/ \E v : Disturb(v))
    BY <1>6 DEF Publishing, StartUpload, FinishUpload, Remove, Put
  <2>. QED  BY <1>2, <2>1
<1>7. CASE Tick
  BY <1>2, <1>7 DEF Tick
<1>8. CASE Calling
  <2>1. PICK h \in scene.headers : Ask(h) \/ Expire(h)
    BY <1>8 DEF Calling
  <2>2. CASE Ask(h)
    <3>1. PICK cond \in Conditions(h) :
            request' = [pc |-> "open", header |-> h, cond |-> cond,
                        version |-> Target, calm |-> TRUE,
                        tries |-> parseAcceptEncoding(h).encodings]
      BY <2>2 DEF Ask
    <3>2. /\ cond \in [tags : SUBSET Tags, since : Nat]
          /\ cond.tags \subseteq { copies[k].etag : k \in Keys }
          /\ cond.since # 0 => h \in Keys /\ cond.since = copies[h].modified
      <4>1. \A k \in Keys : copies[k].etag \in Tags /\ copies[k].modified \in Nat
        BY DEF TypeInv, CopyType, Copies
      <4>2. { copies[k].etag : k \in Keys } \subseteq Tags
        BY <4>1
      <4>. QED  BY <3>1, <4>1, <4>2 DEF Conditions, Unconditional
    <3>3. /\ Target \in Versions \union {Alias}
          /\ scene.url # Alias => Target = scene.url
      BY TargetIsThere DEF TypeInv, StoreType
    <3>4. Header(h)
      BY SceneFacts DEF TypeInv, StoreType
    <3>5. parseAcceptEncoding(h).encodings \in Tries
      BY <3>4, EncodingsAreSorted
    <3>6. request' \in OpenRequests(scene.headers)
      BY <3>1, <3>2, <3>3, <3>5 DEF OpenRequests
    <3>7. UNCHANGED copies
      BY <2>2 DEF Ask
    <3>. QED  BY <1>1, <1>5, <3>1, <3>2, <3>3, <3>6, <3>7
              DEF TypeInv, RequestType, AskInv, Opening, Reading, Keys
  <2>3. CASE Expire(h)
    <3>1. h \in Keys /\ copies' = [copies EXCEPT ![h].fresh = FALSE] /\ UNCHANGED request
      BY <2>3 DEF Expire
    <3>2. CopyType' /\ SameCopies
      BY <1>1, <3>1, Expires DEF TypeInv
    <3>. QED  BY <1>1, <3>1, <3>2
              DEF TypeInv, RequestType, AskInv, Opening, Reading, SameCopies
  <2>. QED  BY <2>1, <2>2, <2>3
<1>9. CASE Open
  <2> DEFINE o == object[<<request.version, Trying>>]  tag == ETag(o, Trying)
  <2>1. Opening /\ Found(Trying)
    BY <1>9 DEF Open
  <2>2. /\ Trying \in Codings /\ request.version \in Versions /\ o \in Objects
        /\ request.header \in scene.headers
    BY <2>1, ServedObject
  <2> HIDE DEF o
  <2>3. \/ request' = Idle(406) /\ UNCHANGED copies
        \/ /\ request' = Idle(304)
           /\ notModified(request.cond, tag, o.modified)
           /\ Keep([Confirmed(tag) EXCEPT !.fresh = TRUE])
        \/ /\ request' = [pc |-> "read", object |-> o, coding |-> Trying,
                          header |-> request.header, version |-> request.version]
           /\ UNCHANGED copies
    BY <1>9 DEF Open, o
  <2>4. CASE request' = Idle(406) /\ UNCHANGED copies
    BY <1>3, <1>4, <1>5, <2>4
  <2>5. CASE /\ request' = Idle(304)
             /\ notModified(request.cond, tag, o.modified)
             /\ Keep([Confirmed(tag) EXCEPT !.fresh = TRUE])
    <3>1. Confirmed(tag) \in Copies
      BY <2>1, <2>5, ConfirmedCopy DEF AskInv, TypeInv
    <3>2. [Confirmed(tag) EXCEPT !.fresh = TRUE] \in Copies
      BY <3>1 DEF Copies
    <3>3. CopyType'
      BY <1>1, <2>2, <2>5, <3>2, KeepCopy DEF TypeInv
    <3>. QED  BY <1>3, <1>4, <2>5, <3>3
  <2>6. CASE /\ request' = [pc |-> "read", object |-> o, coding |-> Trying,
                            header |-> request.header, version |-> request.version]
             /\ UNCHANGED copies
    <3>1. request' \in ReadRequests(scene.headers)
      BY <2>2, <2>6 DEF ReadRequests
    <3>2. request'.pc = "read" /\ request'.version = request.version
      BY <2>6
    <3>. QED  BY <1>1, <1>5, <2>1, <2>6, <3>1, <3>2
              DEF TypeInv, RequestType, AskInv, Opening, Reading
  <2>. QED  BY <2>3, <2>4, <2>5, <2>6
<1>10. CASE SkipVariant
  <2>1. request \in OpenRequests(scene.headers) /\ request.tries # <<>> /\ Opening
    BY <1>10, RequestKinds DEF SkipVariant, TypeInv
  <2>2. Tail(request.tries) \in Tries
    BY <2>1, RestShrinks DEF OpenRequests
  <2>3. /\ request' = [request EXCEPT !.tries = Tail(@), !.calm = @ /\ errors' = errors]
        /\ UNCHANGED copies
    BY <1>10 DEF SkipVariant
  <2>4. request' \in OpenRequests(scene.headers) /\ request'.pc = "open"
        /\ request'.header = request.header /\ request'.cond = request.cond
        /\ request'.version = request.version
    BY <2>1, <2>2, <2>3 DEF OpenRequests
  <2>. QED  BY <1>1, <1>5, <2>1, <2>3, <2>4
            DEF TypeInv, RequestType, AskInv, Opening, Reading, Keys
<1>11. CASE NotFound
  BY <1>3, <1>4, <1>5, <1>11 DEF NotFound
<1>12. CASE ReadBody
  <2>1. request \in ReadRequests(scene.headers)
    BY <1>12, RequestKinds DEF ReadBody, TypeInv
  <2>2. Response(request.object, request.coding) \in Copies
    BY <2>1 DEF Response, ETag, cacheControlHeader, Copies, Tags, ReadRequests, Objects
  <2>3. Keep(Response(request.object, request.coding)) /\ request' = Idle(0)
    BY <1>12 DEF ReadBody
  <2>4. request.header \in scene.headers
    BY <2>1 DEF ReadRequests
  <2>5. CopyType'
    BY <1>1, <2>2, <2>3, <2>4, KeepCopy DEF TypeInv
  <2>. QED  BY <1>3, <1>4, <2>3, <2>5
<1>13. CASE ReadBreaksOff
  BY <1>3, <1>4, <1>5, <1>13 DEF ReadBreaksOff
<1>14. CASE UNCHANGED vars
  BY <1>2, <1>14 DEF vars
<1>. QED  BY <1>6, <1>7, <1>8, <1>9, <1>10, <1>11, <1>12, <1>13, <1>14, NextCases

-----------------------------------------------------------------------------
(* The objects and the copies of them                                      *)

\* The objects of a version are of one upload, the one at work if there is one,
\* and were not stored in the future.
UploadInv ==
  \A v \in Versions : \A e \in Codings : Stored(v, e) =>
    /\ object[<<v, e>>].modified <= now + 1
    /\ source[v] # 0 => object[<<v, e>>].upload = source[v]
    /\ \A d \in Codings :
         Stored(v, d) => object[<<v, d>>].upload = object[<<v, e>>].upload

\* A date that was not in the future stays so.
LEMMA LaterDate ==
  ASSUME NEW m \in Nat, NEW t \in Nat, NEW u \in Nat, t <= u, m <= t + 1
  PROVE  m <= u + 1
OBVIOUS

\* Every step keeps the objects of a version together.
LEMMA UploadStep ==
  ASSUME TypeInv, UploadInv, [Next]_vars
  PROVE  UploadInv'
<1>0. SUFFICES ASSUME NEW x \in Versions, NEW c \in Codings,
                      object'[<<x, c>>] # NoObject
               PROVE  /\ object'[<<x, c>>].modified <= now' + 1
                      /\ source'[x] # 0 => object'[<<x, c>>].upload = source'[x]
                      /\ \A d \in Codings : object'[<<x, d>>] # NoObject =>
                           object'[<<x, d>>].upload = object'[<<x, c>>].upload
  BY DEF UploadInv, Stored
<1>1. /\ object \in [Versions \X Codings -> Objects] /\ source \in [Versions -> Nat]
      /\ now \in Nat
      /\ \A v \in Versions : \A e \in Codings : object[<<v, e>>].modified \in Nat
  BY DEF TypeInv, StoreType, Objects
<1> DEFINE Goal == /\ object'[<<x, c>>].modified <= now' + 1
                   /\ source'[x] # 0 => object'[<<x, c>>].upload = source'[x]
                   /\ \A d \in Codings : object'[<<x, d>>] # NoObject =>
                        object'[<<x, d>>].upload = object'[<<x, c>>].upload
<1>2. ASSUME object' = object, now' \in Nat, now <= now',
             \A v \in Versions : source'[v] \in {0, source[v]} \/ v \notin Listed
      PROVE  Goal
  <2>1. \A v \in Versions \ Listed : \A e \in Codings : ~Stored(v, e)
    BY DEF Listed
  <2>2. \A m \in Nat : m <= now + 1 => m <= now' + 1
    <3>1. now \in Nat /\ now' \in Nat /\ now <= now'
      BY <1>1, <1>2
    <3>. QED  BY <3>1, LaterDate
  <2>3. \A v \in Versions, e \in Codings : object'[<<v, e>>] # NoObject <=> Stored(v, e)
    BY <1>2 DEF Stored
  <2>4. \A v \in Versions, e \in Codings :
          Stored(v, e) /\ source'[v] # 0 => source'[v] = source[v]
    BY <1>2, <2>1
  <2>. QED  BY <1>1, <1>2, <2>2, <2>3, <2>4, <1>0 DEF UploadInv, Stored
<1>3. CASE Publishing
  <2>1. PICK v \in Versions : \/ StartUpload(v) \/ FinishUpload(v) \/ Remove(v)
                              \/ \E e \in Codings : Put(v, e)
    BY <1>3, SceneFacts DEF Publishing, TypeInv, StoreType
  <2>2. CASE StartUpload(v)
    BY <1>1, <1>2, <2>2 DEF StartUpload
  <2>3. CASE FinishUpload(v)
    BY <1>1, <1>2, <2>3 DEF FinishUpload
  <2>4. CASE Remove(v)
    <3>1. /\ \A w \in Versions : \A e \in Codings :
               object'[<<w, e>>] = IF w = v THEN NoObject ELSE object[<<w, e>>]
          /\ \A w \in Versions : source'[w] = IF w = v THEN 0 ELSE source[w]
          /\ now' = now
      BY <1>1, <2>4 DEF Remove
    <3>2. \A w \in Versions, e \in Codings : object'[<<w, e>>] # NoObject => w # v /\ Stored(w, e)
      BY <3>1 DEF Stored
    <3>3. \A w \in Versions, e \in Codings : object'[<<w, e>>] # NoObject =>
            /\ object'[<<w, e>>] = object[<<w, e>>]
            /\ source'[w] = source[w]
      BY <3>1, <3>2
    <3>. QED  BY <1>0, <3>1, <3>2, <3>3 DEF UploadInv, Stored
  <2>5. ASSUME NEW e \in Codings, Put(v, e) PROVE Goal
    <3> DEFINE new == [upload |-> source[v], modified |-> now + 1]
    <3>1. /\ \A w \in Versions : \A d \in Codings :
               object'[<<w, d>>] = IF w = v /\ d = e THEN new ELSE object[<<w, d>>]
          /\ source' = source /\ now' = now /\ source[v] # 0
      BY <1>1, <2>5 DEF Put
    <3>2. new.upload = source[v] /\ new.modified = now + 1
      OBVIOUS
    <3> HIDE DEF new
    <3>3. \A w \in Versions, d \in Codings :
            object'[<<w, d>>] # NoObject => (w = v /\ d = e) \/ Stored(w, d)
      BY <3>1 DEF Stored
    <3>4. \A d \in Codings : object'[<<v, d>>] # NoObject => object'[<<v, d>>].upload = source[v]
      BY <3>1, <3>2, <3>3 DEF UploadInv, Stored
    <3>5. \A w \in Versions, d \in Codings : object'[<<w, d>>] # NoObject => object'[<<w, d>>].modified <= now + 1
      <4>1. new.modified <= now + 1
        BY <1>1, <3>2
      <4>. QED  BY <3>1, <3>3, <4>1 DEF UploadInv, Stored
    <3>6. \A w \in Versions \ {v}, d \in Codings :
            object'[<<w, d>>] = object[<<w, d>>] /\ (object'[<<w, d>>] # NoObject <=> Stored(w, d))
      BY <3>1 DEF Stored
    <3>. QED  BY <1>0, <3>1, <3>4, <3>5, <3>6 DEF UploadInv, Stored
  <2>. QED  BY <2>1, <2>2, <2>3, <2>4, <2>5
<1>4. CASE Tick
  BY <1>1, <1>2, <1>4 DEF Tick, store
<1>5. CASE Calling
  BY <1>1, <1>2, <1>5 DEF Calling, Ask, Expire, store
<1>6. CASE Open \/ SkipVariant \/ NotFound \/ ReadBody \/ ReadBreaksOff
  <2>1. UNCHANGED <<store, now>>
    BY <1>6 DEF Open, SkipVariant, NotFound, ReadBody, ReadBreaksOff
  <2>. QED  BY <1>1, <1>2, <2>1 DEF store
<1>7. CASE UNCHANGED vars
  BY <1>1, <1>2, <1>7 DEF vars, store
<1>. QED  BY <1>3, <1>4, <1>5, <1>6, <1>7, NextCases

\* A copy that the cache holds for a header.
CopyOk(h) ==
  /\ copies[h].etag = copies[h].body
  /\ Accepts(h, copies[h].body[2])
  /\ copies[h].modified <= now + 1

\* The file of a pinned URL is of the copy's upload or not older than the copy.
PinnedOk(h) ==
  scene.url # Alias =>
    \A e \in Codings : Stored(scene.url, e) =>
      \/ object[<<scene.url, e>>].upload = copies[h].body[1]
      \/ copies[h].modified <= object[<<scene.url, e>>].modified

CopyInv == \A h \in Keys : CopyOk(h) /\ PinnedOk(h)

\* The variants still to be tried are accepted, the best liked one is next, and
\* in a calm request the ones that were passed over are not there.
TryInv ==
  Opening =>
    LET h == request.header
        t == request.tries
    IN /\ \A e \in Rest(t) : Quality(h, e) > 0
       /\ t # <<>> => \A e \in Rest(t) : Quality(h, e) <= Quality(h, Head(t))
       /\ request.calm =>
            \A e \in Variants \ Rest(t) : Quality(h, e) > 0 => ~Found(e)

\* An answer is being read in a coding that the client accepts.
ReadInv ==
  Reading => Accepts(request.header, request.coding) /\ request.object # NoObject

Inv == TypeInv /\ AskInv /\ UploadInv /\ CopyInv /\ TryInv /\ ReadInv

\* What is served is in a coding that the client accepts.
LEMMA AdmittedIsAccepted ==
  ASSUME TypeInv, TryInv, Opening, Admitted(Trying)
  PROVE  Accepts(request.header, Trying)
<1>1. request \in OpenRequests(scene.headers) /\ Header(request.header)
  BY RequestKinds, ServedObject DEF TypeInv
<1>2. CASE request.tries = <<>>
  <2>1. Trying = "identity" /\ Quality(request.header, "identity") # 0
    BY <1>2 DEF Trying, Admitted, parseAcceptEncoding
  <2>. QED  BY <1>1, <2>1, QualityAccepts DEF Codings
<1>3. CASE request.tries # <<>>
  <2>1. Trying \in Rest(request.tries) /\ Trying \in Variants
    BY <1>1, <1>3, RestShrinks DEF Trying, OpenRequests
  <2>2. Quality(request.header, Trying) > 0
    BY <2>1 DEF TryInv
  <2>3. Trying \in Codings /\ Trying # "identity"
    BY <2>1 DEF Variants, Codings
  <2>. QED  BY <1>1, <2>2, <2>3, QualityAccepts
<1>. QED  BY <1>2, <1>3

\* Every step keeps what is known of the variants that were passed over.
LEMMA TryStep ==
  ASSUME TypeInv, AskInv, TryInv, [Next]_vars
  PROVE  TryInv'
<1>1. TypeInv' /\ scene' = scene
  BY TypeStep, StoreTypeStep
<1>2. ASSUME UNCHANGED <<request, object>> PROVE TryInv'
  BY <1>2 DEF TryInv, Opening, Found, Stored
<1>3. ASSUME request'.pc # "open" PROVE TryInv'
  BY <1>3 DEF TryInv, Opening
<1>4. ASSUME NEW v \in Versions, Disturb(v),
             \A w \in Versions \ {v} : \A e \in Codings : object'[<<w, e>>] = object[<<w, e>>]
      PROVE  TryInv'
  <2>1. CASE Opening
    <3>1. /\ request'.header = request.header /\ request'.tries = request.tries
          /\ request'.version = request.version
          /\ request'.calm => request.calm /\ request.version # v
      BY <1>4, <2>1, DisturbKeeps DEF TypeInv
    <3>2. request.version \in Versions \union {Alias}
      BY <2>1, RequestKinds DEF TypeInv, OpenRequests
    <3>3. request'.calm => \A e \in Variants : Found(e)' => Found(e)
      BY <1>4, <3>1, <3>2 DEF Found, Stored, Variants, Codings
    <3>. QED  BY <2>1, <3>1, <3>3 DEF TryInv
  <2>2. CASE ~Opening
    BY <1>4, <2>2, DisturbKeeps DEF TypeInv, TryInv, Opening
  <2>. QED  BY <2>1, <2>2
<1>5. CASE Publishing
  <2>1. PICK v \in Versions : \/ StartUpload(v) \/ FinishUpload(v) \/ Remove(v)
                              \/ \E e \in Codings : Put(v, e)
    BY <1>5, SceneFacts DEF Publishing, TypeInv, StoreType
  <2>2. CASE StartUpload(v) \/ FinishUpload(v)
    BY <1>2, <2>2 DEF StartUpload, FinishUpload
  <2>3. CASE Remove(v)
    BY <1>4, <2>3 DEF Remove, TypeInv, StoreType
  <2>4. ASSUME NEW e \in Codings, Put(v, e) PROVE TryInv'
    BY <1>4, <2>4 DEF Put, TypeInv, StoreType
  <2>. QED  BY <2>1, <2>2, <2>3, <2>4
<1>6. CASE Tick
  BY <1>2, <1>6 DEF Tick, store
<1>7. CASE Calling
  <2>1. PICK h \in scene.headers : Ask(h) \/ Expire(h)
    BY <1>7 DEF Calling
  <2>2. CASE Ask(h)
    <3>1. /\ request'.header = h /\ request'.calm = TRUE
          /\ request'.tries = parseAcceptEncoding(h).encodings
      BY <2>2 DEF Ask
    <3>2. Header(h)
      BY SceneFacts DEF TypeInv, StoreType
    <3>3. /\ Rest(request'.tries) = { e \in Variants : Quality(h, e) > 0 }
          /\ request'.tries # <<>> =>
               \A e \in Rest(request'.tries) : Quality(h, e) <= Quality(h, Head(request'.tries))
      BY <3>1, <3>2, EncodingsAreSorted
    <3>. QED  BY <3>1, <3>3 DEF TryInv
  <2>3. CASE Expire(h)
    BY <1>2, <2>3 DEF Expire, store
  <2>. QED  BY <2>1, <2>2, <2>3
<1>8. CASE Open
  BY <1>3, <1>8 DEF Open, Idle
<1>9. CASE SkipVariant
  <2> DEFINE h == request.header  t == request.tries
  <2>1. request \in OpenRequests(scene.headers) /\ t # <<>> /\ Opening
    BY <1>9, RequestKinds DEF SkipVariant, TypeInv
  <2>2. /\ Rest(t) = Rest(Tail(t)) \union {Head(t)}
        /\ Tail(t) # <<>> => Rest(Tail(t)) = {Head(Tail(t))}
    BY <2>1, RestShrinks DEF OpenRequests
  <2>3. /\ request' = [request EXCEPT !.tries = Tail(@), !.calm = @ /\ errors' = errors]
        /\ UNCHANGED object
        /\ IF Found(Trying) THEN Error ELSE UNCHANGED errors
    BY <1>9 DEF SkipVariant, store
  <2>4. /\ request'.header = h /\ request'.version = request.version
        /\ request'.tries = Tail(t)
        /\ request'.calm => request.calm /\ errors' = errors
    BY <2>1, <2>3 DEF OpenRequests
  <2>5. errors' = errors => ~Found(Trying)
    BY <2>3 DEF Error, TypeInv, StoreType
  <2>6. Trying = Head(t)
    BY <2>1 DEF Trying
  <2>7. \A e : Found(e)' <=> Found(e)
    BY <2>3, <2>4 DEF Found, Stored
  <2>8. \A e \in Rest(t) : Quality(h, e) \in Int
    BY <2>1, ServedObject, QualityAccepts DEF Rest, Variants, Codings
  <2> HIDE DEF h, t
  <2>9. /\ \A e \in Rest(Tail(t)) : Quality(h, e) > 0
        /\ Tail(t) # <<>> => \A e \in Rest(Tail(t)) : Quality(h, e) <= Quality(h, Head(Tail(t)))
    BY <2>1, <2>2, <2>8 DEF TryInv, h, t
  <2>10. request'.calm => \A e \in Variants \ Rest(Tail(t)) : Quality(h, e) > 0 => ~Found(e)
    <3>1. SUFFICES ASSUME request'.calm, NEW e \in Variants \ Rest(Tail(t)),
                          Quality(h, e) > 0
                   PROVE  ~Found(e)
      OBVIOUS
    <3>2. CASE e = Head(t)
      BY <2>4, <2>5, <2>6, <3>1, <3>2
    <3>3. CASE e # Head(t)
      BY <2>1, <2>2, <2>4, <3>1, <3>3 DEF TryInv, h, t
    <3>. QED  BY <3>2, <3>3
  <2>. QED  BY <2>4, <2>7, <2>9, <2>10 DEF TryInv
<1>10. CASE NotFound \/ ReadBody \/ ReadBreaksOff
  BY <1>3, <1>10 DEF NotFound, ReadBody, ReadBreaksOff, Idle
<1>11. CASE UNCHANGED vars
  BY <1>2, <1>11 DEF vars, store
<1>. QED  BY <1>5, <1>6, <1>7, <1>8, <1>9, <1>10, <1>11, NextCases

\* The body is being read in a coding that the client accepts.
LEMMA ReadStep ==
  ASSUME TypeInv, TryInv, ReadInv, [Next]_vars
  PROVE  ReadInv'
<1>1. ASSUME UNCHANGED request PROVE ReadInv'
  BY <1>1 DEF ReadInv, Reading
<1>2. ASSUME request'.pc # "read" PROVE ReadInv'
  BY <1>2 DEF ReadInv, Reading
<1>3. ASSUME NEW v, Disturb(v) PROVE ReadInv'
  BY <1>1, <1>2, <1>3, DisturbKeeps DEF TypeInv, Opening
<1>4. CASE Publishing
  BY <1>1, <1>3, <1>4 DEF Publishing, StartUpload, FinishUpload, Remove, Put
<1>5. CASE Tick
  BY <1>1, <1>5 DEF Tick
<1>6. CASE Calling
  BY <1>1, <1>2, <1>6 DEF Calling, Ask, Expire
<1>7. CASE Open
  <2>1. Opening /\ Found(Trying)
    BY <1>7 DEF Open
  <2>2. \/ request'.pc # "read"
        \/ /\ Admitted(Trying)
           /\ request'.header = request.header /\ request'.coding = Trying
           /\ request'.object = object[<<request.version, Trying>>]
    BY <1>7 DEF Open, Idle
  <2>3. object[<<request.version, Trying>>] # NoObject
    BY <2>1 DEF Found, Stored
  <2>. QED  BY <1>2, <2>1, <2>2, <2>3, AdmittedIsAccepted DEF ReadInv
<1>8. CASE SkipVariant
  <2>1. request'.pc = "open"
    BY <1>8, RequestKinds DEF SkipVariant, Opening, OpenRequests, TypeInv
  <2>. QED  BY <1>2, <2>1
<1>9. CASE NotFound \/ ReadBody \/ ReadBreaksOff
  BY <1>2, <1>9 DEF NotFound, ReadBody, ReadBreaksOff, Idle
<1>10. CASE UNCHANGED vars
  BY <1>1, <1>10 DEF vars
<1>. QED  BY <1>4, <1>5, <1>6, <1>7, <1>8, <1>9, <1>10, NextCases

\* A copy is as good for another header that accepts its coding.
LEMMA CopyStep ==
  ASSUME Inv, [Next]_vars
  PROVE  CopyInv'
<1>1. TypeInv' /\ scene' = scene
  BY TypeStep, StoreTypeStep DEF Inv
<1>2. /\ now \in Nat /\ scene.url \in Versions \union {Alias}
      /\ \A v \in Versions : \A e \in Codings : object[<<v, e>>] \in Objects
      /\ object \in [Versions \X Codings -> Objects]
      /\ \A h \in Keys : copies[h] \in Copies /\ copies[h].modified \in Nat
      /\ source \in [Versions -> Nat]
  BY SceneFacts DEF Inv, TypeInv, StoreType, CopyType, Copies
<1>3. ASSUME SameCopies, UNCHANGED <<object, now>> PROVE CopyInv'
  BY <1>1, <1>3 DEF SameCopies, CopyInv, CopyOk, PinnedOk, Stored, Inv
<1>4. ASSUME UNCHANGED copies, now' \in Nat, now <= now',
             \A v \in Versions : \A e \in Codings :
               \/ object'[<<v, e>>] = object[<<v, e>>]
               \/ object'[<<v, e>>] = NoObject
               \/ object'[<<v, e>>].modified = now + 1
      PROVE  CopyInv'
  <2>1. SUFFICES ASSUME NEW h \in Keys PROVE CopyOk(h)' /\ PinnedOk(h)'
    BY <1>4 DEF CopyInv, Keys
  <2>2. CopyOk(h) /\ PinnedOk(h) /\ copies[h].modified \in Nat
    BY <1>2 DEF Inv, CopyInv
  <2>3. CopyOk(h)'
    BY <1>2, <1>4, <2>2, LaterDate DEF CopyOk
  <2>4. ASSUME scene.url # Alias, NEW e \in Codings, object'[<<scene.url, e>>] # NoObject
        PROVE  \/ object'[<<scene.url, e>>].upload = copies[h].body[1]
               \/ copies[h].modified <= object'[<<scene.url, e>>].modified
    <3>1. CASE object'[<<scene.url, e>>] = object[<<scene.url, e>>]
      BY <2>2, <2>4, <3>1 DEF PinnedOk, Stored
    <3>2. CASE object'[<<scene.url, e>>].modified = now + 1
      BY <2>2, <3>2 DEF CopyOk
    <3>. QED  BY <1>2, <1>4, <2>4, <3>1, <3>2
  <2>5. PinnedOk(h)'
    BY <1>1, <1>4, <2>4 DEF PinnedOk, Stored
  <2>. QED  BY <2>3, <2>5
<1>5. UNCHANGED copies => SameCopies
  BY DEF SameCopies, Keys
<1>6. ASSUME NEW c \in Copies, Keep(c), UNCHANGED <<object, now>>,
             request.header \in scene.headers,
             c.etag = c.body, Accepts(request.header, c.body[2]), c.modified <= now + 1,
             scene.url # Alias =>
               \A e \in Codings : Stored(scene.url, e) =>
                 \/ object[<<scene.url, e>>].upload = c.body[1]
                 \/ c.modified <= object[<<scene.url, e>>].modified
      PROVE  CopyInv'
  <2>1. /\ Keys' = Keys \union {request.header}
        /\ copies'[request.header] = c
        /\ \A h \in Keys \ {request.header} : copies'[h] = copies[h]
    BY <1>1, <1>6, KeepCopy DEF Inv, TypeInv
  <2>2. SUFFICES ASSUME NEW h \in Keys' PROVE CopyOk(h)' /\ PinnedOk(h)'
    BY DEF CopyInv
  <2>3. CASE h = request.header
    <3>1. copies'[h] = c /\ object' = object /\ now' = now /\ scene' = scene
      BY <1>1, <1>6, <2>1, <2>3
    <3>2. Accepts(h, c.body[2])
      BY <1>6, <2>3
    <3>. QED  BY <1>6, <3>1, <3>2 DEF CopyOk, PinnedOk, Stored
  <2>4. CASE h \in Keys \ {request.header}
    <3>1. copies'[h] = copies[h] /\ object' = object /\ now' = now /\ scene' = scene
      BY <1>1, <1>6, <2>1, <2>4
    <3>2. CopyOk(h) /\ PinnedOk(h)
      BY <2>4 DEF Inv, CopyInv
    <3>. QED  BY <3>1, <3>2 DEF CopyOk, PinnedOk, Stored
  <2>. QED  BY <2>1, <2>2, <2>3, <2>4
<1>7. CASE Publishing
  <2>1. PICK v \in Versions : \/ StartUpload(v) \/ FinishUpload(v) \/ Remove(v)
                              \/ \E e \in Codings : Put(v, e)
    BY <1>7, SceneFacts DEF Publishing, Inv, TypeInv, StoreType
  <2>2. CASE StartUpload(v) \/ FinishUpload(v)
    BY <1>3, <1>5, <2>2 DEF StartUpload, FinishUpload
  <2>3. CASE Remove(v)
    BY <1>2, <1>4, <2>3 DEF Remove
  <2>4. ASSUME NEW e \in Codings, Put(v, e) PROVE CopyInv'
    <3>1. /\ UNCHANGED <<copies, now>>
          /\ object' = [object EXCEPT ![<<v, e>>] = [upload |-> source[v], modified |-> now + 1]]
      BY <2>4 DEF Put
    <3>2. \A w \in Versions : \A d \in Codings :
            \/ object'[<<w, d>>] = object[<<w, d>>]
            \/ object'[<<w, d>>] = [upload |-> source[v], modified |-> now + 1]
      BY <1>2, <3>1
    <3>. QED  BY <1>2, <1>4, <3>1, <3>2
  <2>. QED  BY <2>1, <2>2, <2>3, <2>4
<1>8. CASE Tick
  BY <1>2, <1>4, <1>8 DEF Tick, store
<1>9. CASE Calling
  <2>1. PICK h \in scene.headers : Ask(h) \/ Expire(h)
    BY <1>9 DEF Calling
  <2>2. CASE Ask(h)
    BY <1>3, <1>5, <2>2 DEF Ask, store
  <2>3. CASE Expire(h)
    BY <1>1, <1>3, <2>3, Expires DEF Expire, store, Inv, TypeInv
  <2>. QED  BY <2>1, <2>2, <2>3
<1>10. CASE Open
  <2> DEFINE o == object[<<request.version, Trying>>]  tag == ETag(o, Trying)
  <2>1. Opening /\ Found(Trying) /\ UNCHANGED <<object, now>>
    BY <1>10 DEF Open, store
  <2>2. \/ UNCHANGED copies
        \/ /\ Admitted(Trying)
           /\ notModified(request.cond, tag, o.modified)
           /\ Keep([Confirmed(tag) EXCEPT !.fresh = TRUE])
    BY <1>10 DEF Open
  <2>3. CASE UNCHANGED copies
    BY <1>3, <1>5, <2>1, <2>3
  <2>4. CASE /\ Admitted(Trying)
             /\ notModified(request.cond, tag, o.modified)
             /\ Keep([Confirmed(tag) EXCEPT !.fresh = TRUE])
    <3> DEFINE c == [Confirmed(tag) EXCEPT !.fresh = TRUE]
    <3>1. Accepts(request.header, Trying) /\ request.header \in scene.headers
      BY <2>1, <2>4, AdmittedIsAccepted, ServedObject DEF Inv
    <3>2. /\ Confirmed(tag) \in Copies
          /\ \/ (\E k \in Keys : Confirmed(tag) = copies[k]) /\ Confirmed(tag).etag = tag
             \/ request.header \in Keys /\ Confirmed(tag) = copies[request.header]
      BY <2>1, <2>4, ConfirmedCopy DEF Inv, TypeInv, AskInv
    <3>3. PICK k \in Keys : /\ Confirmed(tag) = copies[k]
                            /\ Confirmed(tag).etag = tag \/ k = request.header
      BY <3>2
    <3>4. /\ c \in Copies /\ c.etag = copies[k].etag /\ c.body = copies[k].body
          /\ c.modified = copies[k].modified
      BY <3>2, <3>3 DEF Copies
    <3>5. CopyOk(k) /\ PinnedOk(k)
      BY DEF Inv, CopyInv
    <3>6. tag[2] = Trying
      BY DEF ETag
    <3>7. Accepts(request.header, copies[k].body[2])
      BY <3>1, <3>3, <3>5, <3>6 DEF CopyOk
    <3> HIDE DEF c
    <3>8. Keep(c)
      BY <2>4 DEF c
    <3>. QED  BY <1>6, <2>1, <3>1, <3>4, <3>5, <3>7, <3>8 DEF CopyOk, PinnedOk
  <2>. QED  BY <2>2, <2>3, <2>4
<1>11. CASE SkipVariant \/ NotFound \/ ReadBreaksOff
  <2>1. UNCHANGED <<copies, object, now>>
    BY <1>11 DEF SkipVariant, NotFound, ReadBreaksOff, store
  <2>. QED  BY <1>3, <1>5, <2>1
<1>12. CASE ReadBody
  <2> DEFINE o == request.object  c == Response(o, request.coding)
  <2>1. Reading /\ Present = o /\ Keep(c) /\ UNCHANGED <<object, now>>
    BY <1>12 DEF ReadBody, store
  <2>2. request \in ReadRequests(scene.headers)
    BY <2>1, RequestKinds DEF Inv, TypeInv
  <2>3. /\ o \in Objects /\ request.coding \in Codings
        /\ request.header \in scene.headers /\ request.version \in Versions
    BY <2>2 DEF ReadRequests
  <2>4. Accepts(request.header, request.coding) /\ o # NoObject
    BY <2>1 DEF Inv, ReadInv
  <2>5. Stored(request.version, request.coding) /\ object[<<request.version, request.coding>>] = o
    BY <2>1, <2>4 DEF Stored, Present
  <2>6. /\ c \in Copies /\ c.etag = c.body /\ c.body[2] = request.coding
        /\ c.body[1] = o.upload /\ c.modified = o.modified
    BY <2>3 DEF Response, ETag, cacheControlHeader, Copies, Tags, Objects
  <2>7. /\ o.modified <= now + 1
        /\ \A e \in Codings : Stored(request.version, e) =>
             object[<<request.version, e>>].upload = o.upload
    BY <2>3, <2>5 DEF Inv, UploadInv
  <2>8. scene.url # Alias => request.version = scene.url
    BY <2>1 DEF Inv, AskInv
  <2> HIDE DEF c, o
  <2>. QED  BY <1>6, <2>1, <2>3, <2>4, <2>6, <2>7, <2>8
<1>13. CASE UNCHANGED vars
  BY <1>3, <1>5, <1>13 DEF vars, store
<1>. QED  BY <1>7, <1>8, <1>9, <1>10, <1>11, <1>12, <1>13, NextCases

-----------------------------------------------------------------------------
(* The theorems                                                            *)

\* Nothing is stored, kept or asked for at the start.
LEMMA InvInitially == Init => Inv
<1> SUFFICES ASSUME Init PROVE Inv
  OBVIOUS
<1>1. StoreType /\ (\A v \in Versions : \A e \in Codings : ~Stored(v, e))
  BY DEF Init, StoreType, Objects, NoObject, Stored
<1>2. Keys = {} /\ copies \in [Keys -> Copies]
  BY DEF Init, Keys
<1>3. request \in IdleRequests /\ ~Opening /\ ~Reading
  BY DEF Init, Idle, IdleRequests, Opening, Reading
<1>. QED  BY <1>1, <1>2, <1>3
          DEF Inv, TypeInv, CopyType, RequestType, AskInv, UploadInv, CopyInv, TryInv, ReadInv

\* Inv is an invariant.
LEMMA InvAlways == Spec => []Inv
<1>1. Init => Inv
  BY InvInitially
<1>2. Inv /\ [Next]_vars => Inv'
  BY TypeStep, UploadStep, CopyStep, TryStep, ReadStep DEF Inv
<1>. QED  BY <1>1, <1>2, PTL DEF Spec

\* However requests, uploads, deletions and failures interleave, the cache gives
\* a client no coding that its Accept-Encoding refuses (getPackage's ETag of the
\* variant and Vary, parseAcceptEncoding).
THEOREM RefusedCodingsAreNotServed == Spec => []NoRefusedCoding
<1>1. Inv => NoRefusedCoding
  BY DEF Inv, CopyInv, CopyOk, NoRefusedCoding
<1>. QED  BY <1>1, InvAlways, PTL

\* A 304 confirms the bytes that are served, except to clients that sent the date
\* alone and ask for an alias or for a file replaced within the second
\* (notModified and the ETag of the variant).
THEOREM ConfirmationsAreTrue == Spec => NotModifiedIsTrue
<1> DEFINE served == object[<<request.version, Trying>>]
           tag == ETag(served, Trying)
           copy == copies'[request.header]
           True304 == \/ copy.body[1] = served.upload
                      \/ /\ request.cond.tags = {}
                         /\ scene.url = Alias \/ copy.modified = served.modified
<1>1. ASSUME Inv, [Next]_vars, Opening, request' = Idle(304)
      PROVE  True304
  <2>1. request'.pc = "idle" /\ request'.status = 304
    BY <1>1 DEF Idle
  <2>2. Open
    <3>1. ~Publishing
      <4>1. ASSUME NEW v, Disturb(v) PROVE FALSE
        BY <1>1, <2>1, <4>1, DisturbKeeps DEF Inv, TypeInv, Opening
      <4>. QED  BY <1>1, <2>1, <4>1
                DEF Publishing, StartUpload, FinishUpload, Remove, Put, Opening
    <3>2. ~Tick /\ ~Calling /\ ~ReadBody /\ ~ReadBreaksOff /\ ~UNCHANGED vars
      BY <1>1, <2>1 DEF Tick, Calling, Ask, Expire, ReadBody, ReadBreaksOff, vars, Opening, Reading
    <3>3. ~SkipVariant
      BY <1>1, <2>1, RequestKinds DEF SkipVariant, Opening, OpenRequests, Inv, TypeInv
    <3>4. ~NotFound
      BY <2>1 DEF NotFound, Idle
    <3>. QED  BY <1>1, <3>1, <3>2, <3>3, <3>4, NextCases
  <2>3. /\ notModified(request.cond, tag, served.modified)
        /\ Keep([Confirmed(tag) EXCEPT !.fresh = TRUE])
        /\ Found(Trying)
    BY <2>1, <2>2 DEF Open, Idle
  <2>4. /\ served \in Objects /\ request.version \in Versions
        /\ request.header \in scene.headers /\ Trying \in Codings
    BY <1>1, <2>3, ServedObject DEF Inv
  <2>5. /\ Confirmed(tag) \in Copies
        /\ \/ /\ tag \in request.cond.tags
              /\ \E k \in Keys : Confirmed(tag) = copies[k]
              /\ Confirmed(tag).etag = tag
           \/ /\ request.cond.tags = {} /\ request.cond.since # 0
              /\ served.modified <= request.cond.since
              /\ request.header \in Keys
              /\ Confirmed(tag) = copies[request.header]
    BY <1>1, <2>3, ConfirmedCopy DEF Inv, TypeInv, AskInv
  <2> HIDE DEF served
  <2>6. copy = [Confirmed(tag) EXCEPT !.fresh = TRUE]
    <3>1. [Confirmed(tag) EXCEPT !.fresh = TRUE] \in Copies
      BY <2>5 DEF Copies
    <3>2. scene' = scene
      BY <1>1, StoreTypeStep DEF Inv
    <3>. QED  BY <1>1, <2>3, <2>4, <3>1, <3>2, KeepCopy DEF Inv, TypeInv
  <2>7. copy.body = Confirmed(tag).body /\ copy.modified = Confirmed(tag).modified
    BY <2>5, <2>6 DEF Copies
  <2>8. CASE /\ \E k \in Keys : Confirmed(tag) = copies[k]
             /\ Confirmed(tag).etag = tag
    <3>1. Confirmed(tag).body = tag
      BY <1>1, <2>8 DEF Inv, CopyInv, CopyOk
    <3>. QED  BY <2>7, <3>1 DEF ETag
  <2>9. CASE /\ request.cond.tags = {} /\ request.cond.since # 0
             /\ served.modified <= request.cond.since
             /\ request.header \in Keys
             /\ Confirmed(tag) = copies[request.header]
    <3>1. CASE scene.url = Alias
      BY <2>9, <3>1
    <3>2. CASE scene.url # Alias
      <4>1. request.version = scene.url /\ request.cond.since = copies[request.header].modified
        BY <1>1, <2>9, <3>2 DEF Inv, AskInv
      <4>2. Stored(scene.url, Trying) /\ served = object[<<scene.url, Trying>>]
        BY <2>3, <4>1 DEF Found, served
      <4>3. PinnedOk(request.header)
        BY <1>1, <2>9 DEF Inv, CopyInv
      <4>4. \/ served.upload = copies[request.header].body[1]
            \/ copies[request.header].modified <= served.modified
        BY <2>4, <3>2, <4>2, <4>3 DEF PinnedOk
      <4>5. copies[request.header].modified \in Nat /\ served.modified \in Nat
        BY <1>1, <2>4, <2>9 DEF Inv, TypeInv, CopyType, Copies, Objects
      <4>. QED  BY <2>7, <2>9, <4>1, <4>4, <4>5
    <3>. QED  BY <3>1, <3>2
  <2>. QED  BY <2>5, <2>8, <2>9
<1>2. Inv /\ [Next]_vars =>
        [Opening /\ request' = Idle(304) =>
           LET served_ == object[<<request.version, Trying>>]
               copy_ == copies'[request.header]
           IN \/ copy_.body[1] = served_.upload
              \/ /\ request.cond.tags = {}
                 /\ scene.url = Alias \/ copy_.modified = served_.modified]_vars
  BY <1>1
<1>. QED  BY <1>2, InvAlways, PTL DEF Spec, NotModifiedIsTrue

\* A request that nothing disturbed is answered as its Accept-Encoding asks
\* (getEncodedObject's loop over parseAcceptEncoding's list).
THEOREM NegotiationIsCorrect == Spec => NegotiationIsRight
<1> DEFINE there == { e \in Codings : Found(e) }
           given == IF request' = Idle(404) THEN "404"
                    ELSE IF request' = Idle(406) THEN "406" ELSE Trying
           h == request.header
           variants == { e \in there \ {"identity"} : Accepts(h, e) }
<1>1. ASSUME Inv, [Next]_vars, Opening, request'.pc # "open",
             request.calm, errors' = errors
      PROVE  given \in Expected(h, there)
  <2>1. Open \/ NotFound
    <3>1. ~Publishing
      <4>1. ASSUME NEW v, Disturb(v) PROVE FALSE
        BY <1>1, <4>1, DisturbKeeps DEF Inv, TypeInv, Opening
      <4>. QED  BY <1>1, <4>1
                DEF Publishing, StartUpload, FinishUpload, Remove, Put, Opening
    <3>2. ~Tick /\ ~Calling /\ ~ReadBody /\ ~ReadBreaksOff /\ ~UNCHANGED vars
      BY <1>1 DEF Tick, Calling, Ask, Expire, ReadBody, ReadBreaksOff, vars, Opening, Reading
    <3>3. ~SkipVariant
      BY <1>1, RequestKinds DEF SkipVariant, Opening, OpenRequests, Inv, TypeInv
    <3>. QED  BY <1>1, <3>1, <3>2, <3>3, NextCases
  <2>2. /\ request \in OpenRequests(scene.headers) /\ request.tries \in Tries
        /\ Header(h)
    BY <1>1, RequestKinds, ServedObject DEF Inv, TypeInv, OpenRequests
  <2>3. \A e \in Variants : /\ Quality(h, e) \in Int
                            /\ Quality(h, e) > 0 <=> Accepts(h, e)
                            /\ Quality(h, e) > 0 => Highest(Wishes(h, e)) = Quality(h, e)
    <3>1. ASSUME NEW e \in Variants
          PROVE  /\ Quality(h, e) \in Int
                 /\ Quality(h, e) > 0 <=> Accepts(h, e)
      BY <2>2, QualityAccepts DEF Variants, Codings
    <3>2. ASSUME NEW e \in Variants, Quality(h, e) > 0
          PROVE  Highest(Wishes(h, e)) = Quality(h, e)
      BY <2>2, <3>2, QualityIsHighestWish
    <3>. QED  BY <3>1, <3>2
  <2>4. variants = { e \in Variants : Found(e) /\ Quality(h, e) > 0 }
    BY <2>3 DEF Variants, Codings
  <2>5. \A e \in Variants \ Rest(request.tries) : Quality(h, e) > 0 => ~Found(e)
    BY <1>1 DEF Inv, TryInv
  <2>6. parseAcceptEncoding(h).identity <=> Accepts(h, "identity")
    BY <2>2, QualityAccepts DEF parseAcceptEncoding, Codings
  <2>7. CASE Open /\ request.tries # <<>>
    <3>1. Trying = Head(request.tries) /\ Trying \in Rest(request.tries) /\ Trying \in Variants
      BY <2>2, <2>7, RestShrinks DEF Trying
    <3>2. Found(Trying) /\ Quality(h, Trying) > 0
      BY <1>1, <2>7, <3>1 DEF Open, Inv, TryInv
    <3>3. Trying \in variants
      BY <2>4, <3>1, <3>2
    <3>4. \A e \in variants : Highest(Wishes(h, e)) <= Highest(Wishes(h, Trying))
      <4>1. SUFFICES ASSUME NEW e \in variants
                     PROVE  Quality(h, e) <= Quality(h, Trying)
        BY <2>3, <2>4, <3>3
      <4>2. e \in Rest(request.tries)
        BY <2>4, <2>5
      <4>. QED  BY <1>1, <2>7, <3>1, <4>2 DEF Inv, TryInv
    <3>5. given = Trying
      <4>1. Admitted(Trying)
        BY <3>1 DEF Admitted, Variants
      <4>2. request' = Idle(304) \/ request'.pc = "read"
        BY <2>7, <4>1 DEF Open
      <4>3. request' # Idle(404) /\ request' # Idle(406)
        BY <4>2 DEF Idle
      <4>. QED  BY <4>3
    <3>6. Expected(h, there) = { e \in variants :
            \A d \in variants : Highest(Wishes(h, d)) <= Highest(Wishes(h, e)) }
      BY <3>3, Zenon DEF Expected
    <3> HIDE DEF variants, given
    <3>. QED  BY <3>3, <3>4, <3>5, <3>6
  <2>8. CASE request.tries = <<>>
    <3>1. variants = {}
      BY <2>2, <2>4, <2>5, <2>8, RestShrinks
    <3>2. Expected(h, there) = IF "identity" \notin there THEN {"404"}
                               ELSE IF Accepts(h, "identity") THEN {"identity"} ELSE {"406"}
      BY <3>1 DEF Expected
    <3>3. "identity" \in there <=> Found("identity")
      BY DEF Codings
    <3>4. CASE NotFound
      <4>1. request' = Idle(404) /\ ~Found("identity")
        BY <1>1, <3>4 DEF NotFound, Error, Inv, TypeInv, StoreType
      <4>. QED  BY <3>2, <3>3, <4>1
    <3>5. CASE Open
      <4>1. Trying = "identity"
        BY <2>8 DEF Trying
      <4>2. /\ Found("identity")
            /\ \/ ~Accepts(h, "identity") /\ request' = Idle(406)
               \/ /\ Accepts(h, "identity")
                  /\ request' = Idle(304) \/ request'.pc = "read"
        BY <2>6, <3>5, <4>1 DEF Open, Admitted
      <4>3. Idle(406) # Idle(404) /\ Idle(304) # Idle(404) /\ Idle(304) # Idle(406)
            /\ Idle(404).pc = "idle" /\ Idle(406).pc = "idle"
        BY DEF Idle
      <4>. QED  BY <3>2, <3>3, <4>1, <4>2, <4>3
    <3>. QED  BY <2>1, <3>4, <3>5
  <2>9. NotFound => request.tries = <<>>
    BY DEF NotFound
  <2>. QED  BY <2>1, <2>7, <2>8, <2>9
<1>2. Inv /\ [Next]_vars =>
        [(/\ Opening /\ request'.pc # "open"
          /\ request.calm /\ errors' = errors) =>
           LET there_ == { e \in Codings : Found(e) }
               given_ == IF request' = Idle(404) THEN "404"
                         ELSE IF request' = Idle(406) THEN "406" ELSE Trying
           IN given_ \in Expected(request.header, there_)]_vars
  BY <1>1
<1>. QED  BY <1>2, InvAlways, PTL DEF Spec, NegotiationIsRight

=============================================================================
