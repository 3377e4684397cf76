-------------------------- MODULE PushClientProofs --------------------------
(***************************************************************************)
(* What PushClient and ServerProcess promise for any configurations, runs  *)
(* of the command, archive lengths, signals and broken connections: a      *)
(* handler has what it needs for as long as it runs, takes nothing but a   *)
(* whole archive, and success is reported only for a version that this run *)
(* published.                                                              *)
(***************************************************************************)
EXTENDS PushClient, TLAPS

(* The process                                                             *)

HandlerStates == {"none", "running", "answered", "cut"}

\* What the main goroutine has done by the time it stands at proc; handlers only
\* run between the start of the listener and the end of Shutdown, and none
\* outlives the process.
ServerInv ==
  /\ config \in Configs
  /\ handlers \in [Requests -> HandlerStates]
  /\ Running # {} => Up /\ proc \in {"notify", "wait", "drain"}
  /\ listener = "open" => proc \in {"notify", "wait"}
  /\ proc # "config" => validateConfig(config)
  /\ proc \in {"tokens", "auth", "bucket", "listen", "notify", "wait", "drain"} =>
       (config.redisURL => redis = "open")
  /\ proc \in {"auth", "bucket", "listen", "notify", "wait", "drain"} =>
       tokens = "open" /\ (config.mode = "postgres" => pg = "open")

\* What a step of the process leaves to the requests: no handler forgets that its
\* request came in.
LEMMA ExitKeepsHandlers ==
  ASSUME ServerInv, NEW how \in {"fatal", "signal"}, Exit(how)
  PROVE  /\ handlers' \in [Requests -> HandlerStates]
         /\ Running' = {}
         /\ \A r \in Requests : handlers[r] # "none" => handlers'[r] # "none"
  BY DEF ServerInv, Exit, Running, HandlerStates

\* A process that ends keeps ServerInv, whatever was running.
LEMMA FatalStep ==
  ASSUME ServerInv, Fatal
  PROVE  ServerInv'
<1>1. /\ handlers' \in [Requests -> HandlerStates]
      /\ Running' = {}
  BY ExitKeepsHandlers DEF Fatal
<1>. QED  BY <1>1 DEF ServerInv, Fatal, validateConfig

\* A step that leaves the handlers alone leaves the running ones alone.
LEMMA SameRunning ==
  ASSUME handlers' = handlers
  PROVE  Running' = Running
  BY DEF Running

\* Configuration, loadModules, setupServer, the listener and the signals.
LEMMA ServerSteps ==
  ASSUME ServerInv, ServerStep
  PROVE  /\ ServerInv'
         /\ \A r \in Requests : handlers[r] # "none" => handlers'[r] # "none"
<1>0. ASSUME Fatal PROVE \A r \in Requests : handlers[r] # "none" => handlers'[r] # "none"
  BY <1>0, ExitKeepsHandlers DEF Fatal
<1>1. CASE LoadConfig
  BY <1>0, <1>1, FatalStep, SameRunning DEF LoadConfig, ServerInv
<1>2. CASE StartUpFails \/ GraceOver
  BY <1>0, <1>2, FatalStep DEF StartUpFails, GraceOver
<1>3. CASE ConnectRedis
  BY <1>3, SameRunning DEF ConnectRedis, Become, ServerInv
<1>4. CASE configureTokenStore
  BY <1>4, SameRunning DEF configureTokenStore, Become, ServerInv
<1>5. CASE configureAuthProvider \/ CreateBucket
  BY <1>5, SameRunning DEF configureAuthProvider, CreateBucket, Become, ServerInv
<1>6. CASE StartListener \/ Notify
  BY <1>6, SameRunning DEF StartListener, Notify, ServerInv, Up
<1>7. CASE Listen \/ ListenFails
  BY <1>7, SameRunning DEF Listen, ListenFails, ServerInv, Up
<1>8. CASE Signal
  <2>1. CASE notified
    BY <1>8, <2>1, SameRunning DEF Signal, ServerInv, Up
  <2>2. CASE ~notified
    <3>1. Exit("signal") /\ UNCHANGED <<config, proc, redis, pg, tokens, listener>>
      BY <1>8, <2>2 DEF Signal
    <3>. QED  BY <3>1, ExitKeepsHandlers DEF ServerInv
  <2>. QED  BY <2>1, <2>2
<1>9. CASE BeginShutdown
  BY <1>9, SameRunning DEF BeginShutdown, ServerInv, Up
<1>10. CASE Drained
  BY <1>10, SameRunning DEF Drained, ServerInv, Up
<1>11. CASE CloseClients
  BY <1>11, SameRunning DEF CloseClients, ServerInv, Up
<1>. QED
  BY <1>1, <1>2, <1>3, <1>4, <1>5, <1>6, <1>7, <1>8, <1>9, <1>10, <1>11
  DEF ServerStep, MainStep

\* A request comes in while the server listens.
LEMMA AcceptStep ==
  ASSUME ServerInv, NEW r \in Requests, Accept(r)
  PROVE  ServerInv' /\ handlers' = [handlers EXCEPT ![r] = "running"]
  BY DEF Accept, ServerInv, HandlerStates, Running, Up

\* A handler answers.
LEMMA RespondStep ==
  ASSUME ServerInv, NEW r \in Requests, Respond(r)
  PROVE  ServerInv' /\ handlers' = [handlers EXCEPT ![r] = "answered"]
  BY DEF Respond, ServerInv, HandlerStates, Running, Up

\* An accepted size is positive and below the largest int64.
LEMMA AcceptedSize ==
  ASSUME NEW size, size.halves \in Int, size.unit \in Nat, ~sizeProblem(size)
  PROVE  parseSize(size).bytes \in 1..(MaxInt - 1)
<1> DEFINE p == size.halves * size.unit
<1>1. p \in Int
  OBVIOUS
<1>2. parseSize(size).valid /\ ~(parseSize(size).bytes <= 0)
  BY DEF sizeProblem
<1>3. ~(p >= 2 * MaxInt) /\ parseSize(size) = [bytes |-> p \div 2, valid |-> TRUE]
  BY <1>2, Zenon DEF parseSize
<1> HIDE DEF p
<1>4. p < 2 * MaxInt /\ ~(p \div 2 <= 0) /\ parseSize(size).bytes = p \div 2
  BY <1>1, <1>2, <1>3, ServerAssumption
<1>. QED  BY <1>1, <1>4, ServerAssumption

\* What every handler relies on follows from where the main goroutine stands.
LEMMA ServerInvSuffices ==
  ASSUME ServerInv
  PROVE  HandlersHaveWhatTheyNeed
<1> SUFFICES ASSUME Running # {} PROVE HandlersHaveWhatTheyNeed
  BY DEF HandlersHaveWhatTheyNeed
<1>1. proc \in {"notify", "wait", "drain"} /\ validateConfig(config)
  BY DEF ServerInv
<1>2. /\ tokens = "open"
      /\ config.redisURL => redis = "open"
      /\ config.mode = "postgres" => pg = "open"
  BY <1>1 DEF ServerInv
<1>3. config.mode = "redis" \/ config.cache # "off" => config.redisURL
  BY <1>1 DEF validateConfig
<1>4. ASSUME NEW size \in {config.maxSize, config.maxUncompressed}
      PROVE  parseSize(size).bytes \in 1..(MaxInt - 1)
  <2>1. ~sizeProblem(size)
    BY <1>1, <1>4 DEF validateConfig
  <2>2. size.halves \in Int /\ size.unit \in Nat
    BY <1>4, ConfigsAssumption DEF ServerInv
  <2>. QED  BY <2>1, <2>2, AcceptedSize
<1>. QED  BY <1>2, <1>3, <1>4 DEF HandlersHaveWhatTheyNeed

-----------------------------------------------------------------------------
(* The command and its handler                                             *)

\* The functions that the argument reads.
PushTypes ==
  /\ cli      \in [Requests -> {"idle", "archive", "push", "wait", "done"}]
  /\ result   \in [Requests -> {"none", "ok", "failed", "killed"}]
  /\ sent     \in [Requests -> Nat]
  /\ ending   \in [Requests -> {"open", "eof", "abort", "broken"}]
  /\ stage    \in [Requests -> {"none", "auth", "body", "probe", "store", "end"}]
  /\ received \in [Requests -> Nat]
  /\ status   \in [Requests -> Nat]

\* A body that ended well was sent whole; from there the archive's length goes
\* with the handler until its answer, and the answer with the command.  A handler
\* that stored the package has ended, and its request is not taken again.
PushOf(r) ==
  /\ ending[r] = "eof" => sent[r] = Chunks
  /\ stage[r] \in {"probe", "store"} => received[r] = Chunks
  /\ r \in created => received[r] = Chunks /\ stage[r] = "end"
  /\ stage[r] # "none" => handlers[r] # "none"
  /\ status[r] = 201 => r \in created
  /\ result[r] = "ok" => r \in created

PushInv == PushTypes /\ \A r \in Requests : PushOf(r)

Inv == ServerInv /\ PushInv

\* What a step leaves of a request that it is not about.
Untouched(q) ==
  /\ ending'[q] = ending[q] /\ sent'[q] = sent[q] /\ stage'[q] = stage[q]
  /\ received'[q] = received[q] /\ status'[q] = status[q] /\ result'[q] = result[q]
  /\ q \in created' <=> q \in created
  /\ handlers[q] # "none" => handlers'[q] # "none"

\* A step of r keeps the invariant of all when it keeps that of r.
LEMMA OthersUntouched ==
  ASSUME Inv, NEW r \in Requests, PushTypes', PushOf(r)',
         \A q \in Requests \ {r} : Untouched(q)
  PROVE  PushInv'
<1>1. ASSUME NEW q \in Requests \ {r} PROVE PushOf(q)'
  BY <1>1 DEF Inv, PushInv, PushOf, Untouched
<1>. QED  BY <1>1 DEF PushInv

\* The command: archiving, connecting, and every way in which client.Do returns.
LEMMA CommandSteps ==
  ASSUME Inv, NEW r \in Requests, Start(r) \/ CommandStep(r)
  PROVE  Inv'
<1> USE DEF Inv, PushInv, PushTypes
<1>1. CASE Connect(r)
  <2>1. ServerInv' /\ handlers' = [handlers EXCEPT ![r] = "running"] /\ handlers[r] = "none"
    BY <1>1, AcceptStep DEF Connect, Accept
  <2>2. handlers'[r] = "running"
    BY <2>1 DEF ServerInv
  <2>3. r \notin created /\ status[r] # 201 /\ result[r] # "ok"
    BY <2>1 DEF PushOf
  <2>4. PushTypes' /\ PushOf(r)'
    BY <1>1, <2>2, <2>3 DEF Connect, PushOf
  <2>5. \A q \in Requests \ {r} : Untouched(q)
    BY <1>1, <2>1 DEF Connect, Untouched, ServerInv
  <2>. QED  BY <2>1, <2>4, <2>5, OthersUntouched
<1>2. ASSUME UNCHANGED <<process, sent, stage, received, status, created>>,
             NEW res \in {"failed", "killed", "ok"}, res = "ok" => status[r] = 201,
             cli' = [cli EXCEPT ![r] = "done"],
             result' = [result EXCEPT ![r] = res],
             CloseBody(r) \/ UNCHANGED ending
      PROVE  Inv'
  <2>1. ServerInv'
    BY <1>2 DEF process, ServerInv, Up, Running, validateConfig
  <2>2. /\ ending' \in [Requests -> {"open", "eof", "abort", "broken"}]
        /\ ending'[r] = "eof" => ending[r] = "eof"
        /\ \A q \in Requests \ {r} : ending'[q] = ending[q]
    BY <1>2 DEF CloseBody
  <2>3. PushTypes' /\ PushOf(r)'
    BY <1>2, <2>2 DEF process, PushOf
  <2>4. \A q \in Requests \ {r} : Untouched(q)
    BY <1>2, <2>2 DEF process, Untouched
  <2>. QED  BY <2>1, <2>3, <2>4, OthersUntouched
<1>3. ASSUME UNCHANGED <<process, result, sent, ending, stage, received, status, created>>,
             cli' \in [Requests -> {"idle", "archive", "push", "wait", "done"}]
      PROVE  Inv'
  BY <1>3 DEF process, ServerInv, Up, Running, validateConfig, PushOf
<1>4. CASE Start(r) \/ Archive(r)
  BY <1>3, <1>4 DEF Start, Archive
<1>5. CASE ArchiveFails(r) \/ NewRequestFails(r) \/ ConnectFails(r) \/ WriteError(r)
             \/ ConnectionLost(r) \/ Timeout(r) \/ Interrupt(r) \/ DoAborts(r)
  BY <1>2, <1>5 DEF ArchiveFails, NewRequestFails, ConnectFails, WriteError,
       ConnectionLost, Timeout, Interrupt, DoAborts, DoReturns, Return
<1>6. CASE GetAnswer(r)
  BY <1>2, <1>6 DEF GetAnswer, Answered, DoReturns, Return
<1>. QED  BY <1>1, <1>4, <1>5, <1>6 DEF CommandStep

\* The writer goroutine: the body ends well only when all of it was sent.
LEMMA WriterSteps ==
  ASSUME Inv, NEW r \in Requests, WriterStep(r)
  PROVE  Inv'
<1> USE DEF Inv, PushInv, PushTypes
<1>1. UNCHANGED <<process, cli, result, stage, received, status, created>>
  BY DEF WriterStep, WritePiece, WriteLast, WriteFails, WriterStops, EndBody
<1>2. ServerInv'
  BY <1>1 DEF process, ServerInv, Up, Running, validateConfig
<1>3. CASE WritePiece(r)
  <2>1. PushTypes' /\ PushOf(r)'
    BY <1>1, <1>3 DEF WritePiece, Writing, process, PushOf
  <2>2. \A q \in Requests \ {r} : Untouched(q)
    BY <1>1, <1>3 DEF WritePiece, process, Untouched
  <2>. QED  BY <1>2, <2>1, <2>2, OthersUntouched
<1>4. ASSUME NEW how \in {"eof", "abort", "broken"}, EndBody(r, how),
             how = "eof" => sent[r] = Chunks
      PROVE  Inv'
  <2>1. PushTypes' /\ PushOf(r)'
    BY <1>1, <1>4 DEF EndBody, process, PushOf
  <2>2. \A q \in Requests \ {r} : Untouched(q)
    BY <1>1, <1>4 DEF EndBody, process, Untouched
  <2>. QED  BY <1>2, <2>1, <2>2, OthersUntouched
<1>5. CASE WriteLast(r) \/ WriteFails(r)
  BY <1>4, <1>5 DEF WriteLast, WriteFails
<1>6. CASE WriterStops(r)
  BY <1>4, <1>6 DEF WriterStops, PushOf
<1>. QED  BY <1>3, <1>5, <1>6 DEF WriterStep

\* The handler: it goes on with nothing but a whole body.
LEMMA HandlerSteps ==
  ASSUME Inv, NEW r \in Requests, HandlerStep(r)
  PROVE  Inv'
<1> USE DEF Inv, PushInv, PushTypes
<1>0. /\ UNCHANGED <<cli, result, sent, ending>> /\ r \in Running /\ r \notin created
      /\ status[r] # 201 /\ result[r] # "ok" /\ handlers[r] = "running"
  <2>1. UNCHANGED <<cli, result, sent, ending>> /\ r \in Running /\ stage[r] # "end"
    BY DEF HandlerStep, Authenticate, ReadPiece, TooLarge, BodyRead, BodyBreaks, Probe,
           Store, At, Reply, Enter
  <2>. QED  BY <2>1 DEF PushOf, Running
<1>1. ASSUME NEW code \in Nat, Reply(r, code),
             \/ created' = created /\ code # 201
             \/ created' = created \union {r} /\ received[r] = Chunks
      PROVE  Inv'
  <2>1. ServerInv' /\ handlers' = [handlers EXCEPT ![r] = "answered"]
    BY <1>1, RespondStep DEF Reply
  <2>2. handlers'[r] = "answered"
    BY <2>1 DEF ServerInv
  <2>3. PushTypes' /\ PushOf(r)'
    BY <1>0, <1>1, <2>2 DEF Reply, PushOf
  <2>4. \A q \in Requests \ {r} : Untouched(q)
    BY <1>0, <1>1, <2>1 DEF Reply, Untouched, ServerInv
  <2>. QED  BY <2>1, <2>3, <2>4, OthersUntouched
<1>2. ASSUME NEW s \in {"body", "probe", "store"}, Enter(r, s),
             s # "body" => received[r] = Chunks
      PROVE  Inv'
  <2>1. ServerInv'
    BY <1>2 DEF Enter, process, ServerInv, Up, Running, validateConfig
  <2>2. PushTypes' /\ PushOf(r)'
    BY <1>0, <1>2 DEF Enter, process, PushOf
  <2>3. \A q \in Requests \ {r} : Untouched(q)
    BY <1>2 DEF Enter, process, Untouched
  <2>. QED  BY <2>1, <2>2, <2>3, OthersUntouched
<1>3. CASE Authenticate(r)
  BY <1>1, <1>2, <1>3 DEF Authenticate
<1>4. CASE ReadPiece(r)
  <2>1. ServerInv'
    BY <1>4 DEF ReadPiece, process, ServerInv, Up, Running, validateConfig
  <2>2. PushTypes' /\ PushOf(r)'
    BY <1>0, <1>4 DEF ReadPiece, At, process, PushOf
  <2>3. \A q \in Requests \ {r} : Untouched(q)
    BY <1>4 DEF ReadPiece, process, Untouched
  <2>. QED  BY <2>1, <2>2, <2>3, OthersUntouched
<1>5. CASE TooLarge(r) \/ BodyBreaks(r)
  BY <1>1, <1>5 DEF TooLarge, BodyBreaks
<1>6. CASE BodyRead(r)
  <2>1. received[r] = Chunks
    BY <1>6 DEF BodyRead, PushOf
  <2>. QED  BY <1>1, <1>2, <1>6, <2>1 DEF BodyRead
<1>7. CASE Probe(r) \/ Store(r)
  <2>1. received[r] = Chunks
    BY <1>7 DEF Probe, Store, At, PushOf
  <2>. QED  BY <1>1, <1>2, <1>7, <2>1 DEF Probe, Store
<1>. QED  BY <1>3, <1>4, <1>5, <1>6, <1>7 DEF HandlerStep

\* ServerInv and PushInv hold throughout.
LEMMA PushInvariant == Spec => []Inv
<1>1. Init => Inv
  <2> SUFFICES ASSUME Init PROVE Inv
    OBVIOUS
  <2>1. ServerInv
    BY DEF Init, ServerInit, ServerInv, HandlerStates, Running
  <2>2. PushTypes /\ \A r \in Requests : PushOf(r)
    BY PushAssumption DEF Init, PushTypes, PushOf
  <2>. QED  BY <2>1, <2>2 DEF Inv, PushInv
<1>2. Inv /\ [Next]_vars => Inv'
  <2> SUFFICES ASSUME Inv, [Next]_vars PROVE Inv'
    OBVIOUS
  <2>1. CASE UNCHANGED vars
    BY <2>1 DEF vars, process, pushing, Inv, ServerInv, PushInv, PushTypes, PushOf, Up,
                Running, validateConfig
  <2>2. CASE ServerStep /\ UNCHANGED pushing
    <3>1. ServerInv' /\ \A r \in Requests : handlers[r] # "none" => handlers'[r] # "none"
      BY <2>2, ServerSteps DEF Inv
    <3>. QED  BY <2>2, <3>1 DEF pushing, Inv, PushInv, PushTypes, PushOf
  <2>. QED  BY <2>1, <2>2, CommandSteps, WriterSteps, HandlerSteps DEF Next
<1>. QED  BY <1>1, <1>2, PTL DEF Spec

\* Whatever configuration is accepted, and whenever a signal, a failing listener or
\* the end of the grace comes, a handler finds the token store, the clients it uses
\* and its limits for as long as it runs.
THEOREM HandlersAreServed == Spec => []HandlersHaveWhatTheyNeed
<1>1. Inv => HandlersHaveWhatTheyNeed
  BY ServerInvSuffices DEF Inv
<1>. QED  BY <1>1, PushInvariant, PTL

\* A handler goes on with the whole archive or not at all.
THEOREM ArchivesAreWhole == Spec => []WholeArchiveOrNone
<1>1. Inv => WholeArchiveOrNone
  BY DEF Inv, PushInv, PushOf, WholeArchiveOrNone
<1>. QED  BY <1>1, PushInvariant, PTL

\* gimme-cli push reports success only for a version that this run published, with
\* all of its archive.
THEOREM SuccessMeansPublished == Spec => []OkMeansPublished
<1>1. Inv => OkMeansPublished
  BY DEF Inv, PushInv, PushOf, OkMeansPublished
<1>. QED  BY <1>1, PushInvariant, PTL

=============================================================================
