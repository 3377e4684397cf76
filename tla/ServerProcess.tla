--------------------------- MODULE ServerProcess ---------------------------
(***************************************************************************)
(* The gimme process from its configuration to its exit: NewConfig,        *)
(* loadModules and setupServer, with requests in flight and signals at any *)
(* time.                                                                   *)
(*                                                                         *)
(* A handler is only known here by whether it is running: PackageStore,    *)
(* Delivery and the token stores have what handlers do.  What they need is *)
(* here: the clients of Redis and PostgreSQL and the token store, opened   *)
(* before the server listens and closed after it has drained.              *)
(***************************************************************************)
EXTENDS Integers

CONSTANTS
  Configs,      \* the configurations that may be found
  Requests,     \* requests that may arrive
  MaxInt,       \* the largest int64
  MaxSignals    \* bound: signals sent to the process

ASSUME ServerAssumption == MaxInt \in Nat /\ MaxSignals \in Nat

\* A size is a number and a unit; nothing else is assumed of a configuration.
ASSUME ConfigsAssumption ==
  \A c \in Configs : \A size \in {c.maxSize, c.maxUncompressed} :
    size.halves \in Int /\ size.unit \in Nat

VARIABLES
  config,    \* the configuration, as gimme.yml and the environment give it
  proc,      \* where the main goroutine is
  exit,      \* how the process ended: "running", "ok", "fatal" or "signal"
  redis,     \* the shared Redis client: "none", "open" or "closed"
  pg,        \* the PostgreSQL pool: "none", "open" or "closed"
  tokens,    \* the token store: "none", "open" or "closed"
  listener,  \* the goroutine of ListenAndServe: "none", "starting", "open",
             \* "closed", or "stuck" in its send to quit
  quit,      \* how many signals are in the quit channel, whose capacity is 1
  notified,  \* whether signal.Notify is in force
  handlers,  \* each request: "none", "running", "answered" or "cut"
  signals    \* how many signals were sent

process == <<config, proc, exit, redis, pg, tokens, listener, quit, notified,
             handlers, signals>>

ServerInit ==
  /\ config   \in Configs
  /\ proc     = "config"
  /\ exit     = "running"
  /\ redis    = "none"
  /\ pg       = "none"
  /\ tokens   = "none"
  /\ listener = "none"
  /\ quit     = 0
  /\ notified = FALSE
  /\ handlers = [r \in Requests |-> "none"]
  /\ signals  = 0

Up == exit = "running"
Running == { r \in Requests : handlers[r] = "running" }

\* The process ends, and what its handlers were doing with it.
Exit(how) ==
  /\ exit' = how
  /\ handlers' = [r \in Requests |->
                    IF r \in Running THEN "cut" ELSE handlers[r]]

-----------------------------------------------------------------------------
(* Configuration                                                           *)

\* A size as it is written: a number of halves, perhaps negative, and a unit; 0
\* units is a text that sizePattern does not match.  Half a byte is cut off.
parseSize(size) ==
  IF \/ size.unit = 0
     \/ size.halves * size.unit >= 2 * MaxInt
     \/ size.halves * size.unit <= -2 * (MaxInt + 1)
  THEN [bytes |-> 0, valid |-> FALSE]
  ELSE [bytes |-> (size.halves * size.unit) \div 2, valid |-> TRUE]

sizeProblem(size) == ~parseSize(size).valid \/ parseSize(size).bytes <= 0

\* Mutant of validateConfig: redis_url is asked for by the token store only.
validateConfigCacheless(c) ==
  /\ c.auth \in {"basic", "oidc"} /\ c.authFields
  /\ c.required
  /\ ~sizeProblem(c.maxSize) /\ ~sizeProblem(c.maxUncompressed)
  /\ c.maxEntries > 0
  /\ c.cache \in {"off", "redis"}
  /\ c.mode \in {"file", "redis", "postgres"}
  /\ c.mode = "redis" => c.redisURL
  /\ c.mode = "postgres" => c.pgURL

\* No problem is found.  "authFields" are the credentials of basic mode or the
\* issuer, client and redirect of oidc mode, "required" the secret of 32 bytes
\* and the S3 settings.
validateConfig(c) ==
  /\ c.auth \in {"basic", "oidc"} /\ c.authFields
  /\ c.required
  /\ ~sizeProblem(c.maxSize) /\ ~sizeProblem(c.maxUncompressed)
  /\ c.maxEntries > 0
  /\ c.cache # "off" => c.cache = "redis" /\ c.redisURL
  /\ c.mode \in {"file", "redis", "postgres"}
  /\ c.mode = "redis" => c.redisURL
  /\ c.mode = "postgres" => c.pgURL

Fatal ==
  /\ Exit("fatal")
  /\ UNCHANGED <<config, proc, redis, pg, tokens, listener, quit, notified, signals>>

LoadConfig ==
  /\ Up /\ proc = "config"
  /\ \/ /\ validateConfig(config)
        /\ proc' = "redis"
        /\ UNCHANGED <<config, exit, redis, pg, tokens, listener, quit, notified,
                       handlers, signals>>
     \/ ~validateConfig(config) /\ Fatal

-----------------------------------------------------------------------------
(* loadModules.  Each of its calls to the outside may fail, which is fatal. *)

StartUpFails ==
  /\ Up
  /\ \/ proc = "redis" /\ config.redisURL
     \/ proc = "tokens" /\ config.mode # "redis"
     \/ proc = "auth" /\ config.auth = "oidc"
     \/ proc = "bucket"
  /\ Fatal

Become(next) ==
  /\ proc' = next
  /\ UNCHANGED <<config, exit, listener, quit, notified, handlers, signals>>

ConnectRedis ==
  /\ Up /\ proc = "redis"
  /\ redis' = IF config.redisURL THEN "open" ELSE "none"
  /\ Become("tokens")
  /\ UNCHANGED <<pg, tokens>>

configureTokenStore ==
  /\ Up /\ proc = "tokens"
  /\ tokens' = "open"
  /\ pg' = IF config.mode = "postgres" THEN "open" ELSE pg
  /\ Become("auth")
  /\ UNCHANGED redis

configureAuthProvider ==
  /\ Up /\ proc = "auth"
  /\ Become("bucket")
  /\ UNCHANGED <<redis, pg, tokens>>

CreateBucket ==
  /\ Up /\ proc = "bucket"
  /\ Become("listen")
  /\ UNCHANGED <<redis, pg, tokens>>

-----------------------------------------------------------------------------
(* setupServer                                                             *)

\* The goroutine of ListenAndServe is started.
StartListener ==
  /\ Up /\ proc = "listen"
  /\ listener' = "starting"
  /\ proc' = "notify"
  /\ UNCHANGED <<config, exit, redis, pg, tokens, quit, notified, handlers, signals>>

Notify ==
  /\ Up /\ proc = "notify"
  /\ notified' = TRUE
  /\ proc' = "wait"
  /\ UNCHANGED <<config, exit, redis, pg, tokens, listener, quit, handlers, signals>>

\* It listens, unless Shutdown came first: then it returns ErrServerClosed.
Listen ==
  /\ Up /\ listener = "starting"
  /\ listener' = IF proc \in {"notify", "wait"} THEN "open" ELSE "closed"
  /\ UNCHANGED <<config, proc, exit, redis, pg, tokens, quit, notified, handlers, signals>>

\* The port is taken, or Accept fails: the goroutine sends SIGTERM to quit, and
\* waits when the channel is full.
ListenFails ==
  /\ Up /\ listener \in {"starting", "open"}
  /\ proc \in {"notify", "wait"}
  /\ IF quit = 0 THEN quit' = 1 /\ listener' = "closed"
     ELSE quit' = quit /\ listener' = "stuck"
  /\ UNCHANGED <<config, proc, exit, redis, pg, tokens, notified, handlers, signals>>

\* SIGINT or SIGTERM.  It ends the process unless signal.Notify is in force;
\* then it goes to the channel, and is dropped when the channel is full.
Signal ==
  /\ Up /\ signals < MaxSignals
  /\ signals' = signals + 1
  /\ \/ /\ ~notified
        /\ Exit("signal")
        /\ UNCHANGED <<quit, proc, listener>>
     \/ /\ notified
        /\ quit' = 1
        /\ UNCHANGED <<proc, exit, listener, handlers>>
  /\ UNCHANGED <<config, redis, pg, tokens, notified>>

\* A request comes in: its handler runs until it answers.
Accept(r) ==
  /\ Up /\ listener = "open" /\ handlers[r] = "none"
  /\ handlers' = [handlers EXCEPT ![r] = "running"]
  /\ UNCHANGED <<config, proc, exit, redis, pg, tokens, listener, quit, notified, signals>>

Respond(r) ==
  /\ Up /\ r \in Running
  /\ handlers' = [handlers EXCEPT ![r] = "answered"]
  /\ UNCHANGED <<config, proc, exit, redis, pg, tokens, listener, quit, notified, signals>>

\* The main goroutine takes the signal; Shutdown closes the listener first.  A
\* goroutine that waits to send can go on.
BeginShutdown ==
  /\ Up /\ proc = "wait" /\ quit = 1
  /\ proc' = "drain"
  /\ quit' = IF listener = "stuck" THEN 1 ELSE 0
  /\ listener' = IF listener \in {"open", "stuck"} THEN "closed" ELSE listener
  /\ UNCHANGED <<config, exit, redis, pg, tokens, notified, handlers, signals>>

\* Shutdown returns when no handler is running; then the token store is closed.
Drained ==
  /\ Up /\ proc = "drain" /\ Running = {}
  /\ proc' = "tokens closed"
  /\ tokens' = "closed"
  /\ UNCHANGED <<config, exit, redis, pg, listener, quit, notified, handlers, signals>>

\* Mutant of GraceOver: Shutdown gets a context without a deadline.
GraceNeverOver == FALSE /\ UNCHANGED process

\* The 60 seconds are over: the process ends, handlers or not.
GraceOver ==
  /\ Up /\ proc = "drain" /\ Running # {}
  /\ Fatal

CloseClients ==
  /\ Up /\ proc = "tokens closed"
  /\ redis' = IF redis = "open" THEN "closed" ELSE redis
  /\ pg' = IF pg = "open" THEN "closed" ELSE pg
  /\ exit' = "ok"
  /\ UNCHANGED <<config, proc, tokens, listener, quit, notified, handlers, signals>>

MainStep ==
  \/ LoadConfig \/ ConnectRedis \/ configureTokenStore \/ configureAuthProvider
  \/ CreateBucket \/ StartListener \/ Notify \/ BeginShutdown \/ Drained
  \/ GraceOver \/ CloseClients

ServerStep == MainStep \/ StartUpFails \/ Listen \/ ListenFails \/ Signal

-----------------------------------------------------------------------------
(* Properties                                                              *)

\* Whatever configuration is accepted, what a handler relies on is there for as
\* long as it runs: the token store, the Redis client whenever the store or the
\* cache is Redis-backed (application.go:123, "validateConfig ensures redis_url is
\* set"), the pool in postgres mode, and upload limits that are positive and fit
\* in 64 bits.  A process that has ended by itself leaves no handler behind: only
\* the end of the grace or a signal before signal.Notify cuts a request off.
HandlersHaveWhatTheyNeed ==
  exit \in {"running", "ok"} /\ Running # {} =>
    /\ tokens = "open"
    /\ config.mode = "redis" \/ config.cache # "off" => redis = "open"
    /\ config.mode = "postgres" => pg = "open"
    /\ \A size \in {config.maxSize, config.maxUncompressed} :
         parseSize(size).bytes \in 1..(MaxInt - 1)

\* A signal that Notify caught, or a listener that failed, ends the process,
\* though a handler may never return and a second signal may be dropped.
SignalEnds == quit = 1 ~> ~Up

=============================================================================
