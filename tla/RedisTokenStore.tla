-------------------------- MODULE RedisTokenStore --------------------------
(***************************************************************************)
(* The Redis-backed token store, as several gimme nodes share it.  A token *)
(* is three things in Redis: its entry (token:<id>), the reverse index     *)
(* from its hash (token:hash:<hash>), and its id in the set                *)
(* token:__index__.  No method is atomic: Redis interleaves the commands   *)
(* of all the methods under way, pipelines included.                       *)
(*                                                                         *)
(* Any call may fail.  The client then sends it again, up to MaxRetries    *)
(* times, while the commands it has given up may have run, may run later,  *)
(* or may never run.  For Save's pipeline every sending is modelled.  What *)
(* a read does when it is sent again is what a later read does; sending    *)
(* revokeScript, SREM or the pipeline of Delete again adds nothing to a    *)
(* second request that makes the same call and is told that it failed.     *)
(***************************************************************************)
EXTENDS Integers, Sequences

CONSTANTS
  Tokens,      \* the tokens CreateToken generates: fresh id, fresh hash
  Clients,     \* requests that authenticate, revoke, delete or list
  MaxRetries,  \* max_retries of the Redis URL, 3 when it says nothing
  MaxErrors    \* bound: calls to Redis that fail

ASSUME RedisAssumption == MaxRetries \in Nat /\ MaxErrors \in Nat

VARIABLES
  key,      \* token:<id>: no entry, an entry, or one with RevokedAt set
  ttl,      \* its time to live: running, in its last instant, or none
  hash,     \* the tokens with a token:hash:<hash>
  index,    \* token:__index__
  pipe,     \* for each sending of Save's pipeline: the command it is at
  answer,   \* the answer to each POST /tokens
  client,   \* each request: its method, its token, where it is, its outcome
  ended,    \* history: tokens whose Revoke or Delete was firm and returned true
  deleted,  \* history: tokens whose Delete was
  expired,  \* tokens whose ExpiresAt is past
  issued,   \* history: tokens that could be looked up by their hash
  errors

vars == <<key, ttl, hash, index, pipe, answer, client, ended, deleted, expired,
          issued, errors>>

Idle == [op |-> "none"]

Methods == {"auth", "revoke", "delete", "list"}

Points == {"hash", "key", "script", "del", "delHash", "srem", "unlist", "next", "done"}

\* A request; late marks one that began when its token had ended already, and firm
\* a Delete whose DEL came when Save was settled.
Calls == [op : Methods, token : Tokens, late : BOOLEAN, ids : SUBSET Tokens,
          pc : Points, res : BOOLEAN, firm : BOOLEAN]

\* The sendings of a pipeline.
Attempts == 0..MaxRetries

Init ==
  /\ key    = [t \in Tokens |-> "absent"]
  /\ ttl    = [t \in Tokens |-> "running"]
  /\ hash   = {} /\ index = {}
  /\ pipe   = [t \in Tokens |-> [n \in Attempts |-> 0]]
  /\ answer = [t \in Tokens |-> "none"]
  /\ client = [c \in Clients |-> Idle]
  /\ ended  = {} /\ deleted = {} /\ expired = {} /\ issued = {}
  /\ errors = 0

Error == errors < MaxErrors /\ errors' = errors + 1

-----------------------------------------------------------------------------
(* Save                                                                    *)

\* Mutant of SavePipeline: the id is listed before the entry is there.
SavePipelineIndexFirst == <<"index", "key", "hash">>

SavePipeline == <<"key", "hash", "index">>

\* The command the n-th sending of the pipeline of t has to run next.
Sends(t, n, cmd) == pipe[t][n] \in 1..3 /\ SavePipeline[pipe[t][n]] = cmd

Advance(t, n) == pipe' = [pipe EXCEPT ![t][n] = @ + 1]

\* The client waits for the replies of the n-th sending.
Current(t, n) ==
  /\ answer[t] = "pending" /\ pipe[t][n] # 0
  /\ \A m \in Attempts : m > n => pipe[t][m] = 0

\* Nothing is going to store t any more: Save has returned, and no sending of its
\* pipeline has a SET left to run.
Settled(t) ==
  /\ answer[t] \in {"201", "500"}
  /\ \A n \in Attempts : pipe[t][n] \notin {1, 2}

\* Mutant of Save: the handler saves once more what it could not save.
SaveAgain(t) ==
  /\ answer[t] \in {"none", "500"} /\ t \notin expired
  /\ answer' = [answer EXCEPT ![t] = "pending"]
  /\ pipe' = [pipe EXCEPT ![t] = [n \in Attempts |-> IF n = 0 THEN 1 ELSE 0]]
  /\ UNCHANGED <<key, ttl, hash, index, client, ended, deleted, expired, issued, errors>>

\* A token that has expired by now is refused; any other has a time to live.
Save(t) ==
  /\ answer[t] = "none"
  /\ IF t \in expired
     THEN answer' = [answer EXCEPT ![t] = "500"] /\ UNCHANGED pipe
     ELSE /\ answer' = [answer EXCEPT ![t] = "pending"]
          /\ pipe' = [pipe EXCEPT ![t][0] = 1]
  /\ UNCHANGED <<key, ttl, hash, index, client, ended, deleted, expired, issued, errors>>

SetKey(t, n) ==
  /\ Sends(t, n, "key")
  /\ Advance(t, n)
  /\ key' = [key EXCEPT ![t] = "active"]
  /\ ttl' = [ttl EXCEPT ![t] = "running"]
  /\ UNCHANGED <<hash, index, answer, client, ended, deleted, expired, issued, errors>>

SetHash(t, n) ==
  /\ Sends(t, n, "hash")
  /\ Advance(t, n)
  /\ hash' = hash \union {t}
  /\ issued' = issued \union {t}
  /\ UNCHANGED <<key, ttl, index, answer, client, ended, deleted, expired, errors>>

AddIndex(t, n) ==
  /\ Sends(t, n, "index")
  /\ Advance(t, n)
  /\ index' = index \union {t}
  /\ UNCHANGED <<key, ttl, hash, answer, client, ended, deleted, expired, issued, errors>>

SaveReturns(t) ==
  /\ \E n \in Attempts : Current(t, n) /\ pipe[t][n] = 4
  /\ answer' = [answer EXCEPT ![t] = "201"]
  /\ UNCHANGED <<key, ttl, hash, index, pipe, client, ended, deleted, expired, issued,
                 errors>>

\* The replies are lost, and the client sends all three commands again.
SaveResends(t) ==
  /\ \E n \in Attempts :
       Current(t, n) /\ n < MaxRetries /\ pipe' = [pipe EXCEPT ![t][n + 1] = 1]
  /\ Error
  /\ UNCHANGED <<key, ttl, hash, index, answer, client, ended, deleted, expired, issued>>

\* An error that is not retried, or once too often.
SaveFails(t) ==
  /\ answer[t] = "pending"
  /\ Error
  /\ answer' = [answer EXCEPT ![t] = "500"]
  /\ UNCHANGED <<key, ttl, hash, index, pipe, client, ended, deleted, expired, issued>>

\* What is left of a sending nobody waits for does not reach Redis.
Lost(t, n) ==
  /\ pipe[t][n] \in 1..3 /\ ~Current(t, n)
  /\ pipe' = [pipe EXCEPT ![t][n] = 4]
  /\ UNCHANGED <<key, ttl, hash, index, answer, client, ended, deleted, expired, issued,
                 errors>>

-----------------------------------------------------------------------------
(* The calls of a request                                                  *)

At(c, op, pc) == client[c] # Idle /\ client[c].op = op /\ client[c].pc = pc

Goto(c, pc) == client' = [client EXCEPT ![c].pc = pc]

Finish(c, res) == client' = [client EXCEPT ![c].pc = "done", ![c].res = res]

Begin(c, op, t, pc, ids) ==
  /\ client[c] = Idle
  /\ client' = [client EXCEPT ![c] = [op |-> op, token |-> t, late |-> t \in ended,
                                      ids |-> ids, pc |-> pc, res |-> FALSE,
                                      firm |-> FALSE]]

\* The caller has the outcome.
Respond(c) ==
  /\ client[c] # Idle /\ client[c].pc = "done"
  /\ client' = [client EXCEPT ![c] = Idle]
  /\ UNCHANGED <<key, ttl, hash, index, pipe, answer, ended, deleted, expired, issued,
                 errors>>

\* A raw token is known from the answer to its creation, an id also from List.
Known(t) == answer[t] = "201" \/ t \in index

GetByHash(c, t) ==
  /\ answer[t] = "201"
  /\ Begin(c, "auth", t, "hash", {})
  /\ UNCHANGED <<key, ttl, hash, index, pipe, answer, ended, deleted, expired, issued,
                 errors>>

Revoke(c, t) ==
  /\ Known(t)
  /\ Begin(c, "revoke", t, "key", {})
  /\ UNCHANGED <<key, ttl, hash, index, pipe, answer, ended, deleted, expired, issued,
                 errors>>

Delete(c, t) ==
  /\ Known(t)
  /\ Begin(c, "delete", t, "key", {})
  /\ UNCHANGED <<key, ttl, hash, index, pipe, answer, ended, deleted, expired, issued,
                 errors>>

\* List reads the index and then goes through the ids.
List(c, t) ==
  /\ t \in index
  /\ Begin(c, "list", t, "next", index)
  /\ UNCHANGED <<key, ttl, hash, index, pipe, answer, ended, deleted, expired, issued,
                 errors>>

ListNext(c) ==
  /\ At(c, "list", "next")
  /\ \/ client[c].ids = {} /\ Finish(c, TRUE)
     \/ \E t \in client[c].ids :
          client' = [client EXCEPT ![c].pc = "key", ![c].token = t, ![c].ids = @ \ {t}]
  /\ UNCHANGED <<key, ttl, hash, index, pipe, answer, ended, deleted, expired, issued,
                 errors>>

\* The lookup of the hash; an error counts as not found.
GetHash(c) ==
  /\ At(c, "auth", "hash")
  /\ \/ client[c].token \in hash /\ Goto(c, "key") /\ UNCHANGED errors
     \/ client[c].token \notin hash /\ Finish(c, FALSE) /\ UNCHANGED errors
     \/ Error /\ Finish(c, FALSE)
  /\ UNCHANGED <<key, ttl, hash, index, pipe, answer, ended, deleted, expired, issued>>

\* getByID finds an entry; the middleware then asks IsValid.
GetKey(c) ==
  /\ client[c] # Idle /\ client[c].pc = "key"
  /\ key[client[c].token] # "absent"
  /\ LET t == client[c].token IN
     CASE client[c].op = "auth"   -> Finish(c, key[t] = "active" /\ t \notin expired)
       [] client[c].op = "revoke" -> Goto(c, "script")
       [] client[c].op = "delete" -> Goto(c, "del")
       [] client[c].op = "list"   -> Goto(c, "next")
  /\ UNCHANGED <<key, ttl, hash, index, pipe, answer, ended, deleted, expired, issued,
                 errors>>

\* getByID finds none, or fails, which looks the same: Revoke and Delete return
\* false; GetByHash and List take the id out of the index.
GetKeyMisses(c) ==
  /\ client[c] # Idle /\ client[c].pc = "key"
  /\ IF key[client[c].token] = "absent" THEN UNCHANGED errors ELSE Error
  /\ IF client[c].op \in {"auth", "list"} THEN Goto(c, "unlist") ELSE Finish(c, FALSE)
  /\ UNCHANGED <<key, ttl, hash, index, pipe, answer, ended, deleted, expired, issued>>

\* A failing SREM is logged.
Unlist(c) ==
  /\ client[c] # Idle /\ client[c].pc = "unlist"
  /\ IF client[c].op = "auth" THEN Finish(c, FALSE) ELSE Goto(c, "next")
  /\ \/ index' = index \ {client[c].token} /\ UNCHANGED errors
     \/ UNCHANGED index /\ Error
  /\ UNCHANGED <<key, ttl, hash, pipe, answer, ended, deleted, expired, issued>>

-----------------------------------------------------------------------------
(* revokeScript                                                            *)

\* Mutant of revokeScript: it does not look whether the entry is still there.
revokeScriptBlind(t) ==
  /\ key' = [key EXCEPT ![t] = "revoked"]
  /\ ttl' = [ttl EXCEPT ![t] = IF @ = "running" THEN @ ELSE "none"]

\* Runs atomically.  PTTL is -2 when there is no entry, 0 in its last instant.
revokeScript(t) ==
  IF key[t] = "absent" THEN UNCHANGED <<key, ttl>>
  ELSE /\ key' = [key EXCEPT ![t] = "revoked"]
       /\ ttl' = [ttl EXCEPT ![t] = IF @ = "running" THEN @ ELSE "none"]

RunScript(c) ==
  /\ At(c, "revoke", "script")
  /\ revokeScript(client[c].token)
  /\ Finish(c, key[client[c].token] # "absent")
  /\ ended' = IF key[client[c].token] # "absent" /\ Settled(client[c].token)
              THEN ended \union {client[c].token} ELSE ended
  /\ UNCHANGED <<hash, index, pipe, answer, deleted, expired, issued, errors>>

\* Mutant of ScriptFails: the error is logged and true is returned.
ScriptFailsUnseen(c) ==
  /\ At(c, "revoke", "script")
  /\ Error
  /\ UNCHANGED <<key, ttl>>
  /\ Finish(c, TRUE)
  /\ ended' = IF Settled(client[c].token) THEN ended \union {client[c].token} ELSE ended
  /\ UNCHANGED <<hash, index, pipe, answer, deleted, expired, issued>>

\* The script's reply is lost: it has run, or never does.
ScriptFails(c) ==
  /\ At(c, "revoke", "script")
  /\ Error
  /\ revokeScript(client[c].token) \/ UNCHANGED <<key, ttl>>
  /\ Finish(c, FALSE)
  /\ UNCHANGED <<hash, index, pipe, answer, ended, deleted, expired, issued>>

-----------------------------------------------------------------------------
(* The pipeline of Delete; res is whether its DEL found the entry          *)

DelKey(c) ==
  /\ At(c, "delete", "del")
  /\ key' = [key EXCEPT ![client[c].token] = "absent"]
  /\ client' = [client EXCEPT ![c].pc = "delHash",
                              ![c].res = key[client[c].token] # "absent",
                              ![c].firm = Settled(client[c].token)]
  /\ UNCHANGED <<ttl, hash, index, pipe, answer, ended, deleted, expired, issued, errors>>

DelHash(c) ==
  /\ At(c, "delete", "delHash")
  /\ hash' = hash \ {client[c].token}
  /\ Goto(c, "srem")
  /\ UNCHANGED <<key, ttl, index, pipe, answer, ended, deleted, expired, issued, errors>>

RemIndex(c) ==
  /\ At(c, "delete", "srem")
  /\ index' = index \ {client[c].token}
  /\ Goto(c, "done")
  /\ IF client[c].res /\ client[c].firm
     THEN /\ ended'   = ended \union {client[c].token}
          /\ deleted' = deleted \union {client[c].token}
     ELSE UNCHANGED <<ended, deleted>>
  /\ UNCHANGED <<key, ttl, hash, pipe, answer, expired, issued, errors>>

\* The replies are lost.  That the commands behind this one may run after the
\* caller was told is a Delete that fails later: no property sees that caller.
DeleteFails(c) ==
  /\ client[c] # Idle /\ client[c].op = "delete"
  /\ client[c].pc \in {"del", "delHash", "srem"}
  /\ Error
  /\ Finish(c, FALSE)
  /\ UNCHANGED <<key, ttl, hash, index, pipe, answer, ended, deleted, expired, issued>>

-----------------------------------------------------------------------------
(* Time                                                                    *)

ClockPasses(t) ==
  /\ t \notin expired
  /\ expired' = expired \union {t}
  /\ UNCHANGED <<key, ttl, hash, index, pipe, answer, client, ended, deleted, issued,
                 errors>>

\* The entry's time to live is down to 0 ms, and then the entry goes.
LastInstant(t) ==
  /\ t \in expired /\ key[t] # "absent" /\ ttl[t] = "running"
  /\ ttl' = [ttl EXCEPT ![t] = "last"]
  /\ UNCHANGED <<key, hash, index, pipe, answer, client, ended, deleted, expired, issued,
                 errors>>

Evict(t) ==
  /\ key[t] # "absent" /\ ttl[t] = "last"
  /\ key' = [key EXCEPT ![t] = "absent"]
  /\ UNCHANGED <<ttl, hash, index, pipe, answer, client, ended, deleted, expired, issued,
                 errors>>

EvictHash(t) ==
  /\ t \in expired /\ t \in hash
  /\ hash' = hash \ {t}
  /\ UNCHANGED <<key, ttl, index, pipe, answer, client, ended, deleted, expired, issued,
                 errors>>

-----------------------------------------------------------------------------
SaveStep(t) ==
  \/ Save(t) \/ SaveReturns(t) \/ SaveResends(t) \/ SaveFails(t)
  \/ \E n \in Attempts : SetKey(t, n) \/ SetHash(t, n) \/ AddIndex(t, n) \/ Lost(t, n)

Call(c, t) == GetByHash(c, t) \/ Revoke(c, t) \/ Delete(c, t) \/ List(c, t)

CallStep(c) ==
  \/ ListNext(c) \/ GetHash(c) \/ GetKey(c) \/ GetKeyMisses(c) \/ Unlist(c)
  \/ RunScript(c) \/ ScriptFails(c)
  \/ DelKey(c) \/ DelHash(c) \/ RemIndex(c) \/ DeleteFails(c)
  \/ Respond(c)

Time(t) == ClockPasses(t) \/ LastInstant(t) \/ Evict(t) \/ EvictHash(t)

Next ==
  \/ \E t \in Tokens : SaveStep(t) \/ Time(t)
  \/ \E c \in Clients : CallStep(c) \/ \E t \in Tokens : Call(c, t)

Spec == Init /\ [][Next]_vars

-----------------------------------------------------------------------------
(* Properties                                                              *)

\* Every request stands at a command of its own method, and every token's entry is
\* in one of the states IsValid tells apart.
TypeOK ==
  /\ key    \in [Tokens -> {"absent", "active", "revoked"}]
  /\ ttl    \in [Tokens -> {"running", "last", "none"}]
  /\ hash \subseteq Tokens /\ index \subseteq Tokens
  /\ pipe   \in [Tokens -> [Attempts -> 0..4]]
  /\ answer \in [Tokens -> {"none", "pending", "201", "500"}]
  /\ client \in [Clients -> Calls \union {Idle}]
  /\ ended \subseteq Tokens /\ deleted \subseteq Tokens
  /\ expired \subseteq Tokens /\ issued \subseteq Tokens
  /\ errors \in Nat

Ended(c) == client[c] # Idle /\ client[c].pc = "done"

\* A request that presents a token after its revocation or deletion was confirmed
\* is turned away, whichever node it reaches and whatever else is under way, if no
\* sending of Save's pipeline could still store the token: one that can undoes a
\* revocation that came before it.
RevocationSticks ==
  \A c \in Clients :
    Ended(c) /\ client[c].op = "auth" /\ client[c].res => ~client[c].late

\* An entry deleted after Save had settled does not come back: a Revoke that read it
\* before the deletion does not write it again.
NoResurrection == \A t \in deleted : key[t] = "absent"

\* As long as Redis answers, List shows every token that was issued and is still
\* stored: no lookup, listing or save running beside another takes a live token
\* out of the index.
IndexComplete ==
  errors = 0 =>
    \A t \in Tokens : answer[t] = "201" /\ key[t] # "absent" => t \in index

Valid(t) == key[t] = "active" /\ t \in hash /\ t \notin expired

\* Save is not done with a token that could be presented: it may become valid again.
Unsettled(t) == t \in issued /\ t \notin expired /\ ~Settled(t)

\* What whoever presents a token may be told.
TokenStatus ==
  [t \in Tokens |-> IF Valid(t) \/ Unsettled(t) THEN "valid"
                    ELSE IF t \in issued THEN "dead" ELSE "unissued"]

Lifecycle == INSTANCE TokenLifecycle WITH status <- TokenStatus

\* The store implements the token lifecycle, whatever calls fail and however the
\* commands of its methods interleave: a token that is refused when Save has settled
\* is never accepted again, and neither is one that has expired.
ImplementsLifecycle == Lifecycle!Spec

\* What a call m has learnt remains true.
CallInv(m) ==
  /\ m.op # "list" /\ m.late => m.token \in ended
  /\ m.op = "auth" /\ m.res => ~m.late
  /\ m.op = "delete" /\ m.firm => Settled(m.token) /\ key[m.token] = "absent"

\* Why all of these hold, as an inductive invariant: a token stays settled, and then
\* only SET could have brought back what revokeScript or DEL took away; a request
\* that is late has a token that ended; and only what was set is found.
DataInv ==
  /\ \A t \in Tokens : answer[t] = "none" =>
       t \notin issued /\ \A n \in Attempts : pipe[t][n] = 0
  /\ hash \subseteq issued
  /\ \A t \in ended   : Settled(t) /\ key[t] # "active"
  /\ \A t \in deleted : Settled(t) /\ key[t] = "absent"

CallsInv == \A c \in Clients : client[c] # Idle => CallInv(client[c])

RedisInv == DataInv /\ CallsInv

=============================================================================
