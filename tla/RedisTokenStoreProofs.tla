----------------------- MODULE RedisTokenStoreProofs -----------------------
(***************************************************************************)
(* What RedisTokenStore promises for any number of tokens, requests and    *)
(* failed calls: revocation and deletion are final, the index loses no     *)
(* entry but for known causes, and the token lifecycle is implemented.     *)
(***************************************************************************)
EXTENDS RedisTokenStore, TLAPS

(* How the calls move.  Rest(c) is what a step of call c leaves alone.     *)

Rest(c) == \A d \in Clients \ {c} : client'[d] = client[d]

\* A call that moves on keeps all but its place.
LEMMA GotoMoves ==
  ASSUME TypeOK, NEW c \in Clients, client[c] # Idle, NEW pc \in Points, Goto(c, pc)
  PROVE  /\ client[c] \in Calls /\ client'[c] \in Calls /\ client'[c] # Idle
         /\ client'[c].op = client[c].op /\ client'[c].token = client[c].token
         /\ client'[c].late = client[c].late /\ client'[c].res = client[c].res
         /\ client'[c].pc = pc /\ client'[c].ids = client[c].ids
         /\ client'[c].firm = client[c].firm
         /\ Rest(c)
         /\ client' \in [Clients -> Calls \union {Idle}]
<1>1. client[c] \in Calls
  BY DEF TypeOK
<1>2. client' = [client EXCEPT ![c] = [client[c] EXCEPT !.pc = pc]]
  BY DEF Goto
<1>3. /\ client'[c] = [client[c] EXCEPT !.pc = pc]
      /\ Rest(c)
  BY <1>2 DEF TypeOK, Rest
<1>4. /\ client'[c] \in Calls
      /\ client'[c].op = client[c].op /\ client'[c].token = client[c].token
      /\ client'[c].late = client[c].late /\ client'[c].res = client[c].res
      /\ client'[c].pc = pc /\ client'[c].ids = client[c].ids
      /\ client'[c].firm = client[c].firm
  BY <1>1, <1>3 DEF Calls
<1>5. client'[c] # Idle
  BY <1>4, <1>1 DEF Calls, Idle, Methods
<1>6. client' \in [Clients -> Calls \union {Idle}]
  BY <1>2, <1>3, <1>4 DEF TypeOK
<1>. QED  BY <1>1, <1>3, <1>4, <1>5, <1>6

\* A call that returns has its outcome.
LEMMA FinishMoves ==
  ASSUME TypeOK, NEW c \in Clients, client[c] # Idle, NEW res \in BOOLEAN, Finish(c, res)
  PROVE  /\ client[c] \in Calls /\ client'[c] \in Calls /\ client'[c] # Idle
         /\ client'[c].op = client[c].op /\ client'[c].token = client[c].token
         /\ client'[c].late = client[c].late /\ client'[c].res = res
         /\ client'[c].pc = "done" /\ client'[c].ids = client[c].ids
         /\ client'[c].firm = client[c].firm
         /\ Rest(c)
         /\ client' \in [Clients -> Calls \union {Idle}]
<1>1. client[c] \in Calls
  BY DEF TypeOK
<1>2. /\ client'[c] = [client[c] EXCEPT !.pc = "done", !.res = res]
      /\ Rest(c)
      /\ client' = [client EXCEPT ![c] = client'[c]]
  BY DEF TypeOK, Rest, Finish
<1>4. /\ client'[c] \in Calls
      /\ client'[c].op = client[c].op /\ client'[c].token = client[c].token
      /\ client'[c].late = client[c].late /\ client'[c].res = res
      /\ client'[c].pc = "done" /\ client'[c].ids = client[c].ids
      /\ client'[c].firm = client[c].firm
  BY <1>1, <1>2 DEF Calls, Points
<1>5. client'[c] # Idle
  BY <1>4, <1>1 DEF Calls, Idle, Methods
<1>6. client' \in [Clients -> Calls \union {Idle}]
  BY <1>2, <1>4 DEF TypeOK
<1>. QED  BY <1>1, <1>2, <1>4, <1>5, <1>6

\* A call begins with its token, and is late when the token has ended.
LEMMA BeginMoves ==
  ASSUME TypeOK, NEW c \in Clients, NEW op \in Methods, NEW t \in Tokens,
         NEW pc \in Points, NEW ids \in SUBSET Tokens, Begin(c, op, t, pc, ids)
  PROVE  /\ client'[c] \in Calls /\ client'[c] # Idle
         /\ client'[c].op = op /\ client'[c].token = t
         /\ client'[c].late = (t \in ended) /\ client'[c].res = FALSE
         /\ client'[c].pc = pc /\ client'[c].ids = ids /\ client'[c].firm = FALSE
         /\ Rest(c)
         /\ client' \in [Clients -> Calls \union {Idle}]
<1>1. /\ client'[c] = [op |-> op, token |-> t, late |-> t \in ended,
                       ids |-> ids, pc |-> pc, res |-> FALSE, firm |-> FALSE]
      /\ Rest(c)
      /\ client' = [client EXCEPT ![c] = client'[c]]
  BY DEF TypeOK, Rest, Begin
<1>2. (t \in ended) \in BOOLEAN
  OBVIOUS
<1>3. client'[c] \in Calls
  BY <1>1, <1>2 DEF Calls
<1>4. client'[c] # Idle
  BY <1>1 DEF Idle, Methods
<1>5. client' \in [Clients -> Calls \union {Idle}]
  BY <1>1, <1>3 DEF TypeOK
<1>. QED  BY <1>1, <1>3, <1>4, <1>5

-----------------------------------------------------------------------------
(* TypeOK and RedisInv are inductive                                       *)

Inv == TypeOK /\ RedisInv

\* One sending of one token's pipeline moves.
LEMMA PipeMoves ==
  ASSUME TypeOK, NEW t \in Tokens, NEW n \in Attempts, NEW v \in 0..4,
         pipe' = [pipe EXCEPT ![t][n] = v]
  PROVE  /\ pipe' \in [Tokens -> [Attempts -> 0..4]]
         /\ pipe'[t][n] = v
         /\ \A m \in Attempts \ {n} : pipe'[t][m] = pipe[t][m]
         /\ \A s \in Tokens \ {t} : pipe'[s] = pipe[s]
  BY DEF TypeOK

\* What is settled stays so, and what is gone by then stays away.
StaysGone ==
  \A t \in Tokens : Settled(t) =>
    Settled(t)' /\ (key[t] = "absent" => key'[t] = "absent")

\* What the calls that do not move have learnt remains true, since nothing that
\* was deleted comes back and nothing that ended revives.
LEMMA CallsKept ==
  ASSUME Inv, NEW c \in Clients, Rest(c),
         ended \subseteq ended',
         StaysGone,
         client'[c] # Idle => CallInv(client[c])'
  PROVE  CallsInv'
<1>1. ASSUME NEW d \in Clients \ {c}, client'[d] # Idle PROVE CallInv(client[d])'
  <2>1. client[d] \in Calls /\ client'[d] = client[d] /\ CallInv(client[d])
    BY <1>1 DEF Inv, TypeOK, RedisInv, CallsInv, Rest
  <2>2. client[d].token \in Tokens
    BY <2>1 DEF Calls
  <2>. QED  BY <2>1, <2>2 DEF CallInv, StaysGone
<1>. QED  BY <1>1 DEF CallsInv

\* The same when no call moves.
LEMMA AllCallsKept ==
  ASSUME Inv, client' = client, ended' = ended,
         StaysGone
  PROVE  CallsInv'
<1>1. ASSUME NEW d \in Clients, client'[d] # Idle PROVE CallInv(client[d])'
  <2>1. client[d] \in Calls /\ client'[d] = client[d] /\ CallInv(client[d])
    BY <1>1 DEF Inv, TypeOK, RedisInv, CallsInv
  <2>2. client[d].token \in Tokens
    BY <2>1 DEF Calls
  <2>. QED  BY <2>1, <2>2 DEF CallInv, StaysGone
<1>. QED  BY <1>1 DEF CallsInv

\* A step that moves no call, and makes no token end, keeps RedisInv if it keeps
\* what the invariant says of the data.
LEMMA DataStep ==
  ASSUME Inv, UNCHANGED <<client, ended, deleted>>, StaysGone,
         \A t \in Tokens : answer'[t] = "none" =>
           t \notin issued' /\ \A n \in Attempts : pipe'[t][n] = 0,
         hash' \subseteq issued',
         \A t \in ended : key'[t] # "active"
  PROVE  RedisInv'
<1>1. CallsInv'
  BY AllCallsKept
<1>2. DataInv'
  <2>1. \A t \in ended   : Settled(t)'
    BY DEF Inv, TypeOK, RedisInv, DataInv, StaysGone
  <2>2. \A t \in deleted : Settled(t)' /\ key'[t] = "absent"
    BY DEF Inv, TypeOK, RedisInv, DataInv, StaysGone
  <2>. QED  BY <2>1, <2>2 DEF DataInv
<1>. QED  BY <1>1, <1>2 DEF RedisInv

\* The commands of one sending, and its loss.
LEMMA SendingSteps ==
  ASSUME Inv, NEW t \in Tokens, NEW n \in Attempts,
         SetKey(t, n) \/ SetHash(t, n) \/ AddIndex(t, n) \/ Lost(t, n)
  PROVE  Inv' /\ StaysGone
<1> USE DEF Inv
<1>1. PICK v \in 2..4 : pipe' = [pipe EXCEPT ![t][n] = v] /\ v > pipe[t][n]
  <2>1. pipe[t][n] \in 1..3
    BY DEF SetKey, SetHash, AddIndex, Lost, Sends
  <2>2. \/ pipe' = [pipe EXCEPT ![t][n] = pipe[t][n] + 1]
        \/ pipe' = [pipe EXCEPT ![t][n] = 4]
    BY DEF SetKey, SetHash, AddIndex, Lost, Advance
  <2>. QED  BY <2>1, <2>2
<1>2. /\ pipe[t][n] \in 1..3
      /\ SetKey(t, n) => pipe[t][n] = 1
      /\ SetHash(t, n) => pipe[t][n] = 2
  BY DEF SetKey, SetHash, AddIndex, Lost, Sends, SavePipeline
<1>3. /\ pipe' \in [Tokens -> [Attempts -> 0..4]]
      /\ pipe'[t][n] = v
      /\ \A m \in Attempts \ {n} : pipe'[t][m] = pipe[t][m]
      /\ \A s \in Tokens \ {t} : pipe'[s] = pipe[s]
  <2>1. v \in 0..4
    OBVIOUS
  <2>. QED  BY <1>1, <2>1, PipeMoves
<1>4. UNCHANGED <<answer, client, ended, deleted, expired, errors>>
  BY DEF SetKey, SetHash, AddIndex, Lost
<1>5. answer[t] # "none"
  BY <1>2 DEF RedisInv, DataInv
<1>6. /\ \/ key' = key
         \/ SetKey(t, n) /\ key' = [key EXCEPT ![t] = "active"]
      /\ \/ hash' = hash /\ issued' = issued
         \/ hash' = hash \union {t} /\ issued' = issued \union {t}
  <2>1. CASE SetKey(t, n)
    BY <2>1 DEF SetKey
  <2>2. CASE SetHash(t, n)
    BY <2>2 DEF SetHash
  <2>3. CASE AddIndex(t, n) \/ Lost(t, n)
    BY <2>3 DEF AddIndex, Lost
  <2>. QED  BY <2>1, <2>2, <2>3
<1>7. SetKey(t, n) => ~Settled(t)
  BY <1>2 DEF Settled
<1>8. StaysGone
  <2> SUFFICES ASSUME NEW s \in Tokens, Settled(s)
               PROVE  Settled(s)' /\ (key[s] = "absent" => key'[s] = "absent")
    BY DEF StaysGone
  <2>1. key'[s] = key[s]
    BY <1>6, <1>7 DEF TypeOK
  <2>2. Settled(s)'
    <3>1. CASE s = t
      <4>1. pipe[t][n] = 3
        BY <1>2, <3>1 DEF Settled
      <4>2. v = 4
        BY <1>1, <4>1
      <4>. QED  BY <1>3, <1>4, <3>1, <4>2 DEF Settled
    <3>2. CASE s # t
      BY <1>3, <1>4, <3>2 DEF Settled
    <3>. QED  BY <3>1, <3>2
  <2>. QED  BY <2>1, <2>2
<1>9. RedisInv'
  <2>1. ASSUME NEW s \in Tokens, answer'[s] = "none"
        PROVE  s \notin issued' /\ \A m \in Attempts : pipe'[s][m] = 0
    <3>1. s # t /\ answer[s] = "none"
      BY <1>4, <1>5, <2>1
    <3>. QED  BY <1>3, <1>6, <3>1 DEF RedisInv, DataInv
  <2>2. hash' \subseteq issued'
    BY <1>6 DEF RedisInv, DataInv
  <2>3. \A s \in ended : key'[s] # "active"
    BY <1>6, <1>7 DEF RedisInv, DataInv, TypeOK
  <2>. QED  BY <1>4, <1>8, <2>1, <2>2, <2>3, DataStep
<1>10. TypeOK'
  <2>1. /\ key' \in [Tokens -> {"absent", "active", "revoked"}]
        /\ hash' \subseteq Tokens /\ issued' \subseteq Tokens
    BY <1>6 DEF TypeOK
  <2>2. ttl' \in [Tokens -> {"running", "last", "none"}] /\ index' \subseteq Tokens
    BY DEF SetKey, SetHash, AddIndex, Lost, TypeOK
  <2>. QED  BY <1>3, <1>4, <2>1, <2>2 DEF TypeOK
<1>. QED  BY <1>8, <1>9, <1>10

\* Save and the passing of time.
LEMMA TokenSteps ==
  ASSUME Inv, NEW t \in Tokens, SaveStep(t) \/ Time(t)
  PROVE  Inv' /\ StaysGone
<1> USE DEF Inv
<1>1. CASE Save(t)
  <2>1. answer[t] = "none" /\ UNCHANGED <<key, ttl, hash, index, client, ended, deleted,
                                         expired, issued, errors>>
    BY <1>1 DEF Save
  <2>2. \/ pipe' = pipe /\ answer' = [answer EXCEPT ![t] = "500"]
        \/ pipe' = [pipe EXCEPT ![t][0] = 1] /\ answer' = [answer EXCEPT ![t] = "pending"]
    BY <1>1 DEF Save
  <2>3. 0 \in Attempts
    BY RedisAssumption DEF Attempts
  <2>4. /\ pipe' \in [Tokens -> [Attempts -> 0..4]]
        /\ \A s \in Tokens \ {t} : pipe'[s] = pipe[s]
    BY <2>2, <2>3, PipeMoves DEF TypeOK
  <2>5. /\ answer' \in [Tokens -> {"none", "pending", "201", "500"}]
        /\ answer'[t] # "none"
        /\ \A s \in Tokens \ {t} : answer'[s] = answer[s]
    BY <2>2 DEF TypeOK
  <2>6. StaysGone
    BY <2>1, <2>4, <2>5 DEF StaysGone, Settled
  <2>7. RedisInv'
    BY <2>1, <2>4, <2>5, <2>6, DataStep DEF RedisInv, DataInv
  <2>. QED  BY <2>1, <2>4, <2>5, <2>6, <2>7 DEF TypeOK
<1>2. CASE SaveReturns(t) \/ SaveFails(t)
  <2>1. /\ UNCHANGED <<key, ttl, hash, index, pipe, client, ended, deleted, expired, issued>>
        /\ answer' = [answer EXCEPT ![t] = "201"] \/ answer' = [answer EXCEPT ![t] = "500"]
        /\ errors' = errors \/ errors' = errors + 1
    BY <1>2 DEF SaveReturns, SaveFails, Error
  <2>2. /\ answer' \in [Tokens -> {"none", "pending", "201", "500"}]
        /\ answer'[t] \in {"201", "500"}
        /\ \A s \in Tokens \ {t} : answer'[s] = answer[s]
    BY <2>1 DEF TypeOK
  <2>3. StaysGone
    BY <2>1, <2>2 DEF StaysGone, Settled
  <2>4. RedisInv'
    BY <2>1, <2>2, <2>3, DataStep DEF RedisInv, DataInv
  <2>. QED  BY <2>1, <2>2, <2>3, <2>4 DEF TypeOK
<1>3. CASE SaveResends(t)
  <2>1. PICK n \in Attempts :
          Current(t, n) /\ n < MaxRetries /\ pipe' = [pipe EXCEPT ![t][n + 1] = 1]
    BY <1>3 DEF SaveResends
  <2>2. n + 1 \in Attempts
    BY <2>1, RedisAssumption DEF Attempts
  <2>3. /\ pipe' \in [Tokens -> [Attempts -> 0..4]]
        /\ \A s \in Tokens \ {t} : pipe'[s] = pipe[s]
    <3>1. 1 \in 0..4
      OBVIOUS
    <3>. QED  BY <2>1, <2>2, <3>1, PipeMoves
  <2>4. /\ UNCHANGED <<key, ttl, hash, index, answer, client, ended, deleted, expired, issued>>
        /\ answer[t] = "pending" /\ errors' = errors + 1
    BY <1>3, <2>1 DEF SaveResends, Current, Error
  <2>5. StaysGone
    BY <2>3, <2>4 DEF StaysGone, Settled
  <2>6. RedisInv'
    BY <2>3, <2>4, <2>5, DataStep DEF RedisInv, DataInv
  <2>. QED  BY <2>3, <2>4, <2>5, <2>6 DEF TypeOK
<1>4. CASE Time(t)
  <2>1. /\ UNCHANGED <<index, pipe, answer, client, ended, deleted, issued, errors>>
        /\ hash' \subseteq hash
        /\ key' = key \/ key' = [key EXCEPT ![t] = "absent"]
    BY <1>4 DEF Time, ClockPasses, LastInstant, Evict, EvictHash
  <2>2. StaysGone
    BY <2>1 DEF StaysGone, Settled, TypeOK
  <2>3. RedisInv'
    BY <2>1, <2>2, DataStep DEF RedisInv, DataInv, TypeOK
  <2>4. /\ key' \in [Tokens -> {"absent", "active", "revoked"}]
        /\ ttl' \in [Tokens -> {"running", "last", "none"}]
        /\ expired' \subseteq Tokens
    BY <1>4, <2>1 DEF Time, ClockPasses, LastInstant, Evict, EvictHash, TypeOK
  <2>. QED  BY <2>1, <2>2, <2>3, <2>4 DEF TypeOK
<1>. QED
  BY <1>1, <1>2, <1>3, <1>4, SendingSteps DEF SaveStep

\* The start of a method.
LEMMA CallStarts ==
  ASSUME Inv, NEW c \in Clients, NEW t \in Tokens, Call(c, t)
  PROVE  Inv'
<1> USE DEF Inv, RedisInv
<1>1. PICK op \in Methods, pc \in Points, ids \in SUBSET Tokens : Begin(c, op, t, pc, ids)
  BY DEF Call, GetByHash, Revoke, Delete, List, Methods, Points, TypeOK
<1>2. UNCHANGED <<key, ttl, hash, index, pipe, answer, ended, deleted, expired, issued,
                  errors>>
  BY DEF Call, GetByHash, Revoke, Delete, List
<1>3. /\ client'[c].token = t /\ client'[c].late = (t \in ended)
      /\ client'[c].res = FALSE /\ client'[c].firm = FALSE
      /\ Rest(c)
      /\ client' \in [Clients -> Calls \union {Idle}]
  BY <1>1, BeginMoves
<1>4. CallInv(client[c])'
  BY <1>2, <1>3 DEF CallInv
<1>5. StaysGone
  BY <1>2 DEF StaysGone, Settled
<1>6. CallsInv'
  BY <1>2, <1>3, <1>4, <1>5, CallsKept
<1>. QED  BY <1>2, <1>3, <1>6 DEF TypeOK, DataInv, Settled

\* A call c that keeps its method, token and lateness, and whose outcome is one
\* that CallInv allows, keeps CallsInv.
LEMMA CallMoved ==
  ASSUME Inv, NEW c \in Clients, client[c] # Idle,
         client'[c].op = client[c].op, client'[c].token = client[c].token,
         client'[c].late = client[c].late,
         client'[c].res \in {FALSE, client[c].res}, client'[c].firm = client[c].firm,
         Rest(c),
         ended \subseteq ended',
         StaysGone
  PROVE  CallsInv'
<1>1. client[c] \in Calls /\ CallInv(client[c])
  BY DEF Inv, TypeOK, RedisInv, CallsInv
<1>2. client[c].token \in Tokens
  BY <1>1 DEF Calls
<1>3. CallInv(client[c])'
  BY <1>1, <1>2 DEF CallInv, StaysGone
<1>. QED  BY <1>3, CallsKept

\* The commands that only read, or only touch the index.
LEMMA ReadSteps ==
  ASSUME Inv, NEW c \in Clients,
         GetHash(c) \/ GetKey(c) \/ GetKeyMisses(c) \/ Unlist(c) \/ ListNext(c) \/ Respond(c)
  PROVE  Inv'
<1> USE DEF Inv, RedisInv
<1>0. /\ UNCHANGED <<key, ttl, hash, pipe, answer, ended, deleted, expired, issued>>
      /\ client[c] # Idle
      /\ index' \subseteq index /\ errors' \in Nat
  <2>1. UNCHANGED <<key, ttl, hash, pipe, answer, ended, deleted, expired, issued>>
    BY DEF GetHash, GetKey, GetKeyMisses, Unlist, ListNext, Respond
  <2>2. client[c] # Idle
    BY DEF GetHash, GetKey, GetKeyMisses, Unlist, ListNext, Respond, At
  <2>3. index' = index \/ index' = index \ {client[c].token}
    BY DEF GetHash, GetKey, GetKeyMisses, Unlist, ListNext, Respond
  <2>4. errors' = errors \/ errors' = errors + 1
    BY DEF GetHash, GetKey, GetKeyMisses, Unlist, ListNext, Respond, Error
  <2>. QED  BY <2>1, <2>2, <2>3, <2>4 DEF TypeOK
<1>gone. StaysGone
  BY <1>0 DEF StaysGone, Settled
<1>1. DataInv'
  BY <1>0 DEF DataInv, Settled
<1>2. client[c] \in Calls
  BY <1>0 DEF TypeOK
<1>3. client[c].token \in Tokens /\ client[c].op \in Methods /\ client[c].late \in BOOLEAN
  BY <1>2 DEF Calls
<1>4. ASSUME NEW pc \in Points, Goto(c, pc) PROVE Inv'
  <2>1. CallsInv' /\ client' \in [Clients -> Calls \union {Idle}]
    BY <1>0, <1>4, GotoMoves, <1>gone, CallMoved
  <2>. QED  BY <1>0, <1>1, <2>1 DEF TypeOK
<1>5. ASSUME Finish(c, FALSE) PROVE Inv'
  <2>1. CallsInv' /\ client' \in [Clients -> Calls \union {Idle}]
    BY <1>0, <1>5, FinishMoves, <1>gone, CallMoved
  <2>. QED  BY <1>0, <1>1, <2>1 DEF TypeOK
<1>6. CASE GetHash(c)
  BY <1>4, <1>5, <1>6 DEF GetHash, Points
<1>7. CASE GetKeyMisses(c)
  BY <1>4, <1>5, <1>7 DEF GetKeyMisses, Points
<1>8. CASE Unlist(c)
  BY <1>4, <1>5, <1>8 DEF Unlist, Points
<1>9. CASE GetKey(c)
  <2>1. CASE client[c].op = "auth"
    <3> DEFINE res == key[client[c].token] = "active" /\ client[c].token \notin expired
    <3>1. Finish(c, res) /\ res \in BOOLEAN
      BY <1>9, <2>1 DEF GetKey
    <3>2. /\ client'[c].op = "auth" /\ client'[c].token = client[c].token
          /\ client'[c].late = client[c].late /\ client'[c].res = res
          /\ Rest(c) /\ client' \in [Clients -> Calls \union {Idle}]
      BY <1>0, <2>1, <3>1, FinishMoves
    <3>3. client[c].late => client[c].token \in ended
      BY <1>0, <2>1 DEF CallsInv, CallInv
    <3>4. CallInv(client[c])'
      BY <1>0, <3>2, <3>3 DEF CallInv, DataInv
    <3>5. CallsInv'
      BY <1>0, <3>2, <3>4, <1>gone, CallsKept
    <3>. QED  BY <1>0, <1>1, <3>2, <3>5 DEF TypeOK
  <2>2. CASE client[c].op # "auth"
    <3>1. \E pc \in Points : Goto(c, pc)
      BY <1>3, <1>9, <2>2 DEF GetKey, Methods, Points
    <3>. QED  BY <1>4, <3>1
  <2>. QED  BY <2>1, <2>2
<1>10. CASE ListNext(c)
  <2>1. client[c].op = "list"
    BY <1>10 DEF ListNext, At
  <2>2. CASE Finish(c, TRUE)
    <3>1. /\ client'[c].op = "list" /\ Rest(c)
          /\ client' \in [Clients -> Calls \union {Idle}]
      BY <1>0, <2>1, <2>2, FinishMoves
    <3>2. CallInv(client[c])'
      BY <3>1 DEF CallInv
    <3>3. CallsInv'
      BY <1>0, <3>1, <3>2, <1>gone, CallsKept
    <3>. QED  BY <1>0, <1>1, <3>1, <3>3 DEF TypeOK
  <2>3. ASSUME NEW t \in client[c].ids,
               client' = [client EXCEPT ![c].pc = "key", ![c].token = t, ![c].ids = @ \ {t}]
        PROVE  Inv'
    <3>1. /\ client'[c] = [client[c] EXCEPT !.pc = "key", !.token = t, !.ids = @ \ {t}]
          /\ Rest(c)
          /\ client' = [client EXCEPT ![c] = client'[c]]
      BY <2>3 DEF TypeOK, Rest
    <3>2. t \in Tokens /\ client[c].ids \ {t} \in SUBSET Tokens
      BY <1>2, <2>3 DEF Calls
    <3>3. client'[c] \in Calls /\ client'[c].op = "list"
      BY <1>2, <2>1, <3>1, <3>2 DEF Calls, Points
    <3>4. CallInv(client[c])'
      BY <3>3 DEF CallInv
    <3>5. CallsInv'
      BY <1>0, <3>1, <3>4, <1>gone, CallsKept
    <3>6. client' \in [Clients -> Calls \union {Idle}]
      BY <3>1, <3>3 DEF TypeOK
    <3>. QED  BY <1>0, <1>1, <3>5, <3>6 DEF TypeOK
  <2>. QED  BY <1>10, <2>2, <2>3 DEF ListNext
<1>11. CASE Respond(c)
  <2>1. client'[c] = Idle /\ Rest(c) /\ client' \in [Clients -> Calls \union {Idle}]
    BY <1>11 DEF Respond, TypeOK, Rest
  <2>2. CallsInv'
    BY <1>0, <2>1, <1>gone, CallsKept
  <2>. QED  BY <1>0, <1>1, <2>1, <2>2 DEF TypeOK
<1>. QED  BY <1>6, <1>7, <1>8, <1>9, <1>10, <1>11

\* The commands that write: revokeScript and the pipeline of Delete.
LEMMA WriteSteps ==
  ASSUME Inv, NEW c \in Clients,
         RunScript(c) \/ ScriptFails(c) \/ DelKey(c) \/ DelHash(c) \/ RemIndex(c)
           \/ DeleteFails(c)
  PROVE  Inv'
<1> USE DEF Inv, RedisInv
<1>0. client[c] # Idle
  BY DEF RunScript, ScriptFails, DelKey, DelHash, RemIndex, DeleteFails, At
<1>1. client[c] \in Calls /\ CallInv(client[c])
  BY <1>0 DEF TypeOK, CallsInv
<1>2. client[c].token \in Tokens /\ client[c].res \in BOOLEAN
  BY <1>1 DEF Calls
<1>gone. StaysGone /\ \A t \in Tokens : Settled(t)' <=> Settled(t)
  <2>1. UNCHANGED <<pipe, answer>>
    BY DEF RunScript, ScriptFails, DelKey, DelHash, RemIndex, DeleteFails
  <2>2. \A t \in Tokens : Settled(t)' <=> Settled(t)
    BY <2>1 DEF Settled
  <2>3. ASSUME revokeScript(client[c].token)
        PROVE  \A t \in Tokens : key[t] = "absent" => key'[t] = "absent"
    BY <1>2, <2>3 DEF revokeScript, TypeOK
  <2>4. \/ revokeScript(client[c].token) \/ key' = key
        \/ key' = [key EXCEPT ![client[c].token] = "absent"]
    BY DEF RunScript, ScriptFails, DelKey, DelHash, RemIndex, DeleteFails
  <2>5. \A t \in Tokens : key[t] = "absent" => key'[t] = "absent"
    BY <1>2, <2>3, <2>4 DEF TypeOK
  <2>. QED  BY <2>2, <2>5 DEF StaysGone
<1>3. CASE RunScript(c)
  <2> DEFINE res == key[client[c].token] # "absent"
  <2>1. /\ client'[c].op = "revoke" /\ client'[c].token = client[c].token
        /\ client'[c].late = client[c].late
        /\ Rest(c) /\ client' \in [Clients -> Calls \union {Idle}]
    BY <1>0, <1>3, FinishMoves DEF RunScript, At
  <2>2. client'[c].late => client'[c].token \in ended'
    BY <1>1, <1>3, <2>1 DEF RunScript, CallInv, At
  <2>3. CallInv(client[c])'
    BY <2>1, <2>2 DEF CallInv
  <2>4. CallsInv'
    BY <1>3, <2>1, <2>3, <1>gone, CallsKept DEF RunScript, revokeScript, TypeOK
  <2>5. DataInv'
    BY <1>2, <1>3, <1>gone DEF RunScript, revokeScript, DataInv, TypeOK
  <2>6. key' \in [Tokens -> {"absent", "active", "revoked"}]
        /\ ttl' \in [Tokens -> {"running", "last", "none"}]
        /\ ended' \subseteq Tokens
    BY <1>2, <1>3 DEF RunScript, revokeScript, TypeOK
  <2>. QED  BY <1>3, <2>1, <2>4, <2>5, <2>6 DEF RunScript, TypeOK
<1>4. CASE ScriptFails(c)
  <2>1. client' \in [Clients -> Calls \union {Idle}] /\ CallsInv'
    BY <1>0, <1>4, FinishMoves, <1>gone, CallMoved, ZenonT(30) DEF ScriptFails, revokeScript, TypeOK
  <2>2. DataInv'
    BY <1>2, <1>4, <1>gone DEF ScriptFails, revokeScript, DataInv, TypeOK
  <2>3. key' \in [Tokens -> {"absent", "active", "revoked"}]
        /\ ttl' \in [Tokens -> {"running", "last", "none"}]
        /\ errors' \in Nat
    BY <1>2, <1>4 DEF ScriptFails, revokeScript, Error, TypeOK
  <2>. QED  BY <1>4, <2>1, <2>2, <2>3 DEF ScriptFails, TypeOK
<1>5. CASE DelKey(c)
  <2>0. PICK res \in BOOLEAN, firm \in BOOLEAN :
          /\ res = (key[client[c].token] # "absent")
          /\ firm = Settled(client[c].token)
    BY DEF Settled
  <2>1. /\ client'[c] = [client[c] EXCEPT !.pc = "delHash", !.res = res, !.firm = firm]
        /\ Rest(c)
        /\ client' = [client EXCEPT ![c] = client'[c]]
    BY <1>5, <2>0 DEF DelKey, TypeOK, Rest
  <2>2. client[c].op = "delete"
    BY <1>5 DEF DelKey, At
  <2>3. /\ client'[c] \in Calls /\ client'[c].op = "delete"
        /\ client'[c].token = client[c].token /\ client'[c].late = client[c].late
        /\ client'[c].firm = firm
    BY <1>1, <2>1, <2>2 DEF Calls, Points
  <2>4. client[c].late => client[c].token \in ended
    BY <1>1, <2>2 DEF CallInv
  <2>5. key'[client[c].token] = "absent" /\ UNCHANGED ended
    BY <1>2, <1>5 DEF DelKey, TypeOK
  <2>6. CallInv(client[c])'
    BY <1>2, <1>gone, <2>0, <2>3, <2>4, <2>5 DEF CallInv
  <2>7. CallsInv'
    BY <1>5, <2>1, <2>6, <1>gone, CallsKept DEF DelKey, TypeOK
  <2>8. client' \in [Clients -> Calls \union {Idle}]
    BY <2>1, <2>3 DEF TypeOK
  <2>. QED  BY <1>2, <1>5, <2>7, <2>8, <1>gone DEF DelKey, DataInv, TypeOK
<1>6. CASE DelHash(c)
  <2>1. client' \in [Clients -> Calls \union {Idle}] /\ CallsInv'
    BY <1>0, <1>6, GotoMoves, <1>gone, CallMoved DEF DelHash, Points
  <2>. QED  BY <1>6, <2>1, <1>gone DEF DelHash, DataInv, TypeOK
<1>7. CASE RemIndex(c)
  <2>1. client' \in [Clients -> Calls \union {Idle}] /\ CallsInv'
    BY <1>0, <1>7, GotoMoves, <1>gone, CallMoved DEF RemIndex, Points
  <2>2. client[c].firm => Settled(client[c].token) /\ key[client[c].token] = "absent"
    BY <1>1, <1>7 DEF RemIndex, At, CallInv
  <2>. QED  BY <1>2, <1>7, <2>1, <2>2, <1>gone DEF RemIndex, DataInv, TypeOK
<1>8. CASE DeleteFails(c)
  <2>1. client' \in [Clients -> Calls \union {Idle}] /\ CallsInv'
    BY <1>0, <1>8, FinishMoves, <1>gone, CallMoved DEF DeleteFails
  <2>. QED  BY <1>8, <2>1, <1>gone DEF DeleteFails, Error, DataInv, TypeOK
<1>. QED  BY <1>3, <1>4, <1>5, <1>6, <1>7, <1>8

\* TypeOK and RedisInv hold throughout.
LEMMA RedisInvariant == Spec => []Inv
<1>1. Init => Inv
  BY DEF Init, Inv, TypeOK, RedisInv, DataInv, CallsInv
<1>2. Inv /\ [Next]_vars => Inv'
  <2> SUFFICES ASSUME Inv, [Next]_vars PROVE Inv'
    OBVIOUS
  <2>1. CASE UNCHANGED vars
    BY <2>1 DEF vars, Inv, TypeOK, RedisInv, DataInv, CallsInv, CallInv, Settled
  <2>2. CASE Next
    BY <2>2, TokenSteps, CallStarts, ReadSteps, WriteSteps DEF Next, CallStep
  <2>. QED  BY <2>1, <2>2
<1>. QED  BY <1>1, <1>2, PTL DEF Spec

\* A request that presents a token after its revocation or deletion was confirmed
\* is turned away, on every node, if no sending of Save's pipeline could still store
\* the token when the revocation took effect.
THEOREM RevocationIsFinal == Spec => []RevocationSticks
<1>1. Inv => RevocationSticks
  BY DEF Inv, RedisInv, CallsInv, CallInv, RevocationSticks, Ended
<1>. QED  BY <1>1, RedisInvariant, PTL

\* No Revoke brings an entry back that was deleted once Save had settled.
THEOREM DeletionIsFinal == Spec => []NoResurrection
<1>1. Inv => NoResurrection
  BY DEF Inv, RedisInv, DataInv, NoResurrection
<1>. QED  BY <1>1, RedisInvariant, PTL

-----------------------------------------------------------------------------
(* The store implements TokenLifecycle                                     *)

\* A token that is refused when Save has settled remains refused.
StaysDead ==
  /\ issued \subseteq issued' /\ expired \subseteq expired'
  /\ \A t \in Tokens : Settled(t) => Settled(t)' /\ (Valid(t)' => Valid(t))

\* Then every token moves along the lifecycle.
LEMMA StatusMoves ==
  ASSUME Inv, StaysDead
  PROVE  [Lifecycle!Next]_TokenStatus
<1>1. TokenStatus' \in [Tokens -> {"unissued", "valid", "dead"}]
  BY DEF TokenStatus
<1>2. ASSUME NEW t \in Tokens
      PROVE  \/ TokenStatus'[t] = TokenStatus[t]
             \/ Lifecycle!Issue(t) \/ Lifecycle!Retire(t)
  <2>1. CASE Valid(t) \/ Unsettled(t)
    <3>1. t \in issued' /\ TokenStatus[t] = "valid"
      BY <2>1 DEF StaysDead, TokenStatus, Valid, Unsettled, Inv, RedisInv, DataInv
    <3>2. TokenStatus'[t] \in {"valid", "dead"}
      BY <3>1 DEF TokenStatus
    <3>. QED  BY <3>1, <3>2 DEF Lifecycle!Retire
  <2>2. CASE ~Valid(t) /\ ~Unsettled(t) /\ t \in issued
    <3>1. ~Valid(t)' /\ ~Unsettled(t)' /\ t \in issued'
      BY <2>2 DEF StaysDead, Valid, Unsettled
    <3>. QED  BY <2>2, <3>1 DEF TokenStatus
  <2>3. CASE ~Valid(t) /\ ~Unsettled(t) /\ t \notin issued
    <3>1. TokenStatus[t] = "unissued"
      BY <2>3 DEF TokenStatus
    <3>. QED  BY <1>1, <3>1 DEF Lifecycle!Issue, Lifecycle!Retire
  <2>. QED  BY <2>1, <2>2, <2>3
<1>. QED  BY <1>1, <1>2 DEF Lifecycle!Next

\* No step of Save or of the clock revives a token that Save is done with.
LEMMA TokenStepsStayDead ==
  ASSUME Inv, NEW t \in Tokens, SaveStep(t) \/ Time(t)
  PROVE  StaysDead
<1> USE DEF Inv, TypeOK
<1>1. StaysGone
  BY TokenSteps
<1>2. ASSUME NEW n \in Attempts, SetKey(t, n) \/ SetHash(t, n) PROVE StaysDead
  <2>1. pipe[t][n] \in {1, 2}
    BY <1>2 DEF SetKey, SetHash, Sends, SavePipeline
  <2>2. ~Settled(t)
    BY <2>1 DEF Settled
  <2>3. /\ issued \subseteq issued' /\ expired' = expired
        /\ \A s \in Tokens \ {t} : key'[s] = key[s] /\ (s \in hash' <=> s \in hash)
    <3>1. CASE SetKey(t, n)
      BY <3>1 DEF SetKey
    <3>2. CASE SetHash(t, n)
      BY <3>2 DEF SetHash
    <3>. QED  BY <1>2, <3>1, <3>2
  <2>. QED  BY <1>1, <2>2, <2>3 DEF StaysDead, StaysGone, Valid
<1>3. CASE UNCHANGED <<key, hash, expired, issued>>
  BY <1>1, <1>3 DEF StaysDead, StaysGone, Valid
<1>4. CASE Time(t)
  <2>1. /\ issued' = issued /\ expired \subseteq expired' /\ hash' \subseteq hash
        /\ key' = key \/ key' = [key EXCEPT ![t] = "absent"]
    BY <1>4 DEF Time, ClockPasses, LastInstant, Evict, EvictHash
  <2>. QED  BY <1>1, <2>1 DEF StaysDead, StaysGone, Valid
<1>. QED
  BY <1>2, <1>3, <1>4
  DEF SaveStep, Save, AddIndex, Lost, SaveReturns, SaveResends, SaveFails

\* No request revives a token.
LEMMA CallsStayDead ==
  ASSUME Inv, NEW c \in Clients, CallStep(c) \/ \E t \in Tokens : Call(c, t)
  PROVE  StaysDead
<1> USE DEF Inv, TypeOK
<1>1. CASE UNCHANGED <<key, hash, pipe, answer, expired, issued>>
  BY <1>1 DEF StaysDead, Settled, Valid
<1>2. CASE RunScript(c) \/ ScriptFails(c) \/ DelKey(c) \/ DelHash(c)
  <2>1. client[c] \in Calls
    BY <1>2 DEF RunScript, ScriptFails, DelKey, DelHash, At
  <2>2. client[c].token \in Tokens
    BY <2>1 DEF Calls
  <2>3. /\ UNCHANGED <<pipe, answer, expired, issued>> /\ hash' \subseteq hash
        /\ \A t \in Tokens : key'[t] = "active" => key[t] = "active"
    <3>1. CASE RunScript(c) \/ ScriptFails(c)
      BY <2>2, <3>1, ZenonT(30) DEF RunScript, ScriptFails, revokeScript
    <3>2. CASE DelKey(c)
      BY <2>2, <3>2 DEF DelKey
    <3>3. CASE DelHash(c)
      BY <2>2, <3>3 DEF DelHash
    <3>. QED  BY <1>2, <3>1, <3>2, <3>3
  <2>. QED  BY <2>3 DEF StaysDead, Settled, Valid
<1>. QED
  BY <1>1, <1>2
  DEF Call, CallStep, GetByHash, Revoke, Delete, List, ListNext, GetHash, GetKey,
      GetKeyMisses, Unlist, RemIndex, DeleteFails, Respond

\* Every command is a step of the token lifecycle, or changes no token's status.
LEMMA StatusStep ==
  ASSUME Inv, [Next]_vars
  PROVE  [Lifecycle!Next]_TokenStatus
<1>1. CASE UNCHANGED vars
  BY <1>1 DEF vars, TokenStatus, Valid, Unsettled, Settled
<1>2. CASE Next
  BY <1>2, TokenStepsStayDead, CallsStayDead, StatusMoves DEF Next
<1>. QED  BY <1>1, <1>2

\* The store implements the token lifecycle, whatever calls fail or are sent again and
\* however the commands of any number of requests interleave: a token that is refused
\* when Save has settled is never accepted again.
THEOREM RefinesLifecycle == Spec => ImplementsLifecycle
<1>1. Init => Lifecycle!Init
  BY DEF Init, Lifecycle!Init, TokenStatus, Valid, Unsettled
<1>2. Inv /\ [Next]_vars => [Lifecycle!Next]_TokenStatus
  BY StatusStep
<1>. QED
  BY <1>1, <1>2, RedisInvariant, PTL
  DEF Spec, ImplementsLifecycle, Lifecycle!Spec

-----------------------------------------------------------------------------
(* The index is complete as long as Redis answers                          *)

\* Without an error, a call m works on tokens whose entry was set, so that an entry it
\* misses stays away; and what it is about to take out of the index has no entry.
ListedCall(m) ==
  /\ pipe[m.token][0] > 1
  /\ \A t \in m.ids : pipe[t][0] > 1
  /\ m.op = "delete" /\ m.pc \in {"delHash", "srem"} => key[m.token] = "absent"
  /\ m.pc = "unlist" => key[m.token] = "absent"

\* Every pipeline is sent once and waited for, only what was set is answered or
\* listed, and everything that has an entry and went through its pipeline is listed.
ListedInv ==
  /\ \A t \in Tokens : \A n \in Attempts \ {0} : pipe[t][n] = 0
  /\ \A t \in Tokens : pipe[t][0] \in 1..3 => answer[t] = "pending"
  /\ \A t \in Tokens : answer[t] = "201" => pipe[t][0] = 4
  /\ \A t \in index : pipe[t][0] = 4
  /\ \A c \in Clients : client[c] # Idle => ListedCall(client[c])
  /\ \A t \in Tokens : pipe[t][0] = 4 /\ key[t] # "absent" => t \in index

\* What a step does to the entries as the calls see them: no entry that was set and
\* is gone comes back.
EntriesGo ==
  \A t \in Tokens : pipe[t][0] > 1 =>
    pipe'[t][0] > 1 /\ (key[t] = "absent" => key'[t] = "absent")

\* What a call that does not move is about to do remains harmless.
LEMMA ListedCallKept ==
  ASSUME Inv, ListedInv, EntriesGo, NEW d \in Clients, client'[d] = client[d],
         client[d] # Idle
  PROVE  ListedCall(client[d])'
<1>1. client[d] \in Calls /\ ListedCall(client[d])
  BY DEF Inv, TypeOK, ListedInv
<1>2. client[d].token \in Tokens /\ client[d].ids \subseteq Tokens
  BY <1>1 DEF Calls
<1>. QED  BY <1>1, <1>2 DEF ListedCall, EntriesGo

\* A step of call c that saves nothing, and takes a token out of the index only
\* when its entry is gone.
LEMMA ListedStep ==
  ASSUME Inv, ListedInv, EntriesGo, NEW c \in Clients, Rest(c),
         client'[c] # Idle => ListedCall(client[c])',
         UNCHANGED <<pipe, answer>>, index' \subseteq index,
         \A t \in Tokens : key[t] = "absent" => key'[t] = "absent",
         \A t \in index \ index' : key'[t] = "absent"
  PROVE  ListedInv'
<1>1. ASSUME NEW d \in Clients, client'[d] # Idle PROVE ListedCall(client[d])'
  BY <1>1, ListedCallKept DEF Rest
<1>2. \A t \in Tokens : pipe'[t][0] = 4 /\ key'[t] # "absent" => t \in index'
  BY DEF ListedInv
<1>. QED  BY <1>1, <1>2 DEF ListedInv

\* Save and the passing of time.
LEMMA ListedTokenSteps ==
  ASSUME Inv, ListedInv, errors' = 0, NEW t \in Tokens, SaveStep(t) \/ Time(t)
  PROVE  ListedInv'
<1> USE DEF Inv, TypeOK
<1>0. client' = client /\ 0 \in Attempts
  BY RedisAssumption
  DEF SaveStep, Time, Save, SetKey, SetHash, AddIndex, Lost, SaveReturns, SaveResends,
      SaveFails, ClockPasses, LastInstant, Evict, EvictHash, Attempts
<1>1. ASSUME EntriesGo
      PROVE  \A d \in Clients : client'[d] # Idle => ListedCall(client[d])'
  BY <1>0, <1>1, ListedCallKept
<1>2. CASE Save(t)
  <2>1. pipe[t][0] = 0 /\ UNCHANGED <<key, index>>
    BY <1>0, <1>2 DEF Save, RedisInv, DataInv
  <2>2. CASE t \in expired
    <3>1. pipe' = pipe /\ answer' = [answer EXCEPT ![t] = "500"]
      BY <1>2, <2>2 DEF Save
    <3>2. EntriesGo
      BY <2>1, <3>1 DEF EntriesGo
    <3>. QED  BY <1>1, <2>1, <3>1, <3>2 DEF ListedInv
  <2>3. CASE t \notin expired
    <3>1. pipe' = [pipe EXCEPT ![t][0] = 1] /\ answer' = [answer EXCEPT ![t] = "pending"]
      BY <1>2, <2>3 DEF Save
    <3>2. EntriesGo
      BY <1>0, <2>1, <3>1 DEF EntriesGo
    <3>. QED  BY <1>0, <1>1, <2>1, <3>1, <3>2 DEF ListedInv
  <2>. QED  BY <2>2, <2>3
<1>3. ASSUME NEW n \in Attempts, SetKey(t, n) \/ SetHash(t, n) \/ AddIndex(t, n)
      PROVE  ListedInv'
  <2>1. n = 0 /\ pipe[t][0] \in 1..3
    BY <1>3 DEF SetKey, SetHash, AddIndex, Sends, ListedInv
  <2>2. /\ SetKey(t, n) => pipe[t][0] = 1
        /\ SetHash(t, n) => pipe[t][0] = 2
        /\ AddIndex(t, n) => pipe[t][0] = 3
    BY <2>1 DEF SetKey, SetHash, AddIndex, Sends, SavePipeline
  <2>3. pipe' = [pipe EXCEPT ![t][0] = pipe[t][0] + 1] /\ answer' = answer
    BY <1>3, <2>1 DEF SetKey, SetHash, AddIndex, Advance
  <2>4. /\ pipe'[t][0] = pipe[t][0] + 1
        /\ \A m \in Attempts \ {0} : pipe'[t][m] = pipe[t][m]
        /\ \A s \in Tokens \ {t} : pipe'[s] = pipe[s]
    <3>1. pipe[t][0] + 1 \in 0..4
      BY <2>1
    <3>. QED  BY <1>0, <2>3, <3>1, PipeMoves
  <2>5. \/ /\ pipe[t][0] = 1 /\ index' = index
           /\ \A s \in Tokens \ {t} : key'[s] = key[s]
        \/ pipe[t][0] = 2 /\ index' = index /\ key' = key
        \/ pipe[t][0] = 3 /\ index' = index \union {t} /\ key' = key
    <3>1. CASE SetKey(t, n)
      BY <2>2, <3>1 DEF SetKey
    <3>2. CASE SetHash(t, n)
      BY <2>2, <3>2 DEF SetHash
    <3>3. CASE AddIndex(t, n)
      BY <2>2, <3>3 DEF AddIndex
    <3>. QED  BY <1>3, <3>1, <3>2, <3>3
  <2>6. EntriesGo
    BY <1>0, <2>4, <2>5 DEF EntriesGo
  <2>. QED  BY <1>0, <1>1, <2>1, <2>3, <2>4, <2>5, <2>6 DEF ListedInv
<1>4. ASSUME NEW n \in Attempts, Lost(t, n) PROVE FALSE
  <2>1. n = 0 /\ answer[t] = "pending"
    BY <1>4 DEF Lost, ListedInv
  <2>2. Current(t, 0)
    BY <1>4, <2>1 DEF Lost, Current, ListedInv, Attempts
  <2>. QED  BY <1>4, <2>1, <2>2 DEF Lost
<1>5. CASE SaveReturns(t)
  <2>1. pipe[t][0] = 4 /\ UNCHANGED <<key, index, pipe>>
        /\ answer' = [answer EXCEPT ![t] = "201"]
    BY <1>5 DEF SaveReturns, Current, ListedInv
  <2>2. EntriesGo
    BY <2>1 DEF EntriesGo
  <2>. QED  BY <1>1, <2>1, <2>2 DEF ListedInv
<1>6. ~SaveResends(t) /\ ~SaveFails(t)
  BY DEF SaveResends, SaveFails, Error
<1>7. CASE Time(t)
  <2>1. /\ UNCHANGED <<pipe, answer, index>>
        /\ \A s \in Tokens : key[s] = "absent" => key'[s] = "absent"
    BY <1>7 DEF Time, ClockPasses, LastInstant, Evict, EvictHash
  <2>2. EntriesGo
    BY <2>1 DEF EntriesGo
  <2>. QED  BY <1>1, <2>1, <2>2 DEF ListedInv
<1>. QED  BY <1>2, <1>3, <1>4, <1>5, <1>6, <1>7 DEF SaveStep

\* A call begins with tokens that were answered 201 or listed.
LEMMA ListedCallStarts ==
  ASSUME Inv, ListedInv, NEW c \in Clients, NEW t \in Tokens, Call(c, t)
  PROVE  ListedInv'
<1> USE DEF Inv, TypeOK
<1>1. PICK op \in Methods, pc \in {"hash", "key", "next"}, ids \in {{}, index} :
        Begin(c, op, t, pc, ids)
  BY DEF Call, GetByHash, Revoke, Delete, List, Methods
<1>2. /\ UNCHANGED <<key, index, pipe, answer, errors>>
      /\ answer[t] = "201" \/ t \in index
  BY DEF Call, GetByHash, Revoke, Delete, List, Known
<1>3. pc \in Points /\ ids \in SUBSET Tokens
  BY <1>1 DEF Points
<1>4. /\ client'[c].token = t /\ client'[c].pc = pc /\ client'[c].ids = ids /\ Rest(c)
  BY <1>1, <1>3, BeginMoves
<1>5. ListedCall(client[c])'
  BY <1>1, <1>2, <1>4 DEF ListedCall, ListedInv
<1>6. EntriesGo
  BY <1>2 DEF EntriesGo
<1>. QED  BY <1>2, <1>4, <1>5, <1>6, ListedStep

\* The commands that only read, or only touch the index.
LEMMA ListedReadSteps ==
  ASSUME Inv, ListedInv, errors' = 0, NEW c \in Clients,
         GetHash(c) \/ GetKey(c) \/ GetKeyMisses(c) \/ Unlist(c) \/ ListNext(c) \/ Respond(c)
  PROVE  ListedInv'
<1> USE DEF Inv, TypeOK
<1>0. client[c] # Idle
  BY DEF GetHash, GetKey, GetKeyMisses, Unlist, ListNext, Respond, At
<1>1. client[c] \in Calls /\ ListedCall(client[c])
  BY <1>0 DEF ListedInv
<1>2. client[c].token \in Tokens /\ client[c].op \in Methods /\ client[c].ids \subseteq Tokens
  BY <1>1 DEF Calls
<1>3. UNCHANGED <<key, pipe, answer>>
  BY DEF GetHash, GetKey, GetKeyMisses, Unlist, ListNext, Respond
<1>4. EntriesGo
  BY <1>3 DEF EntriesGo
<1>5. ASSUME NEW pc \in Points, Goto(c, pc),
             pc = "unlist" => key[client[c].token] = "absent",
             pc \in {"delHash", "srem"} => client[c].op # "delete",
             \/ index' = index
             \/ client[c].pc = "unlist" /\ index' = index \ {client[c].token}
      PROVE  ListedInv'
  <2>1. /\ client'[c].op = client[c].op /\ client'[c].token = client[c].token
        /\ client'[c].pc = pc /\ client'[c].ids = client[c].ids /\ Rest(c)
    BY <1>0, <1>5, GotoMoves
  <2>2. ListedCall(client[c])'
    BY <1>1, <1>2, <1>3, <1>5, <2>1 DEF ListedCall
  <2>. QED  BY <1>1, <1>3, <1>4, <1>5, <2>1, <2>2, ListedStep DEF ListedCall
<1>6. ASSUME NEW res \in BOOLEAN, Finish(c, res),
             \/ index' = index
             \/ client[c].pc = "unlist" /\ index' = index \ {client[c].token}
      PROVE  ListedInv'
  <2>1. /\ client'[c].op = client[c].op /\ client'[c].token = client[c].token
        /\ client'[c].pc = "done" /\ client'[c].ids = client[c].ids /\ Rest(c)
    BY <1>0, <1>6, FinishMoves
  <2>2. ListedCall(client[c])'
    BY <1>1, <1>2, <1>3, <2>1 DEF ListedCall
  <2>. QED  BY <1>1, <1>3, <1>4, <1>6, <2>1, <2>2, ListedStep DEF ListedCall
<1>7. CASE GetHash(c)
  BY <1>5, <1>6, <1>7 DEF GetHash, Points
<1>8. CASE GetKeyMisses(c)
  <2>1. key[client[c].token] = "absent"
    BY <1>8 DEF GetKeyMisses, Error
  <2>. QED  BY <1>5, <1>6, <1>8, <2>1 DEF GetKeyMisses, Points
<1>9. CASE Unlist(c)
  BY <1>5, <1>6, <1>9 DEF Unlist, Points
<1>10. CASE GetKey(c)
  <2>1. CASE client[c].op = "auth"
    <3> DEFINE res == key[client[c].token] = "active" /\ client[c].token \notin expired
    <3>1. Finish(c, res) /\ res \in BOOLEAN /\ index' = index
      BY <1>10, <2>1 DEF GetKey
    <3>. QED  BY <1>6, <3>1
  <2>2. CASE client[c].op # "auth"
    <3>1. \E pc \in {"script", "del", "next"} : Goto(c, pc)
      BY <1>2, <1>10, <2>2 DEF GetKey, Methods
    <3>2. index' = index
      BY <1>10 DEF GetKey
    <3>. QED  BY <1>5, <3>1, <3>2 DEF Points
  <2>. QED  BY <2>1, <2>2
<1>11. CASE ListNext(c)
  <2>1. CASE Finish(c, TRUE)
    BY <1>6, <1>11, <2>1 DEF ListNext
  <2>2. ASSUME NEW t \in client[c].ids,
               client' = [client EXCEPT ![c].pc = "key", ![c].token = t, ![c].ids = @ \ {t}]
        PROVE  ListedInv'
    <3>1. client'[c] = [client[c] EXCEPT !.pc = "key", !.token = t, !.ids = @ \ {t}]
          /\ Rest(c)
      BY <2>2 DEF Rest
    <3>2. /\ client'[c].pc = "key" /\ client'[c].token = t
          /\ client'[c].ids = client[c].ids \ {t}
      BY <1>1, <3>1 DEF Calls
    <3>3. ListedCall(client[c])'
      BY <1>1, <1>3, <2>2, <3>2 DEF ListedCall
    <3>4. index' = index
      BY <1>11 DEF ListNext
    <3>. QED  BY <1>3, <1>4, <3>1, <3>3, <3>4, ListedStep
  <2>. QED  BY <1>11, <2>1, <2>2 DEF ListNext
<1>12. CASE Respond(c)
  <2>1. client'[c] = Idle /\ Rest(c) /\ index' = index
    BY <1>12 DEF Respond, Rest
  <2>. QED  BY <1>3, <1>4, <2>1, ListedStep
<1>. QED  BY <1>7, <1>8, <1>9, <1>10, <1>11, <1>12

\* The commands that write: revokeScript and the pipeline of Delete.
LEMMA ListedWriteSteps ==
  ASSUME Inv, ListedInv, errors' = 0, NEW c \in Clients,
         RunScript(c) \/ ScriptFails(c) \/ DelKey(c) \/ DelHash(c) \/ RemIndex(c)
           \/ DeleteFails(c)
  PROVE  ListedInv'
<1> USE DEF Inv, TypeOK
<1>0. client[c] # Idle
  BY DEF RunScript, ScriptFails, DelKey, DelHash, RemIndex, DeleteFails, At
<1>1. client[c] \in Calls /\ ListedCall(client[c])
  BY <1>0 DEF ListedInv
<1>2. client[c].token \in Tokens /\ client[c].ids \subseteq Tokens
  BY <1>1 DEF Calls
<1>3. /\ UNCHANGED <<pipe, answer>>
      /\ \A t \in Tokens : key[t] = "absent" => key'[t] = "absent"
  <2>1. UNCHANGED <<pipe, answer>>
    BY DEF RunScript, ScriptFails, DelKey, DelHash, RemIndex, DeleteFails
  <2>2. ASSUME revokeScript(client[c].token)
        PROVE  \A t \in Tokens : key[t] = "absent" => key'[t] = "absent"
    BY <2>2 DEF revokeScript
  <2>3. \/ revokeScript(client[c].token) \/ key' = key
        \/ key' = [key EXCEPT ![client[c].token] = "absent"]
    BY DEF RunScript, ScriptFails, DelKey, DelHash, RemIndex, DeleteFails
  <2>. QED  BY <1>2, <2>1, <2>2, <2>3
<1>5. EntriesGo
  BY <1>3 DEF EntriesGo
<1>6. ASSUME NEW res \in BOOLEAN, Finish(c, res), index' = index
      PROVE  ListedInv'
  <2>1. /\ client'[c].op = client[c].op /\ client'[c].token = client[c].token
        /\ client'[c].pc = "done" /\ client'[c].ids = client[c].ids /\ Rest(c)
    BY <1>0, <1>6, FinishMoves
  <2>2. ListedCall(client[c])'
    BY <1>1, <1>2, <1>3, <2>1 DEF ListedCall
  <2>. QED  BY <1>3, <1>5, <1>6, <2>1, <2>2, ListedStep
<1>7. CASE RunScript(c)
  BY <1>6, <1>7 DEF RunScript
<1>8. CASE ScriptFails(c) \/ DeleteFails(c)
  BY <1>6, <1>8 DEF ScriptFails, DeleteFails
<1>9. CASE DelKey(c)
  <2>1. /\ client'[c] = [client[c] EXCEPT !.pc = "delHash",
                                        !.res = key[client[c].token] # "absent",
                                        !.firm = Settled(client[c].token)]
        /\ Rest(c) /\ key'[client[c].token] = "absent" /\ index' = index
    BY <1>2, <1>9 DEF DelKey, Rest
  <2>2. /\ client'[c].pc = "delHash" /\ client'[c].token = client[c].token
        /\ client'[c].ids = client[c].ids
    BY <1>1, <2>1 DEF Calls
  <2>3. ListedCall(client[c])'
    BY <1>1, <1>2, <1>3, <2>1, <2>2 DEF ListedCall
  <2>. QED  BY <1>3, <1>5, <2>1, <2>3, ListedStep
<1>10. CASE DelHash(c) \/ RemIndex(c)
  <2>1. PICK pc \in {"srem", "done"} : Goto(c, pc)
    BY <1>10 DEF DelHash, RemIndex
  <2>2. /\ client[c].op = "delete" /\ client[c].pc \in {"delHash", "srem"}
        /\ index' = index \/ index' = index \ {client[c].token}
    BY <1>10 DEF DelHash, RemIndex, At
  <2>3. /\ client'[c].op = client[c].op /\ client'[c].token = client[c].token
        /\ client'[c].pc = pc /\ client'[c].ids = client[c].ids /\ Rest(c)
    BY <1>0, <2>1, GotoMoves DEF Points
  <2>4. key'[client[c].token] = "absent"
    BY <1>1, <1>2, <1>3, <2>2 DEF ListedCall
  <2>5. ListedCall(client[c])'
    BY <1>1, <1>2, <1>3, <2>1, <2>2, <2>3, <2>4 DEF ListedCall
  <2>. QED  BY <1>3, <1>5, <2>2, <2>3, <2>4, <2>5, ListedStep
<1>. QED  BY <1>7, <1>8, <1>9, <1>10

\* As long as Redis answers, no lookup, listing, save or deletion running beside
\* another takes a live token out of the index: List shows every token that was
\* issued and is still stored.
THEOREM IndexIsComplete == Spec => []IndexComplete
<1>1. Init => ListedInv
  <2>1. 0 \in Attempts
    BY RedisAssumption DEF Attempts
  <2>. QED  BY <2>1 DEF Init, ListedInv
<1>2. Inv /\ (errors = 0 => ListedInv) /\ [Next]_vars => (errors = 0 => ListedInv)'
  <2> SUFFICES ASSUME Inv, errors = 0 => ListedInv, [Next]_vars, errors' = 0
               PROVE  ListedInv'
    OBVIOUS
  <2>1. CASE UNCHANGED vars
    BY <2>1 DEF vars, ListedInv, ListedCall
  <2>2. CASE Next
    <3>1. errors = 0
      <4>1. errors' = errors \/ errors' = errors + 1
        BY <2>2
        DEF Next, SaveStep, Time, Call, CallStep, Save, SetKey, SetHash, AddIndex, Lost,
            SaveReturns, SaveResends, SaveFails, ClockPasses, LastInstant, Evict,
            EvictHash, GetByHash, Revoke, Delete, List, ListNext, GetHash, GetKey,
            GetKeyMisses, Unlist, RunScript, ScriptFails, DelKey, DelHash, RemIndex,
            DeleteFails, Respond, Error
      <4>. QED  BY <4>1 DEF Inv, TypeOK
    <3>. QED
      BY <2>2, <3>1, ListedTokenSteps, ListedCallStarts, ListedReadSteps, ListedWriteSteps
      DEF Next, CallStep
  <2>. QED  BY <2>1, <2>2
<1>3. (errors = 0 => ListedInv) => IndexComplete
  BY DEF ListedInv, IndexComplete
<1>. QED  BY <1>1, <1>2, <1>3, RedisInvariant, PTL DEF Spec

=============================================================================
