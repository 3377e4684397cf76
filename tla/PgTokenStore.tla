---------------------------- MODULE PgTokenStore ----------------------------
(***************************************************************************)
(* The PostgreSQL token store: every method of PGTokenStore is one         *)
(* statement, sent, executed by the database and answered.  A method may   *)
(* return an error at any time in between: the statement is then lost, was *)
(* executed already, or is still on its way and takes effect later.        *)
(*                                                                         *)
(* Expiry is judged by two clocks: the purge compares with the database's  *)
(* NOW(), IsValid with the node's.  Each token passes its expiry on both,  *)
(* in either order.                                                        *)
(***************************************************************************)
EXTENDS Integers

CONSTANTS
  Tokens,        \* tokens, each with an id and a hash of its own
  Callers,       \* requests that call the store
  MaxFailures    \* bound: methods that return an error

ASSUME PgAssumption == MaxFailures \in Nat

VARIABLES
  rows,         \* the table: each token's row is "none", "live" or "revoked"
  call,         \* the method each caller is in
  orphans,      \* statements still on their way after their method returned
  saved,        \* tokens for which Save was called
  inserted,     \* history: tokens whose INSERT was executed
  issued,       \* tokens whose creation was answered 201
  attempted,    \* tokens for which Revoke or Delete was called
  confirmed,    \* tokens whose revocation or deletion was confirmed
  dbExpired,    \* tokens whose expiry the database's clock has passed
  nodeExpired,  \* tokens whose expiry the nodes' clock has passed
  failures      \* how many methods have returned an error

pgVars == <<rows, call, orphans, saved, inserted, issued, attempted, confirmed,
            dbExpired, nodeExpired, failures>>

Ops == {"save", "get", "revoke", "delete"}

\* A method: its statement is "sent" or "executed".  "hit" is its result: a row
\* was affected, or for "get" a row that is not revoked was found.  "late" is
\* history: the token was known to be dead when the method was called.
NoCall == [op |-> "none"]
Calls == [op : Ops, token : Tokens, state : {"sent", "executed"},
          hit : BOOLEAN, late : BOOLEAN]
Statements == [op : Ops, token : Tokens]

PgInit ==
  /\ rows        = [t \in Tokens |-> "none"]
  /\ call        = [c \in Callers |-> NoCall]
  /\ orphans     = {}
  /\ saved       = {}
  /\ inserted    = {}
  /\ issued      = {}
  /\ attempted   = {}
  /\ confirmed   = {}
  /\ dbExpired   = {}
  /\ nodeExpired = {}
  /\ failures    = 0

-----------------------------------------------------------------------------
(* The methods                                                             *)

\* A token is saved once, under a fresh id and a fresh hash.
Send(c, op, t) ==
  /\ call[c] = NoCall
  /\ op = "save" => t \notin saved
  /\ call' = [call EXCEPT ![c] =
                [op |-> op, token |-> t, state |-> "sent", hit |-> FALSE,
                 late |-> t \in confirmed]]
  /\ saved' = IF op = "save" THEN saved \union {t} ELSE saved
  /\ attempted' = IF op \in {"revoke", "delete"}
                  THEN attempted \union {t} ELSE attempted
  /\ UNCHANGED <<rows, orphans, inserted, issued, confirmed, dbExpired,
                 nodeExpired, failures>>

\* Mutant of Hits: a row that is revoked is as good as any other.
HitsRevoked(op, t) == IF op = "save" THEN rows[t] = "none" ELSE rows[t] # "none"

\* Whether a statement affects a row, or finds one that is not revoked.
Hits(op, t) ==
  \/ op = "save" /\ rows[t] = "none"
  \/ op = "get" /\ rows[t] = "live"
  \/ op \in {"revoke", "delete"} /\ rows[t] # "none"

\* What a statement leaves of the row: INSERT, UPDATE, DELETE, SELECT.
After(op, t) ==
  IF op = "save" /\ rows[t] = "none" THEN "live"
  ELSE IF op = "revoke" /\ rows[t] # "none" THEN "revoked"
  ELSE IF op = "delete" THEN "none"
  ELSE rows[t]

Effect(op, t) ==
  /\ rows' = [rows EXCEPT ![t] = After(op, t)]
  /\ inserted' = IF op = "save" THEN inserted \union {t} ELSE inserted

Execute(c) ==
  /\ call[c] # NoCall /\ call[c].state = "sent"
  /\ Effect(call[c].op, call[c].token)
  /\ call' = [call EXCEPT ![c] =
                [@ EXCEPT !.state = "executed",
                          !.hit = Hits(call[c].op, call[c].token)]]
  /\ UNCHANGED <<orphans, saved, issued, attempted, confirmed, dbExpired,
                 nodeExpired, failures>>

\* Mutant of Return: a revocation that affected no row is confirmed.
ReturnUnchecked(c) ==
  /\ call[c] # NoCall /\ call[c].state = "executed"
  /\ issued' = IF call[c].op = "save" THEN issued \union {call[c].token} ELSE issued
  /\ confirmed' = IF call[c].op \in {"revoke", "delete"}
                  THEN confirmed \union {call[c].token} ELSE confirmed
  /\ call' = [call EXCEPT ![c] = NoCall]
  /\ UNCHANGED <<rows, orphans, saved, inserted, attempted, dbExpired, nodeExpired,
                 failures>>

\* The method returns its result.  CreateToken hands the token out; deleteToken
\* answers 204 when a row was affected and 404 otherwise; the middleware lets a
\* token pass that was found live and that its node's clock has not expired.
Return(c) ==
  /\ call[c] # NoCall /\ call[c].state = "executed"
  /\ issued' = IF call[c].op = "save" THEN issued \union {call[c].token} ELSE issued
  /\ confirmed' = IF call[c].op \in {"revoke", "delete"} /\ call[c].hit
                  THEN confirmed \union {call[c].token} ELSE confirmed
  /\ call' = [call EXCEPT ![c] = NoCall]
  /\ UNCHANGED <<rows, orphans, saved, inserted, attempted, dbExpired, nodeExpired,
                 failures>>

\* Mutant of Fail: a statement whose reply was lost is sent again.
FailResent(c) ==
  /\ call[c] # NoCall
  /\ failures < MaxFailures
  /\ failures' = failures + 1
  /\ orphans' = orphans \union {[op |-> call[c].op, token |-> call[c].token]}
  /\ call' = [call EXCEPT ![c] = NoCall]
  /\ UNCHANGED <<rows, saved, inserted, issued, attempted, confirmed, dbExpired,
                 nodeExpired>>

\* The method returns an error: 500, 404 or 401.  A statement that was sent may
\* be lost with the connection or may still arrive.
Fail(c) ==
  /\ call[c] # NoCall
  /\ failures < MaxFailures
  /\ failures' = failures + 1
  /\ \/ UNCHANGED orphans
     \/ /\ call[c].state = "sent"
        /\ orphans' = orphans \union {[op |-> call[c].op, token |-> call[c].token]}
  /\ call' = [call EXCEPT ![c] = NoCall]
  /\ UNCHANGED <<rows, saved, inserted, issued, attempted, confirmed, dbExpired,
                 nodeExpired>>

Arrive(s) ==
  /\ s \in orphans
  /\ Effect(s.op, s.token)
  /\ orphans' = orphans \ {s}
  /\ UNCHANGED <<call, saved, issued, attempted, confirmed, dbExpired, nodeExpired,
                 failures>>

\* List only reads; what its caller makes of the rows is AdminConsole's.
ListFails ==
  /\ failures < MaxFailures
  /\ failures' = failures + 1
  /\ UNCHANGED <<rows, call, orphans, saved, inserted, issued, attempted, confirmed,
                 dbExpired, nodeExpired>>

-----------------------------------------------------------------------------
(* Time                                                                    *)

\* One DELETE of the rows whose expiry is before the database's NOW().
purgeExpired ==
  /\ rows' = [t \in Tokens |-> IF t \in dbExpired THEN "none" ELSE rows[t]]
  /\ UNCHANGED <<call, orphans, saved, inserted, issued, attempted, confirmed,
                 dbExpired, nodeExpired, failures>>

Expire(t) ==
  /\ t \in saved
  /\ \/ dbExpired' = dbExpired \union {t} /\ UNCHANGED nodeExpired
     \/ nodeExpired' = nodeExpired \union {t} /\ UNCHANGED dbExpired
  /\ UNCHANGED <<rows, call, orphans, saved, inserted, issued, attempted, confirmed,
                 failures>>

PgStep ==
  \/ \E c \in Callers : Execute(c) \/ Return(c) \/ Fail(c)
  \/ \E s \in Statements : Arrive(s)
  \/ purgeExpired
  \/ \E t \in Tokens : Expire(t)

PgNext ==
  \/ PgStep
  \/ ListFails
  \/ \E c \in Callers, op \in Ops, t \in Tokens : Send(c, op, t)

PgSpec == PgInit /\ [][PgNext]_pgVars

-----------------------------------------------------------------------------
(* The inductive invariant                                                 *)

PgTypeOK ==
  /\ rows \in [Tokens -> {"none", "live", "revoked"}]
  /\ call \in [Callers -> Calls \union {NoCall}]
  /\ orphans \subseteq Statements
  /\ saved \subseteq Tokens /\ inserted \subseteq Tokens /\ issued \subseteq Tokens
  /\ attempted \subseteq Tokens /\ confirmed \subseteq Tokens
  /\ dbExpired \subseteq Tokens /\ nodeExpired \subseteq Tokens
  /\ failures \in Nat

\* The row was there and is live no more; it will not be again.
Gone(t) == t \in inserted /\ rows[t] # "live"

\* The row is there, or somebody set out to end it, or its time has come.
Kept(t) == t \in inserted /\ (rows[t] = "live" \/ t \in attempted \/ t \in dbExpired)

Saves(k) == k.op = "save" /\ k.state = "sent"

CallInv(k) ==
  /\ k.late => k.token \in confirmed
  /\ k.state = "sent" => ~k.hit
  /\ Saves(k) => k.token \in saved \ inserted
  /\ k.op = "save" /\ k.state = "executed" => Kept(k.token)
  /\ k.op \in {"revoke", "delete"} => k.token \in attempted
  /\ k.op \in {"revoke", "delete"} /\ k.hit => Gone(k.token)
  /\ k.op = "get" /\ k.hit => ~k.late

OrphanInv(o) ==
  /\ o.op = "save" => o.token \in saved \ inserted
  /\ o.op \in {"revoke", "delete"} => o.token \in attempted

\* An INSERT that is under way is the only one of its token.
OneSave ==
  \A c \in Callers : call[c] # NoCall /\ Saves(call[c]) =>
    /\ \A d \in Callers \ {c} :
         call[d] # NoCall /\ Saves(call[d]) => call[d].token # call[c].token
    /\ \A o \in orphans : o.op = "save" => o.token # call[c].token

TableInv ==
  /\ inserted \subseteq saved
  /\ \A t \in Tokens : rows[t] # "none" => t \in inserted
  /\ \A t \in confirmed : Gone(t)
  /\ \A t \in issued : Kept(t)

PgInv ==
  /\ PgTypeOK
  /\ TableInv
  /\ \A c \in Callers : call[c] # NoCall => CallInv(call[c])
  /\ \A o \in orphans : OrphanInv(o)
  /\ OneSave

-----------------------------------------------------------------------------
(* Properties                                                              *)

\* A token whose revocation was answered 204 is found live by no method that is
\* called afterwards, although an INSERT or an UPDATE whose method has returned
\* an error may still be on its way (Revoke looks at RowsAffected).
RevocationSticks ==
  \A c \in Callers :
    call[c] # NoCall /\ call[c].op = "get" /\ call[c].hit => ~call[c].late

\* A token whose creation was answered 201 has its live row until somebody sets
\* out to revoke or delete it or its expiry passes on the database's clock.
IssuedTokenWorks ==
  \A t \in issued : rows[t] = "live" \/ t \in attempted \/ t \in dbExpired

\* What the table and the clocks mean to whoever presents a token.
Status(t) ==
  IF t \notin inserted THEN "unissued"
  ELSE IF rows[t] = "live" /\ t \notin nodeExpired THEN "valid" ELSE "dead"

TokenStatus == [t \in Tokens |-> Status(t)]

Lifecycle == INSTANCE TokenLifecycle WITH status <- TokenStatus

\* The PostgreSQL store implements TokenLifecycle: a token that was revoked,
\* deleted, purged or expired is never accepted again.
ImplementsLifecycle == Lifecycle!Spec

=============================================================================
