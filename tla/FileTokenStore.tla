--------------------------- MODULE FileTokenStore ---------------------------
(***************************************************************************)
(* The file-backed token store: an in-memory map under a read-write lock,  *)
(* written in full to an encrypted file after every mutation, and read     *)
(* back when the process starts.                                           *)
(*                                                                         *)
(* A mutation holds the write lock while it changes the map, writes a      *)
(* temporary file, syncs it and renames it over the token file, so no two  *)
(* mutations and no lookup overlap; but any of these steps may fail, and   *)
(* the process may die between any two of them.                            *)
(***************************************************************************)
EXTENDS Integers

CONSTANTS
  Tokens,          \* the tokens CreateToken generates: fresh id, fresh hash
  MaxFlushErrors,  \* bound: flushes that fail
  MaxCrashes       \* bound: times the process dies

ASSUME StoreAssumption == MaxFlushErrors \in Nat /\ MaxCrashes \in Nat

VARIABLES
  up,           \* the process runs
  mem,          \* byID and byHash, which share their entries
  disk,         \* the token file; a missing file has no tokens
  torn,         \* the token file cannot be decrypted
  op,           \* the mutation that holds the lock
  saved,        \* the answer to each POST /tokens
  revoked,      \* tokens whose DELETE /tokens/:id was answered 204
  asked,        \* tokens somebody asked to revoke or delete
  expired,      \* tokens whose ExpiresAt is past
  issued,       \* history: tokens that have been in the token file
  excused,      \* history: tokens whose revocation was not written out
  flushErrors,
  crashes

vars == <<up, mem, disk, torn, op, saved, revoked, asked, expired, issued, excused,
          flushErrors, crashes>>

Status == {"absent", "active", "revoked"}

Free == [kind |-> "none"]

Kinds == {"save", "revoke", "delete", "purge"}

\* ok tells whether the flush went through.
Ops == [kind : Kinds, token : Tokens, stage : {"write", "rename", "return"},
        ok : BOOLEAN]

Init ==
  /\ up = TRUE
  /\ mem  = [t \in Tokens |-> "absent"]
  /\ disk = [t \in Tokens |-> "absent"]
  /\ torn = FALSE
  /\ op = Free
  /\ saved = [t \in Tokens |-> "none"]
  /\ revoked = {} /\ asked = {} /\ expired = {} /\ issued = {} /\ excused = {}
  /\ flushErrors = 0 /\ crashes = 0

Idle == up /\ op.kind = "none"

\* GetByHash finds the token and IsValid lets it through.
Accepts(t) == Idle /\ mem[t] = "active" /\ t \notin expired

Lock(kind, t) == op' = [kind |-> kind, token |-> t, stage |-> "write", ok |-> FALSE]

\* CreateToken saves a fresh token.
Save(t) ==
  /\ Idle
  /\ saved[t] = "none"
  /\ saved' = [saved EXCEPT ![t] = "pending"]
  /\ mem' = [mem EXCEPT ![t] = "active"]
  /\ Lock("save", t)
  /\ UNCHANGED <<up, disk, torn, revoked, asked, expired, issued, excused, flushErrors,
                 crashes>>

Revoke(t) ==
  /\ Idle
  /\ mem[t] # "absent"
  /\ mem' = [mem EXCEPT ![t] = "revoked"]
  /\ asked' = asked \union {t}
  /\ Lock("revoke", t)
  /\ UNCHANGED <<up, disk, torn, saved, revoked, expired, issued, excused, flushErrors,
                 crashes>>

Delete(t) ==
  /\ Idle
  /\ mem[t] # "absent"
  /\ mem' = [mem EXCEPT ![t] = "absent"]
  /\ asked' = asked \union {t}
  /\ Lock("delete", t)
  /\ UNCHANGED <<up, disk, torn, saved, revoked, expired, issued, excused, flushErrors,
                 crashes>>

\* The background sweep, when it finds an expired entry t: all of them go.
purgeExpired(t) ==
  /\ Idle
  /\ t \in expired /\ mem[t] # "absent"
  /\ mem' = [s \in Tokens |-> IF s \in expired THEN "absent" ELSE mem[s]]
  /\ Lock("purge", t)
  /\ UNCHANGED <<up, disk, torn, saved, revoked, asked, expired, issued, excused,
                 flushErrors, crashes>>

-----------------------------------------------------------------------------
(* flush                                                                   *)

\* Mutant of WriteTemp: the token file itself is overwritten.
WriteInPlace ==
  /\ up /\ op.kind # "none" /\ op.stage = "write"
  /\ op' = [op EXCEPT !.stage = "rename"]
  /\ torn' = TRUE
  /\ UNCHANGED <<up, mem, disk, saved, revoked, asked, expired, issued, excused,
                 flushErrors, crashes>>

\* The whole map is marshalled, encrypted, written to a temporary file and synced.
WriteTemp ==
  /\ up /\ op.kind # "none" /\ op.stage = "write"
  /\ op' = [op EXCEPT !.stage = "rename"]
  /\ UNCHANGED <<up, mem, disk, torn, saved, revoked, asked, expired, issued, excused,
                 flushErrors, crashes>>

\* The temporary file takes the place of the token file.
Rename ==
  /\ up /\ op.kind # "none" /\ op.stage = "rename"
  /\ op' = [op EXCEPT !.stage = "return", !.ok = TRUE]
  /\ disk' = mem
  /\ torn' = FALSE
  /\ issued' = issued \union { t \in Tokens : mem[t] # "absent" }
  /\ excused' = { t \in excused : mem[t] = "active" }
  /\ UNCHANGED <<up, mem, saved, revoked, asked, expired, flushErrors, crashes>>

\* Any step of it fails: the temporary file is removed, the token file is as it was.
FlushFails ==
  /\ up /\ op.kind # "none" /\ op.stage \in {"write", "rename"}
  /\ flushErrors < MaxFlushErrors
  /\ flushErrors' = flushErrors + 1
  /\ op' = [op EXCEPT !.stage = "return"]
  /\ UNCHANGED <<up, mem, disk, torn, saved, revoked, asked, expired, issued, excused,
                 crashes>>

\* Mutant of Return: Save only logs the error of its flush.
ReturnUnchecked ==
  /\ up /\ op.kind # "none" /\ op.stage = "return"
  /\ op' = Free
  /\ saved' = IF op.kind = "save" THEN [saved EXCEPT ![op.token] = "201"] ELSE saved
  /\ revoked' = IF op.kind = "revoke" THEN revoked \union {op.token} ELSE revoked
  /\ excused' = IF op.kind = "revoke" /\ ~op.ok THEN excused \union {op.token} ELSE excused
  /\ UNCHANGED <<up, mem, disk, torn, asked, expired, issued, flushErrors, crashes>>

\* The lock is released.  Save reports a failed flush, with the entry left in the
\* map; Revoke and Delete log it and report success.
Return ==
  /\ up /\ op.kind # "none" /\ op.stage = "return"
  /\ op' = Free
  /\ saved' = IF op.kind = "save"
              THEN [saved EXCEPT ![op.token] = IF op.ok THEN "201" ELSE "500"] ELSE saved
  /\ revoked' = IF op.kind = "revoke" THEN revoked \union {op.token} ELSE revoked
  /\ excused' = IF op.kind = "revoke" /\ ~op.ok THEN excused \union {op.token} ELSE excused
  /\ UNCHANGED <<up, mem, disk, torn, asked, expired, issued, flushErrors, crashes>>

-----------------------------------------------------------------------------
(* The process and the clock                                               *)

Crash ==
  /\ up
  /\ crashes < MaxCrashes
  /\ crashes' = crashes + 1
  /\ up' = FALSE
  /\ op' = Free
  /\ UNCHANGED <<mem, disk, torn, saved, revoked, asked, expired, issued, excused,
                 flushErrors>>

\* Mutant of load: RevokedAt is not part of the file.
loadUnrevoked ==
  /\ ~up
  /\ ~torn
  /\ up' = TRUE
  /\ mem' = [t \in Tokens |-> IF disk[t] = "absent" THEN "absent" ELSE "active"]
  /\ UNCHANGED <<disk, torn, op, saved, revoked, asked, expired, issued, excused,
                 flushErrors, crashes>>

\* NewFileTokenStore loads the file, and refuses to start when it cannot.
load ==
  /\ ~up
  /\ ~torn
  /\ up' = TRUE
  /\ mem' = disk
  /\ UNCHANGED <<disk, torn, op, saved, revoked, asked, expired, issued, excused,
                 flushErrors, crashes>>

Expire(t) ==
  /\ saved[t] # "none"
  /\ t \notin expired
  /\ expired' = expired \union {t}
  /\ UNCHANGED <<up, mem, disk, torn, op, saved, revoked, asked, issued, excused,
                 flushErrors, crashes>>

-----------------------------------------------------------------------------
Flush == WriteTemp \/ Rename \/ FlushFails \/ Return

Next ==
  \/ \E t \in Tokens : Save(t) \/ Revoke(t) \/ Delete(t) \/ purgeExpired(t) \/ Expire(t)
  \/ Flush
  \/ Crash \/ load

\* A flush that started goes on, and a process that died is started again.
Fairness == WF_vars(Flush) /\ WF_vars(load)

Spec == Init /\ [][Next]_vars

FairSpec == Spec /\ Fairness

-----------------------------------------------------------------------------
(* Properties                                                              *)

\* The map and the file hold entries in one of the states IsValid tells apart,
\* and the lock is free or held by a mutation at a point of its flush from
\* which it goes on.
TypeOK ==
  /\ up \in BOOLEAN /\ torn \in BOOLEAN
  /\ mem \in [Tokens -> Status] /\ disk \in [Tokens -> Status]
  /\ op \in Ops \union {Free}
  /\ saved \in [Tokens -> {"none", "pending", "201", "500"}]
  /\ revoked \subseteq Tokens /\ asked \subseteq Tokens /\ expired \subseteq Tokens
  /\ issued \subseteq Tokens /\ excused \subseteq Tokens
  /\ flushErrors \in Nat /\ crashes \in Nat

\* A token whose revocation was answered 204 is never accepted again, whatever
\* crashes follow, unless the flush of that revocation failed and no later
\* mutation has written the revoked entry out.
RevocationSticks ==
  \A t \in revoked \ excused : ~Accepts(t)

\* A token answered 201 is accepted by every running process until it expires
\* or somebody asks to revoke or delete it: no crash and no failed flush of
\* another mutation takes it away.
IssuedTokenWorks ==
  \A t \in Tokens :
    saved[t] = "201" /\ t \notin asked \union expired /\ Idle => Accepts(t)

\* Why both hold, as an inductive invariant.  Entries exist only for tokens that
\* were saved; the file, and the map of a running process, deny what has been
\* revoked and grant what has been issued; and the mutation that holds the lock
\* has changed the map already, and the file once its flush went through.
RevokedDenied ==
  \A t \in revoked \ excused :
    disk[t] # "active" /\ (up => mem[t] # "active")

IssuedGranted ==
  \A t \in Tokens :
    saved[t] = "201" /\ t \notin asked \union expired =>
      disk[t] = "active" /\ (up => mem[t] = "active")

UnsavedUnknown ==
  \A t \in Tokens :
    saved[t] = "none" => mem[t] = "absent" /\ disk[t] = "absent" /\ t \notin revoked

LockNeedsProcess == op.kind # "none" => up

MutationApplied ==
  op.kind \in {"save", "revoke"} =>
    LET applied == IF op.kind = "save" THEN "active" ELSE "revoked"
    IN /\ mem[op.token] = applied
       /\ op.ok => op.stage = "return" /\ disk[op.token] = applied

StoreInv ==
  /\ RevokedDenied /\ IssuedGranted /\ UnsavedUnknown
  /\ LockNeedsProcess /\ MutationApplied

\* The process always comes back: whenever it dies, it leaves a token file that
\* the next one can read.
ComesBack == ~up ~> up

\* What the store promises of a token for good: the token file decides.  The map
\* of a running process may be ahead of it by the flushes that failed.
TokenStatus ==
  [t \in Tokens |-> IF disk[t] = "active" /\ t \notin expired THEN "valid"
                    ELSE IF t \in issued THEN "dead" ELSE "unissued"]

Lifecycle == INSTANCE TokenLifecycle WITH status <- TokenStatus

\* The store implements the token lifecycle across failed flushes and crashes: a
\* token that was retired in the file never comes back, although every flush
\* rewrites the file from a map that was loaded before.
ImplementsLifecycle == Lifecycle!Spec

\* Why, as an inductive invariant: the file only ever held issued tokens, and
\* what it does not hold as active any more, the map does not either.
MapKeepsUp ==
  \A t \in Tokens :
    /\ disk[t] # "absent" => t \in issued
    /\ saved[t] = "none" => t \notin issued
    /\ up /\ t \in issued /\ disk[t] # "active" => mem[t] # "active"

=============================================================================
