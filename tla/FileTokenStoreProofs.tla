------------------------ MODULE FileTokenStoreProofs ------------------------
(***************************************************************************)
(* What FileTokenStore promises for any number of tokens, failed flushes   *)
(* and crashes: revocation sticks, issued tokens work, and the token file  *)
(* implements the token lifecycle.                                         *)
(***************************************************************************)
EXTENDS FileTokenStore, TLAPS

\* Whoever holds the lock is one of the four mutations.
LEMMA LockHolder ==
  ASSUME TypeOK, op.kind # "none"
  PROVE  op \in Ops
BY DEF TypeOK, Ops, Free

\* Taking the lock.
LEMMA LockType ==
  ASSUME NEW kind \in Kinds, NEW t \in Tokens, Lock(kind, t)
  PROVE  /\ op' \in Ops
         /\ op'.kind = kind /\ op'.token = t /\ op'.stage = "write" /\ op'.ok = FALSE
BY DEF Lock, Ops

\* Every step keeps the types.
LEMMA TypeStep ==
  ASSUME TypeOK, [Next]_vars
  PROVE  TypeOK'
<1> USE DEF TypeOK, Status
<1>1. ASSUME NEW t \in Tokens, Save(t) PROVE TypeOK'
  <2>1. op' \in Ops
    BY <1>1, LockType DEF Save, Kinds
  <2>. QED  BY <1>1, <2>1 DEF Save
<1>2. ASSUME NEW t \in Tokens, Revoke(t) PROVE TypeOK'
  <2>1. op' \in Ops
    BY <1>2, LockType DEF Revoke, Kinds
  <2>. QED  BY <1>2, <2>1 DEF Revoke
<1>3. ASSUME NEW t \in Tokens, Delete(t) PROVE TypeOK'
  <2>1. op' \in Ops
    BY <1>3, LockType DEF Delete, Kinds
  <2>. QED  BY <1>3, <2>1 DEF Delete
<1>4. ASSUME NEW t \in Tokens, purgeExpired(t) PROVE TypeOK'
  <2>1. op' \in Ops
    BY <1>4, LockType DEF purgeExpired, Kinds
  <2>. QED  BY <1>4, <2>1 DEF purgeExpired
<1>5. ASSUME NEW t \in Tokens, Expire(t) PROVE TypeOK'
  BY <1>5 DEF Expire
<1>6. CASE WriteTemp
  <2>1. op \in Ops
    BY <1>6, LockHolder DEF WriteTemp
  <2>2. op' \in Ops
    BY <1>6, <2>1 DEF WriteTemp, Ops
  <2>. QED  BY <1>6, <2>2 DEF WriteTemp
<1>7. CASE Rename
  <2>1. op \in Ops
    BY <1>7, LockHolder DEF Rename
  <2>2. op' \in Ops
    BY <1>7, <2>1 DEF Rename, Ops
  <2>. QED  BY <1>7, <2>2 DEF Rename
<1>8. CASE FlushFails
  <2>1. op \in Ops
    BY <1>8, LockHolder DEF FlushFails
  <2>2. op' \in Ops
    BY <1>8, <2>1 DEF FlushFails, Ops
  <2>. QED  BY <1>8, <2>2 DEF FlushFails
<1>9. CASE Return
  <2>1. op \in Ops
    BY <1>9, LockHolder DEF Return
  <2>2. op.token \in Tokens
    BY <2>1 DEF Ops
  <2>. QED  BY <1>9, <2>2 DEF Return, Free
<1>10. CASE Crash
  <2>1. up' \in BOOLEAN
    BY <1>10, Zenon DEF Crash
  <2>2. op' \in Ops \union {Free}
    BY <1>10, Zenon DEF Crash
  <2>. QED  BY <1>10, <2>1, <2>2 DEF Crash, Free
<1>11. CASE load
  BY <1>11 DEF load
<1>12. CASE UNCHANGED vars
  BY <1>12 DEF vars
<1>. QED
  BY <1>1, <1>2, <1>3, <1>4, <1>5, <1>6, <1>7, <1>8, <1>9, <1>10, <1>11, <1>12
  DEF Next, Flush

\* TypeOK holds throughout: an error path of a flush never leaves the lock held at
\* a point from which the mutation does not go on.
THEOREM StoreTypeCorrect == Spec => []TypeOK
<1>1. ASSUME Init PROVE TypeOK
  <2>1. up \in BOOLEAN /\ torn \in BOOLEAN /\ op \in Ops \union {Free}
    BY <1>1, Zenon DEF Init
  <2>. QED  BY <1>1, <2>1 DEF Init, TypeOK, Status
<1>2. TypeOK /\ [Next]_vars => TypeOK'
  BY TypeStep
<1>. QED  BY <1>1, <1>2, PTL DEF Spec

-----------------------------------------------------------------------------
(* StoreInv is inductive                                                   *)

\* StoreInv holds of an empty store.
LEMMA InitStore == Init => StoreInv
BY DEF Init, StoreInv, RevokedDenied, IssuedGranted, UnsavedUnknown, LockNeedsProcess,
       MutationApplied, Free

\* Every step, of a mutation, a crash or a restart, keeps StoreInv.
LEMMA StoreStep ==
  ASSUME TypeOK, StoreInv, [Next]_vars
  PROVE  StoreInv'
<1>0. TypeOK'
  BY TypeStep
<1> USE DEF StoreInv, RevokedDenied, IssuedGranted, UnsavedUnknown, LockNeedsProcess
<1>1. ASSUME NEW t \in Tokens, Save(t) PROVE StoreInv'
  <2>1. op'.kind = "save" /\ op'.token = t /\ op'.ok = FALSE
    BY <1>1, LockType DEF Save, Kinds
  <2>2. MutationApplied'
    BY <1>1, <2>1 DEF Save, MutationApplied, TypeOK
  <2>. QED  BY <1>1, <2>2 DEF Save, TypeOK, Idle
<1>2. ASSUME NEW t \in Tokens, Revoke(t) PROVE StoreInv'
  <2>1. op'.kind = "revoke" /\ op'.token = t /\ op'.ok = FALSE
    BY <1>2, LockType DEF Revoke, Kinds
  <2>2. MutationApplied'
    BY <1>2, <2>1 DEF Revoke, MutationApplied, TypeOK
  <2>. QED  BY <1>2, <2>2 DEF Revoke, TypeOK, Idle
<1>3. ASSUME NEW t \in Tokens, Delete(t) PROVE StoreInv'
  <2>1. op'.kind = "delete"
    BY <1>3, LockType DEF Delete, Kinds
  <2>2. MutationApplied'
    BY <2>1 DEF MutationApplied
  <2>. QED  BY <1>3, <2>2 DEF Delete, TypeOK, Idle
<1>4. ASSUME NEW t \in Tokens, purgeExpired(t) PROVE StoreInv'
  <2>1. op'.kind = "purge"
    BY <1>4, LockType DEF purgeExpired, Kinds
  <2>2. MutationApplied'
    BY <2>1 DEF MutationApplied
  <2>. QED  BY <1>4, <2>2 DEF purgeExpired, TypeOK, Idle
<1>5. ASSUME NEW t \in Tokens, Expire(t) PROVE StoreInv'
  BY <1>5 DEF Expire, MutationApplied, TypeOK
<1>6. CASE WriteTemp
  <2>1. op \in Ops
    BY <1>6, LockHolder DEF WriteTemp
  <2>2. op'.kind = op.kind /\ op'.token = op.token /\ op'.ok = op.ok
    BY <1>6, <2>1 DEF WriteTemp, Ops
  <2>3. MutationApplied'
    BY <1>6, <2>2 DEF WriteTemp, MutationApplied
  <2>. QED  BY <1>6, <2>3 DEF WriteTemp, TypeOK
<1>7. CASE Rename
  <2>1. op \in Ops
    BY <1>7, LockHolder DEF Rename
  <2>2. op'.kind = op.kind /\ op'.token = op.token /\ op'.stage = "return"
    BY <1>7, <2>1 DEF Rename, Ops
  <2>3. MutationApplied'
    BY <1>7, <2>2 DEF Rename, MutationApplied
  <2>4. RevokedDenied'
    BY <1>7 DEF Rename, TypeOK
  <2>. QED  BY <1>7, <2>3, <2>4 DEF Rename, TypeOK
<1>8. CASE FlushFails
  <2>1. op \in Ops
    BY <1>8, LockHolder DEF FlushFails
  <2>2. op'.kind = op.kind /\ op'.token = op.token /\ op'.ok = op.ok
    BY <1>8, <2>1 DEF FlushFails, Ops
  <2>3. MutationApplied'
    BY <1>8, <2>2 DEF FlushFails, MutationApplied
  <2>. QED  BY <1>8, <2>3 DEF FlushFails, TypeOK
<1>9. CASE Return
  <2>1. op \in Ops
    BY <1>9, LockHolder DEF Return
  <2>2. op.token \in Tokens /\ op.ok \in BOOLEAN
    BY <2>1 DEF Ops
  <2>3. LockNeedsProcess' /\ MutationApplied'
    BY <1>9 DEF Return, MutationApplied, Free
  <2>4. RevokedDenied'
    BY <1>9, <2>2 DEF Return, MutationApplied, TypeOK
  <2>5. IssuedGranted'
    BY <1>9, <2>2 DEF Return, MutationApplied, TypeOK
  <2>6. UnsavedUnknown'
    BY <1>9, <2>2 DEF Return, MutationApplied, TypeOK
  <2>. QED  BY <2>3, <2>4, <2>5, <2>6
<1>10. CASE Crash
  <2>1. ~up'
    BY <1>10, Zenon DEF Crash
  <2>2. op'.kind = "none"
    BY <1>10 DEF Crash, Free
  <2>. QED  BY <1>10, <2>1, <2>2 DEF Crash, MutationApplied
<1>11. CASE load
  <2>1. op.kind = "none" /\ op' = op
    BY <1>11 DEF load
  <2>. QED  BY <1>11, <2>1 DEF load, MutationApplied, TypeOK
<1>12. CASE UNCHANGED vars
  BY <1>12 DEF vars, MutationApplied
<1>. QED
  BY <1>1, <1>2, <1>3, <1>4, <1>5, <1>6, <1>7, <1>8, <1>9, <1>10, <1>11, <1>12
  DEF Next, Flush

\* StoreInv holds throughout.
LEMMA StoreInvariant == Spec => [](TypeOK /\ StoreInv)
<1>1. TypeOK /\ StoreInv /\ [Next]_vars => StoreInv'
  BY StoreStep
<1>. QED  BY InitStore, <1>1, StoreTypeCorrect, PTL DEF Spec

\* A revoked token is never accepted again, after any number of crashes and
\* failed flushes of other mutations: only the failed flush of the revocation
\* itself can bring it back.
THEOREM RevocationIsFinal == Spec => []RevocationSticks
<1>1. StoreInv => RevocationSticks
  BY DEF StoreInv, RevokedDenied, RevocationSticks, Accepts, Idle
<1>. QED  BY <1>1, StoreInvariant, PTL

\* A token answered 201 is accepted by every running process until it expires or
\* somebody asks for its end.
THEOREM IssuanceIsDurable == Spec => []IssuedTokenWorks
<1>1. StoreInv => IssuedTokenWorks
  BY DEF StoreInv, IssuedGranted, IssuedTokenWorks, Accepts, Idle
<1>. QED  BY <1>1, StoreInvariant, PTL

-----------------------------------------------------------------------------
(* The store implements TokenLifecycle                                     *)

\* At the start there is nothing for the map to keep up with.
LEMMA InitKeepsUp == Init => MapKeepsUp
BY DEF Init, MapKeepsUp

\* The map of a running process never falls behind the file.
LEMMA KeepsUpStep ==
  ASSUME TypeOK, StoreInv, MapKeepsUp, [Next]_vars
  PROVE  MapKeepsUp'
<1> USE DEF MapKeepsUp, TypeOK
<1>1. ASSUME NEW t \in Tokens, Save(t) PROVE MapKeepsUp'
  BY <1>1 DEF Save
<1>2. ASSUME NEW t \in Tokens, Revoke(t) PROVE MapKeepsUp'
  BY <1>2 DEF Revoke, Idle
<1>3. ASSUME NEW t \in Tokens, Delete(t) PROVE MapKeepsUp'
  BY <1>3 DEF Delete, Idle
<1>4. ASSUME NEW t \in Tokens, purgeExpired(t) PROVE MapKeepsUp'
  BY <1>4 DEF purgeExpired, Idle
<1>5. CASE Rename
  BY <1>5 DEF Rename, StoreInv, UnsavedUnknown
<1>6. CASE Return
  <2>1. op.token \in Tokens
    BY <1>6, LockHolder DEF Return, Ops
  <2>. QED  BY <1>6, <2>1 DEF Return
<1>7. CASE Crash
  <2>1. ~up'
    BY <1>7, Zenon DEF Crash
  <2>. QED  BY <1>7, <2>1 DEF Crash
<1>8. CASE load
  BY <1>8 DEF load
<1>9. CASE UNCHANGED <<up, mem, disk, saved, issued>>
  BY <1>9
<1>. QED
  BY <1>1, <1>2, <1>3, <1>4, <1>5, <1>6, <1>7, <1>8, <1>9
  DEF Next, Flush, vars, Expire, WriteTemp, FlushFails

\* A step leaves each token's status alone, issues it or retires it.
LEMMA StatusStep ==
  ASSUME TypeOK, MapKeepsUp, [Next]_vars
  PROVE  [Lifecycle!Next]_TokenStatus
<1> USE DEF TokenStatus
<1>1. SUFFICES ASSUME Rename \/ \E t \in Tokens : Expire(t)
               PROVE  Lifecycle!Next
  <2>1. \/ Rename \/ \E t \in Tokens : Expire(t)
        \/ UNCHANGED <<disk, expired, issued>>
    BY DEF Next, Flush, vars, Save, Revoke, Delete, purgeExpired, WriteTemp, FlushFails,
           Return, Crash, load
  <2>. QED  BY <1>1, <2>1
<1>2. ASSUME NEW t \in Tokens
      PROVE  \/ TokenStatus'[t] = TokenStatus[t]
             \/ TokenStatus[t] = "unissued" /\ TokenStatus'[t] = "valid"
             \/ TokenStatus[t] # "dead" /\ TokenStatus'[t] = "dead"
  <2>1. CASE Rename
    BY <1>2, <2>1 DEF Rename, MapKeepsUp, TypeOK
  <2>2. CASE \E s \in Tokens : Expire(s)
    BY <1>2, <2>2 DEF Expire, MapKeepsUp, TypeOK
  <2>. QED  BY <1>1, <2>1, <2>2
<1>3. TokenStatus' \in [Tokens -> {"unissued", "valid", "dead"}]
  OBVIOUS
<1>. QED  BY <1>2, <1>3 DEF Lifecycle!Next, Lifecycle!Issue, Lifecycle!Retire

\* The store implements the token lifecycle through any failed flushes and
\* crashes: what the token file has retired never comes back.
THEOREM RefinesLifecycle == Spec => ImplementsLifecycle
<1>1. Init => Lifecycle!Init
  BY DEF Init, Lifecycle!Init, TokenStatus
<1>2. TypeOK /\ StoreInv /\ MapKeepsUp /\ [Next]_vars => MapKeepsUp'
  BY KeepsUpStep
<1>3. TypeOK /\ MapKeepsUp /\ [Next]_vars => [Lifecycle!Next]_TokenStatus
  BY StatusStep
<1>. QED
  BY <1>1, <1>2, <1>3, InitKeepsUp, StoreInvariant, PTL
  DEF Spec, ImplementsLifecycle, Lifecycle!Spec

=============================================================================
