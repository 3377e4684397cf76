------------------------- MODULE PackageStoreProofs -------------------------
(***************************************************************************)
(* Proofs about PackageStore for any set of requests, folders, files and   *)
(* archives and any number of faults.                                      *)
(***************************************************************************)
EXTENDS PackageStore, TLAPS

\* The initial state is well typed.
LEMMA InitTypeOK == Init => TypeOK
BY ConstantsAssumption DEF Init, TypeOK, Phases, Running, Ended, FaultKinds

\* Counting a fault keeps the counters natural numbers.
LEMMA FaultType ==
  ASSUME TypeOK, NEW kind \in FaultKinds, NEW bound, Fault(kind, bound)
  PROVE  faults' \in [FaultKinds -> Nat]
<1>1. faults \in [FaultKinds -> Nat]
  BY DEF TypeOK
<1>2. faults' = [faults EXCEPT ![kind] = faults[kind] + 1]
  BY DEF Fault
<1> QED BY <1>1, <1>2

\* A failing call either counts a fault or finds the context cancelled.
LEMMA CallFailsType ==
  ASSUME TypeOK, NEW q \in Requests, CallFails(q)
  PROVE  faults' \in [FaultKinds -> Nat]
BY FaultType DEF TypeOK, CallFails, FaultKinds

\* Removals count faults like the calls of requests do.
LEMMA RemovalFailsType ==
  ASSUME TypeOK, NEW q \in Requests, RemovalFails(q)
  PROVE  faults' \in [FaultKinds -> Nat]
BY FaultType, CallFailsType DEF RemovalFails, FaultKinds

\* Marking overlaps keeps one flag per request.
LEMMA MarkOverlapType ==
  ASSUME TypeOK, NEW q \in Requests, MarkOverlap(q)
  PROVE  overlapped' \in [Requests -> BOOLEAN]
BY DEF TypeOK, MarkOverlap

\* Every step keeps the state well typed.
LEMMA NextTypeOK == TypeOK /\ [Next]_vars => TypeOK'
<1> SUFFICES ASSUME TypeOK, [Next]_vars PROVE TypeOK'
  OBVIOUS
<1> USE DEF Requests
<1>1. ASSUME NEW u \in Uploads, RejectUpload(u) PROVE TypeOK'
  BY <1>1 DEF TypeOK, RejectUpload, Answer
<1>2. ASSUME NEW u \in Uploads, BeginUpload(u) PROVE TypeOK'
  <2>1. overlapped' \in [Requests -> BOOLEAN]
    BY <1>2, MarkOverlapType DEF BeginUpload
  <2>2. archive' \in [Uploads -> SUBSET Keys]
    <3>1. PICK a \in Archives : archive' = [archive EXCEPT ![u] = a]
      BY <1>2 DEF BeginUpload
    <3> QED BY <3>1, ConstantsAssumption DEF TypeOK
  <2> QED BY <1>2, <2>1, <2>2 DEF TypeOK, BeginUpload
<1>3. ASSUME NEW u \in Uploads, ProbeFound(u) PROVE TypeOK'
  BY <1>3 DEF TypeOK, ProbeFound, Answer
<1>4. ASSUME NEW u \in Uploads, RejectArchive(u), faults' \in [FaultKinds -> Nat]
      PROVE  TypeOK'
  BY <1>4 DEF TypeOK, RejectArchive, Answer
<1>5. ASSUME NEW u \in Uploads, FanOut(u), faults' \in [FaultKinds -> Nat]
      PROVE  TypeOK'
  BY <1>5 DEF TypeOK, FanOut, Phases, Running, Ended
<1>6. ASSUME NEW u \in Uploads, ProbeNotFound(u) PROVE TypeOK'
  <2>1. faults' \in [FaultKinds -> Nat]
    BY <1>6 DEF ProbeNotFound, TypeOK
  <2> QED BY <1>4, <1>5, <1>6, <2>1 DEF ProbeNotFound
<1>7. ASSUME NEW u \in Uploads, ProbeFails(u) PROVE TypeOK'
  <2>1. faults' \in [FaultKinds -> Nat]
    BY <1>7, FaultType DEF ProbeFails, TypeOK, FaultKinds
  <2> QED BY <1>4, <1>5, <1>7, <2>1 DEF ProbeFails
<1>8. ASSUME NEW u \in Uploads, NEW k \in Keys, StartTask(u, k) PROVE TypeOK'
  BY <1>8 DEF TypeOK, StartTask, Phases, Running
<1>9. ASSUME NEW u \in Uploads, NEW k \in Keys, AddObject(u, k) PROVE TypeOK'
  <2>1. task' \in [Uploads -> [Keys -> Phases]]
    <3>1. PICK next \in Phases : task' = [task EXCEPT ![u][k] = next]
      BY <1>9 DEF AddObject, Phases, Running, Ended
    <3> QED BY <3>1 DEF TypeOK
  <2> QED BY <1>9, <2>1 DEF TypeOK, AddObject
<1>10. ASSUME NEW u \in Uploads, NEW k \in Keys, AddObjectFails(u, k) PROVE TypeOK'
  <2>1. faults' \in [FaultKinds -> Nat]
    BY <1>10, CallFailsType DEF AddObjectFails, FailedPut
  <2> QED BY <1>10, <2>1 DEF TypeOK, AddObjectFails, FailedPut, Phases, Ended
<1>11. ASSUME NEW u \in Uploads, NEW k \in Keys, AcquireSlot(u, k) PROVE TypeOK'
  BY <1>11 DEF TypeOK, AcquireSlot, Phases, Running
<1>12. ASSUME NEW u \in Uploads, NEW k \in Keys, Compress(u, k) PROVE TypeOK'
  <2>1. PICK new :
          task' = [task EXCEPT ![u] = [j \in Keys |->
                     IF j = k THEN IF new = {} THEN "done" ELSE "variants"
                     ELSE IF j \in new THEN "pending" ELSE task[u][j]]]
    BY <1>12 DEF Compress
  <2>2. task' \in [Uploads -> [Keys -> Phases]]
    BY <2>1, ZenonT(30) DEF TypeOK, Phases, Running, Ended
  <2> QED BY <1>12, <2>2 DEF TypeOK, Compress, ReleaseSlot
<1>13. ASSUME NEW u \in Uploads, NEW k \in Keys, CompressFails(u, k) PROVE TypeOK'
  <2>1. faults' \in [FaultKinds -> Nat]
    BY <1>13, FaultType DEF CompressFails, FaultKinds
  <2> QED BY <1>13, <2>1 DEF TypeOK, CompressFails, ReleaseSlot, Phases, Ended
<1>14. ASSUME NEW u \in Uploads, NEW k \in Keys, NEW v \in Keys, AddBytes(u, k, v)
       PROVE  TypeOK'
  BY <1>14 DEF TypeOK, AddBytes, Phases, Ended
<1>15. ASSUME NEW u \in Uploads, NEW k \in Keys, NEW v \in Keys, AddBytesFails(u, k, v)
       PROVE  TypeOK'
  <2>1. faults' \in [FaultKinds -> Nat]
    BY <1>15, CallFailsType DEF AddBytesFails, FailedPut
  <2> QED BY <1>15, <2>1, ZenonT(30) DEF TypeOK, AddBytesFails, FailedPut, Phases, Ended
<1>16. ASSUME NEW u \in Uploads, WaitSucceeds(u) PROVE TypeOK'
  BY <1>16 DEF TypeOK, WaitSucceeds, Answer
<1>17. ASSUME NEW u \in Uploads, WaitFails(u) PROVE TypeOK'
  BY <1>17 DEF TypeOK, WaitFails
<1>18. ASSUME NEW u \in Uploads, RollbackDone(u) PROVE TypeOK'
  BY <1>18 DEF TypeOK, RollbackDone, Answer
<1>19. ASSUME NEW q \in Requests, NEW k \in Keys, RemoveObject(q, k) PROVE TypeOK'
  BY <1>19 DEF TypeOK, RemoveObject
<1>20. ASSUME NEW q \in Requests, NEW k \in Keys, RemoveObjectFails(q, k) PROVE TypeOK'
  <2>1. faults' \in [FaultKinds -> Nat]
    BY <1>20, RemovalFailsType DEF RemoveObjectFails
  <2> QED BY <1>20, <2>1 DEF TypeOK, RemoveObjectFails
<1>21. ASSUME NEW q \in Requests, RemoveListingFails(q) PROVE TypeOK'
  <2>1. faults' \in [FaultKinds -> Nat]
    BY <1>21, RemovalFailsType DEF RemoveListingFails
  <2> QED BY <1>21, <2>1 DEF TypeOK, RemoveListingFails
<1>22. ASSUME NEW d \in Deletes, RejectDelete(d) PROVE TypeOK'
  BY <1>22 DEF TypeOK, RejectDelete, Answer
<1>23. ASSUME NEW d \in Deletes, BeginDelete(d) PROVE TypeOK'
  <2>1. overlapped' \in [Requests -> BOOLEAN]
    BY <1>23, MarkOverlapType DEF BeginDelete
  <2> QED BY <1>23, <2>1 DEF TypeOK, BeginDelete
<1>24. ASSUME NEW d \in Deletes, DeleteDone(d) PROVE TypeOK'
  BY <1>24 DEF TypeOK, DeleteDone, Answer
<1>25. ASSUME NEW q \in Requests, Disconnect(q) PROVE TypeOK'
  <2>1. faults' \in [FaultKinds -> Nat]
    BY <1>25, FaultType DEF Disconnect, FaultKinds
  <2>2. PICK landed \in InFlight(q) :
          bucket' = [o \in Folders \X Keys |->
                       IF o[1] = folder[q] /\ o[2] \in landed THEN q ELSE bucket[o]]
    BY <1>25 DEF Disconnect
  <2>3. q \in Uploads \/ landed = {}
    BY <2>2 DEF InFlight
  <2>4. bucket' \in [Folders \X Keys -> Uploads \union {NoUpload}]
    BY <2>2, <2>3 DEF TypeOK
  <2> QED BY <1>25, <2>1, <2>4 DEF TypeOK, Disconnect
<1>26. ASSUME Crash PROVE TypeOK'
  <2>1. faults' \in [FaultKinds -> Nat]
    BY <1>26, FaultType DEF Crash, FaultKinds
  <2> QED BY <1>26, <2>1 DEF TypeOK, Crash
<1>27. CASE UNCHANGED vars
  BY <1>27 DEF TypeOK, vars
<1> QED
  BY <1>1, <1>2, <1>3, <1>6, <1>7, <1>8, <1>9, <1>10, <1>11, <1>12, <1>13, <1>14,
     <1>15, <1>16, <1>17, <1>18, <1>19, <1>20, <1>21, <1>22, <1>23, <1>24, <1>25,
     <1>26, <1>27
  DEF Next, UploadStep, RemoveStep

\* The variables keep their types in every behaviour of the service.
THEOREM TypeCorrect == Spec => []TypeOK
BY InitTypeOK, NextTypeOK, PTL DEF Spec

-----------------------------------------------------------------------------
(* A failed upload leaves nothing                                          *)

\* A goroutine that still runs belongs to a handler that waits for it.
LEMMA RunningMeansUpload ==
  ASSUME UploadInv, NEW u \in Uploads, NEW k \in Keys,
         pc[u] # "killed", task[u][k] \notin Ended
  PROVE  pc[u] = "upload"
BY DEF UploadInv, UploadInvOf, AllReturned

\* What a step of somebody else may do to an upload: take objects away.
LEMMA OtherUpload ==
  ASSUME NEW w \in Uploads, UploadInvOf(w), folder' = folder,
         pc'[w] = pc[w], answer'[w] = answer[w], task'[w] = task[w],
         left'[w] = left[w], removeErr'[w] = removeErr[w],
         \A o \in Folders \X Keys : bucket'[o] = w => bucket[o] = w
  PROVE  UploadInvOf(w)'
BY DEF UploadInvOf, AllReturned

\* A step of a goroutine of an upload whose handler waits preserves the
\* invariant: it stores nothing, or objects of its own folder.
LEMMA GoroutineStep ==
  ASSUME UploadInv, NEW u \in Uploads, pc[u] = "upload",
         UNCHANGED <<pc, folder, left, removeErr, answer>>,
         \A w \in Uploads : w # u => task'[w] = task[w],
         \A o \in Folders \X Keys :
           bucket'[o] = bucket[o] \/ (bucket'[o] = u /\ o[1] = folder[u])
  PROVE  UploadInv'
<1>1. ASSUME NEW w \in Uploads, w # u PROVE UploadInvOf(w)'
  BY <1>1, OtherUpload DEF UploadInv
<1>2. UploadInvOf(u)'
  BY DEF UploadInv, UploadInvOf
<1> QED BY <1>1, <1>2 DEF UploadInv

\* Storing one object changes the bucket there only.
LEMMA PutEffect ==
  ASSUME TypeOK, NEW u \in Uploads, NEW k \in Keys,
         bucket' = bucket \/ bucket' = [bucket EXCEPT ![<<folder[u], k>>] = u]
  PROVE  \A o \in Folders \X Keys :
           bucket'[o] = bucket[o] \/ (bucket'[o] = u /\ o[1] = folder[u])
<1> SUFFICES ASSUME NEW o \in Folders \X Keys
             PROVE  bucket'[o] = bucket[o] \/ (bucket'[o] = u /\ o[1] = folder[u])
  OBVIOUS
<1> DEFINE put == <<folder[u], k>>
<1>1. bucket = [x \in Folders \X Keys |-> bucket[x]]
  BY DEF TypeOK
<1>2. CASE o # put
  BY <1>1, <1>2
<1>3. CASE o = put
  <2>1. o[1] = folder[u]
    BY <1>3
  <2> QED BY <1>1, <1>3, <2>1
<1> QED BY <1>2, <1>3

\* The invariant holds initially.
LEMMA InitUploadInv == Init => UploadInv
BY ConstantsAssumption
DEF Init, UploadInv, UploadInvOf, AllReturned, Requests, Ended

\* Every step preserves the invariant.
LEMMA NextUploadInv == TypeOK /\ UploadInv /\ [Next]_vars => UploadInv'
<1> SUFFICES ASSUME TypeOK, UploadInv, [Next]_vars PROVE UploadInv'
  OBVIOUS
<1> USE DEF Requests
<1>1. ASSUME NEW u \in Uploads, RejectUpload(u) PROVE UploadInv'
  <2>1. ASSUME NEW w \in Uploads, w # u PROVE UploadInvOf(w)'
    BY <1>1, <2>1, OtherUpload DEF RejectUpload, Answer, TypeOK, UploadInv
  <2>2. UploadInvOf(u)'
    BY <1>1, ZenonT(30) DEF RejectUpload, Answer, TypeOK, UploadInv, UploadInvOf, AllReturned
  <2> QED BY <2>1, <2>2 DEF UploadInv
<1>2. ASSUME NEW u \in Uploads, BeginUpload(u) PROVE UploadInv'
  <2>1. ASSUME NEW w \in Uploads, w # u PROVE UploadInvOf(w)'
    BY <1>2, <2>1, OtherUpload DEF BeginUpload, TypeOK, UploadInv
  <2>2. UploadInvOf(u)'
    BY <1>2 DEF BeginUpload, TypeOK, UploadInv, UploadInvOf, AllReturned
  <2> QED BY <2>1, <2>2 DEF UploadInv
<1>3. ASSUME NEW u \in Uploads, ProbeFound(u) PROVE UploadInv'
  <2>1. ASSUME NEW w \in Uploads, w # u PROVE UploadInvOf(w)'
    BY <1>3, <2>1, OtherUpload DEF ProbeFound, Answer, TypeOK, UploadInv
  <2>2. UploadInvOf(u)'
    BY <1>3 DEF ProbeFound, Answer, TypeOK, UploadInv, UploadInvOf, AllReturned
  <2> QED BY <2>1, <2>2 DEF UploadInv
<1>4. ASSUME NEW u \in Uploads, pc[u] = "probe", RejectArchive(u) PROVE UploadInv'
  <2>1. ASSUME NEW w \in Uploads, w # u PROVE UploadInvOf(w)'
    BY <1>4, <2>1, OtherUpload DEF RejectArchive, Answer, TypeOK, UploadInv
  <2>2. UploadInvOf(u)'
    BY <1>4, ZenonT(30) DEF RejectArchive, Answer, TypeOK, UploadInv, UploadInvOf, AllReturned
  <2> QED BY <2>1, <2>2 DEF UploadInv
<1>5. ASSUME NEW u \in Uploads, pc[u] = "probe", FanOut(u) PROVE UploadInv'
  <2>1. ASSUME NEW w \in Uploads, w # u PROVE UploadInvOf(w)'
    BY <1>5, <2>1, OtherUpload DEF FanOut, TypeOK, UploadInv
  <2>2. UploadInvOf(u)'
    BY <1>5 DEF FanOut, TypeOK, UploadInv, UploadInvOf, AllReturned
  <2> QED BY <2>1, <2>2 DEF UploadInv
<1>6. ASSUME NEW u \in Uploads, ProbeNotFound(u) \/ ProbeFails(u) PROVE UploadInv'
  BY <1>4, <1>5, <1>6 DEF ProbeNotFound, ProbeFails
<1>7. ASSUME NEW u \in Uploads, NEW k \in Keys, StartTask(u, k) PROVE UploadInv'
  BY <1>7, GoroutineStep DEF StartTask, TypeOK
<1>8. ASSUME NEW u \in Uploads, NEW k \in Keys, AddObject(u, k)
      PROVE  UploadInv'
  <2>1. pc[u] = "upload"
    BY <1>8, RunningMeansUpload DEF AddObject, Ended
  <2>2. \A w \in Uploads : w # u => task'[w] = task[w]
    BY <1>8 DEF AddObject, TypeOK
  <2>3. \A o \in Folders \X Keys :
          bucket'[o] = bucket[o] \/ (bucket'[o] = u /\ o[1] = folder[u])
    BY <1>8, PutEffect DEF AddObject
  <2> QED BY <1>8, <2>1, <2>2, <2>3, GoroutineStep DEF AddObject
<1>9. ASSUME NEW u \in Uploads, NEW k \in Keys, AddObjectFails(u, k)
      PROVE  UploadInv'
  <2>1. pc[u] = "upload"
    BY <1>9, RunningMeansUpload DEF AddObjectFails, Ended
  <2>2. \A w \in Uploads : w # u => task'[w] = task[w]
    BY <1>9 DEF AddObjectFails, TypeOK
  <2>3. \A o \in Folders \X Keys :
          bucket'[o] = bucket[o] \/ (bucket'[o] = u /\ o[1] = folder[u])
    BY <1>9, PutEffect DEF AddObjectFails, FailedPut
  <2> QED BY <1>9, <2>1, <2>2, <2>3, GoroutineStep DEF AddObjectFails
<1>10. ASSUME NEW u \in Uploads, NEW k \in Keys, AcquireSlot(u, k)
      PROVE  UploadInv'
  <2>1. pc[u] = "upload"
    BY <1>10, RunningMeansUpload DEF AcquireSlot, Ended
  <2>2. \A w \in Uploads : w # u => task'[w] = task[w]
    BY <1>10 DEF AcquireSlot, TypeOK
  <2> QED BY <1>10, <2>1, <2>2, GoroutineStep DEF AcquireSlot
<1>11. ASSUME NEW u \in Uploads, NEW k \in Keys, Compress(u, k)
      PROVE  UploadInv'
  <2>1. pc[u] = "upload"
    BY <1>11, RunningMeansUpload DEF Compress, Ended
  <2>2. \A w \in Uploads : w # u => task'[w] = task[w]
    BY <1>11 DEF Compress, TypeOK
  <2> QED BY <1>11, <2>1, <2>2, GoroutineStep DEF Compress
<1>12. ASSUME NEW u \in Uploads, NEW k \in Keys, CompressFails(u, k)
      PROVE  UploadInv'
  <2>1. pc[u] = "upload"
    BY <1>12, RunningMeansUpload DEF CompressFails, Ended
  <2>2. \A w \in Uploads : w # u => task'[w] = task[w]
    BY <1>12 DEF CompressFails, TypeOK
  <2> QED BY <1>12, <2>1, <2>2, GoroutineStep DEF CompressFails
<1>13. ASSUME NEW u \in Uploads, NEW k \in Keys, NEW v \in Keys, AddBytes(u, k, v)
      PROVE  UploadInv'
  <2>1. pc[u] = "upload"
    BY <1>13, RunningMeansUpload DEF AddBytes, Storing, Ended
  <2>2. \A w \in Uploads : w # u => task'[w] = task[w]
    BY <1>13 DEF AddBytes, TypeOK
  <2>3. \A o \in Folders \X Keys :
          bucket'[o] = bucket[o] \/ (bucket'[o] = u /\ o[1] = folder[u])
    BY <1>13, PutEffect DEF AddBytes
  <2> QED BY <1>13, <2>1, <2>2, <2>3, GoroutineStep DEF AddBytes
<1>14. ASSUME NEW u \in Uploads, NEW k \in Keys, NEW v \in Keys, AddBytesFails(u, k, v)
      PROVE  UploadInv'
  <2>1. pc[u] = "upload"
    BY <1>14, RunningMeansUpload DEF AddBytesFails, Storing, Ended
  <2>2. \A w \in Uploads : w # u => task'[w] = task[w]
    BY <1>14 DEF AddBytesFails, TypeOK
  <2>3. \A o \in Folders \X Keys :
          bucket'[o] = bucket[o] \/ (bucket'[o] = u /\ o[1] = folder[u])
    BY <1>14, PutEffect DEF AddBytesFails, FailedPut
  <2> QED BY <1>14, <2>1, <2>2, <2>3, GoroutineStep DEF AddBytesFails
<1>15. ASSUME NEW u \in Uploads, WaitSucceeds(u) PROVE UploadInv'
  <2>1. ASSUME NEW w \in Uploads, w # u PROVE UploadInvOf(w)'
    BY <1>15, <2>1, OtherUpload DEF WaitSucceeds, Answer, TypeOK, UploadInv
  <2>2. UploadInvOf(u)'
    BY <1>15 DEF WaitSucceeds, Answer, TypeOK, UploadInv, UploadInvOf, AllReturned
  <2> QED BY <2>1, <2>2 DEF UploadInv
<1>16. ASSUME NEW u \in Uploads, WaitFails(u) PROVE UploadInv'
  <2>1. ASSUME NEW w \in Uploads, w # u PROVE UploadInvOf(w)'
    BY <1>16, <2>1, OtherUpload DEF WaitFails, TypeOK, UploadInv
  <2>2. UploadInvOf(u)'
    BY <1>16, ZenonT(30) DEF WaitFails, TypeOK, UploadInv, UploadInvOf, AllReturned
  <2> QED BY <2>1, <2>2 DEF UploadInv
<1>17. ASSUME NEW u \in Uploads, RollbackDone(u) PROVE UploadInv'
  <2>1. ASSUME NEW w \in Uploads, w # u PROVE UploadInvOf(w)'
    BY <1>17, <2>1, OtherUpload DEF RollbackDone, Answer, TypeOK, UploadInv
  <2>2. UploadInvOf(u)'
    BY <1>17 DEF RollbackDone, Answer, TypeOK, UploadInv, UploadInvOf, AllReturned
  <2> QED BY <2>1, <2>2 DEF UploadInv
<1>18. ASSUME NEW q \in Requests, NEW k \in Keys, RemoveObject(q, k) PROVE UploadInv'
  <2>1. ASSUME NEW w \in Uploads, w # q PROVE UploadInvOf(w)'
    BY <1>18, <2>1, OtherUpload, ConstantsAssumption DEF RemoveObject, ListedUnder, TypeOK, UploadInv
  <2>2. ASSUME q \in Uploads PROVE UploadInvOf(q)'
    BY <1>18, <2>2, ConstantsAssumption, ZenonT(30) DEF RemoveObject, ListedUnder, TypeOK, UploadInv, UploadInvOf, AllReturned
  <2> QED BY <2>1, <2>2 DEF UploadInv
<1>19. ASSUME NEW q \in Requests, NEW k \in Keys, RemoveObjectFails(q, k) PROVE UploadInv'
  <2>1. ASSUME NEW w \in Uploads, w # q PROVE UploadInvOf(w)'
    BY <1>19, <2>1, OtherUpload DEF RemoveObjectFails, TypeOK, UploadInv
  <2>2. ASSUME q \in Uploads PROVE UploadInvOf(q)'
    BY <1>19, <2>2 DEF RemoveObjectFails, TypeOK, UploadInv, UploadInvOf, AllReturned
  <2> QED BY <2>1, <2>2 DEF UploadInv
<1>20. ASSUME NEW q \in Requests, RemoveListingFails(q) PROVE UploadInv'
  <2>1. ASSUME NEW w \in Uploads, w # q PROVE UploadInvOf(w)'
    BY <1>20, <2>1, OtherUpload DEF RemoveListingFails, TypeOK, UploadInv
  <2>2. ASSUME q \in Uploads PROVE UploadInvOf(q)'
    BY <1>20, <2>2 DEF RemoveListingFails, TypeOK, UploadInv, UploadInvOf, AllReturned
  <2> QED BY <2>1, <2>2 DEF UploadInv
<1>21. ASSUME NEW d \in Deletes, RejectDelete(d) \/ BeginDelete(d) \/ DeleteDone(d)
       PROVE  UploadInv'
  <2>1. \A u \in Uploads : pc'[u] = pc[u] /\ answer'[u] = answer[u] /\ left'[u] = left[u]
    BY <1>21, ConstantsAssumption DEF TypeOK, RejectDelete, BeginDelete, DeleteDone, Answer
  <2>2. UNCHANGED <<bucket, folder, task, removeErr>>
    BY <1>21 DEF RejectDelete, BeginDelete, DeleteDone
  <2> QED BY <2>1, <2>2, OtherUpload DEF UploadInv
<1>22. ASSUME NEW q \in Requests, Disconnect(q) PROVE UploadInv'
  <2>1. PICK landed \in InFlight(q) :
          bucket' = [o \in Folders \X Keys |->
                       IF o[1] = folder[q] /\ o[2] \in landed THEN q ELSE bucket[o]]
    BY <1>22 DEF Disconnect
  <2>2. UNCHANGED <<pc, folder, task, left, removeErr, answer>>
    BY <1>22 DEF Disconnect
  <2>3. CASE landed = {}
    <3>1. bucket' = bucket
      BY <2>1, <2>3 DEF TypeOK
    <3> QED BY <2>2, <3>1, OtherUpload DEF UploadInv
  <2>4. CASE landed # {}
    <3>1. q \in Uploads /\ \E k \in Keys : task[q][k] \in {"put", "pending"}
      BY <2>1, <2>4 DEF InFlight
    <3>2. pc[q] = "upload"
      BY <1>22, <3>1, RunningMeansUpload DEF Disconnect, Active, Ended
    <3>3. \A o \in Folders \X Keys :
            bucket'[o] = bucket[o] \/ (bucket'[o] = q /\ o[1] = folder[q])
      BY <2>1
    <3> QED BY <2>2, <3>1, <3>2, <3>3, GoroutineStep
  <2> QED BY <2>3, <2>4
<1>23. ASSUME Crash PROVE UploadInv'
  <2> SUFFICES ASSUME NEW u \in Uploads PROVE UploadInvOf(u)'
    BY DEF UploadInv
  <2>1. UploadInvOf(u) /\ u \in Requests
    BY DEF UploadInv, Requests
  <2>2. /\ pc'[u] = IF Active(u) THEN "killed" ELSE pc[u]
        /\ UNCHANGED <<bucket, folder, task, left, removeErr, answer>>
    BY <1>23, <2>1 DEF Crash
  <2>3. AllReturned(u)' = AllReturned(u)
    BY <2>2 DEF AllReturned
  <2>4. CASE Active(u)
    <3>1. pc'[u] = "killed" /\ answer[u] = "none"
      BY <2>1, <2>2, <2>4 DEF UploadInvOf, Active
    <3> QED BY <2>1, <2>2, <3>1 DEF UploadInvOf
  <2>5. CASE ~Active(u)
    BY <2>1, <2>2, <2>3, <2>5 DEF UploadInvOf
  <2> QED BY <2>4, <2>5
<1>24. CASE UNCHANGED vars
  BY <1>24, OtherUpload DEF vars, UploadInv
<1> QED
  BY <1>1, <1>2, <1>3, <1>6, <1>7, <1>8, <1>9, <1>10, <1>11, <1>12, <1>13,
     <1>14, <1>15, <1>16, <1>17, <1>18, <1>19, <1>20, <1>21, <1>22, <1>23,
     <1>24
  DEF Next, UploadStep, RemoveStep


\* An upload that fails without saying that its rollback failed leaves none of
\* its objects behind, whatever else runs, fails or goes away meanwhile.
THEOREM FailedUploadsLeaveNothing == Spec => []FailedUploadLeavesNothing
<1>1. TypeOK /\ UploadInv /\ [Next]_vars => (TypeOK /\ UploadInv)'
  BY NextTypeOK, NextUploadInv
<1>2. UploadInv => FailedUploadLeavesNothing
  BY DEF UploadInv, UploadInvOf, FailedUploadLeavesNothing
<1> QED BY InitTypeOK, InitUploadInv, <1>1, <1>2, PTL DEF Spec

\* Whatever removes an object is a rollback or a delete of the object's folder.
THEOREM RemovalsStayInFolder == Spec => OtherVersionsUntouched
<1> DEFINE Taken(o) == bucket[o] # NoUpload /\ bucket'[o] = NoUpload
           Remover(o) == \E q \in Requests : Removing(q) /\ folder[q] = o[1]
<1>1. ASSUME TypeOK, Next, NEW o \in Folders \X Keys, Taken(o)
      PROVE  Remover(o)
  <2>1. ASSUME NEW q \in Requests, NEW k \in Keys, RemoveObject(q, k) PROVE Remover(o)
    <3>1. bucket'[o] = IF o[1] \in ListedUnder(folder[q]) /\ o[2] = k
                       THEN NoUpload ELSE bucket[o]
      BY <2>1 DEF RemoveObject
    <3>2. o[1] = folder[q]
      BY <1>1, <3>1 DEF ListedUnder
    <3> QED BY <2>1, <3>2 DEF RemoveObject
  <2>2. ASSUME NEW u \in Uploads, NEW k \in Keys,
               bucket' = bucket \/ bucket' = [bucket EXCEPT ![<<folder[u], k>>] = u]
        PROVE  FALSE
    <3>1. bucket'[o] = bucket[o] \/ bucket'[o] = u
      BY <1>1, <2>2, PutEffect
    <3> QED BY <1>1, <3>1, ConstantsAssumption
  <2>3. ASSUME NEW q \in Requests, Disconnect(q) PROVE FALSE
    <3>1. PICK landed \in InFlight(q) :
            bucket'[o] = IF o[1] = folder[q] /\ o[2] \in landed THEN q ELSE bucket[o]
      BY <1>1, <2>3 DEF Disconnect
    <3>2. q \in Uploads \/ landed = {}
      BY <3>1 DEF InFlight
    <3> QED BY <1>1, <3>1, <3>2, ConstantsAssumption
  <2>4. bucket' # bucket
    BY <1>1
  <2>5. ASSUME NEW u \in Uploads, UploadStep(u) PROVE FALSE
    <3>1. PICK k \in Keys :
            \/ AddObject(u, k) \/ AddObjectFails(u, k)
            \/ \E v \in Keys : AddBytes(u, k, v) \/ AddBytesFails(u, k, v)
      BY <2>4, <2>5
      DEF UploadStep, ProbeFound, ProbeNotFound, ProbeFails, RejectArchive, FanOut,
          StartTask, AcquireSlot, Compress, CompressFails, WaitSucceeds, WaitFails,
          RollbackDone
    <3> QED
      BY <2>2, <3>1 DEF AddObject, AddObjectFails, AddBytes, AddBytesFails, FailedPut
  <2>6. ASSUME NEW q \in Requests, RemoveStep(q) PROVE Remover(o)
    BY <2>1, <2>4, <2>6 DEF RemoveStep, RemoveObjectFails, RemoveListingFails
  <2> QED
    BY <1>1, <2>3, <2>4, <2>5, <2>6
    DEF Next, RejectUpload, BeginUpload, RejectDelete, BeginDelete, DeleteDone, Crash
<1>2. ASSUME TypeOK, [Next]_vars
      PROVE  [\A o \in Folders \X Keys : Taken(o) => Remover(o)]_vars
  BY <1>1, <1>2
<1> QED BY InitTypeOK, NextTypeOK, <1>2, PTL DEF Spec, OtherVersionsUntouched

-----------------------------------------------------------------------------
(* What holds of a request that has its folder to itself                   *)

\* Two requests that are active on one folder both know it.
OverlapInv ==
  \A p, q \in Requests :
    p # q /\ Active(p) /\ Active(q) /\ folder[p] = folder[q] => overlapped[p]

\* What a request's history says of the faults there have been.  An upload never
\* runs DELETE's removal, and its own fails by the store only.
FaultInvOf(q) ==
  /\ faults["disconnect"] = 0 => ~cancelled[q]
  /\ answer[q] # "none" => pc[q] = "answered"
  /\ q \in Uploads =>
       /\ pc[q] # "remove"
       /\ faults["io"] = 0 => ~removeErr[q] /\ answer[q] # "500 partial"

FaultInv == \A q \in Requests : FaultInvOf(q)

\* A removal without an error still has every object of its folder ahead of it.
RemoveInvOf(d) ==
  pc[d] = "remove" /\ ~overlapped[d] /\ ~removeErr[d] =>
    \A k \in Keys : bucket[<<folder[d], k>>] # NoUpload => k \in left[d]

RemoveInv == \A d \in Deletes : RemoveInvOf(d)

\* The phases of a key that is in the bucket.
StoredPhases == {"slot", "compress", "variants", "done"}

\* An upload at work: every entry of its archive has its turn, what it stored is
\* there, and nothing else is unless the client had gone away before the probe,
\* in which case it stores nothing.
AloneInvOf(u) ==
  pc[u] = "upload" =>
    /\ archive[u] # {}
    /\ \A k \in archive[u] : task[u][k] \notin {"none", "pending"}
    /\ ~overlapped[u] =>
         \A k \in Keys : task[u][k] \in StoredPhases => bucket[<<folder[u], k>>] = u
    /\ ~overlapped[u] /\ faults["probe"] = 0 =>
         \/ \A k \in Keys : bucket[<<folder[u], k>>] \in {u, NoUpload}
         \/ cancelled[u] /\ \A k \in Keys : task[u][k] \in {"none", "queued", "put", "failed"}

AloneInv == \A u \in Uploads : AloneInvOf(u)

\* The uploads PublishedStays is about.
Final(u) ==
  /\ answer[u] = "201"
  /\ ~overlapped[u]
  /\ NeverDeleted(folder[u])
  /\ faults["probe"] = 0
  /\ faults["disconnect"] = 0

\* What such an upload stored is there and not nothing, so that a later probe of
\* its folder finds it: nobody else is storing or removing anything.
FinalInvOf(u) ==
  Final(u) =>
    /\ StoredByUpload(u)
    /\ \E k \in Keys : task[u][k] = "done"
    /\ \A q \in Requests \ {u} :
         folder[q] = folder[u] => pc[q] \notin {"upload", "rollback", "remove"}

FinalInv == \A u \in Uploads : FinalInvOf(u)

PublishInv == OverlapInv /\ FaultInv /\ RemoveInv /\ AloneInv /\ FinalInv

-----------------------------------------------------------------------------
(* Steps of one request                                                    *)

\* Everything that happens is a step of one request, or the end of the process.
StepOf(q) ==
  \/ q \in Uploads /\ (RejectUpload(q) \/ BeginUpload(q) \/ UploadStep(q))
  \/ q \in Deletes /\ (RejectDelete(q) \/ BeginDelete(q) \/ DeleteDone(q))
  \/ RemoveStep(q) \/ Disconnect(q)

\* Every step is one of these.
LEMMA NextSteps == Next => Crash \/ \E q \in Requests : StepOf(q)
BY DEF Next, StepOf, Requests

\* What a step of q leaves alone: the other requests, and the other folders.  It
\* changes the bucket only from where objects are stored or removed, and history
\* is not forgotten.
Frame(q) ==
  /\ folder' = folder
  /\ \A p \in Requests \ {q} :
       /\ pc'[p] = pc[p] /\ answer'[p] = answer[p] /\ left'[p] = left[p]
       /\ removeErr'[p] = removeErr[p] /\ cancelled'[p] = cancelled[p]
  /\ \A w \in Uploads \ {q} : task'[w] = task[w] /\ archive'[w] = archive[w]
  /\ \A o \in Folders \X Keys : o[1] # folder[q] => bucket'[o] = bucket[o]
  /\ bucket' # bucket => pc[q] \in {"upload", "rollback", "remove"}
  /\ \A p \in Requests : overlapped[p] => overlapped'[p]
  /\ \A kind \in FaultKinds : faults[kind] <= faults'[kind]

\* A fault is counted.
LEMMA FaultCounts ==
  ASSUME TypeOK, NEW kind \in FaultKinds, NEW bound, Fault(kind, bound)
  PROVE  /\ \A other \in FaultKinds : faults[other] <= faults'[other]
         /\ faults'[kind] # 0
<1>1. faults \in [FaultKinds -> Nat]
  BY DEF TypeOK
<1>2. faults' = [faults EXCEPT ![kind] = faults[kind] + 1]
  BY DEF Fault
<1>3. faults'[kind] = faults[kind] + 1 /\ faults[kind] \in Nat
  BY <1>1, <1>2
<1>4. \A other \in FaultKinds : faults[other] \in Nat
  BY <1>1
<1>5. \A other \in FaultKinds \ {kind} : faults'[other] = faults[other]
  BY <1>1, <1>2
<1> QED BY <1>3, <1>4, <1>5

\* No fault: the counters stay.
LEMMA NoFaultCounts ==
  ASSUME TypeOK, faults' = faults
  PROVE  \A other \in FaultKinds : faults[other] <= faults'[other]
<1>1. \A other \in FaultKinds : faults[other] \in Nat
  BY DEF TypeOK
<1> QED BY <1>1

\* A call that fails counts at most one.
LEMMA CallFailsCounts ==
  ASSUME TypeOK, NEW q \in Requests, CallFails(q)
  PROVE  \A other \in FaultKinds : faults[other] <= faults'[other]
BY FaultCounts, NoFaultCounts DEF CallFails, FaultKinds

\* So does a removal that fails; a rollback's is the store's fault.
LEMMA RemovalFailsCounts ==
  ASSUME TypeOK, NEW q \in Requests, RemovalFails(q)
  PROVE  /\ \A other \in FaultKinds : faults[other] <= faults'[other]
         /\ pc[q] = "rollback" => faults'["io"] # 0
BY FaultCounts, CallFailsCounts DEF RemovalFails, FaultKinds

\* Putting an object changes the bucket in the upload's folder only.
LEMMA PutFrame ==
  ASSUME TypeOK, UploadInv, NEW u \in Uploads, NEW k \in Keys, NEW j \in Keys,
         pc[u] # "killed", task[u][j] \notin Ended,
         bucket' = bucket \/ bucket' = [bucket EXCEPT ![<<folder[u], k>>] = u]
  PROVE  /\ \A o \in Folders \X Keys : o[1] # folder[u] => bucket'[o] = bucket[o]
         /\ pc[u] = "upload"
BY PutEffect, RunningMeansUpload

\* A step of a request leaves alone what Frame says.
LEMMA StepFrame ==
  ASSUME TypeOK, UploadInv, NEW q \in Requests, StepOf(q)
  PROVE  Frame(q)
<1> USE DEF Requests
<1>1. ASSUME q \in Uploads, RejectUpload(q) \/ ProbeFound(q) \/ WaitSucceeds(q) \/ RollbackDone(q)
      PROVE  Frame(q)
  BY <1>1, NoFaultCounts
  DEF Frame, TypeOK, RejectUpload, ProbeFound, WaitSucceeds, RollbackDone, Answer
<1>2. ASSUME q \in Uploads, BeginUpload(q) PROVE Frame(q)
  <2>1. \A p \in Requests : overlapped[p] => overlapped'[p]
    BY <1>2 DEF BeginUpload, MarkOverlap
  <2>2. \A w \in Uploads \ {q} : archive'[w] = archive[w]
    BY <1>2 DEF BeginUpload, TypeOK
  <2> QED BY <1>2, <2>1, <2>2, NoFaultCounts DEF Frame, TypeOK, BeginUpload
<1>3. ASSUME q \in Uploads, RejectArchive(q) \/ FanOut(q),
             \A kind \in FaultKinds : faults[kind] <= faults'[kind]
      PROVE  Frame(q)
  BY <1>3 DEF Frame, TypeOK, RejectArchive, FanOut, Answer
<1>4. ASSUME q \in Uploads, ProbeNotFound(q) \/ ProbeFails(q) PROVE Frame(q)
  <2>1. \A kind \in FaultKinds : faults[kind] <= faults'[kind]
    BY <1>4, NoFaultCounts, FaultCounts DEF ProbeNotFound, ProbeFails, FaultKinds
  <2> QED BY <1>3, <1>4, <2>1 DEF ProbeNotFound, ProbeFails
<1>5. ASSUME q \in Uploads, NEW k \in Keys,
             StartTask(q, k) \/ AcquireSlot(q, k) \/ Compress(q, k) \/ CompressFails(q, k)
      PROVE  Frame(q)
  <2>1. \A kind \in FaultKinds : faults[kind] <= faults'[kind]
    BY <1>5, NoFaultCounts, FaultCounts
    DEF StartTask, AcquireSlot, Compress, CompressFails, FaultKinds
  <2>2. \A w \in Uploads \ {q} : task'[w] = task[w]
    BY <1>5 DEF StartTask, AcquireSlot, Compress, CompressFails, TypeOK
  <2>3. UNCHANGED <<bucket, pc, folder, archive, left, removeErr, answer, cancelled,
                    overlapped>>
    BY <1>5 DEF StartTask, AcquireSlot, Compress, CompressFails
  <2> QED BY <2>1, <2>2, <2>3 DEF Frame
<1>6. ASSUME q \in Uploads, NEW k \in Keys,
             \/ AddObject(q, k) \/ AddObjectFails(q, k)
             \/ \E v \in Keys : AddBytes(q, k, v) \/ AddBytesFails(q, k, v)
      PROVE  Frame(q)
  <2>1. \A kind \in FaultKinds : faults[kind] <= faults'[kind]
    BY <1>6, NoFaultCounts, CallFailsCounts
    DEF AddObject, AddObjectFails, AddBytes, AddBytesFails, FailedPut
  <2>2. \A w \in Uploads \ {q} : task'[w] = task[w]
    BY <1>6 DEF AddObject, AddObjectFails, AddBytes, AddBytesFails, TypeOK
  <2>3. UNCHANGED <<pc, folder, archive, left, removeErr, answer, cancelled,
                    overlapped>>
    BY <1>6 DEF AddObject, AddObjectFails, AddBytes, AddBytesFails
  <2>4. PICK v \in Keys :
          bucket' = bucket \/ bucket' = [bucket EXCEPT ![<<folder[q], v>>] = q]
    BY <1>6 DEF AddObject, AddObjectFails, AddBytes, AddBytesFails, FailedPut
  <2>5. pc[q] # "killed" /\ task[q][k] \notin Ended
    BY <1>6 DEF AddObject, AddObjectFails, AddBytes, AddBytesFails, Storing, Ended
  <2>6. /\ \A o \in Folders \X Keys : o[1] # folder[q] => bucket'[o] = bucket[o]
        /\ pc[q] = "upload"
    BY <1>6, <2>4, <2>5, PutFrame
  <2> QED BY <2>1, <2>2, <2>3, <2>6 DEF Frame
<1>7. ASSUME q \in Uploads, WaitFails(q) PROVE Frame(q)
  BY <1>7, NoFaultCounts DEF Frame, TypeOK, WaitFails
<1>8. ASSUME q \in Deletes, RejectDelete(q) \/ DeleteDone(q) PROVE Frame(q)
  BY <1>8, NoFaultCounts DEF Frame, TypeOK, RejectDelete, DeleteDone, Answer
<1>9. ASSUME q \in Deletes, BeginDelete(q) PROVE Frame(q)
  <2>1. \A p \in Requests : overlapped[p] => overlapped'[p]
    BY <1>9 DEF BeginDelete, MarkOverlap
  <2> QED BY <1>9, <2>1, NoFaultCounts DEF Frame, TypeOK, BeginDelete
<1>10. ASSUME NEW k \in Keys, RemoveObject(q, k) PROVE Frame(q)
  <2>1. /\ \A o \in Folders \X Keys : o[1] # folder[q] => bucket'[o] = bucket[o]
        /\ pc[q] \in {"rollback", "remove"}
    BY <1>10 DEF RemoveObject, ListedUnder, Removing
  <2> QED BY <1>10, <2>1, NoFaultCounts DEF Frame, TypeOK, RemoveObject
<1>11. ASSUME NEW k \in Keys, RemoveObjectFails(q, k) PROVE Frame(q)
  BY <1>11, RemovalFailsCounts DEF Frame, TypeOK, RemoveObjectFails
<1>12. ASSUME RemoveListingFails(q) PROVE Frame(q)
  BY <1>12, RemovalFailsCounts DEF Frame, TypeOK, RemoveListingFails
<1>13. ASSUME Disconnect(q) PROVE Frame(q)
  <2>1. \A kind \in FaultKinds : faults[kind] <= faults'[kind]
    BY <1>13, FaultCounts DEF Disconnect, FaultKinds
  <2>2. PICK landed \in InFlight(q) :
          bucket' = [o \in Folders \X Keys |->
                       IF o[1] = folder[q] /\ o[2] \in landed THEN q ELSE bucket[o]]
    BY <1>13 DEF Disconnect
  <2>3. \A o \in Folders \X Keys : o[1] # folder[q] => bucket'[o] = bucket[o]
    BY <2>2
  <2>4. ASSUME bucket' # bucket PROVE pc[q] = "upload"
    <3>1. landed # {}
      BY <2>2, <2>4 DEF TypeOK
    <3>2. q \in Uploads /\ \E k \in Keys : task[q][k] \in {"put", "pending"}
      BY <2>2, <3>1 DEF InFlight
    <3> QED BY <1>13, <3>2, RunningMeansUpload DEF Disconnect, Active, Ended
  <2> QED BY <1>13, <2>1, <2>3, <2>4 DEF Frame, TypeOK, Disconnect
<1> QED
  BY <1>1, <1>2, <1>4, <1>5, <1>6, <1>7, <1>8, <1>9, <1>10, <1>11, <1>12, <1>13
  DEF StepOf, UploadStep, RemoveStep

\* A request that becomes active takes note of its rivals.
LEMMA BecomesActive ==
  ASSUME TypeOK, UploadInv, NEW q \in Requests, StepOf(q), ~Active(q), Active(q)'
  PROVE  MarkOverlap(q)
<1> USE DEF Requests
<1>1. pc'[q] # pc[q]
  BY DEF Active
<1>2. ~RemoveStep(q) /\ ~Disconnect(q)
  BY <1>1 DEF RemoveStep, RemoveObject, RemoveObjectFails, RemoveListingFails, Disconnect
<1>3. ASSUME q \in Deletes, RejectDelete(q) \/ BeginDelete(q) \/ DeleteDone(q)
      PROVE  MarkOverlap(q)
  BY <1>3 DEF RejectDelete, BeginDelete, DeleteDone, Answer, TypeOK, Active
<1>4. ASSUME q \in Uploads, RejectUpload(q) \/ BeginUpload(q) PROVE MarkOverlap(q)
  BY <1>4 DEF RejectUpload, BeginUpload, Answer, TypeOK, Active
<1>5. ASSUME q \in Uploads, UploadStep(q) PROVE FALSE
  <2>1. pc[q] \in {"probe", "upload", "rollback"}
    BY <1>1, <1>5
    DEF UploadStep, ProbeFound, ProbeNotFound, ProbeFails, StartTask, AddObject,
        AddObjectFails, AcquireSlot, Compress, CompressFails, AddBytes, AddBytesFails,
        WaitSucceeds, WaitFails, RollbackDone
  <2> QED BY <2>1 DEF Active
<1> QED BY <1>2, <1>3, <1>4, <1>5 DEF StepOf

\* Overlaps are noted by every step of a request.
LEMMA StepOverlap ==
  ASSUME TypeOK, UploadInv, OverlapInv, NEW q \in Requests, StepOf(q), Frame(q)
  PROVE  OverlapInv'
<1> SUFFICES ASSUME NEW p \in Requests, NEW r \in Requests, p # r,
                    Active(p)', Active(r)', folder'[p] = folder'[r]
             PROVE  overlapped'[p]
  BY DEF OverlapInv
<1>1. \A s \in Requests \ {q} : Active(s)' <=> Active(s)
  BY DEF Frame, Active
<1>2. folder' = folder
  BY DEF Frame
<1>3. CASE Active(p) /\ Active(r)
  BY <1>2, <1>3 DEF OverlapInv, Frame
<1>4. CASE ~Active(p)
  <2>1. p = q /\ r \in Rivals(q)
    BY <1>1, <1>2, <1>4 DEF Rivals
  <2> QED BY <1>4, <2>1, BecomesActive DEF MarkOverlap
<1>5. CASE ~Active(r)
  <2>1. r = q /\ p \in Rivals(q)
    BY <1>1, <1>2, <1>5 DEF Rivals
  <2> QED BY <1>5, <2>1, BecomesActive DEF MarkOverlap
<1> QED BY <1>3, <1>4, <1>5

\* While a request has its folder to itself, nobody else touches it.
LEMMA FolderIsMine ==
  ASSUME TypeOK, OverlapInv, NEW q \in Requests, Frame(q), NEW p \in Requests, p # q,
         Active(p), ~overlapped'[p]
  PROVE  \A k \in Keys : bucket'[<<folder[p], k>>] = bucket[<<folder[p], k>>]
<1>1. ~overlapped[p]
  BY DEF Frame
<1>2. CASE bucket' = bucket
  BY <1>2
<1>3. CASE bucket' # bucket
  <2>1. Active(q)
    BY <1>3 DEF Frame, Active
  <2>2. folder[q] # folder[p]
    BY <1>1, <2>1 DEF OverlapInv
  <2>3. \A k \in Keys : <<folder[p], k>> \in Folders \X Keys
    BY DEF TypeOK
  <2> QED BY <2>2, <2>3 DEF Frame
<1> QED BY <1>2, <1>3

\* Counters that are at zero after a step were so before.
LEMMA ZeroBefore ==
  ASSUME TypeOK, TypeOK', NEW q \in Requests, Frame(q), NEW kind \in FaultKinds,
         faults'[kind] = 0
  PROVE  faults[kind] = 0
<1>1. faults[kind] \in Nat /\ faults[kind] <= faults'[kind]
  BY DEF TypeOK, Frame
<1> QED BY <1>1

\* A step of a request preserves what its history says of the faults.
LEMMA StepFault ==
  ASSUME TypeOK, TypeOK', UploadInv, FaultInv, NEW q \in Requests, StepOf(q), Frame(q)
  PROVE  FaultInv'
<1> USE DEF Requests
<1>0. "disconnect" \in FaultKinds /\ "io" \in FaultKinds
  BY DEF FaultKinds
<1>1. ASSUME NEW p \in Requests, p # q PROVE FaultInvOf(p)'
  BY <1>0, <1>1, ZeroBefore DEF FaultInv, FaultInvOf, Frame
<1> DEFINE Old == FaultInvOf(q)
<1>2. Old
  BY DEF FaultInv
<1> HIDE DEF Old
<1>3. ASSUME pc[q] # "answered", pc'[q] = "answered",
             answer'[q] = "500 partial" => removeErr[q],
             UNCHANGED <<cancelled, removeErr>>
      PROVE  FaultInvOf(q)'
  BY <1>0, <1>2, <1>3, ZeroBefore DEF FaultInvOf, Old
<1>4. ASSUME pc[q] # "answered", q \in Uploads => pc'[q] # "remove",
             UNCHANGED <<cancelled, removeErr, answer>>
      PROVE  FaultInvOf(q)'
  BY <1>0, <1>2, <1>4, ZeroBefore DEF FaultInvOf, Old
<1>5. ASSUME q \in Uploads, RejectUpload(q) \/ ProbeFound(q) \/ WaitSucceeds(q) \/ RollbackDone(q)
      PROVE  FaultInvOf(q)'
  BY <1>3, <1>5
  DEF RejectUpload, ProbeFound, WaitSucceeds, RollbackDone, Answer, TypeOK
<1>6. ASSUME q \in Uploads, BeginUpload(q) \/ WaitFails(q) PROVE FaultInvOf(q)'
  BY <1>4, <1>6 DEF BeginUpload, WaitFails, TypeOK
<1>7. ASSUME q \in Uploads, ProbeNotFound(q) \/ ProbeFails(q) PROVE FaultInvOf(q)'
  <2>1. CASE RejectArchive(q)
    BY <1>3, <1>7, <2>1 DEF ProbeNotFound, ProbeFails, RejectArchive, Answer, TypeOK
  <2>2. CASE FanOut(q)
    BY <1>4, <1>7, <2>2 DEF ProbeNotFound, ProbeFails, FanOut, TypeOK
  <2> QED BY <1>7, <2>1, <2>2 DEF ProbeNotFound, ProbeFails
<1>8. ASSUME UNCHANGED <<pc, answer, cancelled, removeErr>> PROVE FaultInvOf(q)'
  BY <1>0, <1>2, <1>8, ZeroBefore DEF FaultInvOf, Old
<1>9. ASSUME q \in Uploads, NEW k \in Keys,
             \/ StartTask(q, k) \/ AcquireSlot(q, k) \/ Compress(q, k) \/ CompressFails(q, k)
             \/ AddObject(q, k) \/ AddObjectFails(q, k)
             \/ \E v \in Keys : AddBytes(q, k, v) \/ AddBytesFails(q, k, v)
      PROVE  FaultInvOf(q)'
  BY <1>8, <1>9
  DEF StartTask, AcquireSlot, Compress, CompressFails, AddObject, AddObjectFails,
      AddBytes, AddBytesFails
<1>10. ASSUME q \in Deletes, RejectDelete(q) \/ DeleteDone(q) PROVE FaultInvOf(q)'
  BY <1>3, <1>10 DEF RejectDelete, DeleteDone, Answer, TypeOK
<1>11. ASSUME q \in Deletes, BeginDelete(q) PROVE FaultInvOf(q)'
  BY <1>4, <1>11, ConstantsAssumption DEF BeginDelete, TypeOK
<1>12. ASSUME NEW k \in Keys, RemoveObject(q, k) PROVE FaultInvOf(q)'
  BY <1>8, <1>12 DEF RemoveObject
<1>13. ASSUME RemovalFails(q), UNCHANGED <<pc, answer, cancelled>>, Removing(q)
       PROVE  FaultInvOf(q)'
  <2>1. q \in Uploads => faults'["io"] # 0
    BY <1>2, <1>13, RemovalFailsCounts DEF FaultInvOf, Old, Removing
  <2> QED BY <1>0, <1>2, <1>13, <2>1, ZeroBefore DEF FaultInvOf, Old
<1>14. ASSUME NEW k \in Keys, RemoveObjectFails(q, k) \/ RemoveListingFails(q)
       PROVE  FaultInvOf(q)'
  BY <1>13, <1>14 DEF RemoveObjectFails, RemoveListingFails
<1>15. ASSUME Disconnect(q) PROVE FaultInvOf(q)'
  <2>1. faults'["disconnect"] # 0
    BY <1>0, <1>15, FaultCounts DEF Disconnect
  <2>2. UNCHANGED <<pc, answer, removeErr>>
    BY <1>15 DEF Disconnect
  <2> QED BY <1>0, <1>2, <2>1, <2>2, ZeroBefore DEF FaultInvOf, Old
<1>16. ASSUME RemoveListingFails(q) PROVE FaultInvOf(q)'
  BY <1>13, <1>16 DEF RemoveListingFails
<1>17. FaultInvOf(q)'
  BY <1>5, <1>6, <1>7, <1>9, <1>10, <1>11, <1>12, <1>14, <1>15, <1>16
  DEF StepOf, UploadStep, RemoveStep
<1> QED BY <1>1, <1>17 DEF FaultInv

\* A step of a request keeps every object of an undisturbed removal ahead of it.
LEMMA StepRemove ==
  ASSUME TypeOK, TypeOK', UploadInv, OverlapInv, FaultInv, RemoveInv,
         NEW q \in Requests, StepOf(q), Frame(q)
  PROVE  RemoveInv'
<1> USE DEF Requests
<1>1. ASSUME NEW d \in Deletes, d # q PROVE RemoveInvOf(d)'
  <2> SUFFICES ASSUME pc[d] = "remove", ~overlapped'[d], ~removeErr[d]
               PROVE  RemoveInvOf(d)'
    BY <1>1 DEF RemoveInvOf, Frame
  <2>1. RemoveInvOf(d) /\ ~overlapped[d]
    BY DEF RemoveInv, Frame
  <2>2. \A k \in Keys : bucket'[<<folder[d], k>>] = bucket[<<folder[d], k>>]
    BY <1>1, FolderIsMine DEF Active
  <2> QED BY <1>1, <2>1, <2>2 DEF RemoveInvOf, Frame
<1>2. ASSUME q \in Deletes PROVE RemoveInvOf(q)'
  <2>1. RemoveInvOf(q) /\ q \notin Uploads
    BY <1>2, ConstantsAssumption DEF RemoveInv
  <2>2. ASSUME RejectDelete(q) \/ DeleteDone(q) PROVE RemoveInvOf(q)'
    BY <1>2, <2>2 DEF RejectDelete, DeleteDone, Answer, TypeOK, RemoveInvOf
  <2>3. ASSUME BeginDelete(q) PROVE RemoveInvOf(q)'
    BY <1>2, <2>3 DEF BeginDelete, TypeOK, RemoveInvOf
  <2>4. ASSUME NEW k \in Keys, RemoveObject(q, k) PROVE RemoveInvOf(q)'
    <3>1. ASSUME NEW j \in Keys, bucket'[<<folder[q], j>>] # NoUpload
          PROVE  j # k /\ bucket[<<folder[q], j>>] # NoUpload
      <4>1. <<folder[q], j>> \in Folders \X Keys
        BY DEF TypeOK
      <4> QED BY <2>4, <3>1, <4>1 DEF RemoveObject, ListedUnder
    <3>2. /\ left'[q] = left[q] \ {k}
          /\ UNCHANGED <<pc, folder, removeErr, overlapped>>
      BY <2>4 DEF RemoveObject, TypeOK
    <3> QED BY <2>1, <3>1, <3>2 DEF RemoveInvOf
  <2>5. ASSUME removeErr'[q] PROVE RemoveInvOf(q)'
    BY <2>5 DEF RemoveInvOf
  <2>6. ASSUME NEW k \in Keys, RemoveObjectFails(q, k) PROVE RemoveInvOf(q)'
    BY <2>5, <2>6 DEF RemoveObjectFails, TypeOK
  <2>7. ASSUME RemoveListingFails(q) PROVE RemoveInvOf(q)'
    BY <2>5, <2>7 DEF RemoveListingFails, TypeOK
  <2>8. ASSUME Disconnect(q) PROVE RemoveInvOf(q)'
    <3>1. \E landed \in InFlight(q) :
            bucket' = [o \in Folders \X Keys |->
                         IF o[1] = folder[q] /\ o[2] \in landed THEN q ELSE bucket[o]]
      BY <2>8 DEF Disconnect
    <3>2. bucket' = bucket
      BY <2>1, <3>1 DEF InFlight, TypeOK
    <3> QED BY <2>1, <2>8, <3>2 DEF Disconnect, RemoveInvOf
  <2> QED BY <2>1, <2>2, <2>3, <2>4, <2>6, <2>7, <2>8 DEF StepOf, RemoveStep
<1> QED BY <1>1, <1>2 DEF RemoveInv

\* The keys of an upload's folder after it stored one of them, or tried to.
LEMMA PutInFolder ==
  ASSUME TypeOK, NEW u \in Uploads, NEW v \in Keys,
         bucket' = bucket \/ bucket' = [bucket EXCEPT ![<<folder[u], v>>] = u]
  PROVE  \A k \in Keys :
           \/ bucket'[<<folder[u], k>>] = bucket[<<folder[u], k>>]
           \/ bucket'[<<folder[u], k>>] = u
<1>1. \A k \in Keys : <<folder[u], k>> \in Folders \X Keys
  BY DEF TypeOK, Requests
<1> QED BY <1>1, PutEffect

\* And when it stored it.
LEMMA PutLands ==
  ASSUME TypeOK, NEW u \in Uploads, NEW v \in Keys,
         bucket' = [bucket EXCEPT ![<<folder[u], v>>] = u]
  PROVE  bucket'[<<folder[u], v>>] = u
<1>1. <<folder[u], v>> \in Folders \X Keys
  BY DEF TypeOK, Requests
<1> QED BY <1>1 DEF TypeOK

\* A goroutine of an undisturbed upload preserves AloneInvOf: entries of the
\* archive keep their turn, what counts as stored is there, and a goroutine that
\* stores an object has a client.
LEMMA GoroutineAlone ==
  ASSUME TypeOK, TypeOK', NEW u \in Uploads, AloneInvOf(u), Frame(u),
         UNCHANGED <<pc, archive, overlapped, cancelled>>,
         \A k \in archive[u] :
           task[u][k] \notin {"none", "pending"} => task'[u][k] \notin {"none", "pending"},
         \A k \in Keys :
           \/ bucket'[<<folder[u], k>>] = bucket[<<folder[u], k>>]
           \/ bucket'[<<folder[u], k>>] = u,
         \A k \in Keys : task'[u][k] \in StoredPhases =>
           task[u][k] \in StoredPhases \/ bucket'[<<folder[u], k>>] = u,
         \A k \in Keys :
           task[u][k] \in {"none", "queued", "put", "failed"} =>
             \/ task'[u][k] \in {"none", "queued", "put", "failed"}
             \/ ~cancelled[u]
             \/ \E j \in Keys : task[u][j] \in {"slot", "compress", "variants"}
  PROVE  AloneInvOf(u)'
<1>0. "probe" \in FaultKinds /\ u \in Requests
  BY DEF FaultKinds, Requests
<1> SUFFICES ASSUME pc[u] = "upload" PROVE AloneInvOf(u)'
  BY DEF AloneInvOf
<1>1. folder' = folder
  BY DEF Frame
<1>2. archive'[u] # {} /\ \A k \in archive'[u] : task'[u][k] \notin {"none", "pending"}
  BY DEF AloneInvOf
<1>3. ASSUME ~overlapped'[u]
      PROVE  \A k \in Keys : task'[u][k] \in StoredPhases => bucket'[<<folder'[u], k>>] = u
  BY <1>1, <1>3 DEF AloneInvOf
<1>4. ASSUME ~overlapped'[u], faults'["probe"] = 0
      PROVE  \/ \A k \in Keys : bucket'[<<folder'[u], k>>] \in {u, NoUpload}
             \/ /\ cancelled'[u]
                /\ \A k \in Keys : task'[u][k] \in {"none", "queued", "put", "failed"}
  <2>1. faults["probe"] = 0
    BY <1>0, <1>4, ZeroBefore
  <2>2. CASE \A k \in Keys : bucket[<<folder[u], k>>] \in {u, NoUpload}
    BY <1>1, <2>2
  <2>3. CASE cancelled[u] /\ \A k \in Keys : task[u][k] \in {"none", "queued", "put", "failed"}
    BY <2>3
  <2> QED BY <1>4, <2>1, <2>2, <2>3 DEF AloneInvOf
<1> QED BY <1>2, <1>3, <1>4 DEF AloneInvOf

\* One key of an upload changes its phase.
LEMMA OneTask ==
  ASSUME TypeOK, NEW u \in Uploads, NEW k \in Keys, NEW phase,
         task' = [task EXCEPT ![u][k] = phase]
  PROVE  task'[u][k] = phase /\ \A j \in Keys \ {k} : task'[u][j] = task[u][j]
BY DEF TypeOK

\* The goroutines preserve AloneInvOf.
LEMMA GoroutinesAlone ==
  ASSUME TypeOK, TypeOK', UploadInv, NEW u \in Uploads, AloneInvOf(u), Frame(u),
         NEW k \in Keys,
         \/ StartTask(u, k) \/ AcquireSlot(u, k) \/ Compress(u, k) \/ CompressFails(u, k)
         \/ AddObject(u, k) \/ AddObjectFails(u, k)
         \/ \E v \in Keys : AddBytes(u, k, v) \/ AddBytesFails(u, k, v)
  PROVE  AloneInvOf(u)'
<1> DEFINE Same == UNCHANGED <<pc, archive, overlapped, cancelled>>
           Quiet == \A j \in Keys :
                      \/ bucket'[<<folder[u], j>>] = bucket[<<folder[u], j>>]
                      \/ bucket'[<<folder[u], j>>] = u
<1>0. Same
  BY DEF StartTask, AcquireSlot, Compress, CompressFails, AddObject, AddObjectFails,
         AddBytes, AddBytesFails
<1>1. Quiet
  <2>1. bucket' = bucket \/ \E v \in Keys : bucket' = [bucket EXCEPT ![<<folder[u], v>>] = u]
    BY DEF StartTask, AcquireSlot, Compress, CompressFails, AddObject, AddObjectFails,
           AddBytes, AddBytesFails, FailedPut
  <2> QED BY <2>1, PutInFolder
<1> HIDE DEF Quiet
<1>2. CASE StartTask(u, k)
  <2>1. task[u][k] = "queued" /\ task' = [task EXCEPT ![u][k] = "put"]
    BY <1>2 DEF StartTask
  <2>2. task'[u][k] = "put" /\ \A j \in Keys \ {k} : task'[u][j] = task[u][j]
    BY <2>1, OneTask
  <2> QED BY <1>0, <1>1, <2>1, <2>2, GoroutineAlone DEF StoredPhases, Quiet, TypeOK
<1>3. CASE AcquireSlot(u, k)
  <2>1. task[u][k] = "slot" /\ task' = [task EXCEPT ![u][k] = "compress"]
    BY <1>3 DEF AcquireSlot
  <2>2. task'[u][k] = "compress" /\ \A j \in Keys \ {k} : task'[u][j] = task[u][j]
    BY <2>1, OneTask
  <2> QED BY <1>0, <1>1, <2>1, <2>2, GoroutineAlone DEF StoredPhases, Quiet, TypeOK
<1>4. CASE CompressFails(u, k)
  <2>1. task[u][k] = "compress" /\ task' = [task EXCEPT ![u][k] = "failed"]
    BY <1>4 DEF CompressFails
  <2>2. task'[u][k] = "failed" /\ \A j \in Keys \ {k} : task'[u][j] = task[u][j]
    BY <2>1, OneTask
  <2> QED BY <1>0, <1>1, <2>1, <2>2, GoroutineAlone DEF StoredPhases, Quiet, TypeOK
<1>5. CASE AddObject(u, k)
  <2>1. /\ task[u][k] = "put" /\ ~cancelled[u]
        /\ bucket' = [bucket EXCEPT ![<<folder[u], k>>] = u]
    BY <1>5 DEF AddObject
  <2>2. PICK next \in {"done", "slot"} : task' = [task EXCEPT ![u][k] = next]
    BY <1>5 DEF AddObject
  <2>3. bucket'[<<folder[u], k>>] = u
    BY <2>1, PutLands
  <2>4. task'[u][k] = next /\ \A j \in Keys \ {k} : task'[u][j] = task[u][j]
    BY <2>2, OneTask
  <2> QED BY <1>0, <1>1, <2>1, <2>2, <2>3, <2>4, GoroutineAlone DEF StoredPhases, Quiet, TypeOK
<1>6. CASE AddObjectFails(u, k)
  <2>1. task[u][k] = "put" /\ task' = [task EXCEPT ![u][k] = "failed"]
    BY <1>6 DEF AddObjectFails
  <2>2. task'[u][k] = "failed" /\ \A j \in Keys \ {k} : task'[u][j] = task[u][j]
    BY <2>1, OneTask
  <2> QED BY <1>0, <1>1, <2>1, <2>2, GoroutineAlone DEF StoredPhases, Quiet, TypeOK
<1>7. CASE Compress(u, k)
  <2>1. PICK worthwhile \in SUBSET Variants(k) :
          task' = [task EXCEPT ![u] = [j \in Keys |->
                     IF j = k THEN IF worthwhile \ archive[u] = {} THEN "done" ELSE "variants"
                     ELSE IF j \in worthwhile \ archive[u] THEN "pending" ELSE task[u][j]]]
    BY <1>7 DEF Compress
  <2>2. \A j \in Keys :
          task'[u][j] = IF j = k THEN IF worthwhile \ archive[u] = {} THEN "done" ELSE "variants"
                        ELSE IF j \in worthwhile \ archive[u] THEN "pending" ELSE task[u][j]
    BY <2>1 DEF TypeOK
  <2>3. task[u][k] = "compress"
    BY <1>7 DEF Compress
  <2> QED BY <1>0, <1>1, <2>2, <2>3, GoroutineAlone DEF StoredPhases, Quiet, TypeOK
<1>8. ASSUME NEW v \in Keys, AddBytes(u, k, v) PROVE AloneInvOf(u)'
  <2>1. /\ task[u][k] = "variants" /\ task[u][v] = "pending" /\ ~cancelled[u]
        /\ bucket' = [bucket EXCEPT ![<<folder[u], v>>] = u]
    BY <1>8 DEF AddBytes, Storing
  <2>2. \A j \in Keys :
          task'[u][j] = IF j = v \/ (j = k /\ PendingOf(u, k) = {v}) THEN "done" ELSE task[u][j]
    BY <1>8 DEF AddBytes, TypeOK
  <2>3. bucket'[<<folder[u], v>>] = u
    BY <2>1, PutLands
  <2> QED BY <1>0, <1>1, <2>1, <2>2, <2>3, GoroutineAlone DEF StoredPhases, Quiet, TypeOK
<1>9. ASSUME NEW v \in Keys, AddBytesFails(u, k, v) PROVE AloneInvOf(u)'
  <2>1. task[u][k] = "variants" /\ task[u][v] = "pending"
    BY <1>9 DEF AddBytesFails, Storing
  <2>2. \A j \in Keys :
          task'[u][j] = IF j \in {k, v} THEN "failed"
                        ELSE IF j \in PendingOf(u, k) THEN "none" ELSE task[u][j]
    BY <1>9 DEF AddBytesFails, TypeOK
  <2>3. \A j \in PendingOf(u, k) : task[u][j] = "pending"
    BY DEF PendingOf
  <2> QED BY <1>0, <1>1, <2>1, <2>2, <2>3, GoroutineAlone DEF StoredPhases, Quiet, TypeOK
<1> QED BY <1>2, <1>3, <1>4, <1>5, <1>6, <1>7, <1>8, <1>9

\* An upload that goes past its probe finds its folder empty, or has no client, or
\* the listing failed.
LEMMA FanOutAlone ==
  ASSUME TypeOK, TypeOK', NEW u \in Uploads, ProbeNotFound(u) \/ ProbeFails(u), FanOut(u)
  PROVE  AloneInvOf(u)'
<1>1. \A k \in Keys : task'[u][k] = IF k \in archive[u] THEN "queued" ELSE "none"
  BY DEF FanOut, TypeOK
<1>2. archive[u] # {} /\ UNCHANGED <<bucket, folder, archive, cancelled, overlapped>>
  BY DEF FanOut
<1>3. \A k \in archive[u] : task'[u][k] = "queued"
  BY <1>1 DEF TypeOK
<1>4. CASE ProbeNotFound(u)
  <2>1. \A k \in Keys : bucket[<<folder[u], k>>] = NoUpload
    BY <1>4 DEF ProbeNotFound, Occupied
  <2> QED BY <1>1, <1>2, <1>3, <2>1 DEF AloneInvOf, StoredPhases
<1>5. CASE ProbeFails(u)
  <2>1. cancelled[u] \/ faults'["probe"] # 0
    BY <1>5, FaultCounts DEF ProbeFails, FaultKinds
  <2> QED BY <1>1, <1>2, <1>3, <2>1 DEF AloneInvOf, StoredPhases
<1> QED BY <1>4, <1>5

\* A step of a request preserves what is known of the uploads at work.
LEMMA StepAlone ==
  ASSUME TypeOK, TypeOK', UploadInv, OverlapInv, FaultInv, AloneInv,
         NEW q \in Requests, StepOf(q), Frame(q)
  PROVE  AloneInv'
<1> USE DEF Requests
<1>1. ASSUME NEW u \in Uploads, u # q PROVE AloneInvOf(u)'
  <2> SUFFICES ASSUME pc[u] = "upload" PROVE AloneInvOf(u)'
    BY <1>1 DEF AloneInvOf, Frame
  <2>1. /\ AloneInvOf(u) /\ "probe" \in FaultKinds
        /\ ~overlapped'[u] => ~overlapped[u]
        /\ pc'[u] = pc[u] /\ folder' = folder /\ task'[u] = task[u]
        /\ archive'[u] = archive[u] /\ cancelled'[u] = cancelled[u]
    BY <1>1 DEF AloneInv, Frame, FaultKinds
  <2>2. ~overlapped'[u] =>
          \A k \in Keys : bucket'[<<folder[u], k>>] = bucket[<<folder[u], k>>]
    BY <1>1, FolderIsMine DEF Active
  <2>3. faults'["probe"] = 0 => faults["probe"] = 0
    BY <2>1, ZeroBefore
  <2> QED BY <2>1, <2>2, <2>3 DEF AloneInvOf
<1>2. ASSUME q \in Uploads PROVE AloneInvOf(q)'
  <2>1. AloneInvOf(q) /\ pc[q] # "remove" /\ q \notin Deletes
    BY <1>2, ConstantsAssumption DEF AloneInv, FaultInv, FaultInvOf
  <2>2. ASSUME pc'[q] # "upload" PROVE AloneInvOf(q)'
    BY <2>2 DEF AloneInvOf
  <2>3. ASSUME \/ RejectUpload(q) \/ BeginUpload(q) \/ ProbeFound(q)
               \/ WaitSucceeds(q) \/ WaitFails(q) \/ RollbackDone(q)
        PROVE  AloneInvOf(q)'
    BY <1>2, <2>2, <2>3
    DEF RejectUpload, BeginUpload, ProbeFound, WaitSucceeds, WaitFails, RollbackDone,
        Answer, TypeOK
  <2>4. ASSUME ProbeNotFound(q) \/ ProbeFails(q) PROVE AloneInvOf(q)'
    <3>1. CASE RejectArchive(q)
      BY <1>2, <2>2, <3>1 DEF RejectArchive, Answer, TypeOK
    <3>2. CASE FanOut(q)
      BY <1>2, <2>4, <3>2, FanOutAlone
    <3> QED BY <2>4, <3>1, <3>2 DEF ProbeNotFound, ProbeFails
  <2>5. ASSUME NEW k \in Keys,
               \/ StartTask(q, k) \/ AcquireSlot(q, k) \/ Compress(q, k) \/ CompressFails(q, k)
               \/ AddObject(q, k) \/ AddObjectFails(q, k)
               \/ \E v \in Keys : AddBytes(q, k, v) \/ AddBytesFails(q, k, v)
        PROVE  AloneInvOf(q)'
    BY <1>2, <2>1, <2>5, GoroutinesAlone
  <2>6. ASSUME RemoveStep(q) PROVE AloneInvOf(q)'
    BY <1>2, <2>2, <2>6
    DEF RemoveStep, RemoveObject, RemoveObjectFails, RemoveListingFails, Removing
  <2>7. ASSUME Disconnect(q) PROVE AloneInvOf(q)'
    <3>1. PICK landed \in InFlight(q) :
            bucket' = [o \in Folders \X Keys |->
                         IF o[1] = folder[q] /\ o[2] \in landed THEN q ELSE bucket[o]]
      BY <2>7 DEF Disconnect
    <3>2. \A k \in Keys : <<folder[q], k>> \in Folders \X Keys
      BY DEF TypeOK
    <3>3. \A k \in Keys : \/ bucket'[<<folder[q], k>>] = bucket[<<folder[q], k>>]
                          \/ bucket'[<<folder[q], k>>] = q
      BY <3>1, <3>2
    <3>4. /\ UNCHANGED <<pc, folder, archive, task, overlapped>>
          /\ ~cancelled[q] /\ "probe" \in FaultKinds
      BY <2>7 DEF Disconnect, FaultKinds
    <3>5. faults'["probe"] = 0 => faults["probe"] = 0
      BY <3>4, ZeroBefore
    <3> QED BY <2>1, <3>3, <3>4, <3>5 DEF AloneInvOf
  <2> QED BY <1>2, <2>1, <2>3, <2>4, <2>5, <2>6, <2>7 DEF StepOf, UploadStep
<1> QED BY <1>1, <1>2 DEF AloneInv

\* An upload that is answered 201 and had its folder to itself stored its whole
\* archive, and nobody else is at work in the folder.
LEMMA WaitSucceedsAlone ==
  ASSUME TypeOK, OverlapInv, AloneInv, NEW u \in Uploads, WaitSucceeds(u), ~overlapped[u]
  PROVE  /\ \A k \in archive[u] : task[u][k] = "done"
         /\ \E k \in Keys : task[u][k] = "done"
         /\ StoredByUpload(u)
         /\ faults["probe"] = 0 =>
              \A k \in Keys : bucket[<<folder[u], k>>] \in {u, NoUpload}
         /\ \A q \in Requests \ {u} : folder[q] = folder[u] => ~Active(q)
<1>1. /\ pc[u] = "upload"
      /\ \A k \in Keys : task[u][k] \in {"none", "done"}
  BY DEF WaitSucceeds, AllReturned, Ended
<1>2. AloneInvOf(u)
  BY DEF AloneInv
<1>3. \A k \in archive[u] : k \in Keys /\ task[u][k] = "done"
  BY <1>1, <1>2 DEF AloneInvOf, TypeOK
<1>4. \E k \in archive[u] : k \in Keys /\ task[u][k] = "done"
  BY <1>1, <1>2, <1>3 DEF AloneInvOf
<1>5. StoredByUpload(u)
  BY <1>1, <1>2 DEF AloneInvOf, StoredPhases, StoredByUpload
<1>6. ASSUME faults["probe"] = 0
      PROVE  \A k \in Keys : bucket[<<folder[u], k>>] \in {u, NoUpload}
  BY <1>1, <1>2, <1>4, <1>6 DEF AloneInvOf
<1>7. \A q \in Requests \ {u} : folder[q] = folder[u] => ~Active(q)
  BY <1>1 DEF OverlapInv, Active, Requests
<1> QED BY <1>3, <1>4, <1>5, <1>6, <1>7

\* Only WaitSucceeds answers 201.
LEMMA CreatedBy ==
  ASSUME TypeOK, NEW q \in Requests, StepOf(q), Frame(q), NEW u \in Uploads,
         answer[u] # "201", answer'[u] = "201"
  PROVE  q = u /\ WaitSucceeds(u)
<1> USE DEF Requests
<1>1. q = u
  BY DEF Frame
<1>2. answer' # answer
  OBVIOUS
<1>3. u \notin Deletes
  BY ConstantsAssumption
<1>4. ~RemoveStep(u) /\ ~Disconnect(u) /\ ~BeginUpload(u)
  BY <1>2 DEF RemoveStep, RemoveObject, RemoveObjectFails, RemoveListingFails,
              Disconnect, BeginUpload
<1>5. ~RejectUpload(u) /\ ~ProbeFound(u) /\ ~RejectArchive(u) /\ ~RollbackDone(u)
  BY DEF RejectUpload, ProbeFound, RejectArchive, RollbackDone, Answer, TypeOK
<1>6. UploadStep(u)
  BY <1>1, <1>3, <1>4, <1>5 DEF StepOf
<1> QED
  BY <1>1, <1>2, <1>5, <1>6
  DEF UploadStep, ProbeNotFound, ProbeFails, FanOut, StartTask, AddObject, AddObjectFails,
      AcquireSlot, Compress, CompressFails, AddBytes, AddBytesFails, WaitFails

\* Only DeleteDone answers 204.
LEMMA DeletedBy ==
  ASSUME TypeOK, UploadInv, NEW q \in Requests, StepOf(q), Frame(q), NEW d \in Deletes,
         answer[d] # "204", answer'[d] = "204"
  PROVE  q = d /\ DeleteDone(d)
<1> USE DEF Requests
<1>1. q = d /\ d \notin Uploads
  BY ConstantsAssumption DEF Frame
<1>2. ~RemoveStep(d) /\ ~Disconnect(d) /\ ~BeginDelete(d)
  BY DEF RemoveStep, RemoveObject, RemoveObjectFails, RemoveListingFails,
         Disconnect, BeginDelete
<1>3. ~RejectDelete(d)
  BY DEF RejectDelete, Answer, TypeOK
<1> QED BY <1>1, <1>2, <1>3 DEF StepOf

\* A request that is over takes no step.
LEMMA AnsweredIsOver ==
  ASSUME TypeOK, UploadInv, NEW u \in Uploads, pc[u] = "answered"
  PROVE  ~StepOf(u)
<1> USE DEF Requests
<1>1. u \notin Deletes
  BY ConstantsAssumption
<1>2. ~RemoveStep(u) /\ ~Disconnect(u) /\ ~RejectUpload(u) /\ ~BeginUpload(u)
  BY DEF RemoveStep, RemoveObject, RemoveObjectFails, RemoveListingFails, Removing,
         Disconnect, Active, RejectUpload, BeginUpload
<1>3. \A k \in Keys : task[u][k] \in Ended
  BY DEF UploadInv, UploadInvOf, AllReturned
<1>4. ~UploadStep(u)
  BY <1>3
  DEF UploadStep, ProbeFound, ProbeNotFound, ProbeFails, StartTask, AddObject,
      AddObjectFails, AcquireSlot, Compress, CompressFails, AddBytes, AddBytesFails,
      Storing, WaitSucceeds, WaitFails, RollbackDone, Ended
<1> QED BY <1>1, <1>2, <1>4 DEF StepOf

\* A folder that no delete has worked on was so before.
LEMMA NeverDeletedBefore ==
  ASSUME TypeOK, NEW q \in Requests, StepOf(q), Frame(q), NEW f, NeverDeleted(f)'
  PROVE  NeverDeleted(f)
<1> USE DEF Requests
<1> SUFFICES ASSUME NEW d \in Deletes, folder[d] = f
             PROVE  pc[d] = "idle" \/ answer[d] = "400"
  BY DEF NeverDeleted
<1>1. pc'[d] = "idle" \/ answer'[d] = "400"
  BY DEF NeverDeleted, Frame
<1>2. CASE d # q
  BY <1>1, <1>2 DEF Frame
<1>3. CASE d = q
  <2>1. d \notin Uploads
    BY ConstantsAssumption
  <2>2. CASE RejectDelete(d) \/ BeginDelete(d)
    BY <2>2 DEF RejectDelete, BeginDelete
  <2>3. CASE DeleteDone(d)
    BY <1>1, <2>3 DEF DeleteDone, Answer, TypeOK
  <2>4. CASE RemoveStep(d) \/ Disconnect(d)
    BY <1>1, <2>4 DEF RemoveStep, RemoveObject, RemoveObjectFails, RemoveListingFails, Disconnect
  <2> QED BY <1>3, <2>1, <2>2, <2>3, <2>4 DEF StepOf
<1> QED BY <1>2, <1>3

\* Nobody starts to work in a folder that is occupied, unless a listing fails, a
\* client goes away, or somebody deletes it.
LEMMA NobodyEnters ==
  ASSUME TypeOK, TypeOK', FaultInv, NEW q \in Requests, StepOf(q), Frame(q),
         Occupied(folder[q]), NeverDeleted(folder[q])',
         faults'["probe"] = 0, faults'["disconnect"] = 0,
         pc[q] \notin {"upload", "rollback", "remove"}
  PROVE  pc'[q] \notin {"upload", "rollback", "remove"}
<1> USE DEF Requests
<1>0. "probe" \in FaultKinds /\ "disconnect" \in FaultKinds
  BY DEF FaultKinds
<1>1. ~cancelled[q]
  BY <1>0, ZeroBefore DEF FaultInv, FaultInvOf
<1>2. SUFFICES ASSUME pc'[q] # pc[q]
               PROVE  pc'[q] \notin {"upload", "rollback", "remove"}
  OBVIOUS
<1>3. ~RemoveStep(q) /\ ~Disconnect(q)
  BY <1>2 DEF RemoveStep, RemoveObject, RemoveObjectFails, RemoveListingFails, Disconnect
<1>4. ASSUME q \in Deletes, RejectDelete(q) \/ DeleteDone(q)
      PROVE  pc'[q] = "answered"
  BY <1>4 DEF RejectDelete, DeleteDone, Answer, TypeOK
<1>5. ASSUME q \in Deletes, BeginDelete(q) PROVE FALSE
  <2>1. pc'[q] = "remove" /\ answer'[q] = answer[q] /\ pc[q] = "idle" /\ folder' = folder
    BY <1>5 DEF BeginDelete, TypeOK
  <2>2. answer[q] = "none"
    BY <2>1 DEF FaultInv, FaultInvOf
  <2> QED BY <1>5, <2>1, <2>2 DEF NeverDeleted
<1>6. ASSUME q \in Uploads, \/ RejectUpload(q) \/ ProbeFound(q) \/ RejectArchive(q)
                            \/ WaitSucceeds(q) \/ RollbackDone(q)
      PROVE  pc'[q] = "answered"
  BY <1>6
  DEF RejectUpload, ProbeFound, RejectArchive, WaitSucceeds, RollbackDone, Answer, TypeOK
<1>7. ASSUME q \in Uploads, BeginUpload(q) PROVE pc'[q] = "probe"
  BY <1>7 DEF BeginUpload, TypeOK
<1>8. ASSUME q \in Uploads, ProbeNotFound(q) PROVE FALSE
  BY <1>8 DEF ProbeNotFound
<1>9. ASSUME q \in Uploads, ProbeFails(q) PROVE FALSE
  BY <1>0, <1>1, <1>9, FaultCounts DEF ProbeFails
<1>10. ASSUME q \in Uploads, UploadStep(q) PROVE pc'[q] = "answered"
  BY <1>2, <1>6, <1>8, <1>9, <1>10
  DEF UploadStep, StartTask, AddObject, AddObjectFails, AcquireSlot, Compress,
      CompressFails, AddBytes, AddBytesFails, WaitFails
<1> QED BY <1>3, <1>4, <1>5, <1>6, <1>7, <1>10 DEF StepOf

\* A step of a request leaves final publications alone.
LEMMA StepFinal ==
  ASSUME TypeOK, TypeOK', UploadInv, UploadInv', OverlapInv, FaultInv, AloneInv, FinalInv,
         NEW q \in Requests, StepOf(q), Frame(q)
  PROVE  FinalInv'
<1> USE DEF Requests
<1>0. "probe" \in FaultKinds /\ "disconnect" \in FaultKinds
  BY DEF FaultKinds
<1> SUFFICES ASSUME NEW u \in Uploads, Final(u)'
             PROVE  /\ StoredByUpload(u)'
                    /\ \E k \in Keys : task'[u][k] = "done"
                    /\ \A p \in Requests \ {u} :
                         folder'[p] = folder'[u] => pc'[p] \notin {"upload", "rollback", "remove"}
  BY DEF FinalInv, FinalInvOf
<1>1. /\ ~overlapped[u] /\ folder' = folder
      /\ faults["probe"] = 0 /\ faults["disconnect"] = 0
  BY <1>0, ZeroBefore DEF Final, Frame
<1>2. NeverDeleted(folder[u])
  BY <1>1, NeverDeletedBefore DEF Final
<1>3. CASE answer[u] # "201"
  <2>1. q = u /\ WaitSucceeds(u)
    BY <1>3, CreatedBy DEF Final
  <2>2. /\ StoredByUpload(u)
        /\ \E k \in Keys : task[u][k] = "done"
        /\ \A p \in Requests \ {u} : folder[p] = folder[u] => ~Active(p)
    BY <1>1, <2>1, WaitSucceedsAlone
  <2>3. UNCHANGED <<bucket, folder, task>>
    BY <2>1 DEF WaitSucceeds
  <2>4. \A p \in Requests \ {u} : pc'[p] = pc[p]
    BY <2>1 DEF Frame
  <2> QED BY <2>2, <2>3, <2>4 DEF StoredByUpload, Active
<1>4. CASE answer[u] = "201"
  <2>1. Final(u) /\ FinalInvOf(u)
    BY <1>1, <1>2, <1>4 DEF Final, FinalInv
  <2>2. q # u
    BY <1>4, AnsweredIsOver DEF UploadInv, UploadInvOf
  <2>3. task'[u] = task[u] /\ \A p \in Requests \ {q} : pc'[p] = pc[p]
    BY <2>2 DEF Frame
  <2>4. folder[q] = folder[u] => pc[q] \notin {"upload", "rollback", "remove"}
    BY <2>1, <2>2 DEF FinalInvOf
  <2>5. \A k \in Keys : bucket'[<<folder[u], k>>] = bucket[<<folder[u], k>>]
    <3>1. \A k \in Keys : <<folder[u], k>> \in Folders \X Keys
      BY DEF TypeOK
    <3>2. CASE folder[q] # folder[u]
      BY <3>1, <3>2 DEF Frame
    <3>3. CASE folder[q] = folder[u]
      BY <2>4, <3>3 DEF Frame
    <3> QED BY <3>2, <3>3
  <2>6. Occupied(folder[u])
    <3>1. PICK k \in Keys : task[u][k] = "done"
      BY <2>1 DEF FinalInvOf
    <3>2. bucket[<<folder[u], k>>] = u
      BY <2>1, <3>1 DEF FinalInvOf, StoredByUpload
    <3> QED BY <3>2, ConstantsAssumption DEF Occupied
  <2>7. folder[q] = folder[u] => pc'[q] \notin {"upload", "rollback", "remove"}
    BY <1>1, <2>4, <2>6, NobodyEnters DEF Final
  <2> QED BY <1>1, <2>1, <2>2, <2>3, <2>5, <2>7 DEF FinalInvOf, StoredByUpload
<1> QED BY <1>3, <1>4

-----------------------------------------------------------------------------
(* PublishInv is inductive                                                 *)

\* The end of the process leaves nobody at work.
LEMMA CrashPublish ==
  ASSUME TypeOK, PublishInv, Crash
  PROVE  PublishInv'
<1> USE DEF Requests
<1>1. /\ \A q \in Requests : pc'[q] = IF Active(q) THEN "killed" ELSE pc[q]
      /\ UNCHANGED <<bucket, folder, archive, task, left, removeErr, answer, cancelled,
                     overlapped>>
  BY DEF Crash
<1>2. \A q \in Requests : pc'[q] \in {"idle", "answered", "killed"}
  BY <1>1 DEF Active
<1>3. OverlapInv'
  BY <1>2 DEF OverlapInv, Active
<1>4. RemoveInv' /\ AloneInv'
  BY <1>2 DEF RemoveInv, RemoveInvOf, AloneInv, AloneInvOf
<1>5. \A kind \in FaultKinds : faults[kind] \in Nat /\ faults[kind] <= faults'[kind]
                               /\ faults'[kind] \in Nat
  BY FaultCounts, FaultType DEF Crash, FaultKinds, TypeOK
<1>6. /\ faults'["disconnect"] = 0 => faults["disconnect"] = 0
      /\ faults'["io"] = 0 => faults["io"] = 0
      /\ faults'["probe"] = 0 => faults["probe"] = 0
  BY <1>5 DEF FaultKinds
<1>7. FaultInv'
  <2> SUFFICES ASSUME NEW q \in Requests PROVE FaultInvOf(q)'
    BY DEF FaultInv
  <2>1. FaultInvOf(q)
    BY DEF PublishInv, FaultInv
  <2> QED BY <1>1, <1>2, <1>6, <2>1 DEF FaultInvOf, Active
<1>8. FinalInv'
  <2> SUFFICES ASSUME NEW u \in Uploads, Final(u)' PROVE FinalInvOf(u)'
    BY DEF FinalInv, FinalInvOf
  <2>1. NeverDeleted(folder[u])
    BY <1>1 DEF Final, NeverDeleted, Active
  <2>2. FinalInvOf(u) /\ Final(u)
    BY <1>1, <1>6, <2>1 DEF Final, PublishInv, FinalInv
  <2> QED BY <1>1, <1>2, <2>2 DEF FinalInvOf, StoredByUpload
<1> QED BY <1>3, <1>4, <1>7, <1>8 DEF PublishInv

\* A state that does not change keeps the invariant.
LEMMA StutterPublish ==
  ASSUME PublishInv, UNCHANGED vars
  PROVE  PublishInv'
<1> USE DEF vars
<1>1. OverlapInv'
  BY DEF PublishInv, OverlapInv, Active
<1>2. FaultInv'
  BY DEF PublishInv, FaultInv, FaultInvOf
<1>3. RemoveInv'
  BY DEF PublishInv, RemoveInv, RemoveInvOf
<1>4. AloneInv'
  BY DEF PublishInv, AloneInv, AloneInvOf
<1>5. FinalInv'
  BY DEF PublishInv, FinalInv, FinalInvOf, Final, NeverDeleted, StoredByUpload
<1> QED BY <1>1, <1>2, <1>3, <1>4, <1>5 DEF PublishInv

\* The invariant holds initially.
LEMMA InitPublish == Init => PublishInv
<1> SUFFICES ASSUME Init PROVE PublishInv
  OBVIOUS
<1> USE DEF Init, Requests
<1>1. OverlapInv
  BY DEF OverlapInv, Active
<1>2. FaultInv
  BY DEF FaultInv, FaultInvOf
<1>3. RemoveInv /\ AloneInv
  BY DEF RemoveInv, RemoveInvOf, AloneInv, AloneInvOf
<1>4. FinalInv
  BY DEF FinalInv, FinalInvOf, Final
<1> QED BY <1>1, <1>2, <1>3, <1>4 DEF PublishInv

\* Everything that is known of uploads and removals.
StoreInv == TypeOK /\ UploadInv /\ PublishInv

\* Every step preserves it.
LEMMA NextStoreInv == StoreInv /\ [Next]_vars => StoreInv'
<1> SUFFICES ASSUME TypeOK, UploadInv, PublishInv, [Next]_vars PROVE StoreInv'
  BY DEF StoreInv
<1>1. TypeOK' /\ UploadInv'
  BY NextTypeOK, NextUploadInv
<1>2. ASSUME NEW q \in Requests, StepOf(q) PROVE PublishInv'
  <2>1. Frame(q)
    BY <1>2, StepFrame
  <2> QED
    BY <1>1, <1>2, <2>1, StepOverlap, StepFault, StepRemove, StepAlone, StepFinal
    DEF PublishInv
<1>3. PublishInv'
  BY <1>2, NextSteps, CrashPublish, StutterPublish
<1> QED BY <1>1, <1>3 DEF StoreInv

\* Every reachable state satisfies it.
LEMMA StoreInvHolds == Spec => []StoreInv
<1>1. Init => StoreInv
  BY InitTypeOK, InitUploadInv, InitPublish DEF StoreInv
<1> QED BY <1>1, NextStoreInv, PTL DEF Spec

\* What an upload answered 201 stored in a folder of its own stays until somebody
\* deletes it, as long as no listing is cut short by an error or by a client that
\* went away: no later upload gets past its probe.
THEOREM PublicationIsFinal == Spec => []PublishedStays
<1>1. StoreInv => PublishedStays
  BY DEF StoreInv, PublishInv, FinalInv, FinalInvOf, Final, PublishedStays
<1> QED BY <1>1, StoreInvHolds, PTL

\* A client that goes away does not make its rollback fail.
THEOREM DisconnectsAreRolledBack == Spec => []DisconnectIsRolledBack
<1>1. StoreInv => DisconnectIsRolledBack
  BY DEF StoreInv, PublishInv, FaultInv, FaultInvOf, DisconnectIsRolledBack, Requests
<1> QED BY <1>1, StoreInvHolds, PTL

\* An upload answered 201 with its folder to itself stored its whole archive and,
\* unless a listing failed, nothing else is in the folder.
THEOREM CreatedPackagesAreExact == Spec => CreatedIsExact
<1> DEFINE Created(u) == answer[u] # "201" /\ answer'[u] = "201" /\ ~overlapped[u]
           Exact(u) == /\ \A k \in archive[u] : task[u][k] = "done"
                       /\ StoredByUpload(u)
                       /\ faults["probe"] = 0 =>
                            \A k \in Keys : bucket[<<folder[u], k>>] \in {u, NoUpload}
<1>1. ASSUME StoreInv, Next, NEW u \in Uploads, Created(u) PROVE Exact(u)
  <2>1. ~Crash
    BY <1>1 DEF Crash
  <2>2. PICK q \in Requests : StepOf(q)
    BY <1>1, <2>1, NextSteps
  <2>3. Frame(q)
    BY <1>1, <2>2, StepFrame DEF StoreInv
  <2>4. WaitSucceeds(u)
    BY <1>1, <2>2, <2>3, CreatedBy DEF StoreInv
  <2> QED BY <1>1, <2>4, WaitSucceedsAlone DEF StoreInv, PublishInv
<1>2. ASSUME StoreInv, [Next]_vars
      PROVE  [\A u \in Uploads : Created(u) => Exact(u)]_vars
  BY <1>1, <1>2
<1> QED BY <1>2, StoreInvHolds, PTL DEF Spec, CreatedIsExact

\* A delete answered 204 with its folder to itself left the folder empty.
THEOREM DeletedPackagesAreEmpty == Spec => DeletedIsEmpty
<1> DEFINE Deleted(d) == answer[d] # "204" /\ answer'[d] = "204" /\ ~overlapped[d]
<1>1. ASSUME StoreInv, Next, NEW d \in Deletes, Deleted(d) PROVE ~Occupied(folder[d])
  <2>1. ~Crash
    BY <1>1 DEF Crash
  <2>2. PICK q \in Requests : StepOf(q)
    BY <1>1, <2>1, NextSteps
  <2>3. Frame(q)
    BY <1>1, <2>2, StepFrame DEF StoreInv
  <2>4. DeleteDone(d)
    BY <1>1, <2>2, <2>3, DeletedBy DEF StoreInv
  <2>5. pc[d] = "remove" /\ left[d] = {} /\ ~removeErr[d]
    BY <1>1, <2>4 DEF DeleteDone, Answer, StoreInv, TypeOK, Requests
  <2> QED BY <1>1, <2>5 DEF StoreInv, PublishInv, RemoveInv, RemoveInvOf, Occupied
<1>2. ASSUME StoreInv, [Next]_vars
      PROVE  [\A d \in Deletes : Deleted(d) => ~Occupied(folder[d])]_vars
  BY <1>1, <1>2
<1> QED BY <1>2, StoreInvHolds, PTL DEF Spec, DeletedIsEmpty

=============================================================================
