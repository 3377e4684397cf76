---------------------------- MODULE PackageStore ----------------------------
(***************************************************************************)
(* Publishing and deleting package versions: ContentService.CreatePackage, *)
(* rollbackPartialUpload and DeletePackage over the S3 bucket behind       *)
(* ObjectStorageManager, with any number of requests in flight.            *)
(*                                                                         *)
(* A folder is the string name@version; its objects are the keys under     *)
(* folder + "/".  An upload fans its archive entries out to an errgroup of *)
(* at most EgLimit goroutines.  A goroutine stores its entry (AddObject),  *)
(* and for a compressible entry waits for one of the compression slots,    *)
(* compresses, and stores the variants (AddBytes).  eg.Wait returns after  *)
(* every goroutine did, whether or not one failed; then the request is     *)
(* answered 201, or the whole folder is removed and it is answered 500.    *)
(*                                                                         *)
(* The bucket remembers which upload wrote each object: two uploads of one *)
(* folder carry different bytes under the same key.  This is the service   *)
(* without a resolution cache (cache.enabled = false); AliasCache adds it. *)
(*                                                                         *)
(* Every call to the object store may fail, every client may disconnect    *)
(* (which cancels the request's context) and the process may be killed.    *)
(***************************************************************************)
EXTENDS Integers, FiniteSets

CONSTANTS
  Uploads,            \* POST /packages requests
  Deletes,            \* DELETE /packages/:package requests
  Folders,            \* name@version folders of the bucket
  TextPrefix,         \* pairs <<f, g>> of folders, the text of f a prefix of g's
  Files,              \* file names inside a package
  Compressible,       \* the files compressibleContentType accepts
  Encodings,          \* encodings compressVariants produces
  Identity,           \* marks a key that is no encoded variant
  Archives,           \* the sets of keys an archive may carry
  CompressionEnabled, \* svc.compressionEnabled
  EgLimit,            \* eg.SetLimit
  CompressionSlots,   \* capacity of the compressionSlots channel
  NoUpload,           \* "no object here"
  MaxIoErrors,     \* bound: failed calls to the store, unreadable zip entries
  MaxProbeErrors,     \* bound: failed listings inside ObjectExists
  MaxDisconnects,     \* bound: clients that go away
  MaxCrashes          \* bound: killed processes

Requests == Uploads \union Deletes

\* Keys relative to a folder: a file, or an encoded variant of a compressible one.
Keys == { <<f, Identity>> : f \in Files }
          \union { <<f, e>> : f \in Compressible, e \in Encodings }

ASSUME ConstantsAssumption ==
  /\ Uploads \intersect Deletes = {}
  /\ NoUpload \notin Uploads
  /\ Identity \notin Encodings
  /\ Compressible \subseteq Files
  /\ TextPrefix \subseteq Folders \X Folders
  /\ Archives \subseteq SUBSET Keys
  /\ CompressionEnabled \in BOOLEAN
  /\ EgLimit \in Nat \ {0}
  /\ CompressionSlots \in Nat \ {0}
  /\ MaxIoErrors \in Nat
  /\ MaxProbeErrors \in Nat
  /\ MaxDisconnects \in Nat
  /\ MaxCrashes \in Nat

VARIABLES
  bucket,      \* the object store: which upload's bytes are under <<folder, key>>
  pc,          \* where each request is in its handler
  folder,      \* the folder each request is about
  archive,     \* the keys of each upload's archive; {} is one archiveKeys refuses
  task,        \* what became of each key of an upload
  slots,       \* the goroutines of an upload that hold a compression slot
  left,        \* the keys a request's RemoveObjects has still to go through
  removeErr,   \* whether a request's RemoveObjects collected an error
  answer,      \* the HTTP answer
  cancelled,   \* whether the request's context is cancelled
  overlapped,  \* history: another request was active on the same folder meanwhile
  faults       \* how many faults of each kind have happened

vars == <<bucket, pc, folder, archive, task, slots, left, removeErr, answer,
          cancelled, overlapped, faults>>

\* "queued" waits in the loop for eg.Go; a goroutine is in "put" (fileIntegrity
\* and AddObject), "slot", "compress" or "variants"; "pending" is a variant that
\* its entry's goroutine has still to store.
Running == {"put", "slot", "compress", "variants"}
Ended   == {"none", "done", "failed"}
Phases  == Running \union Ended \union {"queued", "pending"}

Active(q) == pc[q] \notin {"idle", "answered", "killed"}

FaultKinds == {"io", "probe", "disconnect", "crash"}

Fault(kind, bound) ==
  /\ faults[kind] < bound
  /\ faults' = [faults EXCEPT ![kind] = @ + 1]

\* A call made with the request's context fails when the client went away,
\* and otherwise when the store does.
CallFails(q) ==
  IF cancelled[q] THEN UNCHANGED faults ELSE Fault("io", MaxIoErrors)

Init ==
  /\ bucket     = [o \in Folders \X Keys |-> NoUpload]
  /\ pc         = [q \in Requests |-> "idle"]
  /\ folder     \in [Requests -> Folders]
  /\ archive    = [u \in Uploads |-> {}]
  /\ task       = [u \in Uploads |-> [k \in Keys |-> "none"]]
  /\ slots      = [u \in Uploads |-> {}]
  /\ left       = [q \in Requests |-> {}]
  /\ removeErr  = [q \in Requests |-> FALSE]
  /\ answer     = [q \in Requests |-> "none"]
  /\ cancelled  = [q \in Requests |-> FALSE]
  /\ overlapped = [q \in Requests |-> FALSE]
  /\ faults     = [kind \in FaultKinds |-> 0]

Rivals(q) == { p \in Requests \ {q} : Active(p) /\ folder[p] = folder[q] }

MarkOverlap(q) ==
  overlapped' = [p \in Requests |->
                   \/ overlapped[p]
                   \/ p \in Rivals(q)
                   \/ p = q /\ Rivals(q) # {}]

Answer(q, status) ==
  /\ pc'     = [pc EXCEPT ![q] = "answered"]
  /\ answer' = [answer EXCEPT ![q] = status]

-----------------------------------------------------------------------------
(* CreatePackage, up to the fan-out                                        *)

\* Refused before the store is consulted: name or version (400), size or
\* archive limits (413), unreadable zip (500).
RejectUpload(u) ==
  /\ pc[u] = "idle"
  /\ \E status \in {"400", "413", "500"} : Answer(u, status)
  /\ UNCHANGED <<bucket, folder, archive, task, slots, left, removeErr,
                 cancelled, overlapped, faults>>

\* Name, version, size, zip and limits are fine: on to ObjectExists.
BeginUpload(u) ==
  /\ pc[u] = "idle"
  /\ \E a \in Archives : archive' = [archive EXCEPT ![u] = a]
  /\ pc' = [pc EXCEPT ![u] = "probe"]
  /\ MarkOverlap(u)
  /\ UNCHANGED <<bucket, folder, task, slots, left, removeErr, answer,
                 cancelled, faults>>

Occupied(f) == \E k \in Keys : bucket[<<f, k>>] # NoUpload

\* ObjectExists lists folder + "/" and reports whether an object came back.
ProbeFound(u) ==
  /\ pc[u] = "probe"
  /\ ~cancelled[u]
  /\ Occupied(folder[u])
  /\ Answer(u, "409")
  /\ UNCHANGED <<bucket, folder, archive, task, slots, left, removeErr,
                 cancelled, overlapped, faults>>

\* archiveKeys refuses the archive.
RejectArchive(u) ==
  /\ archive[u] = {}
  /\ \E status \in {"400", "500"} : Answer(u, status)
  /\ UNCHANGED <<bucket, folder, archive, task, slots, left, removeErr,
                 cancelled, overlapped>>

\* Mutant of FanOut: an entry outside the package's namespace is accepted.
FanOutEscaping(u) ==
  /\ archive[u] # {}
  /\ task' = [task EXCEPT ![u] =
                [k \in Keys \union {<<"..", Identity>>} |->
                   IF k \in Keys \ archive[u] THEN "none" ELSE "queued"]]
  /\ pc' = [pc EXCEPT ![u] = "upload"]
  /\ UNCHANGED <<bucket, folder, archive, slots, left, removeErr, answer,
                 cancelled, overlapped>>

\* archiveKeys accepts it: every entry is handed to eg.Go.
FanOut(u) ==
  /\ archive[u] # {}
  /\ task' = [task EXCEPT ![u] =
                [k \in Keys |-> IF k \in archive[u] THEN "queued" ELSE "none"]]
  /\ pc' = [pc EXCEPT ![u] = "upload"]
  /\ UNCHANGED <<bucket, folder, archive, slots, left, removeErr, answer,
                 cancelled, overlapped>>

\* Mutant of ProbeNotFound: the answer of ObjectExists is not looked at.
ProbeIgnored(u) ==
  /\ pc[u] = "probe"
  /\ ~cancelled[u]
  /\ RejectArchive(u) \/ FanOut(u)
  /\ UNCHANGED faults

ProbeNotFound(u) ==
  /\ pc[u] = "probe"
  /\ ~cancelled[u]
  /\ ~Occupied(folder[u])
  /\ RejectArchive(u) \/ FanOut(u)
  /\ UNCHANGED faults

\* The listing fails.  ObjectExists logs the error, skips it and returns false.
ProbeFails(u) ==
  /\ pc[u] = "probe"
  /\ RejectArchive(u) \/ FanOut(u)
  /\ IF cancelled[u] THEN UNCHANGED faults ELSE Fault("probe", MaxProbeErrors)

-----------------------------------------------------------------------------
(* The goroutines of an upload.  Nothing but their own progress (and the   *)
(* end of the process) ties them to the handler that started them.         *)

Goroutines(u) == { k \in Keys : task[u][k] \in Running }

StartTask(u, k) ==
  /\ pc[u] = "upload"
  /\ task[u][k] = "queued"
  /\ Cardinality(Goroutines(u)) < EgLimit
  /\ task' = [task EXCEPT ![u][k] = "put"]
  /\ UNCHANGED <<bucket, pc, folder, archive, slots, left, removeErr, answer,
                 cancelled, overlapped, faults>>

Variants(k) == { <<k[1], e>> : e \in Encodings }

archiveSuppliesVariants(u, k) == Variants(k) \subseteq archive[u]

\* Compression is on, the entry is compressible, and the archive does not
\* already carry every variant of it.
NeedsVariants(u, k) ==
  /\ CompressionEnabled
  /\ k[2] = Identity
  /\ k[1] \in Compressible
  /\ ~archiveSuppliesVariants(u, k)

\* The entry is stored; an entry outside the size window is not compressed.
AddObject(u, k) ==
  /\ pc[u] # "killed"
  /\ task[u][k] = "put"
  /\ ~cancelled[u]
  /\ bucket' = [bucket EXCEPT ![<<folder[u], k>>] = u]
  /\ \E next \in {"done"} \union (IF NeedsVariants(u, k) THEN {"slot"} ELSE {}) :
       task' = [task EXCEPT ![u][k] = next]
  /\ UNCHANGED <<pc, folder, archive, slots, left, removeErr, answer,
                 cancelled, overlapped, faults>>

\* PutObject reports an error.  The object may have been stored all the same,
\* but not by a call made after the client went away.
FailedPut(u, k) ==
  /\ CallFails(u)
  /\ \/ bucket' = bucket
     \/ ~cancelled[u] /\ bucket' = [bucket EXCEPT ![<<folder[u], k>>] = u]

\* Mutant of AddObjectFails: the goroutine logs the error and returns nil.
AddObjectFailsUnseen(u, k) ==
  /\ pc[u] # "killed"
  /\ task[u][k] = "put"
  /\ FailedPut(u, k)
  /\ task' = [task EXCEPT ![u][k] = "done"]
  /\ UNCHANGED <<pc, folder, archive, slots, left, removeErr, answer,
                 cancelled, overlapped>>

AddObjectFails(u, k) ==
  /\ pc[u] # "killed"
  /\ task[u][k] = "put"
  /\ FailedPut(u, k)
  /\ task' = [task EXCEPT ![u][k] = "failed"]
  /\ UNCHANGED <<pc, folder, archive, slots, left, removeErr, answer,
                 cancelled, overlapped>>

\* compressionSlots <- struct{}{}
AcquireSlot(u, k) ==
  /\ pc[u] # "killed"
  /\ task[u][k] = "slot"
  /\ Cardinality(slots[u]) < CompressionSlots
  /\ slots' = [slots EXCEPT ![u] = @ \union {k}]
  /\ task'  = [task EXCEPT ![u][k] = "compress"]
  /\ UNCHANGED <<bucket, pc, folder, archive, left, removeErr, answer,
                 cancelled, overlapped, faults>>

ReleaseSlot(u, k) == slots' = [slots EXCEPT ![u] = @ \ {k}]

\* compressVariants keeps the encodings that pay off; the ones the archive
\* carries itself are skipped.
Compress(u, k) ==
  /\ pc[u] # "killed"
  /\ task[u][k] = "compress"
  /\ ReleaseSlot(u, k)
  /\ \E worthwhile \in SUBSET Variants(k) :
       LET new == worthwhile \ archive[u] IN
       task' = [task EXCEPT ![u] = [j \in Keys |->
                  IF j = k THEN IF new = {} THEN "done" ELSE "variants"
                  ELSE IF j \in new THEN "pending" ELSE @[j]]]
  /\ UNCHANGED <<bucket, pc, folder, archive, left, removeErr, answer,
                 cancelled, overlapped, faults>>

\* Mutant of CompressFails: the slot is not given back on an error.
CompressFailsHoldingSlot(u, k) ==
  /\ pc[u] # "killed"
  /\ task[u][k] = "compress"
  /\ Fault("io", MaxIoErrors)
  /\ task' = [task EXCEPT ![u][k] = "failed"]
  /\ UNCHANGED <<bucket, pc, folder, archive, slots, left, removeErr, answer,
                 cancelled, overlapped>>

\* The zip entry cannot be read again: the goroutine gives its slot back first.
CompressFails(u, k) ==
  /\ pc[u] # "killed"
  /\ task[u][k] = "compress"
  /\ Fault("io", MaxIoErrors)
  /\ ReleaseSlot(u, k)
  /\ task' = [task EXCEPT ![u][k] = "failed"]
  /\ UNCHANGED <<bucket, pc, folder, archive, left, removeErr, answer,
                 cancelled, overlapped>>

\* v is one of the variants the goroutine of entry k has still to store.
Storing(u, k, v) ==
  /\ pc[u] # "killed"
  /\ task[u][k] = "variants"
  /\ v \in Variants(k)
  /\ task[u][v] = "pending"

PendingOf(u, k) == { v \in Variants(k) : task[u][v] = "pending" }

AddBytes(u, k, v) ==
  /\ Storing(u, k, v)
  /\ ~cancelled[u]
  /\ bucket' = [bucket EXCEPT ![<<folder[u], v>>] = u]
  /\ task' = [task EXCEPT ![u] = [j \in Keys |->
                IF j = v \/ (j = k /\ PendingOf(u, k) = {v}) THEN "done" ELSE @[j]]]
  /\ UNCHANGED <<pc, folder, archive, slots, left, removeErr, answer,
                 cancelled, overlapped, faults>>

\* The goroutine returns the error: the variants it has not come to are dropped.
AddBytesFails(u, k, v) ==
  /\ Storing(u, k, v)
  /\ FailedPut(u, v)
  /\ task' = [task EXCEPT ![u] = [j \in Keys |->
                IF j \in {k, v} THEN "failed"
                ELSE IF j \in PendingOf(u, k) THEN "none" ELSE @[j]]]
  /\ UNCHANGED <<pc, folder, archive, slots, left, removeErr, answer,
                 cancelled, overlapped>>

-----------------------------------------------------------------------------
(* eg.Wait, and what follows it                                            *)

\* Mutant of AllReturned: the handler goes on at the first error.
FirstErrorReturned(u) ==
  \/ \A k \in Keys : task[u][k] \in Ended
  \/ \E k \in Keys : task[u][k] = "failed"

\* eg.Wait returns once every goroutine has returned.
AllReturned(u) == \A k \in Keys : task[u][k] \in Ended

WaitSucceeds(u) ==
  /\ pc[u] = "upload"
  /\ AllReturned(u)
  /\ \A k \in Keys : task[u][k] # "failed"
  /\ Answer(u, "201")
  /\ UNCHANGED <<bucket, folder, archive, task, slots, left, removeErr,
                 cancelled, overlapped, faults>>

\* A goroutine failed: rollbackPartialUpload removes the whole folder.
WaitFails(u) ==
  /\ pc[u] = "upload"
  /\ AllReturned(u)
  /\ \E k \in Keys : task[u][k] = "failed"
  /\ pc'   = [pc EXCEPT ![u] = "rollback"]
  /\ left' = [left EXCEPT ![u] = Keys]
  /\ UNCHANGED <<bucket, folder, archive, task, slots, removeErr, answer,
                 cancelled, overlapped, faults>>

RollbackDone(u) ==
  /\ pc[u] = "rollback"
  /\ left[u] = {}
  /\ Answer(u, IF removeErr[u] THEN "500 partial" ELSE "500")
  /\ UNCHANGED <<bucket, folder, archive, task, slots, left, removeErr,
                 cancelled, overlapped, faults>>

-----------------------------------------------------------------------------
(* ObjectStorageManager.RemoveObjects, shared by rollback and delete       *)

\* Mutant of ListedUnder: the prefix is not closed by a slash.
ListedUnderBareName(f) == {f} \union { g \in Folders : <<f, g>> \in TextPrefix }

\* The folders whose keys start with the prefix a removal of f lists: the
\* trailing slash leaves f alone.
ListedUnder(f) == {f}

Removing(q) == pc[q] \in {"rollback", "remove"}

\* Mutant of RemovalFails: the rollback runs on the request's context.
RemovalFailsWithRequest(q) == CallFails(q)

\* A rollback runs on context.WithoutCancel: only the store (or the 30 s
\* timeout) fails it.
RemovalFails(q) ==
  IF pc[q] = "rollback" THEN Fault("io", MaxIoErrors) ELSE CallFails(q)

\* The listing streams keys into the batch deletion.  A key is listed and
\* deleted in one step: deleting by name whatever is there when the deletion
\* runs, or finding nothing when the listing does, are both this step taken
\* at that moment.
RemoveObject(q, k) ==
  /\ Removing(q)
  /\ k \in left[q]
  /\ pc[q] = "remove" => ~cancelled[q]
  /\ left' = [left EXCEPT ![q] = @ \ {k}]
  /\ bucket' = [o \in Folders \X Keys |->
                  IF o[1] \in ListedUnder(folder[q]) /\ o[2] = k
                  THEN NoUpload ELSE bucket[o]]
  /\ UNCHANGED <<pc, folder, archive, task, slots, removeErr, answer,
                 cancelled, overlapped, faults>>

\* One key cannot be deleted.
RemoveObjectFails(q, k) ==
  /\ Removing(q)
  /\ k \in left[q]
  /\ RemovalFails(q)
  /\ left'      = [left EXCEPT ![q] = @ \ {k}]
  /\ removeErr' = [removeErr EXCEPT ![q] = TRUE]
  /\ UNCHANGED <<bucket, pc, folder, archive, task, slots, answer,
                 cancelled, overlapped>>

\* Mutant of RemoveListingFails: a read error is logged and not collected.
RemoveListingFailsUnseen(q) ==
  /\ Removing(q)
  /\ left[q] # {}
  /\ RemovalFails(q)
  /\ left' = [left EXCEPT ![q] = {}]
  /\ UNCHANGED <<bucket, pc, folder, archive, task, slots, removeErr, answer,
                 cancelled, overlapped>>

\* The listing breaks off: what it has not reached stays.
RemoveListingFails(q) ==
  /\ Removing(q)
  /\ left[q] # {}
  /\ RemovalFails(q)
  /\ left'      = [left EXCEPT ![q] = {}]
  /\ removeErr' = [removeErr EXCEPT ![q] = TRUE]
  /\ UNCHANGED <<bucket, pc, folder, archive, task, slots, answer,
                 cancelled, overlapped>>

-----------------------------------------------------------------------------
(* DeletePackage                                                           *)

RejectDelete(d) ==
  /\ pc[d] = "idle"
  /\ Answer(d, "400")
  /\ UNCHANGED <<bucket, folder, archive, task, slots, left, removeErr,
                 cancelled, overlapped, faults>>

BeginDelete(d) ==
  /\ pc[d] = "idle"
  /\ pc'   = [pc EXCEPT ![d] = "remove"]
  /\ left' = [left EXCEPT ![d] = Keys]
  /\ MarkOverlap(d)
  /\ UNCHANGED <<bucket, folder, archive, task, slots, removeErr, answer,
                 cancelled, faults>>

DeleteDone(d) ==
  /\ pc[d] = "remove"
  /\ left[d] = {}
  /\ Answer(d, IF removeErr[d] THEN "500" ELSE "204")
  /\ UNCHANGED <<bucket, folder, archive, task, slots, left, removeErr,
                 cancelled, overlapped, faults>>

-----------------------------------------------------------------------------
(* The environment                                                         *)

\* The keys whose PutObject may be under way: a goroutine stores its variants
\* one after the other.
InFlight(q) ==
  IF q \in Uploads
  THEN { S \in SUBSET { k \in Keys : task[q][k] \in {"put", "pending"} } :
           \A k \in Keys : Cardinality(S \intersect Variants(k)) <= 1 }
  ELSE {{}}

\* The client goes away: net/http cancels the request's context.  Calls that
\* are under way are abandoned; some of them have taken effect.
Disconnect(q) ==
  /\ Active(q)
  /\ ~cancelled[q]
  /\ Fault("disconnect", MaxDisconnects)
  /\ cancelled' = [cancelled EXCEPT ![q] = TRUE]
  /\ \E landed \in InFlight(q) :
       bucket' = [o \in Folders \X Keys |->
                    IF o[1] = folder[q] /\ o[2] \in landed THEN q ELSE bucket[o]]
  /\ UNCHANGED <<pc, folder, archive, task, slots, left, removeErr,
                 answer, overlapped>>

\* kill -9, OOM, or a shutdown past its 60 s of grace: the requests are gone,
\* the bucket stays, and the restarted process remembers nothing.
Crash ==
  /\ \E q \in Requests : Active(q)
  /\ Fault("crash", MaxCrashes)
  /\ pc' = [q \in Requests |-> IF Active(q) THEN "killed" ELSE pc[q]]
  /\ UNCHANGED <<bucket, folder, archive, task, slots, left, removeErr,
                 answer, cancelled, overlapped>>

-----------------------------------------------------------------------------
UploadStep(u) ==
  \/ ProbeFound(u) \/ ProbeNotFound(u) \/ ProbeFails(u)
  \/ \E k \in Keys :
       \/ StartTask(u, k) \/ AddObject(u, k) \/ AddObjectFails(u, k)
       \/ AcquireSlot(u, k) \/ Compress(u, k) \/ CompressFails(u, k)
       \/ \E v \in Keys : AddBytes(u, k, v) \/ AddBytesFails(u, k, v)
  \/ WaitSucceeds(u) \/ WaitFails(u) \/ RollbackDone(u)

RemoveStep(q) ==
  \/ \E k \in Keys : RemoveObject(q, k) \/ RemoveObjectFails(q, k)
  \/ RemoveListingFails(q)

Next ==
  \/ \E u \in Uploads : RejectUpload(u) \/ BeginUpload(u) \/ UploadStep(u)
  \/ \E d \in Deletes : RejectDelete(d) \/ BeginDelete(d) \/ DeleteDone(d)
  \/ \E q \in Requests : RemoveStep(q) \/ Disconnect(q)
  \/ Crash

\* The runtime schedules every goroutine, and every call to the store returns.
Fairness ==
  /\ \A u \in Uploads : WF_vars(UploadStep(u))
  /\ \A d \in Deletes : WF_vars(DeleteDone(d))
  /\ \A q \in Requests : WF_vars(RemoveStep(q))

Spec == Init /\ [][Next]_vars

FairSpec == Spec /\ Fairness

-----------------------------------------------------------------------------
(* Properties                                                              *)

\* Every object is under a key of its package's folder and belongs to an upload:
\* no entry that archiveKeys let through is stored outside the folder.
TypeOK ==
  /\ bucket     \in [Folders \X Keys -> Uploads \union {NoUpload}]
  /\ pc         \in [Requests -> {"idle", "probe", "upload", "rollback", "remove",
                                 "answered", "killed"}]
  /\ folder     \in [Requests -> Folders]
  /\ archive    \in [Uploads -> SUBSET Keys]
  /\ task       \in [Uploads -> [Keys -> Phases]]
  /\ slots      \in [Uploads -> SUBSET Keys]
  /\ left       \in [Requests -> SUBSET Keys]
  /\ removeErr  \in [Requests -> BOOLEAN]
  /\ answer     \in [Requests -> {"none", "201", "204", "400", "409", "413", "500",
                                 "500 partial"}]
  /\ cancelled  \in [Requests -> BOOLEAN]
  /\ overlapped \in [Requests -> BOOLEAN]
  /\ faults     \in [FaultKinds -> Nat]

\* An upload answered with an error leaves none of its objects in the bucket,
\* unless the answer says that the rollback failed ("500 partial").  It holds
\* with any uploads and deletes running beside it, because eg.Wait outlives
\* every goroutine: none stores an object behind the rollback's back.
FailedUploadLeavesNothing ==
  \A u \in Uploads :
    answer[u] \in {"400", "409", "413", "500"} =>
      \A o \in Folders \X Keys : bucket[o] # u

\* Why it holds, as an inductive invariant.  An upload owns objects of its own
\* folder only, and none before the fan-out; once eg.Wait returned no goroutine
\* is left; a rollback still has every object of its upload ahead of it, or
\* has failed; and only a request that is over has an answer.
UploadInvOf(u) ==
  /\ \A o \in Folders \X Keys :
       bucket[o] = u => o[1] = folder[u] /\ pc[u] \notin {"idle", "probe"}
  /\ pc[u] \notin {"upload", "killed"} => AllReturned(u)
  /\ pc[u] = "rollback" =>
       \A o \in Folders \X Keys : bucket[o] = u => o[2] \in left[u] \/ removeErr[u]
  /\ answer[u] # "none" => pc[u] = "answered"
  /\ answer[u] \in {"400", "409", "413", "500"} =>
       \A o \in Folders \X Keys : bucket[o] # u

UploadInv == \A u \in Uploads : UploadInvOf(u)

\* An object goes away only while a rollback or a delete of its own folder
\* runs: the slash after the removal's prefix keeps 1.0.0-rc safe from 1.0.0.
OtherVersionsUntouched ==
  [][\A o \in Folders \X Keys :
       bucket[o] # NoUpload /\ bucket'[o] = NoUpload =>
         \E q \in Requests : Removing(q) /\ folder[q] = o[1]]_vars

StoredByUpload(u) ==
  \A k \in Keys : task[u][k] = "done" => bucket[<<folder[u], k>>] = u

\* When an upload that no request on its folder ran beside is answered 201,
\* every entry of its archive and every variant it produced is in the bucket,
\* and unless a listing failed nothing else is under the folder: no remains of
\* a crashed or half rolled back upload are served with it.
CreatedIsExact ==
  [][\A u \in Uploads :
       answer[u] # "201" /\ answer'[u] = "201" /\ ~overlapped[u] =>
         /\ \A k \in archive[u] : task[u][k] = "done"
         /\ StoredByUpload(u)
         /\ faults["probe"] = 0 =>
              \A k \in Keys : bucket[<<folder[u], k>>] \in {u, NoUpload}]_vars

\* A delete answered 204 that no other request on its folder ran beside left
\* the folder empty, so a partial package can be removed and published again.
DeletedIsEmpty ==
  [][\A d \in Deletes :
       answer[d] # "204" /\ answer'[d] = "204" /\ ~overlapped[d] =>
         ~Occupied(folder[d])]_vars

NeverDeleted(f) ==
  \A d \in Deletes : folder[d] = f => pc[d] = "idle" \/ answer[d] = "400"

\* Publication is final: what an upload answered 201 stored stays as it was
\* until somebody deletes the folder, provided that the upload had its folder
\* to itself and that no listing of ObjectExists was cut short by an error or
\* by a client that went away.  Failed calls and crashes do not endanger it.
PublishedStays ==
  \A u \in Uploads :
    /\ answer[u] = "201"
    /\ ~overlapped[u]
    /\ NeverDeleted(folder[u])
    /\ faults["probe"] = 0
    /\ faults["disconnect"] = 0
    => StoredByUpload(u)

\* A client that goes away never causes a partial package: as long as the store
\* answers, the rollback of its upload goes through, whatever the request's
\* context says.
DisconnectIsRolledBack ==
  faults["io"] = 0 => \A u \in Uploads : answer[u] # "500 partial"

\* Every request is answered unless the process is killed: the goroutine limit
\* and the compression slots never leave an upload waiting on itself.
RequestsAnswered == \A q \in Requests : Active(q) ~> ~Active(q)

\* README.md:369, "the package either lands entirely or leaves nothing behind":
\* what an upload answered 201 stored is there until somebody deletes it.
LandsEntirely ==
  \A u \in Uploads :
    answer[u] = "201" /\ NeverDeleted(folder[u]) => StoredByUpload(u)

\* README.md:595, pinned versions "are immutable by design": the same for an
\* upload that had its folder to itself from first to last.
PinnedIsImmutable ==
  \A u \in Uploads :
    answer[u] = "201" /\ ~overlapped[u] /\ NeverDeleted(folder[u])
      => StoredByUpload(u)

=============================================================================
