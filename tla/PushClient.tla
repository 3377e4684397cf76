----------------------------- MODULE PushClient -----------------------------
(***************************************************************************)
(* gimme-cli push against a gimme process that starts, serves and stops:   *)
(* run, Archive and Push with its writer goroutine on one side,            *)
(* AuthenticateMiddleware and createPackage on the other, over connections *)
(* that break.                                                             *)
(*                                                                         *)
(* Every request is one run of the command; all of them publish the same   *)
(* version of the same package, which an earlier run may have published.   *)
(* An archive is Chunks pieces long.  The pipe has no buffer: a piece      *)
(* leaves the writer when the transport puts it on the connection.         *)
(* CreatePackage is reduced to its probe and its outcome; PackageStore has *)
(* the rest.                                                               *)
(***************************************************************************)
EXTENDS ServerProcess

CONSTANTS
  Chunks,       \* pieces of an archive
  Earlier,      \* a run before those of Requests
  MaxLosses     \* bound: connections that the network breaks

ASSUME PushAssumption ==
  Chunks \in Nat \ {0} /\ MaxLosses \in Nat /\ Earlier \notin Requests

VARIABLES
  cli,      \* the main goroutine: "idle", "archive", "push", "wait", "done"
  result,   \* what the command reported: "none", "ok", "failed", "killed"
  temp,     \* whether the temporary archive is on disk
  writer,   \* the writer goroutine: "none", "writing", "ended"
  sent,     \* pieces that were put on the connection
  ending,   \* how the body ended: "open", "eof", or "abort" and the like
  stage,    \* the handler: "none", "auth", "body", "probe", "store", "end"
  received, \* pieces that the handler has read
  status,   \* the answer of the handler, 0 before it
  created,  \* history: requests whose CreatePackage succeeded
  losses    \* how many connections were broken

pushing == <<cli, result, temp, writer, sent, ending, stage, received, status,
             created, losses>>

vars == <<process, pushing>>

Init ==
  /\ ServerInit
  /\ cli      = [r \in Requests |-> "idle"]
  /\ result   = [r \in Requests |-> "none"]
  /\ temp     = [r \in Requests |-> FALSE]
  /\ writer   = [r \in Requests |-> "none"]
  /\ sent     = [r \in Requests |-> 0]
  /\ ending   = [r \in Requests |-> "open"]
  /\ stage    = [r \in Requests |-> "none"]
  /\ received = [r \in Requests |-> 0]
  /\ status   = [r \in Requests |-> 0]
  /\ created  \in {{}, {Earlier}}
  /\ losses   = 0

-----------------------------------------------------------------------------
(* The command                                                             *)

\* The arguments are in order and the version is resolved.
Start(r) ==
  /\ cli[r] = "idle"
  /\ cli' = [cli EXCEPT ![r] = "archive"]
  /\ temp' = [temp EXCEPT ![r] = TRUE]
  /\ UNCHANGED <<process, result, writer, sent, ending, stage, received, status,
                 created, losses>>

\* run returns: the temporary archive is removed, the result is the exit code.
Return(r, res) ==
  /\ cli' = [cli EXCEPT ![r] = "done"]
  /\ result' = [result EXCEPT ![r] = res]
  /\ temp' = [temp EXCEPT ![r] = FALSE]

\* Archive cannot read a file, or finds none: it removes what it wrote.
ArchiveFails(r) ==
  /\ cli[r] = "archive"
  /\ Return(r, "failed")
  /\ UNCHANGED <<process, writer, sent, ending, stage, received, status, created,
                 losses>>

\* Push starts the writer goroutine.
Archive(r) ==
  /\ cli[r] = "archive"
  /\ cli' = [cli EXCEPT ![r] = "push"]
  /\ writer' = [writer EXCEPT ![r] = "writing"]
  /\ UNCHANGED <<process, result, temp, sent, ending, stage, received, status,
                 created, losses>>

\* The URL makes no request: Push returns, and nobody reads from the pipe.
NewRequestFails(r) ==
  /\ cli[r] = "push"
  /\ Return(r, "failed")
  /\ UNCHANGED <<process, writer, sent, ending, stage, received, status, created,
                 losses>>

\* client.Do finds the server and sends the header.
Connect(r) ==
  /\ cli[r] = "push"
  /\ Accept(r)
  /\ cli' = [cli EXCEPT ![r] = "wait"]
  /\ stage' = [stage EXCEPT ![r] = "auth"]
  /\ UNCHANGED <<result, temp, writer, sent, ending, received, status, created,
                 losses>>

\* The pipe's reading end is closed: the writer's next write fails.
CloseBody(r) ==
  ending' = [ending EXCEPT ![r] = IF @ = "open" THEN "abort" ELSE @]

\* Mutant of DoReturns: the body is handed over without its Close.
DoReturnsOpen(r, res) ==
  /\ Return(r, res)
  /\ UNCHANGED ending

\* client.Do returns, with an answer or an error; the transport has closed the
\* request's body.
DoReturns(r, res) ==
  /\ Return(r, res)
  /\ CloseBody(r)

\* Nobody listens.
ConnectFails(r) ==
  /\ cli[r] = "push"
  /\ DoReturns(r, "failed")
  /\ UNCHANGED <<process, writer, sent, stage, received, status, created, losses>>

\* Mutant of Answered: a version that is there already counts as published.
AnsweredRepeatable(r) == status[r] \in {201, 409}

Answered(r) == status[r] = 201

\* The answer arrives, for a body that was read or not; reading it may fail.
GetAnswer(r) ==
  /\ cli[r] = "wait" /\ status[r] # 0
  /\ \/ DoReturns(r, IF Answered(r) THEN "ok" ELSE "failed")
     \/ DoReturns(r, "failed")
  /\ UNCHANGED <<process, writer, sent, stage, received, status, created, losses>>

\* The server has answered before it read the body and closes the connection:
\* the transport may see its write fail before it sees the answer.
WriteError(r) ==
  /\ cli[r] = "wait" /\ status[r] # 0 /\ sent[r] > received[r]
  /\ DoReturns(r, "failed")
  /\ UNCHANGED <<process, writer, sent, stage, received, status, created, losses>>

\* The process of the server is gone, or the network is.
ConnectionLost(r) ==
  /\ cli[r] = "wait"
  /\ \/ handlers[r] = "cut" /\ UNCHANGED losses
     \/ losses < MaxLosses /\ losses' = losses + 1
  /\ DoReturns(r, "failed")
  /\ UNCHANGED <<process, writer, sent, stage, received, status, created>>

\* Ten minutes are over.
Timeout(r) ==
  /\ cli[r] = "wait"
  /\ DoReturns(r, "failed")
  /\ UNCHANGED <<process, writer, sent, stage, received, status, created, losses>>

\* Ctrl-C.  It ends the command while Archive runs; afterwards it cancels the
\* context of the request.
Interrupt(r) ==
  /\ \/ /\ cli[r] = "archive"
        /\ cli' = [cli EXCEPT ![r] = "done"]
        /\ result' = [result EXCEPT ![r] = "killed"]
        /\ UNCHANGED <<temp, ending>>
     \/ /\ cli[r] \in {"push", "wait"}
        /\ DoReturns(r, "failed")
  /\ UNCHANGED <<process, writer, sent, stage, received, status, created, losses>>

-----------------------------------------------------------------------------
(* The writer goroutine                                                    *)

EndBody(r, how) ==
  /\ writer' = [writer EXCEPT ![r] = "ended"]
  /\ ending' = [ending EXCEPT ![r] = how]
  /\ UNCHANGED <<process, cli, result, temp, sent, stage, received, status,
                 created, losses>>

Writing(r) == writer[r] = "writing" /\ ending[r] = "open" /\ cli[r] = "wait"

WritePiece(r) ==
  /\ Writing(r) /\ sent[r] < Chunks
  /\ sent' = [sent EXCEPT ![r] = @ + 1]
  /\ UNCHANGED <<process, cli, result, temp, writer, ending, stage, received,
                 status, created, losses>>

\* Everything is written: the last boundary, and the end of the body.
WriteLast(r) ==
  /\ Writing(r) /\ sent[r] = Chunks
  /\ EndBody(r, "eof")

\* Mutant of WriteFails: the writers are closed by defer, whatever happened.
WriteFailsDeferred(r) ==
  /\ Writing(r) /\ sent[r] < Chunks
  /\ EndBody(r, "eof")

\* The archive cannot be read: CloseWithError makes the transport give up the
\* request instead of ending the body.
WriteFails(r) ==
  /\ Writing(r) /\ sent[r] < Chunks
  /\ EndBody(r, "broken")

\* The transport got the error from the pipe.
DoAborts(r) ==
  /\ cli[r] = "wait" /\ ending[r] = "broken"
  /\ DoReturns(r, "failed")
  /\ UNCHANGED <<process, writer, sent, stage, received, status, created, losses>>

\* The pipe was closed from the other end.
WriterStops(r) ==
  /\ writer[r] = "writing" /\ ending[r] # "open"
  /\ EndBody(r, ending[r])

-----------------------------------------------------------------------------
(* The handler                                                             *)

At(r, s) == Up /\ r \in Running /\ stage[r] = s

Enter(r, s) ==
  /\ stage' = [stage EXCEPT ![r] = s]
  /\ UNCHANGED <<process, cli, result, temp, writer, sent, ending, received,
                 status, created, losses>>

Reply(r, code) ==
  /\ Respond(r)
  /\ stage' = [stage EXCEPT ![r] = "end"]
  /\ status' = [status EXCEPT ![r] = IF cli[r] = "wait" THEN code ELSE 0]
  /\ UNCHANGED <<cli, result, temp, writer, sent, ending, received, losses>>

\* AuthenticateMiddleware refuses without reading the body, or lets pass.
Authenticate(r) ==
  /\ At(r, "auth")
  /\ \/ Reply(r, 401) /\ UNCHANGED created
     \/ Enter(r, "body")

ReadPiece(r) ==
  /\ At(r, "body") /\ received[r] < sent[r]
  /\ received' = [received EXCEPT ![r] = @ + 1]
  /\ UNCHANGED <<process, cli, result, temp, writer, sent, ending, stage, status,
                 created, losses>>

\* MaxBytesReader stops at upload.max_size.
TooLarge(r) ==
  /\ At(r, "body") /\ received[r] > 0
  /\ Reply(r, 413) /\ UNCHANGED created

\* FormFile has the whole form, which is then checked.
BodyRead(r) ==
  /\ At(r, "body") /\ ending[r] = "eof" /\ received[r] = sent[r]
  /\ \/ Reply(r, 400) /\ UNCHANGED created
     \/ Enter(r, "probe")

\* The connection ended before the body did: unexpected EOF.
BodyBreaks(r) ==
  /\ At(r, "body") /\ cli[r] = "done" /\ ending[r] # "eof"
  /\ Reply(r, 400) /\ UNCHANGED created

\* ObjectExists.
Probe(r) ==
  /\ At(r, "probe")
  /\ \/ created # {} /\ Reply(r, 409) /\ UNCHANGED created
     \/ created = {} /\ Enter(r, "store")

\* Everything is stored, or the upload fails and is rolled back.
Store(r) ==
  /\ At(r, "store")
  /\ \/ Reply(r, 201) /\ created' = created \union {r}
     \/ Reply(r, 500) /\ UNCHANGED created

-----------------------------------------------------------------------------
CommandStep(r) ==
  \/ ArchiveFails(r) \/ Archive(r) \/ NewRequestFails(r) \/ Connect(r)
  \/ ConnectFails(r) \/ GetAnswer(r) \/ WriteError(r) \/ ConnectionLost(r)
  \/ Timeout(r) \/ Interrupt(r) \/ DoAborts(r)

WriterStep(r) == WritePiece(r) \/ WriteLast(r) \/ WriteFails(r) \/ WriterStops(r)

HandlerStep(r) ==
  \/ Authenticate(r) \/ ReadPiece(r) \/ TooLarge(r) \/ BodyRead(r)
  \/ BodyBreaks(r) \/ Probe(r) \/ Store(r)

Next ==
  \/ ServerStep /\ UNCHANGED pushing
  \/ \E r \in Requests :
       Start(r) \/ CommandStep(r) \/ WriterStep(r) \/ HandlerStep(r)

\* The processes run on and their timers go off.  A handler need not: the object
\* store may never answer it.
Fairness ==
  /\ WF_vars(MainStep /\ UNCHANGED pushing)
  /\ \A r \in Requests :
       /\ WF_vars(Archive(r) \/ Connect(r) \/ ConnectFails(r) \/ Timeout(r))
       /\ WF_vars(WriterStep(r))

Spec == Init /\ [][Next]_vars

FairSpec == Spec /\ Fairness

-----------------------------------------------------------------------------
(* Properties                                                              *)

\* The command reports success only for a version it published itself, with all
\* of its archive: not for an answer that got lost, not for one that came before
\* the body was read, and not for a version that an earlier run published.
OkMeansPublished ==
  \A r \in Requests :
    result[r] = "ok" => r \in created /\ received[r] = Chunks

\* A handler takes nothing for the archive but the whole of it, whenever the
\* reading of the file, the connection or the command breaks off
\* (push.go, CloseWithError).
WholeArchiveOrNone ==
  \A r \in Requests :
    stage[r] \in {"probe", "store"} \/ r \in created => received[r] = Chunks

\* A run that sends its request ends, with its writer goroutine and without its
\* temporary archive, whoever answers what and when, and also when the server
\* hangs, stops or is killed (main.go, the deferred Remove and the client's Timeout).
\* A URL that makes no request leaves the writer behind, until the process ends.
CommandEnds ==
  \A r \in Requests :
    cli[r] = "wait" ~> cli[r] = "done" /\ writer[r] = "ended" /\ ~temp[r]

=============================================================================
