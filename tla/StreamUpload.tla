---------------------------- MODULE StreamUpload ----------------------------
(***************************************************************************)
(* PUT /ssh-ops/stream/file: streamUploadFile of SshOpsService.  The body  *)
(* is written to a unique partial next to the target and renamed over it   *)
(* when it is complete.  The handler is driven by events of the request,   *)
(* the reply, the SFTP write stream and the SSH connection; discard cleans *)
(* up on its own while the handler may be suspended in a stat or rename.   *)
(*                                                                         *)
(* Uploads run on one SSH connection, and write to one target.  The server *)
(* may answer outstanding requests in any order.                           *)
(***************************************************************************)
CONSTANTS
  Upload,   \* uploads; the partial of each has a name of its own
  Strict,   \* the ones with overwrite=false
  Keep,     \* the ones with onCancel=keep
  NoUpload, \* the target does not exist
  Foreign   \* the target was written by somebody else

ASSUME UploadAssumption ==
  /\ Strict \subseteq Upload /\ Keep \subseteq Upload
  /\ NoUpload # Foreign /\ NoUpload \notin Upload /\ Foreign \notin Upload

VARIABLES
  stage,     \* the await or event the handler of each upload is at
  sweep,     \* the cleanup started by discard: "none", "unlink", "end"
  settled, discarded, \* the handler's flags, as sets of uploads
  answered,  \* what the HTTP client was told
  peer,      \* the HTTP client: "there" or "gone"
  tracked,   \* the connection's set in streamUploads
  leftover,  \* partials that exist on the server
  content,   \* who wrote the target last
  sshUp      \* the SSH connection

handlerVars == <<stage, sweep, settled, discarded, answered, peer, tracked>>
serverVars  == <<leftover, content>>
uploadVars  == <<handlerVars, serverVars, sshUp>>

(* "renamed": the server has renamed, the callback is still to come.       *)
Stages  == {"idle", "prepare", "stat", "open", "body", "ending", "restat", "rename", "renamed",
            "unlink", "end"}
Replies == {"none", "ok", "failed", "cancelled", "dirty"}

(* The handlers of request, reply and write stream are attached.           *)
Attached == {"body", "ending", "restat", "rename", "renamed"}

(* Types; a cancelled upload has stopped its write stream, a settled one   *)
(* does not go on committing.                                              *)
UploadTypeOK ==
  /\ stage \in [Upload -> Stages] /\ sweep \in [Upload -> {"none", "unlink", "end"}]
  /\ settled \subseteq Upload /\ discarded \subseteq Upload
  /\ answered \in [Upload -> Replies] /\ peer \in [Upload -> {"there", "gone"}]
  /\ tracked \subseteq Upload /\ leftover \subseteq Upload
  /\ content \in Upload \union {NoUpload, Foreign} /\ sshUp \in BOOLEAN
  /\ \A u \in discarded : stage[u] \notin {"body", "ending"}
  /\ \A u \in settled : stage[u] \in {"unlink", "end"}

UploadInit ==
  /\ stage = [u \in Upload |-> "idle"] /\ sweep = [u \in Upload |-> "none"]
  /\ settled = {} /\ discarded = {}
  /\ answered = [u \in Upload |-> "none"] /\ peer = [u \in Upload |-> "there"]
  /\ tracked = {} /\ leftover = {} /\ content \in {NoUpload, Foreign} /\ sshUp = TRUE

-----------------------------------------------------------------------------
(* streamJson and the success reply: nothing is said twice, nor to a client*)
(* that is gone.                                                           *)
Told(u, code) == IF answered[u] = "none" /\ peer[u] = "there" THEN code ELSE answered[u]
Reply(u, code) == answered' = [answered EXCEPT ![u] = Told(u, code)]

Goto(u, s) == stage' = [stage EXCEPT ![u] = s]

(* The first request that needs the server: stat for overwrite=false, else *)
(* the open of the partial.                                                *)
Begin(u) ==
  /\ stage[u] = "idle"
  /\ Goto(u, "prepare")
  /\ UNCHANGED <<sweep, settled, discarded, answered, peer, tracked, serverVars, sshUp>>

Prepared(u) ==
  /\ stage[u] = "prepare"
  /\ \/ sshUp /\ Goto(u, IF u \in Strict THEN "stat" ELSE "open") /\ UNCHANGED answered
     \/ Goto(u, "end") /\ Reply(u, "failed")
  /\ UNCHANGED <<sweep, settled, discarded, peer, tracked, serverVars, sshUp>>

(* A stat that fails is taken for an absent target.                        *)
StatAnswers(u) ==
  /\ stage[u] = "stat"
  /\ \/ sshUp /\ content # NoUpload /\ Goto(u, "end") /\ Reply(u, "failed")
     \/ (content = NoUpload \/ ~sshUp) /\ Goto(u, "open") /\ UNCHANGED answered
  /\ UNCHANGED <<sweep, settled, discarded, peer, tracked, serverVars, sshUp>>

(* trackStreamUpload.                                                      *)
Track(u) == tracked' = tracked \union {u}

(* The partial is open: the handlers are attached and the upload tracked.  *)
Opened(u) ==
  /\ stage[u] = "open" /\ sshUp
  /\ leftover' = leftover \union {u}
  /\ Goto(u, "body") /\ Track(u)
  /\ UNCHANGED <<sweep, settled, discarded, answered, peer, content, sshUp>>

(* The open failed, perhaps after the server created the file.             *)
OpenFails(u) ==
  /\ stage[u] = "open"
  /\ leftover' \in {leftover, IF sshUp THEN leftover \union {u} ELSE leftover}
  /\ Goto(u, "unlink")
  /\ UNCHANGED <<sweep, settled, discarded, answered, peer, tracked, content, sshUp>>

-----------------------------------------------------------------------------
(* discard of a set of uploads; it stops the write stream, so that the     *)
(* close handler has nothing more to do unless it is already committing.   *)
Discardable == {u \in tracked : u \notin settled \union discarded}

Discard(D) ==
  /\ discarded' = discarded \union D
  /\ tracked' = tracked \ D
  /\ sweep' = [u \in Upload |-> IF u \notin D THEN sweep[u]
                                ELSE IF u \in Keep THEN "end" ELSE "unlink"]
  /\ stage' = [u \in Upload |-> IF u \in D /\ stage[u] \in {"body", "ending"} THEN "end" ELSE stage[u]]

(* The HTTP client goes away.  Before the handlers are attached nobody     *)
(* hears it; afterwards the upload is discarded.                           *)
PeerLeaves(u) ==
  /\ peer[u] = "there" /\ answered[u] = "none" /\ stage[u] # "idle"
  /\ peer' = [peer EXCEPT ![u] = "gone"]
  /\ Discard(Discardable \intersect {u})
  /\ UNCHANGED <<settled, answered, serverVars, sshUp>>

(* The idle timer of the socket: discard, then the reply is destroyed.     *)
SocketIdle(u) ==
  /\ u \in Discardable /\ peer[u] = "there"
  /\ Discard({u})
  /\ peer' = [peer EXCEPT ![u] = "gone"]
  /\ answered' = [answered EXCEPT ![u] = IF u \in Keep THEN Told(u, "cancelled") ELSE @]
  /\ UNCHANGED <<settled, serverVars, sshUp>>

(* The SSH client closes: sweepStreamUploads cancels what is tracked.      *)
SshCloses ==
  /\ sshUp /\ sshUp' = FALSE
  /\ Discard(Discardable)
  /\ answered' = [u \in Upload |-> IF u \in Discardable \intersect Keep THEN Told(u, "cancelled")
                                   ELSE answered[u]]
  /\ UNCHANGED <<settled, peer, serverVars>>

(* removeSftpPartial called by discard: it answers, fails or times out.    *)
SweepEnds(u) ==
  /\ sweep[u] = "unlink"
  /\ \/ sshUp /\ leftover' = leftover \ {u} /\ Reply(u, "cancelled")
     \/ UNCHANGED leftover /\ Reply(u, "dirty")
  /\ sweep' = [sweep EXCEPT ![u] = "end"]
  /\ UNCHANGED <<stage, settled, discarded, peer, tracked, content, sshUp>>

-----------------------------------------------------------------------------
(* finalizeIo and the two ways the handler settles.                        *)
Settle(u) == settled' = settled \union {u} /\ tracked' = tracked \ {u}

(* The body is complete and the write stream is told to end.               *)
BodyEnds(u) ==
  /\ stage[u] = "body" /\ peer[u] = "there"
  /\ Goto(u, "ending")
  /\ UNCHANGED <<sweep, settled, discarded, answered, peer, tracked, serverVars, sshUp>>

(* The write stream fails: the request is destroyed, which takes the       *)
(* socket with it while the body is incomplete; then the partial goes.     *)
WriteFails(u) ==
  /\ stage[u] \in {"body", "ending"}
  /\ Settle(u) /\ Goto(u, "unlink")
  /\ peer' = [peer EXCEPT ![u] = IF stage[u] = "body" THEN "gone" ELSE @]
  /\ UNCHANGED <<sweep, discarded, answered, serverVars, sshUp>>

(* The write stream closed after all bytes were written.                   *)
WriteCloses(u) ==
  /\ stage[u] = "ending" /\ sshUp
  /\ Goto(u, IF u \in Strict THEN "restat" ELSE "rename")
  /\ UNCHANGED <<sweep, settled, discarded, answered, peer, tracked, serverVars, sshUp>>

(* The second look at the target; discarded is not looked at again, and a  *)
(* stat that fails is again taken for an absent target.                    *)
RestatAnswers(u) ==
  /\ stage[u] = "restat"
  /\ \/ sshUp /\ content # NoUpload /\ Settle(u) /\ Goto(u, "unlink")
     \/ (content = NoUpload \/ ~sshUp) /\ Goto(u, "rename") /\ UNCHANGED <<settled, tracked>>
  /\ UNCHANGED <<sweep, discarded, answered, peer, serverVars, sshUp>>

(* The server renames the partial over the target.                         *)
Renames(u) ==
  /\ stage[u] = "rename" /\ sshUp /\ u \in leftover
  /\ leftover' = leftover \ {u} /\ content' = u
  /\ Goto(u, "renamed")
  /\ UNCHANGED <<sweep, settled, discarded, answered, peer, tracked, sshUp>>

(* The rename is refused, or its answer is lost with the connection.       *)
RenameFails(u) ==
  /\ stage[u] = "rename" \/ (stage[u] = "renamed" /\ ~sshUp)
  /\ Settle(u) /\ Goto(u, "unlink")
  /\ UNCHANGED <<sweep, discarded, answered, peer, serverVars, sshUp>>

Committed(u) ==
  /\ stage[u] = "renamed" /\ sshUp
  /\ Settle(u) /\ Goto(u, "end") /\ Reply(u, "ok")
  /\ UNCHANGED <<sweep, discarded, peer, serverVars, sshUp>>

(* removeSftpPartial of the failing handler.                               *)
UnlinkedThen(u) == leftover' = leftover \ {u} /\ Reply(u, "failed")

UnlinkEnds(u) ==
  /\ stage[u] = "unlink"
  /\ \/ sshUp /\ UnlinkedThen(u)
     \/ UNCHANGED leftover /\ Reply(u, "dirty")
  /\ Goto(u, "end")
  /\ UNCHANGED <<sweep, settled, discarded, peer, tracked, content, sshUp>>

(* Somebody else creates the target.                                       *)
ForeignWrite ==
  /\ content = NoUpload /\ content' = Foreign
  /\ UNCHANGED <<handlerVars, leftover, sshUp>>

-----------------------------------------------------------------------------
UploadStep(u) ==
  \/ Begin(u) \/ Prepared(u) \/ StatAnswers(u) \/ Opened(u) \/ OpenFails(u)
  \/ PeerLeaves(u) \/ SocketIdle(u) \/ SweepEnds(u)
  \/ BodyEnds(u) \/ WriteFails(u) \/ WriteCloses(u) \/ RestatAnswers(u)
  \/ Renames(u) \/ RenameFails(u) \/ Committed(u) \/ UnlinkEnds(u)

UploadNext == (\E u \in Upload : UploadStep(u)) \/ SshCloses \/ ForeignWrite

(* ssh2 fails what is outstanding on a closed connection and the cleanup   *)
(* has a deadline: the handler leaves every await.  Nothing forces the     *)
(* body to end, the write stream to fail or the client to leave.           *)
Awaits(u) ==
  \/ Prepared(u) \/ StatAnswers(u) \/ Opened(u) \/ OpenFails(u) \/ SweepEnds(u) \/ WriteCloses(u)
  \/ RestatAnswers(u) \/ Renames(u) \/ RenameFails(u) \/ Committed(u) \/ UnlinkEnds(u)

UploadSpec == UploadInit /\ [][UploadNext]_uploadVars /\ \A u \in Upload : WF_uploadVars(Awaits(u))

-----------------------------------------------------------------------------
(* A finished upload leaves its partial behind only if it was asked to, or *)
(* if the client was told so (or is no longer there to be told).           *)
NoSilentPartial ==
  \A u \in leftover :
    stage[u] = "end" /\ sweep[u] # "unlink" =>
      (u \in Keep /\ u \in discarded) \/ answered[u] = "dirty" \/ peer[u] = "gone"

(* The registry holds exactly the uploads a closing connection has to      *)
(* cancel: no finished one is kept, no live one is forgotten.              *)
TrackedIsLive ==
  \A u \in Upload :
    u \in tracked <=> stage[u] \in Attached /\ u \notin settled \union discarded

(* A client that is told ok was not cancelled, its partial is gone, and    *)
(* the target is its body or that of an upload that renamed after it.      *)
OkMeansCommitted ==
  \A u \in Upload : answered[u] = "ok" => u \notin leftover \union discarded /\ content \in Upload

(* An upload's books close: what is left on the server, in the registry    *)
(* and in the answer to the client are the same story.                     *)
UploadsAccounted == NoSilentPartial /\ TrackedIsLive /\ OkMeansCommitted

(* No handler outlives the SSH connection that carried it.                 *)
NoZombies ==
  ~sshUp ~> \A u \in Upload : stage[u] \in {"idle", "end"} /\ sweep[u] # "unlink"
=============================================================================
