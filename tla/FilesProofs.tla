---------------------------- MODULE FilesProofs ----------------------------
(***************************************************************************)
(* Theorems about the file transfers, for every number of uploads,         *)
(* processes, instances, tasks and blocks:                                 *)
(*   - what a streamed upload leaves on the server, in the registry of its *)
(*     connection and in the answer to its client agrees, in whatever order*)
(*     client, write stream, server and connection end;                    *)
(*   - a resumable task has one writer, and its partial an entry in the    *)
(*     journal, whatever processes contend for the journal or die;         *)
(*   - the joined system of the three transfer modules keeps its types.    *)
(***************************************************************************)
EXTENDS MCFiles, TLAPS

-----------------------------------------------------------------------------
(* SftpPipeline.                                                           *)

(***************************************************************************)
(* The inductive invariant: an acknowledged block is on the server and     *)
(* counted, either in the prefix or beyond it; what is counted has been    *)
(* acknowledged; and success needs the whole file.                         *)
(***************************************************************************)
PrefixInv ==
  /\ progress = committed
  /\ \A b \in Block : block[b] = "acked" => b \in landed
  /\ \A b \in Start..(committed - 1) : block[b] = "acked"
  /\ phase = "ok" => committed = Size

PipelineInv == PipelineTypeOK /\ PrefixInv

LEMMA PipelineStarts == PipelineInit => PipelineInv
<1> SUFFICES ASSUME PipelineInit PROVE PipelineInv
  OBVIOUS
<1>1. PipelineTypeOK
  <2>1. stopped \in BOOLEAN /\ late \in BOOLEAN
    BY DEF PipelineInit
  <2>2. block \in [Block -> {"todo", "read", "sent", "quit", "acked"}]
    BY DEF PipelineInit
  <2>3. \A b \in Block : block[b] = "todo" <=> b >= next
    BY PipelineAssumption DEF PipelineInit, Block
  <2>4. Start \in Start..Size
    BY PipelineAssumption
  <2> QED BY <2>1, <2>2, <2>3, <2>4 DEF PipelineInit, PipelineTypeOK
<1>2. PrefixInv
  BY PipelineAssumption DEF PipelineInit, PrefixInv, Block
<1> QED BY <1>1, <1>2 DEF PipelineInv

LEMMA LaunchKeeps == PipelineInv /\ Launch => PipelineInv'
<1> SUFFICES ASSUME PipelineInv, Launch PROVE PipelineInv'
  OBVIOUS
<1> USE PipelineAssumption DEF PipelineInv, Block
<1>1. next \in Block /\ block[next] = "todo"
  BY DEF Launch, PipelineTypeOK
<1>2. PipelineTypeOK'
  BY <1>1 DEF Launch, PipelineTypeOK
<1>3. PrefixInv'
  BY <1>1 DEF Launch, PipelineTypeOK, PrefixInv
<1> QED BY <1>2, <1>3

LEMMA AckedKeeps == ASSUME NEW b \in Block, PipelineInv, Acked(b) PROVE PipelineInv'
<1> USE PipelineAssumption DEF PipelineInv, Block
<1>1. CASE finished \/ stopped
  <2>1. /\ block' = [block EXCEPT ![b] = "quit"] /\ block[b] = "sent"
        /\ UNCHANGED <<phase, next, completed, committed, progress, stopped, late, landed, handle>>
    BY <1>1 DEF Acked
  <2>2. PipelineTypeOK'
    BY <2>1 DEF PipelineTypeOK
  <2>3. PrefixInv'
    BY <2>1 DEF PipelineTypeOK, PrefixInv
  <2> QED BY <2>2, <2>3
<1>2. CASE ~(finished \/ stopped)
  <2> DEFINE done == completed \union {b}
  <2>1. PICK c \in committed..Size :
          /\ PrefixEnd(c, done)
          /\ committed' = c /\ progress' = c
          /\ completed' = {d \in done : d >= c}
    BY <1>2 DEF Acked, Advance
  <2>2. /\ block' = [block EXCEPT ![b] = "acked"] /\ b \in landed /\ block[b] = "sent"
        /\ UNCHANGED <<phase, next, stopped, late, landed, handle>>
    BY <1>2 DEF Acked
  <2>3. c \in Start..Size /\ (\A d \in done : d < Size)
    BY DEF PipelineTypeOK
  <2>4. \A d \in completed' : d > committed' /\ block'[d] = "acked"
    BY <2>1, <2>2, <2>3 DEF PrefixEnd, PipelineTypeOK
  <2>5. PipelineTypeOK'
    BY <2>1, <2>2, <2>3, <2>4 DEF PipelineTypeOK
  <2>6. \A d \in Start..(committed' - 1) : block'[d] = "acked"
    BY <2>1, <2>2 DEF PrefixEnd, PipelineTypeOK, PrefixInv
  <2>7. PrefixInv'
    BY <1>2, <2>1, <2>2, <2>6 DEF PipelineTypeOK, PrefixInv, finished
  <2> QED BY <2>5, <2>7
<1> QED BY <1>1, <1>2

LEMMA PipelineSteps == PipelineInv /\ [PipelineNext]_pipeVars => PipelineInv'
<1> SUFFICES ASSUME PipelineInv, [PipelineNext]_pipeVars PROVE PipelineInv'
  OBVIOUS
<1> USE PipelineAssumption DEF PipelineInv, Block
<1>1. CASE Opens
  BY <1>1 DEF Opens, PipelineTypeOK, PrefixInv
<1>2. CASE OpenGivenUp
  BY <1>2 DEF OpenGivenUp, PipelineTypeOK, PrefixInv
<1>3. CASE LateReply
  BY <1>3 DEF LateReply, PipelineTypeOK, PrefixInv
<1>4. CASE Launch
  BY <1>4, LaunchKeeps
<1>5. CASE Succeeds
  BY <1>5 DEF Succeeds, AllWritten, PipelineTypeOK, PrefixInv
<1>6. CASE Throws
  BY <1>6 DEF Throws, PipelineTypeOK, PrefixInv
<1>7. CASE Closes
  BY <1>7 DEF Closes, PipelineTypeOK, PrefixInv
<1>8. CASE CloseArrives
  BY <1>8 DEF CloseArrives, PipelineTypeOK, PrefixInv
<1>9. ASSUME NEW b \in Block, ReadDone(b) PROVE PipelineInv'
  BY <1>9 DEF ReadDone, AfterRead, PipelineTypeOK, PrefixInv
<1>10. ASSUME NEW b \in Block, ServerWrites(b) PROVE PipelineInv'
  BY <1>10 DEF ServerWrites, PipelineTypeOK, PrefixInv
<1>11. ASSUME NEW b \in Block, Acked(b) PROVE PipelineInv'
  BY <1>11, AckedKeeps
<1>12. ASSUME NEW b \in Block, BlockFails(b) PROVE PipelineInv'
  BY <1>12 DEF BlockFails, PipelineTypeOK, PrefixInv
<1>13. CASE UNCHANGED pipeVars
  BY <1>13 DEF pipeVars, PipelineTypeOK, PrefixInv
<1> QED
  BY <1>1, <1>2, <1>3, <1>4, <1>5, <1>6, <1>7, <1>8, <1>9, <1>10, <1>11, <1>12, <1>13
  DEF PipelineNext

(* The bookkeeping of uploadPipeline is consistent in every reachable      *)
(* state: an inductive strengthening of its types.                         *)
THEOREM PipelineInvariant == PipelineSpec => []PipelineInv
<1>1. PipelineInit => PipelineInv
  BY PipelineStarts
<1>2. PipelineInv /\ [PipelineNext]_pipeVars => PipelineInv'
  BY PipelineSteps
<1> QED BY <1>1, <1>2, PTL DEF PipelineSpec

(* The checkpoint reported by onProgress never runs ahead of the server,   *)
(* in whatever order the writes are acknowledged.                          *)
THEOREM CheckpointIsSound == PipelineSpec => []ProgressIsOnServer
<1>1. PipelineInv => ProgressIsOnServer
  BY PipelineAssumption DEF PipelineInv, PipelineTypeOK, PrefixInv, ProgressIsOnServer, Block
<1> QED BY <1>1, PipelineInvariant, PTL

(* uploadPipeline returns only after the server has written the whole file *)
(* and no request is in flight.                                            *)
THEOREM SuccessIsComplete == PipelineSpec => []OkMeansWhole
<1>1. PipelineInv => OkMeansWhole
  <2> SUFFICES ASSUME PipelineInv, phase = "ok" PROVE landed = Block /\ pending = {}
    BY DEF OkMeansWhole
  <2>1. \A b \in Block : block[b] = "acked"
    BY PipelineAssumption DEF PipelineInv, PipelineTypeOK, PrefixInv, Block
  <2>2. Block \subseteq landed
    BY <2>1 DEF PipelineInv, PrefixInv
  <2> QED BY <2>1, <2>2 DEF PipelineInv, PipelineTypeOK, pending
<1> QED BY <1>1, PipelineInvariant, PTL

(* Progress on the way and success at the end are both true of the server. *)
THEOREM ReportsAreTrue == PipelineSpec => []PipelineSound
BY CheckpointIsSound, SuccessIsComplete, PTL DEF PipelineSound

-----------------------------------------------------------------------------
(* StreamUpload.  An upload knows nothing of the others but the content of *)
(* the target, so that the invariant is one of a single upload.            *)

(* Before the partial is open nobody can have discarded the upload.        *)
Unopened(u) ==
  stage[u] \in {"idle", "prepare", "stat", "open"} => u \notin leftover \union discarded

(* A rename that happened took the partial and left a body of ours.        *)
RenameTook(u) ==
  stage[u] = "renamed" => u \notin leftover /\ content \in Upload

(* Nobody waits for the answer of a discarded upload, unless the connection*)
(* discarded it, and then the server can no longer commit.                 *)
DiscardHasReason(u) ==
  /\ u \in discarded => peer[u] = "gone" \/ ~sshUp
  /\ sweep[u] = "unlink" => u \in discarded

(* What each answer means.                                                 *)
AnswerMeans(u) ==
  /\ answered[u] = "ok" =>
       stage[u] = "end" /\ u \notin leftover \union discarded /\ content \in Upload
  /\ answered[u] = "failed" => stage[u] = "end" /\ u \notin leftover
  /\ answered[u] = "cancelled" => u \in Keep /\ u \in discarded

(* The two properties of one upload the others are needed for.             *)
PartialReported(u) ==
  u \in leftover /\ stage[u] = "end" /\ sweep[u] # "unlink" =>
    (u \in Keep /\ u \in discarded) \/ answered[u] = "dirty" \/ peer[u] = "gone"
TrackedLive(u) ==
  u \in tracked <=> stage[u] \in Attached /\ u \notin settled \union discarded

OneUpload(u) ==
  /\ Unopened(u) /\ RenameTook(u) /\ DiscardHasReason(u) /\ AnswerMeans(u)
  /\ PartialReported(u) /\ TrackedLive(u)

UploadInv == UploadTypeOK /\ \A u \in Upload : OneUpload(u)

-----------------------------------------------------------------------------
(* TransferTasks.                                                          *)

(* An entry that says: running, and mine.                                  *)
Mine(r, i) == r # NoRecord /\ r.status = "running" /\ r.owner = i

(* The kinds of callers of persist that wait for their turn to go on.      *)
Turns == {"claim", "dclaim", "dfinal"}

(* A caller that goes on after persist is at that very wait, and no task   *)
(* has two of them: f says where the calls of the queue's instance are.    *)
Serves(q, f) ==
  \A k \in 1..Len(q) :
    q[k].kind \in Turns =>
      /\ f[q[k].id] = q[k].kind
      /\ \A l \in 1..Len(q) : q[l].kind \in Turns /\ q[l].id = q[k].id => l = k
QueueServes(i) == Serves(queue[i], pc[i])

(* A call at work has a running task, of an instance that is there, and    *)
(* that instance counts the task as its own until it has removed it.       *)
TaskRuns(i, t) ==
  /\ pc[i][t] # "idle" => task[i][t] = "running"
  /\ task[i][t] = "running" => Active(i) /\ i \in loaded
  /\ pc[i][t] \notin {"idle", "dfinal"} => t \in owned[i]
  /\ pc[i][t] = "dfinal" => t \notin owned[i]
  /\ t \in removed[i] => pc[i][t] = "dfinal"
  /\ t \in owned[i] => task[i][t] # "absent"
  /\ i \notin loaded => task[i][t] = "absent"

(* Who is not there, not yet or no longer, has no books.                   *)
Bookless(i) ==
  inst[i] \in {"new", "crashed"} =>
    queue[i] = <<>> /\ owned[i] = {} /\ removed[i] = {} /\ (inst[i] = "new" => i \notin loaded)

(* Only ids that were given out are anywhere.                              *)
Given(t) ==
  t \notin used =>
    /\ journal[t] = NoRecord /\ \A i \in Inst : task[i][t] = "absent"
    /\ \A i \in Inst : snap[i] # NoSnap => snap[i][t] = NoRecord

(* The journal names the instance at work, and so does the journal that is *)
(* being written, whoever writes it.                                       *)
WorkIsClaimed(i, t) ==
  AtWork(i, t) => /\ Mine(journal[t], i)
                  /\ \A j \in Inst : snap[j] # NoSnap => Mine(snap[j][t], i)

(* The claim that is being journaled is in the journal to be.              *)
ClaimIsMerged(i) ==
  snap[i] # NoSnap /\ Head(queue[i]).kind \in {"claim", "dclaim"} =>
    Mine(snap[i][Head(queue[i]).id], i)

(* What an instance is about to take out of the journal is still its own   *)
(* there, and has no partial any more.                                     *)
Leaves(i, t) == (t \in owned[i] /\ task[i][t] = "done") \/ t \in removed[i]
LeavesClean(i, t) ==
  Leaves(i, t) => /\ t \notin partial /\ Mine(journal[t], i)
                  /\ \A j \in Inst \ {i} : snap[j] # NoSnap => Mine(snap[j][t], i)

(* A partial has an entry, in the next journal too.                        *)
PartialHasEntry(t) ==
  t \in partial =>
    journal[t] # NoRecord /\ \A j \in Inst : snap[j] # NoSnap => snap[j][t] # NoRecord

TaskBooks ==
  /\ \A i \in Inst : QueueServes(i) /\ Bookless(i) /\ ClaimIsMerged(i)
  /\ \A i \in Inst, t \in Task : TaskRuns(i, t) /\ WorkIsClaimed(i, t)
  /\ \A t \in Task : Given(t)

(* What one process promises while it has one instance at a time.          *)
NothingOrphaned ==
  OnePerProcess => /\ \A i \in Inst, t \in Task : LeavesClean(i, t)
                   /\ \A t \in Task : PartialHasEntry(t)

TransferInv == TransferTypeOK /\ TaskBooks /\ NothingOrphaned

-----------------------------------------------------------------------------
LEMMA UploadBegins == UploadInit => UploadInv
<1> SUFFICES ASSUME UploadInit PROVE UploadInv
  OBVIOUS
<1>1. UploadTypeOK
  BY UploadAssumption DEF UploadInit, UploadTypeOK, Stages, Replies
<1>2. ASSUME NEW u \in Upload PROVE OneUpload(u)
  BY DEF UploadInit, OneUpload, Unopened, RenameTook, DiscardHasReason, AnswerMeans, PartialReported,
         TrackedLive, Attached
<1> QED BY <1>1, <1>2 DEF UploadInv

(* Nobody is told twice.                                                   *)
LEMMA ToldOnce ==
  ASSUME NEW u \in Upload, NEW code, UploadTypeOK
  PROVE  /\ answered[u] # "none" \/ peer[u] = "gone" => Told(u, code) = answered[u]
         /\ answered[u] = "none" /\ peer[u] = "there" => Told(u, code) = code
  BY DEF Told, UploadTypeOK

(* The steps of the handler that tell the client nothing.                  *)
LEMMA HandlerKeepsUpload ==
  ASSUME UploadInv, NEW v \in Upload,
         \/ Begin(v) \/ Opened(v) \/ OpenFails(v) \/ BodyEnds(v) \/ WriteFails(v) \/ WriteCloses(v)
         \/ RestatAnswers(v) \/ Renames(v) \/ RenameFails(v)
  PROVE  UploadInv'
<1> USE UploadAssumption DEF UploadInv, UploadTypeOK, Stages, Replies, Goto, Settle, Track, serverVars
<1>1. UploadTypeOK'
  <2>1. CASE Begin(v) \/ Opened(v) \/ OpenFails(v) \/ BodyEnds(v)
    BY <2>1 DEF Begin, Opened, OpenFails, BodyEnds, OneUpload, Unopened
  <2>2. CASE WriteFails(v)
    BY <2>2 DEF WriteFails
  <2>3. CASE WriteCloses(v) \/ RestatAnswers(v)
    BY <2>3 DEF WriteCloses, RestatAnswers
  <2>4. CASE Renames(v) \/ RenameFails(v)
    BY <2>4 DEF Renames, RenameFails
  <2> QED BY <2>1, <2>2, <2>3, <2>4
<1>2. ASSUME NEW u \in Upload PROVE OneUpload(u)'
  <2> USE DEF OneUpload, Unopened, RenameTook, DiscardHasReason, AnswerMeans, PartialReported,
              TrackedLive, Attached
  <2>1. OneUpload(u) /\ OneUpload(v)
    OBVIOUS
  <2>2. CASE Begin(v) \/ Opened(v) \/ OpenFails(v) \/ BodyEnds(v)
    BY <2>1, <2>2 DEF Begin, Opened, OpenFails, BodyEnds
  <2>3. CASE WriteFails(v)
    BY <2>1, <2>3 DEF WriteFails
  <2>4. CASE WriteCloses(v) \/ RestatAnswers(v)
    BY <2>1, <2>4 DEF WriteCloses, RestatAnswers
  <2>5. CASE Renames(v) \/ RenameFails(v)
    BY <2>1, <2>5 DEF Renames, RenameFails
  <2> QED BY <2>2, <2>3, <2>4, <2>5
<1> QED BY <1>1, <1>2

(* The steps that end with an answer.                                      *)
LEMMA AnswersKeepUpload ==
  ASSUME UploadInv, NEW v \in Upload,
         Prepared(v) \/ StatAnswers(v) \/ SweepEnds(v) \/ Committed(v) \/ UnlinkEnds(v)
  PROVE  UploadInv'
<1> USE UploadAssumption DEF UploadInv, UploadTypeOK, Stages, Replies, Goto, Settle, Reply, serverVars
<1> DEFINE ok == Told(v, "ok")
           failed == Told(v, "failed")
           cancelled == Told(v, "cancelled")
           dirty == Told(v, "dirty")
           AsBefore == answered[v] # "none" \/ peer[v] = "gone"
<1>0. /\ AsBefore => /\ ok = answered[v] /\ failed = answered[v]
                     /\ cancelled = answered[v] /\ dirty = answered[v]
      /\ ~AsBefore => /\ ok = "ok" /\ failed = "failed" /\ cancelled = "cancelled" /\ dirty = "dirty"
                      /\ answered[v] = "none"
      /\ {ok, failed, cancelled, dirty} \subseteq Replies
  BY ToldOnce
<1>00. AsBefore <=> answered[v] # "none" \/ peer[v] = "gone"
  OBVIOUS
<1>02. \/ /\ stage[v] \in {"prepare", "stat"}
          /\ stage' = [stage EXCEPT ![v] = IF v \in Strict /\ stage[v] = "prepare" THEN "stat" ELSE "open"]
          /\ UNCHANGED answered
          /\ UNCHANGED <<sweep, settled, discarded, peer, tracked, leftover, content, sshUp>>
      \/ /\ stage[v] \in {"prepare", "stat"}
         /\ stage' = [stage EXCEPT ![v] = "end"] /\ answered' = [answered EXCEPT ![v] = failed]
         /\ UNCHANGED <<sweep, settled, discarded, peer, tracked, leftover, content, sshUp>>
      \/ /\ sweep[v] = "unlink" /\ sweep' = [sweep EXCEPT ![v] = "end"]
         /\ \/ sshUp /\ leftover' = leftover \ {v} /\ answered' = [answered EXCEPT ![v] = cancelled]
            \/ UNCHANGED leftover /\ answered' = [answered EXCEPT ![v] = dirty]
         /\ UNCHANGED <<stage, settled, discarded, peer, tracked, content, sshUp>>
      \/ /\ stage[v] = "renamed" /\ sshUp /\ stage' = [stage EXCEPT ![v] = "end"]
         /\ settled' = settled \union {v} /\ tracked' = tracked \ {v}
         /\ answered' = [answered EXCEPT ![v] = ok]
         /\ UNCHANGED <<sweep, discarded, peer, leftover, content, sshUp>>
      \/ /\ stage[v] = "unlink" /\ stage' = [stage EXCEPT ![v] = "end"]
         /\ \/ leftover' = leftover \ {v} /\ answered' = [answered EXCEPT ![v] = failed]
            \/ UNCHANGED leftover /\ answered' = [answered EXCEPT ![v] = dirty]
         /\ UNCHANGED <<sweep, settled, discarded, peer, tracked, content, sshUp>>
  BY DEF Prepared, StatAnswers, SweepEnds, Committed, UnlinkEnds, UnlinkedThen
<1> HIDE DEF ok, failed, cancelled, dirty, AsBefore, Reply
<1>1. UploadTypeOK'
  BY <1>0, <1>02
<1>2. ASSUME NEW u \in Upload PROVE OneUpload(u)'
  <2> USE DEF OneUpload, Unopened, RenameTook, DiscardHasReason, AnswerMeans, PartialReported,
              TrackedLive, Attached
  <2>1. OneUpload(u) /\ OneUpload(v)
    OBVIOUS
  <2>2. CASE u # v
    BY <1>02, <2>1, <2>2
  <2>3. CASE u = v
    BY <1>0, <1>00, <1>02, <2>1, <2>3
  <2> QED BY <2>2, <2>3
<1> QED BY <1>1, <1>2

(* What discards: the client leaves, its socket idles, SSH closes.         *)
LEMMA DiscardsKeepUpload ==
  ASSUME UploadInv,
         (\E v \in Upload : PeerLeaves(v) \/ SocketIdle(v)) \/ SshCloses
  PROVE  UploadInv'
<1> USE UploadAssumption DEF UploadInv, UploadTypeOK, Stages, Replies, serverVars
<1>0. PICK D \in SUBSET Discardable :
        /\ Discard(D)
        /\ UNCHANGED <<settled, leftover, content>>
        /\ peer' \in [Upload -> {"there", "gone"}] /\ answered' \in [Upload -> Replies]
        /\ sshUp' \in BOOLEAN /\ (sshUp' => sshUp)
        /\ \A u \in Upload : /\ peer[u] = "gone" => peer'[u] = "gone"
                             /\ u \in D => peer'[u] = "gone" \/ ~sshUp'
                             /\ \/ answered'[u] = answered[u]
                                \/ u \in D \intersect Keep /\ answered[u] = "none" /\ answered'[u] = "cancelled"
  <2>1. ASSUME NEW v \in Upload, PeerLeaves(v) 
        PROVE  \E D \in SUBSET Discardable :
                 /\ Discard(D)
                 /\ UNCHANGED <<settled, leftover, content>>
                 /\ peer' \in [Upload -> {"there", "gone"}] /\ answered' \in [Upload -> Replies]
                 /\ sshUp' \in BOOLEAN /\ (sshUp' => sshUp)
                 /\ \A u \in Upload : /\ peer[u] = "gone" => peer'[u] = "gone"
                                      /\ u \in D => peer'[u] = "gone" \/ ~sshUp'
                                      /\ \/ answered'[u] = answered[u]
                                         \/ u \in D \intersect Keep /\ answered[u] = "none" /\ answered'[u] = "cancelled"
    <3> WITNESS Discardable \intersect {v} \in SUBSET Discardable
    <3> QED BY <2>1 DEF PeerLeaves
  <2>2. ASSUME NEW v \in Upload, SocketIdle(v) 
        PROVE  \E D \in SUBSET Discardable :
                 /\ Discard(D)
                 /\ UNCHANGED <<settled, leftover, content>>
                 /\ peer' \in [Upload -> {"there", "gone"}] /\ answered' \in [Upload -> Replies]
                 /\ sshUp' \in BOOLEAN /\ (sshUp' => sshUp)
                 /\ \A u \in Upload : /\ peer[u] = "gone" => peer'[u] = "gone"
                                      /\ u \in D => peer'[u] = "gone" \/ ~sshUp'
                                      /\ \/ answered'[u] = answered[u]
                                         \/ u \in D \intersect Keep /\ answered[u] = "none" /\ answered'[u] = "cancelled"
    <3> {v} \in SUBSET Discardable
      BY <2>2 DEF SocketIdle
    <3> WITNESS {v} \in SUBSET Discardable
    <3> QED BY <2>2 DEF SocketIdle, Told
  <2>3. ASSUME SshCloses
        PROVE  \E D \in SUBSET Discardable :
                 /\ Discard(D)
                 /\ UNCHANGED <<settled, leftover, content>>
                 /\ peer' \in [Upload -> {"there", "gone"}] /\ answered' \in [Upload -> Replies]
                 /\ sshUp' \in BOOLEAN /\ (sshUp' => sshUp)
                 /\ \A u \in Upload : /\ peer[u] = "gone" => peer'[u] = "gone"
                                      /\ u \in D => peer'[u] = "gone" \/ ~sshUp'
                                      /\ \/ answered'[u] = answered[u]
                                         \/ u \in D \intersect Keep /\ answered[u] = "none" /\ answered'[u] = "cancelled"
    <3> WITNESS Discardable \in SUBSET Discardable
    <3> QED BY <2>3 DEF SshCloses, Told
  <2> QED BY <2>1, <2>2, <2>3
<1>1. /\ D \subseteq tracked /\ \A u \in D : u \notin settled \union discarded /\ stage[u] \in Attached
      /\ \A u \in D : stage[u] \notin {"idle", "prepare", "stat", "open", "unlink", "end"}
  BY DEF Discardable, OneUpload, TrackedLive, Attached
<1>2. /\ discarded' = discarded \union D /\ tracked' = tracked \ D
      /\ \A u \in Upload : sweep'[u] = IF u \notin D THEN sweep[u]
                                       ELSE IF u \in Keep THEN "end" ELSE "unlink"
      /\ \A u \in Upload : stage'[u] = IF u \in D /\ stage[u] \in {"body", "ending"} THEN "end" ELSE stage[u]
  BY <1>0 DEF Discard
<1>3. stage' \in [Upload -> Stages] /\ sweep' \in [Upload -> {"none", "unlink", "end"}]
  BY <1>0 DEF Discard
<1>4. UploadTypeOK'
  BY <1>0, <1>1, <1>2, <1>3
<1>5. ASSUME NEW u \in Upload PROVE OneUpload(u)'
  <2> USE DEF OneUpload, Unopened, RenameTook, DiscardHasReason, AnswerMeans, PartialReported,
              TrackedLive, Attached
  <2>1. CASE u \in D
    BY <1>0, <1>1, <1>2, <2>1
  <2>2. CASE u \notin D
    BY <1>0, <1>1, <1>2, <2>2
  <2> QED BY <2>1, <2>2
<1> QED BY <1>4, <1>5

LEMMA UploadKeeps == UploadInv /\ [UploadNext]_uploadVars => UploadInv'
<1> SUFFICES ASSUME UploadInv, [UploadNext]_uploadVars PROVE UploadInv'
  OBVIOUS
<1>1. ASSUME NEW v \in Upload, UploadStep(v) PROVE UploadInv'
  BY <1>1, HandlerKeepsUpload, AnswersKeepUpload, DiscardsKeepUpload DEF UploadStep
<1>2. CASE SshCloses
  BY <1>2, DiscardsKeepUpload
<1>3. CASE ForeignWrite
  BY <1>3, UploadAssumption
  DEF ForeignWrite, handlerVars, UploadInv, UploadTypeOK, OneUpload, Unopened, RenameTook,
      DiscardHasReason, AnswerMeans, PartialReported, TrackedLive
<1>4. CASE UNCHANGED uploadVars
  BY <1>4 DEF uploadVars, handlerVars, serverVars, UploadInv, UploadTypeOK, OneUpload, Unopened,
              RenameTook, DiscardHasReason, AnswerMeans, PartialReported, TrackedLive
<1> QED BY <1>1, <1>2, <1>3, <1>4 DEF UploadNext

(* What the server, the registry, the handler and the client hold of an    *)
(* upload agrees in every order of their events.                           *)
THEOREM UploadInvariant == UploadSpec => []UploadInv
BY UploadBegins, UploadKeeps, PTL DEF UploadSpec

LEMMA UploadInvMeans == UploadInv => UploadsAccounted
BY DEF UploadInv, UploadTypeOK, OneUpload, AnswerMeans, PartialReported, TrackedLive, UploadsAccounted,
       NoSilentPartial, TrackedIsLive, OkMeansCommitted

(* A partial is left behind only by request or with a word to the client;  *)
(* the registry holds exactly the live uploads; ok means committed.        *)
THEOREM UploadsAreAccounted == UploadSpec => []UploadsAccounted
BY UploadInvariant, UploadInvMeans, PTL

-----------------------------------------------------------------------------
(* The queue of persist.                                                   *)
Kinds == {"claim", "final", "dclaim", "dfinal", "undo"}
Places == {"idle", "hash", "claim", "xfer", "sent", "dclaim", "dunlink", "dfinal"}
Entry(t, k) == [id |-> t, kind |-> k]

LEMMA QueueHolds ==
  ASSUME NEW q \in Seq(Waiting), NEW k \in 1..Len(q)
  PROVE  q[k] \in Waiting /\ q[k].id \in Task /\ q[k].kind \in Kinds
<1>1. q[k] \in Waiting
  <2> HIDE DEF Waiting
  <2> QED OBVIOUS
<1> QED BY <1>1 DEF Waiting, Kinds

LEMMA QueueAppend ==
  ASSUME NEW q \in Seq(Waiting), NEW w \in Waiting
  PROVE  /\ Append(q, w) \in Seq(Waiting) /\ Append(q, w) # <<>>
         /\ Len(Append(q, w)) = Len(q) + 1
         /\ \A k \in 1..Len(q) : Append(q, w)[k] = q[k]
         /\ Append(q, w)[Len(q) + 1] = w
         /\ q # <<>> => Head(Append(q, w)) = Head(q)
<1> HIDE DEF Waiting
<1>1. PICK n \in Nat : n = Len(q)
  OBVIOUS
<1>2. /\ Append(q, w) \in Seq(Waiting) /\ Len(Append(q, w)) = n + 1
      /\ \A k \in 1..n : Append(q, w)[k] = q[k]
      /\ Append(q, w)[n + 1] = w
  BY <1>1
<1>3. Append(q, w) # <<>>
  BY <1>1, <1>2
<1>4. q # <<>> => n # 0
  BY <1>1
<1>5. q # <<>> => Head(Append(q, w)) = Head(q)
  <2> SUFFICES ASSUME q # <<>> PROVE Head(Append(q, w)) = Head(q)
    OBVIOUS
  <2>1. Head(q) = q[1] /\ Head(Append(q, w)) = Append(q, w)[1] /\ 1 \in 1..n
    BY <1>1, <1>2, <1>3, <1>4
  <2> QED BY <1>2, <2>1
<1> QED BY <1>1, <1>2, <1>3, <1>5

LEMMA QueueTail ==
  ASSUME NEW q \in Seq(Waiting), q # <<>>
  PROVE  /\ Head(q) = q[1] /\ Head(q) \in Waiting /\ Len(q) \in Nat \ {0} /\ 1 \in 1..Len(q)
         /\ Tail(q) \in Seq(Waiting) /\ Len(Tail(q)) = Len(q) - 1
         /\ \A k \in 1..(Len(q) - 1) : Tail(q)[k] = q[k + 1]
<1> HIDE DEF Waiting
<1>1. PICK n \in Nat : n = Len(q)
  OBVIOUS
<1>2. n # 0
  BY <1>1
<1>3. Head(q) = q[1] /\ q[1] \in Waiting
  BY <1>1, <1>2
<1>4. Tail(q) \in Seq(Waiting) /\ Len(Tail(q)) = n - 1 /\ \A k \in 1..(n - 1) : Tail(q)[k] = q[k + 1]
  BY <1>1, <1>2
<1> QED BY <1>1, <1>2, <1>3, <1>4

LEMMA EntryTyped ==
  ASSUME NEW t \in Task, NEW k \in Kinds
  PROVE  Entry(t, k) \in Waiting /\ Entry(t, k).id = t /\ Entry(t, k).kind = k
  BY DEF Entry, Waiting, Kinds

(* A call that is at no wait moves to another place that is none.          *)
LEMMA ServesMove ==
  ASSUME NEW q \in Seq(Waiting), NEW f \in [Task -> Places], Serves(q, f),
         NEW t \in Task, f[t] \notin Turns, NEW p \in Places
  PROVE  Serves(q, [f EXCEPT ![t] = p])
<1> SUFFICES ASSUME NEW k \in 1..Len(q), q[k].kind \in Turns
             PROVE  /\ [f EXCEPT ![t] = p][q[k].id] = q[k].kind
                    /\ \A l \in 1..Len(q) : q[l].kind \in Turns /\ q[l].id = q[k].id => l = k
  BY DEF Serves
<1>1. f[q[k].id] = q[k].kind /\ q[k].id \in Task
  BY QueueHolds DEF Serves
<1>2. q[k].id # t
  BY <1>1
<1> QED BY <1>1, <1>2 DEF Serves

(* A call queues for its turn.                                             *)
LEMMA ServesAppend ==
  ASSUME NEW q \in Seq(Waiting), NEW f \in [Task -> Places], Serves(q, f),
         NEW t \in Task, NEW k \in Kinds, NEW p \in Places, f[t] \notin Turns, k \in Turns => p = k
  PROVE  Serves(Append(q, Entry(t, k)), [f EXCEPT ![t] = p])
<1> DEFINE r == Append(q, Entry(t, k))
           g == [f EXCEPT ![t] = p]
<1>1. PICK n \in Nat : n = Len(q)
  OBVIOUS
<1>2. Len(r) = n + 1 /\ (\A m \in 1..n : r[m] = q[m]) /\ r[n + 1].id = t /\ r[n + 1].kind = k
  BY <1>1, EntryTyped, QueueAppend
<1>3. Serves(q, g)
  BY ServesMove
<1>4. \A m \in 1..n : q[m].kind \in Turns => q[m].id # t
  <2> SUFFICES ASSUME NEW m \in 1..n, q[m].kind \in Turns PROVE q[m].id # t
    OBVIOUS
  <2>1. f[q[m].id] = q[m].kind
    BY <1>1 DEF Serves
  <2> QED BY <2>1
<1>5. g[t] = p
  OBVIOUS
<1> HIDE DEF r, g
<1>6. ASSUME NEW a \in 1..(n + 1), r[a].kind \in Turns
      PROVE  g[r[a].id] = r[a].kind /\ \A b \in 1..(n + 1) : r[b].kind \in Turns /\ r[b].id = r[a].id => b = a
  <2>1. CASE a = n + 1
    <3>1. ASSUME NEW b \in 1..(n + 1), r[b].kind \in Turns, r[b].id = r[a].id PROVE b = a
      <4>1. CASE b \in 1..n
        BY <1>2, <1>4, <2>1, <3>1, <4>1
      <4> QED BY <2>1, <4>1
    <3> QED BY <1>2, <1>5, <1>6, <2>1, <3>1
  <2>2. CASE a # n + 1
    <3>1. a \in 1..n /\ r[a] = q[a]
      BY <1>2, <2>2
    <3>2. g[q[a].id] = q[a].kind /\ \A l \in 1..n : q[l].kind \in Turns /\ q[l].id = q[a].id => l = a
      BY <1>1, <1>3, <1>6, <3>1 DEF Serves
    <3>3. ASSUME NEW b \in 1..(n + 1), r[b].kind \in Turns, r[b].id = r[a].id PROVE b = a
      <4>1. CASE b \in 1..n
        BY <1>2, <3>1, <3>2, <3>3, <4>1
      <4>2. CASE b = n + 1
        BY <1>2, <1>4, <1>6, <3>1, <3>3, <4>2
      <4> QED BY <4>1, <4>2
    <3> QED BY <3>1, <3>2, <3>3
  <2> QED BY <2>1, <2>2
<1> QED BY <1>2, <1>6 DEF Serves, r, g

(* Who does not wait for an answer disturbs nobody.                        *)
LEMMA ServesQuiet ==
  ASSUME NEW q \in Seq(Waiting), NEW f \in [Task -> Places], Serves(q, f),
         NEW t \in Task, NEW k \in Kinds \ Turns
  PROVE  Serves(Append(q, Entry(t, k)), f)
<1> DEFINE r == Append(q, Entry(t, k))
<1>1. PICK n \in Nat : n = Len(q)
  OBVIOUS
<1>2. Len(r) = n + 1 /\ (\A m \in 1..n : r[m] = q[m]) /\ r[n + 1].kind = k
  BY <1>1, EntryTyped, QueueAppend
<1> HIDE DEF r
<1>3. ASSUME NEW a \in 1..(n + 1), r[a].kind \in Turns
      PROVE  f[r[a].id] = r[a].kind /\ \A b \in 1..(n + 1) : r[b].kind \in Turns /\ r[b].id = r[a].id => b = a
  <2>1. \A b \in 1..(n + 1) : r[b].kind \in Turns => b \in 1..n /\ r[b] = q[b]
    <3> SUFFICES ASSUME NEW b \in 1..(n + 1), r[b].kind \in Turns PROVE b \in 1..n
      BY <1>2
    <3>1. b # n + 1
      BY <1>2
    <3> QED BY <3>1
  <2> QED BY <1>1, <1>3, <2>1 DEF Serves
<1> QED BY <1>2, <1>3 DEF Serves, r

(* The first is served, and goes on somewhere.                             *)
LEMMA ServesTail ==
  ASSUME NEW q \in Seq(Waiting), q # <<>>, NEW f \in [Task -> Places], Serves(q, f), NEW p \in Places
  PROVE  /\ Head(q).kind \in Turns => f[Head(q).id] = Head(q).kind
         /\ Head(q).kind \in Turns => Serves(Tail(q), [f EXCEPT ![Head(q).id] = p])
         /\ Head(q).kind \notin Turns => Serves(Tail(q), f)
<1> DEFINE r == Tail(q)
           h == Head(q)
<1>1. PICK n \in Nat \ {0} : n = Len(q)
  BY QueueTail
<1>2. h = q[1] /\ Len(r) = n - 1 /\ (\A m \in 1..(n - 1) : r[m] = q[m + 1]) /\ 1 \in 1..n
  BY <1>1, QueueTail
<1>3. \A m \in 1..(n - 1) : r[m] = q[m + 1] /\ m + 1 \in 1..n /\ m + 1 # 1
  BY <1>2
<1>4. \A m \in 1..n : q[m].id \in Task
  BY <1>1, QueueHolds
<1>5. \A k \in 1..n : q[k].kind \in Turns =>
        f[q[k].id] = q[k].kind /\ \A l \in 1..n : q[l].kind \in Turns /\ q[l].id = q[k].id => l = k
  BY <1>1 DEF Serves
<1> HIDE DEF r, h
<1>6. Serves(r, f)
  <2>1. ASSUME NEW a \in 1..(n - 1), r[a].kind \in Turns
        PROVE  /\ f[r[a].id] = r[a].kind
               /\ \A b \in 1..(n - 1) : r[b].kind \in Turns /\ r[b].id = r[a].id => b = a
    <3>1. f[r[a].id] = r[a].kind
      BY <1>3, <1>5, <2>1
    <3>2. ASSUME NEW b \in 1..(n - 1), r[b].kind \in Turns, r[b].id = r[a].id PROVE b = a
      <4>1. b + 1 = a + 1
        BY <1>3, <1>5, <2>1, <3>2
      <4> QED BY <4>1
    <3> QED BY <3>1, <3>2
  <2> QED BY <1>2, <2>1 DEF Serves
<1>7. h.kind \in Turns => \A a \in 1..(n - 1) : r[a].kind \in Turns => r[a].id # h.id
  BY <1>2, <1>3, <1>5
<1>8. ASSUME h.kind \in Turns PROVE Serves(r, [f EXCEPT ![h.id] = p])
  <2>1. \A a \in 1..(n - 1) : r[a].kind \in Turns => [f EXCEPT ![h.id] = p][r[a].id] = f[r[a].id]
    BY <1>3, <1>4, <1>7, <1>8
  <2> HIDE DEF Turns
  <2> QED BY <1>2, <1>6, <2>1 DEF Serves
<1>9. h.kind \in Turns => f[h.id] = h.kind
  BY <1>2, <1>5
<1> QED BY <1>6, <1>8, <1>9 DEF r, h

-----------------------------------------------------------------------------
LEMMA TransferBegins == TransferInit => TransferInv
<1> SUFFICES ASSUME TransferInit PROVE TransferInv
  OBVIOUS
<1>1. TransferTypeOK
  <2>1. queue \in [Inst -> Seq(Waiting)] /\ snap \in [Inst -> Journal \union {NoSnap}]
    BY DEF TransferInit
  <2>2. journal \in Journal
    BY DEF TransferInit, Journal
  <2>3. /\ inst \in [Inst -> {"new", "up", "closing", "gone", "crashed"}]
        /\ task \in [Inst -> [Task -> Status]] /\ begun \in [Inst -> SUBSET Task]
        /\ owned \in [Inst -> SUBSET Task] /\ removed \in [Inst -> SUBSET Task]
    BY DEF TransferInit, Status
  <2>4. pc \in [Inst -> [Task -> {"idle", "hash", "claim", "xfer", "sent", "dclaim", "dunlink", "dfinal"}]]
    BY DEF TransferInit
  <2> QED BY <2>1, <2>2, <2>3, <2>4 DEF TransferInit, TransferTypeOK
<1>2. TaskBooks
  <2>1. ASSUME NEW i \in Inst PROVE QueueServes(i) /\ Bookless(i) /\ ClaimIsMerged(i)
    BY DEF TransferInit, QueueServes, Serves, Bookless, ClaimIsMerged
  <2>2. ASSUME NEW i \in Inst, NEW t \in Task PROVE TaskRuns(i, t) /\ WorkIsClaimed(i, t)
    BY DEF TransferInit, TaskRuns, WorkIsClaimed, AtWork
  <2>3. ASSUME NEW t \in Task PROVE Given(t)
    BY DEF TransferInit, Given
  <2> QED BY <2>1, <2>2, <2>3 DEF TaskBooks
<1>3. NothingOrphaned
  BY DEF TransferInit, NothingOrphaned, LeavesClean, Leaves, PartialHasEntry
<1> QED BY <1>1, <1>2, <1>3 DEF TransferInv

(* The call that works on a task goes on: what its steps have in common.   *)
(* It is at no wait, its instance is there; work starts at a wait only,    *)
(* and is over before the task is done or removed.                         *)
Moves(i, t, s, p) ==
  /\ Active(i) /\ i \in loaded /\ pc[i][t] \notin Turns
  /\ s # "absent" /\ (s = "running" <=> p # "idle") /\ p # "dunlink"
  /\ p \in {"xfer", "sent"} => pc[i][t] \in {"xfer", "sent"}
  /\ p = "dfinal" => pc[i][t] = "dunlink" /\ t \notin partial'
  /\ s = "done" => AtWork(i, t) /\ t \notin partial'
  /\ task' = [task EXCEPT ![i][t] = s] /\ pc' = [pc EXCEPT ![i][t] = p]
  /\ owned' = [owned EXCEPT ![i] = IF p = "dfinal" THEN @ \ {t} ELSE @ \union {t}]
  /\ removed' = [removed EXCEPT ![i] = IF p = "dfinal" THEN @ \union {t} ELSE @ \ {t}]
  /\ \/ UNCHANGED queue
     \/ \E k \in Kinds : /\ queue' = [queue EXCEPT ![i] = Append(@, Entry(t, k))]
                         /\ k \in Turns => p = k
  /\ partial' \in {partial, partial \ {t}, partial \union {t}}
  /\ t \in partial' \ partial => pc[i][t] = "xfer"
  /\ used' = used \union {t} /\ begun' \in [Inst -> SUBSET Task]
  /\ UNCHANGED <<inst, loaded, snap, lock, journal>>

LEMMA MoveKeeps ==
  ASSUME TransferInv, NEW i \in Inst, NEW t \in Task, NEW s \in Status, NEW p \in Places,
         Moves(i, t, s, p)
  PROVE  TransferInv'
<1> USE DEF Moves
<1>1. /\ \A j \in Inst, u \in Task : task'[j][u] = IF j = i /\ u = t THEN s ELSE task[j][u]
      /\ \A j \in Inst, u \in Task : pc'[j][u] = IF j = i /\ u = t THEN p ELSE pc[j][u]
      /\ task' \in [Inst -> [Task -> Status]] /\ pc' \in [Inst -> [Task -> Places]]
      /\ pc'[i] = [pc[i] EXCEPT ![t] = p] /\ \A j \in Inst \ {i} : pc'[j] = pc[j]
  BY DEF TransferInv, TransferTypeOK, Places
<1>2. /\ owned' \in [Inst -> SUBSET Task] /\ removed' \in [Inst -> SUBSET Task]
      /\ \A j \in Inst \ {i} : owned'[j] = owned[j] /\ removed'[j] = removed[j]
      /\ \A u \in Task \ {t} : (u \in owned'[i] <=> u \in owned[i]) /\ (u \in removed'[i] <=> u \in removed[i])
      /\ (t \in owned'[i] <=> p # "dfinal") /\ (t \in removed'[i] <=> p = "dfinal")
  BY DEF TransferInv, TransferTypeOK
<1>3. /\ queue \in [Inst -> Seq(Waiting)] /\ pc[i] \in [Task -> Places] /\ Serves(queue[i], pc[i])
      /\ \A j \in Inst : snap[j] # NoSnap => queue[j] # <<>>
  BY DEF TransferInv, TransferTypeOK, TaskBooks, QueueServes, Places
<1>4. /\ queue' \in [Inst -> Seq(Waiting)] /\ \A j \in Inst \ {i} : queue'[j] = queue[j]
      /\ Serves(queue'[i], pc'[i])
      /\ queue[i] # <<>> => queue'[i] # <<>> /\ Head(queue'[i]) = Head(queue[i])
  <2>1. CASE UNCHANGED queue
    BY <1>1, <1>3, <2>1, ServesMove
  <2>2. ASSUME NEW k \in Kinds, queue' = [queue EXCEPT ![i] = Append(@, Entry(t, k))], k \in Turns => p = k
        PROVE  /\ queue' \in [Inst -> Seq(Waiting)] /\ \A j \in Inst \ {i} : queue'[j] = queue[j]
               /\ Serves(queue'[i], pc'[i])
               /\ queue[i] # <<>> => queue'[i] # <<>> /\ Head(queue'[i]) = Head(queue[i])
    <3>1. queue[i] \in Seq(Waiting) /\ Entry(t, k) \in Waiting
      BY <1>3, EntryTyped
    <3>2. /\ Append(queue[i], Entry(t, k)) \in Seq(Waiting) /\ Append(queue[i], Entry(t, k)) # <<>>
          /\ queue[i] # <<>> => Head(Append(queue[i], Entry(t, k))) = Head(queue[i])
      BY <3>1, QueueAppend
    <3>3. queue'[i] = Append(queue[i], Entry(t, k)) /\ \A j \in Inst \ {i} : queue'[j] = queue[j]
      BY <1>3, <2>2
    <3>4. Serves(Append(queue[i], Entry(t, k)), [pc[i] EXCEPT ![t] = p])
      BY <1>3, <2>2, <3>1, ServesAppend
    <3>5. queue' \in [Inst -> Seq(Waiting)]
      BY <1>3, <2>2, <3>2
    <3> QED BY <1>1, <3>2, <3>3, <3>4, <3>5
  <2> QED BY <2>1, <2>2
<1>5. /\ \A j \in Inst, u \in Task : TaskRuns(j, u) /\ WorkIsClaimed(j, u)
      /\ \A j \in Inst : Bookless(j) /\ ClaimIsMerged(j) /\ QueueServes(j)
      /\ \A u \in Task : Given(u)
  BY DEF TransferInv, TaskBooks
<1>6. TransferTypeOK'
  <2>1. partial' \subseteq used' /\ used' \subseteq Task
    BY DEF TransferInv, TransferTypeOK
  <2>2. \A j \in Inst : snap'[j] # NoSnap => lock' = j /\ queue'[j] # <<>>
    BY <1>3, <1>4 DEF TransferInv, TransferTypeOK
  <2> QED BY <1>1, <1>2, <1>4, <2>1, <2>2 DEF TransferInv, TransferTypeOK, Places
<1>7. TaskBooks'
  <2>1. ASSUME NEW j \in Inst PROVE QueueServes(j)'
    BY <1>1, <1>4, <1>5 DEF QueueServes
  <2>2. ASSUME NEW j \in Inst PROVE Bookless(j)'
    BY <1>2, <1>4, <1>5 DEF Bookless, Active
  <2>3. ASSUME NEW j \in Inst PROVE ClaimIsMerged(j)'
    BY <1>3, <1>4, <1>5 DEF ClaimIsMerged, Mine
  <2>4. ASSUME NEW j \in Inst, NEW u \in Task PROVE TaskRuns(j, u)'
    <3>1. TaskRuns(j, u)
      BY <1>5
    <3>2. CASE j = i /\ u = t
      BY <1>1, <1>2, <3>2 DEF TaskRuns, Active
    <3>3. CASE j = i /\ u # t
      BY <1>1, <1>2, <3>1, <3>3 DEF TaskRuns, Active
    <3>4. CASE j # i
      BY <1>1, <1>2, <3>1, <3>4 DEF TaskRuns, Active
    <3> QED BY <3>2, <3>3, <3>4
  <2>5. ASSUME NEW j \in Inst, NEW u \in Task PROVE WorkIsClaimed(j, u)'
    <3>1. AtWork(j, u)' => AtWork(j, u)
      BY <1>1 DEF AtWork
    <3> QED BY <1>5, <3>1 DEF WorkIsClaimed, Mine
  <2>6. ASSUME NEW u \in Task PROVE Given(u)'
    BY <1>1, <1>5 DEF Given
  <2> QED BY <2>1, <2>2, <2>3, <2>4, <2>5, <2>6 DEF TaskBooks
<1>8. NothingOrphaned'
  <2> SUFFICES ASSUME OnePerProcess'
               PROVE  /\ \A j \in Inst, u \in Task : LeavesClean(j, u)'
                      /\ \A u \in Task : PartialHasEntry(u)'
    BY DEF NothingOrphaned
  <2>1. OnePerProcess
    BY DEF OnePerProcess
  <2>2. /\ \A j \in Inst, u \in Task : LeavesClean(j, u)
        /\ \A u \in Task : PartialHasEntry(u)
    BY <2>1 DEF TransferInv, NothingOrphaned
  <2>3. AtWork(i, t) => Mine(journal[t], i) /\ \A j \in Inst : snap[j] # NoSnap => Mine(snap[j][t], i)
    BY <1>5 DEF WorkIsClaimed
  <2>4. t \in partial' \ partial => AtWork(i, t)
    BY DEF AtWork
  <2>5. \A u \in Task \ {t} : u \in partial' <=> u \in partial
    OBVIOUS
  <2>6. ASSUME NEW j \in Inst, NEW u \in Task PROVE LeavesClean(j, u)'
    <3>1. CASE j = i /\ u = t
      <4>1. Leaves(i, t)' => AtWork(i, t) /\ t \notin partial'
        BY <1>1, <1>2 DEF Leaves, AtWork
      <4> QED BY <2>3, <3>1, <4>1 DEF LeavesClean, Mine
    <3>2. CASE j = i /\ u # t
      BY <1>1, <1>2, <2>2, <2>5, <3>2 DEF LeavesClean, Leaves, Mine
    <3>3. CASE j # i
      <4>1. Leaves(j, u)' => Leaves(j, u)
        BY <1>1, <1>2, <3>3 DEF Leaves
      <4>2. Leaves(j, u) => Mine(journal[u], j) /\ u \notin partial
        BY <2>2 DEF LeavesClean
      <4>3. Leaves(j, u) => u \notin partial'
        BY <2>3, <2>4, <2>5, <3>3, <4>2 DEF Mine
      <4> QED BY <2>2, <4>1, <4>3 DEF LeavesClean, Mine
    <3> QED BY <3>1, <3>2, <3>3
  <2>7. ASSUME NEW u \in Task PROVE PartialHasEntry(u)'
    BY <2>2, <2>3, <2>4, <2>5 DEF PartialHasEntry, Mine
  <2> QED BY <2>6, <2>7
<1> QED BY <1>6, <1>7, <1>8 DEF TransferInv

(* Every step of a call on its task is such a move.                        *)
LEMMA TaskStepMoves ==
  ASSUME TransferInv, NEW i \in Inst, NEW t \in Task, TaskStep(i, t)
  PROVE  \E s \in Status, p \in Places : Moves(i, t, s, p)
<1>1. /\ TaskRuns(i, t) /\ (t \notin used => task[i][t] = "absent")
      /\ owned \in [Inst -> SUBSET Task] /\ removed \in [Inst -> SUBSET Task]
      /\ begun \in [Inst -> SUBSET Task] /\ used \subseteq Task
      /\ task[i][t] \in Status /\ pc[i][t] \in Places
      /\ queue \in [Inst -> Seq(Waiting)]
  BY DEF TransferInv, TransferTypeOK, TaskBooks, Given, Places
<1>2. /\ pc[i][t] # "idle" => Active(i) /\ i \in loaded /\ t \in used
      /\ pc[i][t] # "dfinal" => t \notin removed[i]
      /\ pc[i][t] \notin {"idle", "dfinal"} => t \in owned[i]
  BY <1>1 DEF TaskRuns
<1>3. /\ t \in owned[i] => owned = [owned EXCEPT ![i] = @ \union {t}]
      /\ t \notin removed[i] => removed = [removed EXCEPT ![i] = @ \ {t}]
      /\ t \in used => used = used \union {t}
  BY <1>1
<1>4. /\ MayCall(i) => Active(i) /\ i \in loaded
      /\ pc[i][t] = "idle" => t \notin removed[i]
      /\ Resumable(i, t) => t \in used
  BY <1>1 DEF MayCall, Active, Resumable, TaskRuns
<1>5. ASSUME NEW k \in Kinds, Enqueue(i, t, k)
      PROVE  queue' = [queue EXCEPT ![i] = Append(@, Entry(t, k))]
  BY <1>5 DEF Enqueue, Persist, Entry
<1> USE DEF Moves, SetTask, Status, Places, Turns, Kinds
<1>6. CASE StartUpload(i, t) \/ ResumeUpload(i, t)
  <2>1. pc[i][t] = "idle"
    BY <1>1, <1>6 DEF StartUpload, ResumeUpload, TaskRuns
  <2>2. Moves(i, t, "running", "hash")
    BY <1>1, <1>3, <1>4, <1>6, <2>1 DEF StartUpload, ResumeUpload, files
  <2> QED BY <2>2
<1>7. CASE Claim(i, t)
  <2>1. Moves(i, t, "running", "claim")
    BY <1>1, <1>2, <1>3, <1>5, <1>7 DEF Claim, files
  <2> QED BY <2>1
<1>8. CASE WritePartial(i, t)
  <2>1. begun' \in [Inst -> SUBSET Task]
    <3>1. begun' = begun \/ begun' = [begun EXCEPT ![i] = @ \union {t}]
      BY <1>8 DEF WritePartial
    <3>2. begun[i] \union {t} \in SUBSET Task
      BY <1>1
    <3>3. [begun EXCEPT ![i] = @ \union {t}] \in [Inst -> SUBSET Task]
      <4> DEFINE b == begun[i] \union {t}
      <4>1. b \in SUBSET Task
        BY <3>2
      <4> HIDE DEF b
      <4>2. [begun EXCEPT ![i] = b] \in [Inst -> SUBSET Task]
        BY <1>1, <4>1
      <4> QED BY <4>2 DEF b
    <3> QED BY <1>1, <3>1, <3>3
  <2>2. Moves(i, t, "running", "sent")
    BY <1>1, <1>2, <1>3, <1>8, <2>1 DEF WritePartial
  <2> QED BY <2>2
<1>9. CASE Retry(i, t)
  <2>1. Moves(i, t, "running", "xfer")
    BY <1>1, <1>2, <1>3, <1>9 DEF Retry
  <2> QED BY <2>1
<1>10. CASE Commit(i, t)
  <2>1. Moves(i, t, "done", "idle")
    BY <1>1, <1>2, <1>3, <1>5, <1>10 DEF Commit, AtWork
  <2> QED BY <2>1
<1>11. CASE StopUpload(i, t)
  <2>1. Moves(i, t, "failed", "idle")
    BY <1>1, <1>2, <1>3, <1>5, <1>11 DEF StopUpload, files
  <2> QED BY <2>1
<1>12. CASE DiscardTask(i, t)
  <2>1. Moves(i, t, "running", "dclaim")
    BY <1>1, <1>3, <1>4, <1>5, <1>12 DEF DiscardTask, files
  <2> QED BY <2>1
<1>13. CASE Unlink(i, t)
  <2>1. Moves(i, t, "running", "dfinal")
    BY <1>1, <1>2, <1>3, <1>5, <1>13 DEF Unlink
  <2> QED BY <2>1
<1>14. CASE UnlinkFails(i, t)
  <2>1. Moves(i, t, "failed", "idle")
    BY <1>1, <1>2, <1>3, <1>5, <1>14 DEF UnlinkFails
  <2> QED BY <2>1
<1> QED BY <1>6, <1>7, <1>8, <1>9, <1>10, <1>11, <1>12, <1>13, <1>14 DEF TaskStep

-----------------------------------------------------------------------------
(* Instances come and go.                                                  *)
LEMMA InstanceKeeps ==
  ASSUME TransferInv, NEW i \in Inst, NewInst(i) \/ Unload(i) \/ Load(i)
  PROVE  TransferInv'
<1> USE DEF TransferInv
<1>1. /\ \A j \in Inst, u \in Task : TaskRuns(j, u) /\ WorkIsClaimed(j, u)
      /\ \A j \in Inst : Bookless(j) /\ ClaimIsMerged(j) /\ QueueServes(j)
      /\ \A u \in Task : Given(u)
  BY DEF TaskBooks
<1>2. /\ UNCHANGED <<owned, removed, pc, queue, snap, lock, journal, used, partial>>
      /\ \A j \in Inst, u \in Task :
           \/ task'[j][u] = task[j][u]
           \/ /\ j = i /\ task[j][u] = "absent" /\ task'[j][u] = "failed"
              /\ pc[j][u] = "idle" /\ u \in used /\ i \in loaded'
      /\ task' \in [Inst -> [Task -> Status]] /\ begun' \in [Inst -> SUBSET Task]
      /\ inst' \in [Inst -> {"new", "up", "closing", "gone", "crashed"}]
      /\ loaded' \subseteq Inst /\ loaded \subseteq loaded'
      /\ \A j \in Inst : j # i => inst'[j] = inst[j] /\ (j \in loaded' => j \in loaded)
      /\ inst'[i] \notin {"new", "crashed"} /\ (inst[i] # "up" => inst'[i] = "up" /\ loaded' = loaded)
      /\ inst[i] # "crashed"
      /\ inst'[i] \in {"up", "closing"} \/ \A u \in Task : task'[i][u] # "running"
  <2>1. CASE NewInst(i) \/ Unload(i)
    <3>1. UNCHANGED <<loaded, task, begun, owned, removed, pc, queue, snap, lock, journal, used, partial>>
      BY <2>1 DEF NewInst, Unload, memory, files
    <3>2. \/ inst[i] = "new" /\ inst' = [inst EXCEPT ![i] = "up"]
          \/ inst[i] = "up" /\ inst' = [inst EXCEPT ![i] = "closing"]
          \/ /\ inst[i] = "up" /\ inst' = [inst EXCEPT ![i] = "gone"]
             /\ \A u \in Task : task[i][u] # "running"
      BY <2>1 DEF NewInst, Unload
    <3>3. inst \in [Inst -> {"new", "up", "closing", "gone", "crashed"}]
      BY DEF TransferTypeOK
    <3>4. /\ inst' \in [Inst -> {"new", "up", "closing", "gone", "crashed"}]
          /\ \A j \in Inst : j # i => inst'[j] = inst[j]
          /\ inst'[i] \notin {"new", "crashed"} /\ (inst[i] # "up" => inst'[i] = "up") /\ inst[i] # "crashed"
          /\ inst'[i] \in {"up", "closing"} \/ \A u \in Task : task[i][u] # "running"
      BY <3>2, <3>3
    <3>5. task' = task /\ loaded' = loaded
      BY <3>1
    <3>6. \A j \in Inst, u \in Task : task'[j][u] = task[j][u]
      BY <3>5
    <3>7. task' \in [Inst -> [Task -> Status]] /\ begun' \in [Inst -> SUBSET Task] /\ loaded' \subseteq Inst
      BY <3>1 DEF TransferTypeOK
    <3>8. inst'[i] \in {"up", "closing"} \/ \A u \in Task : task'[i][u] # "running"
      BY <3>4, <3>5
    <3> HIDE DEF TransferInv
    <3> QED BY <3>1, <3>4, <3>5, <3>6, <3>7, <3>8
  <2>2. CASE Load(i)
    <3> DEFINE mine == {t \in Task : journal[t] # NoRecord /\ ~HeldElsewhere(i, t)}
    <3>1. /\ task' = [task EXCEPT ![i] = [t \in Task |-> IF t \in mine THEN "failed" ELSE @[t]]]
          /\ begun' = [begun EXCEPT ![i] = {t \in mine : journal[t].begun}]
          /\ inst[i] = "up" /\ i \notin loaded /\ loaded' = loaded \union {i}
          /\ UNCHANGED <<inst, owned, removed, pc, queue, snap, lock, journal, used, partial>>
      BY <2>2 DEF Load, files
    <3>2. \A u \in mine : u \in Task /\ u \in used
      BY <1>1 DEF Given
    <3>3. \A u \in Task : task[i][u] = "absent" /\ pc[i][u] = "idle"
      BY <1>1, <3>1 DEF TaskRuns
    <3> HIDE DEF mine
    <3>4. \A u \in Task : task'[i][u] = IF u \in mine THEN "failed" ELSE "absent"
      BY <3>1, <3>3 DEF TransferTypeOK
    <3>5. task' \in [Inst -> [Task -> Status]] /\ \A j \in Inst : j # i => task'[j] = task[j]
      BY <3>1 DEF TransferTypeOK, Status
    <3>6. begun' \in [Inst -> SUBSET Task]
      BY <3>1, <3>2 DEF TransferTypeOK
    <3>7. \A j \in Inst, u \in Task :
            \/ task'[j][u] = task[j][u]
            \/ /\ j = i /\ task[j][u] = "absent" /\ task'[j][u] = "failed"
               /\ pc[j][u] = "idle" /\ u \in used /\ i \in loaded'
      <4>1. ASSUME NEW u \in Task
            PROVE  \/ task'[i][u] = task[i][u]
                   \/ /\ task[i][u] = "absent" /\ task'[i][u] = "failed"
                      /\ pc[i][u] = "idle" /\ u \in used /\ i \in loaded'
        BY <3>1, <3>2, <3>3, <3>4
      <4> QED BY <3>5, <4>1
    <3>8. UNCHANGED inst /\ inst[i] = "up" /\ \A j \in Inst : j # i => (j \in loaded' => j \in loaded)
      BY <3>1
    <3> QED BY <3>1, <3>5, <3>6, <3>7, <3>8 DEF TransferTypeOK
  <2> QED BY <2>1, <2>2
<1>3. TransferTypeOK'
  BY <1>2 DEF TransferTypeOK
<1>4. TaskBooks'
  <2>1. ASSUME NEW j \in Inst PROVE QueueServes(j)' /\ ClaimIsMerged(j)'
    BY <1>1, <1>2 DEF QueueServes, ClaimIsMerged, Mine
  <2>2. ASSUME NEW j \in Inst PROVE Bookless(j)'
    BY <1>1, <1>2 DEF Bookless
  <2>3. ASSUME NEW j \in Inst, NEW u \in Task PROVE TaskRuns(j, u)'
    BY <1>1, <1>2 DEF TaskRuns, Active
  <2>4. ASSUME NEW j \in Inst, NEW u \in Task PROVE WorkIsClaimed(j, u)'
    BY <1>1, <1>2 DEF WorkIsClaimed, AtWork, Mine
  <2>5. ASSUME NEW u \in Task PROVE Given(u)'
    BY <1>1, <1>2 DEF Given
  <2> QED BY <2>1, <2>2, <2>3, <2>4, <2>5 DEF TaskBooks
<1>5. NothingOrphaned'
  <2>1. OnePerProcess' => OnePerProcess
    BY <1>2 DEF OnePerProcess
  <2>2. \A j \in Inst, u \in Task : Leaves(j, u)' => Leaves(j, u)
    BY <1>2 DEF Leaves
  <2> QED BY <1>2, <2>1, <2>2 DEF NothingOrphaned, LeavesClean, PartialHasEntry, Mine
<1> QED BY <1>3, <1>4, <1>5

(* A process dies.                                                         *)
LEMMA CrashKeeps ==
  ASSUME TransferInv, NEW p, Crash(p)
  PROVE  TransferInv'
<1> USE DEF TransferInv
<1> DEFINE dead == {i \in Inst : Pid[i] = p}
<1>1. /\ \A j \in Inst, u \in Task : TaskRuns(j, u) /\ WorkIsClaimed(j, u)
      /\ \A j \in Inst : Bookless(j) /\ ClaimIsMerged(j) /\ QueueServes(j)
      /\ \A u \in Task : Given(u)
  BY DEF TaskBooks
<1>2. /\ UNCHANGED <<loaded, lock, journal, used, partial>>
      /\ inst' = [i \in Inst |-> IF i \in dead THEN "crashed" ELSE inst[i]]
      /\ task' = [i \in Inst |-> IF i \in dead THEN [t \in Task |-> "absent"] ELSE task[i]]
      /\ pc' = [i \in Inst |-> IF i \in dead THEN [t \in Task |-> "idle"] ELSE pc[i]]
      /\ begun' = [i \in Inst |-> IF i \in dead THEN {} ELSE begun[i]]
      /\ owned' = [i \in Inst |-> IF i \in dead THEN {} ELSE owned[i]]
      /\ removed' = [i \in Inst |-> IF i \in dead THEN {} ELSE removed[i]]
      /\ queue' = [i \in Inst |-> IF i \in dead THEN <<>> ELSE queue[i]]
      /\ snap' = [i \in Inst |-> IF i \in dead THEN NoSnap ELSE snap[i]]
  BY DEF Crash, files
<1> HIDE DEF dead
<1>3. /\ \A j \in Inst : j \in dead => /\ inst'[j] = "crashed" /\ owned'[j] = {} /\ removed'[j] = {}
                                       /\ queue'[j] = <<>> /\ snap'[j] = NoSnap
                                       /\ \A u \in Task : task'[j][u] = "absent" /\ pc'[j][u] = "idle"
      /\ \A j \in Inst : j \notin dead => /\ inst'[j] = inst[j] /\ owned'[j] = owned[j]
                                          /\ removed'[j] = removed[j] /\ queue'[j] = queue[j]
                                          /\ snap'[j] = snap[j] /\ task'[j] = task[j] /\ pc'[j] = pc[j]
  BY <1>2
<1>4. TransferTypeOK'
  <2>1. /\ inst' \in [Inst -> {"new", "up", "closing", "gone", "crashed"}]
        /\ begun' \in [Inst -> SUBSET Task] /\ owned' \in [Inst -> SUBSET Task]
        /\ removed' \in [Inst -> SUBSET Task] /\ snap' \in [Inst -> Journal \union {NoSnap}]
    BY <1>2 DEF TransferTypeOK
  <2>2. task' \in [Inst -> [Task -> Status]]
    BY <1>2 DEF TransferTypeOK, Status
  <2>3. pc' \in [Inst -> [Task -> {"idle", "hash", "claim", "xfer", "sent", "dclaim", "dunlink", "dfinal"}]]
    BY <1>2 DEF TransferTypeOK
  <2>4. queue' \in [Inst -> Seq(Waiting)]
    <3> <<>> \in Seq(Waiting)
      OBVIOUS
    <3> QED BY <1>2 DEF TransferTypeOK
  <2>5. \A j \in Inst : snap'[j] # NoSnap => lock' = j /\ queue'[j] # <<>>
    BY <1>2, <1>3 DEF TransferTypeOK
  <2> QED BY <1>2, <2>1, <2>2, <2>3, <2>4, <2>5 DEF TransferTypeOK
<1>5. TaskBooks'
  <2>1. ASSUME NEW j \in Inst PROVE QueueServes(j)'
    <3>1. CASE j \in dead
      <4>1. 1..Len(queue'[j]) = {}
        BY <1>3, <3>1
      <4> QED BY <4>1 DEF QueueServes, Serves
    <3>2. CASE j \notin dead
      BY <1>1, <1>3, <3>2 DEF QueueServes
    <3> QED BY <3>1, <3>2
  <2>2. ASSUME NEW j \in Inst PROVE Bookless(j)' /\ ClaimIsMerged(j)'
    BY <1>1, <1>2, <1>3 DEF Bookless, ClaimIsMerged, Mine
  <2>3. ASSUME NEW j \in Inst, NEW u \in Task PROVE TaskRuns(j, u)'
    BY <1>1, <1>2, <1>3 DEF TaskRuns, Active
  <2>4. ASSUME NEW j \in Inst, NEW u \in Task PROVE WorkIsClaimed(j, u)'
    BY <1>1, <1>2, <1>3 DEF WorkIsClaimed, AtWork, Mine
  <2>5. ASSUME NEW u \in Task PROVE Given(u)'
    BY <1>1, <1>2, <1>3 DEF Given
  <2> QED BY <2>1, <2>2, <2>3, <2>4, <2>5 DEF TaskBooks
<1>6. NothingOrphaned'
  <2>1. OnePerProcess' => OnePerProcess
    BY <1>2, <1>3 DEF OnePerProcess
  <2>2. \A j \in Inst, u \in Task : Leaves(j, u)' => Leaves(j, u)
    BY <1>3 DEF Leaves
  <2>3. \A j \in Inst : snap'[j] # NoSnap => snap'[j] = snap[j]
    BY <1>3
  <2> QED BY <1>2, <2>1, <2>2, <2>3 DEF NothingOrphaned, LeavesClean, PartialHasEntry, Mine
<1> QED BY <1>4, <1>5, <1>6

-----------------------------------------------------------------------------
(* persist.                                                                *)
LEMMA TakeLockKeeps ==
  ASSUME TransferInv, NEW i \in Inst, TakeLock(i)
  PROVE  TransferInv'
<1>1. /\ lock' = i /\ lock = NoInst /\ queue[i] # <<>> /\ snap[i] = NoSnap
      /\ UNCHANGED <<inst, loaded, task, begun, owned, removed, pc, queue, snap, journal, used, partial>>
  BY DEF TakeLock, LockIsFree, memory
<1>2. TransferTypeOK'
  BY <1>1, TransferAssumption DEF TransferInv, TransferTypeOK
<1>3. TaskBooks'
  BY <1>1 DEF TransferInv, TaskBooks, QueueServes, Bookless, ClaimIsMerged, TaskRuns, WorkIsClaimed,
              Given, Active, AtWork, Mine
<1>4. NothingOrphaned'
  BY <1>1 DEF TransferInv, NothingOrphaned, OnePerProcess, LeavesClean, Leaves, PartialHasEntry, Mine
<1> QED BY <1>2, <1>3, <1>4 DEF TransferInv

(* While an instance holds the lock nobody else writes the journal.        *)
LEMMA OneSnap ==
  ASSUME TransferInv, NEW i \in Inst, lock = i
  PROVE  \A j \in Inst : j # i => snap[j] = NoSnap
  BY DEF TransferInv, TransferTypeOK

(* ReleaseIfIdle: an instance goes when none of its tasks runs.            *)
LEMMA ReleaseGoes ==
  ASSUME TransferInv, NEW i \in Inst, ReleaseIfIdle(i) \/ UNCHANGED inst
  PROVE  /\ inst' \in [Inst -> {"new", "up", "closing", "gone", "crashed"}]
         /\ \A j \in Inst : j # i => inst'[j] = inst[j]
         /\ \/ inst'[i] = inst[i]
            \/ inst[i] = "closing" /\ inst'[i] = "gone" /\ \A u \in Task : task'[i][u] # "running"
<1>1. inst \in [Inst -> {"new", "up", "closing", "gone", "crashed"}]
  BY DEF TransferInv, TransferTypeOK
<1>2. CASE UNCHANGED inst
  BY <1>1, <1>2
<1>3. CASE ReleaseIfIdle(i)
  <2>1. \/ inst' = inst
        \/ /\ inst[i] = "closing" /\ inst' = [inst EXCEPT ![i] = "gone"]
           /\ \A u \in Task : task'[i][u] # "running"
    BY <1>3 DEF ReleaseIfIdle, Idle
  <2> QED BY <1>1, <2>1
<1> QED BY <1>2, <1>3

(* What a call that is not journaled does: its task has failed, and is the *)
(* instance's own again unless it was to be discarded.                     *)
LEMMA NotPersistedDoes ==
  ASSUME TransferInv, NEW i \in Inst, queue[i] # <<>>, NotPersisted(i)
  PROVE  LET w == Head(queue[i])
         IN  /\ w.id \in Task /\ (w.kind \in Turns => pc[i][w.id] = w.kind)
             /\ IF w.kind \in Turns
                THEN /\ task' = [task EXCEPT ![i][w.id] = "failed"]
                     /\ pc' = [pc EXCEPT ![i][w.id] = "idle"]
                     /\ owned' = [owned EXCEPT ![i] = IF w.kind = "dclaim" THEN @ \ {w.id}
                                                      ELSE @ \union {w.id}]
                     /\ removed' = [removed EXCEPT ![i] = @ \ {w.id}]
                ELSE UNCHANGED <<task, pc, owned, removed>>
             /\ queue' \in [Inst -> Seq(Waiting)] /\ Serves(queue'[i], pc'[i])
             /\ \A j \in Inst : j # i => queue'[j] = queue[j]
             /\ ReleaseIfIdle(i) \/ UNCHANGED inst
<1> DEFINE w == Head(queue[i])
           t == w.id
           q == Tail(queue[i])
<1>1. /\ queue \in [Inst -> Seq(Waiting)] /\ pc \in [Inst -> [Task -> Places]]
      /\ owned \in [Inst -> SUBSET Task] /\ removed \in [Inst -> SUBSET Task]
      /\ Serves(queue[i], pc[i])
      /\ \A u \in Task : TaskRuns(i, u)
  BY DEF TransferInv, TransferTypeOK, Places, TaskBooks, QueueServes
<1>2. /\ w \in Waiting /\ t \in Task /\ w.kind \in Kinds /\ q \in Seq(Waiting)
  <2>1. queue[i] \in Seq(Waiting)
    BY <1>1
  <2>2. w \in Waiting /\ q \in Seq(Waiting)
    BY <2>1, QueueTail
  <2> QED BY <2>2 DEF Waiting, Kinds
<1>3. /\ w.kind \in Turns => pc[i][t] = w.kind /\ Serves(q, [pc[i] EXCEPT ![t] = "idle"])
      /\ w.kind \notin Turns => Serves(q, pc[i])
  <2>1. queue[i] \in Seq(Waiting) /\ pc[i] \in [Task -> Places] /\ "idle" \in Places
    BY <1>1 DEF Places
  <2> QED BY <1>1, <2>1, ServesTail
<1>4. ReleaseIfIdle(i) \/ UNCHANGED inst
  BY DEF NotPersisted
<1>5. CASE w.kind \notin Turns
  <2>1. w.kind \in {"final", "undo"}
    BY <1>2, <1>5 DEF Kinds, Turns
  <2>2. queue' = [queue EXCEPT ![i] = q] /\ UNCHANGED <<task, pc, owned, removed>>
    BY <2>1 DEF NotPersisted
  <2>3. queue' \in [Inst -> Seq(Waiting)] /\ queue'[i] = q /\ \A j \in Inst : j # i => queue'[j] = queue[j]
    BY <1>1, <1>2, <2>2
  <2> QED BY <1>2, <1>3, <1>4, <1>5, <2>2, <2>3
<1>6. CASE w.kind \in Turns
  <2> DEFINE r == IF w.kind = "claim" THEN Append(q, Entry(t, "final"))
                  ELSE IF w.kind = "dclaim" THEN q ELSE Append(q, Entry(t, "undo"))
  <2>1. /\ task' = [task EXCEPT ![i][t] = "failed"] /\ pc' = [pc EXCEPT ![i][t] = "idle"]
        /\ queue' = [queue EXCEPT ![i] = r]
        /\ w.kind = "claim" => UNCHANGED <<owned, removed>>
        /\ w.kind = "dclaim" => owned' = [owned EXCEPT ![i] = @ \ {t}] /\ UNCHANGED removed
        /\ w.kind = "dfinal" => /\ owned' = [owned EXCEPT ![i] = @ \union {t}]
                                /\ removed' = [removed EXCEPT ![i] = @ \ {t}]
    BY <1>6 DEF NotPersisted, SetTask, Persist, Entry, Turns
  <2>2. /\ w.kind = "claim" => t \in owned[i]
        /\ w.kind # "dfinal" => t \notin removed[i]
    BY <1>1, <1>2, <1>3, <1>6 DEF TaskRuns, Turns
  <2>3. /\ owned' = [owned EXCEPT ![i] = IF w.kind = "dclaim" THEN @ \ {t} ELSE @ \union {t}]
        /\ removed' = [removed EXCEPT ![i] = @ \ {t}]
    <3>1. /\ t \in owned[i] => owned = [owned EXCEPT ![i] = @ \union {t}]
          /\ t \notin removed[i] => removed = [removed EXCEPT ![i] = @ \ {t}]
      BY <1>1
    <3> QED BY <1>6, <2>1, <2>2, <3>1 DEF Turns
  <2>4. Serves(q, [pc[i] EXCEPT ![t] = "idle"]) /\ [pc[i] EXCEPT ![t] = "idle"] \in [Task -> Places]
    BY <1>1, <1>3, <1>6 DEF Places
  <2>5. r \in Seq(Waiting) /\ Serves(r, [pc[i] EXCEPT ![t] = "idle"])
    <3>1. CASE w.kind = "dclaim"
      BY <1>2, <2>4, <3>1
    <3>2. CASE w.kind # "dclaim"
      <4>1. PICK k \in Kinds \ Turns : r = Append(q, Entry(t, k))
        BY <1>6, <3>2 DEF Kinds, Turns
      <4>2. Entry(t, k) \in Waiting
        BY <1>2, EntryTyped
      <4> QED BY <1>2, <2>4, <4>1, <4>2, QueueAppend, ServesQuiet
    <3> QED BY <3>1, <3>2
  <2> HIDE DEF r
  <2>6. queue' \in [Inst -> Seq(Waiting)] /\ queue'[i] = r /\ \A j \in Inst : j # i => queue'[j] = queue[j]
    BY <1>1, <2>1, <2>5
  <2>7. pc'[i] = [pc[i] EXCEPT ![t] = "idle"]
    BY <1>1, <2>1
  <2>8. Serves(queue'[i], pc'[i])
    BY <2>5, <2>6, <2>7
  <2> HIDE DEF w
  <2> QED BY <1>2, <1>3, <1>4, <1>6, <2>1, <2>3, <2>6, <2>8 DEF w
<1> QED BY <1>5, <1>6

LEMMA NotPersistedKeeps ==
  ASSUME TransferInv, NEW i \in Inst, LockTimeout(i) \/ PersistRefused(i) \/ JournalWriteFails(i)
  PROVE  TransferInv'
<1>1. /\ queue[i] # <<>> /\ NotPersisted(i) /\ UNCHANGED <<loaded, begun, journal, used, partial>>
  BY DEF LockTimeout, PersistRefused, JournalWriteFails, files, TransferInv, TransferTypeOK
<1>2. /\ snap' \in [Inst -> Journal \union {NoSnap}] /\ snap'[i] = NoSnap
      /\ \A j \in Inst : j # i => snap'[j] = snap[j]
      /\ \A j \in Inst : snap'[j] # NoSnap => lock' = j
      /\ lock' \in Inst \union {NoInst}
  <2>1. CASE LockTimeout(i)
    BY <2>1 DEF LockTimeout, files, TransferInv, TransferTypeOK
  <2>2. CASE PersistRefused(i)
    BY <2>2 DEF PersistRefused, TransferInv, TransferTypeOK
  <2>3. CASE JournalWriteFails(i)
    <3>1. NoSnap \in Journal \union {NoSnap}
      OBVIOUS
    <3> HIDE DEF Journal
    <3> QED BY <2>3, <3>1 DEF JournalWriteFails, TransferInv, TransferTypeOK
  <2> QED BY <2>1, <2>2, <2>3
<1> DEFINE w == Head(queue[i])
           t == w.id
<1>3. /\ t \in Task /\ (w.kind \in Turns => pc[i][t] = w.kind)
      /\ w.kind \in Turns => /\ task' = [task EXCEPT ![i][t] = "failed"]
                             /\ pc' = [pc EXCEPT ![i][t] = "idle"]
                             /\ owned' = [owned EXCEPT ![i] = IF w.kind = "dclaim" THEN @ \ {t}
                                                              ELSE @ \union {t}]
                             /\ removed' = [removed EXCEPT ![i] = @ \ {t}]
      /\ w.kind \notin Turns => UNCHANGED <<task, pc, owned, removed>>
      /\ queue' \in [Inst -> Seq(Waiting)] /\ Serves(queue'[i], pc'[i])
      /\ \A j \in Inst : j # i => queue'[j] = queue[j]
      /\ ReleaseIfIdle(i) \/ UNCHANGED inst
  BY <1>1, NotPersistedDoes
<1> HIDE DEF w, t
<1>4. /\ \A j \in Inst, u \in Task : TaskRuns(j, u) /\ WorkIsClaimed(j, u)
      /\ \A j \in Inst : Bookless(j) /\ ClaimIsMerged(j) /\ QueueServes(j)
      /\ \A u \in Task : Given(u)
      /\ \A j \in Inst : snap[j] # NoSnap => queue[j] # <<>>
  BY DEF TransferInv, TransferTypeOK, TaskBooks
<1>5. /\ inst' \in [Inst -> {"new", "up", "closing", "gone", "crashed"}]
      /\ \A j \in Inst : j # i => inst'[j] = inst[j]
      /\ \/ inst'[i] = inst[i]
         \/ inst[i] = "closing" /\ inst'[i] = "gone" /\ \A u \in Task : task'[i][u] # "running"
  BY <1>3, ReleaseGoes
<1>6. /\ task' \in [Inst -> [Task -> Status]] /\ pc' \in [Inst -> [Task -> Places]]
      /\ owned' \in [Inst -> SUBSET Task] /\ removed' \in [Inst -> SUBSET Task]
  <2>1. /\ task \in [Inst -> [Task -> Status]] /\ pc \in [Inst -> [Task -> Places]]
        /\ owned \in [Inst -> SUBSET Task] /\ removed \in [Inst -> SUBSET Task]
    BY DEF TransferInv, TransferTypeOK, Places
  <2>2. "failed" \in Status /\ "idle" \in Places
    BY DEF Status, Places
  <2>3. CASE w.kind \notin Turns
    BY <1>3, <2>1, <2>3
  <2>4. CASE w.kind \in Turns
    <3> DEFINE o == IF w.kind = "dclaim" THEN owned[i] \ {t} ELSE owned[i] \union {t}
               r == removed[i] \ {t}
    <3>0. /\ task' = [task EXCEPT ![i][t] = "failed"] /\ pc' = [pc EXCEPT ![i][t] = "idle"]
          /\ owned' = [owned EXCEPT ![i] = o] /\ removed' = [removed EXCEPT ![i] = r] /\ t \in Task
      BY <1>3, <2>4
    <3>1. task' \in [Inst -> [Task -> Status]] /\ pc' \in [Inst -> [Task -> Places]]
      BY <2>1, <2>2, <3>0
    <3>2. owned' \in [Inst -> SUBSET Task] /\ removed' \in [Inst -> SUBSET Task]
      <4>1. o \in SUBSET Task /\ r \in SUBSET Task
        BY <2>1, <3>0
      <4> HIDE DEF o, r
      <4> QED BY <2>1, <3>0, <4>1
    <3> QED BY <3>1, <3>2
  <2> QED BY <2>3, <2>4
<1>7. /\ \A j \in Inst : j # i => task'[j] = task[j] /\ pc'[j] = pc[j] /\ owned'[j] = owned[j]
                                  /\ removed'[j] = removed[j]
      /\ \A u \in Task :
           \/ /\ task'[i][u] = task[i][u] /\ pc'[i][u] = pc[i][u]
              /\ u \in owned'[i] <=> u \in owned[i]
              /\ u \in removed'[i] <=> u \in removed[i]
           \/ /\ u = t /\ w.kind \in Turns /\ task'[i][u] = "failed" /\ pc'[i][u] = "idle"
              /\ pc[i][u] # "idle" /\ u \notin removed'[i]
  <2>1. /\ task \in [Inst -> [Task -> Status]] /\ pc \in [Inst -> [Task -> Places]]
        /\ owned \in [Inst -> SUBSET Task] /\ removed \in [Inst -> SUBSET Task]
    BY DEF TransferInv, TransferTypeOK, Places
  <2>2. CASE w.kind \notin Turns
    BY <1>3, <2>2
  <2>3. CASE w.kind \in Turns
    <3>1. pc[i][t] # "idle"
      BY <1>3, <2>3 DEF Turns
    <3>2. \A u \in Task : u # t => /\ task'[i][u] = task[i][u] /\ pc'[i][u] = pc[i][u]
                                   /\ u \in owned'[i] <=> u \in owned[i]
                                   /\ u \in removed'[i] <=> u \in removed[i]
      BY <1>3, <2>1, <2>3
    <3>3. task'[i][t] = "failed" /\ pc'[i][t] = "idle" /\ t \notin removed'[i]
      BY <1>3, <2>1, <2>3
    <3>4. \A j \in Inst : j # i => task'[j] = task[j] /\ pc'[j] = pc[j] /\ owned'[j] = owned[j]
                                   /\ removed'[j] = removed[j]
      BY <1>3, <2>1, <2>3
    <3> QED BY <2>3, <3>1, <3>2, <3>3, <3>4
  <2> QED BY <2>2, <2>3
<1>8. TransferTypeOK'
  <2>1. \A j \in Inst : snap'[j] # NoSnap => lock' = j /\ queue'[j] # <<>>
    BY <1>2, <1>3, <1>4
  <2> HIDE DEF Journal
  <2> QED BY <1>1, <1>2, <1>3, <1>5, <1>6, <2>1 DEF TransferInv, TransferTypeOK, Places
<1>9. TaskBooks'
  <2>1. ASSUME NEW j \in Inst PROVE QueueServes(j)'
    BY <1>3, <1>4, <1>7 DEF QueueServes
  <2>2. ASSUME NEW j \in Inst PROVE Bookless(j)'
    <3>1. CASE j = i
      BY <1>1, <1>4, <1>5, <3>1 DEF Bookless
    <3>2. CASE j # i
      BY <1>1, <1>3, <1>4, <1>5, <1>7, <3>2 DEF Bookless
    <3> QED BY <3>1, <3>2
  <2>3. ASSUME NEW j \in Inst PROVE ClaimIsMerged(j)'
    BY <1>2, <1>3, <1>4 DEF ClaimIsMerged, Mine
  <2>4. ASSUME NEW j \in Inst, NEW u \in Task PROVE TaskRuns(j, u)'
    <3>1. CASE j # i
      BY <1>1, <1>4, <1>5, <1>7, <3>1 DEF TaskRuns, Active
    <3>2. CASE j = i
      BY <1>1, <1>4, <1>5, <1>7, <3>2 DEF TaskRuns, Active
    <3> QED BY <3>1, <3>2
  <2>5. ASSUME NEW j \in Inst, NEW u \in Task PROVE WorkIsClaimed(j, u)'
    <3>1. AtWork(j, u)' => AtWork(j, u)
      BY <1>7 DEF AtWork
    <3> QED BY <1>1, <1>2, <1>4, <3>1 DEF WorkIsClaimed, Mine
  <2>6. ASSUME NEW u \in Task PROVE Given(u)'
    BY <1>1, <1>2, <1>4, <1>7 DEF Given, TaskRuns
  <2> QED BY <2>1, <2>2, <2>3, <2>4, <2>5, <2>6 DEF TaskBooks
<1>10. NothingOrphaned'
  <2>1. OnePerProcess' => OnePerProcess
    BY <1>5 DEF OnePerProcess
  <2>2. \A j \in Inst, u \in Task : Leaves(j, u)' => Leaves(j, u)
    BY <1>7 DEF Leaves
  <2> QED BY <1>1, <1>2, <2>1, <2>2 DEF TransferInv, NothingOrphaned, LeavesClean, PartialHasEntry, Mine
<1> QED BY <1>8, <1>9, <1>10 DEF TransferInv

(* The journal to be, entry by entry.                                      *)
LEMMA MergedEntries ==
  ASSUME TransferInv, NEW i \in Inst
  PROVE  /\ Merged(i) \in Journal
         /\ \A u \in Task :
              IF u \in owned[i] THEN
                IF task[i][u] = "done" THEN Merged(i)[u] = NoRecord
                ELSE /\ Merged(i)[u] # NoRecord
                     /\ task[i][u] = "running" => Mine(Merged(i)[u], i)
              ELSE Merged(i)[u] = IF u \in removed[i] THEN NoRecord ELSE journal[u]
<1> DEFINE rec(u) == [status |-> task[i][u], owner |-> i, begun |-> u \in begun[i]]
<1>1. /\ \A u \in Task : u \in owned[i] => task[i][u] # "absent"
      /\ \A u \in Task : task[i][u] \in Status /\ journal[u] \in Record \union {NoRecord}
  BY DEF TransferInv, TransferTypeOK, TaskBooks, TaskRuns, Journal
<1>2. ASSUME NEW u \in Task, task[i][u] \notin {"absent", "done"}
      PROVE  rec(u) \in Record /\ rec(u) # NoRecord /\ rec(u).status = task[i][u] /\ rec(u).owner = i
  <2>1. rec(u) \in Record /\ rec(u).status = task[i][u] /\ rec(u).owner = i
    BY <1>1, <1>2 DEF Record
  <2> QED BY <2>1, JournalAssumption
<1>3. \A u \in Task :
        Merged(i)[u] = IF u \in owned[i] THEN IF task[i][u] \in {"absent", "done"} THEN NoRecord ELSE rec(u)
                       ELSE IF u \in removed[i] THEN NoRecord ELSE journal[u]
  BY DEF Merged
<1>4. Merged(i) = [u \in Task |-> Merged(i)[u]]
  BY DEF Merged
<1> HIDE DEF rec, Record
<1>5. \A u \in Task : Merged(i)[u] \in Record \union {NoRecord}
  BY <1>1, <1>2, <1>3
<1>6. Merged(i) \in Journal
  BY <1>4, <1>5 DEF Journal
<1> QED BY <1>1, <1>2, <1>3, <1>6 DEF Mine

(* A task somebody is at, or about to take out of the journal, keeps its   *)
(* entry when another instance merges its own tasks.                       *)
LEMMA MergeSpares ==
  ASSUME TransferInv, NEW i \in Inst, ~Conflict(i), NEW j \in Inst, i # j, NEW u \in Task,
         Mine(journal[u], j),
         IF Pid[j] = Pid[i] THEN Active(j) ELSE inst[j] # "crashed"
  PROVE  Merged(i)[u] = journal[u]
<1>1. HeldElsewhere(i, u)
  BY DEF HeldElsewhere, OwnerIsActive, Mine
<1>2. u \notin owned[i] \union removed[i]
  BY <1>1 DEF Conflict
<1> QED BY <1>2, MergedEntries

LEMMA MergeKeeps ==
  ASSUME TransferInv, NEW i \in Inst, Merge(i)
  PROVE  TransferInv'
<1> DEFINE m == Merged(i)
<1>1. /\ lock = i /\ queue[i] # <<>> /\ snap[i] = NoSnap /\ ~Conflict(i)
      /\ snap' = [snap EXCEPT ![i] = m]
      /\ UNCHANGED <<inst, loaded, task, begun, owned, removed, pc, queue, lock, journal, used, partial>>
  BY DEF Merge, files
<1>2. /\ m \in Journal
      /\ \A u \in Task :
           IF u \in owned[i] THEN
             IF task[i][u] = "done" THEN m[u] = NoRecord
             ELSE /\ m[u] # NoRecord
                  /\ task[i][u] = "running" => Mine(m[u], i)
           ELSE m[u] = IF u \in removed[i] THEN NoRecord ELSE journal[u]
  BY MergedEntries
<1>3. ASSUME NEW j \in Inst, i # j, NEW u \in Task, Mine(journal[u], j),
             IF Pid[j] = Pid[i] THEN Active(j) ELSE inst[j] # "crashed"
      PROVE  Mine(m[u], j)
  BY <1>1, <1>3, MergeSpares
<1> HIDE DEF m
<1>4. /\ snap' \in [Inst -> Journal \union {NoSnap}] /\ snap'[i] = m
      /\ \A j \in Inst : j # i => snap'[j] = NoSnap
  <2>1. snap \in [Inst -> Journal \union {NoSnap}] /\ \A j \in Inst : j # i => snap[j] = NoSnap
    BY <1>1, OneSnap DEF TransferInv, TransferTypeOK
  <2> HIDE DEF Journal
  <2> QED BY <1>1, <1>2, <2>1
<1>5. /\ \A j \in Inst, u \in Task : TaskRuns(j, u) /\ WorkIsClaimed(j, u)
      /\ \A j \in Inst : Bookless(j) /\ ClaimIsMerged(j) /\ QueueServes(j)
      /\ \A u \in Task : Given(u)
  BY DEF TransferInv, TaskBooks
<1>6. TransferTypeOK'
  BY <1>1, <1>4 DEF TransferInv, TransferTypeOK
<1>7. TaskBooks'
  <2>1. ASSUME NEW j \in Inst PROVE QueueServes(j)' /\ Bookless(j)'
    BY <1>1, <1>5 DEF QueueServes, Bookless
  <2>2. ASSUME NEW j \in Inst PROVE ClaimIsMerged(j)'
    <3> SUFFICES ASSUME j = i, Head(queue[i]).kind \in {"claim", "dclaim"}
                 PROVE  Mine(m[Head(queue[i]).id], i)
      BY <1>1, <1>4 DEF ClaimIsMerged, Mine
    <3> DEFINE t == Head(queue[i]).id
    <3>1. queue[i] \in Seq(Waiting) /\ queue[i] # <<>>
      BY <1>1 DEF TransferInv, TransferTypeOK
    <3>2. Head(queue[i]) = queue[i][1] /\ 1 \in 1..Len(queue[i])
      BY <3>1, QueueTail
    <3>3. t \in Task
      BY <3>1, <3>2, QueueHolds
    <3>4. pc[i][t] \in {"claim", "dclaim"}
      BY <1>5, <3>2 DEF QueueServes, Serves, Turns
    <3>5. task[i][t] = "running" /\ t \in owned[i]
      BY <1>5, <3>3, <3>4 DEF TaskRuns
    <3> HIDE DEF t
    <3>6. Mine(m[t], i)
      BY <1>2, <3>3, <3>5
    <3> QED BY <3>6 DEF t
  <2>3. ASSUME NEW j \in Inst, NEW u \in Task PROVE TaskRuns(j, u)'
    BY <1>1, <1>5 DEF TaskRuns, Active
  <2>4. ASSUME NEW j \in Inst, NEW u \in Task PROVE WorkIsClaimed(j, u)'
    <3> SUFFICES ASSUME AtWork(j, u) PROVE Mine(journal[u], j) /\ Mine(m[u], j)
      BY <1>1, <1>4 DEF WorkIsClaimed, AtWork, Mine
    <3>1. Mine(journal[u], j) /\ task[j][u] = "running" /\ Active(j) /\ u \in owned[j]
      BY <1>5 DEF WorkIsClaimed, TaskRuns, AtWork
    <3>2. CASE j = i
      BY <1>2, <3>1, <3>2
    <3>3. CASE j # i
      BY <1>3, <3>1, <3>3 DEF Active
    <3> QED BY <3>1, <3>2, <3>3
  <2>5. ASSUME NEW u \in Task PROVE Given(u)'
    BY <1>1, <1>2, <1>4, <1>5 DEF Given, TaskRuns
  <2> QED BY <2>1, <2>2, <2>3, <2>4, <2>5 DEF TaskBooks
<1>8. NothingOrphaned'
  <2> SUFFICES ASSUME OnePerProcess
               PROVE  /\ \A j \in Inst, u \in Task : LeavesClean(j, u)'
                      /\ \A u \in Task : PartialHasEntry(u)'
    BY <1>1 DEF NothingOrphaned, OnePerProcess
  <2>1. /\ \A j \in Inst, u \in Task : LeavesClean(j, u)
        /\ \A u \in Task : PartialHasEntry(u)
    BY DEF TransferInv, NothingOrphaned
  <2>2. ASSUME NEW j \in Inst, NEW u \in Task PROVE LeavesClean(j, u)'
    <3> SUFFICES ASSUME Leaves(j, u)
                 PROVE  u \notin partial /\ Mine(journal[u], j) /\ (i # j => Mine(m[u], j))
      BY <1>1, <1>4 DEF LeavesClean, Leaves, Mine
    <3>1. u \notin partial /\ Mine(journal[u], j)
      BY <2>1 DEF LeavesClean
    <3>2. inst[j] \notin {"new", "crashed"} /\ inst[i] \notin {"new", "crashed"}
      BY <1>1, <1>5 DEF Bookless, Leaves
    <3>3. i # j => Pid[i] # Pid[j]
      BY <3>2 DEF OnePerProcess
    <3> QED BY <1>3, <3>1, <3>2, <3>3
  <2>3. ASSUME NEW u \in Task PROVE PartialHasEntry(u)'
    <3> SUFFICES ASSUME u \in partial PROVE journal[u] # NoRecord /\ m[u] # NoRecord
      BY <1>1, <1>4 DEF PartialHasEntry
    <3>1. journal[u] # NoRecord /\ ~Leaves(i, u)
      BY <2>1 DEF PartialHasEntry, LeavesClean
    <3> QED BY <1>2, <3>1 DEF Leaves
  <2> QED BY <2>2, <2>3
<1> QED BY <1>6, <1>7, <1>8 DEF TransferInv

(* What a call does whose turn was journaled.                              *)
LEMMA PersistedDoes ==
  ASSUME TransferInv, NEW i \in Inst, queue[i] # <<>>, Persisted(i)
  PROVE  LET w == Head(queue[i])
         IN  /\ w.id \in Task /\ w.kind \in Kinds /\ (w.kind \in Turns => pc[i][w.id] = w.kind)
             /\ w.kind = "claim" => /\ task' = [task EXCEPT ![i][w.id] = "running"]
                                    /\ pc' = [pc EXCEPT ![i][w.id] = "xfer"]
             /\ w.kind = "dclaim" => /\ task' = [task EXCEPT ![i][w.id] = "running"]
                                     /\ pc' = [pc EXCEPT ![i][w.id] = "dunlink"]
             /\ w.kind = "dfinal" => /\ task' = [task EXCEPT ![i][w.id] = "absent"]
                                     /\ pc' = [pc EXCEPT ![i][w.id] = "idle"]
             /\ w.kind \notin Turns => UNCHANGED <<task, pc>>
             /\ queue' \in [Inst -> Seq(Waiting)] /\ Serves(queue'[i], pc'[i])
             /\ \A j \in Inst : j # i => queue'[j] = queue[j]
             /\ ReleaseIfIdle(i) \/ UNCHANGED inst
<1> DEFINE w == Head(queue[i])
           t == w.id
           q == Tail(queue[i])
<1>1. /\ queue \in [Inst -> Seq(Waiting)] /\ pc \in [Inst -> [Task -> Places]]
      /\ queue[i] \in Seq(Waiting) /\ pc[i] \in [Task -> Places] /\ Serves(queue[i], pc[i])
  BY DEF TransferInv, TransferTypeOK, Places, TaskBooks, QueueServes
<1>2. w \in Waiting /\ q \in Seq(Waiting)
  BY <1>1, QueueTail
<1>3. t \in Task /\ w.kind \in Kinds
  BY <1>2 DEF Waiting, Kinds
<1>4. /\ w.kind \in Turns => pc[i][t] = w.kind
      /\ \A p \in Places : w.kind \in Turns => Serves(q, [pc[i] EXCEPT ![t] = p])
      /\ w.kind \notin Turns => Serves(q, pc[i])
  BY <1>1, ServesTail DEF Places
<1>5. /\ w.kind = "claim" => SetTask(i, t, "running", "xfer")
      /\ w.kind = "dclaim" => SetTask(i, t, "running", "dunlink")
      /\ w.kind = "dfinal" => SetTask(i, t, "absent", "idle")
      /\ w.kind \in {"final", "undo"} => UNCHANGED <<task, pc>>
      /\ queue' = [queue EXCEPT ![i] = q]
      /\ ReleaseIfIdle(i) \/ UNCHANGED inst
  BY DEF Persisted
<1> HIDE DEF w, t, q
<1>6. queue' \in [Inst -> Seq(Waiting)] /\ queue'[i] = q /\ \A j \in Inst : j # i => queue'[j] = queue[j]
  BY <1>1, <1>2, <1>5
<1>7. Serves(queue'[i], pc'[i])
  <2>1. CASE w.kind \notin Turns
    BY <1>3, <1>4, <1>5, <1>6, <2>1 DEF Kinds, Turns
  <2>2. CASE w.kind \in Turns
    <3>1. PICK p \in Places : pc' = [pc EXCEPT ![i][t] = p]
      BY <1>5, <2>2 DEF Turns, SetTask, Places
    <3>2. pc'[i] = [pc[i] EXCEPT ![t] = p]
      BY <1>1, <3>1
    <3> QED BY <1>4, <1>6, <2>2, <3>2
  <2> QED BY <2>1, <2>2
<1>8. /\ w.kind = "claim" => /\ task' = [task EXCEPT ![i][t] = "running"]
                             /\ pc' = [pc EXCEPT ![i][t] = "xfer"]
      /\ w.kind = "dclaim" => /\ task' = [task EXCEPT ![i][t] = "running"]
                              /\ pc' = [pc EXCEPT ![i][t] = "dunlink"]
      /\ w.kind = "dfinal" => /\ task' = [task EXCEPT ![i][t] = "absent"]
                              /\ pc' = [pc EXCEPT ![i][t] = "idle"]
      /\ w.kind \notin Turns => UNCHANGED <<task, pc>>
  BY <1>3, <1>5 DEF SetTask, Kinds, Turns
<1> QED BY <1>3, <1>4, <1>5, <1>6, <1>7, <1>8 DEF w, t

LEMMA LandKeeps ==
  ASSUME TransferInv, NEW i \in Inst, Land(i)
  PROVE  TransferInv'
<1> DEFINE w == Head(queue[i])
           t == w.id
           mine == {u \in owned[i] : task[i][u] = "running"}
<1>1. /\ snap[i] # NoSnap /\ lock = i /\ queue[i] # <<>> /\ Persisted(i)
      /\ journal' = snap[i] /\ snap' = [snap EXCEPT ![i] = NoSnap] /\ lock' = NoInst
      /\ removed' = [removed EXCEPT ![i] = {}] /\ owned' = [owned EXCEPT ![i] = mine]
      /\ UNCHANGED <<loaded, begun, used, partial>>
  BY DEF Land, TransferInv, TransferTypeOK
<1>2. /\ t \in Task /\ w.kind \in Kinds /\ (w.kind \in Turns => pc[i][t] = w.kind)
      /\ w.kind = "claim" => /\ task' = [task EXCEPT ![i][t] = "running"]
                             /\ pc' = [pc EXCEPT ![i][t] = "xfer"]
      /\ w.kind = "dclaim" => /\ task' = [task EXCEPT ![i][t] = "running"]
                              /\ pc' = [pc EXCEPT ![i][t] = "dunlink"]
      /\ w.kind = "dfinal" => /\ task' = [task EXCEPT ![i][t] = "absent"]
                              /\ pc' = [pc EXCEPT ![i][t] = "idle"]
      /\ w.kind \notin Turns => UNCHANGED <<task, pc>>
      /\ queue' \in [Inst -> Seq(Waiting)] /\ Serves(queue'[i], pc'[i])
      /\ \A j \in Inst : j # i => queue'[j] = queue[j]
      /\ ReleaseIfIdle(i) \/ UNCHANGED inst
  BY <1>1, PersistedDoes
<1>3. /\ \A j \in Inst, u \in Task : TaskRuns(j, u) /\ WorkIsClaimed(j, u)
      /\ \A j \in Inst : Bookless(j) /\ QueueServes(j)
      /\ \A u \in Task : Given(u)
      /\ w.kind \in {"claim", "dclaim"} => Mine(snap[i][t], i)
  BY <1>1 DEF TransferInv, TaskBooks, ClaimIsMerged
<1>4. \A j \in Inst : j # i => snap[j] = NoSnap
  BY <1>1, OneSnap
<1>5. /\ task \in [Inst -> [Task -> Status]] /\ pc \in [Inst -> [Task -> Places]]
      /\ owned \in [Inst -> SUBSET Task] /\ removed \in [Inst -> SUBSET Task]
      /\ snap \in [Inst -> Journal \union {NoSnap}]
  BY DEF TransferInv, TransferTypeOK, Places
<1>6. mine \in SUBSET Task /\ \A u \in Task : u \in mine <=> u \in owned[i] /\ task[i][u] = "running"
  BY <1>5
<1> HIDE DEF w, t, mine
<1>7. /\ inst' \in [Inst -> {"new", "up", "closing", "gone", "crashed"}]
      /\ \A j \in Inst : j # i => inst'[j] = inst[j]
      /\ \/ inst'[i] = inst[i]
         \/ inst[i] = "closing" /\ inst'[i] = "gone" /\ \A u \in Task : task'[i][u] # "running"
  BY <1>2, ReleaseGoes
<1>8. /\ owned' \in [Inst -> SUBSET Task] /\ owned'[i] = mine /\ \A j \in Inst : j # i => owned'[j] = owned[j]
      /\ removed' \in [Inst -> SUBSET Task] /\ removed'[i] = {}
      /\ \A j \in Inst : j # i => removed'[j] = removed[j]
  BY <1>1, <1>5, <1>6
<1>9. /\ snap' \in [Inst -> Journal \union {NoSnap}] /\ \A j \in Inst : snap'[j] = NoSnap
      /\ journal' \in Journal
  <2> HIDE DEF Journal
  <2> QED BY <1>1, <1>4, <1>5
<1>10. /\ task' \in [Inst -> [Task -> Status]] /\ pc' \in [Inst -> [Task -> Places]]
       /\ \A j \in Inst : j # i => task'[j] = task[j] /\ pc'[j] = pc[j]
       /\ \A u \in Task : u # t => task'[i][u] = task[i][u] /\ pc'[i][u] = pc[i][u]
       /\ \/ task'[i][t] = task[i][t] /\ pc'[i][t] = pc[i][t]
          \/ /\ w.kind \in {"claim", "dclaim"} /\ pc[i][t] \in {"claim", "dclaim"}
             /\ task'[i][t] = "running" /\ pc'[i][t] \in {"xfer", "dunlink"}
          \/ /\ pc[i][t] = "dfinal" /\ task'[i][t] = "absent" /\ pc'[i][t] = "idle"
  <2>1. {"running", "absent"} \subseteq Status /\ {"xfer", "dunlink", "idle"} \subseteq Places
    BY DEF Status, Places
  <2>2. CASE w.kind \in {"claim", "dclaim"}
    <3>1. PICK p \in {"xfer", "dunlink"} : /\ pc' = [pc EXCEPT ![i][t] = p]
                                           /\ task' = [task EXCEPT ![i][t] = "running"]
      BY <1>2, <2>2
    <3>2. pc[i][t] \in {"claim", "dclaim"}
      BY <1>2, <2>2 DEF Turns
    <3>3. task' \in [Inst -> [Task -> Status]] /\ pc' \in [Inst -> [Task -> Places]]
      BY <1>2, <1>5, <2>1, <3>1
    <3> QED BY <1>2, <1>5, <2>2, <3>1, <3>2, <3>3
  <2>3. CASE w.kind = "dfinal"
    <3>1. pc[i][t] = "dfinal" /\ task' = [task EXCEPT ![i][t] = "absent"] /\ pc' = [pc EXCEPT ![i][t] = "idle"]
      BY <1>2, <2>3 DEF Turns
    <3>2. task' \in [Inst -> [Task -> Status]] /\ pc' \in [Inst -> [Task -> Places]]
      BY <1>2, <1>5, <2>1, <3>1
    <3> QED BY <1>2, <1>5, <3>1, <3>2
  <2>4. CASE w.kind \notin Turns
    BY <1>2, <1>5, <2>4
  <2> QED BY <2>2, <2>3, <2>4 DEF Turns
<1>11. TransferTypeOK'
  <2>1. /\ loaded' \subseteq Inst /\ begun' \in [Inst -> SUBSET Task]
        /\ used' \subseteq Task /\ partial' \subseteq used'
    BY <1>1 DEF TransferInv, TransferTypeOK
  <2> HIDE DEF Journal, Waiting, Status
  <2> QED BY <1>1, <1>2, <1>7, <1>8, <1>9, <1>10, <2>1 DEF TransferTypeOK, Places
<1>12. \A j \in Inst, u \in Task :
         AtWork(j, u)' => AtWork(j, u) \/ (j = i /\ u = t /\ w.kind \in {"claim", "dclaim"})
  BY <1>10 DEF AtWork
<1>13. TaskBooks'
  <2>1. ASSUME NEW j \in Inst PROVE QueueServes(j)' /\ ClaimIsMerged(j)'
    BY <1>2, <1>3, <1>9, <1>10 DEF QueueServes, ClaimIsMerged
  <2>2. ASSUME NEW j \in Inst PROVE Bookless(j)'
    <3>1. CASE j = i
      BY <1>1, <1>3, <1>7, <3>1 DEF Bookless
    <3>2. CASE j # i
      BY <1>1, <1>2, <1>3, <1>7, <1>8, <3>2 DEF Bookless
    <3> QED BY <3>1, <3>2
  <2>3. ASSUME NEW j \in Inst, NEW u \in Task PROVE TaskRuns(j, u)'
    <3>1. TaskRuns(j, u) /\ TaskRuns(i, u)
      BY <1>3
    <3>2. CASE j # i
      BY <1>1, <1>7, <1>8, <1>10, <3>1, <3>2 DEF TaskRuns, Active
    <3>3. CASE j = i /\ u # t
      BY <1>1, <1>6, <1>7, <1>8, <1>10, <3>1, <3>3 DEF TaskRuns, Active
    <3>4. CASE j = i /\ u = t
      BY <1>1, <1>6, <1>7, <1>8, <1>10, <3>1, <3>4 DEF TaskRuns, Active
    <3> QED BY <3>2, <3>3, <3>4
  <2>4. ASSUME NEW j \in Inst, NEW u \in Task PROVE WorkIsClaimed(j, u)'
    BY <1>1, <1>3, <1>9, <1>12 DEF WorkIsClaimed, Mine
  <2>5. ASSUME NEW u \in Task PROVE Given(u)'
    <3> SUFFICES ASSUME u \notin used
                 PROVE  snap[i][u] = NoRecord /\ \A j \in Inst : task'[j][u] = "absent"
      BY <1>1, <1>9 DEF Given
    <3>1. snap[i][u] = NoRecord /\ \A j \in Inst : task[j][u] = "absent"
      BY <1>1, <1>3 DEF Given
    <3>2. pc[i][u] = "idle"
      BY <1>3, <3>1 DEF TaskRuns
    <3> QED BY <1>10, <3>1, <3>2
  <2> QED BY <2>1, <2>2, <2>3, <2>4, <2>5 DEF TaskBooks
<1>14. NothingOrphaned'
  <2> SUFFICES ASSUME OnePerProcess'
               PROVE  /\ \A j \in Inst, u \in Task : LeavesClean(j, u)'
                      /\ \A u \in Task : PartialHasEntry(u)'
    BY DEF NothingOrphaned
  <2>1. OnePerProcess
    BY <1>7 DEF OnePerProcess
  <2>2. /\ \A j \in Inst, u \in Task : LeavesClean(j, u)
        /\ \A u \in Task : PartialHasEntry(u)
    BY <2>1 DEF TransferInv, NothingOrphaned
  <2>3. ASSUME NEW j \in Inst, NEW u \in Task PROVE LeavesClean(j, u)'
    <3>1. Leaves(j, u)' => j # i /\ Leaves(j, u)
      BY <1>6, <1>8, <1>10 DEF Leaves
    <3> QED BY <1>1, <1>9, <2>2, <3>1 DEF LeavesClean, Mine
  <2>4. ASSUME NEW u \in Task PROVE PartialHasEntry(u)'
    BY <1>1, <1>9, <2>2 DEF PartialHasEntry
  <2> QED BY <2>3, <2>4
<1> QED BY <1>11, <1>13, <1>14 DEF TransferInv

-----------------------------------------------------------------------------
LEMMA TransferKeeps == TransferInv /\ [TransferNext]_taskVars => TransferInv'
<1> SUFFICES ASSUME TransferInv, [TransferNext]_taskVars PROVE TransferInv'
  OBVIOUS
<1>1. ASSUME NEW i \in Inst, NewInst(i) \/ Load(i) \/ Unload(i) PROVE TransferInv'
  BY <1>1, InstanceKeeps
<1>2. ASSUME NEW i \in Inst, PersistStep(i) PROVE TransferInv'
  BY <1>2, TakeLockKeeps, NotPersistedKeeps, MergeKeeps, LandKeeps DEF PersistStep
<1>3. ASSUME NEW i \in Inst, NEW t \in Task, TaskStep(i, t) PROVE TransferInv'
  BY <1>3, TaskStepMoves, MoveKeeps
<1>4. ASSUME NEW i \in Inst, Crash(Pid[i]) PROVE TransferInv'
  BY <1>4, CrashKeeps
<1>5. CASE UNCHANGED taskVars
  <2>1. UNCHANGED <<inst, loaded, task, begun, owned, removed, pc, queue, snap, lock, journal, used, partial>>
    BY <1>5 DEF taskVars, memory, files
  <2>2. TransferTypeOK'
    BY <2>1 DEF TransferInv, TransferTypeOK
  <2>3. TaskBooks'
    BY <2>1 DEF TransferInv, TaskBooks, QueueServes, Bookless, ClaimIsMerged, TaskRuns, WorkIsClaimed,
                Given, Active, AtWork, Mine
  <2>4. NothingOrphaned'
    BY <2>1 DEF TransferInv, NothingOrphaned, OnePerProcess, LeavesClean, Leaves, PartialHasEntry, Mine
  <2> QED BY <2>2, <2>3, <2>4 DEF TransferInv
<1> QED BY <1>1, <1>2, <1>3, <1>4, <1>5 DEF TransferNext

(* The books of the instances and the journal they share agree, whoever    *)
(* contends for it and whatever process dies.                              *)
THEOREM TransferInvariant == TransferSpec => []TransferInv
BY TransferBegins, TransferKeeps, PTL DEF TransferSpec

LEMMA TransferInvMeans == TransferInv => TransferTypeOK /\ TasksExclusive
<1> SUFFICES ASSUME TransferInv PROVE TransferTypeOK /\ TasksExclusive
  OBVIOUS
<1>1. OneWriter
  <2> SUFFICES ASSUME NEW t \in Task, NEW i \in Inst, NEW j \in Inst, AtWork(i, t), AtWork(j, t)
               PROVE  i = j
    BY DEF OneWriter
  <2>1. Mine(journal[t], i) /\ Mine(journal[t], j)
    BY DEF TransferInv, TaskBooks, WorkIsClaimed
  <2> QED BY <2>1 DEF Mine
<1>2. NoOrphanPartial
  BY DEF TransferInv, TransferTypeOK, NothingOrphaned, PartialHasEntry, NoOrphanPartial
<1> QED BY <1>1, <1>2 DEF TransferInv, TasksExclusive

(* A partial has one writer at most; and while a process has one instance  *)
(* at a time, an entry in the journal to find it by, after every crash.    *)
THEOREM TasksAreExclusive == TransferSpec => []TasksExclusive
<1>1. TransferInv => TasksExclusive
  BY TransferInvMeans
<1> QED BY <1>1, TransferInvariant, PTL

-----------------------------------------------------------------------------
(* The joined system: one of the three moves, the others stand still.      *)
FilesInv == UploadInv /\ TransferInv /\ PipelineInv

THEOREM FilesInvariant == FilesSpec => []FilesInv
<1>1. FilesInit => FilesInv
  BY UploadBegins, TransferBegins, PipelineStarts DEF FilesInit, FilesInv
<1>2. FilesInv /\ [FilesNext]_<<uploadVars, taskVars, pipeVars>> => FilesInv'
  BY UploadKeeps, TransferKeeps, PipelineSteps DEF FilesInv, FilesNext
<1> QED BY <1>1, <1>2, PTL DEF FilesSpec

(* No stream of a discarded upload runs on, the journal is written under   *)
(* its lock, the launched blocks come before the next.                     *)
THEOREM FilesTypeCorrect == FilesSpec => []FilesTypeOK
<1>1. FilesInv => FilesTypeOK
  BY TransferInvMeans DEF FilesInv, UploadInv, PipelineInv, FilesTypeOK
<1> QED BY <1>1, FilesInvariant, PTL

(* What an upload or a resumable task leaves behind is accounted for, in   *)
(* every order of events and after every crash.                            *)
THEOREM TransfersAreSound == FilesSpec => []TransfersSound
<1>1. FilesInv => TransfersSound
  BY UploadInvMeans, TransferInvMeans DEF FilesInv, TransfersSound
<1> QED BY <1>1, FilesInvariant, PTL
=============================================================================
