------------------------------ MODULE MCFiles ------------------------------
(* The file transfer modules for TLC: streaming uploads, resumable tasks   *)
(* and the block pipeline.  They share no state, so a behaviour moves in   *)
(* one of them only: the state space is the union of theirs.               *)
EXTENDS StreamUpload, TransferTasks, SftpPipeline, TLC
CONSTANTS fresh1, keep1, a1, a2, b1, t1, t2

MCPid == [i \in Inst |-> IF i = b1 THEN "b" ELSE "a"]

FilesInit == UploadInit /\ TransferInit /\ PipelineInit

UploadMoved   == \E u \in Upload : stage[u] # "idle"
TransferMoved == \E i \in Inst : inst[i] # "new"
PipelineMoved == phase # "open"

(* Only what some client or instance started counts as a move.             *)
FilesNext ==
  \/ ~TransferMoved /\ ~PipelineMoved /\ UploadNext /\ UNCHANGED <<taskVars, pipeVars>>
  \/ ~UploadMoved /\ ~PipelineMoved /\ sshUp /\ TransferNext /\ UNCHANGED <<uploadVars, pipeVars>>
  \/ ~UploadMoved /\ ~TransferMoved /\ sshUp /\ PipelineNext /\ UNCHANGED <<uploadVars, taskVars>>

FilesSpec ==
  /\ FilesInit /\ [][FilesNext]_<<uploadVars, taskVars, pipeVars>>
  /\ \A u \in Upload : WF_uploadVars(Awaits(u))
  /\ \A i \in Inst : WF_taskVars(PersistStep(i))

(* Resumable tasks: two processes, or two instances of one process, share  *)
(* a task; or one instance has two tasks.                                  *)
Started == {i \in Inst : inst[i] # "new"}
OneScenario ==
  \/ used \subseteq {t1} /\ (Started \subseteq {a1, b1} \/ Started \subseteq {a1, a2})
  \/ Started \subseteq {a1}

(* The types of the three modules, with the bookkeeping each relates: no   *)
(* stream of a discarded upload runs on, a snapshot is held under the lock, *)
(* launched blocks come before the next one.                               *)
FilesTypeOK == UploadTypeOK /\ TransferTypeOK /\ PipelineTypeOK

(* The first task of the first instance, which every scenario has, does    *)
(* not wait forever for persist, even behind a lock a crash left.          *)
ClaimsSettle == ClaimSettles(a1, t1)

(* What an upload or a resumable task leaves behind is accounted for: a    *)
(* partial has an owner or is reported, and never two writers.             *)
TransfersSound == UploadsAccounted /\ TasksExclusive

(* No handler outlives its SSH connection and no claim waits forever.      *)
FilesSettle == NoZombies /\ ClaimsSettle
=============================================================================
