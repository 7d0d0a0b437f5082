---------------------------- MODULE TransferTasks ----------------------------
(***************************************************************************)
(* Resumable uploads: TransferTasks (transfer-tasks.js), sftpUploadLocalFile*)
(* and sftpTransferDiscard.  Instances of the service, in one or several   *)
(* processes, share a journal file guarded by a lock file.  An instance    *)
(* claims a task by journaling it as running before it touches the partial *)
(* file, and journals it again when it stops.  The calls of persist of one *)
(* instance queue behind each other; each journals what the instance's     *)
(* tasks are when its turn comes.                                          *)
(***************************************************************************)
EXTENDS Naturals, Sequences
CONSTANTS
  Inst,     \* instances of TransferTasks; the name is the ownerToken
  Pid,      \* the process of each
  Task,     \* task ids, each with its partial on the one server
  FullDisk, \* the instances whose journal writes may fail
  NoInst, NoSnap, NoRecord, \* no holder of the lock, no write under way, no entry
  MaxQueue  \* bound: calls of persist an instance may have waiting

ASSUME TransferAssumption ==
  /\ NoInst \notin Inst /\ FullDisk \subseteq Inst /\ MaxQueue \in Nat
  /\ Pid \in [Inst -> {Pid[i] : i \in Inst}]

VARIABLES
  inst,    \* "new", "up", "closing" (unloaded, not yet idle), "gone" or "crashed"
  loaded,  \* the instances that have read the journal
  task,    \* the status of each task in each instance's entries
  begun,   \* the tasks of each instance with a checkpoint beyond 0
  owned, removed, \* ownedIds and removedIds
  pc,      \* where the call that works on a task is
  queue,   \* writeQueue: the callers waiting for persist, the first is served
  snap,    \* the merged journal an instance is writing
  lock,    \* the owner of the lock file
  journal, \* the journal file
  used,    \* task ids that were given out
  partial  \* partial files on the server

memory == <<loaded, task, begun, owned, removed, pc, queue, snap>>
files  == <<lock, journal, used, partial>>
taskVars == <<inst, memory, files>>

(* "failed" also stands for "cancelled": no guard tells them apart.        *)
Status  == {"absent", "running", "failed", "done"}
Record  == [status : Status \ {"absent", "done"}, owner : Inst, begun : BOOLEAN]
Waiting == [id : Task, kind : {"claim", "final", "dclaim", "dfinal", "undo"}]
Journal == [Task -> Record \union {NoRecord}]

ASSUME JournalAssumption == NoRecord \notin Record /\ NoSnap \notin Journal

(* Types; only an instance that holds the lock writes the journal.         *)
TransferTypeOK ==
  /\ inst \in [Inst -> {"new", "up", "closing", "gone", "crashed"}]
  /\ loaded \subseteq Inst /\ task \in [Inst -> [Task -> Status]]
  /\ begun \in [Inst -> SUBSET Task] /\ used \subseteq Task /\ partial \subseteq used
  /\ owned \in [Inst -> SUBSET Task] /\ removed \in [Inst -> SUBSET Task]
  /\ pc \in [Inst -> [Task -> {"idle", "hash", "claim", "xfer", "sent", "dclaim", "dunlink", "dfinal"}]]
  /\ queue \in [Inst -> Seq(Waiting)] /\ snap \in [Inst -> Journal \union {NoSnap}]
  /\ lock \in Inst \union {NoInst} /\ journal \in Journal
  /\ \A i \in Inst : snap[i] # NoSnap => lock = i /\ queue[i] # <<>>

TransferInit ==
  /\ inst = [i \in Inst |-> "new"] /\ loaded = {} /\ used = {} /\ partial = {}
  /\ task = [i \in Inst |-> [t \in Task |-> "absent"]]
  /\ pc = [i \in Inst |-> [t \in Task |-> "idle"]]
  /\ begun = [i \in Inst |-> {}] /\ owned = begun /\ removed = begun
  /\ queue = [i \in Inst |-> <<>>] /\ snap = [i \in Inst |-> NoSnap]
  /\ lock = NoInst /\ journal = [t \in Task |-> NoRecord]

-----------------------------------------------------------------------------
Active(i) == inst[i] \in {"up", "closing"}

(* ownerIsActive, as instance i sees the record: its own process knows its *)
(* tokens, another process only whether the pid is alive.                  *)
OwnerIsActive(i, r) ==
  /\ r # NoRecord /\ r.status = "running"
  /\ IF Pid[r.owner] = Pid[i] THEN Active(r.owner) ELSE inst[r.owner] # "crashed"

HeldElsewhere(i, t) == journal[t] # NoRecord /\ journal[t].owner # i /\ OwnerIsActive(i, journal[t])

NewInst(i) ==
  /\ inst[i] = "new" /\ inst' = [inst EXCEPT ![i] = "up"]
  /\ \A j \in Inst : Pid[j] = Pid[i] => inst[j] # "crashed"
  /\ UNCHANGED <<memory, files>>

(* load: once; what an active instance works on stays its own.             *)
Load(i) ==
  /\ inst[i] = "up" /\ i \notin loaded
  /\ loaded' = loaded \union {i}
  /\ LET mine == {t \in Task : journal[t] # NoRecord /\ ~HeldElsewhere(i, t)}
     IN  /\ task' = [task EXCEPT ![i] = [t \in Task |-> IF t \in mine THEN "failed" ELSE @[t]]]
         /\ begun' = [begun EXCEPT ![i] = {t \in mine : journal[t].begun}]
  /\ UNCHANGED <<inst, owned, removed, pc, queue, snap, files>>

(* The status a task gets, and whether it stays in ownedIds.               *)
SetTask(i, t, status, at) ==
  /\ task' = [task EXCEPT ![i][t] = status]
  /\ pc' = [pc EXCEPT ![i][t] = at]

Persist(q, t, kind) == Append(q, [id |-> t, kind |-> kind])
Enqueue(i, t, kind) == queue' = [queue EXCEPT ![i] = Persist(@, t, kind)]

(* A call is accepted.                                                     *)
MayCall(i) == inst[i] = "up" /\ i \in loaded /\ Len(queue[i]) < MaxQueue
Resumable(i, t) == task[i][t] = "failed"

(* sftpUploadLocalFile: a new task, or a resumed one.                      *)
StartUpload(i, t) ==
  /\ MayCall(i) /\ t \notin used
  /\ used' = used \union {t}
  /\ SetTask(i, t, "running", "hash")
  /\ owned' = [owned EXCEPT ![i] = @ \union {t}]
  /\ UNCHANGED <<inst, loaded, begun, removed, queue, snap, lock, journal, partial>>

ResumeUpload(i, t) ==
  /\ MayCall(i) /\ Resumable(i, t) /\ pc[i][t] = "idle"
  /\ SetTask(i, t, "running", "hash")
  /\ owned' = [owned EXCEPT ![i] = @ \union {t}]
  /\ UNCHANGED <<inst, loaded, begun, removed, queue, snap, files>>

(* The source is hashed; the task is claimed in the journal.               *)
Claim(i, t) ==
  /\ pc[i][t] = "hash"
  /\ SetTask(i, t, "running", "claim") /\ Enqueue(i, t, "claim")
  /\ UNCHANGED <<inst, loaded, begun, owned, removed, snap, files>>

(* The pipeline writes, from the start or from a verified checkpoint; its  *)
(* progress becomes the checkpoint.                                        *)
WritePartial(i, t) ==
  /\ pc[i][t] = "xfer" /\ (t \in begun[i] => t \in partial)
  /\ SetTask(i, t, "running", "sent")
  /\ partial' = partial \union {t}
  /\ begun' \in {begun, [begun EXCEPT ![i] = @ \union {t}]}
  /\ UNCHANGED <<inst, loaded, owned, removed, queue, snap, lock, journal, used>>

(* The connection was lost and is back: another attempt; the partial is    *)
(* gone if it was the answer to the rename that got lost.                  *)
Retry(i, t) ==
  /\ pc[i][t] = "sent"
  /\ SetTask(i, t, "running", "xfer")
  /\ partial' \in {partial, partial \ {t}}
  /\ UNCHANGED <<inst, loaded, begun, owned, removed, queue, snap, lock, journal, used>>

(* The verified partial is renamed over the target.                        *)
Commit(i, t) ==
  /\ pc[i][t] = "sent" /\ t \in partial
  /\ partial' = partial \ {t}
  /\ SetTask(i, t, "done", "idle") /\ Enqueue(i, t, "final")
  /\ UNCHANGED <<inst, loaded, begun, owned, removed, snap, lock, journal, used>>

(* Any step of an upload fails, or it is cancelled.                        *)
StopUpload(i, t) ==
  /\ pc[i][t] \in {"hash", "xfer", "sent"}
  /\ SetTask(i, t, "failed", "idle") /\ Enqueue(i, t, "final")
  /\ UNCHANGED <<inst, loaded, begun, owned, removed, snap, files>>

(* sftpTransferDiscard: claim, unlink, forget.                             *)
DiscardTask(i, t) ==
  /\ MayCall(i) /\ Resumable(i, t) /\ pc[i][t] = "idle"
  /\ SetTask(i, t, "running", "dclaim") /\ Enqueue(i, t, "dclaim")
  /\ owned' = [owned EXCEPT ![i] = @ \union {t}]
  /\ UNCHANGED <<inst, loaded, begun, removed, snap, files>>

Unlink(i, t) ==
  /\ pc[i][t] = "dunlink"
  /\ partial' = partial \ {t}
  /\ removed' = [removed EXCEPT ![i] = @ \union {t}]
  /\ owned' = [owned EXCEPT ![i] = @ \ {t}]
  /\ SetTask(i, t, "running", "dfinal") /\ Enqueue(i, t, "dfinal")
  /\ UNCHANGED <<inst, loaded, begun, snap, lock, journal, used>>

(* The unlink fails, perhaps only its answer.                              *)
UnlinkFails(i, t) ==
  /\ pc[i][t] = "dunlink"
  /\ partial' \in {partial, partial \ {t}}
  /\ removed' = [removed EXCEPT ![i] = @ \ {t}]
  /\ owned' = [owned EXCEPT ![i] = @ \union {t}]
  /\ SetTask(i, t, "failed", "idle") /\ Enqueue(i, t, "undo")
  /\ UNCHANGED <<inst, loaded, begun, snap, lock, journal, used>>

-----------------------------------------------------------------------------
(* persist: the caller at the head of the queue gets its result.           *)
Idle(i) == \A t \in Task : task'[i][t] # "running"
ReleaseIfIdle(i) ==
  inst' = IF inst[i] = "closing" /\ Idle(i) THEN [inst EXCEPT ![i] = "gone"] ELSE inst

Persisted(i) ==
  LET w == Head(queue[i]) t == Head(queue[i]).id q == Tail(queue[i])
  IN  /\ CASE w.kind = "claim"  -> SetTask(i, t, "running", "xfer")
           [] w.kind = "dclaim" -> SetTask(i, t, "running", "dunlink")
           [] w.kind = "dfinal" -> SetTask(i, t, "absent", "idle")
           [] w.kind \in {"final", "undo"} -> UNCHANGED <<task, pc>>
      /\ queue' = [queue EXCEPT ![i] = q]
      /\ IF w.kind = "final" THEN ReleaseIfIdle(i) ELSE UNCHANGED inst

NotPersisted(i) ==
  LET w == Head(queue[i]) t == Head(queue[i]).id q == Tail(queue[i])
  IN  /\ CASE w.kind = "claim" ->
                /\ SetTask(i, t, "failed", "idle")
                /\ queue' = [queue EXCEPT ![i] = Persist(q, t, "final")]
                /\ UNCHANGED <<owned, removed>>
           [] w.kind = "dclaim" ->
                /\ SetTask(i, t, "failed", "idle")
                /\ owned' = [owned EXCEPT ![i] = @ \ {t}]
                /\ queue' = [queue EXCEPT ![i] = q] /\ UNCHANGED removed
           [] w.kind = "dfinal" ->
                /\ SetTask(i, t, "failed", "idle")
                /\ owned' = [owned EXCEPT ![i] = @ \union {t}]
                /\ removed' = [removed EXCEPT ![i] = @ \ {t}]
                /\ queue' = [queue EXCEPT ![i] = Persist(q, t, "undo")]
           [] w.kind \in {"final", "undo"} ->
                queue' = [queue EXCEPT ![i] = q] /\ UNCHANGED <<task, pc, owned, removed>>
      /\ IF w.kind = "final" THEN ReleaseIfIdle(i) ELSE UNCHANGED inst

IgnoresLock(i) == lock # i \* faulty variant
LockIsFree(i) == lock = NoInst

TakeLock(i) ==
  /\ queue[i] # <<>> /\ snap[i] = NoSnap /\ LockIsFree(i)
  /\ lock' = i
  /\ UNCHANGED <<inst, memory, journal, used, partial>>

WaitsForLock(i) == queue[i] # <<>> /\ lock \notin {i, NoInst} /\ UNCHANGED taskVars \* faulty variant

(* Sixty attempts found the lock taken: perhaps a crashed process left it. *)
LockTimeout(i) ==
  /\ queue[i] # <<>> /\ lock \notin {i, NoInst}
  /\ NotPersisted(i)
  /\ UNCHANGED <<loaded, begun, snap, files>>

(* A task to be journaled belongs to another active instance.              *)
TrustsMemory(i) == i \notin Inst \* faulty variant
Conflict(i) == \E t \in owned[i] \union removed[i] : HeldElsewhere(i, t)

PersistRefused(i) ==
  /\ lock = i /\ queue[i] # <<>> /\ snap[i] = NoSnap /\ Conflict(i)
  /\ NotPersisted(i) /\ lock' = NoInst
  /\ UNCHANGED <<loaded, begun, snap, journal, used, partial>>

(* The journal with this instance's tasks as they are now.                 *)
Merged(i) ==
  [t \in Task |->
     IF t \in owned[i] THEN
       IF task[i][t] \in {"absent", "done"} THEN NoRecord
       ELSE [status |-> task[i][t], owner |-> i, begun |-> t \in begun[i]]
     ELSE IF t \in removed[i] THEN NoRecord ELSE journal[t]]

Merge(i) ==
  /\ lock = i /\ queue[i] # <<>> /\ snap[i] = NoSnap /\ ~Conflict(i)
  /\ snap' = [snap EXCEPT ![i] = Merged(i)]
  /\ UNCHANGED <<inst, loaded, task, begun, owned, removed, pc, queue, files>>

(* The file is replaced; then the bookkeeping follows the tasks as they    *)
(* have become in the meantime.                                            *)
Land(i) ==
  /\ snap[i] # NoSnap
  /\ journal' = snap[i] /\ snap' = [snap EXCEPT ![i] = NoSnap] /\ lock' = NoInst
  /\ removed' = [removed EXCEPT ![i] = {}]
  /\ owned' = [owned EXCEPT ![i] = {t \in @ : task[i][t] = "running"}]
  /\ Persisted(i)
  /\ UNCHANGED <<loaded, begun, used, partial>>

JournalWriteFails(i) ==
  /\ snap[i] # NoSnap /\ i \in FullDisk
  /\ snap' = [snap EXCEPT ![i] = NoSnap] /\ lock' = NoInst
  /\ NotPersisted(i)
  /\ UNCHANGED <<loaded, begun, journal, used, partial>>

-----------------------------------------------------------------------------
(* The plugin is unloaded: close.                                          *)
Unload(i) ==
  /\ inst[i] = "up"
  /\ inst' = [inst EXCEPT ![i] = IF \A t \in Task : task[i][t] # "running" THEN "gone" ELSE "closing"]
  /\ UNCHANGED <<memory, files>>

(* A process dies with all its instances; their files stay.                *)
Crash(p) ==
  LET dead == {i \in Inst : Pid[i] = p}
      Wiped(f, v) == [i \in Inst |-> IF i \in dead THEN v ELSE f[i]]
  IN  /\ \E i \in dead : inst[i] \notin {"new", "crashed"}
      /\ inst' = Wiped(inst, "crashed")
      /\ task' = Wiped(task, [t \in Task |-> "absent"]) /\ pc' = Wiped(pc, [t \in Task |-> "idle"])
      /\ begun' = Wiped(begun, {}) /\ owned' = Wiped(owned, {}) /\ removed' = Wiped(removed, {})
      /\ queue' = Wiped(queue, <<>>) /\ snap' = Wiped(snap, NoSnap)
      /\ UNCHANGED <<loaded, files>>

TaskStep(i, t) ==
  \/ StartUpload(i, t) \/ ResumeUpload(i, t) \/ Claim(i, t) \/ WritePartial(i, t) \/ Retry(i, t)
  \/ Commit(i, t) \/ StopUpload(i, t) \/ DiscardTask(i, t) \/ Unlink(i, t) \/ UnlinkFails(i, t)

PersistStep(i) ==
  \/ TakeLock(i) \/ LockTimeout(i) \/ PersistRefused(i) \/ Merge(i) \/ Land(i) \/ JournalWriteFails(i)

TransferNext ==
  \/ \E i \in Inst : NewInst(i) \/ Load(i) \/ PersistStep(i) \/ Unload(i)
  \/ \E i \in Inst, t \in Task : TaskStep(i, t)
  \/ \E i \in Inst : Crash(Pid[i])

(* An instance keeps working on its writeQueue.                            *)
TransferSpec ==
  TransferInit /\ [][TransferNext]_taskVars /\ \A i \in Inst : WF_taskVars(PersistStep(i))

-----------------------------------------------------------------------------
(* Never two instances at work on the partial of one task.                 *)
AtWork(i, t) == pc[i][t] \in {"xfer", "sent", "dunlink"}
OneWriter == \A t \in Task, i, j \in Inst : AtWork(i, t) /\ AtWork(j, t) => i = j

(* A partial on the server is always in the journal, whatever crashes:     *)
(* some later instance can resume or remove it.  (Of two instances in one  *)
(* process, the unloaded one may still save that it completed an upload    *)
(* the other has since begun again.)                                       *)
OnePerProcess == \A i, j \in Inst : Pid[i] = Pid[j] /\ "new" \notin {inst[i], inst[j]} => i = j
NoOrphanPartial == OnePerProcess => \A t \in partial : journal[t] # NoRecord

(* A partial has one writer at most, and always an entry to find it by.    *)
TasksExclusive == OneWriter /\ NoOrphanPartial

(* A caller does not wait forever for the journal, even if the lock is     *)
(* stale.                                                                  *)
ClaimSettles(i, t) == pc[i][t] \in {"claim", "dclaim"} ~> pc[i][t] \notin {"claim", "dclaim"}
=============================================================================
