---------------------------- MODULE DirTransfer -----------------------------
(* Directory transfers over SFTP (sftpUploadDir, sftpDownloadDir,          *)
(* runTransferTasks, pipeSftpFile): small files in a bounded pool, large   *)
(* ones one at a time, failures collected, a cancellation that stops the   *)
(* lanes.  An upload writes a sibling file and renames it; a download      *)
(* writes the local file itself.  Uploads of a bound workspace check each  *)
(* destination before the first write and again before its own, while      *)
(* links on the server may change.                                         *)
EXTENDS Integers, FiniteSets

CONSTANTS TreeFile,  \* files of the tree, by their place in the task list
          BigFile,   \* those above SFTP_DIR_BIG_FILE_BYTES
          Pool,      \* SFTP_DIR_SMALL_CONCURRENCY
          MaxOwed    \* bound: renames never answered

ASSUME DirAssumption ==
  TreeFile \subseteq Nat /\ BigFile \subseteq TreeFile /\ Pool \in Nat \ {0}

VARIABLES dirKind,   \* "upload" or "download"
          bound,     \* an upload into a bound remote workspace
          dirPhase,  \* "check", "mkdir", "run", "ok", "error"
          fileSt,    \* [TreeFile -> how far its task is]
          dest,      \* [TreeFile -> what is at its destination]
          sibling,   \* files whose .dsh-upload sibling exists
          outside,   \* files whose destination leads out of the root now
          moved,     \* files whose link changed after it was looked at
          strayed,   \* files written outside the root
          owed,      \* files whose rename was sent and never answered
          aborted,   \* the caller's signal
          dead       \* lanes that stopped on the signal

dirVars == <<dirKind, bound, dirPhase, fileSt, dest, sibling, outside, moved, strayed, owed, aborted, dead>>

Lane(f) == IF f \in BigFile THEN BigFile ELSE TreeFile \ BigFile
Busy == {"check", "moving", "commit", "clean"}
InFlight(lane) == {f \in lane : fileSt[f] \in Busy}
Settled(lane) == \A f \in lane : fileSt[f] \in {"done", "failed"}

DirInit ==
  /\ dirKind \in {"upload", "download"} /\ bound \in BOOLEAN /\ (bound => dirKind = "upload")
  /\ dirPhase = IF bound THEN "check" ELSE "mkdir"
  /\ fileSt = [f \in TreeFile |-> "todo"] /\ dest = [f \in TreeFile |-> "old"]
  /\ outside \in SUBSET TreeFile /\ (~bound => outside = {})
  /\ sibling = {} /\ moved = {} /\ strayed = {} /\ owed = {} /\ aborted = FALSE /\ dead = {}

Files(f, st) == fileSt' = [fileSt EXCEPT ![f] = st]

(* Every destination is asserted before the first write: one that leads    *)
(* outside refuses the tree.                                               *)
CheckTree ==
  /\ dirPhase = "check"
  /\ dirPhase' = IF outside = {} THEN "mkdir" ELSE "error"
  /\ UNCHANGED <<dirKind, bound, fileSt, dest, sibling, outside, moved, strayed, owed, aborted, dead>>

(* ensureRemoteDir: mkdir, or a directory that is there already, or its    *)
(* parents first; it may fail.                                             *)
EnsureRemoteDir == {"run", "error"}

(* Every directory, shallow first; a failure ends the transfer.            *)
MakeDirs ==
  /\ dirPhase = "mkdir" /\ dirPhase' \in EnsureRemoteDir
  /\ UNCHANGED <<dirKind, bound, fileSt, dest, sibling, outside, moved, strayed, owed, aborted, dead>>

(* runOne: a lane takes its next task, or stops when the signal is set.    *)
IsNext(f) == fileSt[f] = "todo" /\ \A g \in Lane(f) : g < f => fileSt[g] # "todo"
TakeTask(f) ==
  LET lane == Lane(f) IN
  /\ dirPhase = "run" /\ IsNext(f) /\ lane \notin dead
  /\ Cardinality(InFlight(lane)) < (IF f \in BigFile THEN 1 ELSE Pool)
  /\ IF aborted
     THEN dead' = dead \cup {lane} /\ UNCHANGED <<fileSt, dest, sibling>>
     ELSE /\ Files(f, IF bound THEN "check" ELSE "moving")
          /\ IF bound THEN UNCHANGED <<dest, sibling>> ELSE
             /\ dest' = IF dirKind = "download" THEN [dest EXCEPT ![f] = "partial"] ELSE dest
             /\ sibling' = IF dirKind = "upload" THEN sibling \cup {f} ELSE sibling
          /\ UNCHANGED dead
  /\ UNCHANGED <<dirKind, bound, dirPhase, outside, moved, strayed, owed, aborted>>

(* assertRemoteWorkspaceTarget of this file, then its transfer.            *)
CheckedBefore(f) ==         \* faulty variant: the check of the tree is enough
  /\ fileSt[f] = "check" /\ Files(f, "moving") /\ sibling' = sibling \cup {f}
  /\ UNCHANGED <<dirKind, bound, dirPhase, dest, outside, moved, strayed, owed, aborted, dead>>
CheckFile(f) ==
  /\ fileSt[f] = "check"
  /\ IF f \in outside THEN Files(f, "failed") /\ UNCHANGED sibling
     ELSE Files(f, "moving") /\ sibling' = sibling \cup {f}
  /\ UNCHANGED <<dirKind, bound, dirPhase, dest, outside, moved, strayed, owed, aborted, dead>>

(* The bytes are over.                                                     *)
FileMoved(f) ==
  /\ fileSt[f] = "moving"
  /\ \/ dirKind = "upload" /\ Files(f, IF aborted THEN "clean" ELSE "commit") /\ UNCHANGED dest
     \/ dirKind = "download" /\ Files(f, "done") /\ dest' = [dest EXCEPT ![f] = "new"]
  /\ UNCHANGED <<dirKind, bound, dirPhase, sibling, outside, moved, strayed, owed, aborted, dead>>

(* A transfer fails.  A download that was not aborted (by the caller or by *)
(* the idle timer) is not cleaned up, and all its bytes may be there.  The *)
(* rename of an upload is refused, or the channel goes before its answer.  *)
FileBreaks(f) ==
  /\ fileSt[f] \in {"moving", "commit"}
  /\ \/ Files(f, "clean") /\ UNCHANGED <<dest, owed>>
     \/ /\ fileSt[f] = "commit" /\ Files(f, "clean") /\ Cardinality(owed) < MaxOwed
        /\ owed' = owed \cup {f} /\ UNCHANGED dest
     \/ /\ dirKind = "download" /\ ~aborted /\ Files(f, "failed") /\ UNCHANGED owed
        /\ \E left \in {"partial", "new"} : dest' = [dest EXCEPT ![f] = left]
  /\ UNCHANGED <<dirKind, bound, dirPhase, sibling, outside, moved, strayed, aborted, dead>>

(* A rename over the destination is done by the server.                    *)
Renamed(f) ==
  /\ dest' = [dest EXCEPT ![f] = "new"] /\ sibling' = sibling \ {f}
  /\ strayed' = IF f \in outside THEN strayed \cup {f} ELSE strayed
  /\ UNCHANGED <<dirKind, bound, dirPhase, outside, moved, owed, aborted, dead>>

(* The rename of an upload is answered, and the file is counted.           *)
CommitFile(f) == fileSt[f] = "commit" /\ Files(f, "done") /\ Renamed(f)

(* One that was not answered is done all the same, unless the cleaning of  *)
(* the sibling came first.                                                 *)
RenameLands(f) == f \in owed /\ f \in sibling /\ Renamed(f) /\ UNCHANGED fileSt

(* What sftpDownloadFile has pipeSftpFile do: the local file is unlinked.  *)
Unlinked(f) == [dest EXCEPT ![f] = "gone"]

(* removeSftpPartial, or the unlink of the local file; it may fail too.    *)
CleanFile(f) ==
  /\ fileSt[f] = "clean" /\ Files(f, "failed")
  /\ \/ sibling' = sibling \ {f} /\ dest' = IF dirKind = "download" THEN Unlinked(f) ELSE dest
     \/ UNCHANGED <<sibling, dest>>
  /\ UNCHANGED <<dirKind, bound, dirPhase, outside, moved, strayed, owed, aborted, dead>>

Abort ==
  /\ dirPhase \in {"mkdir", "run"} /\ ~aborted /\ aborted' = TRUE
  /\ UNCHANGED <<dirKind, bound, dirPhase, fileSt, dest, sibling, outside, moved, strayed, owed, dead>>

(* Somebody on the server redirects a directory.                           *)
Redirect(f) ==
  /\ bound /\ f \notin outside /\ outside' = outside \cup {f}
  /\ moved' = IF fileSt[f] \in {"moving", "commit", "clean", "done"} \/ f \in owed THEN moved \cup {f} ELSE moved
  /\ UNCHANGED <<dirKind, bound, dirPhase, fileSt, dest, sibling, strayed, owed, aborted, dead>>

(* The lanes have settled: all tasks of a lane, or a lane that stopped.    *)
(* The small lane stops with its first worker, whatever the others do.     *)
LaneOver(lane) == Settled(lane) \/ (lane \in dead /\ (lane = BigFile => InFlight(lane) = {}))

DirAnswers ==
  /\ dirPhase = "run" /\ LaneOver(BigFile) /\ LaneOver(TreeFile \ BigFile)
  /\ dirPhase' = IF dead = {} /\ ~aborted THEN "ok" ELSE "error"
  /\ UNCHANGED <<dirKind, bound, fileSt, dest, sibling, outside, moved, strayed, owed, aborted, dead>>

DirNext ==
  \/ CheckTree \/ MakeDirs \/ Abort \/ DirAnswers
  \/ \E f \in TreeFile : \/ TakeTask(f) \/ CheckFile(f) \/ FileMoved(f) \/ FileBreaks(f)
                         \/ CommitFile(f) \/ RenameLands(f)
                         \/ CleanFile(f) \/ Redirect(f)
DirSpec == DirInit /\ [][DirNext]_dirVars
-----------------------------------------------------------------------------
DirTypeOK ==
  /\ dest \in [TreeFile -> {"old", "partial", "new", "gone"}]
  /\ fileSt \in [TreeFile -> Busy \cup {"todo", "done", "failed"}]
  /\ sibling \subseteq TreeFile /\ strayed \subseteq TreeFile

(* An answer without an error counts only files that arrived whole, lists  *)
(* all the others as failed, and nothing is under way behind it.  An upload*)
(* never leaves part of a file under its name, only a sibling of a file it *)
(* lists as failed; a file it lists as failed was not replaced, unless its *)
(* rename was sent and the answer never came.  Nothing of a bound upload is*)
(* written outside the root unless the link changed after that very file   *)
(* was checked.                                                            *)
DirHonest ==
  /\ dirPhase = "ok" =>
       \A f \in TreeFile : /\ fileSt[f] \in {"done", "failed"}
                           /\ f \in sibling => fileSt[f] = "failed"
  /\ \A f \in TreeFile : fileSt[f] = "done" => dest[f] = "new"
  /\ dirKind = "upload" => \A f \in TreeFile :
       dest[f] = "old" \/ (dest[f] = "new" /\ (fileSt[f] = "done" \/ f \in owed))
  /\ strayed \subseteq moved
=============================================================================
