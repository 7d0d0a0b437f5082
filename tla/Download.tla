------------------------------ MODULE Download ------------------------------
(* Verified downloads of one file (client/stream-download.js,              *)
(* client/download-checkpoints.js, the download and resume of              *)
(* client/SshFiles.jsx, streamDownloadFile).  The server hashes the file   *)
(* before it streams it, and the file may change at any time; a broken     *)
(* stream is taken up again; a persistent download is staged in the        *)
(* browser under a lock and survives a reload; several windows see it.     *)
EXTENDS Integers, Sequences

CONSTANTS Tab,        \* browser windows
          NoTab,
          Chunks,     \* parts of the file
          Versions,   \* contents the remote file may take
          MaxRetries  \* the three retries of streamDownload

ASSUME DownloadAssumption == Chunks \in Nat \ {0} /\ MaxRetries \in Nat /\ NoTab \notin Tab

VARIABLES source,  \* version of the remote file
          stage,   \* the checkpoint: <<>> or <<[digest, data]>>
          holder,  \* window with the lock of the checkpoint
          tab,     \* [Tab -> its download]
          target   \* the local file written last: <<>> or <<[digest, data]>>

downVars == <<source, stage, holder, tab, target>>

IdleTab == [pc |-> "idle", kept |-> FALSE, expected |-> 0, got |-> <<>>, file |-> <<>>, tries |-> 0]
DownInit ==
  /\ source \in Versions /\ stage = <<>> /\ holder = NoTab
  /\ tab = [w \in Tab |-> IdleTab] /\ target = <<>>

(* What sha256 of these parts would be: the digest of a version, or none.  *)
Matches(data, digest) == Len(data) = Chunks /\ \A i \in 1..Chunks : data[i] = digest

Staged == stage # <<>>
Release(w) == holder' = IF holder = w THEN NoTab ELSE holder
At(w, pc) == tab' = [tab EXCEPT ![w].pc = pc]

(* download(): the server hashes the file and answers; the checkpoint is   *)
(* created from that answer.                                               *)
Begin(w, kept) ==
  /\ tab[w] = IdleTab /\ (kept => ~Staged)
  /\ tab' = [tab EXCEPT ![w] = [IdleTab EXCEPT !.pc = IF kept THEN "lock" ELSE "stream",
                                               !.kept = kept, !.expected = source]]
  /\ stage' = IF kept THEN <<[digest |-> source, data |-> <<>>]>> ELSE stage
  /\ UNCHANGED <<source, holder, target>>

(* withDownloadLock, then createWritable of a checkpoint that may be gone, *)
(* at the end of what is staged by then.                                   *)
TakeLock(w) ==
  /\ tab[w].pc = "lock"
  /\ IF holder = NoTab /\ Staged
     THEN holder' = w /\ tab' = [tab EXCEPT ![w].pc = "stream", ![w].file = stage[1].data]
     ELSE tab' = [tab EXCEPT ![w] = IdleTab] /\ UNCHANGED holder
  /\ UNCHANGED <<source, stage, target>>

(* resumeCheckpoint: the saved part is read under the lock and the server  *)
(* is asked for the rest of the same content.  A checkpoint longer than    *)
(* the file is not listed.                                                 *)
Resume(w) ==
  /\ tab[w] = IdleTab /\ Staged /\ holder = NoTab /\ Len(stage[1].data) <= Chunks
  /\ holder' = w
  /\ tab' = [tab EXCEPT ![w] = [IdleTab EXCEPT !.pc = "ask", !.kept = TRUE,
                                  !.expected = stage[1].digest, !.got = stage[1].data, !.file = stage[1].data]]
  /\ UNCHANGED <<source, stage, target>>

(* writer.abort() of a staged download keeps what came.                    *)
GiveUp(w) ==
  /\ tab' = [tab EXCEPT ![w] = IdleTab]
  /\ stage' = IF tab[w].kept /\ Staged /\ tab[w].pc \in {"stream", "again"}
              THEN <<[stage[1] EXCEPT !.data = tab[w].file]>> ELSE stage
  /\ Release(w) /\ UNCHANGED <<source, target>>

(* The server hashes again; another digest refuses the rest of the file.   *)
AskAgain(w) ==
  /\ tab[w].pc \in {"ask", "again"}
  /\ \/ source = tab[w].expected /\ At(w, "stream") /\ UNCHANGED <<source, stage, holder, target>>
     \/ GiveUp(w)

(* A part of what the file holds now.                                      *)
Receive(w) ==
  /\ tab[w].pc = "stream" /\ Len(tab[w].got) < Chunks
  /\ tab' = [tab EXCEPT ![w].got = Append(@, source), ![w].file = Append(@, source)]
  /\ UNCHANGED <<source, stage, holder, target>>

(* Every CHECKPOINT_INTERVAL the writer is closed and opened again.        *)
Commit(w) ==
  /\ tab[w].pc = "stream" /\ tab[w].kept /\ Staged /\ stage[1].data # tab[w].file
  /\ stage' = <<[stage[1] EXCEPT !.data = tab[w].file]>>
  /\ UNCHANGED <<source, holder, tab, target>>

(* The stream ends before the last part.                                   *)
Breaks(w) ==
  /\ tab[w].pc = "stream" /\ Len(tab[w].got) < Chunks
  /\ IF tab[w].tries < MaxRetries
     THEN /\ tab' = [tab EXCEPT ![w].pc = "again", ![w].tries = @ + 1]
          /\ UNCHANGED <<source, stage, holder, target>>
     ELSE GiveUp(w)

(* All parts came: the digest decides, and the writer is closed.           *)
Verify(w) ==
  /\ tab[w].pc = "stream" /\ Len(tab[w].got) = Chunks
  /\ IF Matches(tab[w].got, tab[w].expected)
     THEN /\ At(w, "write")
          /\ stage' = IF tab[w].kept THEN <<[stage[1] EXCEPT !.data = tab[w].file]>> ELSE stage
          /\ UNCHANGED <<source, holder, target>>
     ELSE GiveUp(w)

(* A staged file is read back and hashed once more; the browser replaces   *)
(* the chosen file when its writer is closed.                              *)
CopyUnread(w) ==          \* faulty variant: what is staged is not hashed again
  /\ tab[w].pc = "write"
  /\ target' = <<[digest |-> tab[w].expected, data |-> tab[w].file]>>
  /\ tab' = [tab EXCEPT ![w] = IF @.kept THEN [@ EXCEPT !.pc = "tidy"] ELSE IdleTab]
  /\ UNCHANGED <<source, stage, holder>>
WriteTarget(w) ==
  /\ tab[w].pc = "write"
  /\ IF Matches(tab[w].file, tab[w].expected)
     THEN /\ target' = <<[digest |-> tab[w].expected, data |-> tab[w].file]>>
          /\ tab' = [tab EXCEPT ![w] = IF @.kept THEN [@ EXCEPT !.pc = "tidy"] ELSE IdleTab]
          /\ UNCHANGED <<source, stage, holder>>
     ELSE GiveUp(w)

Tidy(w) ==
  /\ tab[w].pc = "tidy" /\ stage' = <<>> /\ Release(w)
  /\ tab' = [tab EXCEPT ![w] = IdleTab]
  /\ UNCHANGED <<source, target>>

Cancel(w) == tab[w].pc \in {"lock", "ask", "stream", "again", "write"} /\ GiveUp(w)

(* The page goes away: what was not committed is lost, the lock is free.   *)
Reload(w) ==
  /\ tab[w].pc # "idle" /\ tab' = [tab EXCEPT ![w] = IdleTab]
  /\ Release(w) /\ UNCHANGED <<source, stage, target>>

(* The operator drops a checkpoint; the same lock guards it.               *)
Drop == Staged /\ holder = NoTab /\ stage' = <<>> /\ UNCHANGED <<source, holder, tab, target>>

SourceChanges ==
  \E v \in Versions : v # source /\ source' = v /\ UNCHANGED <<stage, holder, tab, target>>

DownNext ==
  \/ \E w \in Tab : \/ \E kept \in BOOLEAN : Begin(w, kept)
                    \/ TakeLock(w) \/ Resume(w) \/ AskAgain(w) \/ Receive(w) \/ Commit(w) \/ Breaks(w)
                    \/ Verify(w) \/ WriteTarget(w) \/ Tidy(w) \/ Cancel(w) \/ Reload(w)
  \/ Drop \/ SourceChanges
DownSpec == DownInit /\ [][DownNext]_downVars
-----------------------------------------------------------------------------
DownTypeOK ==
  /\ source \in Versions /\ holder \in Tab \cup {NoTab}
  /\ \A w \in Tab : Len(tab[w].got) <= Chunks /\ tab[w].tries <= MaxRetries

(* A chosen file only ever gets one whole content, the one whose digest    *)
(* the server gave when its download began, however often the stream broke *)
(* and the file changed, and even when another window added to the         *)
(* checkpoint between its creation and its lock.  Only one window works on *)
(* a checkpoint, which stays until that window is through with it.         *)
DownloadExact ==
  /\ target # <<>> => Matches(target[1].data, target[1].digest)
  /\ \A w \in Tab : tab[w].kept /\ tab[w].pc \in {"ask", "stream", "again", "write", "tidy"} =>
       holder = w /\ Staged
=============================================================================
