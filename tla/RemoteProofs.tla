---------------------------- MODULE RemoteProofs ----------------------------
(***************************************************************************)
(* Proofs about the remote file modules, the trash and the panes, for      *)
(* every number of scripts, paths, editors, windows, files and             *)
(* connections.                                                            *)
(***************************************************************************)
EXTENDS MCRemote, FiniteSetTheorems, SequenceTheorems, WellFoundedInduction, TLAPS

(***************************************************************************)
(* Downloads.  The inductive invariant: a window that works on the kept    *)
(* checkpoint has its lock, and the checkpoint is there; what was written  *)
(* to the chosen file matches its digest.                                  *)
(***************************************************************************)
DownPc == {"idle", "lock", "ask", "stream", "again", "write", "tidy"}
Held(w) == tab[w].kept /\ tab[w].pc \in {"ask", "stream", "again", "write", "tidy"}
Checkpoint == [digest : Versions, data : Seq(Versions)]
Download == [pc : DownPc, kept : BOOLEAN, expected : Versions \cup {0},
             got : Seq(Versions), file : Seq(Versions), tries : 0..MaxRetries]

DownInv ==
  /\ source \in Versions /\ holder \in Tab \cup {NoTab}
  /\ tab \in [Tab -> Download]
  /\ stage \in Seq(Checkpoint)
  /\ \A w \in Tab : Len(tab[w].got) <= Chunks
  /\ \A w \in Tab : tab[w].pc = "tidy" => tab[w].kept
  /\ \A w \in Tab : Held(w) => holder = w /\ Staged
  /\ target # <<>> => Matches(target[1].data, target[1].digest)

LEMMA DownStarts == DownInit => DownInv
<1> SUFFICES ASSUME DownInit PROVE DownInv
  OBVIOUS
<1>1. IdleTab \in Download /\ IdleTab.got = <<>> /\ IdleTab.pc = "idle"
  BY DownloadAssumption DEF IdleTab, Download, DownPc
<1> QED BY <1>1, DownloadAssumption DEF DownInit, DownInv, Held

(* What is staged, and what a step puts in its place, is a checkpoint.      *)
LEMMA StagedIsCheckpoint == ASSUME DownInv, Staged PROVE stage[1] \in Checkpoint /\ stage[1].data \in Seq(Versions)
<1>1. stage[1] \in Checkpoint
  BY DEF DownInv, Staged
<1> QED BY <1>1 DEF Checkpoint

LEMMA Restaged == ASSUME NEW c \in Checkpoint, NEW d \in Seq(Versions)
                  PROVE <<[c EXCEPT !.data = d]>> \in Seq(Checkpoint) /\ <<[c EXCEPT !.data = d]>> # <<>>
<1>1. [c EXCEPT !.data = d] \in Checkpoint
  BY DEF Checkpoint
<1> QED BY <1>1

LEMMA FileIsData == ASSUME NEW w \in Tab, DownInv PROVE tab[w].file \in Seq(Versions) /\ tab[w] \in Download
BY DEF DownInv, Download

(* Only the window's own download and the checkpoint it holds change.      *)
LEMMA GiveUpKeeps == ASSUME NEW w \in Tab, DownInv, GiveUp(w) PROVE DownInv'
<1>1. IdleTab \in Download /\ IdleTab.got = <<>> /\ IdleTab.pc = "idle"
  BY DownloadAssumption DEF IdleTab, Download, DownPc
<1>2. tab' = [tab EXCEPT ![w] = IdleTab] /\ tab' \in [Tab -> Download]
  BY <1>1 DEF GiveUp, DownInv
<1>3. stage' \in Seq(Checkpoint) /\ (Staged => stage' # <<>>)
  BY StagedIsCheckpoint, FileIsData, Restaged DEF GiveUp, DownInv, Staged
<1>4. \A v \in Tab : Held(v)' => v # w /\ Held(v)
  BY <1>1, <1>2 DEF Held, DownInv
<1> QED BY <1>1, <1>2, <1>3, <1>4, DownloadAssumption DEF GiveUp, Release, DownInv, Staged

LEMMA DownStep == DownInv /\ [DownNext]_downVars => DownInv'
<1> SUFFICES ASSUME DownInv, [DownNext]_downVars PROVE DownInv'
  OBVIOUS
<1> USE DownloadAssumption
<1>0. IdleTab \in Download /\ IdleTab.got = <<>> /\ IdleTab.pc = "idle" /\ IdleTab.kept = FALSE
  BY DEF IdleTab, Download, DownPc
<1>1. ASSUME NEW w \in Tab, NEW kept \in BOOLEAN, Begin(w, kept) PROVE DownInv'
  <2> DEFINE d == [IdleTab EXCEPT !.pc = IF kept THEN "lock" ELSE "stream", !.kept = kept, !.expected = source]
  <2>1. d \in Download /\ d.got = <<>> /\ d.pc \in {"lock", "stream"} /\ (d.kept => d.pc = "lock")
    BY <1>0 DEF DownInv, Download, DownPc, IdleTab
  <2>2. tab' = [tab EXCEPT ![w] = d] /\ tab' \in [Tab -> Download]
    BY <1>1, <2>1 DEF Begin, DownInv
  <2>3. stage' \in Seq(Checkpoint) /\ (Staged => stage' # <<>>)
    <3>1. [digest |-> source, data |-> <<>>] \in Checkpoint
      BY DEF DownInv, Checkpoint
    <3> QED BY <1>1, <3>1 DEF Begin, DownInv, Staged
  <2>4. \A v \in Tab : Held(v)' => v # w /\ Held(v)
    BY <2>1, <2>2 DEF Held, DownInv
  <2> QED BY <1>1, <2>1, <2>2, <2>3, <2>4 DEF Begin, DownInv, Staged
<1>2. ASSUME NEW w \in Tab, TakeLock(w) PROVE DownInv'
  <2>1. CASE holder = NoTab /\ Staged
    <3>1. stage[1].data \in Seq(Versions)
      BY <2>1, StagedIsCheckpoint
    <3>2. tab' = [tab EXCEPT ![w].pc = "stream", ![w].file = stage[1].data] /\ tab' \in [Tab -> Download]
      <4>1. tab' = [tab EXCEPT ![w].pc = "stream", ![w].file = stage[1].data]
        BY <1>2, <2>1 DEF TakeLock
      <4>2. [tab[w] EXCEPT !.pc = "stream", !.file = stage[1].data] \in Download
        BY <3>1, FileIsData DEF Download, DownPc
      <4> QED BY <4>1, <4>2 DEF DownInv
    <3>3. \A v \in Tab : v # w => ~Held(v)
      BY <2>1 DEF DownInv
    <3>4. \A v \in Tab : v # w => tab'[v] = tab[v]
      BY <3>2 DEF DownInv
    <3> QED BY <1>2, <2>1, <3>2, <3>3, <3>4 DEF TakeLock, DownInv, Held, Staged, Download
  <2>2. CASE ~(holder = NoTab /\ Staged)
    <3>1. tab' = [tab EXCEPT ![w] = IdleTab] /\ tab' \in [Tab -> Download]
      BY <1>0, <1>2, <2>2 DEF TakeLock, DownInv
    <3> QED BY <1>0, <1>2, <2>2, <3>1 DEF TakeLock, DownInv, Held, Staged
  <2> QED BY <2>1, <2>2
<1>3. ASSUME NEW w \in Tab, Resume(w) PROVE DownInv'
  <2> DEFINE d == [IdleTab EXCEPT !.pc = "ask", !.kept = TRUE, !.expected = stage[1].digest,
                                  !.got = stage[1].data, !.file = stage[1].data]
  <2>1. stage[1] \in Checkpoint /\ Len(stage[1].data) <= Chunks
    BY <1>3 DEF Resume, DownInv, Staged
  <2>2. d \in Download /\ d.pc = "ask" /\ d.got = stage[1].data
    BY <1>0, <2>1 DEF Download, DownPc, IdleTab, Checkpoint
  <2>3. tab' = [tab EXCEPT ![w] = d] /\ tab' \in [Tab -> Download]
    BY <1>3, <2>2 DEF Resume, DownInv
  <2>4. \A v \in Tab : ~Held(v)
    BY <1>3 DEF Resume, DownInv
  <2>5. \A v \in Tab : v # w => tab'[v] = tab[v]
    BY <2>3 DEF DownInv
  <2> QED BY <1>3, <2>1, <2>2, <2>3, <2>4, <2>5 DEF Resume, DownInv, Held, Staged
<1>4. ASSUME NEW w \in Tab, AskAgain(w) PROVE DownInv'
  <2>1. CASE GiveUp(w)
    BY <2>1, GiveUpKeeps
  <2>2. CASE At(w, "stream") /\ UNCHANGED <<source, stage, holder, target>>
    <3>1. tab' \in [Tab -> Download] /\ \A v \in Tab : tab'[v].got = tab[v].got
      BY <2>2 DEF At, DownInv, Download, DownPc
    <3>2. \A v \in Tab : Held(v)' => Held(v)
      BY <1>4, <2>2 DEF At, AskAgain, Held, DownInv, Download
    <3>3. \A v \in Tab : tab'[v].pc = "tidy" => tab[v].pc = "tidy" /\ tab'[v].kept = tab[v].kept
      BY <2>2 DEF At, DownInv, Download
    <3> QED BY <2>2, <3>1, <3>2, <3>3 DEF DownInv, Staged
  <2> QED BY <1>4, <2>1, <2>2 DEF AskAgain
<1>5. ASSUME NEW w \in Tab, Receive(w) PROVE DownInv'
  <2>1. tab' \in [Tab -> Download] /\ \A v \in Tab : Len(tab'[v].got) <= Chunks
    BY <1>5 DEF Receive, DownInv, Download
  <2>2. \A v \in Tab : tab'[v].pc = tab[v].pc /\ tab'[v].kept = tab[v].kept
    BY <1>5 DEF Receive, DownInv, Download
  <2> QED BY <1>5, <2>1, <2>2 DEF Receive, DownInv, Held, Staged
<1>6. ASSUME NEW w \in Tab, Commit(w) PROVE DownInv'
  <2>1. stage' \in Seq(Checkpoint) /\ stage' # <<>>
    BY <1>6, StagedIsCheckpoint, FileIsData, Restaged DEF Commit
  <2> QED BY <1>6, <2>1 DEF Commit, DownInv, Held, Staged
<1>7. ASSUME NEW w \in Tab, Breaks(w) PROVE DownInv'
  <2>1. CASE tab[w].tries < MaxRetries
    <3>1. tab' \in [Tab -> Download] /\ \A v \in Tab : tab'[v].got = tab[v].got
      BY <1>7, <2>1 DEF Breaks, DownInv, Download, DownPc
    <3>2. \A v \in Tab : Held(v)' => Held(v)
      <4>1. tab'[w].kept = tab[w].kept /\ \A v \in Tab : v # w => tab'[v] = tab[v]
        BY <1>7, <2>1 DEF Breaks, DownInv, Download
      <4> QED BY <1>7, <4>1 DEF Breaks, Held
    <3>3. \A v \in Tab : tab'[v].pc = "tidy" => tab[v].pc = "tidy" /\ tab'[v].kept = tab[v].kept
      BY <1>7, <2>1 DEF Breaks, DownInv, Download
    <3> QED BY <1>7, <2>1, <3>1, <3>2, <3>3 DEF Breaks, DownInv, Staged
  <2> QED BY <1>7, <2>1, GiveUpKeeps DEF Breaks
<1>8. ASSUME NEW w \in Tab, Verify(w) PROVE DownInv'
  <2>1. CASE Matches(tab[w].got, tab[w].expected)
    <3>1. tab' \in [Tab -> Download] /\ \A v \in Tab : tab'[v].got = tab[v].got
      <4>1. tab' = [tab EXCEPT ![w] = [@ EXCEPT !.pc = "write"]]
        BY <1>8, <2>1 DEF Verify, At
      <4>2. [tab[w] EXCEPT !.pc = "write"] \in Download
        BY FileIsData DEF Download, DownPc
      <4> QED BY <4>1, <4>2 DEF DownInv, Download
    <3>2. \A v \in Tab : Held(v)' => Held(v)
      BY <1>8, <2>1 DEF Verify, At, Held, DownInv, Download
    <3>3. \A v \in Tab : tab'[v].pc = "tidy" => tab[v].pc = "tidy" /\ tab'[v].kept = tab[v].kept
      BY <1>8, <2>1 DEF Verify, At, DownInv, Download
    <3>4. tab[w].kept => Staged
      BY <1>8 DEF Verify, Held, DownInv
    <3>5. stage' \in Seq(Checkpoint) /\ (Staged => stage' # <<>>)
      <4>1. CASE tab[w].kept
        BY <1>8, <2>1, <3>4, <4>1, StagedIsCheckpoint, FileIsData, Restaged DEF Verify
      <4>2. CASE ~tab[w].kept
        BY <1>8, <2>1, <4>2 DEF Verify, DownInv, Staged
      <4> QED BY <4>1, <4>2
    <3> QED BY <1>8, <2>1, <3>1, <3>2, <3>3, <3>5 DEF Verify, DownInv, Staged
  <2> QED BY <1>8, <2>1, GiveUpKeeps DEF Verify
<1>9. ASSUME NEW w \in Tab, WriteTarget(w) PROVE DownInv'
  <2>1. CASE Matches(tab[w].file, tab[w].expected)
    <3>1. tab' \in [Tab -> Download] /\ \A v \in Tab : Len(tab'[v].got) <= Chunks
      <4> DEFINE d == IF tab[w].kept THEN [tab[w] EXCEPT !.pc = "tidy"] ELSE IdleTab
      <4>1. tab' = [tab EXCEPT ![w] = d]
        BY <1>9, <2>1 DEF WriteTarget
      <4>2. [tab[w] EXCEPT !.pc = "tidy"] \in Download /\ [tab[w] EXCEPT !.pc = "tidy"].got = tab[w].got
        BY FileIsData DEF Download, DownPc
      <4>3. d \in Download /\ Len(d.got) <= Chunks
        BY <1>0, <4>2 DEF DownInv
      <4> QED BY <4>1, <4>3 DEF DownInv
    <3>2. \A v \in Tab : Held(v)' => Held(v)
      BY <1>0, <1>9, <2>1 DEF WriteTarget, Held, DownInv, Download
    <3>3. \A v \in Tab : tab'[v].pc = "tidy" => tab'[v].kept
      BY <1>0, <1>9, <2>1 DEF WriteTarget, DownInv, Download
    <3>4. target'[1].data = tab[w].file /\ target'[1].digest = tab[w].expected
      BY <1>9, <2>1 DEF WriteTarget
    <3>5. Matches(target'[1].data, target'[1].digest)
      BY <2>1, <3>4
    <3> QED BY <1>9, <2>1, <3>1, <3>2, <3>3, <3>5 DEF WriteTarget, DownInv, Staged, Matches
  <2> QED BY <1>9, <2>1, GiveUpKeeps DEF WriteTarget
<1>10. ASSUME NEW w \in Tab, Tidy(w) PROVE DownInv'
  <2>1. holder = w
    BY <1>10 DEF Tidy, DownInv, Held
  <2>2. tab' = [tab EXCEPT ![w] = IdleTab] /\ tab' \in [Tab -> Download]
    BY <1>0, <1>10 DEF Tidy, DownInv
  <2>3. \A v \in Tab : ~Held(v)'
    BY <1>0, <2>1, <2>2 DEF DownInv, Held
  <2> QED BY <1>0, <1>10, <2>2, <2>3 DEF Tidy, Release, DownInv, Staged
<1>11. ASSUME NEW w \in Tab, Reload(w) PROVE DownInv'
  <2>1. tab' = [tab EXCEPT ![w] = IdleTab] /\ tab' \in [Tab -> Download]
    BY <1>0, <1>11 DEF Reload, DownInv
  <2>2. \A v \in Tab : Held(v)' => v # w /\ Held(v)
    BY <1>0, <2>1 DEF Held, DownInv
  <2> QED BY <1>0, <1>11, <2>1, <2>2 DEF Reload, Release, DownInv, Staged
<1>12. CASE Drop
  BY <1>12 DEF Drop, DownInv, Held, Staged
<1>13. CASE SourceChanges
  BY <1>13 DEF SourceChanges, DownInv, Held, Staged, Matches
<1>14. CASE UNCHANGED downVars
  BY <1>14 DEF downVars, DownInv, Held, Staged, Matches
<1> QED
  BY <1>1, <1>2, <1>3, <1>4, <1>5, <1>6, <1>7, <1>8, <1>9, <1>10, <1>11, <1>12, <1>13, <1>14, GiveUpKeeps
  DEF DownNext, Cancel

THEOREM DownloadInvariant == DownSpec => []DownInv
<1> QED BY DownStarts, DownStep, PTL DEF DownSpec

(* A chosen file only ever gets one whole content, the one whose digest    *)
(* the server gave, and only the window with the lock works on the         *)
(* checkpoint (streamDownload, withDownloadLock): for any number of        *)
(* windows, parts, contents and retries.                                   *)
THEOREM DownloadsAreExact == DownSpec => []DownloadExact
<1>1. DownInv => DownloadExact
  BY DEF DownInv, DownloadExact, Held
<1> QED BY <1>1, DownloadInvariant, PTL

-----------------------------------------------------------------------------
(***************************************************************************)
(* The editor.  The inductive invariant: from its backup on, a request has *)
(* the version it replaces among the backups of the server it writes to;   *)
(* and once its second read agreed, that version is still there unless     *)
(* something came late.                                                    *)
(***************************************************************************)
LastSave == {<<>>} \cup (Version \X Version)
EditPc == {"closed", "edit", "dirty", "read", "backup", "reread", "write", "writing"}
EditRec == [pc : EditPc, conn : Server, to : Server, open : BOOLEAN, base : Version, text : Version,
            last : LastSave]

EditInv ==
  /\ remote \in [Server -> Version] /\ backups \in [Server -> SUBSET Version]
  /\ made \in Version /\ late \subseteq Version /\ ed \in [Editor -> EditRec]
  /\ \A e \in Editor :
       /\ ed[e].pc \in {"edit", "dirty"} => ed[e].open
       /\ ed[e].pc \in {"reread", "write"} => ed[e].base \in backups[ed[e].to]
       /\ ed[e].pc = "write" => remote[ed[e].to] \in late \/ remote[ed[e].to] = ed[e].base

LEMMA ClosedIsRecord == Closed \in EditRec /\ Closed.pc = "closed"
<1>1. (CHOOSE c \in Server : TRUE) \in Server
  BY EditorAssumption
<1>2. <<>> \in LastSave
  BY DEF LastSave
<1> QED BY <1>1, <1>2, EditorAssumption DEF Closed, EditRec, Version, EditPc

LEMMA EditStarts == EditInit => EditInv
<1> SUFFICES ASSUME EditInit PROVE EditInv
  OBVIOUS
<1> QED BY ClosedIsRecord, EditorAssumption DEF EditInit, EditInv, Version

(* A step that gives e the record d and touches no file keeps what holds   *)
(* of the other editors.                                                   *)
LEMMA OneEditorMoves ==
  ASSUME EditInv, NEW e \in Editor, NEW d \in EditRec,
         ed' = [ed EXCEPT ![e] = d], UNCHANGED <<remote, late>>,
         made' \in Version, backups' \in [Server -> SUBSET Version],
         \A c \in Server : backups[c] \subseteq backups'[c],
         d.pc \in {"edit", "dirty"} => d.open,
         d.pc \in {"reread", "write"} => d.base \in backups'[d.to],
         d.pc = "write" => remote[d.to] = d.base
  PROVE  EditInv'
<1>1. ed' \in [Editor -> EditRec] /\ ed'[e] = d /\ \A f \in Editor : f # e => ed'[f] = ed[f]
  BY DEF EditInv
<1>2. \A f \in Editor : ed[f].to \in Server
  BY DEF EditInv, EditRec
<1> QED BY <1>1, <1>2 DEF EditInv

(* A write by e puts every version another editor is about to replace on   *)
(* record as late.                                                         *)
LEMMA PutsKeeps ==
  ASSUME EditInv, NEW e \in Editor, NEW d \in EditRec, NEW c \in Server, NEW v \in Version,
         Puts(e, c, v), ed' = [ed EXCEPT ![e] = d], UNCHANGED <<made, backups>>,
         d.pc \notin {"edit", "reread", "write"}, d.pc = "dirty" => d.open
  PROVE  EditInv'
<1>1. ed' \in [Editor -> EditRec] /\ ed'[e] = d /\ \A f \in Editor : f # e => ed'[f] = ed[f]
  BY DEF EditInv
<1>2. remote' \in [Server -> Version] /\ late' \subseteq Version /\ late \subseteq late'
  BY DEF Puts, EditInv
<1>3. \A f \in Editor : f # e /\ ed[f].pc = "write" => remote'[ed[f].to] \in late' \/ remote'[ed[f].to] = ed[f].base
  <2> SUFFICES ASSUME NEW f \in Editor, f # e, ed[f].pc = "write", remote'[ed[f].to] # ed[f].base
               PROVE  remote'[ed[f].to] \in late'
    OBVIOUS
  <2>1. ed[f].to \in Server
    BY DEF EditInv, EditRec
  <2>2. CASE ed[f].to = c
    <3>1. InWindow(c, e)
      BY <2>2 DEF InWindow
    <3> QED BY <2>2, <3>1 DEF Puts, EditInv
  <2>3. CASE ed[f].to # c
    BY <2>1, <2>3, <1>2 DEF Puts, EditInv
  <2> QED BY <2>2, <2>3
<1> QED BY <1>1, <1>2, <1>3 DEF EditInv

LEMMA BackIsRecord == ASSUME EditInv, NEW e \in Editor
                      PROVE  Back(e) \in EditRec /\ Back(e).pc \in {"dirty", "closed"} /\ (Back(e).pc = "dirty" => Back(e).open)
<1>1. ed[e] \in EditRec
  BY DEF EditInv
<1>2. Shut(e, ed[e].last) \in EditRec /\ Shut(e, ed[e].last).pc = "closed"
  BY <1>1, ClosedIsRecord DEF Shut, EditRec
<1> QED BY <1>1, <1>2, ClosedIsRecord DEF Back, EditRec, EditPc

LEMMA FailsKeeps == ASSUME EditInv, NEW e \in Editor, Fails(e) PROVE EditInv'
<1>1. made \in Version /\ backups \in [Server -> SUBSET Version]
  BY DEF EditInv
<1> QED BY <1>1, BackIsRecord, OneEditorMoves DEF Fails

LEMMA RequestKeeps ==
  ASSUME EditInv, NEW e \in Editor, NEW base \in Version, NEW text \in Version, Request(e, base, text)
  PROVE  EditInv'
<1> DEFINE d == [ed[e] EXCEPT !.pc = "read", !.to = ed[e].conn, !.base = base, !.text = text]
<1>1. ed[e] \in EditRec /\ made \in Version /\ backups \in [Server -> SUBSET Version]
  BY DEF EditInv
<1>2. d \in EditRec /\ d.pc = "read"
  BY <1>1 DEF EditRec, EditPc
<1>3. ed' = [ed EXCEPT ![e] = d] /\ UNCHANGED <<remote, backups, made, late>>
  BY DEF Request
<1> QED BY <1>1, <1>2, <1>3, OneEditorMoves

LEMMA EditStep == EditInv /\ [EditNext]_editVars => EditInv'
<1> SUFFICES ASSUME EditInv, [EditNext]_editVars PROVE EditInv'
  OBVIOUS
<1> USE EditorAssumption
<1>0. /\ made \in Version /\ backups \in [Server -> SUBSET Version] /\ remote \in [Server -> Version]
      /\ \A e \in Editor : ed[e] \in EditRec
      /\ \A e \in Editor : ed[e].conn \in Server /\ ed[e].to \in Server
  BY DEF EditInv, EditRec
<1>1. ASSUME NEW e \in Editor, Open(e) PROVE EditInv'
  <2> DEFINE d == [ed[e] EXCEPT !.pc = "edit", !.open = TRUE, !.base = remote[ed[e].conn]]
  <2>1. d \in EditRec /\ d.pc = "edit" /\ d.open
    BY <1>0 DEF EditRec, EditPc
  <2>2. ed' = [ed EXCEPT ![e] = d]
    BY <1>1 DEF Open
  <2> QED BY <1>0, <1>1, <2>1, <2>2, OneEditorMoves DEF Open
<1>2. ASSUME NEW e \in Editor, Edit(e) PROVE EditInv'
  <2> DEFINE d == [ed[e] EXCEPT !.pc = "dirty", !.text = made + 1]
  <2>1. made + 1 \in Version /\ ed[e].open
    BY <1>0, <1>2 DEF Edit, Version, EditInv
  <2>2. d \in EditRec /\ d.pc = "dirty" /\ d.open
    BY <1>0, <2>1 DEF EditRec, EditPc
  <2>3. ed' = [ed EXCEPT ![e] = d]
    BY <1>2 DEF Edit
  <2> QED BY <1>0, <1>2, <2>1, <2>2, <2>3, OneEditorMoves DEF Edit
<1>3. ASSUME NEW e \in Editor, NEW c \in Server, SwitchServer(e, c) PROVE EditInv'
  <2> DEFINE d == [ed[e] EXCEPT !.conn = c, !.last = <<>>]
  <2>1. d \in EditRec
    <3>1. <<>> \in LastSave
      BY DEF LastSave
    <3> QED BY <1>0, <3>1 DEF EditRec
  <2>2. ed' = [ed EXCEPT ![e] = d] /\ UNCHANGED <<remote, backups, made, late>>
    BY <1>3 DEF SwitchServer
  <2>3. ed' \in [Editor -> EditRec] /\ \A f \in Editor : f # e => ed'[f] = ed[f]
    BY <2>1, <2>2 DEF EditInv
  <2>4. /\ ed'[e].pc = ed[e].pc /\ ed'[e].to = ed[e].to /\ ed'[e].open = ed[e].open
        /\ ed'[e].base = ed[e].base
    BY <1>0, <2>2 DEF EditInv, EditRec
  <2> QED BY <2>2, <2>3, <2>4 DEF EditInv
<1>4. ASSUME NEW e \in Editor, Save(e) PROVE EditInv'
  <2>1. ed[e].base \in Version /\ ed[e].text \in Version
    BY <1>0 DEF EditRec, EditPc
  <2> QED BY <1>4, <2>1, RequestKeeps DEF Save
<1>5. ASSUME NEW e \in Editor, RestoreLast(e) PROVE EditInv'
  <2>1. ed[e].last \in Version \X Version
    BY <1>0, <1>5 DEF EditRec, RestoreLast, LastSave
  <2> QED BY <1>5, <2>1, RequestKeeps DEF RestoreLast
<1>6. ASSUME NEW e \in Editor, RestoreBackup(e) PROVE EditInv'
  <2>1. PICK v \in backups[ed[e].conn] : Request(e, remote[ed[e].conn], v)
    BY <1>6 DEF RestoreBackup
  <2>2. v \in Version /\ remote[ed[e].conn] \in Version
    BY <1>0
  <2> QED BY <2>1, <2>2, RequestKeeps
<1>7. ASSUME NEW e \in Editor, ReadCurrent(e) PROVE EditInv'
  <2> DEFINE d == [ed[e] EXCEPT !.pc = "backup"]
  <2>1. CASE ed' = [ed EXCEPT ![e].pc = "backup"] /\ UNCHANGED <<remote, backups, made, late, requests>>
    <3>1. d \in EditRec /\ d.pc = "backup"
      BY <1>0 DEF EditRec, EditPc
    <3>2. ed' = [ed EXCEPT ![e] = d]
      BY <2>1
    <3> QED BY <1>0, <2>1, <3>1, <3>2, OneEditorMoves
  <2> QED BY <1>7, <2>1, FailsKeeps DEF ReadCurrent
<1>8. ASSUME NEW e \in Editor, BackUp(e) PROVE EditInv'
  <2> DEFINE d == [ed[e] EXCEPT !.pc = "reread"]
  <2>1. CASE /\ backups' = [backups EXCEPT ![ed[e].to] = @ \cup {ed[e].base}]
             /\ ed' = [ed EXCEPT ![e].pc = "reread"]
             /\ UNCHANGED <<remote, made, late, requests>>
    <3>1. d \in EditRec /\ d.pc = "reread" /\ d.base = ed[e].base /\ d.to = ed[e].to
      BY <1>0 DEF EditRec, EditPc
    <3>2. ed[e].base \in Version
      BY <1>0 DEF EditRec, EditPc
    <3>3. /\ backups' \in [Server -> SUBSET Version] /\ ed[e].base \in backups'[ed[e].to]
          /\ \A c \in Server : backups[c] \subseteq backups'[c]
      BY <1>0, <2>1, <3>2
    <3>4. ed' = [ed EXCEPT ![e] = d]
      BY <2>1
    <3> QED BY <1>0, <2>1, <3>1, <3>3, <3>4, OneEditorMoves
  <2> QED BY <1>8, <2>1, FailsKeeps DEF BackUp
<1>9. ASSUME NEW e \in Editor, ReadAgain(e) PROVE EditInv'
  <2> DEFINE d == [ed[e] EXCEPT !.pc = "write"]
  <2>1. CASE /\ remote[ed[e].to] = ed[e].base /\ ed' = [ed EXCEPT ![e].pc = "write"]
             /\ UNCHANGED <<remote, backups, made, late, requests>>
    <3>1. d \in EditRec /\ d.pc = "write" /\ d.base = ed[e].base /\ d.to = ed[e].to
      BY <1>0 DEF EditRec, EditPc
    <3>2. ed' = [ed EXCEPT ![e] = d]
      BY <2>1
    <3>3. ed[e].base \in backups[ed[e].to]
      BY <1>9 DEF ReadAgain, EditInv
    <3> QED BY <1>0, <2>1, <3>1, <3>2, <3>3, OneEditorMoves
  <2> QED BY <1>9, <2>1, FailsKeeps DEF ReadAgain
<1>10. ASSUME NEW e \in Editor, WriteBegins(e) PROVE EditInv'
  <2> DEFINE d == [ed[e] EXCEPT !.pc = "writing"]
  <2>1. d \in EditRec /\ d.pc = "writing"
    BY <1>0 DEF EditRec, EditPc
  <2>2. ed' = [ed EXCEPT ![e] = d]
    BY <1>10 DEF WriteBegins
  <2>3. 0 \in Version
    BY DEF Version
  <2> QED BY <1>0, <1>10, <2>1, <2>2, <2>3, PutsKeeps DEF WriteBegins
<1>11. ASSUME NEW e \in Editor, WriteEnds(e) PROVE EditInv'
  <2>1. CASE Fails(e)
    BY <2>1, FailsKeeps
  <2>2. CASE ~Fails(e)
    <3>1. ed[e].text \in Version /\ ed[e].base \in Version /\ 0 \in Version
      BY <1>0 DEF EditRec, Version
    <3>2. PICK v \in {0, ed[e].text} : Puts(e, ed[e].to, v)
      BY <1>11, <2>2 DEF WriteEnds
    <3> DEFINE last == <<ed[e].base, ed[e].text>>
               d == IF ed[e].conn = ed[e].to THEN Shut(e, last) ELSE Back(e)
    <3>3. Shut(e, last) \in EditRec /\ Shut(e, last).pc = "closed"
      <4>1. last \in LastSave
        BY <3>1 DEF LastSave
      <4> HIDE DEF last
      <4> QED BY <1>0, <4>1, ClosedIsRecord DEF Shut, EditRec
    <3>4. d \in EditRec /\ d.pc \in {"dirty", "closed"} /\ (d.pc = "dirty" => d.open)
      BY <3>3, BackIsRecord
    <3>5. ed' = [ed EXCEPT ![e] = d] /\ UNCHANGED <<made, backups>>
      BY <1>11, <2>2 DEF WriteEnds
    <3> HIDE DEF d
    <3> QED BY <1>0, <3>1, <3>2, <3>4, <3>5, PutsKeeps
  <2> QED BY <2>1, <2>2
<1>12. ASSUME NEW c \in Server, Elsewhere(c) PROVE EditInv'
  <2>1. made + 1 \in Version
    BY <1>0, <1>12 DEF Elsewhere, Version
  <2>2. remote' \in [Server -> Version] /\ late' \subseteq Version /\ late \subseteq late'
    BY <1>12, <2>1 DEF Elsewhere, EditInv
  <2>3. \A e \in Editor : ed[e].pc = "write" => remote'[ed[e].to] \in late' \/ remote'[ed[e].to] = ed[e].base
    BY <1>0, <1>12, <2>2 DEF Elsewhere, EditInv
  <2> QED BY <1>12, <2>1, <2>2, <2>3 DEF Elsewhere, EditInv
<1>13. CASE UNCHANGED editVars
  BY <1>13 DEF editVars, EditInv
<1> QED
  BY <1>1, <1>2, <1>3, <1>4, <1>5, <1>6, <1>7, <1>8, <1>9, <1>10, <1>11, <1>12, <1>13 DEF EditNext

THEOREM EditorInvariant == EditSpec => []EditInv
<1> QED BY EditStarts, EditStep, PTL DEF EditSpec

(* An editor with unsaved text was opened, and files, backups and texts    *)
(* are versions that were made.                                            *)
THEOREM EditorTypeCorrect == EditSpec => []EditorTypeOK
<1>1. EditInv => EditorTypeOK
  BY DEF EditInv, EditorTypeOK
<1> QED BY <1>1, EditorInvariant, PTL

(* A save replaces only the version its operator opened, of which a backup *)
(* lies on the same server, unless that version came after the second read *)
(* (saveEditorFile): for any number of panels, servers and requests.       *)
THEOREM SavesReplaceWhatWasRead == EditSpec => ReplacesWhatWasRead
<1>1. EditInv /\ [EditNext]_editVars =>
        [\A e \in Editor : ed[e].pc = "write" /\ ed'[e].pc = "writing" =>
           remote[ed[e].to] \in late \/ (remote[ed[e].to] = ed[e].base /\ remote[ed[e].to] \in backups[ed[e].to])]_editVars
  BY DEF EditInv
<1> QED BY <1>1, EditorInvariant, PTL DEF EditSpec, ReplacesWhatWasRead

-----------------------------------------------------------------------------
(***************************************************************************)
(* Directory transfers.  The inductive invariant: a file whose task is done*)
(* has arrived, an uploaded one that arrived was counted or is owed an     *)
(* answer, siblings belong to uploads that are under way or failed, and a  *)
(* file under way, or owed an answer, whose destination leads outside had  *)
(* its link changed after it was checked.                                  *)
(***************************************************************************)
DirInv ==
  /\ dest \in [TreeFile -> {"old", "partial", "new", "gone"}]
  /\ fileSt \in [TreeFile -> Busy \cup {"todo", "done", "failed"}]
  /\ sibling \subseteq TreeFile /\ strayed \subseteq TreeFile
  /\ dirKind \in {"upload", "download"} /\ bound \in BOOLEAN /\ (bound => dirKind = "upload")
  /\ \A f \in TreeFile :
       /\ fileSt[f] = "done" => dest[f] = "new"
       /\ dirKind = "upload" /\ dest[f] = "new" => fileSt[f] = "done" \/ f \in owed
       /\ f \in owed => dirKind = "upload" /\ fileSt[f] \in {"clean", "failed"}
       /\ fileSt[f] = "check" => bound
       /\ fileSt[f] = "commit" => dirKind = "upload"
       /\ dirKind = "upload" => dest[f] \in {"old", "new"}
       /\ f \in sibling => dirKind = "upload" /\ fileSt[f] \in {"moving", "commit", "clean", "failed"}
       /\ f \in outside => bound
       /\ f \in outside /\ (fileSt[f] \in {"moving", "commit"} \/ f \in owed) => f \in moved
  /\ strayed \subseteq moved
  /\ dirPhase = "ok" => \A f \in TreeFile : fileSt[f] \in {"done", "failed"}

LEMMA DirStarts == DirInit => DirInv
BY DEF DirInit, DirInv, Busy

LEMMA DirStep == DirInv /\ [DirNext]_dirVars => DirInv'
<1> SUFFICES ASSUME DirInv, [DirNext]_dirVars PROVE DirInv'
  OBVIOUS
<1> USE DEF Busy, Files
<1>1. CASE CheckTree
  BY <1>1 DEF CheckTree, DirInv
<1>2. CASE MakeDirs
  BY <1>2 DEF MakeDirs, EnsureRemoteDir, DirInv
<1>3. CASE Abort
  BY <1>3 DEF Abort, DirInv
<1>4. CASE DirAnswers
  <2>1. dirPhase' = "ok" => \A f \in TreeFile : fileSt[f] \in {"done", "failed"}
    <3> SUFFICES ASSUME dirPhase' = "ok", NEW f \in TreeFile PROVE fileSt[f] \in {"done", "failed"}
      OBVIOUS
    <3>1. dead = {} /\ LaneOver(BigFile) /\ LaneOver(TreeFile \ BigFile)
      BY <1>4 DEF DirAnswers
    <3>2. Settled(BigFile) /\ Settled(TreeFile \ BigFile)
      BY <3>1 DEF LaneOver
    <3> QED BY <3>2, DirAssumption DEF Settled
  <2> QED BY <1>4, <2>1 DEF DirAnswers, DirInv
<1>5. ASSUME NEW f \in TreeFile, TakeTask(f) PROVE DirInv'
  BY <1>5 DEF TakeTask, IsNext, DirInv
<1>6. ASSUME NEW f \in TreeFile, CheckFile(f) PROVE DirInv'
  BY <1>6 DEF CheckFile, DirInv
<1>7. ASSUME NEW f \in TreeFile, FileMoved(f) PROVE DirInv'
  BY <1>7 DEF FileMoved, DirInv
<1>8. ASSUME NEW f \in TreeFile, FileBreaks(f) PROVE DirInv'
  BY <1>8 DEF FileBreaks, DirInv
<1>9. ASSUME NEW f \in TreeFile, CommitFile(f) PROVE DirInv'
  BY <1>9 DEF CommitFile, Renamed, DirInv
<1>10. ASSUME NEW f \in TreeFile, CleanFile(f) PROVE DirInv'
  BY <1>10 DEF CleanFile, Unlinked, DirInv
<1>11. ASSUME NEW f \in TreeFile, Redirect(f) PROVE DirInv'
  BY <1>11 DEF Redirect, DirInv
<1>12. ASSUME NEW f \in TreeFile, RenameLands(f) PROVE DirInv'
  BY <1>12 DEF RenameLands, Renamed, DirInv
<1>13. CASE UNCHANGED dirVars
  BY <1>13 DEF dirVars, DirInv
<1> QED
  BY <1>1, <1>2, <1>3, <1>4, <1>5, <1>6, <1>7, <1>8, <1>9, <1>10, <1>11, <1>12, <1>13 DEF DirNext

THEOREM DirInvariant == DirSpec => []DirInv
<1> QED BY DirStarts, DirStep, PTL DEF DirSpec

(* An answer without an error counts only files that arrived whole and     *)
(* lists the others, an upload leaves no part of a file under its name and *)
(* replaces none it lists as failed but those whose rename was not         *)
(* answered, and a bound upload is written outside the root only where a   *)
(* link changed after its check (sftpUploadDir, sftpDownloadDir): for any  *)
(* tree and pool.                                                          *)
THEOREM DirectoriesAreHonest == DirSpec => []DirHonest
<1>1. DirInv => DirHonest
  BY DEF DirInv, DirHonest
<1> QED BY <1>1, DirInvariant, PTL

-----------------------------------------------------------------------------
(***************************************************************************)
(* Archives and SCP.  The inductive invariant: as long as the client reads *)
(* on, what left tar was sent; what arrived of an SCP call and was not     *)
(* read follows the protocol, so that a third acknowledgement of an upload *)
(* is the one for the whole file.                                          *)
(***************************************************************************)
ArcRec == [tar : {"none", "running", "ok", "bad"}, left : 0..Parts, sent : 0..Parts, started : BOOLEAN,
           broken : BOOLEAN, exit : {"none", "ok", "bad"}, lost : BOOLEAN,
           chan : {"open", "failed", "closed"},
           resp : {"open", "refused", "streaming", "cut", "left", "ended"}]

ArcInv ==
  /\ arc \in ArcRec
  /\ arc.sent + arc.left <= Parts
  /\ ~arc.broken => arc.sent + arc.left = Parts
  /\ arc.tar = "ok" => arc.left = 0
  /\ arc.tar = "bad" => arc.exit = "bad"
  /\ arc.resp = "ended" => arc.chan = "closed" /\ (Whole \/ arc.lost)

Taken(step) == IF step = "ask" THEN 0 ELSE IF step = "header" THEN 1 ELSE 2
ScpRec == [dir : {"t", "f"}, size : 0..Parts, turn : Int, step : {"ask", "header", "data"},
           buf : Seq({"ack", "nack", "head", "part"}), closed : BOOLEAN, got : 0..Parts,
           file : {"old", "part", "whole"}, answer : {"none", "ok", "error", "truncated"}]

(* An upload: the acknowledgements read and unread are those of its turns. *)
UploadTurns ==
  /\ \A i \in 1..Len(scp.buf) : scp.buf[i] = "ack" \/ (scp.buf[i] = "nack" /\ i = Len(scp.buf))
  /\ scp.turn >= 0 => /\ scp.turn = Len(scp.buf) + Taken(scp.step) /\ scp.turn <= 3
                      /\ \A i \in 1..Len(scp.buf) : scp.buf[i] = "ack"
                      /\ scp.turn = 3 => scp.file = "whole"
  /\ scp.turn < 0 => /\ Len(scp.buf) >= 1 /\ scp.buf[Len(scp.buf)] = "nack"
                     /\ Len(scp.buf) + Taken(scp.step) > 3 => scp.file = "whole"

(* A download: a part that is not read yet is one the header announced.    *)
DownloadTurns ==
  /\ scp.got <= scp.size
  /\ scp.step \in {"ask", "data"}
  /\ scp.step = "ask" => /\ scp.got = 0 /\ scp.turn <= 1
                         /\ scp.turn >= 0 => Len(scp.buf) = scp.turn
                         /\ \A i \in 1..Len(scp.buf) : scp.buf[i] \in {"head", "nack"}
                         /\ \A i \in 1..Len(scp.buf) : scp.buf[i] = "head" => i = 1
  /\ scp.step = "data" => /\ scp.turn >= 0 => scp.turn = scp.got + Len(scp.buf) + 1
                          /\ \A i \in 1..Len(scp.buf) : scp.buf[i] # "head"
                          /\ \A i \in 1..Len(scp.buf) : scp.buf[i] = "part" => scp.got + i <= scp.size

ScpInv ==
  /\ scp \in ScpRec
  /\ scp.answer = "none" => IF scp.dir = "t" THEN UploadTurns ELSE DownloadTurns
  /\ scp.answer = "ok" => IF scp.dir = "t" THEN scp.file = "whole" ELSE scp.got = scp.size
  /\ scp.got <= scp.size

PipesInv == ArcInv /\ ScpInv

LEMMA PipesStarts == PipesInit => PipesInv
<1> SUFFICES ASSUME PipesInit PROVE PipesInv
  OBVIOUS
<1> USE PipesAssumption DEF PipesInit
<1>1. ArcInv
  BY DEF ArcInit, ArcInv, ArcRec, Whole
<1>2. ScpInv
  BY DEF ScpInit, ScpInv, ScpRec, UploadTurns, DownloadTurns, Taken
<1> QED BY <1>1, <1>2 DEF PipesInv

LEMMA ArcStep ==
  ASSUME ArcInv,
         ArcStart \/ ArcData \/ TarExits \/ ArcError \/ ClientLeaves \/ \E lost \in BOOLEAN : ArcCloses(lost)
  PROVE  ArcInv'
<1> USE PipesAssumption
<1>1. CASE ArcStart
  BY <1>1 DEF ArcStart, ArcInv, ArcRec, Whole
<1>2. CASE ArcData
  <2>1. CASE arc.broken
    BY <1>2, <2>1 DEF ArcData, ArcInv, ArcRec, Whole
  <2>2. CASE ~arc.broken
    <3>1. arc.left \in Int /\ arc.sent \in Int /\ arc.left > 0 /\ arc.sent + arc.left = Parts
      BY <1>2, <2>2 DEF ArcData, ArcInv, ArcRec
    <3>2. arc.left - 1 \in 0..Parts /\ arc.sent + 1 \in 0..Parts
      BY <3>1 DEF ArcInv, ArcRec
    <3>3. arc' = [arc EXCEPT !.left = arc.left - 1, !.sent = arc.sent + 1, !.started = TRUE, !.resp = "streaming"]
      BY <1>2, <2>2 DEF ArcData
    <3>4. /\ arc'.left = arc.left - 1 /\ arc'.sent = arc.sent + 1 /\ arc'.resp = "streaming"
          /\ arc'.tar = arc.tar /\ arc'.exit = arc.exit /\ arc' \in ArcRec
      BY <3>2, <3>3 DEF ArcInv, ArcRec
    <3>5. arc.tar = "running"
      BY <1>2 DEF ArcData
    <3> QED BY <3>1, <3>4, <3>5 DEF ArcInv
  <2> QED BY <2>1, <2>2
<1>3. CASE TarExits
  BY <1>3 DEF TarExits, ArcInv, ArcRec, Whole
<1>4. CASE ArcError
  BY <1>4 DEF ArcError, Cuts, ArcInv, ArcRec, Whole
<1>5. CASE ClientLeaves
  BY <1>5 DEF ClientLeaves, ArcInv, ArcRec, Whole
<1>6. ASSUME NEW lost \in BOOLEAN, ArcCloses(lost) PROVE ArcInv'
  <2> DEFINE a == [arc EXCEPT !.chan = "closed", !.lost = lost]
  <2>0. a \in ArcRec /\ a.chan = "closed" /\ a.lost = lost /\ arc.tar \in (IF lost THEN {"running"} ELSE {"ok", "bad"})
    BY <1>6 DEF ArcCloses, ArcInv, ArcRec
  <2>1. CASE arc.broken
    BY <1>6, <2>1 DEF ArcCloses, ArcInv, ArcRec, Whole
  <2>2. CASE ~arc.broken /\ ~arc.started
    BY <1>6, <2>2 DEF ArcCloses, ArcInv, ArcRec, Whole
  <2>3. CASE ~arc.broken /\ arc.started /\ arc.exit = "bad"
    BY <1>6, <2>3 DEF ArcCloses, Cuts, ArcInv, ArcRec, Whole
  <2>4. CASE ~arc.broken /\ arc.started /\ arc.exit # "bad"
    <3>1. arc' = [a EXCEPT !.resp = "ended"]
      BY <1>6, <2>4 DEF ArcCloses, ArcInv, ArcRec
    <3>2. /\ arc'.tar = arc.tar /\ arc'.sent = arc.sent /\ arc'.left = arc.left /\ arc'.broken = arc.broken
          /\ arc'.exit = arc.exit /\ arc'.chan = "closed" /\ arc'.lost = lost /\ arc' \in ArcRec
      BY <2>0, <3>1 DEF ArcRec, ArcInv
    <3> HIDE DEF a
    <3> QED BY <2>0, <2>4, <3>2 DEF ArcInv, ArcRec, Whole
  <2> QED BY <2>1, <2>2, <2>3, <2>4 DEF ArcInv, ArcRec
<1> QED BY <1>1, <1>2, <1>3, <1>4, <1>5, <1>6

LEMMA ServerSaysKeeps ==
  ASSUME ScpInv, NEW m \in {"ack", "nack", "head", "part"}, ServerSays(m) PROVE ScpInv'
<1> USE PipesAssumption
<1>1. scp \in ScpRec /\ scp.answer = "none" /\ scp' \in ScpRec
  <2>1. scp \in ScpRec /\ scp.answer = "none"
    BY DEF ServerSays, ScpInv
  <2>2. Append(scp.buf, m) \in Seq({"ack", "nack", "head", "part"}) /\ scp.turn + 1 \in Int
    BY <2>1 DEF ScpRec
  <2> DEFINE turn == IF m = "nack" THEN -1 ELSE scp.turn + 1
             whole == IF scp.dir = "t" /\ m = "ack" /\ scp.turn = 2 THEN "whole"
                     ELSE IF scp.dir = "t" /\ scp.step = "data" /\ scp.turn = 2 THEN "part" ELSE scp.file
  <2>3. turn \in Int /\ whole \in {"old", "part", "whole"}
    BY <2>1, <2>2 DEF ScpRec
  <2>4. scp' = [scp EXCEPT !.buf = Append(scp.buf, m), !.turn = turn, !.file = whole]
    BY DEF ServerSays
  <2> HIDE DEF turn, whole
  <2> QED BY <2>1, <2>2, <2>3, <2>4 DEF ScpRec
<1>2. /\ scp'.dir = scp.dir /\ scp'.size = scp.size /\ scp'.step = scp.step /\ scp'.got = scp.got
      /\ scp'.answer = scp.answer /\ scp'.buf = Append(scp.buf, m)
      /\ scp'.turn = IF m = "nack" THEN -1 ELSE scp.turn + 1
      /\ scp.turn >= 0
      /\ scp'.file = IF scp.dir = "t" /\ m = "ack" /\ scp.turn = 2 THEN "whole"
                     ELSE IF scp.dir = "t" /\ scp.step = "data" /\ scp.turn = 2 THEN "part" ELSE scp.file
  BY <1>1 DEF ServerSays, ScpRec
<1>3. scp.buf \in Seq({"ack", "nack", "head", "part"}) /\ scp.turn \in Int /\ scp.got \in Nat /\ scp.size \in Nat
  BY <1>1 DEF ScpRec
<1>4. /\ Len(scp'.buf) = Len(scp.buf) + 1 /\ scp'.buf # <<>> /\ scp'.buf[Len(scp.buf) + 1] = m
      /\ \A i \in 1..Len(scp.buf) : scp'.buf[i] = scp.buf[i]
  BY <1>2, <1>3
<1>5. CASE scp.dir = "t"
  <2>1. UploadTurns /\ m \in {"ack", "nack"} /\ (m = "ack" => scp.turn \in 0..2)
    BY <1>1, <1>5 DEF ScpInv, ServerSays
  <2>2. UploadTurns'
    <3> DEFINE n == Len(scp.buf)
    <3>0. n \in Nat /\ Taken(scp.step) \in 0..2 /\ \A i \in 1..n : scp.buf[i] = "ack"
      <4>1. Taken(scp.step) \in 0..2
        BY DEF Taken
      <4>2. \A i \in 1..Len(scp.buf) : scp.buf[i] = "ack"
        BY <1>2, <2>1 DEF UploadTurns
      <4> QED BY <1>3, <4>1, <4>2
    <3>1. \A i \in 1..(n + 1) : scp'.buf[i] = "ack" \/ (scp'.buf[i] = "nack" /\ i = n + 1)
      BY <1>4, <2>1, <3>0
    <3>2. CASE m = "ack"
      <4>1. \A i \in 1..(n + 1) : scp'.buf[i] = "ack"
        BY <1>4, <3>0, <3>2
      <4>2. scp'.turn = scp.turn + 1 /\ scp.turn = n + Taken(scp.step) /\ scp.turn \in 0..2
        BY <1>2, <2>1, <3>2 DEF UploadTurns
      <4>3. scp'.turn = 3 => scp'.file = "whole"
        BY <1>2, <1>5, <3>2, <4>2
      <4> QED BY <1>2, <1>4, <3>0, <3>1, <4>1, <4>2, <4>3 DEF UploadTurns
    <3>3. CASE m = "nack"
      <4>1. scp'.turn < 0 /\ scp.turn = n + Taken(scp.step) /\ (scp.turn = 3 => scp.file = "whole") /\ scp.turn <= 3
        BY <1>2, <2>1, <3>3 DEF UploadTurns
      <4>2. scp.turn = 3 => scp'.file = "whole"
        BY <1>2, <3>3, <4>1
      <4>3. n + 1 + Taken(scp.step) > 3 => scp'.file = "whole"
        BY <1>3, <3>0, <4>1, <4>2
      <4> QED BY <1>2, <1>4, <3>0, <3>1, <3>3, <4>1, <4>3 DEF UploadTurns
    <3> QED BY <2>1, <3>2, <3>3
  <2> QED BY <1>1, <1>2, <1>5, <2>2 DEF ScpInv
<1>6. CASE scp.dir # "t"
  <2>1. DownloadTurns
    BY <1>1, <1>6 DEF ScpInv
  <2>2. /\ m = "head" => scp.turn = 0
        /\ m = "part" => scp.turn \in 1..scp.size /\ scp.step = "data"
        /\ m = "ack" => scp.step = "data"
    BY <1>6 DEF ServerSays
  <2>3. DownloadTurns'
    <3> DEFINE n == Len(scp.buf)
    <3>0. n \in Nat
      BY <1>3
    <3>1. CASE scp.step = "ask"
      BY <1>2, <1>3, <1>4, <2>1, <2>2, <3>0, <3>1 DEF DownloadTurns
    <3>2. CASE scp.step = "data"
      <4>1. scp.turn = scp.got + n + 1 /\ m # "head"
        <5>1. scp.turn = scp.got + n + 1
          BY <1>2, <2>1, <3>2 DEF DownloadTurns
        <5>2. scp.turn # 0
          BY <1>3, <3>0, <5>1
        <5> QED BY <2>2, <5>1, <5>2
      <4>2. m = "part" => scp.got + (n + 1) <= scp.size
        BY <1>3, <2>2, <3>0, <4>1
      <4>3. \A i \in 1..(n + 1) : scp'.buf[i] # "head" /\ (scp'.buf[i] = "part" => scp.got + i <= scp.size)
        BY <1>4, <2>1, <3>0, <3>2, <4>1, <4>2 DEF DownloadTurns
      <4>4. scp'.turn >= 0 => scp'.turn = scp.got + (n + 1) + 1
        <5>1. scp'.turn = -1 \/ scp'.turn = scp.turn + 1
          BY <1>2
        <5>2. scp.turn + 1 = scp.got + (n + 1) + 1
          BY <1>3, <3>0, <4>1
        <5>3. ~(-1 >= 0)
          OBVIOUS
        <5> QED BY <5>1, <5>2, <5>3
      <4>5. scp.got <= scp.size
        BY <2>1 DEF DownloadTurns
      <4> QED BY <1>2, <1>4, <3>2, <4>3, <4>4, <4>5 DEF DownloadTurns
    <3> QED BY <2>1, <3>1, <3>2 DEF DownloadTurns
  <2> QED BY <1>1, <1>2, <1>6, <2>3 DEF ScpInv
<1> QED BY <1>5, <1>6

LEMMA ScpReadsKeeps == ASSUME ScpInv, ScpReads PROVE ScpInv'
<1> USE PipesAssumption
<1>1. scp \in ScpRec /\ scp.answer = "none"
  BY DEF ScpReads, ScpInv
<1>2. scp.buf \in Seq({"ack", "nack", "head", "part"}) /\ scp.turn \in Int /\ scp.got \in 0..Parts /\ scp.size \in 0..Parts
  BY <1>1 DEF ScpRec
<1>3. ASSUME NEW a \in {"ok", "error", "truncated"}, Answers(a),
             a = "ok" => IF scp.dir = "t" THEN scp.file = "whole" ELSE scp.got = scp.size
      PROVE  ScpInv'
  BY <1>1, <1>3 DEF Answers, ScpInv, ScpRec
<1>4. ASSUME scp.buf # <<>>
      PROVE  /\ Tail(scp.buf) \in Seq({"ack", "nack", "head", "part"}) /\ Len(Tail(scp.buf)) = Len(scp.buf) - 1
             /\ Len(scp.buf) >= 1 /\ Head(scp.buf) = scp.buf[1]
             /\ \A i \in 1..Len(Tail(scp.buf)) : Tail(scp.buf)[i] = scp.buf[i + 1]
  BY <1>2, <1>4
<1>5. ASSUME NEW step \in {"header", "data"}, scp.dir = "t", Says("ack"), Go(step),
             Taken(step) = Taken(scp.step) + 1
      PROVE  ScpInv'
  <2>1. /\ scp'.dir = scp.dir /\ scp'.size = scp.size /\ scp'.step = step /\ scp'.got = scp.got
        /\ scp'.answer = scp.answer /\ scp'.buf = Tail(scp.buf) /\ scp'.turn = scp.turn /\ scp'.file = scp.file
        /\ scp' \in ScpRec
    BY <1>1, <1>4, <1>5 DEF Go, ScpRec, Says
  <2>2. UploadTurns /\ scp.buf # <<>> /\ scp.buf[1] = "ack"
    BY <1>1, <1>4, <1>5 DEF ScpInv, Says
  <2>3. Taken(step) \in Int /\ Taken(scp.step) \in Int
    BY DEF Taken
  <2> DEFINE n == Len(scp.buf)
  <2>4. n \in Nat /\ n >= 1 /\ Len(scp'.buf) = n - 1 /\ \A i \in 1..(n - 1) : scp'.buf[i] = scp.buf[i + 1]
    BY <1>2, <1>4, <2>1, <2>2
  <2>5. scp.turn < 0 => n >= 2 /\ scp'.buf[n - 1] = "nack"
    BY <1>2, <2>2, <2>4 DEF UploadTurns
  <2>6. UploadTurns'
    <3>1. \A i \in 1..(n - 1) : scp'.buf[i] = "ack" \/ (scp'.buf[i] = "nack" /\ i = n - 1)
      BY <2>2, <2>4 DEF UploadTurns
    <3>2. scp.turn >= 0 => /\ scp.turn = (n - 1) + Taken(step) /\ scp.turn <= 3 /\ (scp.turn = 3 => scp.file = "whole")
                           /\ \A i \in 1..(n - 1) : scp'.buf[i] = "ack"
      <4>1. scp.turn >= 0 => /\ scp.turn = n + Taken(scp.step) /\ scp.turn <= 3 /\ (scp.turn = 3 => scp.file = "whole")
                             /\ \A i \in 1..n : scp.buf[i] = "ack"
        BY <2>2 DEF UploadTurns
      <4>2. n + Taken(scp.step) = (n - 1) + Taken(step)
        BY <1>5, <2>3, <2>4
      <4> QED BY <2>4, <4>1, <4>2
    <3>3. scp.turn < 0 => ((n - 1) + Taken(step) > 3 => scp.file = "whole")
      BY <1>2, <1>5, <2>2, <2>3, <2>4 DEF UploadTurns
    <3> QED BY <2>1, <2>4, <2>5, <3>1, <3>2, <3>3 DEF UploadTurns
  <2> QED BY <1>1, <1>5, <2>1, <2>6 DEF ScpInv
<1>6. CASE scp.dir = "t" /\ Says("ack") /\ scp.step = "data" /\ Answers("ok")
  <2>1. UploadTurns /\ Len(scp.buf) >= 1 /\ scp.buf[1] = "ack"
    BY <1>1, <1>4, <1>6 DEF ScpInv, Says
  <2>2. scp.file = "whole"
    BY <1>2, <1>6, <2>1 DEF UploadTurns, Taken
  <2> QED BY <1>3, <1>6, <2>2
<1>7. CASE scp.dir = "f" /\ scp.step = "ask" /\ Says("head") /\ Go("data")
  <2>1. /\ scp'.dir = scp.dir /\ scp'.size = scp.size /\ scp'.step = "data" /\ scp'.got = scp.got
        /\ scp'.answer = scp.answer /\ scp'.buf = Tail(scp.buf) /\ scp'.turn = scp.turn
        /\ scp' \in ScpRec
    BY <1>1, <1>4, <1>7 DEF Go, ScpRec, Says
  <2>2. DownloadTurns /\ scp.buf # <<>>
    BY <1>1, <1>7 DEF ScpInv, Says
  <2>3. DownloadTurns'
    BY <1>2, <1>4, <1>7, <2>1, <2>2 DEF DownloadTurns
  <2> QED BY <1>1, <1>7, <2>1, <2>3 DEF ScpInv
<1>8. CASE /\ scp.dir = "f" /\ scp.step = "data" /\ Says("part")
           /\ scp' = [scp EXCEPT !.got = @ + 1, !.buf = Tail(@)]
  <2>1. DownloadTurns /\ scp.buf # <<>> /\ scp.buf[1] = "part"
    BY <1>1, <1>4, <1>8 DEF ScpInv, Says
  <2>2. scp.got + 1 <= scp.size
    BY <1>2, <1>4, <1>8, <2>1 DEF DownloadTurns
  <2>3. /\ scp'.dir = scp.dir /\ scp'.size = scp.size /\ scp'.step = "data" /\ scp'.got = scp.got + 1
        /\ scp'.answer = scp.answer /\ scp'.buf = Tail(scp.buf) /\ scp'.turn = scp.turn
        /\ scp' \in ScpRec
    <3>1. scp.got + 1 \in 0..Parts
      BY <1>2, <2>2
    <3> QED BY <1>1, <1>4, <1>8, <2>1, <3>1 DEF ScpRec
  <2> DEFINE n == Len(scp.buf)
  <2>4. n \in Nat /\ n >= 1 /\ Len(scp'.buf) = n - 1 /\ \A i \in 1..(n - 1) : scp'.buf[i] = scp.buf[i + 1]
    BY <1>2, <1>4, <2>1, <2>3
  <2>5. DownloadTurns'
    <3>1. scp.turn >= 0 => scp.turn = scp.got + n + 1
      BY <1>8, <2>1 DEF DownloadTurns
    <3>2. \A i \in 1..(n - 1) : scp'.buf[i] # "head" /\ (scp'.buf[i] = "part" => (scp.got + 1) + i <= scp.size)
      <4> SUFFICES ASSUME NEW i \in 1..(n - 1)
                   PROVE  scp'.buf[i] # "head" /\ (scp'.buf[i] = "part" => (scp.got + 1) + i <= scp.size)
        OBVIOUS
      <4>1. i + 1 \in 1..n /\ scp'.buf[i] = scp.buf[i + 1]
        BY <2>4
      <4>2. scp.buf[i + 1] # "head" /\ (scp.buf[i + 1] = "part" => scp.got + (i + 1) <= scp.size)
        BY <1>8, <2>1, <4>1 DEF DownloadTurns
      <4> QED BY <1>2, <4>1, <4>2
    <3>3. scp'.turn >= 0 => scp'.turn = scp'.got + Len(scp'.buf) + 1
      BY <1>2, <2>3, <2>4, <3>1
    <3>4. scp'.got <= scp'.size
      BY <2>2, <2>3
    <3> QED BY <2>3, <2>4, <3>2, <3>3, <3>4 DEF DownloadTurns
  <2> QED BY <1>1, <1>8, <2>2, <2>3, <2>5 DEF ScpInv
<1> QED
  BY <1>3, <1>5, <1>6, <1>7, <1>8 DEF ScpReads, Taken

LEMMA PipesStep == PipesInv /\ [PipesNext]_pipesVars => PipesInv'
<1> SUFFICES ASSUME PipesInv, [PipesNext]_pipesVars PROVE PipesInv'
  OBVIOUS
<1>1. ASSUME ArcStart \/ ArcData \/ TarExits \/ ArcError \/ ClientLeaves \/ \E lost \in BOOLEAN : ArcCloses(lost)
      PROVE  PipesInv'
  <2>1. UNCHANGED scp
    BY <1>1 DEF ArcStart, ArcData, TarExits, ArcError, ClientLeaves, ArcCloses
  <2>2. ScpInv'
    BY <2>1 DEF PipesInv, ScpInv, UploadTurns, DownloadTurns
  <2> QED BY <1>1, <2>2, ArcStep DEF PipesInv
<1>2. ASSUME UNCHANGED arc, ScpInv' PROVE PipesInv'
  BY <1>2 DEF PipesInv, ArcInv, Whole
<1>3. ASSUME NEW m \in {"ack", "nack", "head", "part"}, ServerSays(m) PROVE PipesInv'
  BY <1>2, <1>3, ServerSaysKeeps DEF ServerSays, PipesInv
<1>4. CASE ScpReads
  BY <1>2, <1>4, ScpReadsKeeps DEF ScpReads, PipesInv
<1>5. CASE ScpEnds
  <2>1. ScpInv'
    BY <1>5 DEF ScpEnds, PipesInv, ScpInv, ScpRec, UploadTurns, DownloadTurns
  <2> QED BY <1>2, <1>5, <2>1 DEF ScpEnds
<1>6. CASE UNCHANGED pipesVars
  BY <1>6 DEF pipesVars, PipesInv, ArcInv, Whole, ScpInv, UploadTurns, DownloadTurns
<1> QED BY <1>1, <1>3, <1>4, <1>5, <1>6 DEF PipesNext

THEOREM PipesInvariant == PipesSpec => []PipesInv
<1> QED BY PipesStarts, PipesStep, PTL DEF PipesSpec

(* A response that ends as complete carries the whole archive unless the   *)
(* channel closed without an exit status, and an SCP call that is answered *)
(* as done moved the whole file (streamDownloadArchive, scpReadFile,       *)
(* scpWriteFile): for any number of parts.                                 *)
THEOREM PipesAreFailClosed == PipesSpec => []PipesFailClosed
<1>1. PipesInv => PipesFailClosed
  BY DEF PipesInv, ArcInv, ScpInv, PipesFailClosed
<1> QED BY <1>1, PipesInvariant, PTL

-----------------------------------------------------------------------------
(***************************************************************************)
(* The file panel.  The inductive invariant: the listing with the last     *)
(* number is the target, on its way or answered; and the search that may   *)
(* still answer was asked of the connection the panel shows.               *)
(***************************************************************************)
Loading == [seq : 1..MaxLoads, conn : FileConn, dir : Dir]
PanelRec == [conn : FileConn, shown : Listing \cup {Nothing}, cwd : Dir, mode : {"sftp", "scp"}, target : Listing,
             foreign : BOOLEAN]
ChangeRec == [live : SUBSET [no : Nat, conn : FileConn], made : Nat]
Searching == [no : Nat \ {0}, conn : FileConn]
SearchRec == [current : Nat, running : SUBSET Searching, shown : Searching \cup {NoHits}, next : Nat \ {0}]

PanelInv ==
  /\ panel \in PanelRec /\ changes \in ChangeRec /\ search \in SearchRec
  /\ loadSeq \in 1..MaxLoads /\ loads \subseteq Loading
  /\ \A k, l \in loads : k.seq = l.seq => k = l
  /\ \A l \in loads : l.seq <= loadSeq
  /\ \A l \in loads : l.seq = loadSeq => panel.target = [conn |-> l.conn, dir |-> l.dir]
  /\ (\A l \in loads : l.seq # loadSeq) => panel.shown \in {panel.target, Nothing}
  /\ panel.shown # Nothing => panel.shown.dir = panel.cwd
  /\ ~panel.foreign => panel.target.conn = panel.conn
  /\ search.shown # NoHits => search.shown.conn = panel.conn /\ search.shown.no = search.current
  /\ search.current \in {0, search.next - 1}
  /\ \A x \in search.running : x.no < search.next /\ (x.no = search.current => x.conn = panel.conn)

LEMMA PanelStarts == PanelInit => PanelInv
<1> SUFFICES ASSUME PanelInit PROVE PanelInv
  OBVIOUS
<1> USE FilePanelAssumption
<1>1. PICK c \in FileConn :
        /\ panel = [conn |-> c, shown |-> Nothing, cwd |-> "/", mode |-> "sftp",
                    target |-> [conn |-> c, dir |-> "/"], foreign |-> FALSE]
        /\ loadSeq = 1 /\ loads = {[seq |-> 1, conn |-> c, dir |-> "/"]}
        /\ changes = [live |-> {}, made |-> 0]
        /\ search = [current |-> 0, running |-> {}, shown |-> NoHits, next |-> 1]
  BY DEF PanelInit
<1>2. panel \in PanelRec /\ changes \in ChangeRec /\ search \in SearchRec
  BY <1>1 DEF PanelRec, ChangeRec, SearchRec, Listing
<1>3. loadSeq \in 1..MaxLoads /\ loads \subseteq Loading
  BY <1>1 DEF Loading
<1> QED BY <1>1, <1>2, <1>3 DEF PanelInv

(* A new listing becomes the target, whatever was asked for before.        *)
LEMMA LoadKeeps ==
  ASSUME PanelInv, NEW c \in FileConn, NEW d \in Dir, NEW p \in PanelRec, Load(c, d, p),
         p.shown = panel.shown, p.cwd = panel.cwd, changes' \in ChangeRec, search' \in SearchRec,
         p.foreign \/ c = p.conn,
         search'.shown # NoHits => search'.shown.conn = p.conn /\ search'.shown.no = search'.current,
         search'.current \in {0, search'.next - 1},
         \A x \in search'.running : x.no < search'.next /\ (x.no = search'.current => x.conn = p.conn)
  PROVE  PanelInv'
<1> USE FilePanelAssumption
<1> DEFINE t == [conn |-> c, dir |-> d]
           n == [seq |-> loadSeq + 1, conn |-> c, dir |-> d]
<1>1. t \in Listing /\ loadSeq + 1 \in 1..MaxLoads /\ n \in Loading
  BY DEF Listing, Loading, Load, PanelInv
<1>2. /\ panel' = [p EXCEPT !.target = t] /\ loadSeq' = loadSeq + 1 /\ loads' = loads \cup {n}
      /\ n.seq = loadSeq + 1 /\ n.conn = c /\ n.dir = d
  BY DEF Load
<1> HIDE DEF n
<1>3. /\ panel' \in PanelRec /\ panel'.target = t /\ panel'.shown = panel.shown /\ panel'.cwd = panel.cwd
      /\ panel'.conn = p.conn /\ panel'.foreign = p.foreign /\ t.conn = c
  BY <1>1, <1>2 DEF PanelRec
<1>4. /\ loadSeq \in Int /\ \A l \in loads : l.seq \in Int /\ l.seq <= loadSeq
      /\ \A l \in loads : l.seq # loadSeq + 1
  BY DEF PanelInv, Loading
<1>5. \A k, l \in loads' : k.seq = l.seq => k = l
  BY <1>2, <1>4 DEF PanelInv
<1>6. \A l \in loads' : l.seq <= loadSeq' /\ (l.seq = loadSeq' => l = n)
  BY <1>2, <1>4
<1>7. ~\A l \in loads' : l.seq # loadSeq'
  BY <1>2
<1>8. loads' \subseteq Loading /\ loadSeq' \in 1..MaxLoads
  BY <1>1, <1>2 DEF PanelInv
<1>9. panel'.shown # Nothing => panel'.shown.dir = panel'.cwd
  BY <1>3 DEF PanelInv
<1> QED BY <1>2, <1>3, <1>5, <1>6, <1>7, <1>8, <1>9 DEF PanelInv

LEMMA PanelStep == PanelInv /\ [PanelNext]_panelVars => PanelInv'
<1> SUFFICES ASSUME PanelInv, [PanelNext]_panelVars PROVE PanelInv'
  OBVIOUS
<1> USE FilePanelAssumption
<1>0. panel \in PanelRec /\ panel.conn \in FileConn /\ panel.cwd \in Dir
  BY DEF PanelInv, PanelRec
<1>1. ASSUME NEW d \in Dir, Navigate(d) PROVE PanelInv'
  <2> DEFINE p == [panel EXCEPT !.foreign = FALSE]
  <2>1. p \in PanelRec /\ p.shown = panel.shown /\ p.cwd = panel.cwd /\ p.conn = panel.conn
    BY <1>0 DEF PanelRec
  <2>2. Load(panel.conn, d, p) /\ UNCHANGED <<changes, search>>
    BY <1>1 DEF Navigate
  <2> HIDE DEF p
  <2> QED BY <1>0, <2>1, <2>2, LoadKeeps DEF PanelInv
<1>2. ASSUME NEW c \in FileConn, Switch(c) PROVE PanelInv'
  <2> DEFINE p == [panel EXCEPT !.conn = c, !.mode = "sftp", !.foreign = FALSE]
  <2>1. p \in PanelRec /\ p.shown = panel.shown /\ p.cwd = panel.cwd /\ p.conn = c
    BY <1>0 DEF PanelRec
  <2>2. /\ search' \in SearchRec /\ search'.shown = NoHits /\ search'.current = 0
        /\ search'.running = search.running /\ search'.next = search.next
    BY <1>2 DEF Switch, SearchRec, PanelInv
  <2>3. search'.current \in {0, search'.next - 1}
    BY <2>2
  <2>4. \A x \in search'.running : x.no < search'.next /\ x.no # search'.current
    BY <2>2 DEF PanelInv, SearchRec, Searching
  <2>5. Load(c, "/", p) /\ changes' \in ChangeRec
    BY <1>2 DEF Switch, PanelInv
  <2> HIDE DEF p
  <2> QED BY <2>1, <2>2, <2>3, <2>4, <2>5, LoadKeeps
<1>3. ASSUME NEW l \in loads, LoadAnswers(l) PROVE PanelInv'
  <2>1. l \in Loading
    BY DEF PanelInv
  <2>2. CASE l.seq = loadSeq
    <3> DEFINE s == [conn |-> l.conn, dir |-> l.dir]
    <3>1. s \in Listing /\ s.dir = l.dir /\ l.dir \in Dir
      BY <2>1 DEF Listing, Loading
    <3>2. panel' = [panel EXCEPT !.shown = s, !.cwd = l.dir] /\ panel.target = s
      BY <1>3, <2>2 DEF LoadAnswers, Latest, PanelInv
    <3> HIDE DEF s
    <3>3. /\ panel' \in PanelRec /\ panel'.shown = s /\ panel'.cwd = l.dir /\ panel'.conn = panel.conn
          /\ panel'.target = panel.target /\ panel'.foreign = panel.foreign
      BY <1>0, <3>1, <3>2 DEF PanelRec
    <3> QED BY <1>3, <3>1, <3>2, <3>3 DEF LoadAnswers, PanelInv
  <2>3. CASE l.seq # loadSeq
    BY <1>3, <2>3 DEF LoadAnswers, Latest, PanelInv
  <2> QED BY <2>2, <2>3
<1>4. ASSUME NEW l \in loads, LoadFails(l) PROVE PanelInv'
  <2>1. CASE l.seq = loadSeq
    <3>1. PICK mode \in {"sftp", "scp"} : panel' = [panel EXCEPT !.shown = Nothing, !.mode = mode]
      BY <1>4, <2>1 DEF LoadFails, Latest
    <3>2. /\ panel' \in PanelRec /\ panel'.shown = Nothing /\ panel'.conn = panel.conn
          /\ panel'.target = panel.target /\ panel'.foreign = panel.foreign
      BY <1>0, <3>1 DEF PanelRec
    <3> QED BY <1>4, <3>2 DEF LoadFails, PanelInv
  <2>2. CASE l.seq # loadSeq
    BY <1>4, <2>2 DEF LoadFails, Latest, PanelInv
  <2> QED BY <2>1, <2>2
<1>5. CASE Change
  <2>1. changes' \in ChangeRec
    BY <1>0, <1>5 DEF Change, PanelInv, ChangeRec
  <2> QED BY <1>5, <2>1 DEF Change, PanelInv
<1>6. CASE Search
  <2> DEFINE x == [no |-> search.next, conn |-> panel.conn]
  <2>1. /\ search.next \in Nat \ {0} /\ x \in Searching /\ x.no = search.next /\ x.conn = panel.conn
        /\ search.running \subseteq Searching
    BY <1>0 DEF PanelInv, SearchRec, Searching
  <2>2. search' = [current |-> search.next, shown |-> NoHits, next |-> search.next + 1,
                   running |-> search.running \cup {x}]
    BY <1>6 DEF Search
  <2> HIDE DEF x
  <2>3. search' \in SearchRec
    BY <2>1, <2>2 DEF SearchRec
  <2>4. \A y \in search'.running : y.no < search'.next /\ (y.no = search'.current => y.conn = panel.conn)
    <3>1. \A y \in search.running : y.no \in Nat /\ y.no < search.next
      BY <2>1 DEF PanelInv, Searching
    <3> QED BY <2>1, <2>2, <3>1
  <2>5. search'.shown = NoHits /\ search'.current = search'.next - 1
    BY <2>1, <2>2
  <2> QED BY <1>6, <2>3, <2>4, <2>5 DEF Search, PanelInv
<1>7. ASSUME NEW o \in changes.live, ChangeEnds(o) \/ ChangeFails(o) PROVE PanelInv'
  <2>1. o.conn \in FileConn /\ changes' \in ChangeRec
    BY <1>7 DEF ChangeEnds, ChangeFails, PanelInv, ChangeRec
  <2>2. CASE ChangeEnds(o)
    <3> DEFINE p == [panel EXCEPT !.foreign = (o.conn # panel.conn)]
    <3>1. p \in PanelRec /\ p.shown = panel.shown /\ p.cwd = panel.cwd /\ p.conn = panel.conn
      BY <1>0 DEF PanelRec
    <3>2. p.foreign \/ o.conn = p.conn
      BY <1>0, <3>1 DEF PanelRec
    <3>3. Load(o.conn, panel.cwd, p) /\ UNCHANGED search
      BY <2>2 DEF ChangeEnds
    <3> HIDE DEF p
    <3> QED BY <1>0, <2>1, <3>1, <3>2, <3>3, LoadKeeps DEF PanelInv
  <2>3. CASE ChangeFails(o)
    BY <2>1, <2>3 DEF ChangeFails, PanelInv
  <2> QED BY <1>7, <2>2, <2>3
<1>8. ASSUME NEW x \in search.running, SearchEnds(x) PROVE PanelInv'
  <2> DEFINE s == IF search.current = x.no THEN x ELSE search.shown
  <2>1. x \in Searching /\ search \in SearchRec
    BY DEF PanelInv, SearchRec
  <2>2. /\ s \in Searching \cup {NoHits}
        /\ s # NoHits => s.conn = panel.conn /\ s.no = search.current
    BY <2>1 DEF Searching, SearchRec, PanelInv
  <2>3. search' = [search EXCEPT !.running = search.running \ {x}, !.shown = s]
    BY <1>8 DEF SearchEnds, CurrentSearch
  <2> HIDE DEF s
  <2>4. /\ search' \in SearchRec /\ search'.shown = s /\ search'.current = search.current
        /\ search'.next = search.next /\ search'.running \subseteq search.running
    BY <2>1, <2>2, <2>3 DEF SearchRec
  <2> QED BY <1>8, <2>2, <2>4 DEF SearchEnds, PanelInv
<1>9. CASE UNCHANGED panelVars
  BY <1>9 DEF panelVars, PanelInv
<1> QED BY <1>1, <1>2, <1>3, <1>4, <1>5, <1>6, <1>7, <1>8, <1>9 DEF PanelNext

THEOREM PanelInvariant == PanelSpec => []PanelInv
<1> QED BY PanelStarts, PanelStep, PTL DEF PanelSpec

(* Once every listing has answered the panel shows the one asked for last, *)
(* of its own connection unless a change begun on another asked for it, and*)
(* the hits shown are those of the last search, on that connection (load,  *)
(* runSearch): for any number of connections, directories and listings.    *)
THEOREM PanelShowsTheLatest == PanelSpec => [](PanelTypeOK /\ ShowsTheLatest)
<1>1. PanelInv => PanelTypeOK /\ ShowsTheLatest
  <2> SUFFICES ASSUME PanelInv PROVE PanelTypeOK /\ ShowsTheLatest
    OBVIOUS
  <2>1. PanelTypeOK
    BY DEF PanelInv, PanelTypeOK, PanelRec, Loading
  <2>2. search.shown # NoHits => search.current = search.next - 1
    BY DEF PanelInv, SearchRec, Searching
  <2>3. panel.shown # Nothing /\ ~panel.foreign /\ loads = {} => panel.shown.conn = panel.conn
    BY DEF PanelInv
  <2> QED BY <2>1, <2>2, <2>3 DEF PanelInv, ShowsTheLatest
<1> QED BY <1>1, PanelInvariant, PTL

-----------------------------------------------------------------------------
(* The composition moves one part at a time, so that each part does what   *)
(* it does alone.                                                          *)
LEMMA RemoteIsDirAndPipes == RemoteSpec => DirSpec /\ PipesSpec
<1>1. RemoteInit => DirInit /\ PipesInit
  BY DEF RemoteInit
<1>2. [RemoteNext]_<<focus, trashVars, editVars, panelVars, dirVars, downVars, pipesVars, viewVars>> =>
        [DirNext]_dirVars /\ [PipesNext]_pipesVars
  BY DEF RemoteNext
<1> QED BY <1>1, <1>2, PTL DEF RemoteSpec, DirSpec, PipesSpec

(* What directory transfers, archives and SCP answer is what arrived, in   *)
(* the composition the model checker runs and for every value of its       *)
(* constants.                                                              *)
THEOREM TransfersAreHonest == RemoteSpec => []TransfersHonest
<1>1. DirHonest /\ PipesFailClosed => TransfersHonest
  BY DEF TransfersHonest
<1> QED BY <1>1, RemoteIsDirAndPipes, DirectoriesAreHonest, PipesAreFailClosed, PTL

-----------------------------------------------------------------------------
(***************************************************************************)
(* The command line.  The first "--" splits a line for both sides: before  *)
(* it options do not count, after it everything does.                      *)
(***************************************************************************)
LEMMA FirstDashes ==
  ASSUME NEW n \in 2..4, NEW line \in [1..n -> Words],
         NEW stop, stop = {k \in 2..Len(line) : line[k] = "--"}, stop # {}
  PROVE  \E k \in stop : \A j \in stop : k <= j
<1>1. Len(line) = n /\ n \in {2, 3, 4} /\ stop \subseteq {2, 3, 4}
  OBVIOUS
<1>2. CASE 2 \in stop
  BY <1>1, <1>2
<1>3. CASE 2 \notin stop /\ 3 \in stop
  BY <1>1, <1>3
<1>4. CASE 2 \notin stop /\ 3 \notin stop
  BY <1>1, <1>4
<1> QED BY <1>2, <1>3, <1>4

(* What the parser calls a target is an operand of the program, position by *)
(* position, when every word fits.                                         *)
LEMMA TargetsAreOperands ==
  ASSUME NEW n \in 2..4, NEW line \in [1..n -> Words]
  PROVE  {line[i] : i \in {k \in 2..Len(line) : ~Flagged(line, k)}} = Operands(line)
<1> DEFINE stop == {k \in 2..Len(line) : line[k] = "--"}
           first == IF stop = {} THEN Len(line) + 1 ELSE CHOOSE k \in stop : \A j \in stop : k <= j
<1>1. Len(line) = n
  OBVIOUS
<1>2. stop # {} => first \in stop /\ \A j \in stop : first <= j
  BY FirstDashes
<1>3. stop = {} => first = n + 1
  BY <1>1
<1>4. Operands(line) = {line[i] : i \in {k \in 2..Len(line) : k > first \/ (k < first /\ ~Optional(line[k]))}}
  BY DEF Operands
<1>5. \A k \in 2..n : k \in stop <=> line[k] = "--"
  BY <1>1
<1> HIDE DEF first, stop
<1>6. ASSUME NEW k \in 2..n
      PROVE  ~Flagged(line, k) <=> (k > first \/ (k < first /\ ~Optional(line[k])))
  <2>1. AfterDashes(line, k) <=> (stop # {} /\ first < k)
    BY <1>1, <1>2, <1>5 DEF AfterDashes, stop
  <2>2. CASE stop = {}
    BY <1>3, <1>5, <2>1, <2>2 DEF Flagged
  <2>3. CASE stop # {}
    <3>1. first \in 2..n /\ line[first] = "--"
      BY <1>1, <1>2, <2>3 DEF stop
    <3>2. line[k] = "--" => first <= k
      BY <1>2, <1>5, <2>3
    <3>3. ~Optional("--")
      BY DEF Optional
    <3> QED BY <2>1, <2>3, <3>1, <3>2, <3>3 DEF Flagged
  <2> QED BY <2>2, <2>3
<1>7. {k \in 2..Len(line) : ~Flagged(line, k)} = {k \in 2..Len(line) : k > first \/ (k < first /\ ~Optional(line[k]))}
  BY <1>1, <1>6
<1> QED BY <1>4, <1>7

(* A rewritten line moves exactly the operands rm, unlink or rmdir would   *)
(* be given, and nothing with a glob, a bare / or ~ or a lone dash         *)
(* (parseSimpleDeleteCommand); what the program would refuse is not        *)
(* promised.                                                               *)
THEOREM SimpleDeletesAreExact == RewritesExactly
<1> SUFFICES ASSUME NEW n \in 2..4, NEW line \in [1..n -> Words], SimpleDeleteTargets(line) # {}
             PROVE  /\ line[1] \in DeletePrograms /\ SimpleDeleteTargets(line) = Operands(line)
                    /\ SimpleDeleteTargets(line) \cap {"a*", "/", "~", "-"} = {}
  BY DEF RewritesExactly, Lines
<1> DEFINE fit(i) == IF Flagged(line, i) THEN line[i] = "--" \/ line[i] \in KnownFlags(line[1])
                     ELSE Literal(line[i]) \/ Optional(line[i]) \/ line[i] = "--"
<1>1. /\ line[1] \in DeletePrograms /\ \A i \in 2..Len(line) : fit(i)
      /\ SimpleDeleteTargets(line) = {line[i] : i \in {k \in 2..Len(line) : ~Flagged(line, k)}}
  BY DEF SimpleDeleteTargets
<1>2. ASSUME NEW i \in 2..Len(line), ~Flagged(line, i)
      PROVE  line[i] \notin {"a*", "/", "~", "-"}
  <2>1. Literal(line[i]) \/ Optional(line[i]) \/ line[i] = "--"
    BY <1>1, <1>2
  <2> QED BY <2>1 DEF Literal, Optional
<1> HIDE DEF fit
<1> QED BY <1>1, <1>2, TargetsAreOperands
-----------------------------------------------------------------------------
(***************************************************************************)
(* The trash.  The inductive invariant has two parts.  Whatever overlaps:  *)
(* a content is in one place, names carry the time they were made at, and  *)
(* each script's notes are what the script of its kind keeps.              *)
(***************************************************************************)
Trashing  == {"list", "purge", "filter", "rewrite", "next", "move", "append"}
Restoring == {"r_check", "r_move", "r_filter", "r_rewrite"}
JobPc == Trashing \cup Restoring \cup {"idle", "rename", "waited", "done", "cut"}
JobRec == [pc : JobPc, n : 0..MaxTime, todo : SUBSET Path, list : SUBSET (Name \cup Line),
           tmp : SUBSET Line, purged : BOOLEAN, path : Path \cup {"none"}, name : Name \cup {NoName}]

TrashTypes ==
  /\ file \in [Path -> 0..MaxContent] /\ can \subseteq Entry /\ manifest \subseteq Line
  /\ clock \in 0..MaxTime /\ created \in 0..MaxContent /\ alone \in BOOLEAN /\ spoilt \subseteq Name
  /\ job \in [Script -> JobRec]

OnePlace ==
  /\ \A p \in Path : file[p] <= created
  /\ \A e \in can : e.content <= created
  /\ \A p, q \in Path : p # q /\ file[p] # 0 => file[p] # file[q]
  /\ \A p \in Path, e \in can : file[p] # e.content
  /\ \A d, e \in can : d.content = e.content => d = e

NameOK(name, at) == name.at = at /\ name.no <= MaxContent
Dated(lines) == \A l \in lines : NameOK(l.name, l.epoch)
Names ==
  /\ \A d, e \in can : d.name = e.name => d = e
  /\ \A e \in can : e.name.at = e.at /\ (e.name.no > MaxContent => e.name.no = MaxContent + e.content)
  /\ Dated(manifest)

Notes(j) ==
  /\ j.n <= clock /\ Dated(j.tmp)
  /\ j.pc = "purge" => j.list \subseteq Name /\ \A x \in j.list : x.at < j.n - Retention
  /\ j.pc \in Trashing \ {"purge"} => j.list = {}
  /\ j.pc \in {"move", "append"} => j.path \in Path /\ j.name \in Name /\ NameOK(j.name, j.n)
  /\ j.pc \in {"rename", "waited"} => j.path \in Path
  /\ j.pc \in Restoring => \E l \in Line : j.list = {l} /\ j.name = l.name

PurgedLate == \A g \in gone : g.how = "expired" => g.age > Retention

TrashInv == TrashTypes /\ OnePlace /\ Names /\ PurgedLate /\ \A s \in Script : Notes(job[s])

(***************************************************************************)
(* As long as scripts do not overlap: the script that runs knows what is   *)
(* in the trash and at its target, and a line without an entry is excused  *)
(* by a restore that was cut, by a command that failed, or by the purge    *)
(* that took the entry.                                                    *)
(***************************************************************************)
Loose(name) == HalfRestored(name) \/ name \in spoilt
Excused(name) == Loose(name) \/ \E r \in Script : name.at < job[r].n - Retention
NoLine(name) == HalfMoved(name) \/ name \in spoilt

OneRuns ==
  /\ \A r, s \in Script : Running(r) /\ Running(s) => r = s
  /\ \A s \in Script : job[s].pc \in Trashing => \A r \in Script : job[r].n <= job[s].n

Knows(s) ==
  LET j == job[s] IN
  /\ j.pc \in {"purge", "filter", "rewrite"} =>
       \A m \in manifest : Expired(m, j.n) => m.name \in j.list \/ ~Used(m.name) \/ m.name \in spoilt
  /\ j.pc = "rewrite" => j.tmp = {m \in manifest : ~Expired(m, j.n)}
  /\ j.pc = "move" => ~Used(j.name)
  /\ j.pc = "append" => \E e \in can : e.name = j.name /\ e.from = j.path
  /\ j.pc \in {"move", "append"} => \A m \in manifest : m.name = j.name => Excused(j.name)
  /\ j.pc \in Restoring => j.list \subseteq manifest
  /\ j.pc = "r_move" => \A l \in Line : j.list = {l} => file[l.orig] = 0
  /\ j.pc \in {"r_filter", "r_rewrite"} => ~Used(j.name) \/ j.name \in spoilt
  /\ j.pc = "r_rewrite" => /\ j.tmp \subseteq manifest \ j.list
                           /\ NamesOf((manifest \ j.list) \ j.tmp) \subseteq spoilt

Dropping(l) == \E s \in Script : job[s].pc \in {"r_filter", "r_rewrite"} /\ job[s].list = {l}

Ledger ==
  /\ \A g \in gone : g.how # "clobbered"
  /\ \A e \in can : \/ e.name.no > MaxContent \/ NoLine(e.name)
                    \/ \E l \in manifest : l.name = e.name /\ l.orig = e.from
  /\ \A l \in manifest, e \in can : l.name = e.name => l.orig = e.from \/ Loose(l.name)
  /\ \A l \in manifest : Used(l.name) \/ Excused(l.name) \/ Dropping(l)
  /\ \A l, m \in manifest : l.name = m.name /\ ~Excused(l.name) => l = m

AloneInv == alone => OneRuns /\ Ledger /\ \A s \in Script : Knows(s)
-----------------------------------------------------------------------------
(* A nonempty set of natural numbers has a least element.                  *)
LEMMA NatMin ==
  ASSUME NEW T, T \subseteq Nat, T # {}
  PROVE  \E x \in T : \A y \in T : x <= y
<1> DEFINE R == OpToRel(<, Nat)
<1>1. \E x \in T : \A y \in T : ~(<<y, x>> \in R)
  <2>1. IsWellFoundedOn(R, Nat)
    BY NatLessThanWellFounded
  <2> HIDE DEF R
  <2> QED BY <2>1, WFMin
<1>2. \A x, y \in T : y < x => <<y, x>> \in R
  BY DEF OpToRel
<1> HIDE DEF R
<1>3. PICK x \in T : \A y \in T : ~(<<y, x>> \in R)
  BY <1>1
<1>4. \A y \in T : ~(y < x)
  BY <1>2, <1>3
<1>5. \A y \in T : x <= y
  BY <1>4
<1> QED BY <1>5

(* There is a free name: there are more numbers than contents, and what is *)
(* in the trash differs in content.                                        *)
LEMMA NameIsFree ==
  ASSUME TrashTypes, OnePlace, NEW s \in Script, NEW p \in Path
  PROVE  /\ FreeName(s, p) \in Name /\ NameOK(FreeName(s, p), job[s].n)
         /\ ~Used(FreeName(s, p))
<1> USE TrashAssumption
<1> DEFINE Numbers == 0..MaxContent
           cand(i) == Candidate(s, p, i)
           T == {i \in Numbers : ~Used(cand(i))}
<1>1. job[s].n \in 0..MaxTime
  BY DEF TrashTypes, JobRec
<1>2. \A i \in Numbers : cand(i) \in Name /\ NameOK(cand(i), job[s].n) /\ cand(i).no = i
  BY <1>1 DEF Candidate, Name, NameOK
<1>3. T # {}
  <2> SUFFICES ASSUME \A i \in Numbers : Used(cand(i)) PROVE FALSE
    OBVIOUS
  <2> DEFINE taker(i) == CHOOSE e \in can : e.name = cand(i)
             f == [i \in Numbers |-> taker(i).content]
  <2>1. \A i \in Numbers : taker(i) \in can /\ taker(i).name = cand(i)
    BY DEF Used, Named
  <2> HIDE DEF taker, cand
  <2>2. f \in [Numbers -> 1..MaxContent]
    BY <2>1 DEF TrashTypes, Entry
  <2>3. IsFiniteSet(Numbers) /\ Cardinality(Numbers) = MaxContent + 1
    BY FS_Interval
  <2>4. IsFiniteSet(1..MaxContent) /\ Cardinality(1..MaxContent) = MaxContent
    BY FS_Interval
  <2>5. PICK i, j \in Numbers : i # j /\ f[i] = f[j]
    <3> HIDE DEF f
    <3>1. Cardinality(1..MaxContent) < Cardinality(Numbers)
      BY <2>3, <2>4
    <3> HIDE DEF Numbers
    <3> QED BY ONLY <2>2, <2>3, <2>4, <3>1, FS_PigeonHole
  <2>6. taker(i).content = taker(j).content
    BY <2>5
  <2>7. taker(i) = taker(j)
    BY <2>1, <2>6 DEF OnePlace
  <2>8. cand(i).no = cand(j).no
    BY <2>1, <2>7
  <2> QED BY <1>2, <2>5, <2>8
<1>4. PICK m \in T : \A i \in T : m <= i
  <2>1. T \subseteq Nat
    OBVIOUS
  <2> HIDE DEF T
  <2> QED BY <1>3, <2>1, NatMin
<1> DEFINE first(i) == ~Used(cand(i)) /\ \A j \in 0..(i - 1) : Used(cand(j))
<1>5. m \in Numbers /\ first(m)
  BY <1>4
<1>6. FreeName(s, p) = cand(CHOOSE i \in Numbers : first(i))
  BY DEF FreeName
<1>7. (CHOOSE i \in Numbers : first(i)) \in Numbers /\ first(CHOOSE i \in Numbers : first(i))
  <2> HIDE DEF first
  <2> QED BY <1>5
<1> DEFINE c == CHOOSE i \in Numbers : first(i)
<1>8. c \in Numbers /\ ~Used(cand(c)) /\ FreeName(s, p) = cand(c)
  BY <1>6, <1>7
<1> HIDE DEF c
<1> QED BY <1>2, <1>8

(* At first every path has a content of its own and no script has begun.   *)
LEMMA TrashBegins == TrashInit => TrashInv /\ AloneInv
<1> SUFFICES ASSUME TrashInit PROVE TrashInv /\ AloneInv
  OBVIOUS
<1> USE TrashAssumption
<1>1. created \in 0..MaxContent /\ created = Cardinality(Path)
  BY FS_CardinalityType DEF TrashInit
<1>2. PICK b \in Bijection(1..created, Path) : TRUE
  BY <1>1, FS_CardinalityType DEF ExistsBijection
<1> DEFINE apart(f) == \A p, q \in Path : p # q => f[p] # f[q]
           g == [p \in Path |-> CHOOSE i \in 1..created : b[i] = p]
<1>3. \A p \in Path : g[p] \in 1..created /\ b[g[p]] = p
  BY <1>2 DEF Bijection, Surjection
<1>4. g \in [Path -> 1..created] /\ apart(g)
  <2>1. g \in [Path -> 1..created]
    BY <1>3
  <2> HIDE DEF g
  <2> QED BY <1>3, <2>1
<1>5. file = CHOOSE f \in [Path -> 1..created] : apart(f)
  BY DEF TrashInit
<1> HIDE DEF g
<1>6. file \in [Path -> 1..created] /\ apart(file)
  <2> HIDE DEF apart
  <2> QED BY <1>4, <1>5
<1>7. job \in [Script -> JobRec] /\ \A s \in Script : Notes(job[s])
  <2>1. Rest \in JobRec
    BY DEF Rest, JobRec, JobPc, Trashing
  <2>2. Notes(Rest)
    BY DEF Rest, Notes, Trashing, Restoring, Dated, TrashInit
  <2> QED BY <2>1, <2>2 DEF TrashInit
<1>8. TrashTypes /\ OnePlace /\ Names /\ PurgedLate
  <2>1. can = {} /\ manifest = {} /\ gone = {} /\ clock = 1 /\ alone = TRUE /\ spoilt = {}
    BY DEF TrashInit
  <2>2. file \in [Path -> 0..MaxContent] /\ \A p \in Path : file[p] <= created
    BY <1>1, <1>6
  <2>3. TrashTypes
    BY <1>1, <1>7, <2>1, <2>2 DEF TrashTypes
  <2>4. OnePlace
    BY <1>6, <2>1, <2>2 DEF OnePlace
  <2> QED BY <2>1, <2>3, <2>4 DEF Names, PurgedLate, Dated
<1>9. OneRuns /\ Ledger /\ \A s \in Script : Knows(s)
  <2>1. \A s \in Script : job[s].pc = "idle"
    BY DEF TrashInit, Rest
  <2>2. OneRuns
    BY <2>1 DEF OneRuns, Running, Trashing
  <2>3. Ledger
    BY DEF TrashInit, Ledger
  <2>4. \A s \in Script : Knows(s)
    BY <2>1 DEF Knows, Restoring
  <2> QED BY <2>2, <2>3, <2>4
<1> QED BY <1>7, <1>8, <1>9 DEF TrashInv, AloneInv
-----------------------------------------------------------------------------
(* What a step on the notes of one script must show.                       *)
LEMMA NotesStay ==
  ASSUME TrashInv, NEW s \in Script, NEW j \in JobRec, Notes(j),
         job' = [job EXCEPT ![s] = j], clock' = clock
  PROVE  job' \in [Script -> JobRec] /\ \A r \in Script : Notes(job[r])'
<1>1. job \in [Script -> JobRec] /\ \A r \in Script : Notes(job[r])
  BY DEF TrashInv, TrashTypes
<1>2. \A r \in Script : job'[r] = IF r = s THEN j ELSE job[r]
  BY <1>1
<1>3. \A r \in Script : Notes(job'[r])
  BY <1>1, <1>2
<1>4. ASSUME NEW r \in Script PROVE Notes(job[r])'
  BY <1>3, <1>4 DEF Notes, NameOK, Dated
<1> QED BY <1>1, <1>4

LEMMA NotesOnly ==
  ASSUME TrashInv, NEW s \in Script, NEW j \in JobRec, Notes(j),
         job' = [job EXCEPT ![s] = j], alone' \in BOOLEAN, spoilt' = spoilt \/ spoilt' \subseteq Name,
         UNCHANGED <<file, can, manifest, clock, created, gone>>
  PROVE  TrashInv'
<1>1. job' \in [Script -> JobRec] /\ \A r \in Script : Notes(job[r])'
  BY NotesStay
<1>2. TrashTypes'
  BY <1>1 DEF TrashInv, TrashTypes
<1>3. OnePlace'
  BY DEF TrashInv, OnePlace
<1>4. Names'
  BY DEF TrashInv, Names, Dated, NameOK
<1>5. PurgedLate'
  BY DEF TrashInv, PurgedLate
<1> QED BY <1>1, <1>2, <1>3, <1>4, <1>5 DEF TrashInv

LEMMA PcMoves ==
  ASSUME TrashInv, NEW s \in Script, NEW pc \in JobPc, To(s, pc),
         Notes([job[s] EXCEPT !.pc = pc])
  PROVE  /\ [job[s] EXCEPT !.pc = pc] \in JobRec
         /\ job' = [job EXCEPT ![s] = [job[s] EXCEPT !.pc = pc]]
<1>1. job[s] \in JobRec /\ job \in [Script -> JobRec]
  BY DEF TrashInv, TrashTypes
<1>2. [job[s] EXCEPT !.pc = pc] \in JobRec
  BY <1>1 DEF JobRec
<1> QED BY <1>1, <1>2 DEF To

LEMMA StartTrashKeeps ==
  ASSUME TrashInv, NEW s \in Script, NEW targets \in SUBSET Path, StartTrash(s, targets)
  PROVE  TrashInv'
<1>0. PICK pc \in {"list", "done"} : job' = [job EXCEPT ![s] = [Rest EXCEPT !.pc = pc, !.n = clock, !.todo = targets]]
  BY DEF StartTrash
<1> DEFINE j == [Rest EXCEPT !.pc = pc, !.n = clock, !.todo = targets]
<1>1. clock \in 0..MaxTime
  BY DEF TrashInv, TrashTypes
<1>2. j \in JobRec
  BY <1>1, TrashAssumption DEF JobRec, JobPc, Trashing, Rest
<1>3. Notes(j)
  BY <1>1, TrashAssumption DEF Notes, Rest, Trashing, Restoring, Dated
<1>4. job' = [job EXCEPT ![s] = j] /\ alone' \in BOOLEAN /\ spoilt' = spoilt /\ UNCHANGED <<file, can, manifest, clock, created, gone>>
  BY <1>0 DEF StartTrash, Disk, Spoils, Beside
<1> HIDE DEF j
<1> QED BY <1>2, <1>3, <1>4, NotesOnly

(* A trash script goes on to its next target.                              *)
LEMMA NextNoted ==
  ASSUME TrashInv, NEW s \in Script, job[s].pc \in Trashing \ {"purge"}, To(s, "next")
  PROVE  \E j \in JobRec : Notes(j) /\ job' = [job EXCEPT ![s] = j]
<1> DEFINE j == [job[s] EXCEPT !.pc = "next"]
<1>1. job[s] \in JobRec /\ Notes(job[s])
  BY DEF TrashInv, TrashTypes
<1>2. j.pc = "next" /\ j.n = job[s].n /\ j.tmp = job[s].tmp /\ j.list = job[s].list
  BY <1>1 DEF JobRec
<1>3. Notes(j)
  BY <1>1, <1>2 DEF Notes, Trashing, Restoring
<1>4. "next" \in JobPc
  BY DEF JobPc, Trashing
<1> QED BY <1>3, <1>4, PcMoves

LEMMA ListExpiredKeeps ==
  ASSUME TrashInv, NEW s \in Script, ListExpired(s)
  PROVE  TrashInv'
<1> DEFINE outdated == {l.name : l \in {m \in manifest : Expired(m, job[s].n)}}
           j == [job[s] EXCEPT !.pc = "purge", !.list = outdated]
<1>1. job[s] \in JobRec /\ job \in [Script -> JobRec] /\ manifest \subseteq Line /\ clock \in Nat
  BY TrashAssumption DEF TrashInv, TrashTypes
<1>2. outdated \subseteq Name /\ \A x \in outdated : x.at < job[s].n - Retention
  BY <1>1 DEF Line, TrashInv, Names, Dated, NameOK, Expired
<1> HIDE DEF outdated
<1>3. j \in JobRec
  BY <1>1, <1>2 DEF JobRec, JobPc, Trashing
<1>4. Notes(j)
  <2>1. j.pc = "purge" /\ j.n = job[s].n /\ j.tmp = job[s].tmp /\ j.list = outdated
    BY <1>1 DEF JobRec
  <2>2. Notes(job[s])
    BY DEF TrashInv
  <2> QED BY <1>2, <2>1, <2>2 DEF Notes, Trashing, Restoring
<1>5. alone' \in BOOLEAN /\ spoilt' = spoilt /\ UNCHANGED <<file, can, manifest, clock, created, gone>>
  BY DEF ListExpired, Disk, Spoils, Beside
<1>6. CASE To(s, "next")
  BY <1>5, <1>6, NextNoted, NotesOnly DEF ListExpired, Trashing
<1>7. CASE job' = [job EXCEPT ![s] = j]
  <2> HIDE DEF j
  <2> QED BY <1>3, <1>4, <1>5, <1>7, NotesOnly
<1> QED BY <1>1, <1>6, <1>7 DEF ListExpired, outdated

LEMMA PurgeOneKeeps ==
  ASSUME TrashInv, NEW s \in Script, PurgeOne(s)
  PROVE  TrashInv'
<1>0. PICK x \in job[s].list :
        \/ /\ job' = [job EXCEPT ![s].list = @ \ {x}, ![s].purged = TRUE]
           /\ can' = can \ Named(x) /\ gone' = gone \cup Ends(Named(x), "expired") /\ Disk(s)
        \/ /\ Used(x) /\ job' = [job EXCEPT ![s].list = @ \ {x}]
           /\ Spoils(s, {x}) /\ UNCHANGED <<can, gone>>
  BY DEF PurgeOne
<1>1. job[s] \in JobRec /\ job \in [Script -> JobRec] /\ clock \in Nat /\ job[s].n \in Nat
  BY TrashAssumption DEF TrashInv, TrashTypes, JobRec
<1>2. Notes(job[s]) /\ job[s].pc = "purge" /\ UNCHANGED <<file, manifest>>
  BY DEF TrashInv, PurgeOne
<1>3. x \in Name
  BY <1>0, <1>2 DEF Notes
<1>4. alone' \in BOOLEAN /\ spoilt' \subseteq Name /\ UNCHANGED <<clock, created>>
  BY <1>0, <1>3 DEF Disk, Spoils, Beside, TrashInv, TrashTypes
<1>5. PICK purged \in BOOLEAN : job' = [job EXCEPT ![s] = [job[s] EXCEPT !.list = @ \ {x}, !.purged = purged]]
  <2>1. job[s].purged \in BOOLEAN /\ job[s] = [job[s] EXCEPT !.purged = job[s].purged]
    BY <1>1 DEF JobRec
  <2>2. [job EXCEPT ![s].list = @ \ {x}] = [job EXCEPT ![s] = [job[s] EXCEPT !.list = @ \ {x}, !.purged = job[s].purged]]
    BY <1>1, <2>1 DEF JobRec
  <2>3. [job EXCEPT ![s].list = @ \ {x}, ![s].purged = TRUE] = [job EXCEPT ![s] = [job[s] EXCEPT !.list = @ \ {x}, !.purged = TRUE]]
    BY <1>1
  <2> QED BY <1>0, <2>1, <2>2, <2>3
<1> DEFINE j == [job[s] EXCEPT !.list = @ \ {x}, !.purged = purged]
<1>6. j \in JobRec
  BY <1>1 DEF JobRec
<1>7. Notes(j)
  <2>1. j.pc = "purge" /\ j.n = job[s].n /\ j.tmp = job[s].tmp /\ j.list = job[s].list \ {x}
    BY <1>1, <1>2 DEF JobRec
  <2> QED BY <1>2, <2>1 DEF Notes, Trashing, Restoring
<1> HIDE DEF j
<1>8. job' \in [Script -> JobRec] /\ \A r \in Script : Notes(job[r])'
  BY <1>4, <1>5, <1>6, <1>7, NotesStay DEF j
<1>9. can' \subseteq can
  BY <1>0
<1>10. TrashTypes'
  BY <1>2, <1>4, <1>8, <1>9 DEF TrashInv, TrashTypes
<1>11. OnePlace'
  BY <1>2, <1>4, <1>9 DEF TrashInv, OnePlace
<1>12. Names'
  BY <1>2, <1>9 DEF TrashInv, Names, Dated, NameOK
<1>13. PurgedLate'
  <2>1. ASSUME NEW e \in Named(x) PROVE clock - e.at > Retention
    <3>1. x.at < job[s].n - Retention /\ job[s].n <= clock
      BY <1>2 DEF Notes
    <3>2. e.at = x.at /\ e.at \in Nat
      BY <2>1, TrashAssumption DEF Named, TrashInv, Names, TrashTypes, Entry
    <3> QED BY <1>1, <3>1, <3>2, TrashAssumption
  <2>2. \A g \in Ends(Named(x), "expired") : g.age > Retention
    BY <2>1 DEF Ends
  <2> QED BY <1>0, <2>2 DEF TrashInv, PurgedLate
<1> QED BY <1>8, <1>10, <1>11, <1>12, <1>13 DEF TrashInv

LEMMA PurgeEndsKeeps ==
  ASSUME TrashInv, NEW s \in Script, PurgeEnds(s)
  PROVE  TrashInv'
<1> DEFINE pc == IF job[s].purged THEN "filter" ELSE "next"
           j == [job[s] EXCEPT !.pc = pc]
<1>1. job[s] \in JobRec /\ Notes(job[s]) /\ job[s].list = {}
  BY DEF TrashInv, TrashTypes, PurgeEnds
<1>2. pc \in JobPc /\ pc \in {"filter", "next"}
  BY DEF JobPc, Trashing
<1> HIDE DEF pc
<1>3. Notes(j)
  <2>1. j.pc = pc /\ j.n = job[s].n /\ j.tmp = job[s].tmp /\ j.list = job[s].list
    BY <1>1 DEF JobRec
  <2> QED BY <1>1, <1>2, <2>1 DEF Notes, Trashing, Restoring
<1>4. To(s, pc) /\ alone' \in BOOLEAN /\ spoilt' = spoilt /\ UNCHANGED <<file, can, manifest, clock, created, gone>>
  BY DEF PurgeEnds, Disk, Spoils, Beside, pc
<1> QED BY <1>2, <1>3, <1>4, PcMoves, NotesOnly

LEMMA FilterExpiredKeeps ==
  ASSUME TrashInv, NEW s \in Script, FilterExpired(s)
  PROVE  TrashInv'
<1> DEFINE left == {m \in manifest : ~Expired(m, job[s].n)}
           j == [job[s] EXCEPT !.pc = "rewrite", !.tmp = left]
<1>1. job[s] \in JobRec /\ job \in [Script -> JobRec] /\ Notes(job[s]) /\ job[s].pc = "filter"
  BY DEF TrashInv, TrashTypes, FilterExpired
<1>2. left \subseteq Line /\ Dated(left)
  BY DEF TrashInv, TrashTypes, Names, Dated
<1> HIDE DEF left
<1>3. j \in JobRec
  BY <1>1, <1>2 DEF JobRec, JobPc, Trashing
<1>4. Notes(j)
  <2>1. j.pc = "rewrite" /\ j.n = job[s].n /\ j.tmp = left /\ j.list = job[s].list
    BY <1>1 DEF JobRec
  <2> QED BY <1>1, <1>2, <2>1 DEF Notes, Trashing, Restoring
<1>5. alone' \in BOOLEAN /\ spoilt' = spoilt /\ UNCHANGED <<file, can, manifest, clock, created, gone>>
  BY DEF FilterExpired, Disk, Spoils, Beside
<1>6. CASE To(s, "next")
  BY <1>1, <1>5, <1>6, NextNoted, NotesOnly DEF Trashing
<1>7. CASE job' = [job EXCEPT ![s] = j]
  <2> HIDE DEF j
  <2> QED BY <1>3, <1>4, <1>5, <1>7, NotesOnly
<1> QED BY <1>1, <1>6, <1>7 DEF FilterExpired, left

LEMMA RewriteManifestKeeps ==
  ASSUME TrashInv, NEW s \in Script, RewriteManifest(s)
  PROVE  TrashInv'
<1> DEFINE pc == IF job[s].pc = "rewrite" THEN "next" ELSE "done"
           j == [job[s] EXCEPT !.pc = pc]
<1>1. job[s] \in JobRec /\ Notes(job[s]) /\ job[s].pc \in {"rewrite", "r_rewrite"}
  BY DEF TrashInv, TrashTypes, RewriteManifest
<1>2. pc \in JobPc /\ ((pc = "next" /\ job[s].pc = "rewrite") \/ pc = "done")
  BY <1>1 DEF JobPc, Trashing
<1>3. /\ To(s, pc) /\ alone' \in BOOLEAN /\ UNCHANGED <<file, can, clock, created, gone>>
      /\ manifest' \subseteq job[s].tmp \/ manifest' = manifest
      /\ spoilt' = spoilt \cup NamesOf((job[s].tmp \ manifest') \cup (manifest' \ job[s].tmp))
  BY DEF RewriteManifest, Spoils, Beside, Written
<1> HIDE DEF pc
<1>4. Notes(j)
  <2>1. j.pc = pc /\ j.n = job[s].n /\ j.tmp = job[s].tmp /\ j.list = job[s].list
    BY <1>1 DEF JobRec
  <2> QED BY <1>1, <1>2, <2>1 DEF Notes, Trashing, Restoring
<1>5. job' \in [Script -> JobRec] /\ \A r \in Script : Notes(job[r])'
  BY <1>2, <1>3, <1>4, PcMoves, NotesStay
<1>6. manifest' \subseteq Line /\ Dated(manifest') /\ spoilt' \subseteq Name
  <2>1. job[s].tmp \subseteq Line /\ Dated(job[s].tmp) /\ manifest \subseteq Line /\ Dated(manifest) /\ spoilt \subseteq Name
    BY <1>1 DEF JobRec, Notes, TrashInv, TrashTypes, Names
  <2>2. \A lines \in SUBSET Line : NamesOf(lines) \subseteq Name
    BY DEF NamesOf, Line
  <2>3. (job[s].tmp \ manifest') \cup (manifest' \ job[s].tmp) \in SUBSET Line
    BY <1>3, <2>1
  <2> QED BY <1>3, <2>1, <2>2, <2>3 DEF Dated
<1>7. TrashTypes'
  BY <1>3, <1>5, <1>6 DEF TrashInv, TrashTypes
<1>8. OnePlace'
  BY <1>3 DEF TrashInv, OnePlace
<1>9. Names'
  BY <1>3, <1>6 DEF TrashInv, Names, Dated, NameOK
<1> QED BY <1>3, <1>5, <1>7, <1>8, <1>9 DEF TrashInv, PurgedLate

LEMMA NextTargetKeeps ==
  ASSUME TrashInv, NEW s \in Script, NextTarget(s)
  PROVE  TrashInv'
<1>1. job[s] \in JobRec /\ job \in [Script -> JobRec] /\ Notes(job[s]) /\ job[s].pc = "next"
  BY DEF TrashInv, TrashTypes, NextTarget
<1>2. job[s].todo \subseteq Path /\ job[s].list = {}
  BY <1>1 DEF JobRec, Notes, Trashing
<1>3. alone' \in BOOLEAN /\ spoilt' = spoilt /\ UNCHANGED <<file, can, manifest, clock, created, gone>>
  BY DEF NextTarget, Disk, Spoils, Beside
<1>4. CASE To(s, "done")
  <2> DEFINE j == [job[s] EXCEPT !.pc = "done"]
  <2>1. j.pc = "done" /\ j.n = job[s].n /\ j.tmp = job[s].tmp /\ j.list = job[s].list
    BY <1>1 DEF JobRec
  <2>2. Notes(j)
    BY <1>1, <2>1 DEF Notes, Trashing, Restoring
  <2>3. "done" \in JobPc
    BY DEF JobPc
  <2> QED BY <1>3, <1>4, <2>2, <2>3, PcMoves, NotesOnly
<1>5. ASSUME NEW p \in job[s].todo, job' = [job EXCEPT ![s].todo = @ \ {p}]
      PROVE  TrashInv'
  <2> DEFINE j == [job[s] EXCEPT !.todo = @ \ {p}]
  <2>1. job' = [job EXCEPT ![s] = j]
    BY <1>1, <1>5
  <2>2. j \in JobRec
    BY <1>1 DEF JobRec
  <2>3. j.pc = job[s].pc /\ j.n = job[s].n /\ j.tmp = job[s].tmp /\ j.list = job[s].list
    BY <1>1 DEF JobRec
  <2> HIDE DEF j
  <2>4. Notes(j)
    BY <1>1, <2>3 DEF Notes, Trashing, Restoring
  <2> QED BY <1>3, <2>1, <2>2, <2>4, NotesOnly
<1>6. ASSUME NEW p \in job[s].todo,
             job' = [job EXCEPT ![s].pc = "move", ![s].todo = @ \ {p}, ![s].path = p,
                                ![s].name = FreeName(s, p)]
      PROVE  TrashInv'
  <2> DEFINE name == FreeName(s, p)
             j == [job[s] EXCEPT !.pc = "move", !.todo = @ \ {p}, !.path = p, !.name = name]
  <2>1. name \in Name /\ NameOK(name, job[s].n) /\ p \in Path
    BY <1>2, NameIsFree DEF TrashInv
  <2>2. job' = [job EXCEPT ![s] = j]
    BY <1>1, <1>6
  <2> HIDE DEF name
  <2>3. j \in JobRec
    BY <1>1, <2>1 DEF JobRec, JobPc, Trashing
  <2>4. /\ j.pc = "move" /\ j.n = job[s].n /\ j.tmp = job[s].tmp /\ j.list = job[s].list
        /\ j.path = p /\ j.name = name
    BY <1>1 DEF JobRec
  <2> HIDE DEF j
  <2>5. Notes(j)
    BY <1>1, <2>1, <2>4 DEF Notes, Trashing, Restoring
  <2> QED BY <1>3, <2>2, <2>3, <2>5, NotesOnly
<1> QED BY <1>4, <1>5, <1>6 DEF NextTarget

(* A content leaves its path for a name that is its own.                   *)
LEMMA ContentMoves ==
  ASSUME TrashInv, NEW p \in Path, file[p] # 0, NEW name \in Name, NEW at \in 0..clock,
         name.at = at, name.no > MaxContent => name.no = MaxContent + file[p],
         NEW over, over \subseteq can, \A e \in can \ over : e.name # name,
         file' = [file EXCEPT ![p] = 0],
         can' = (can \ over) \cup {[name |-> name, content |-> file[p], from |-> p, at |-> at]},
         UNCHANGED <<manifest, clock, created, spoilt>>, alone' \in BOOLEAN, job' \in [Script -> JobRec]
  PROVE  TrashTypes' /\ OnePlace' /\ Names'
<1> USE TrashAssumption
<1> DEFINE new == [name |-> name, content |-> file[p], from |-> p, at |-> at]
<1>1. file \in [Path -> 0..MaxContent] /\ can \subseteq Entry /\ clock \in 0..MaxTime
  BY DEF TrashInv, TrashTypes
<1>2. new \in Entry /\ file' \in [Path -> 0..MaxContent]
  BY <1>1 DEF Entry
<1>3. TrashTypes'
  BY <1>1, <1>2 DEF TrashInv, TrashTypes
<1>4. \A q \in Path : file'[q] = IF q = p THEN 0 ELSE file[q]
  BY <1>1
<1>5. new.content = file[p] /\ new.name = name /\ new.at = at
  OBVIOUS
<1>6. can' = (can \ over) \cup {new}
  OBVIOUS
<1> HIDE DEF new
<1>7. OnePlace'
  <2>1. \A q \in Path : file'[q] <= created'
    BY <1>1, <1>4 DEF TrashInv, OnePlace, TrashTypes
  <2>2. \A e \in can' : e.content <= created'
    BY <1>5, <1>6 DEF TrashInv, OnePlace
  <2>3. \A q, r \in Path : q # r /\ file'[q] # 0 => file'[q] # file'[r]
    BY <1>4 DEF TrashInv, OnePlace
  <2>4. \A q \in Path, e \in can' : file'[q] # e.content
    <3>1. \A e \in can : e.content # 0
      BY <1>1 DEF Entry
    <3> QED BY <1>4, <1>5, <1>6, <3>1 DEF TrashInv, OnePlace
  <2>5. \A d, e \in can' : d.content = e.content => d = e
    BY <1>5, <1>6 DEF TrashInv, OnePlace
  <2> QED BY <2>1, <2>2, <2>3, <2>4, <2>5 DEF OnePlace
<1>8. Names'
  <2>1. \A d, e \in can' : d.name = e.name => d = e
    BY <1>5, <1>6 DEF TrashInv, Names
  <2>2. \A e \in can' : e.name.at = e.at /\ (e.name.no > MaxContent => e.name.no = MaxContent + e.content)
    BY <1>5, <1>6 DEF TrashInv, Names
  <2>3. Dated(manifest')
    BY DEF TrashInv, Names, Dated, NameOK
  <2> QED BY <2>1, <2>2, <2>3 DEF Names, Dated, NameOK
<1> QED BY <1>3, <1>7, <1>8

LEMMA MoveTargetKeeps ==
  ASSUME TrashInv, NEW s \in Script, MoveTarget(s)
  PROVE  TrashInv'
<1> USE TrashAssumption
<1> DEFINE p == job[s].path
           name == job[s].name
           over == Named(name)
<1>1. job[s] \in JobRec /\ job \in [Script -> JobRec] /\ Notes(job[s]) /\ job[s].pc = "move"
  BY DEF TrashInv, TrashTypes, MoveTarget
<1>2. p \in Path /\ name \in Name /\ NameOK(name, job[s].n) /\ job[s].n \in 0..clock /\ job[s].list = {}
  BY <1>1 DEF JobRec, Notes, Trashing, TrashInv, TrashTypes
<1>3. alone' \in BOOLEAN /\ spoilt' = spoilt /\ UNCHANGED <<manifest, clock, created>>
  BY DEF MoveTarget, Disk, Spoils, Beside
<1>4. CASE To(s, "next") /\ UNCHANGED <<file, can, gone>>
  BY <1>1, <1>3, <1>4, NextNoted, NotesOnly DEF Trashing
<1>5. CASE /\ file[p] # 0 /\ file' = [file EXCEPT ![p] = 0]
           /\ can' = (can \ over) \cup {[name |-> name, content |-> file[p], from |-> p, at |-> job[s].n]}
           /\ gone' = gone \cup Ends(over, "clobbered")
           /\ To(s, "append")
  <2> DEFINE j == [job[s] EXCEPT !.pc = "append"]
  <2>1. /\ j.pc = "append" /\ j.n = job[s].n /\ j.tmp = job[s].tmp /\ j.list = job[s].list
        /\ j.path = p /\ j.name = name
    BY <1>1 DEF JobRec
  <2>2. Notes(j)
    BY <1>1, <1>2, <2>1 DEF Notes, Trashing, Restoring
  <2>3. "append" \in JobPc
    BY DEF JobPc, Trashing
  <2> HIDE DEF j
  <2>4. job' \in [Script -> JobRec] /\ \A r \in Script : Notes(job[r])'
    <3>1. [job[s] EXCEPT !.pc = "append"] \in JobRec /\ job' = [job EXCEPT ![s] = [job[s] EXCEPT !.pc = "append"]]
      BY <1>5, <2>2, <2>3, PcMoves DEF j
    <3> QED BY <1>3, <2>2, <3>1, NotesStay DEF j
  <2>5. over \subseteq can /\ \A e \in can \ over : e.name # name
    BY DEF Named
  <2>6. name.no <= MaxContent /\ name.no \in Nat /\ name.at = job[s].n
    BY <1>2 DEF NameOK, Name
  <2>7. TrashTypes' /\ OnePlace' /\ Names'
    <3>1. name.no > MaxContent => name.no = MaxContent + file[p]
      BY <2>6
    <3> HIDE DEF p, name, over
    <3> QED BY <1>2, <1>3, <1>5, <2>4, <2>5, <2>6, <3>1, ContentMoves
  <2>8. PurgedLate'
    BY <1>5 DEF TrashInv, PurgedLate, Ends
  <2> QED BY <2>4, <2>7, <2>8 DEF TrashInv
<1> QED BY <1>4, <1>5 DEF MoveTarget

LEMMA AppendLineKeeps ==
  ASSUME TrashInv, NEW s \in Script, AppendLine(s)
  PROVE  TrashInv'
<1> DEFINE line == [name |-> job[s].name, orig |-> job[s].path, epoch |-> job[s].n]
<1>1. job[s] \in JobRec /\ Notes(job[s]) /\ job[s].pc = "append"
  BY DEF TrashInv, TrashTypes, AppendLine
<1>2. line \in Line /\ NameOK(line.name, line.epoch) /\ line.name \in Name
  BY <1>1 DEF JobRec, Notes, Line
<1>3. manifest' = manifest \cup {line} \/ manifest' = manifest
  BY DEF AppendLine
<1>4. alone' \in BOOLEAN /\ spoilt' \subseteq Name /\ UNCHANGED <<file, can, clock, created, gone>>
  BY <1>2 DEF AppendLine, Disk, Spoils, Beside, TrashInv, TrashTypes
<1>5. job' \in [Script -> JobRec] /\ \A r \in Script : Notes(job[r])'
  BY <1>1, <1>4, NextNoted, NotesStay DEF AppendLine, Trashing
<1> HIDE DEF line
<1>6. TrashTypes'
  BY <1>2, <1>3, <1>4, <1>5 DEF TrashInv, TrashTypes
<1>7. OnePlace'
  BY <1>4 DEF TrashInv, OnePlace
<1>8. Names'
  BY <1>2, <1>3, <1>4 DEF TrashInv, Names, Dated, NameOK
<1> QED BY <1>4, <1>5, <1>6, <1>7, <1>8 DEF TrashInv, PurgedLate

(* The line a restore or a purge was asked for.                            *)
LEMMA WantedLine ==
  ASSUME TrashInv, NEW s \in Script, job[s].pc \in Restoring
  PROVE  /\ Wanted(s) \in Line /\ job[s].list = {Wanted(s)} /\ job[s].name = Wanted(s).name
<1>1. PICK l \in Line : job[s].list = {l} /\ job[s].name = l.name
  BY DEF TrashInv, Notes
<1>2. Wanted(s) = l
  BY <1>1 DEF Wanted
<1> QED BY <1>1, <1>2

LEMMA RestoreNotes ==
  ASSUME NEW pc \in Restoring, NEW line \in Line
  PROVE  [Rest EXCEPT !.pc = pc, !.list = {line}, !.name = line.name] \in JobRec
<1> DEFINE lines == {line}
           j == [Rest EXCEPT !.pc = pc, !.list = lines, !.name = line.name]
<1>1. line.name \in Name /\ lines \subseteq Name \cup Line /\ pc \in JobPc
  BY DEF Line, JobPc
<1>2. Rest \in JobRec
  BY TrashAssumption DEF Rest, JobRec, JobPc
<1> HIDE DEF lines
<1>3. j \in JobRec
  BY <1>1, <1>2 DEF JobRec
<1> QED BY <1>3 DEF lines

LEMMA StartRestoreKeeps ==
  ASSUME TrashInv, NEW s \in Script, NEW line \in manifest, StartRestore(s, line)
  PROVE  TrashInv'
<1> DEFINE j == [Rest EXCEPT !.pc = "r_check", !.list = {line}, !.name = line.name]
<1>1. line \in Line /\ line.name \in Name /\ clock \in Nat
  BY TrashAssumption DEF TrashInv, TrashTypes, Line
<1>2. j \in JobRec
  BY <1>1, RestoreNotes DEF Restoring
<1>3. Notes(j)
  <2>1. j.pc = "r_check" /\ j.n = 0 /\ j.list = {line} /\ j.tmp = {} /\ j.name = line.name
    BY DEF Rest
  <2> HIDE DEF j
  <2> QED BY <1>1, <2>1 DEF Notes, Trashing, Restoring, Dated
<1>4. job' = [job EXCEPT ![s] = j] /\ alone' \in BOOLEAN /\ spoilt' = spoilt /\ UNCHANGED <<file, can, manifest, clock, created, gone>>
  BY DEF StartRestore, Disk, Spoils, Beside
<1> HIDE DEF j
<1> QED BY <1>2, <1>3, <1>4, NotesOnly

LEMMA RestoreCheckKeeps ==
  ASSUME TrashInv, NEW s \in Script, RestoreCheck(s)
  PROVE  TrashInv'
<1> DEFINE pc == IF Used(Wanted(s).name) /\ file[Wanted(s).orig] = 0 THEN "r_move" ELSE "done"
           j == [job[s] EXCEPT !.pc = pc]
<1>1. job[s] \in JobRec /\ Notes(job[s]) /\ job[s].pc = "r_check"
  BY DEF TrashInv, TrashTypes, RestoreCheck
<1>2. To(s, pc) /\ alone' \in BOOLEAN /\ spoilt' = spoilt /\ UNCHANGED <<file, can, manifest, clock, created, gone>>
  BY DEF RestoreCheck, Disk, Spoils, Beside
<1>3. pc \in JobPc /\ pc \in {"r_move", "done"}
  BY DEF JobPc, Restoring
<1> HIDE DEF pc
<1>4. Notes(j)
  <2>1. j.pc = pc /\ j.n = job[s].n /\ j.tmp = job[s].tmp /\ j.list = job[s].list /\ j.name = job[s].name
    BY <1>1 DEF JobRec
  <2> QED BY <1>1, <1>3, <2>1 DEF Notes, Trashing, Restoring
<1> QED BY <1>2, <1>3, <1>4, PcMoves, NotesOnly

LEMMA RestoreMoveKeeps ==
  ASSUME TrashInv, NEW s \in Script, RestoreMove(s)
  PROVE  TrashInv'
<1> DEFINE l == Wanted(s)
<1>1. job[s] \in JobRec /\ Notes(job[s]) /\ job[s].pc = "r_move"
  BY DEF TrashInv, TrashTypes, RestoreMove
<1>2. alone' \in BOOLEAN /\ spoilt' = spoilt /\ UNCHANGED <<manifest, clock, created>>
  BY DEF RestoreMove, Disk, Spoils, Beside
<1>3. ASSUME NEW pc \in {"r_filter", "done"}
      PROVE  pc \in JobPc /\ Notes([job[s] EXCEPT !.pc = pc])
  <2> DEFINE j == [job[s] EXCEPT !.pc = pc]
  <2>1. j.pc = pc /\ j.n = job[s].n /\ j.tmp = job[s].tmp /\ j.list = job[s].list /\ j.name = job[s].name
    BY <1>1 DEF JobRec
  <2> QED BY <1>1, <1>3, <2>1 DEF Notes, Trashing, Restoring, JobPc
<1>4. CASE To(s, "done") /\ UNCHANGED <<file, can, gone>>
  BY <1>2, <1>3, <1>4, PcMoves, NotesOnly
<1>5. ASSUME NEW e \in Named(l.name), file' = [file EXCEPT ![l.orig] = e.content], can' = can \ {e},
             gone' = IF file[l.orig] = 0 THEN gone
                     ELSE gone \cup {[content |-> file[l.orig], how |-> "clobbered", age |-> 0]},
             To(s, "r_filter")
      PROVE  TrashInv'
  <2>1. l.orig \in Path /\ e \in can /\ e \in Entry
    BY <1>1, <1>5, WantedLine DEF Restoring, Line, Named, TrashInv, TrashTypes
  <2>2. job' \in [Script -> JobRec] /\ \A r \in Script : Notes(job[r])'
    BY <1>2, <1>3, <1>5, PcMoves, NotesStay
  <2>3. \A q \in Path : file'[q] = IF q = l.orig THEN e.content ELSE file[q]
    BY <1>5 DEF TrashInv, TrashTypes
  <2>4. e.content \in 1..MaxContent
    BY <2>1 DEF Entry
  <2>9. file' = [q \in Path |-> IF q = l.orig THEN e.content ELSE file[q]]
    BY <1>5 DEF TrashInv, TrashTypes
  <2> HIDE DEF l
  <2>5. TrashTypes'
    <3>1. file \in [Path -> 0..MaxContent] /\ MaxContent \in Nat
      BY TrashAssumption DEF TrashInv, TrashTypes
    <3>2. file' \in [Path -> 0..MaxContent]
      BY <2>3, <2>4, <3>1, <2>9
    <3> QED BY <1>2, <1>5, <2>2, <3>2 DEF TrashInv, TrashTypes
  <2>6. OnePlace'
    <3>1. \A q \in Path : file'[q] <= created'
      BY <1>2, <2>1, <2>3 DEF TrashInv, OnePlace
    <3>2. \A q, r \in Path : q # r /\ file'[q] # 0 => file'[q] # file'[r]
      BY <2>1, <2>3 DEF TrashInv, OnePlace
    <3>3. \A q \in Path, d \in can' : file'[q] # d.content
      BY <1>5, <2>1, <2>3 DEF TrashInv, OnePlace
    <3> QED BY <1>2, <1>5, <3>1, <3>2, <3>3 DEF TrashInv, OnePlace
  <2>7. Names'
    BY <1>2, <1>5 DEF TrashInv, Names, Dated, NameOK
  <2>8. PurgedLate'
    BY <1>5 DEF TrashInv, PurgedLate
  <2> QED BY <2>2, <2>5, <2>6, <2>7, <2>8 DEF TrashInv
<1> QED BY <1>4, <1>5 DEF RestoreMove

LEMMA PurgeAskedKeeps ==
  ASSUME TrashInv, NEW s \in Script, NEW line \in manifest, PurgeAsked(s, line)
  PROVE  TrashInv'
<1> DEFINE j == [Rest EXCEPT !.pc = "r_filter", !.list = {line}, !.name = line.name]
<1>1. line \in Line /\ line.name \in Name /\ clock \in Nat
  BY TrashAssumption DEF TrashInv, TrashTypes, Line
<1>2. j \in JobRec
  BY <1>1, RestoreNotes DEF Restoring
<1>3. Notes(j)
  <2>1. j.pc = "r_filter" /\ j.n = 0 /\ j.list = {line} /\ j.tmp = {} /\ j.name = line.name
    BY DEF Rest
  <2> HIDE DEF j
  <2> QED BY <1>1, <2>1 DEF Notes, Trashing, Restoring, Dated
<1>4. /\ job' = [job EXCEPT ![s] = j] /\ alone' \in BOOLEAN /\ UNCHANGED <<file, manifest, clock, created>>
      /\ can' \subseteq can /\ spoilt' \subseteq Name
      /\ gone' = gone \cup Ends(Named(line.name), "asked") \/ gone' = gone
  BY <1>1 DEF PurgeAsked, Disk, Spoils, Beside, TrashInv, TrashTypes
<1> HIDE DEF j
<1>5. job' \in [Script -> JobRec] /\ \A r \in Script : Notes(job[r])'
  BY <1>2, <1>3, <1>4, NotesStay
<1>6. TrashTypes' /\ OnePlace' /\ Names'
  BY <1>4, <1>5 DEF TrashInv, TrashTypes, OnePlace, Names, Dated, NameOK
<1>7. PurgedLate'
  BY <1>4 DEF TrashInv, PurgedLate, Ends
<1> QED BY <1>5, <1>6, <1>7 DEF TrashInv

LEMMA FilterLineKeeps ==
  ASSUME TrashInv, NEW s \in Script, FilterLine(s)
  PROVE  TrashInv'
<1> DEFINE rest == manifest \ job[s].list
<1>1. job[s] \in JobRec /\ job \in [Script -> JobRec] /\ Notes(job[s]) /\ job[s].pc = "r_filter"
  BY DEF TrashInv, TrashTypes, FilterLine
<1>2. PICK tmp \in SUBSET rest : /\ job' = [job EXCEPT ![s].pc = "r_rewrite", ![s].tmp = tmp]
                                 /\ Spoils(s, NamesOf(rest \ tmp))
  BY DEF FilterLine
<1> DEFINE j == [job[s] EXCEPT !.pc = "r_rewrite", !.tmp = tmp]
<1>3. tmp \subseteq Line /\ Dated(tmp) /\ NamesOf(rest \ tmp) \subseteq Name
  BY <1>2 DEF TrashInv, TrashTypes, Names, Dated, NamesOf, Line
<1>4. j \in JobRec
  BY <1>1, <1>3 DEF JobRec, JobPc, Restoring
<1>5. Notes(j)
  <2>1. j.pc = "r_rewrite" /\ j.n = job[s].n /\ j.tmp = tmp /\ j.list = job[s].list /\ j.name = job[s].name
    BY <1>1 DEF JobRec
  <2> QED BY <1>1, <1>3, <2>1 DEF Notes, Trashing, Restoring
<1> HIDE DEF rest
<1>6. job' = [job EXCEPT ![s] = j] /\ alone' \in BOOLEAN /\ spoilt' \subseteq Name
  BY <1>1, <1>2, <1>3 DEF Spoils, Beside, TrashInv, TrashTypes
<1>7. UNCHANGED <<file, can, manifest, clock, created, gone>>
  BY <1>2 DEF FilterLine, Spoils
<1> HIDE DEF j
<1> QED BY <1>4, <1>5, <1>6, <1>7, NotesOnly

LEMMA StartSftpMoveKeeps ==
  ASSUME TrashInv, NEW s \in Script, NEW p \in Path, StartSftpMove(s, p)
  PROVE  TrashInv'
<1> DEFINE j == [Rest EXCEPT !.pc = "rename", !.path = p]
<1>1. clock \in Nat
  BY TrashAssumption DEF TrashInv, TrashTypes
<1>2. j \in JobRec
  <2>1. Rest \in JobRec /\ "rename" \in JobPc
    BY TrashAssumption DEF Rest, JobRec, JobPc
  <2> QED BY <2>1 DEF JobRec
<1>3. Notes(j)
  BY <1>1 DEF Notes, Trashing, Restoring, Dated, Rest
<1>4. job' = [job EXCEPT ![s] = j] /\ alone' \in BOOLEAN /\ spoilt' = spoilt /\ UNCHANGED <<file, can, manifest, clock, created, gone>>
  BY DEF StartSftpMove, Disk, Spoils, Beside
<1> HIDE DEF j
<1> QED BY <1>2, <1>3, <1>4, NotesOnly

(* What the notes of a rename come to, whatever is answered.               *)
LEMMA RenameNoted ==
  ASSUME TrashInv, NEW s \in Script, job[s].pc \in {"rename", "waited"}, NEW pc \in {"waited", "done"},
         To(s, pc)
  PROVE  \E j \in JobRec : Notes(j) /\ job' = [job EXCEPT ![s] = j]
<1> DEFINE j == [job[s] EXCEPT !.pc = pc]
<1>1. job[s] \in JobRec /\ job \in [Script -> JobRec] /\ Notes(job[s])
  BY DEF TrashInv, TrashTypes
<1>2. job' = [job EXCEPT ![s] = j]
  BY <1>1 DEF To
<1>3. j \in JobRec
  BY <1>1 DEF JobRec, JobPc
<1>4. j.pc = pc /\ j.n = job[s].n /\ j.tmp = job[s].tmp /\ j.path = job[s].path
  BY <1>1 DEF JobRec
<1> HIDE DEF j
<1>5. Notes(j)
  BY <1>1, <1>4 DEF Notes, Trashing, Restoring
<1> QED BY <1>2, <1>3, <1>5

LEMMA SftpRenamedKeeps ==
  ASSUME TrashInv, NEW s \in Script, SftpRenamed(s)
  PROVE  TrashInv'
<1> USE TrashAssumption
<1> DEFINE p == job[s].path
           name == [at |-> clock, no |-> MaxContent + file[p], base |-> Base[p]]
<1>1. job[s] \in JobRec /\ job \in [Script -> JobRec] /\ Notes(job[s]) /\ job[s].pc \in {"rename", "waited"}
  BY DEF TrashInv, TrashTypes, SftpRenamed
<1>2. p \in Path /\ file[p] # 0 /\ file[p] \in 0..MaxContent /\ clock \in 0..MaxTime
  BY <1>1 DEF Notes, TrashInv, TrashTypes, SftpRenamed
<1>3. name \in Name /\ name.at = clock /\ name.no = MaxContent + file[p]
  BY <1>2 DEF Name
<1>4. /\ alone' \in BOOLEAN /\ spoilt' = spoilt /\ UNCHANGED <<manifest, clock, created, gone>>
      /\ file' = [file EXCEPT ![p] = 0]
      /\ can' = can \cup {[name |-> name, content |-> file[p], from |-> p, at |-> clock]}
  BY DEF SftpRenamed, Disk, Spoils, Beside
<1>6. job' \in [Script -> JobRec] /\ \A r \in Script : Notes(job[r])'
  BY <1>1, <1>4, RenameNoted, NotesStay DEF SftpRenamed
<1>7. \A e \in can : e.name # name
  <2> SUFFICES ASSUME NEW e \in can, e.name = name PROVE FALSE
    OBVIOUS
  <2>1. e.name.no > MaxContent /\ e.content \in 1..MaxContent
    BY <1>2, <1>3 DEF TrashInv, TrashTypes, Entry
  <2>2. e.name.no = MaxContent + e.content
    BY <2>1 DEF TrashInv, Names
  <2>3. e.content = file[p]
    BY <1>2, <1>3, <2>1, <2>2
  <2> QED BY <1>2, <2>3 DEF TrashInv, OnePlace
<1>8. TrashTypes' /\ OnePlace' /\ Names'
  <2> DEFINE over == {}
             at == clock
  <2>1. can' = (can \ over) \cup {[name |-> name, content |-> file[p], from |-> p, at |-> at]}
    BY <1>4
  <2>2. at \in 0..clock /\ name.at = at /\ (name.no > MaxContent => name.no = MaxContent + file[p])
    BY <1>2, <1>3
  <2>3. over \subseteq can /\ \A e \in can \ over : e.name # name
    BY <1>7
  <2>4. p \in Path /\ file[p] # 0 /\ name \in Name /\ file' = [file EXCEPT ![p] = 0]
    BY <1>2, <1>3, <1>4
  <2> HIDE DEF p, name, over, at
  <2> QED BY <1>4, <1>6, <2>1, <2>2, <2>3, <2>4, ContentMoves
<1> QED BY <1>4, <1>6, <1>8 DEF TrashInv, PurgedLate

LEMMA SftpAnswersKeeps ==
  ASSUME TrashInv, NEW s \in Script, SftpAnswers(s)
  PROVE  TrashInv'
<1>1. job[s] \in JobRec /\ job \in [Script -> JobRec] /\ Notes(job[s]) /\ job[s].pc \in {"rename", "waited"}
  BY DEF TrashInv, TrashTypes, SftpAnswers
<1>2. alone' \in BOOLEAN /\ spoilt' = spoilt /\ UNCHANGED <<file, can, manifest, clock, created, gone>>
  BY DEF SftpAnswers, Disk, Spoils, Beside
<1> QED BY <1>1, <1>2, RenameNoted, NotesOnly DEF SftpAnswers

LEMMA CutKeeps ==
  ASSUME TrashInv, NEW s \in Script, Cut(s)
  PROVE  TrashInv'
<1> DEFINE j == [job[s] EXCEPT !.pc = "cut"]
<1>1. job[s] \in JobRec /\ Notes(job[s]) /\ alone \in BOOLEAN
  BY DEF TrashInv, TrashTypes
<1>2. Notes(j)
  <2>1. j.pc = "cut" /\ j.n = job[s].n /\ j.tmp = job[s].tmp
    BY <1>1 DEF JobRec
  <2> QED BY <1>1, <2>1 DEF Notes, Trashing, Restoring
<1>3. "cut" \in JobPc
  BY DEF JobPc
<1> QED BY <1>1, <1>2, <1>3, PcMoves, NotesOnly DEF Cut

LEMMA TickKeeps == TrashInv /\ Tick => TrashInv'
<1> SUFFICES ASSUME TrashInv, Tick PROVE TrashInv'
  OBVIOUS
<1>1. clock \in 0..MaxTime /\ clock' = clock + 1 /\ clock < MaxTime
  BY DEF TrashInv, TrashTypes, Tick
<1>2. UNCHANGED <<file, can, manifest, created, job, gone, spoilt, alone>>
  BY DEF Tick
<1>3. TrashTypes'
  BY <1>1, <1>2, TrashAssumption DEF TrashInv, TrashTypes
<1>4. OnePlace' /\ Names' /\ PurgedLate'
  BY <1>2 DEF TrashInv, OnePlace, Names, PurgedLate, Dated, NameOK
<1>5. ASSUME NEW s \in Script PROVE Notes(job[s])'
  <2>1. Notes(job[s]) /\ job[s].n \in Nat
    BY DEF TrashInv, TrashTypes, JobRec
  <2>2. job[s].n <= clock + 1
    BY <1>1, <2>1, TrashAssumption DEF Notes
  <2> QED BY <1>1, <1>2, <2>1, <2>2 DEF Notes, Dated, NameOK
<1> QED BY <1>3, <1>4, <1>5 DEF TrashInv

LEMMA CreateKeeps ==
  ASSUME TrashInv, NEW p \in Path, Create(p)
  PROVE  TrashInv'
<1> USE TrashAssumption
<1>1. created \in 0..MaxContent /\ created < MaxContent /\ created' = created + 1
  BY DEF TrashInv, TrashTypes, Create
<1>2. UNCHANGED <<can, manifest, clock, job, gone, spoilt>> /\ alone' \in BOOLEAN
  BY DEF Create
<1>3. file' = [file EXCEPT ![p] = created + 1] /\ file \in [Path -> 0..MaxContent]
  BY DEF TrashInv, TrashTypes, Create
<1>4. \A q \in Path : file'[q] = IF q = p THEN created + 1 ELSE file[q]
  BY <1>3
<1>5. TrashTypes'
  BY <1>1, <1>2, <1>3 DEF TrashInv, TrashTypes
<1>6. OnePlace'
  <2>1. /\ \A q \in Path : file[q] <= created /\ file[q] \in Nat
        /\ \A e \in can : e.content <= created /\ e.content \in Nat
    BY <1>3 DEF TrashInv, OnePlace, TrashTypes, Entry
  <2>2. \A q \in Path : file'[q] <= created'
    BY <1>1, <1>4, <2>1
  <2>3. \A e \in can' : e.content <= created'
    BY <1>1, <1>2, <2>1
  <2>4. \A q, r \in Path : q # r /\ file'[q] # 0 => file'[q] # file'[r]
    <3> SUFFICES ASSUME NEW q \in Path, NEW r \in Path, q # r, file'[q] # 0 PROVE file'[q] # file'[r]
      OBVIOUS
    <3>1. CASE q = p
      BY <1>1, <1>4, <2>1, <3>1
    <3>2. CASE r = p
      BY <1>1, <1>4, <2>1, <3>2
    <3>3. CASE q # p /\ r # p
      BY <1>4, <3>3 DEF TrashInv, OnePlace
    <3> QED BY <3>1, <3>2, <3>3
  <2>5. \A q \in Path, e \in can' : file'[q] # e.content
    <3> SUFFICES ASSUME NEW q \in Path, NEW e \in can PROVE file'[q] # e.content
      BY <1>2
    <3>1. CASE q = p
      BY <1>1, <1>4, <2>1, <3>1
    <3>2. CASE q # p
      BY <1>4, <3>2 DEF TrashInv, OnePlace
    <3> QED BY <3>1, <3>2
  <2>6. \A d, e \in can' : d.content = e.content => d = e
    BY <1>2 DEF TrashInv, OnePlace
  <2> QED BY <2>2, <2>3, <2>4, <2>5, <2>6 DEF OnePlace
<1>7. Names' /\ PurgedLate'
  BY <1>2 DEF TrashInv, Names, PurgedLate, Dated, NameOK
<1>8. \A s \in Script : Notes(job[s])'
  BY <1>2 DEF TrashInv, Notes, Dated, NameOK
<1> QED BY <1>5, <1>6, <1>7, <1>8 DEF TrashInv

LEMMA TrashStepKeeps == TrashInv /\ [TrashNext]_trashVars => TrashInv'
<1> SUFFICES ASSUME TrashInv, [TrashNext]_trashVars PROVE TrashInv'
  OBVIOUS
<1>1. CASE UNCHANGED trashVars
  BY <1>1 DEF trashVars, TrashInv, TrashTypes, OnePlace, Names, PurgedLate, Notes, Dated, NameOK
<1>2. ASSUME NEW s \in Script, ScriptStep(s) PROVE TrashInv'
  BY <1>2, StartTrashKeeps, ListExpiredKeeps, PurgeOneKeeps, PurgeEndsKeeps, FilterExpiredKeeps,
     RewriteManifestKeeps, NextTargetKeeps, MoveTargetKeeps, AppendLineKeeps, StartRestoreKeeps,
     PurgeAskedKeeps, RestoreCheckKeeps, RestoreMoveKeeps, FilterLineKeeps, StartSftpMoveKeeps,
     SftpRenamedKeeps, SftpAnswersKeeps, CutKeeps DEF ScriptStep
<1> QED BY <1>1, <1>2, TickKeeps, CreateKeeps DEF TrashNext

(* Whatever overlaps, the notes, names and contents of the trash are as    *)
(* its scripts keep them.                                                  *)
THEOREM TrashInvariant == TrashSpec => []TrashInv
<1>1. TrashInit => TrashInv
  BY TrashBegins
<1> QED BY <1>1, TrashStepKeeps, PTL DEF TrashSpec

(* Names in the trash are never shared and scripts' notes are lines and    *)
(* paths (trash.js).                                                       *)
THEOREM TrashTypeCorrect == TrashSpec => []TrashTypeOK
<1>1. TrashInv => TrashTypeOK
  BY DEF TrashInv, TrashTypes, Names, TrashTypeOK, JobRec
<1> QED BY <1>1, TrashInvariant, PTL
-----------------------------------------------------------------------------
(***************************************************************************)
(* The part that needs scripts to run one at a time.  A step of s leaves   *)
(* the others as they are and finds none of them running.                  *)
(***************************************************************************)
Only(s) == \A r \in Script \ {s} : job'[r] = job[r] /\ ~Running(r)

Onward(s) ==
  /\ job[s].pc # "cut" /\ job'[s].n >= job[s].n /\ spoilt \subseteq spoilt'
  /\ job'[s].pc \in Trashing =>
       job'[s].n = clock \/ (job[s].pc \in Trashing /\ job'[s].n = job[s].n)

LEMMA AloneActs ==
  ASSUME TrashInv, AloneInv, NEW s \in Script, ScriptStep(s), alone'
  PROVE  alone /\ Only(s) /\ Onward(s)
<1> USE DEF Only, Onward
<1>1. /\ job \in [Script -> JobRec] /\ job[s] \in JobRec /\ job[s].n \in 0..clock /\ clock \in Nat
      /\ Notes(job[s])
  BY TrashAssumption DEF TrashInv, TrashTypes, JobRec, Notes
<1>2. job[s].n >= job[s].n /\ clock >= job[s].n /\ job[s].n \in Nat
  BY <1>1
<1>3. Disk(s) => alone /\ spoilt \subseteq spoilt' /\ \A r \in Script \ {s} : ~Running(r)
  BY DEF Disk, Spoils, Beside
<1>22. (\E names : Spoils(s, names)) => alone /\ spoilt \subseteq spoilt' /\ \A r \in Script \ {s} : ~Running(r)
  BY DEF Spoils, Beside
<1>4. ASSUME NEW targets \in SUBSET Path, StartTrash(s, targets) PROVE alone /\ Only(s) /\ Onward(s)
  BY <1>1, <1>2, <1>3, <1>4 DEF StartTrash, Rest
<1>5. CASE ListExpired(s)
  BY <1>1, <1>2, <1>3, <1>5 DEF ListExpired, To, Trashing, JobRec
<1>6. CASE PurgeOne(s)
  BY <1>1, <1>2, <1>3, <1>22, <1>6 DEF PurgeOne, Trashing, JobRec
<1>7. CASE PurgeEnds(s)
  BY <1>1, <1>2, <1>3, <1>7 DEF PurgeEnds, To, Trashing, JobRec
<1>8. CASE FilterExpired(s)
  BY <1>1, <1>2, <1>3, <1>8 DEF FilterExpired, To, Trashing, JobRec
<1>9. CASE RewriteManifest(s)
  BY <1>1, <1>2, <1>22, <1>9 DEF RewriteManifest, To, Trashing, JobRec
<1>10. CASE NextTarget(s)
  <2>1. job[s].pc = "next" /\ Disk(s)
    BY <1>10 DEF NextTarget
  <2>2. CASE To(s, "done")
    BY <1>1, <1>2, <1>3, <2>1, <2>2 DEF To, Trashing, JobRec
  <2>3. ASSUME NEW p \in job[s].todo, job' = [job EXCEPT ![s].todo = @ \ {p}]
        PROVE  alone /\ Only(s) /\ Onward(s)
    BY <1>1, <1>2, <1>3, <2>1, <2>3 DEF Trashing, JobRec
  <2>4. ASSUME NEW p \in job[s].todo, NEW name,
               job' = [job EXCEPT ![s].pc = "move", ![s].todo = @ \ {p}, ![s].path = p, ![s].name = name]
        PROVE  alone /\ Only(s) /\ Onward(s)
    BY <1>1, <1>2, <1>3, <2>1, <2>4 DEF Trashing, JobRec
  <2> QED BY <1>10, <2>2, <2>3, <2>4 DEF NextTarget
<1>11. CASE MoveTarget(s)
  BY <1>1, <1>2, <1>3, <1>11 DEF MoveTarget, To, Trashing, JobRec
<1>12. CASE AppendLine(s)
  BY <1>1, <1>2, <1>3, <1>22, <1>12 DEF AppendLine, To, Trashing, JobRec
<1>13. ASSUME NEW line \in manifest, StartRestore(s, line) PROVE alone /\ Only(s) /\ Onward(s)
  BY <1>1, <1>2, <1>3, <1>13 DEF StartRestore, Rest, Trashing
<1>14. ASSUME NEW line \in manifest, PurgeAsked(s, line) PROVE alone /\ Only(s) /\ Onward(s)
  BY <1>1, <1>2, <1>3, <1>22, <1>14 DEF PurgeAsked, Rest, Trashing
<1>15. CASE RestoreCheck(s)
  BY <1>1, <1>2, <1>3, <1>15 DEF RestoreCheck, To, Trashing, JobRec
<1>16. CASE RestoreMove(s)
  BY <1>1, <1>2, <1>3, <1>16 DEF RestoreMove, To, Trashing, JobRec
<1>17. CASE FilterLine(s)
  BY <1>1, <1>2, <1>22, <1>17 DEF FilterLine, Trashing, JobRec
<1>18. ASSUME NEW p \in Path, StartSftpMove(s, p) PROVE alone /\ Only(s) /\ Onward(s)
  BY <1>1, <1>2, <1>3, <1>18 DEF StartSftpMove, Rest, Trashing
<1>19. CASE SftpRenamed(s)
  BY <1>1, <1>2, <1>3, <1>19 DEF SftpRenamed, To, Trashing, JobRec
<1>20. CASE SftpAnswers(s)
  BY <1>1, <1>2, <1>3, <1>20 DEF SftpAnswers, To, Trashing, JobRec
<1>21. CASE Cut(s)
  <2>1. Running(s) /\ alone
    BY <1>21 DEF Cut
  <2>2. \A r \in Script \ {s} : ~Running(r)
    BY <2>1 DEF AloneInv, OneRuns
  <2>3. job' = [job EXCEPT ![s].pc = "cut"] /\ job[s].pc # "cut"
    BY <1>21, <2>1 DEF Cut, To, Running
  <2>4. job'[s].n = job[s].n /\ job'[s].pc = "cut" /\ \A r \in Script \ {s} : job'[r] = job[r]
    BY <1>1, <2>3 DEF JobRec
  <2>5. spoilt' = spoilt
    BY <1>21 DEF Cut
  <2> QED BY <1>2, <2>1, <2>2, <2>3, <2>4, <2>5 DEF Trashing
<1> QED
  BY <1>4, <1>5, <1>6, <1>7, <1>8, <1>9, <1>10, <1>11, <1>12, <1>13, <1>14, <1>15, <1>16, <1>17,
     <1>18, <1>19, <1>20, <1>21 DEF ScriptStep

(* An excuse is never taken back.                                          *)
LEMMA ExcusesStay ==
  ASSUME TrashInv, TrashInv', NEW s \in Script, Only(s), Onward(s), NEW name \in Name
  PROVE  /\ Loose(name) => Loose(name)'
         /\ Excused(name) => Excused(name)'
<1>1. \A r \in Script : r # s => job'[r] = job[r]
  BY DEF Only
<1>2. ASSUME Loose(name) PROVE Loose(name)'
  BY <1>1, <1>2 DEF Loose, HalfRestored, Onward
<1>3. ASSUME NEW r \in Script, name.at < job[r].n - Retention
      PROVE  name.at < job'[r].n - Retention
  <2>1. job[r].n \in Nat /\ job'[r].n \in Nat /\ name.at \in Nat
    BY TrashAssumption DEF TrashInv, TrashTypes, JobRec, Name
  <2>2. job'[r].n >= job[r].n
    BY <1>1, <2>1 DEF Onward
  <2> QED BY <1>3, <2>1, <2>2, TrashAssumption
<1> QED BY <1>2, <1>3 DEF Excused

LEMMA OneStillRuns ==
  ASSUME TrashInv, TrashInv', AloneInv, alone, NEW s \in Script, Only(s), Onward(s), Knows(s)'
  PROVE  OneRuns' /\ \A r \in Script : Knows(r)'
<1>1. \A r \in Script : r # s => job'[r] = job[r] /\ job[r].pc \in {"idle", "done", "cut"}
  BY DEF Only, Running
<1>2. \A r \in Script : r # s => Knows(r)'
  BY <1>1 DEF Knows, Restoring
<1>3. \A r, t \in Script : Running(r)' /\ Running(t)' => r = t
  BY <1>1 DEF Running
<1>4. ASSUME NEW t \in Script, job'[t].pc \in Trashing, NEW r \in Script
      PROVE  job'[r].n <= job'[t].n
  <2>1. t = s
    BY <1>1, <1>4 DEF Trashing
  <2>2. job[r].n \in Nat /\ job'[s].n \in Nat /\ job[r].n <= clock
    BY TrashAssumption DEF TrashInv, TrashTypes, JobRec, Notes
  <2>3. CASE r = s
    BY <2>1, <2>2, <2>3
  <2>4. CASE r # s
    <3>1. job[s].pc \in Trashing => job[r].n <= job[s].n
      BY DEF AloneInv, OneRuns
    <3> QED BY <1>1, <1>4, <2>1, <2>2, <2>4, <3>1 DEF Onward
  <2> QED BY <2>3, <2>4
<1> QED BY <1>2, <1>3, <1>4 DEF OneRuns

(* A step on the notes alone: it may take back neither that an entry waits *)
(* for its line nor that a line waits to be dropped.                       *)
LEMMA LedgerStays ==
  ASSUME TrashInv, TrashInv', AloneInv, alone, NEW s \in Script, Only(s), Onward(s),
         UNCHANGED <<can, manifest, gone>>,
         job[s].pc = "append" => /\ job'[s].pc = "cut" /\ job'[s].list = job[s].list
                                 /\ job'[s].name = job[s].name,
         job[s].pc \in {"r_filter", "r_rewrite"} =>
           /\ job'[s].pc \in {"r_filter", "r_rewrite", "cut"} /\ job'[s].list = job[s].list
           /\ job'[s].name = job[s].name
  PROVE  Ledger'
<1>1. \A r \in Script : r # s => job'[r] = job[r] /\ job[r].pc \in {"idle", "done", "cut"}
  BY DEF Only, Running
<1>2. manifest \subseteq Line /\ can \subseteq Entry /\ Ledger
  BY DEF TrashInv, TrashTypes, AloneInv
<1>3. ASSUME NEW l \in manifest PROVE l.name \in Name
  BY <1>2, <1>3 DEF Line
<1>4. \A n : NoLine(n) => NoLine(n)'
  BY <1>1 DEF NoLine, HalfMoved, Onward
<1>5. ASSUME NEW l \in manifest, Dropping(l) PROVE Dropping(l)' \/ Loose(l.name)'
  <2>1. job[s].pc \in {"r_filter", "r_rewrite"} /\ job[s].list = {l}
    BY <1>1, <1>5 DEF Dropping
  <2>2. job[s].name = l.name
    BY <2>1 DEF TrashInv, Notes, Restoring
  <2>3. CASE job'[s].pc = "cut"
    BY <2>1, <2>2, <2>3 DEF HalfRestored, Loose
  <2>4. CASE job'[s].pc # "cut"
    BY <2>1, <2>4 DEF Dropping
  <2> QED BY <2>3, <2>4
<1>6. \A l \in manifest : /\ Loose(l.name) => Loose(l.name)'
                          /\ Excused(l.name) => Excused(l.name)'
                          /\ Loose(l.name)' => Excused(l.name)'
                          /\ Used(l.name)' <=> Used(l.name)
  BY <1>3, ExcusesStay DEF Excused, Used, Named
<1> QED BY <1>2, <1>4, <1>5, <1>6 DEF Ledger

LEMMA ListExpiredLedger ==
  ASSUME TrashInv, TrashInv', AloneInv, alone, NEW s \in Script, Only(s), Onward(s), ListExpired(s)
  PROVE  Ledger' /\ Knows(s)'
<1>1. job[s] \in JobRec /\ job \in [Script -> JobRec] /\ job[s].pc = "list"
  BY DEF TrashInv, TrashTypes, ListExpired
<1>2. /\ job'[s].n = job[s].n /\ UNCHANGED <<file, can, manifest, gone>>
      /\ \/ job'[s].pc = "next"
         \/ /\ job'[s].pc = "purge"
            /\ job'[s].list = {l.name : l \in {m \in manifest : Expired(m, job[s].n)}}
  BY <1>1 DEF ListExpired, To, JobRec
<1>3. Knows(s)'
  BY <1>2 DEF Knows, Expired, Restoring
<1> QED BY <1>1, <1>2, <1>3, LedgerStays

LEMMA PurgeOneLedger ==
  ASSUME TrashInv, TrashInv', AloneInv, alone, NEW s \in Script, Only(s), Onward(s), PurgeOne(s)
  PROVE  Ledger' /\ Knows(s)'
<1>1. /\ job[s] \in JobRec /\ job \in [Script -> JobRec] /\ job[s].pc = "purge" /\ Notes(job[s])
      /\ Knows(s) /\ manifest' = manifest
  BY DEF TrashInv, TrashTypes, AloneInv, PurgeOne
<1>2. PICK x \in job[s].list :
        \/ /\ job' = [job EXCEPT ![s].list = @ \ {x}, ![s].purged = TRUE]
           /\ can' = can \ Named(x) /\ gone' = gone \cup Ends(Named(x), "expired")
        \/ /\ job' = [job EXCEPT ![s].list = @ \ {x}]
           /\ Spoils(s, {x}) /\ UNCHANGED <<can, gone>>
  BY DEF PurgeOne
<1>3. job'[s].pc = "purge" /\ job'[s].n = job[s].n /\ job'[s].list = job[s].list \ {x}
  BY <1>1, <1>2 DEF JobRec
<1>4. \A name : Used(name)' => Used(name)
  BY <1>2 DEF Used, Named
<1>5. ~Used(x)' \/ x \in spoilt'
  BY <1>2 DEF Used, Named, Spoils
<1>6. spoilt \subseteq spoilt' /\ can' \subseteq can
  BY <1>2 DEF Onward
<1>7. Knows(s)'
  <2>1. ASSUME NEW m \in manifest, Expired(m, job[s].n)
        PROVE  m.name \in job[s].list \ {x} \/ ~Used(m.name)' \/ m.name \in spoilt'
    BY <1>1, <1>4, <1>5, <1>6, <2>1 DEF Knows
  <2> QED BY <1>1, <1>3, <2>1 DEF Knows, Expired, Restoring
<1>8. Ledger'
  <2>1. manifest \subseteq Line /\ Ledger
    BY DEF TrashInv, TrashTypes, AloneInv
  <2>2. \A l \in manifest : l.name \in Name
    BY <2>1 DEF Line
  <2>3. \A l \in manifest : /\ Loose(l.name) => Loose(l.name)'
                            /\ Excused(l.name) => Excused(l.name)'
    BY <2>2, ExcusesStay
  <2>4. \A n : NoLine(n) => NoLine(n)'
    BY <1>1 DEF NoLine, HalfMoved, Only, Onward
  <2>5. \A l \in manifest : ~Dropping(l)
    BY <1>1 DEF Dropping, Only, Running
  <2>6. \A l \in manifest : l.name = x => Excused(l.name)'
    <3>1. x.at < job[s].n - Retention
      BY <1>1 DEF Notes
    <3>2. x.at < job'[s].n - Retention
      BY <1>3, <3>1
    <3> QED BY <3>2 DEF Excused
  <2>7. \A g \in gone' : g.how # "clobbered"
    BY <1>2, <2>1 DEF Ledger, Ends
  <2>8. \A name : Used(name) => Used(name)' \/ name = x
    BY <1>2 DEF Used, Named
  <2>9. \A l \in manifest' : Used(l.name)' \/ Excused(l.name)' \/ Dropping(l)'
    BY <1>1, <2>1, <2>3, <2>5, <2>6, <2>8 DEF Ledger
  <2>10. \A l, m \in manifest' : l.name = m.name /\ ~Excused(l.name)' => l = m
    BY <1>1, <2>1, <2>3 DEF Ledger
  <2>11. \A l \in manifest', e \in can' : l.name = e.name => l.orig = e.from \/ Loose(l.name)'
    BY <1>1, <1>6, <2>1, <2>3 DEF Ledger
  <2>12. \A e \in can' : \/ e.name.no > MaxContent \/ NoLine(e.name)'
                         \/ \E l \in manifest' : l.name = e.name /\ l.orig = e.from
    BY <1>1, <1>6, <2>1, <2>4 DEF Ledger
  <2> QED BY <2>7, <2>9, <2>10, <2>11, <2>12 DEF Ledger
<1> QED BY <1>7, <1>8

LEMMA PurgeEndsLedger ==
  ASSUME TrashInv, TrashInv', AloneInv, alone, NEW s \in Script, Only(s), Onward(s), PurgeEnds(s)
  PROVE  Ledger' /\ Knows(s)'
<1>1. job[s] \in JobRec /\ job \in [Script -> JobRec] /\ job[s].pc = "purge" /\ job[s].list = {}
  BY DEF TrashInv, TrashTypes, PurgeEnds
<1>2. /\ job'[s].pc \in {"filter", "next"} /\ job'[s].n = job[s].n /\ job'[s].list = {}
      /\ UNCHANGED <<file, can, manifest, gone>>
  BY <1>1 DEF PurgeEnds, To, JobRec
<1>3. Knows(s)'
  <2>1. Knows(s)
    BY DEF AloneInv
  <2>2. \A m \in manifest : Expired(m, job[s].n) => ~Used(m.name) \/ m.name \in spoilt
    BY <1>1, <2>1 DEF Knows
  <2>3. \A m \in manifest' : Expired(m, job'[s].n) => ~Used(m.name)' \/ m.name \in spoilt'
    BY <1>2, <2>2 DEF Used, Named, Onward
  <2> QED BY <1>2, <2>3 DEF Knows, Restoring, Expired
<1> QED BY <1>1, <1>2, <1>3, LedgerStays

LEMMA FilterExpiredLedger ==
  ASSUME TrashInv, TrashInv', AloneInv, alone, NEW s \in Script, Only(s), Onward(s), FilterExpired(s)
  PROVE  Ledger' /\ Knows(s)'
<1>1. job[s] \in JobRec /\ job \in [Script -> JobRec] /\ job[s].pc = "filter"
  BY DEF TrashInv, TrashTypes, FilterExpired
<1>2. /\ job'[s].n = job[s].n /\ UNCHANGED <<file, can, manifest, gone>>
      /\ \/ job'[s].pc = "next"
         \/ /\ job'[s].pc = "rewrite" /\ job'[s].list = job[s].list
            /\ job'[s].tmp = {m \in manifest : ~Expired(m, job[s].n)}
  BY <1>1 DEF FilterExpired, To, JobRec
<1>3. Knows(s)'
  <2>1. Knows(s)
    BY DEF AloneInv
  <2>2. \A m \in manifest : Expired(m, job[s].n) => m.name \in job[s].list \/ ~Used(m.name) \/ m.name \in spoilt
    BY <1>1, <2>1 DEF Knows
  <2>3. \A m \in manifest' : Expired(m, job'[s].n) => m.name \in job[s].list \/ ~Used(m.name)' \/ m.name \in spoilt'
    BY <1>2, <2>2 DEF Used, Named, Onward
  <2> QED BY <1>2, <2>3 DEF Knows, Restoring, Expired
<1> QED BY <1>1, <1>2, <1>3, LedgerStays

(* Only lines without an entry, or of a spoilt name, leave the manifest.   *)
LEMMA RewriteManifestLedger ==
  ASSUME TrashInv, TrashInv', AloneInv, alone, NEW s \in Script, Only(s), Onward(s), RewriteManifest(s)
  PROVE  Ledger' /\ Knows(s)'
<1>1. /\ job[s] \in JobRec /\ job \in [Script -> JobRec] /\ Notes(job[s]) /\ Knows(s)
      /\ job[s].pc \in {"rewrite", "r_rewrite"}
  BY DEF TrashInv, TrashTypes, AloneInv, RewriteManifest
<1>2. /\ job'[s].pc \in {"next", "done"} /\ UNCHANGED <<file, can, gone>>
      /\ manifest' \subseteq job[s].tmp \/ manifest' = manifest
  BY <1>1 DEF RewriteManifest, To, JobRec, Written
<1>3. /\ spoilt \subseteq spoilt'
      /\ \A m \in (job[s].tmp \ manifest') \cup (manifest' \ job[s].tmp) : m.name \in spoilt'
  BY DEF RewriteManifest, Spoils, NamesOf
<1>4. Knows(s)'
  BY <1>2 DEF Knows, Restoring
<1>5. job[s].tmp \subseteq manifest /\ \A m \in manifest \ job[s].tmp : ~Used(m.name) \/ m.name \in spoilt
  <2>1. CASE job[s].pc = "rewrite"
    <3>1. job[s].list = {}
      BY <1>1, <2>1 DEF Notes, Trashing
    <3> QED BY <1>1, <2>1, <3>1 DEF Knows
  <2>2. CASE job[s].pc = "r_rewrite"
    <3>1. PICK l \in Line : job[s].list = {l} /\ job[s].name = l.name
      BY <1>1, <2>2 DEF Notes, Restoring
    <3>2. \A m \in (manifest \ job[s].list) \ job[s].tmp : m.name \in spoilt
      BY <1>1, <2>2 DEF Knows, NamesOf
    <3> QED BY <1>1, <2>2, <3>1, <3>2 DEF Knows
  <2> QED BY <1>1, <2>1, <2>2
<1>6. manifest' \subseteq manifest /\ \A m \in manifest \ manifest' : ~Used(m.name) \/ m.name \in spoilt'
  BY <1>2, <1>3, <1>5
<1>7. ASSUME NEW l \in manifest', Dropping(l) PROVE l.name \in spoilt'
  <2>1. job[s].pc = "r_rewrite" /\ job[s].list = {l}
    BY <1>1, <1>7 DEF Dropping, Only, Running
  <2>2. l \notin job[s].tmp
    BY <1>1, <2>1 DEF Knows
  <2> QED BY <1>3, <1>7, <2>2
<1>8. Ledger'
  <2>1. manifest \subseteq Line /\ Ledger
    BY DEF TrashInv, TrashTypes, AloneInv
  <2>2. \A l \in manifest : l.name \in Name
    BY <2>1 DEF Line
  <2>3. \A l \in manifest : /\ Loose(l.name) => Loose(l.name)'
                            /\ Excused(l.name) => Excused(l.name)'
    BY <2>2, ExcusesStay
  <2>4. \A n : NoLine(n) => NoLine(n)'
    BY <1>1 DEF NoLine, HalfMoved, Only, Onward
  <2>5. \A name : Used(name)' <=> Used(name)
    BY <1>2 DEF Used, Named
  <2>6. \A e \in can : Used(e.name)
    BY DEF Used, Named
  <2>7. ASSUME NEW e \in can
        PROVE  \/ e.name.no > MaxContent \/ NoLine(e.name)'
               \/ \E l \in manifest' : l.name = e.name /\ l.orig = e.from
    <3>1. CASE e.name.no > MaxContent \/ NoLine(e.name)
      BY <2>4, <3>1
    <3>2. CASE \E l \in manifest : l.name = e.name /\ l.orig = e.from
      <4>1. PICK l \in manifest : l.name = e.name /\ l.orig = e.from
        BY <3>2
      <4>2. l \in manifest' \/ e.name \in spoilt'
        BY <1>6, <2>6, <2>7, <4>1
      <4> QED BY <4>1, <4>2 DEF NoLine
    <3> QED BY <2>1, <2>7, <3>1, <3>2 DEF Ledger
  <2>8. \A l \in manifest', e \in can' : l.name = e.name => l.orig = e.from \/ Loose(l.name)'
    BY <1>2, <1>6, <2>1, <2>3 DEF Ledger
  <2>9. \A l \in manifest' : l.name \in spoilt' => Excused(l.name)'
    BY DEF Excused, Loose
  <2>10. \A l \in manifest' : Used(l.name)' \/ Excused(l.name)' \/ Dropping(l)'
    BY <1>6, <1>7, <2>1, <2>3, <2>5, <2>9 DEF Ledger
  <2>11. \A l, m \in manifest' : l.name = m.name /\ ~Excused(l.name)' => l = m
    BY <1>6, <2>1, <2>3 DEF Ledger
  <2> QED BY <1>2, <2>1, <2>7, <2>8, <2>10, <2>11 DEF Ledger
<1> QED BY <1>4, <1>8

LEMMA NextTargetLedger ==
  ASSUME TrashInv, TrashInv', AloneInv, alone, NEW s \in Script, Only(s), Onward(s), NextTarget(s)
  PROVE  Ledger' /\ Knows(s)'
<1>1. job[s] \in JobRec /\ job \in [Script -> JobRec] /\ job[s].pc = "next"
  BY DEF TrashInv, TrashTypes, NextTarget
<1>2. UNCHANGED <<file, can, manifest, gone>>
  BY DEF NextTarget
<1>3. Ledger'
  BY <1>1, <1>2, LedgerStays
<1>4. CASE To(s, "done")
  BY <1>1, <1>3, <1>4 DEF To, JobRec, Knows, Restoring
<1>5. ASSUME NEW p \in job[s].todo, job' = [job EXCEPT ![s].todo = @ \ {p}]
      PROVE  Knows(s)'
  BY <1>1, <1>5 DEF JobRec, Knows, Restoring
<1>6. ASSUME NEW p \in job[s].todo,
             job' = [job EXCEPT ![s].pc = "move", ![s].todo = @ \ {p}, ![s].path = p,
                                ![s].name = FreeName(s, p)]
      PROVE  Knows(s)'
  <2>1. p \in Path
    BY <1>1, <1>6 DEF JobRec
  <2>2. ~Used(FreeName(s, p))
    BY <2>1, NameIsFree DEF TrashInv
  <2>3. job'[s].pc = "move" /\ job'[s].name = FreeName(s, p)
    BY <1>1, <1>6 DEF JobRec
  <2>4. ~Used(job[s].name)'
    BY <1>2, <2>2, <2>3 DEF Used, Named
  <2>5. ASSUME NEW m \in manifest', m.name = job'[s].name PROVE Excused(job[s].name)'
    <3>1. ~Used(m.name) /\ m \in manifest /\ ~Dropping(m)
      BY <1>1, <1>2, <2>2, <2>3, <2>5 DEF Dropping, Only, Running
    <3>2. Excused(m.name) /\ m.name \in Name
      BY <3>1 DEF AloneInv, Ledger, TrashInv, TrashTypes, Line
    <3>3. Excused(m.name)'
      BY <3>2, ExcusesStay
    <3> QED BY <2>5, <3>3 DEF Excused, Loose, HalfRestored
  <2> QED BY <2>3, <2>4, <2>5 DEF Knows, Restoring
<1> QED BY <1>3, <1>4, <1>5, <1>6 DEF NextTarget

LEMMA MoveTargetLedger ==
  ASSUME TrashInv, TrashInv', AloneInv, alone, NEW s \in Script, Only(s), Onward(s), MoveTarget(s)
  PROVE  Ledger' /\ Knows(s)'
<1> DEFINE p == job[s].path
<1>0. PICK name : name = job[s].name
  OBVIOUS
<1> DEFINE new == [name |-> name, content |-> file[p], from |-> p, at |-> job[s].n]
<1>1. /\ job[s] \in JobRec /\ job \in [Script -> JobRec] /\ Notes(job[s]) /\ Knows(s)
      /\ job[s].pc = "move" /\ manifest' = manifest
  BY DEF TrashInv, TrashTypes, AloneInv, MoveTarget
<1>2. CASE To(s, "next") /\ UNCHANGED <<file, can, gone>>
  <2>1. job'[s].pc = "next"
    BY <1>1, <1>2 DEF To, JobRec
  <2>2. Knows(s)'
    BY <2>1 DEF Knows, Restoring
  <2> QED BY <1>1, <1>2, <2>1, <2>2, LedgerStays
<1>3. CASE /\ file[p] # 0 /\ file' = [file EXCEPT ![p] = 0]
           /\ can' = (can \ Named(name)) \cup {new}
           /\ gone' = gone \cup Ends(Named(name), "clobbered")
           /\ To(s, "append")
  <2>1. /\ job'[s].pc = "append" /\ job'[s].name = name /\ job'[s].path = p /\ job'[s].n = job[s].n
        /\ job'[s].list = {}
    BY <1>0, <1>1, <1>3 DEF To, JobRec, Notes, Trashing
  <2>2. Named(name) = {}
    BY <1>0, <1>1 DEF Knows, Used
  <2>3. can' = can \cup {new} /\ gone' = gone
    BY <1>3, <2>2 DEF Ends
  <2>4. new.name = name /\ new.from = p
    OBVIOUS
  <2>5. manifest \subseteq Line /\ Ledger /\ name \in Name /\ name.at = job[s].n
    BY <1>0, <1>1 DEF TrashInv, TrashTypes, AloneInv, Notes, NameOK
  <2>6. \A l \in manifest : l.name \in Name
    BY <2>5 DEF Line
  <2>7. \A l \in manifest : /\ Loose(l.name) => Loose(l.name)'
                            /\ Excused(l.name) => Excused(l.name)'
    BY <2>6, ExcusesStay
  <2>8. \A n : NoLine(n) => NoLine(n)'
    BY <1>1 DEF NoLine, HalfMoved, Only, Onward
  <2>9. NoLine(name)'
    BY <2>1 DEF HalfMoved, NoLine
  <2>10. \A m \in manifest : m.name = name => Loose(name)
    <3> SUFFICES ASSUME NEW m \in manifest, m.name = name, ~Loose(name) PROVE FALSE
      OBVIOUS
    <3>1. Excused(name)
      BY <1>0, <1>1 DEF Knows
    <3>2. PICK r \in Script : name.at < job[r].n - Retention
      BY <3>1 DEF Excused
    <3>3. job[r].n <= job[s].n
      BY <1>1 DEF AloneInv, OneRuns, Trashing
    <3>4. job[r].n \in Nat /\ job[s].n \in Nat
      BY TrashAssumption DEF TrashInv, TrashTypes, JobRec
    <3> QED BY <2>5, <3>2, <3>3, <3>4, TrashAssumption
  <2> HIDE DEF new, p
  <2>11. Knows(s)'
    <3>1. \E e \in can' : e.name = job'[s].name /\ e.from = job'[s].path
      BY <2>1, <2>3, <2>4
    <3>2. \A m \in manifest' : m.name = job'[s].name => Excused(name)'
      BY <1>1, <2>1, <2>5, <2>7, <2>10 DEF Excused
    <3>3. \A m \in manifest' : m.name = job'[s].name => Excused(job[s].name)'
      BY <2>1, <3>2 DEF Excused, Loose, HalfRestored
    <3> QED BY <2>1, <3>1, <3>3 DEF Knows, Restoring
  <2>12. \A e \in can' : \/ e.name.no > MaxContent \/ NoLine(e.name)'
                         \/ \E l \in manifest' : l.name = e.name /\ l.orig = e.from
    BY <1>1, <2>3, <2>4, <2>5, <2>8, <2>9 DEF Ledger
  <2>13. \A l \in manifest', e \in can' : l.name = e.name => l.orig = e.from \/ Loose(l.name)'
    BY <1>1, <2>3, <2>4, <2>5, <2>7, <2>10 DEF Ledger
  <2>14. \A l \in manifest' : Used(l.name)' \/ Excused(l.name)' \/ Dropping(l)'
    <3>1. \A l \in manifest : Used(l.name) => Used(l.name)'
      BY <2>3 DEF Used, Named
    <3>2. \A l \in manifest : ~Dropping(l)
      BY <1>1 DEF Dropping, Only, Running
    <3> QED BY <1>1, <2>5, <2>7, <3>1, <3>2 DEF Ledger
  <2>15. \A l, m \in manifest' : l.name = m.name /\ ~Excused(l.name)' => l = m
    BY <1>1, <2>5, <2>7 DEF Ledger
  <2> QED BY <2>3, <2>5, <2>11, <2>12, <2>13, <2>14, <2>15 DEF Ledger
<1> QED BY <1>0, <1>2, <1>3 DEF MoveTarget

LEMMA AppendLineLedger ==
  ASSUME TrashInv, TrashInv', AloneInv, alone, NEW s \in Script, Only(s), Onward(s), AppendLine(s)
  PROVE  Ledger' /\ Knows(s)'
<1> DEFINE line == [name |-> job[s].name, orig |-> job[s].path, epoch |-> job[s].n]
<1>1. /\ job[s] \in JobRec /\ job \in [Script -> JobRec] /\ Notes(job[s]) /\ Knows(s)
      /\ job[s].pc = "append"
  BY DEF TrashInv, TrashTypes, AloneInv, AppendLine
<1>2. job'[s].pc = "next"
  BY <1>1 DEF AppendLine, To, JobRec
<1>3. /\ UNCHANGED <<file, can, gone>>
      /\ manifest' = manifest \cup {line} \/ (manifest' = manifest /\ line.name \in spoilt')
  BY DEF AppendLine, Spoils
<1>4. line.name = job[s].name /\ line.orig = job[s].path
  OBVIOUS
<1> HIDE DEF line
<1>5. PICK own \in can : own.name = line.name /\ own.from = line.orig
  BY <1>1, <1>4 DEF Knows
<1>6. \A e \in can : e.name = line.name => e = own
  BY <1>5 DEF TrashInv, Names
<1>7. manifest \subseteq Line /\ Ledger /\ line.name \in Name
  BY <1>1, <1>4 DEF TrashInv, TrashTypes, AloneInv, Notes
<1>8. \A l \in manifest' : l.name \in Name
  BY <1>3, <1>7 DEF Line
<1>9. \A l \in manifest' : /\ Loose(l.name) => Loose(l.name)'
                           /\ Excused(l.name) => Excused(l.name)'
  BY <1>8, ExcusesStay
<1>10. ASSUME NEW n, NoLine(n) PROVE NoLine(n)' \/ n = line.name
  BY <1>1, <1>4, <1>10 DEF NoLine, HalfMoved, Only, Onward
<1>11. Knows(s)'
  BY <1>2 DEF Knows, Restoring
<1>12. \A name : Used(name)' <=> Used(name)
  BY <1>3 DEF Used, Named
<1>13. \A e \in can' : \/ e.name.no > MaxContent \/ NoLine(e.name)'
                       \/ \E l \in manifest' : l.name = e.name /\ l.orig = e.from
  <2>1. \A n : n \in spoilt' => NoLine(n)'
    BY DEF NoLine
  <2> SUFFICES ASSUME NEW e \in can, e.name # line.name
               PROVE  \/ e.name.no > MaxContent \/ NoLine(e.name)'
                      \/ \E l \in manifest' : l.name = e.name /\ l.orig = e.from
    BY <1>3, <1>5, <1>6, <2>1
  <2> QED BY <1>3, <1>7, <1>10 DEF Ledger
<1>14. \A l \in manifest', e \in can' : l.name = e.name => l.orig = e.from \/ Loose(l.name)'
  BY <1>3, <1>5, <1>6, <1>7, <1>9 DEF Ledger
<1>15. \A l \in manifest' : Used(l.name)' \/ Excused(l.name)' \/ Dropping(l)'
  <2>1. Used(line.name)
    BY <1>5 DEF Used, Named
  <2>2. \A l \in manifest : ~Dropping(l)
    BY <1>1 DEF Dropping, Only, Running
  <2> QED BY <1>3, <1>7, <1>9, <1>12, <2>1, <2>2 DEF Ledger
<1>16. \A l, m \in manifest' : l.name = m.name /\ ~Excused(l.name)' => l = m
  <2>1. \A m \in manifest : m.name = line.name => Excused(line.name)
    BY <1>1, <1>4 DEF Knows
  <2> QED BY <1>3, <1>7, <1>9, <2>1 DEF Ledger
<1> QED BY <1>3, <1>7, <1>11, <1>13, <1>14, <1>15, <1>16 DEF Ledger

LEMMA RestoreCheckLedger ==
  ASSUME TrashInv, TrashInv', AloneInv, alone, NEW s \in Script, Only(s), Onward(s), RestoreCheck(s)
  PROVE  Ledger' /\ Knows(s)'
<1>1. /\ job[s] \in JobRec /\ job \in [Script -> JobRec] /\ Knows(s)
      /\ job[s].pc = "r_check" /\ UNCHANGED <<file, can, manifest, gone>>
  BY DEF TrashInv, TrashTypes, AloneInv, RestoreCheck
<1>2. job[s].list = {Wanted(s)} /\ job[s].list \subseteq manifest
  BY <1>1, WantedLine DEF Restoring, Knows
<1>3. /\ job'[s].pc \in {"r_move", "done"} /\ job'[s].list = job[s].list
      /\ job'[s].pc = "r_move" => file[Wanted(s).orig] = 0
  BY <1>1 DEF RestoreCheck, To, JobRec
<1>4. Knows(s)'
  BY <1>1, <1>2, <1>3 DEF Knows, Restoring
<1> QED BY <1>1, <1>3, <1>4, LedgerStays

(* The entries of one line are taken out of the trash, or its name is      *)
(* spoilt, and the line is on its way out.                                 *)
LEMMA EntryTaken ==
  ASSUME TrashInv, TrashInv', AloneInv, alone, NEW s \in Script, Only(s), Onward(s), NEW l \in manifest,
         job[s].pc \in {"idle", "r_move"}, manifest' = manifest,
         can' = can \ Named(l.name) \/ (can' = can /\ l.name \in spoilt'),
         \A g \in gone' : g.how # "clobbered", job'[s].pc = "r_filter", job'[s].list = {l},
         job'[s].name = l.name
  PROVE  Ledger' /\ Knows(s)'
<1>1. manifest \subseteq Line /\ Ledger
  BY DEF TrashInv, TrashTypes, AloneInv
<1>2. \A m \in manifest : m.name \in Name
  BY <1>1 DEF Line
<1>3. \A m \in manifest : /\ Loose(m.name) => Loose(m.name)'
                          /\ Excused(m.name) => Excused(m.name)'
  BY <1>2, ExcusesStay
<1>4. \A n : NoLine(n) => NoLine(n)'
  BY DEF NoLine, HalfMoved, Only, Onward
<1>5. /\ \A name : Used(name)' => Used(name)
      /\ \A name : Used(name) => Used(name)' \/ name = l.name
      /\ ~Used(l.name)' \/ l.name \in spoilt'
  BY DEF Used, Named
<1>6. Dropping(l)' /\ \A m \in manifest : ~Dropping(m)
  BY DEF Dropping, Only, Running
<1>7. Knows(s)'
  BY <1>5 DEF Knows, Restoring
<1>8. \A e \in can' : \/ e.name.no > MaxContent \/ NoLine(e.name)'
                      \/ \E m \in manifest' : m.name = e.name /\ m.orig = e.from
  BY <1>1, <1>4 DEF Ledger
<1>9. \A m \in manifest', e \in can' : m.name = e.name => m.orig = e.from \/ Loose(m.name)'
  BY <1>1, <1>3 DEF Ledger
<1>10. \A m \in manifest' : Used(m.name)' \/ Excused(m.name)' \/ Dropping(m)'
  BY <1>1, <1>3, <1>5, <1>6 DEF Ledger
<1>11. \A m, k \in manifest' : m.name = k.name /\ ~Excused(m.name)' => m = k
  BY <1>1, <1>3 DEF Ledger
<1> QED BY <1>7, <1>8, <1>9, <1>10, <1>11 DEF Ledger

LEMMA RestoreMoveLedger ==
  ASSUME TrashInv, TrashInv', AloneInv, alone, NEW s \in Script, Only(s), Onward(s), RestoreMove(s)
  PROVE  Ledger' /\ Knows(s)'
<1> DEFINE l == Wanted(s)
<1>1. /\ job[s] \in JobRec /\ job \in [Script -> JobRec] /\ Knows(s) /\ Ledger
      /\ job[s].pc = "r_move" /\ manifest' = manifest
  BY DEF TrashInv, TrashTypes, AloneInv, RestoreMove
<1>2. l \in Line /\ job[s].list = {l} /\ job[s].name = l.name /\ l \in manifest /\ file[l.orig] = 0
  BY <1>1, WantedLine DEF Restoring, Knows
<1>3. CASE To(s, "done") /\ UNCHANGED <<file, can, gone>>
  <2>1. job'[s].pc = "done"
    BY <1>1, <1>3 DEF To, JobRec
  <2>2. Knows(s)'
    BY <2>1 DEF Knows, Restoring
  <2> QED BY <1>1, <1>3, <2>1, <2>2, LedgerStays
<1>4. ASSUME NEW e \in Named(l.name), can' = can \ {e}, To(s, "r_filter"),
             gone' = IF file[l.orig] = 0 THEN gone
                     ELSE gone \cup {[content |-> file[l.orig], how |-> "clobbered", age |-> 0]}
      PROVE  Ledger' /\ Knows(s)'
  <2>1. Named(l.name) = {e}
    BY <1>4 DEF Named, TrashInv, Names
  <2>2. can' = can \ Named(l.name) /\ gone' = gone
    BY <1>2, <1>4, <2>1
  <2>3. job'[s].pc = "r_filter" /\ job'[s].list = {l} /\ job'[s].name = l.name
    BY <1>1, <1>2, <1>4 DEF To, JobRec
  <2>4. \A g \in gone' : g.how # "clobbered"
    BY <1>1, <2>2 DEF Ledger
  <2> HIDE DEF l
  <2> QED BY <1>1, <1>2, <2>2, <2>3, <2>4, EntryTaken
<1> QED BY <1>3, <1>4 DEF RestoreMove

LEMMA PurgeAskedLedger ==
  ASSUME TrashInv, TrashInv', AloneInv, alone, NEW s \in Script, Only(s), Onward(s),
         NEW line \in manifest, PurgeAsked(s, line)
  PROVE  Ledger' /\ Knows(s)'
<1>1. job \in [Script -> JobRec] /\ job[s] = Rest
  BY DEF TrashInv, TrashTypes, PurgeAsked
<1>2. job[s].pc = "idle" /\ job'[s].pc = "r_filter" /\ job'[s].list = {line} /\ job'[s].name = line.name
  BY <1>1 DEF PurgeAsked, Rest
<1>3. /\ manifest' = manifest
      /\ can' = can \ Named(line.name) \/ (can' = can /\ line.name \in spoilt')
  BY DEF PurgeAsked, Spoils
<1>4. \A g \in gone' : g.how # "clobbered"
  BY DEF PurgeAsked, AloneInv, Ledger, Ends
<1> QED BY <1>2, <1>3, <1>4, EntryTaken

LEMMA FilterLineLedger ==
  ASSUME TrashInv, TrashInv', AloneInv, alone, NEW s \in Script, Only(s), Onward(s), FilterLine(s)
  PROVE  Ledger' /\ Knows(s)'
<1>1. /\ job[s] \in JobRec /\ job \in [Script -> JobRec] /\ Knows(s)
      /\ job[s].pc = "r_filter" /\ UNCHANGED <<file, can, manifest, gone>>
  BY DEF TrashInv, TrashTypes, AloneInv, FilterLine
<1>2. /\ job'[s].pc = "r_rewrite" /\ job'[s].list = job[s].list /\ job'[s].name = job[s].name
      /\ job'[s].tmp \subseteq manifest \ job[s].list
      /\ NamesOf((manifest \ job[s].list) \ job'[s].tmp) \subseteq spoilt'
  BY <1>1 DEF FilterLine, Spoils, JobRec
<1>3. ~Used(job[s].name)' \/ job'[s].name \in spoilt'
  BY <1>1, <1>2 DEF Knows, Used, Named, Onward
<1>4. Knows(s)'
  BY <1>1, <1>2, <1>3 DEF Knows, Restoring
<1> QED BY <1>1, <1>2, <1>4, LedgerStays

LEMMA SftpRenamedLedger ==
  ASSUME TrashInv, TrashInv', AloneInv, alone, NEW s \in Script, Only(s), Onward(s), SftpRenamed(s)
  PROVE  Ledger' /\ Knows(s)'
<1> USE TrashAssumption
<1> DEFINE p == job[s].path
           name == [at |-> clock, no |-> MaxContent + file[p], base |-> Base[p]]
           new == [name |-> name, content |-> file[p], from |-> p, at |-> clock]
<1>1. /\ job[s] \in JobRec /\ job \in [Script -> JobRec] /\ Notes(job[s])
      /\ job[s].pc \in {"rename", "waited"} /\ UNCHANGED <<manifest, gone>>
  BY DEF TrashInv, TrashTypes, SftpRenamed
<1>2. job'[s].pc = "done" /\ can' = can \cup {new}
  BY <1>1 DEF SftpRenamed, To, JobRec
<1>3. file[p] \in 1..MaxContent
  BY <1>1 DEF Notes, TrashInv, TrashTypes, SftpRenamed
<1>4. new.name.no > MaxContent
  BY <1>3
<1>5. manifest \subseteq Line /\ Ledger /\ \A m \in manifest : m.name.no <= MaxContent /\ m.name \in Name
  BY DEF TrashInv, TrashTypes, AloneInv, Names, Dated, NameOK, Line
<1>6. \A m \in manifest : m.name # new.name
  <2>1. \A m \in manifest : m.name.no \in Nat
    BY <1>5 DEF Name
  <2> QED BY <1>3, <1>4, <1>5, <2>1
<1> HIDE DEF new, name, p
<1>7. Knows(s)'
  BY <1>2 DEF Knows, Restoring
<1>8. \A m \in manifest : /\ Loose(m.name) => Loose(m.name)'
                          /\ Excused(m.name) => Excused(m.name)'
  BY <1>5, ExcusesStay
<1>14. \A m \in manifest : Used(m.name) => Used(m.name)'
  BY <1>2 DEF Used, Named
<1>15. \A m \in manifest : ~Dropping(m)
  BY <1>1 DEF Dropping, Only, Running
<1>9. \A n : NoLine(n) => NoLine(n)'
  BY <1>1 DEF NoLine, HalfMoved, Only, Onward
<1>10. \A e \in can' : \/ e.name.no > MaxContent \/ NoLine(e.name)'
                       \/ \E m \in manifest' : m.name = e.name /\ m.orig = e.from
  BY <1>1, <1>2, <1>4, <1>5, <1>9 DEF Ledger
<1>11. \A m \in manifest', e \in can' : m.name = e.name => m.orig = e.from \/ Loose(m.name)'
  BY <1>1, <1>2, <1>5, <1>6, <1>8 DEF Ledger
<1>12. \A m \in manifest' : Used(m.name)' \/ Excused(m.name)' \/ Dropping(m)'
  BY <1>1, <1>5, <1>8, <1>14, <1>15 DEF Ledger
<1>13. \A m, k \in manifest' : m.name = k.name /\ ~Excused(m.name)' => m = k
  BY <1>1, <1>5, <1>8 DEF Ledger
<1> QED BY <1>1, <1>5, <1>7, <1>10, <1>11, <1>12, <1>13 DEF Ledger

(* The steps that only change where a script stands.                       *)
LEMMA PlainStepsLedger ==
  ASSUME TrashInv, TrashInv', AloneInv, alone, NEW s \in Script, Only(s), Onward(s),
         \/ \E targets \in SUBSET Path : StartTrash(s, targets)
         \/ \E line \in manifest : StartRestore(s, line)
         \/ \E p \in Path : StartSftpMove(s, p)
         \/ SftpAnswers(s) \/ Cut(s)
  PROVE  Ledger' /\ Knows(s)'
<1>1. job[s] \in JobRec /\ job \in [Script -> JobRec] /\ Knows(s)
  BY DEF TrashInv, TrashTypes, AloneInv
<1>2. UNCHANGED <<file, can, manifest, gone>>
  BY DEF StartTrash, StartRestore, StartSftpMove, SftpAnswers, Cut
<1>3. ASSUME NEW targets \in SUBSET Path, StartTrash(s, targets)
      PROVE  job[s].pc = "idle" /\ Knows(s)'
  <2>1. job[s].pc = "idle" /\ job'[s].pc \in {"list", "done"}
    <3>1. job[s] = Rest /\ Rest.pc = "idle"
      BY <1>3 DEF StartTrash, Rest
    <3> QED BY <1>1, <1>3, <3>1 DEF StartTrash, Rest
  <2> QED BY <2>1 DEF Knows, Restoring
<1>4. ASSUME NEW line \in manifest, StartRestore(s, line)
      PROVE  job[s].pc = "idle" /\ Knows(s)'
  <2>1. job[s].pc = "idle" /\ job'[s].pc = "r_check" /\ job'[s].list = {line}
    <3>1. job[s] = Rest /\ Rest.pc = "idle"
      BY <1>4 DEF StartRestore, Rest
    <3> QED BY <1>1, <1>4, <3>1 DEF StartRestore, Rest
  <2> QED BY <1>2, <2>1 DEF Knows, Restoring
<1>5. ASSUME NEW p \in Path, StartSftpMove(s, p)
      PROVE  job[s].pc = "idle" /\ Knows(s)'
  <2>1. job[s].pc = "idle" /\ job'[s].pc = "rename"
    <3>1. job[s] = Rest /\ Rest.pc = "idle"
      BY <1>5 DEF StartSftpMove, Rest
    <3> QED BY <1>1, <1>5, <3>1 DEF StartSftpMove, Rest
  <2> QED BY <2>1 DEF Knows, Restoring
<1>6. CASE SftpAnswers(s)
  <2>1. job[s].pc \in {"rename", "waited"} /\ job'[s].pc \in {"waited", "done"}
    BY <1>1, <1>6 DEF SftpAnswers, To, JobRec
  <2>2. Knows(s)'
    BY <2>1 DEF Knows, Restoring
  <2> QED BY <1>2, <2>1, <2>2, LedgerStays
<1>7. CASE Cut(s)
  <2>1. job'[s].pc = "cut" /\ job'[s].list = job[s].list /\ job'[s].name = job[s].name
    BY <1>1, <1>7 DEF Cut, To, JobRec
  <2>2. Knows(s)'
    BY <2>1 DEF Knows, Restoring
  <2> QED BY <1>2, <2>1, <2>2, LedgerStays
<1>8. ASSUME job[s].pc = "idle" PROVE Ledger'
  BY <1>2, <1>8, LedgerStays
<1> QED BY <1>3, <1>4, <1>5, <1>6, <1>7, <1>8

LEMMA AloneStepKeeps ==
  ASSUME TrashInv, TrashInv', AloneInv, [TrashNext]_trashVars
  PROVE  AloneInv'
<1> SUFFICES ASSUME alone' PROVE OneRuns' /\ Ledger' /\ \A s \in Script : Knows(s)'
  BY DEF AloneInv
<1>1. ASSUME NEW s \in Script, ScriptStep(s)
      PROVE  OneRuns' /\ Ledger' /\ \A r \in Script : Knows(r)'
  <2>1. alone /\ Only(s) /\ Onward(s)
    BY <1>1, AloneActs
  <2>2. Ledger' /\ Knows(s)'
    BY <1>1, <2>1, ListExpiredLedger, PurgeOneLedger, PurgeEndsLedger, FilterExpiredLedger,
       RewriteManifestLedger, NextTargetLedger, MoveTargetLedger, AppendLineLedger,
       RestoreCheckLedger, RestoreMoveLedger, PurgeAskedLedger, FilterLineLedger,
       SftpRenamedLedger, PlainStepsLedger DEF ScriptStep
  <2> QED BY <2>1, <2>2, OneStillRuns
<1>2. ASSUME UNCHANGED <<can, manifest, job, gone, spoilt>>, alone,
             file' = file \/ \A s \in Script : ~Running(s)
      PROVE  OneRuns' /\ Ledger' /\ \A s \in Script : Knows(s)'
  <2>1. OneRuns /\ Ledger /\ \A s \in Script : Knows(s)
    BY <1>2 DEF AloneInv
  <2>2. OneRuns'
    BY <1>2, <2>1 DEF OneRuns, Running
  <2>3. Ledger'
    <3>1. UNCHANGED <<can, manifest, gone>>
      BY <1>2
    <3>2. ASSUME NEW e \in can PROVE NoLine(e.name)' = NoLine(e.name)
      BY <1>2 DEF NoLine, HalfMoved
    <3>3. ASSUME NEW l \in manifest
          PROVE  /\ Loose(l.name)' = Loose(l.name) /\ Excused(l.name)' = Excused(l.name)
                 /\ Used(l.name)' = Used(l.name) /\ Dropping(l)' = Dropping(l)
      BY <1>2 DEF Loose, HalfRestored, Excused, Used, Named, Dropping
    <3> QED BY <2>1, <3>1, <3>2, <3>3 DEF Ledger
  <2>4. ASSUME NEW s \in Script PROVE Knows(s)'
    <3>1. CASE file' = file
      BY <1>2, <2>1, <3>1 DEF Knows, Used, Named, Excused, Loose, HalfRestored, Expired, NamesOf
    <3>2. CASE ~Running(s)
      BY <1>2, <3>2 DEF Knows, Running, Restoring
    <3> QED BY <1>2, <3>1, <3>2
  <2> QED BY <2>2, <2>3, <2>4
<1>3. CASE Tick
  BY <1>2, <1>3 DEF Tick
<1>4. ASSUME NEW p \in Path, Create(p) PROVE OneRuns' /\ Ledger' /\ \A s \in Script : Knows(s)'
  BY <1>2, <1>4 DEF Create
<1>5. CASE UNCHANGED trashVars
  BY <1>2, <1>5 DEF trashVars
<1> QED BY <1>1, <1>3, <1>4, <1>5 DEF TrashNext

(* Nothing is purged by age before its time, whatever overlaps; and while  *)
(* scripts do not overlap nothing is replaced, every entry has the line    *)
(* that leads back to its path, and no line leads anywhere else, but for   *)
(* the names a failing command spoilt and the last entry of a script that  *)
(* was cut: a delete can be undone (buildTrashCommand, buildRestore-       *)
(* Command, buildPurgeCommand, moveSftpToTrash).                           *)
THEOREM DeletesAreReversible == TrashSpec => []TrashReversible
<1>1. TrashInit => TrashInv /\ AloneInv
  BY TrashBegins
<1>2. TrashInv /\ AloneInv /\ [TrashNext]_trashVars => (TrashInv /\ AloneInv)'
  BY TrashStepKeeps, AloneStepKeeps
<1>3. TrashInv /\ AloneInv => TrashReversible
  BY SimpleDeletesAreExact DEF TrashInv, PurgedLate, AloneInv, Ledger, TrashReversible, NoLine, Loose
<1> QED BY <1>1, <1>2, <1>3, PTL DEF TrashSpec

-----------------------------------------------------------------------------
(***************************************************************************)
(* The panes.  The folds of PaneViews go through lists of any length, so   *)
(* what they compute is an induction over the positions of the list: over  *)
(* a set of naturals (NatInd), along the chain of intermediate values a    *)
(* fold has (FoldExists and the ...Steps lemmas).  From those chains come  *)
(* what a list keeps (AmongIs), what an announcement queues (AnnouncedIs), *)
(* what a claim shows (ClaimedIs), and what the effects of any panes in    *)
(* any order do to the page (EffectsIs).                                   *)
(***************************************************************************)

(* Induction over the natural numbers, for a set of them.                  *)
LEMMA NatInd ==
  ASSUME NEW P, 0 \in P, \A n \in Nat : n \in P => n + 1 \in P
  PROVE  Nat \subseteq P
<1> SUFFICES ASSUME Nat \ P # {} PROVE FALSE
  OBVIOUS
<1>1. PICK x \in Nat \ P : \A y \in Nat \ P : x <= y
  BY NatMin
<1>2. x # 0 /\ x - 1 \in Nat /\ ~(x <= x - 1)
  BY <1>1
<1>3. x - 1 \in P
  BY <1>1, <1>2
<1>4. (x - 1) + 1 \in P
  BY <1>2, <1>3
<1> QED BY <1>1, <1>2, <1>4

LEMMA MaxIs ==
  ASSUME NEW n \in Nat, NEW t \in SUBSET (1 .. n), t # {}
  PROVE  Max(t) \in t /\ \A y \in t : Max(t) >= y
<1> DEFINE R == {n - y : y \in t}
<1>1. R \subseteq Nat /\ R # {}
  <2>1. ASSUME NEW y \in t PROVE n - y \in Nat
    OBVIOUS
  <2>2. PICK y \in t : TRUE
    OBVIOUS
  <2>3. n - y \in R
    BY <2>2
  <2> QED BY <2>1, <2>3
<1>2. PICK r \in R : \A q \in R : r <= q
  BY <1>1, NatMin
<1>3. PICK x \in t : r = n - x
  BY <1>2
<1>4. ASSUME NEW y \in t PROVE x >= y
  <2>1. n - y \in R /\ n - x <= n - y /\ x \in 1 .. n /\ y \in 1 .. n
    BY <1>2, <1>3
  <2> QED BY <2>1
<1> QED BY <1>3, <1>4 DEF Max

LEMMA TopOf ==
  ASSUME NEW n \in Nat, NEW k \in 1 .. n
  PROVE  /\ 1 .. k \in SUBSET (1 .. n) /\ 1 .. k # {} /\ Max(1 .. k) = k /\ (1 .. k) \ {k} = 1 .. (k - 1)
<1>1. 1 .. k \in SUBSET (1 .. n) /\ 1 .. k # {} /\ k \in 1 .. k /\ (1 .. k) \ {k} = 1 .. (k - 1)
  <2>1. k \in Nat /\ 1 <= k /\ k <= n
    OBVIOUS
  <2>2. k \in 1 .. k /\ 1 .. k \in SUBSET (1 .. n)
    BY <2>1
  <2>3. \A x : x \in (1 .. k) \ {k} <=> x \in 1 .. (k - 1)
    BY <2>1
  <2>4. (1 .. k) \ {k} = 1 .. (k - 1)
    BY <2>3, Zenon
  <2> QED BY <2>2, <2>4
<1>2. Max(1 .. k) \in 1 .. k /\ \A y \in 1 .. k : Max(1 .. k) >= y
  BY <1>1, MaxIs
<1>3. Max(1 .. k) = k
  BY <1>1, <1>2
<1> QED BY <1>1, <1>3

(* A fold by a function h is a function on the sets of positions.          *)
FoldsBy(it, n, base, s, h) ==
  \A t \in SUBSET (1 .. n) : it[t] = IF t = {} THEN base ELSE h[<<it[t \ {Max(t)}], s[Max(t)]>>]

LEMMA FoldExists ==
  ASSUME NEW T, NEW E, NEW base \in T, NEW s \in Seq(E), NEW h \in [T \X E -> T]
  PROVE  \E it \in [SUBSET (1 .. Len(s)) -> T] : FoldsBy(it, Len(s), base, s, h)
<1> DEFINE Ok(n) == \E it \in [SUBSET (1 .. n) -> T] : FoldsBy(it, n, base, s, h)
           P == {n \in Nat : n <= Len(s) => Ok(n)}
<1>1. 0 \in P
  <2> DEFINE it == [t \in SUBSET (1 .. 0) |-> base]
  <2>1. it \in [SUBSET (1 .. 0) -> T] /\ \A t \in SUBSET (1 .. 0) : t = {}
    OBVIOUS
  <2>2. FoldsBy(it, 0, base, s, h)
    BY <2>1 DEF FoldsBy
  <2> HIDE DEF it
  <2> QED BY <2>1, <2>2
<1>2. ASSUME NEW n \in Nat, n \in P PROVE n + 1 \in P
  <2> HIDE DEF Ok
  <2> SUFFICES ASSUME n + 1 <= Len(s) PROVE Ok(n + 1)
    OBVIOUS
  <2> USE DEF Ok
  <2>1. Len(s) \in Nat /\ n <= Len(s) /\ n + 1 \in 1 .. Len(s) /\ s[n + 1] \in E
    <3>1. Len(s) \in Nat /\ \A j \in 1 .. Len(s) : s[j] \in E
      OBVIOUS
    <3> QED BY <3>1
  <2>2. PICK g \in [SUBSET (1 .. n) -> T] : FoldsBy(g, n, base, s, h)
    BY <1>2, <2>1
  <2> DEFINE it == [t \in SUBSET (1 .. (n + 1)) |-> IF n + 1 \in t THEN h[<<g[t \ {n + 1}], s[n + 1]>>] ELSE g[t]]
  <2>3. ASSUME NEW t \in SUBSET (1 .. (n + 1)), n + 1 \in t
        PROVE  t \ {n + 1} \in SUBSET (1 .. n) /\ Max(t) = n + 1 /\ t # {} /\ n + 1 \notin t \ {n + 1}
    <3>1. n + 1 \in Nat /\ t # {}
      BY <2>3
    <3>2. Max(t) \in t /\ \A y \in t : Max(t) >= y
      BY <3>1, MaxIs
    <3>3. Max(t) = n + 1
      <4>1. Max(t) \in 1 .. (n + 1) /\ Max(t) >= n + 1
        BY <2>3, <3>2
      <4> QED BY <4>1
    <3>4. t \ {n + 1} \in SUBSET (1 .. n)
      OBVIOUS
    <3> QED BY <3>1, <3>3, <3>4
  <2>4. ASSUME NEW t \in SUBSET (1 .. (n + 1)), n + 1 \notin t
        PROVE  t \in SUBSET (1 .. n) /\ (t # {} => Max(t) \in t /\ t \ {Max(t)} \in SUBSET (1 .. n) /\ n + 1 \notin t \ {Max(t)})
    <3>1. t \in SUBSET (1 .. n)
      BY <2>4
    <3> QED BY <2>4, <3>1, MaxIs
  <2>5. ASSUME NEW t \in SUBSET (1 .. (n + 1)) PROVE it[t] \in T
    <3>1. CASE n + 1 \in t
      <4>1. it[t] = h[<<g[t \ {n + 1}], s[n + 1]>>] /\ g[t \ {n + 1}] \in T
        BY <2>2, <2>3, <3>1
      <4> QED BY <2>1, <4>1
    <3>2. CASE n + 1 \notin t
      BY <2>2, <2>4, <3>2
    <3> QED BY <3>1, <3>2
  <2>6. ASSUME NEW t \in SUBSET (1 .. (n + 1)) PROVE it[t] = IF t = {} THEN base ELSE h[<<it[t \ {Max(t)}], s[Max(t)]>>]
    <3>1. CASE n + 1 \in t
      <4>1. t \ {n + 1} \in SUBSET (1 .. (n + 1))
        OBVIOUS
      <4>2. it[t \ {n + 1}] = g[t \ {n + 1}]
        BY <2>3, <3>1, <4>1
      <4>3. it[t] = h[<<g[t \ {n + 1}], s[n + 1]>>]
        BY <3>1
      <4> HIDE DEF it
      <4> QED BY <2>3, <3>1, <4>2, <4>3
    <3>2. CASE n + 1 \notin t
      <4>1. it[t] = g[t] /\ t \in SUBSET (1 .. n)
        BY <2>4, <3>2
      <4>2. t # {} => it[t \ {Max(t)}] = g[t \ {Max(t)}]
        <5> SUFFICES ASSUME t # {} PROVE it[t \ {Max(t)}] = g[t \ {Max(t)}]
          OBVIOUS
        <5>1. n + 1 \notin t \ {Max(t)} /\ t \ {Max(t)} \in SUBSET (1 .. (n + 1))
          BY <2>4, <3>2
        <5> QED BY <5>1
      <4> HIDE DEF it
      <4> QED BY <2>2, <4>1, <4>2 DEF FoldsBy
    <3> QED BY <3>1, <3>2
  <2>7. it \in [SUBSET (1 .. (n + 1)) -> T]
    <3>1. it = [t \in SUBSET (1 .. (n + 1)) |-> it[t]]
      OBVIOUS
    <3> HIDE DEF it
    <3> QED BY <2>5, <3>1
  <2> HIDE DEF it
  <2>8. FoldsBy(it, n + 1, base, s, h)
    BY <2>6 DEF FoldsBy
  <2> QED BY <2>7, <2>8
<1>3. Nat \subseteq P
  <2> HIDE DEF P
  <2> QED BY <1>1, <1>2, NatInd
<1>4. Len(s) \in Nat /\ Len(s) <= Len(s)
  OBVIOUS
<1> QED BY <1>3, <1>4

(* The intermediate values of Among, one for every prefix of the list.     *)
LEMMA AmongSteps ==
  ASSUME NEW s \in Seq(Conn), NEW keep
  PROVE  \E g : /\ g[0] = <<>> /\ Among(s, keep) = g[Len(s)]
                /\ \A k \in 1 .. Len(s) : g[k] = IF s[k] \in keep THEN Append(g[k - 1], s[k]) ELSE g[k - 1]
<1> DEFINE n == Len(s)
           Step(a, c) == IF c \in keep THEN Append(a, c) ELSE a
           h == [x \in Seq(Conn) \X Conn |-> Step(x[1], x[2])]
           IsFold(f) == f = [t \in SUBSET (DOMAIN s) |-> IF t = {} THEN <<>> ELSE LET x == Max(t) IN Step(f[t \ {x}], s[x])]
           f == CHOOSE f : IsFold(f)
<1>1. n \in Nat /\ DOMAIN s = 1 .. n /\ \A j \in 1 .. n : s[j] \in Conn
  OBVIOUS
<1>2. h \in [Seq(Conn) \X Conn -> Seq(Conn)]
  <2>1. ASSUME NEW x \in Seq(Conn) \X Conn PROVE Step(x[1], x[2]) \in Seq(Conn)
    BY AppendProperties
  <2> HIDE DEF Step
  <2> QED BY <2>1
<1>3. <<>> \in Seq(Conn)
  BY EmptySeq
<1>4. PICK it \in [SUBSET (1 .. n) -> Seq(Conn)] : FoldsBy(it, n, <<>>, s, h)
  BY <1>2, <1>3, FoldExists
<1>5. IsFold(it)
  <2> HIDE DEF Step
  <2>1. ASSUME NEW t \in SUBSET (1 .. n), t # {}
        PROVE  h[<<it[t \ {Max(t)}], s[Max(t)]>>] = Step(it[t \ {Max(t)}], s[Max(t)])
    <3>1. Max(t) \in t /\ t \ {Max(t)} \in SUBSET (1 .. n)
      BY <1>1, <2>1, MaxIs
    <3>2. it[t \ {Max(t)}] \in Seq(Conn) /\ s[Max(t)] \in Conn
      BY <1>1, <1>4, <3>1
    <3> QED BY <3>2
  <2>2. \A t \in SUBSET (1 .. n) : it[t] = IF t = {} THEN <<>> ELSE Step(it[t \ {Max(t)}], s[Max(t)])
    BY <1>4, <2>1 DEF FoldsBy
  <2> HIDE DEF h, n
  <2> QED BY <1>1, <1>4, <2>2
<1>6. IsFold(f)
  <2> HIDE DEF IsFold
  <2> QED BY <1>5
<1>7. Among(s, keep) = f[1 .. n]
  <2>1. Among(s, keep) = f[DOMAIN s]
    BY DEF Among, FoldLeft, MapThenFoldSet
  <2> HIDE DEF f, n
  <2> QED BY <1>1, <2>1
<1> HIDE DEF f
<1>8. f[{}] = <<>> /\ \A t \in SUBSET (1 .. n) : t # {} => f[t] = Step(f[t \ {Max(t)}], s[Max(t)])
  <2> HIDE DEF Step, n
  <2>1. {} \in SUBSET (1 .. n)
    OBVIOUS
  <2> QED BY <1>1, <1>6, <2>1
<1> DEFINE g == [k \in 0 .. n |-> f[1 .. k]]
<1>9. ASSUME NEW k \in 1 .. n PROVE g[k] = Step(g[k - 1], s[k])
  <2>1. k \in 0 .. n /\ k - 1 \in 0 .. n
    BY <1>1
  <2>2. f[1 .. k] = Step(f[1 .. (k - 1)], s[k])
    <3> HIDE DEF Step, n
    <3> QED BY <1>1, <1>8, TopOf
  <2> HIDE DEF Step, n
  <2> QED BY <2>1, <2>2
<1>10. g[0] = <<>> /\ Among(s, keep) = g[n]
  <2>1. 1 .. 0 = {} /\ 0 \in 0 .. n /\ n \in 0 .. n
    BY <1>1
  <2> HIDE DEF n
  <2> QED BY <1>7, <1>8, <2>1
<1> HIDE DEF g
<1> QED BY <1>9, <1>10

-----------------------------------------------------------------------------
Reveal == [conn : Conn, reveal : Nat]
ViewType == [ids : Seq(Conn), active : Conn \cup {NoConn}]
PageType == [views : [View -> ViewType], refs : [Conn -> SUBSET View], pending : Seq(Conn),
             announced : SUBSET Reveal, listed : Seq(Conn), adopted : [View -> BOOLEAN]]

(* A view without duplicates, that selects one of its servers.             *)
ViewGood(view) ==
  /\ IsInjective(view.ids)
  /\ IF view.ids = <<>> THEN view.active = NoConn ELSE view.active \in ToSet(view.ids)
PageGood(p, used) ==
  /\ p \in PageType
  /\ \A v \in View : ViewGood(p.views[v]) /\ Ids(p, v) \subseteq used
  /\ \A v \in View, c \in Conn : v \in p.refs[c] <=> c \in Ids(p, v)
  /\ ToSet(p.pending) \subseteq used /\ ToSet(p.listed) \subseteq used /\ IsInjective(p.listed)

LEMMA SetOf ==
  ASSUME NEW S, NEW s \in Seq(S)
  PROVE  /\ ToSet(s) \in SUBSET S /\ \A x : x \in ToSet(s) <=> \E i \in 1 .. Len(s) : s[i] = x
         /\ (s = <<>> <=> ToSet(s) = {}) /\ (s # <<>> => Head(s) \in ToSet(s))
         /\ (IsInjective(s) <=> \A i, j \in 1 .. Len(s) : s[i] = s[j] => i = j)
<1>1. Len(s) \in Nat /\ DOMAIN s = 1 .. Len(s) /\ \A i \in 1 .. Len(s) : s[i] \in S
  OBVIOUS
<1>2. \A x : x \in ToSet(s) <=> \E i \in 1 .. Len(s) : s[i] = x
  BY <1>1 DEF ToSet
<1>3. IsInjective(s) <=> \A i, j \in 1 .. Len(s) : s[i] = s[j] => i = j
  BY <1>1 DEF IsInjective
<1>4. ASSUME s # <<>> PROVE Head(s) \in ToSet(s)
  <2>1. 1 \in 1 .. Len(s) /\ Head(s) = s[1]
    BY <1>1, <1>4, EmptySeq
  <2> QED BY <1>2, <2>1
<1>5. s = <<>> => ToSet(s) = {}
  BY <1>2
<1> QED BY <1>1, <1>2, <1>3, <1>4, <1>5

LEMMA AppendSet ==
  ASSUME NEW S, NEW s \in Seq(S), NEW x \in S
  PROVE  /\ Append(s, x) \in Seq(S) /\ ToSet(Append(s, x)) = ToSet(s) \cup {x}
         /\ (IsInjective(s) /\ x \notin ToSet(s) => IsInjective(Append(s, x)))
<1> DEFINE a == Append(s, x)
           n == Len(s)
<1>1. a \in Seq(S) /\ Len(a) = n + 1 /\ n \in Nat /\ a[n + 1] = x /\ \A i \in 1 .. n : a[i] = s[i]
  BY AppendProperties
<1> HIDE DEF a
<1>2. \A i \in 1 .. (n + 1) : i \in 1 .. n \/ i = n + 1
  BY <1>1
<1>3. \A i \in 1 .. n : i \in 1 .. (n + 1) /\ i # n + 1
  BY <1>1
<1>4. n + 1 \in 1 .. (n + 1)
  BY <1>1
<1>5. \A y : y \in ToSet(a) <=> \E i \in 1 .. (n + 1) : a[i] = y
  BY <1>1, SetOf
<1>6. \A y : y \in ToSet(s) <=> \E i \in 1 .. n : s[i] = y
  BY SetOf
<1>7. ToSet(a) = ToSet(s) \cup {x}
  <2> HIDE DEF n
  <2> QED BY <1>1, <1>2, <1>3, <1>4, <1>5, <1>6
<1>8. ASSUME IsInjective(s), x \notin ToSet(s) PROVE IsInjective(a)
  <2>1. \A i, j \in 1 .. n : s[i] = s[j] => i = j
    BY <1>8, SetOf
  <2>2. \A i, j \in 1 .. (n + 1) : a[i] = a[j] => i = j
    <3> HIDE DEF n
    <3> QED BY <1>1, <1>2, <1>6, <1>8, <2>1
  <2> QED BY <1>1, <2>2, SetOf
<1> QED BY <1>1, <1>7, <1>8 DEF a

(* What Among keeps.                                                       *)
LEMMA AmongIs ==
  ASSUME NEW s \in Seq(Conn), NEW keep
  PROVE  /\ Among(s, keep) \in Seq(Conn) /\ ToSet(Among(s, keep)) = ToSet(s) \cap keep
         /\ (IsInjective(s) => IsInjective(Among(s, keep)))
<1>1. PICK g : /\ g[0] = <<>> /\ Among(s, keep) = g[Len(s)]
               /\ \A k \in 1 .. Len(s) : g[k] = IF s[k] \in keep THEN Append(g[k - 1], s[k]) ELSE g[k - 1]
  BY AmongSteps
<1> DEFINE n == Len(s)
           Good(k) == /\ g[k] \in Seq(Conn) /\ \A x : x \in ToSet(g[k]) <=> x \in keep /\ \E i \in 1 .. k : s[i] = x
                      /\ (IsInjective(s) => IsInjective(g[k]))
           P == {k \in Nat : k <= n => Good(k)}
<1>2. n \in Nat /\ \A i \in 1 .. n : s[i] \in Conn
  OBVIOUS
<1>3. 0 \in P
  <2>1. <<>> \in Seq(Conn) /\ ToSet(<<>>) = {} /\ IsInjective(<<>>)
    BY EmptySeq DEF ToSet, IsInjective
  <2>2. \A i \in 1 .. 0 : FALSE
    OBVIOUS
  <2>3. Good(0)
    BY <1>1, <2>1, <2>2
  <2> HIDE DEF Good
  <2> QED BY <2>3
<1>4. ASSUME NEW k \in Nat, k \in P PROVE k + 1 \in P
  <2> HIDE DEF Good
  <2> SUFFICES ASSUME k + 1 <= n PROVE Good(k + 1)
    OBVIOUS
  <2>1. k + 1 \in 1 .. n /\ k <= n /\ (k + 1) - 1 = k
    BY <1>2
  <2>2. Good(k)
    BY <1>4, <2>1
  <2>3. g[k + 1] = IF s[k + 1] \in keep THEN Append(g[k], s[k + 1]) ELSE g[k]
    BY <1>1, <2>1
  <2>4. \A i \in 1 .. (k + 1) : i \in 1 .. k \/ i = k + 1
    OBVIOUS
  <2>5. \A i \in 1 .. k : i \in 1 .. (k + 1) /\ i \in 1 .. n /\ i # k + 1
    BY <2>1
  <2>6. k + 1 \in 1 .. (k + 1) /\ s[k + 1] \in Conn
    BY <1>2, <2>1
  <2>7. CASE s[k + 1] \in keep
    <3>1. /\ g[k + 1] \in Seq(Conn) /\ ToSet(g[k + 1]) = ToSet(g[k]) \cup {s[k + 1]}
          /\ (IsInjective(g[k]) /\ s[k + 1] \notin ToSet(g[k]) => IsInjective(g[k + 1]))
      BY <2>2, <2>3, <2>6, <2>7, AppendSet DEF Good
    <3>2. ASSUME IsInjective(s) PROVE s[k + 1] \notin ToSet(g[k])
      <4>1. \A i, j \in 1 .. n : s[i] = s[j] => i = j
        BY <3>2, SetOf
      <4>2. \A i \in 1 .. k : s[i] # s[k + 1]
        BY <2>1, <2>5, <4>1
      <4> QED BY <2>2, <4>2 DEF Good
    <3>3. ASSUME NEW x PROVE x \in ToSet(g[k + 1]) <=> x \in keep /\ \E i \in 1 .. (k + 1) : s[i] = x
      BY <2>2, <2>4, <2>5, <2>6, <2>7, <3>1 DEF Good
    <3> QED BY <2>2, <3>1, <3>2, <3>3 DEF Good
  <2>8. CASE s[k + 1] \notin keep
    <3>1. g[k + 1] = g[k]
      BY <2>3, <2>8
    <3>2. ASSUME NEW x PROVE x \in ToSet(g[k]) <=> x \in keep /\ \E i \in 1 .. (k + 1) : s[i] = x
      BY <2>2, <2>4, <2>5, <2>8 DEF Good
    <3> QED BY <2>2, <3>1, <3>2 DEF Good
  <2> QED BY <2>7, <2>8
<1>5. Nat \subseteq P
  <2> HIDE DEF P
  <2> QED BY <1>3, <1>4, NatInd
<1>6. Good(n)
  <2> HIDE DEF Good
  <2> QED BY <1>2, <1>5
<1>7. \A x : x \in ToSet(s) <=> \E i \in 1 .. n : s[i] = x
  BY SetOf
<1>8. ToSet(g[n]) = ToSet(s) \cap keep
  BY <1>6, <1>7
<1> QED BY <1>1, <1>6, <1>8

-----------------------------------------------------------------------------
(* The operations of the store, field by field.                            *)
Opened(p, q, v, c) ==
  /\ q \in PageType /\ q.pending = p.pending /\ q.announced = p.announced /\ q.listed = p.listed /\ q.adopted = p.adopted
  /\ (\A w \in View : w # v => q.views[w] = p.views[w]) /\ q.views[v].active = c
  /\ c \in Ids(p, v) => q.refs = p.refs /\ q.views[v].ids = p.views[v].ids
  /\ c \notin Ids(p, v) => /\ q.refs = [p.refs EXCEPT ![c] = p.refs[c] \cup {v}]
                          /\ q.views[v].ids = Append(p.views[v].ids, c)

LEMMA OpenedIs ==
  ASSUME NEW p \in PageType, NEW v \in View, NEW c \in Conn
  PROVE  Opened(p, OpenInView(p, v, c), v, c)
<1> DEFINE q == OpenInView(p, v, c)
<1>1. p.views[v] \in ViewType /\ p.refs[c] \in SUBSET View /\ p.views \in [View -> ViewType] /\ p.refs \in [Conn -> SUBSET View]
  BY DEF PageType
<1>2. CASE c \in Ids(p, v)
  <2> DEFINE w == [p.views[v] EXCEPT !.active = c]
             vs == [p.views EXCEPT ![v] = w]
  <2>1. w \in ViewType /\ w.ids = p.views[v].ids /\ w.active = c
    BY <1>1 DEF ViewType
  <2> HIDE DEF w
  <2>2. vs \in [View -> ViewType] /\ vs[v] = w /\ \A x \in View : x # v => vs[x] = p.views[x]
    BY <1>1, <2>1
  <2>3. q = [p EXCEPT !.views = vs]
    BY <1>2 DEF OpenInView, w
  <2> HIDE DEF vs, q
  <2>4. q \in PageType /\ q.views = vs /\ q.refs = p.refs /\ q.pending = p.pending /\ q.announced = p.announced
        /\ q.listed = p.listed /\ q.adopted = p.adopted
    BY <2>2, <2>3 DEF PageType
  <2> QED BY <1>2, <2>1, <2>2, <2>4 DEF q, Opened
<1>3. CASE c \notin Ids(p, v)
  <2> DEFINE w == [ids |-> Append(p.views[v].ids, c), active |-> c]
             vs == [p.views EXCEPT ![v] = w]
             rs == [p.refs EXCEPT ![c] = p.refs[c] \cup {v}]
  <2>1. Append(p.views[v].ids, c) \in Seq(Conn)
    BY <1>1, AppendProperties DEF ViewType
  <2>2. w \in ViewType /\ w.ids = Append(p.views[v].ids, c) /\ w.active = c
    BY <2>1 DEF ViewType
  <2>3. q = [p EXCEPT !.refs = rs, !.views = vs]
    BY <1>3 DEF OpenInView, AddReference, PageType
  <2> HIDE DEF w
  <2>4. /\ vs \in [View -> ViewType] /\ vs[v] = w /\ \A x \in View : x # v => vs[x] = p.views[x]
        /\ rs \in [Conn -> SUBSET View]
    BY <1>1, <2>2
  <2> HIDE DEF vs, q
  <2>5. rs = [p.refs EXCEPT ![c] = p.refs[c] \cup {v}]
    OBVIOUS
  <2> HIDE DEF rs
  <2>6. q \in PageType /\ q.views = vs /\ q.refs = rs /\ q.pending = p.pending /\ q.announced = p.announced
        /\ q.listed = p.listed /\ q.adopted = p.adopted
    BY <2>3, <2>4 DEF PageType
  <2> QED BY <1>3, <2>2, <2>4, <2>5, <2>6 DEF q, Opened
<1> QED BY <1>2, <1>3

(* Opening keeps the references true.                                      *)
OpenedOne(p, q, used, v, more) ==
  /\ PageGood(q, used) /\ q.pending = p.pending /\ q.announced = p.announced /\ q.listed = p.listed /\ q.adopted = p.adopted
  /\ (\A w \in View : w # v => Ids(q, w) = Ids(p, w)) /\ Ids(q, v) = Ids(p, v) \cup more

LEMMA OpenedGood ==
  ASSUME NEW used, NEW p, PageGood(p, used), NEW v \in View, NEW c \in Conn, c \in used
  PROVE  OpenedOne(p, OpenInView(p, v, c), used, v, {c})
<1> DEFINE q == OpenInView(p, v, c)
<1>1. p \in PageType /\ p.views[v] \in ViewType /\ p.refs \in [Conn -> SUBSET View]
  BY DEF PageGood, PageType
<1>2. Opened(p, q, v, c)
  BY <1>1, OpenedIs
<1> HIDE DEF q
<1>3. p.views[v].ids \in Seq(Conn)
  BY <1>1 DEF ViewType
<1>4. Ids(q, v) = Ids(p, v) \cup {c} /\ IsInjective(q.views[v].ids) /\ q.views[v].ids \in Seq(Conn)
  <2>1. CASE c \in Ids(p, v)
    BY <1>2, <1>3, <2>1 DEF Opened, Ids, PageGood, ViewGood
  <2>2. CASE c \notin Ids(p, v)
    <3>1. IsInjective(p.views[v].ids)
      BY DEF PageGood, ViewGood
    <3>2. q.views[v].ids = Append(p.views[v].ids, c)
      BY <1>2, <2>2 DEF Opened
    <3>3. c \notin ToSet(p.views[v].ids)
      BY <2>2 DEF Ids
    <3>4. /\ Append(p.views[v].ids, c) \in Seq(Conn) /\ ToSet(Append(p.views[v].ids, c)) = ToSet(p.views[v].ids) \cup {c}
          /\ IsInjective(Append(p.views[v].ids, c))
      BY <1>3, <3>1, <3>3, AppendSet
    <3> QED BY <3>2, <3>4 DEF Ids
  <2> QED BY <2>1, <2>2
<1>5. \A w \in View : w # v => Ids(q, w) = Ids(p, w)
  BY <1>2 DEF Ids, Opened
<1>6. ASSUME NEW w \in View PROVE ViewGood(q.views[w]) /\ Ids(q, w) \subseteq used
  <2>1. CASE w # v
    BY <1>2, <1>5, <2>1 DEF PageGood, Opened
  <2>2. CASE w = v
    <3>1. c \in ToSet(q.views[v].ids)
      BY <1>4 DEF Ids
    <3>2. q.views[v].ids # <<>>
      BY <1>4, <3>1, SetOf
    <3>3. ViewGood(q.views[v])
      BY <1>2, <1>4, <3>1, <3>2 DEF ViewGood, Opened
    <3> QED BY <1>4, <2>2, <3>3 DEF PageGood
  <2> QED BY <2>1, <2>2
<1>7. ASSUME NEW w \in View, NEW d \in Conn PROVE w \in q.refs[d] <=> d \in Ids(q, w)
  <2>1. w \in p.refs[d] <=> d \in Ids(p, w)
    BY DEF PageGood
  <2>2. CASE c \in Ids(p, v)
    BY <1>2, <1>4, <1>5, <2>1, <2>2 DEF Opened
  <2>3. CASE c \notin Ids(p, v)
    <3>1. q.refs[d] = IF d = c THEN p.refs[d] \cup {v} ELSE p.refs[d]
      BY <1>1, <1>2, <2>3 DEF Opened
    <3> QED BY <1>4, <1>5, <2>1, <3>1
  <2> QED BY <2>2, <2>3
<1>8. PageGood(q, used)
  BY <1>2, <1>6, <1>7 DEF PageGood, Opened
<1> QED BY <1>2, <1>4, <1>5, <1>8 DEF q, Opened, OpenedOne

(* The same for a claim of the queue.                                      *)
LEMMA ClaimSteps ==
  ASSUME NEW p \in PageType, NEW v \in View
  PROVE  \E g : /\ g[0] = [p EXCEPT !.pending = <<>>] /\ ClaimPendingOpens(p, v) = g[Len(p.pending)]
                /\ \A k \in 1 .. Len(p.pending) : g[k] = OpenInView(g[k - 1], v, p.pending[k])
<1> DEFINE s == p.pending
           base == [p EXCEPT !.pending = <<>>]
           n == Len(s)
           Step(a, c) == OpenInView(a, v, c)
           h == [x \in PageType \X Conn |-> Step(x[1], x[2])]
           IsFold(f) == f = [t \in SUBSET (DOMAIN s) |-> IF t = {} THEN base ELSE LET x == Max(t) IN Step(f[t \ {x}], s[x])]
           f == CHOOSE f : IsFold(f)
<1>0. s \in Seq(Conn)
  BY DEF PageType
<1>1. n \in Nat /\ DOMAIN s = 1 .. n /\ \A j \in 1 .. n : s[j] \in Conn
  <2> HIDE DEF s
  <2> QED BY <1>0
<1>2. h \in [PageType \X Conn -> PageType]
  <2>1. ASSUME NEW x \in PageType \X Conn PROVE Step(x[1], x[2]) \in PageType
    BY OpenedIs DEF Opened
  <2> HIDE DEF Step
  <2> QED BY <2>1
<1>3. base \in PageType
  BY EmptySeq DEF PageType
<1>4. PICK it \in [SUBSET (1 .. n) -> PageType] : FoldsBy(it, n, base, s, h)
  <2> HIDE DEF h, base, s
  <2> QED BY <1>0, <1>2, <1>3, FoldExists
<1>5. IsFold(it)
  <2> HIDE DEF Step
  <2>1. ASSUME NEW t \in SUBSET (1 .. n), t # {}
        PROVE  h[<<it[t \ {Max(t)}], s[Max(t)]>>] = Step(it[t \ {Max(t)}], s[Max(t)])
    <3>1. Max(t) \in t /\ t \ {Max(t)} \in SUBSET (1 .. n)
      BY <1>1, <2>1, MaxIs
    <3>2. it[t \ {Max(t)}] \in PageType /\ s[Max(t)] \in Conn
      BY <1>1, <1>4, <3>1
    <3> QED BY <3>2
  <2>2. \A t \in SUBSET (1 .. n) : it[t] = IF t = {} THEN base ELSE Step(it[t \ {Max(t)}], s[Max(t)])
    BY <1>4, <2>1 DEF FoldsBy
  <2> HIDE DEF h, n
  <2> QED BY <1>1, <1>4, <2>2
<1>6. IsFold(f)
  <2> HIDE DEF IsFold
  <2> QED BY <1>5
<1>7. ClaimPendingOpens(p, v) = f[1 .. n]
  <2>1. ClaimPendingOpens(p, v) = f[DOMAIN s]
    BY DEF ClaimPendingOpens, FoldLeft, MapThenFoldSet
  <2> HIDE DEF f, n
  <2> QED BY <1>1, <2>1
<1> HIDE DEF f
<1>8. f[{}] = base /\ \A t \in SUBSET (1 .. n) : t # {} => f[t] = Step(f[t \ {Max(t)}], s[Max(t)])
  <2> HIDE DEF Step, n
  <2>1. {} \in SUBSET (1 .. n)
    OBVIOUS
  <2> QED BY <1>1, <1>6, <2>1
<1> DEFINE g == [k \in 0 .. n |-> f[1 .. k]]
<1>9. ASSUME NEW k \in 1 .. n PROVE g[k] = Step(g[k - 1], s[k])
  <2>1. k \in 0 .. n /\ k - 1 \in 0 .. n
    BY <1>1
  <2>2. f[1 .. k] = Step(f[1 .. (k - 1)], s[k])
    <3> HIDE DEF Step, n
    <3> QED BY <1>1, <1>8, TopOf
  <2> HIDE DEF Step, n
  <2> QED BY <2>1, <2>2
<1>10. g[0] = base /\ ClaimPendingOpens(p, v) = g[n]
  <2>1. 1 .. 0 = {} /\ 0 \in 0 .. n /\ n \in 0 .. n
    BY <1>1
  <2> HIDE DEF n
  <2> QED BY <1>7, <1>8, <2>1
<1> HIDE DEF g
<1> QED BY <1>9, <1>10

(* One entry of a list is announced: queued, unless it was before.         *)
Announce(q, e) == IF e.reveal = 0 \/ e \in q.announced THEN q
                  ELSE RequestPaneOpen([q EXCEPT !.announced = @ \cup {e}], e.conn)
Announced(p, q, list) ==
  /\ q \in PageType /\ q.views = p.views /\ q.refs = p.refs /\ q.listed = p.listed /\ q.adopted = p.adopted
  /\ ToSet(p.pending) \subseteq ToSet(q.pending)
  /\ ToSet(q.pending) \subseteq ToSet(p.pending) \cup {e.conn : e \in list}
  /\ p.announced \subseteq q.announced /\ q.announced \subseteq p.announced \cup list
  /\ \A e \in q.announced \ p.announced : e.conn \in ToSet(q.pending)

LEMMA AnnouncedOne ==
  ASSUME NEW p \in PageType, NEW e \in Reveal
  PROVE  Announced(p, Announce(p, e), {e})
<1> DEFINE q == Announce(p, e)
<1>1. CASE e.reveal = 0 \/ e \in p.announced
  BY <1>1 DEF Announced, Announce
<1>2. CASE ~(e.reveal = 0 \/ e \in p.announced)
  <2> DEFINE a == p.announced \cup {e}
             w == Append(p.pending, e.conn)
  <2>1. p.pending \in Seq(Conn) /\ e.conn \in Conn /\ a \in SUBSET Reveal
    BY DEF PageType, Reveal
  <2>2. w \in Seq(Conn) /\ ToSet(w) = ToSet(p.pending) \cup {e.conn}
    BY <2>1, AppendSet
  <2>3. q = [p EXCEPT !.announced = a, !.pending = w]
    BY <1>2 DEF Announce, RequestPaneOpen, PageType
  <2> HIDE DEF w, a, q
  <2>4. /\ q \in PageType /\ q.views = p.views /\ q.refs = p.refs /\ q.listed = p.listed /\ q.adopted = p.adopted
        /\ q.pending = w /\ q.announced = a
    BY <2>1, <2>2, <2>3 DEF PageType
  <2> QED BY <2>2, <2>4 DEF Announced, a, q
<1> QED BY <1>1, <1>2

LEMMA AnnounceSteps ==
  ASSUME NEW p \in PageType, NEW s \in Seq(Reveal)
  PROVE  \E g : /\ g[0] = p /\ AnnounceAgentConnections(p, s) = g[Len(s)]
                /\ \A k \in 1 .. Len(s) : g[k] = Announce(g[k - 1], s[k])
<1> DEFINE base == p
           n == Len(s)
           Step(a, c) == Announce(a, c)
           h == [x \in PageType \X Reveal |-> Step(x[1], x[2])]
           IsFold(f) == f = [t \in SUBSET (DOMAIN s) |-> IF t = {} THEN base ELSE LET x == Max(t) IN Step(f[t \ {x}], s[x])]
           f == CHOOSE f : IsFold(f)
<1>0. s \in Seq(Reveal)
  OBVIOUS
<1>1. n \in Nat /\ DOMAIN s = 1 .. n /\ \A j \in 1 .. n : s[j] \in Reveal
  BY <1>0
<1>2. h \in [PageType \X Reveal -> PageType]
  <2>1. ASSUME NEW x \in PageType \X Reveal PROVE Step(x[1], x[2]) \in PageType
    BY AnnouncedOne DEF Announced
  <2> HIDE DEF Step
  <2> QED BY <2>1
<1>3. base \in PageType
  OBVIOUS
<1>4. PICK it \in [SUBSET (1 .. n) -> PageType] : FoldsBy(it, n, base, s, h)
  <2> HIDE DEF h, base
  <2> QED BY <1>0, <1>2, <1>3, FoldExists
<1>5. IsFold(it)
  <2> HIDE DEF Step
  <2>1. ASSUME NEW t \in SUBSET (1 .. n), t # {}
        PROVE  h[<<it[t \ {Max(t)}], s[Max(t)]>>] = Step(it[t \ {Max(t)}], s[Max(t)])
    <3>1. Max(t) \in t /\ t \ {Max(t)} \in SUBSET (1 .. n)
      BY <1>1, <2>1, MaxIs
    <3>2. it[t \ {Max(t)}] \in PageType /\ s[Max(t)] \in Reveal
      BY <1>1, <1>4, <3>1
    <3> QED BY <3>2
  <2>2. \A t \in SUBSET (1 .. n) : it[t] = IF t = {} THEN base ELSE Step(it[t \ {Max(t)}], s[Max(t)])
    BY <1>4, <2>1 DEF FoldsBy
  <2> HIDE DEF h, n
  <2> QED BY <1>1, <1>4, <2>2
<1>6. IsFold(f)
  <2> HIDE DEF IsFold
  <2> QED BY <1>5
<1>7. AnnounceAgentConnections(p, s) = f[1 .. n]
  <2>1. AnnounceAgentConnections(p, s) = f[DOMAIN s]
    BY DEF AnnounceAgentConnections, Announce, FoldLeft, MapThenFoldSet
  <2> HIDE DEF f, n
  <2> QED BY <1>1, <2>1
<1> HIDE DEF f
<1>8. f[{}] = base /\ \A t \in SUBSET (1 .. n) : t # {} => f[t] = Step(f[t \ {Max(t)}], s[Max(t)])
  <2> HIDE DEF Step, n
  <2>1. {} \in SUBSET (1 .. n)
    OBVIOUS
  <2> QED BY <1>1, <1>6, <2>1
<1> DEFINE g == [k \in 0 .. n |-> f[1 .. k]]
<1>9. ASSUME NEW k \in 1 .. n PROVE g[k] = Step(g[k - 1], s[k])
  <2>1. k \in 0 .. n /\ k - 1 \in 0 .. n
    BY <1>1
  <2>2. f[1 .. k] = Step(f[1 .. (k - 1)], s[k])
    <3> HIDE DEF Step, n
    <3> QED BY <1>1, <1>8, TopOf
  <2> HIDE DEF Step, n
  <2> QED BY <2>1, <2>2
<1>10. g[0] = base /\ AnnounceAgentConnections(p, s) = g[n]
  <2>1. 1 .. 0 = {} /\ 0 \in 0 .. n /\ n \in 0 .. n
    BY <1>1
  <2> HIDE DEF n
  <2> QED BY <1>7, <1>8, <2>1
<1> HIDE DEF g
<1> QED BY <1>9, <1>10

LEMMA AnnouncedTwice ==
  ASSUME NEW p, NEW q, NEW r, NEW E, NEW e, Announced(p, q, E), Announced(q, r, {e})
  PROVE  Announced(p, r, E \cup {e})
<1>1. ToSet(p.pending) \subseteq ToSet(r.pending) /\ p.announced \subseteq r.announced
      /\ r.announced \subseteq p.announced \cup (E \cup {e})
  BY Zenon DEF Announced
<1>2. ToSet(r.pending) \subseteq ToSet(p.pending) \cup {x.conn : x \in E \cup {e}}
  BY DEF Announced
<1>3. \A x \in r.announced \ p.announced : x.conn \in ToSet(r.pending)
  BY Zenon DEF Announced
<1> QED BY <1>1, <1>2, <1>3 DEF Announced

(* The list as a whole.                                                    *)
LEMMA AnnouncedIs ==
  ASSUME NEW p \in PageType, NEW s \in Seq(Reveal)
  PROVE  Announced(p, AnnounceAgentConnections(p, s), ToSet(s))
<1> DEFINE n == Len(s)
<1>0. n \in Nat
  OBVIOUS
<1>1. PICK g : /\ g[0] = p /\ AnnounceAgentConnections(p, s) = g[n]
               /\ \A k \in 1 .. n : g[k] = Announce(g[k - 1], s[k])
  BY AnnounceSteps
<1>3. \A i \in 1 .. n : s[i] \in Reveal
  OBVIOUS
<1> DEFINE Up(k) == {s[i] : i \in 1 .. k}
           P == {k \in Nat : k <= n => Announced(p, g[k], Up(k))}
<1>4. 0 \in P
  <2>1. Up(0) = {}
    OBVIOUS
  <2>2. Announced(p, p, {})
    BY DEF Announced
  <2> QED BY <1>1, <2>1, <2>2
<1>5. ASSUME NEW k \in Nat, k \in P PROVE k + 1 \in P
  <2> SUFFICES ASSUME k + 1 <= n PROVE Announced(p, g[k + 1], Up(k + 1))
    OBVIOUS
  <2>1. k + 1 \in 1 .. n /\ k <= n /\ (k + 1) - 1 = k
    BY <1>0
  <2>2. Announced(p, g[k], Up(k))
    BY <1>5, <2>1
  <2>3. g[k + 1] = Announce(g[k], s[k + 1])
    BY <1>1, <2>1
  <2>4. Up(k + 1) = Up(k) \cup {s[k + 1]}
    <3>1. 1 .. (k + 1) = (1 .. k) \cup {k + 1}
      OBVIOUS
    <3> QED BY <3>1
  <2> HIDE DEF Up
  <2>5. g[k] \in PageType /\ s[k + 1] \in Reveal
    BY <1>3, <2>1, <2>2 DEF Announced
  <2>7. Announced(g[k], Announce(g[k], s[k + 1]), {s[k + 1]})
    BY <2>5, AnnouncedOne
  <2>8. Announced(p, g[k + 1], Up(k) \cup {s[k + 1]})
    BY <2>2, <2>3, <2>7, AnnouncedTwice
  <2> QED BY <2>4, <2>8
<1>6. Nat \subseteq P
  <2> HIDE DEF P
  <2> QED BY <1>4, <1>5, NatInd
<1>7. Announced(p, g[n], Up(n))
  <2> HIDE DEF Up
  <2> QED BY <1>0, <1>6
<1>8. Up(n) = ToSet(s)
  <2>1. \A x : x \in ToSet(s) <=> \E i \in 1 .. n : s[i] = x
    BY <1>0, SetOf
  <2> QED BY <2>1
<1> QED BY <1>1, <1>7, <1>8

(* Which keeps the page good.                                              *)
LEMMA AnnouncedGood ==
  ASSUME NEW used, NEW p, PageGood(p, used), NEW s \in Seq(Reveal),
         \A e \in ToSet(s) : e.conn \in used
  PROVE  PageGood(AnnounceAgentConnections(p, s), used)
<1> DEFINE q == AnnounceAgentConnections(p, s)
<1>1. p \in PageType
  BY DEF PageGood
<1>2. Announced(p, q, ToSet(s))
  BY <1>1, AnnouncedIs
<1> HIDE DEF q
<1>3. ToSet(q.pending) \subseteq used
  BY <1>2 DEF Announced, PageGood
<1>4. PageGood(q, used)
  BY <1>2, <1>3 DEF Announced, PageGood, Ids
<1> QED BY <1>4 DEF q

LEMMA BaseOpened ==
  ASSUME NEW used, NEW p, PageGood(p, used), NEW v \in View
  PROVE  OpenedOne(p, p, used, v, {})
BY DEF OpenedOne

LEMMA OpenedTwice ==
  ASSUME NEW used, NEW p, NEW q, NEW r, NEW v \in View, NEW more, NEW c,
         OpenedOne(p, q, used, v, more), OpenedOne(q, r, used, v, {c})
  PROVE  OpenedOne(p, r, used, v, more \cup {c})
<1>1. Ids(r, v) = Ids(p, v) \cup (more \cup {c})
  BY Zenon DEF OpenedOne
<1>2. \A w \in View : w # v => Ids(r, w) = Ids(p, w)
  BY DEF OpenedOne
<1> QED BY <1>1, <1>2 DEF OpenedOne

(* The claim shows in pane v all that was queued, and nothing else.        *)
LEMMA ClaimedIs ==
  ASSUME NEW used, NEW p, PageGood(p, used), NEW v \in View
  PROVE  OpenedOne([p EXCEPT !.pending = <<>>], ClaimPendingOpens(p, v), used, v, ToSet(p.pending))
<1> DEFINE s == p.pending
           base == [p EXCEPT !.pending = <<>>]
           n == Len(s)
<1>0. p \in PageType /\ s \in Seq(Conn) /\ n \in Nat
  BY DEF PageGood, PageType
<1>1. PICK g : /\ g[0] = base /\ ClaimPendingOpens(p, v) = g[n]
               /\ \A k \in 1 .. n : g[k] = OpenInView(g[k - 1], v, s[k])
  BY <1>0, ClaimSteps
<1>2. PageGood(base, used)
  <2>1. /\ base \in PageType /\ base.views = p.views /\ base.refs = p.refs /\ base.pending = <<>>
        /\ base.listed = p.listed /\ base.announced = p.announced /\ base.adopted = p.adopted
    BY <1>0, EmptySeq DEF PageType
  <2> HIDE DEF base
  <2>2. ToSet(base.pending) \subseteq used
    <3>1. <<>> \in Seq(Conn)
      BY EmptySeq
    <3> QED BY <2>1, <3>1, SetOf
  <2> QED BY <2>1, <2>2 DEF PageGood, Ids
<1> HIDE DEF base, s
<1>3. \A i \in 1 .. n : s[i] \in Conn /\ s[i] \in used /\ s[i] \in ToSet(s)
  <2>1. ToSet(s) \subseteq used
    BY DEF PageGood, s
  <2>2. \A x : x \in ToSet(s) <=> \E i \in 1 .. n : s[i] = x
    BY <1>0, SetOf
  <2> QED BY <1>0, <2>1, <2>2
<1> DEFINE Up(k) == {s[i] : i \in 1 .. k}
           P == {k \in Nat : k <= n => OpenedOne(base, g[k], used, v, Up(k))}
<1>4. 0 \in P
  <2>1. Up(0) = {}
    OBVIOUS
  <2>2. OpenedOne(base, base, used, v, {})
    BY <1>2, BaseOpened
  <2> QED BY <1>1, <2>1, <2>2
<1>5. ASSUME NEW k \in Nat, k \in P PROVE k + 1 \in P
  <2> SUFFICES ASSUME k + 1 <= n PROVE OpenedOne(base, g[k + 1], used, v, Up(k + 1))
    OBVIOUS
  <2>1. k + 1 \in 1 .. n /\ k <= n /\ (k + 1) - 1 = k
    BY <1>0
  <2>2. OpenedOne(base, g[k], used, v, Up(k))
    BY <1>5, <2>1
  <2>3. g[k + 1] = OpenInView(g[k], v, s[k + 1])
    BY <1>1, <2>1
  <2>4. Up(k + 1) = Up(k) \cup {s[k + 1]}
    <3>1. 1 .. (k + 1) = (1 .. k) \cup {k + 1}
      OBVIOUS
    <3> QED BY <3>1
  <2> HIDE DEF Up
  <2>5. PageGood(g[k], used)
    BY <2>2 DEF OpenedOne
  <2>6. s[k + 1] \in Conn /\ s[k + 1] \in used
    BY <1>3, <2>1
  <2>7. OpenedOne(g[k], OpenInView(g[k], v, s[k + 1]), used, v, {s[k + 1]})
    BY <2>5, <2>6, OpenedGood
  <2>8. OpenedOne(base, g[k + 1], used, v, Up(k) \cup {s[k + 1]})
    BY <2>2, <2>3, <2>7, OpenedTwice
  <2> QED BY <2>4, <2>8
<1>6. Nat \subseteq P
  <2> HIDE DEF P
  <2> QED BY <1>4, <1>5, NatInd
<1>7. OpenedOne(base, g[n], used, v, Up(n))
  <2> HIDE DEF Up
  <2> QED BY <1>0, <1>6
<1>8. Up(n) = ToSet(s)
  <2>1. \A x : x \in ToSet(s) <=> \E i \in 1 .. n : s[i] = x
    BY <1>0, SetOf
  <2> QED BY <2>1
<1> HIDE DEF Up
<1>9. OpenedOne(base, ClaimPendingOpens(p, v), used, v, ToSet(s))
  BY <1>1, <1>7, <1>8
<1> QED BY <1>9 DEF base, s

LEMMA NarrowedIs ==
  ASSUME NEW view \in ViewType, ViewGood(view), NEW keep
  PROVE  /\ Narrowed(view, keep) \in ViewType /\ ViewGood(Narrowed(view, keep))
         /\ ToSet(Narrowed(view, keep).ids) = ToSet(view.ids) \cap keep
<1> DEFINE rest == Among(view.ids, keep)
           w == Narrowed(view, keep)
<1>1. view.ids \in Seq(Conn) /\ view.active \in Conn \cup {NoConn} /\ NoConn \notin Conn
  BY PaneViewsAssumption DEF ViewType
<1>2. rest \in Seq(Conn) /\ ToSet(rest) = ToSet(view.ids) \cap keep /\ IsInjective(rest)
  BY <1>1, AmongIs DEF ViewGood
<1>3. /\ (rest = <<>> <=> ToSet(rest) = {}) /\ (rest # <<>> => Head(rest) \in ToSet(rest))
      /\ ToSet(rest) \subseteq Conn /\ ToSet(view.ids) \subseteq Conn /\ (view.ids = <<>> <=> ToSet(view.ids) = {})
  BY <1>1, <1>2, SetOf
<1>4. w.ids = rest /\ w.active = (IF view.active \in keep \cup {NoConn} THEN view.active ELSE FirstOf(rest))
      /\ w = [ids |-> w.ids, active |-> w.active]
  BY DEF Narrowed
<1> HIDE DEF rest, w
<1>5. FirstOf(rest) \in Conn \cup {NoConn} /\ (rest = <<>> => FirstOf(rest) = NoConn) /\ (rest # <<>> => FirstOf(rest) \in ToSet(rest))
  BY <1>3 DEF FirstOf
<1>6. w \in ViewType
  <2>1. w.active \in Conn \cup {NoConn}
    BY <1>1, <1>4, <1>5
  <2>2. w.ids \in Seq(Conn)
    BY <1>2, <1>4
  <2> QED BY <1>4, <2>1, <2>2 DEF ViewType
<1>7. ViewGood(w)
  <2>1. CASE rest = <<>>
    <3>1. w.active = NoConn
      BY <1>1, <1>2, <1>3, <1>4, <1>5, <2>1 DEF ViewGood
    <3> QED BY <1>2, <1>4, <2>1, <3>1 DEF ViewGood
  <2>2. CASE rest # <<>>
    <3>1. view.ids # <<>> /\ view.active \in ToSet(view.ids) /\ view.active # NoConn
      BY <1>1, <1>2, <1>3, <2>2 DEF ViewGood
    <3>2. w.active \in ToSet(rest)
      BY <1>2, <1>4, <1>5, <2>2, <3>1
    <3> QED BY <1>2, <1>4, <2>2, <3>2 DEF ViewGood
  <2> QED BY <2>1, <2>2
<1> QED BY <1>2, <1>4, <1>6, <1>7 DEF w

(* Views and references changed together, the rest of the page kept.       *)
Shown(p, q, used) ==
  /\ PageGood(q, used) /\ q.pending = p.pending /\ q.announced = p.announced /\ q.listed = p.listed

Made(p, q, vs, rs, ad) == q = [p EXCEPT !.views = vs, !.refs = rs, !.adopted = ad]
LEMMA PageOf ==
  ASSUME NEW used, NEW p, PageGood(p, used), NEW vs \in [View -> ViewType], NEW rs \in [Conn -> SUBSET View],
         NEW ad \in [View -> BOOLEAN], NEW q, Made(p, q, vs, rs, ad),
         \A v \in View : ViewGood(vs[v]) /\ ToSet(vs[v].ids) \subseteq used,
         \A v \in View, c \in Conn : v \in rs[c] <=> c \in ToSet(vs[v].ids)
  PROVE  Shown(p, q, used) /\ q.views = vs /\ q.refs = rs /\ q.adopted = ad
<1>1. p \in PageType
  BY DEF PageGood
<1>2. /\ q \in PageType /\ q.views = vs /\ q.refs = rs /\ q.adopted = ad
      /\ q.pending = p.pending /\ q.announced = p.announced /\ q.listed = p.listed
  BY <1>1 DEF PageType, Made
<1>3. PageGood(q, used)
  BY <1>2 DEF PageGood, Ids
<1> QED BY <1>2, <1>3 DEF Shown

LEMMA ReconciledIs ==
  ASSUME NEW used, NEW p, PageGood(p, used)
  PROVE  LET q == ReconcileViews(p)
         IN  /\ Shown(p, q, used) /\ q.adopted = p.adopted
             /\ \A v \in View : Ids(q, v) = Ids(p, v) \cap ToSet(p.listed)
<1> DEFINE listed == ToSet(p.listed)
           vs == [v \in View |-> Narrowed(p.views[v], listed)]
           rs == [c \in Conn |-> IF c \in listed THEN p.refs[c] ELSE p.refs[c] \ {v \in View : c \in Ids(p, v)}]
           q == [p EXCEPT !.views = vs, !.refs = rs, !.adopted = p.adopted]
<1>1. /\ p.views \in [View -> ViewType] /\ p.refs \in [Conn -> SUBSET View] /\ p.adopted \in [View -> BOOLEAN]
      /\ \A v \in View : ViewGood(p.views[v]) /\ Ids(p, v) \subseteq used
      /\ \A v \in View, c \in Conn : v \in p.refs[c] <=> c \in Ids(p, v)
  BY DEF PageGood, PageType
<1>2. ReconcileViews(p) = q
  <2>1. ReconcileViews(p) = [p EXCEPT !.views = vs, !.refs = rs]
    BY DEF ReconcileViews, PageGood, PageType
  <2>2. p \in PageType
    BY DEF PageGood
  <2> HIDE DEF vs, rs
  <2> QED BY <2>1, <2>2 DEF PageType
<1> HIDE DEF listed
<1>3. ASSUME NEW v \in View PROVE vs[v] \in ViewType /\ ViewGood(vs[v]) /\ ToSet(vs[v].ids) = Ids(p, v) \cap listed
  <2>1. vs[v] = Narrowed(p.views[v], listed)
    OBVIOUS
  <2> HIDE DEF vs
  <2>2. p.views[v] \in ViewType /\ ViewGood(p.views[v])
    BY <1>1
  <2> QED BY <2>1, <2>2, NarrowedIs DEF Ids
<1>4. vs \in [View -> ViewType] /\ rs \in [Conn -> SUBSET View]
  <2>1. \A v \in View : Narrowed(p.views[v], listed) \in ViewType
    BY <1>3
  <2> QED BY <1>1, <2>1
<1>5. ASSUME NEW v \in View, NEW c \in Conn PROVE v \in rs[c] <=> c \in ToSet(vs[v].ids)
  <2>1. v \in rs[c] <=> v \in p.refs[c] /\ (c \in listed \/ c \notin Ids(p, v))
    OBVIOUS
  <2> HIDE DEF rs, vs
  <2> QED BY <1>1, <1>3, <2>1
<1> HIDE DEF vs, rs
<1>6. Shown(p, q, used) /\ q.views = vs /\ q.adopted = p.adopted
  <2>1. \A v \in View : ViewGood(vs[v]) /\ ToSet(vs[v].ids) \subseteq used
    BY <1>1, <1>3
  <2>2. Made(p, q, vs, rs, p.adopted) /\ p.adopted \in [View -> BOOLEAN]
    BY <1>1 DEF Made
  <2>3. \A v \in View, c \in Conn : v \in rs[c] <=> c \in ToSet(vs[v].ids)
    BY <1>5
  <2> HIDE DEF q
  <2> QED BY <1>4, <2>1, <2>2, <2>3, PageOf
<1> HIDE DEF q
<1> QED BY <1>2, <1>3, <1>6 DEF Ids, listed

LEMMA OfferedIs ==
  ASSUME NEW used, NEW p, PageGood(p, used), NEW v \in View
  PROVE  LET q == OfferOnce(p, v)
         IN  /\ Shown(p, q, used)
             /\ \A w \in View : w # v => Ids(q, w) = Ids(p, w) /\ q.adopted[w] = p.adopted[w]
             /\ Ids(p, v) \subseteq Ids(q, v) /\ (p.adopted[v] => Ids(q, v) = Ids(p, v) /\ q.adopted[v])
             /\ (p.listed # <<>> => q.adopted[v])
<1> DEFINE q == OfferOnce(p, v)
           ad == [p.adopted EXCEPT ![v] = TRUE]
           p1 == [p EXCEPT !.adopted = ad]
<1>0. /\ p \in PageType /\ p.views \in [View -> ViewType] /\ p.refs \in [Conn -> SUBSET View] /\ p.adopted \in [View -> BOOLEAN]
      /\ p.listed \in Seq(Conn) /\ ToSet(p.listed) \subseteq used /\ IsInjective(p.listed)
      /\ \A w \in View : ViewGood(p.views[w]) /\ Ids(p, w) \subseteq used
      /\ \A w \in View, c \in Conn : w \in p.refs[c] <=> c \in Ids(p, w)
  BY DEF PageGood, PageType
<1>1. CASE p.adopted[v] \/ p.listed = <<>>
  <2>1. q = p
    BY <1>1 DEF OfferOnce
  <2> HIDE DEF q
  <2> QED BY <1>1, <2>1 DEF Shown, q
<1>2. CASE ~(p.adopted[v] \/ p.listed = <<>>)
  <2>1. ad \in [View -> BOOLEAN] /\ ad[v] = TRUE /\ \A w \in View : w # v => ad[w] = p.adopted[w]
    BY <1>0
  <2>2. /\ p1 \in PageType /\ p1.views = p.views /\ p1.refs = p.refs /\ p1.pending = p.pending /\ p1.adopted = ad
        /\ p1.announced = p.announced /\ p1.listed = p.listed
    <3> HIDE DEF ad
    <3> QED BY <1>0, <2>1 DEF PageType
  <2>3. q = AdoptIntoView(p1, v)
    BY <1>2 DEF OfferOnce
  <2> HIDE DEF ad, p1, q
  <2>4. CASE AnyViewShowsConnections(p1)
    <3>1. q = p1
      BY <2>3, <2>4 DEF AdoptIntoView
    <3>2. PageGood(p1, used)
      BY <2>2 DEF PageGood, Ids
    <3> QED BY <1>2, <2>1, <2>2, <3>1, <3>2 DEF Shown, Ids, q
  <2>5. CASE ~AnyViewShowsConnections(p1)
    <3> DEFINE vw == [ids |-> p.listed, active |-> FirstOf(p.listed)]
               vs == [p.views EXCEPT ![v] = vw]
               rs == [c \in Conn |-> IF c \in ToSet(p.listed) THEN p.refs[c] \cup {v} ELSE p.refs[c]]
    <3>1. q = [p EXCEPT !.views = vs, !.refs = rs, !.adopted = ad]
      <4>1. q = [p1 EXCEPT !.views = vs, !.refs = rs]
        BY <1>2, <2>2, <2>3, <2>5 DEF AdoptIntoView, PageType
      <4> HIDE DEF vs, rs
      <4>2. p1 = [p EXCEPT !.adopted = ad]
        BY DEF p1
      <4> QED BY <1>0, <4>1, <4>2 DEF PageType
    <3>2. \A w \in View : Ids(p, w) = {}
      BY <2>2, <2>5 DEF AnyViewShowsConnections, Ids
    <3>3. vw \in ViewType /\ ViewGood(vw) /\ vw.ids = p.listed
      <4>1. Head(p.listed) \in ToSet(p.listed) /\ ToSet(p.listed) \subseteq Conn
        BY <1>0, <1>2, SetOf
      <4>2. FirstOf(p.listed) = Head(p.listed)
        BY <1>2 DEF FirstOf
      <4> QED BY <1>0, <1>2, <4>1, <4>2 DEF ViewType, ViewGood
    <3> HIDE DEF vw
    <3>4. vs \in [View -> ViewType] /\ vs[v] = vw /\ \A w \in View : w # v => vs[w] = p.views[w]
      BY <1>0, <3>3
    <3>5. rs \in [Conn -> SUBSET View]
      BY <1>0
    <3>6. \A w \in View : ToSet(vs[w].ids) = IF w = v THEN ToSet(p.listed) ELSE {}
      BY <3>2, <3>3, <3>4 DEF Ids
    <3>7. ASSUME NEW w \in View, NEW c \in Conn PROVE w \in rs[c] <=> c \in ToSet(vs[w].ids)
      <4>1. w \notin p.refs[c]
        BY <1>0, <3>2
      <4> HIDE DEF vs
      <4> QED BY <3>6, <4>1
    <3> HIDE DEF vs, rs
    <3>8. \A w \in View : ViewGood(vs[w]) /\ ToSet(vs[w].ids) \subseteq used
      BY <1>0, <3>3, <3>4, <3>6
    <3>9. Made(p, q, vs, rs, ad) /\ \A w \in View, c \in Conn : w \in rs[c] <=> c \in ToSet(vs[w].ids)
      BY <3>1, <3>7 DEF Made
    <3>10. Shown(p, q, used) /\ q.views = vs /\ q.adopted = ad
      BY <2>1, <3>9, <3>4, <3>5, <3>8, PageOf
    <3> QED BY <1>2, <2>1, <3>2, <3>4, <3>10 DEF Ids, q
  <2> QED BY <2>4, <2>5
<1> QED BY <1>1, <1>2

LEMMA ClosedIs ==
  ASSUME NEW used, NEW p, PageGood(p, used), NEW v \in View, NEW c \in Conn
  PROVE  LET q == CloseInView(p, v, c)
         IN  /\ Shown(p, q, used) /\ q.adopted = p.adopted
             /\ (\A w \in View : w # v => Ids(q, w) = Ids(p, w)) /\ Ids(q, v) = Ids(p, v) \ {c}
<1> DEFINE q == CloseInView(p, v, c)
           keep == Conn \ {c}
           vw == Narrowed(p.views[v], keep)
           vs == [p.views EXCEPT ![v] = vw]
           rs == [p.refs EXCEPT ![c] = p.refs[c] \ {v}]
<1>1. /\ p.views \in [View -> ViewType] /\ p.refs \in [Conn -> SUBSET View] /\ p.adopted \in [View -> BOOLEAN]
      /\ p \in PageType /\ p.views[v] \in ViewType
      /\ \A w \in View : ViewGood(p.views[w]) /\ Ids(p, w) \subseteq used
      /\ \A w \in View, d \in Conn : w \in p.refs[d] <=> d \in Ids(p, w)
  BY DEF PageGood, PageType
<1>2. Made(p, q, vs, rs, p.adopted)
  <2>1. q = [p EXCEPT !.refs = rs, !.views = vs]
    BY <1>1 DEF CloseInView, RemoveReference, PageType
  <2> HIDE DEF q, vs, rs
  <2> QED BY <1>1, <2>1 DEF Made, PageType
<1> HIDE DEF q
<1>3. vw \in ViewType /\ ViewGood(vw) /\ ToSet(vw.ids) = Ids(p, v) \cap keep
  <2> HIDE DEF keep
  <2> QED BY <1>1, NarrowedIs DEF Ids
<1>4. Ids(p, v) \subseteq Conn
  BY <1>1, SetOf DEF Ids, ViewType
<1>5. ToSet(vw.ids) = Ids(p, v) \ {c}
  BY <1>3, <1>4
<1> HIDE DEF vw, keep
<1>6. vs \in [View -> ViewType] /\ vs[v] = vw /\ \A w \in View : w # v => vs[w] = p.views[w]
  BY <1>1, <1>3
<1>7. rs \in [Conn -> SUBSET View] /\ \A d \in Conn : rs[d] = IF d = c THEN p.refs[d] \ {v} ELSE p.refs[d]
  BY <1>1
<1> HIDE DEF vs, rs
<1>8. \A w \in View : ToSet(vs[w].ids) = IF w = v THEN Ids(p, v) \ {c} ELSE Ids(p, w)
  BY <1>5, <1>6 DEF Ids
<1>9. \A w \in View, d \in Conn : w \in rs[d] <=> d \in ToSet(vs[w].ids)
  <2>1. ASSUME NEW w \in View, NEW d \in Conn PROVE w \in rs[d] <=> d \in ToSet(vs[w].ids)
    <3>1. CASE d = c /\ w = v
      BY <1>7, <1>8, <3>1
    <3>2. CASE ~(d = c /\ w = v)
      BY <1>1, <1>7, <1>8, <3>2
    <3> QED BY <3>1, <3>2
  <2> QED BY <2>1
<1>10. \A w \in View : ViewGood(vs[w]) /\ ToSet(vs[w].ids) \subseteq used
  BY <1>1, <1>3, <1>6, <1>8
<1>11. Shown(p, q, used) /\ q.views = vs /\ q.adopted = p.adopted
  BY <1>1, <1>2, <1>6, <1>7, <1>9, <1>10, PageOf
<1> QED BY <1>8, <1>11 DEF Ids, q

LEMMA NoViewGood == NoView \in ViewType /\ ViewGood(NoView) /\ ToSet(NoView.ids) = {}
<1>1. <<>> \in Seq(Conn) /\ IsInjective(<<>>) /\ ToSet(<<>>) = {}
  BY EmptySeq DEF IsInjective, ToSet
<1> QED BY <1>1 DEF NoView, ViewType, ViewGood

LEMMA ForgotIs ==
  ASSUME NEW used, NEW p, PageGood(p, used), NEW v \in View
  PROVE  LET q == ForgetView(p, v)
         IN  /\ Shown(p, q, used) /\ q.adopted = p.adopted
             /\ (\A w \in View : w # v => Ids(q, w) = Ids(p, w)) /\ Ids(q, v) = {}
<1> DEFINE q == ForgetView(p, v)
           vs == [p.views EXCEPT ![v] = NoView]
           rs == [c \in Conn |-> IF c \in Ids(p, v) THEN p.refs[c] \ {v} ELSE p.refs[c]]
<1>1. /\ p.views \in [View -> ViewType] /\ p.refs \in [Conn -> SUBSET View] /\ p.adopted \in [View -> BOOLEAN]
      /\ p \in PageType /\ p.views[v] \in ViewType
      /\ \A w \in View : ViewGood(p.views[w]) /\ Ids(p, w) \subseteq used
      /\ \A w \in View, d \in Conn : w \in p.refs[d] <=> d \in Ids(p, w)
  BY DEF PageGood, PageType
<1>2. Made(p, q, vs, rs, p.adopted)
  <2>1. q = [p EXCEPT !.views = vs, !.refs = rs]
    BY <1>1 DEF ForgetView, PageType
  <2> HIDE DEF q, vs, rs
  <2> QED BY <1>1, <2>1 DEF Made, PageType
<1> HIDE DEF q
<1>6. vs \in [View -> ViewType] /\ vs[v] = NoView /\ \A w \in View : w # v => vs[w] = p.views[w]
  BY <1>1, NoViewGood
<1>7. rs \in [Conn -> SUBSET View] /\ \A d \in Conn : rs[d] = IF d \in Ids(p, v) THEN p.refs[d] \ {v} ELSE p.refs[d]
  BY <1>1
<1> HIDE DEF vs, rs
<1>8. \A w \in View : ToSet(vs[w].ids) = IF w = v THEN {} ELSE Ids(p, w)
  BY <1>6, NoViewGood DEF Ids
<1>9. \A w \in View, d \in Conn : w \in rs[d] <=> d \in ToSet(vs[w].ids)
  <2>1. ASSUME NEW w \in View, NEW d \in Conn PROVE w \in rs[d] <=> d \in ToSet(vs[w].ids)
    <3>1. CASE w = v
      BY <1>1, <1>7, <1>8, <3>1
    <3>2. CASE w # v
      BY <1>1, <1>7, <1>8, <3>2
    <3> QED BY <3>1, <3>2
  <2> QED BY <2>1
<1>10. \A w \in View : ViewGood(vs[w]) /\ ToSet(vs[w].ids) \subseteq used
  BY <1>1, <1>6, <1>8, NoViewGood
<1>11. Shown(p, q, used) /\ q.views = vs /\ q.adopted = p.adopted
  BY <1>1, <1>2, <1>6, <1>7, <1>9, <1>10, PageOf
<1> QED BY <1>8, <1>11 DEF Ids, q

-----------------------------------------------------------------------------
(* The effects of the panes S on the page.                                 *)
Effect(p, q, S, used) ==
  /\ PageGood(q, used) /\ q.listed = p.listed /\ q.announced = p.announced
  /\ q.pending = IF S = {} THEN p.pending ELSE <<>>
  /\ \A w \in View \ S : Ids(q, w) \subseteq Ids(p, w) /\ q.adopted[w] = p.adopted[w]
  /\ \A w \in View : Ids(p, w) \cap ToSet(p.listed) \subseteq Ids(q, w)
  /\ S # {} => \A c \in ToSet(p.pending) \cap ToSet(p.listed) : \E w \in S : c \in Ids(q, w)
  /\ \A w \in S : p.adopted[w] => Ids(q, w) \subseteq Ids(p, w) \cup ToSet(p.pending) /\ q.adopted[w]
  /\ \A w \in S : p.listed # <<>> => q.adopted[w]

LEMMA PaneEffect ==
  ASSUME NEW used, NEW p, PageGood(p, used), NEW v \in View
  PROVE  Effect(p, PaneEffects(p, v), {v}, used)
<1>1. PICK a : a = ReconcileViews(p)
  OBVIOUS
<1>2. PICK b : b = OfferOnce(a, v)
  OBVIOUS
<1>3. PICK b0 : b0 = [b EXCEPT !.pending = <<>>]
  OBVIOUS
<1>4. PICK q : q = ClaimPendingOpens(b, v)
  OBVIOUS
<1>5. q = PaneEffects(p, v)
  BY <1>1, <1>2, <1>4 DEF PaneEffects
<1>6. /\ Shown(p, a, used) /\ a.adopted = p.adopted
      /\ \A w \in View : Ids(a, w) = Ids(p, w) \cap ToSet(p.listed)
  BY <1>1, ReconciledIs
<1>7. /\ Shown(a, b, used)
      /\ \A w \in View : w # v => Ids(b, w) = Ids(a, w) /\ b.adopted[w] = a.adopted[w]
      /\ Ids(a, v) \subseteq Ids(b, v) /\ (a.adopted[v] => Ids(b, v) = Ids(a, v) /\ b.adopted[v])
      /\ (a.listed # <<>> => b.adopted[v])
  <2>1. PageGood(a, used)
    BY <1>6 DEF Shown
  <2> QED BY <1>2, <2>1, OfferedIs
<1>8. OpenedOne(b0, q, used, v, ToSet(b.pending))
  <2>1. PageGood(b, used)
    BY <1>7 DEF Shown
  <2> QED BY <1>3, <1>4, <2>1, ClaimedIs
<1>9. b0.listed = b.listed /\ b0.announced = b.announced /\ b0.adopted = b.adopted /\ b0.pending = <<>> /\ b0.views = b.views
  BY <1>3, <1>7 DEF Shown, PageGood, PageType
<1>10. \A w \in View : Ids(b0, w) = Ids(b, w)
  BY <1>9 DEF Ids
<1>11. /\ PageGood(q, used) /\ q.listed = p.listed /\ q.announced = p.announced /\ q.pending = <<>> /\ q.adopted = b.adopted
       /\ ToSet(b.pending) = ToSet(p.pending) /\ a.listed = p.listed
  BY <1>6, <1>7, <1>8, <1>9 DEF Shown, OpenedOne
<1>12. (\A w \in View : w # v => Ids(q, w) = Ids(b, w)) /\ Ids(q, v) = Ids(b, v) \cup ToSet(p.pending)
  BY <1>8, <1>10, <1>11 DEF OpenedOne
<1>13. \A w \in View \ {v} : Ids(q, w) \subseteq Ids(p, w) /\ q.adopted[w] = p.adopted[w]
  BY <1>6, <1>7, <1>11, <1>12
<1>14. \A w \in View : Ids(p, w) \cap ToSet(p.listed) \subseteq Ids(q, w)
  BY <1>6, <1>7, <1>12
<1>15. \A c \in ToSet(p.pending) \cap ToSet(p.listed) : \E w \in {v} : c \in Ids(q, w)
  BY <1>12
<1>16. p.adopted[v] => Ids(q, v) \subseteq Ids(p, v) \cup ToSet(p.pending) /\ q.adopted[v]
  BY <1>6, <1>7, <1>11, <1>12
<1>17. p.listed # <<>> => q.adopted[v]
  BY <1>7, <1>11
<1>18. Effect(p, q, {v}, used)
  BY <1>11, <1>13, <1>14, <1>15, <1>16, <1>17 DEF Effect
<1> QED BY <1>5, <1>18

LEMMA NoEffect ==
  ASSUME NEW used, NEW p, PageGood(p, used)
  PROVE  Effect(p, p, {}, used)
BY DEF Effect

LEMMA EffectTwice ==
  ASSUME NEW used, NEW p, NEW q, NEW r, NEW S \in SUBSET View, NEW v \in View,
         Effect(p, q, S, used), Effect(q, r, {v}, used)
  PROVE  Effect(p, r, S \cup {v}, used)
<1> DEFINE T == S \cup {v}
<1>1. PageGood(r, used) /\ r.listed = p.listed /\ r.announced = p.announced /\ r.pending = <<>>
  BY DEF Effect
<1>2. ToSet(q.pending) \subseteq ToSet(p.pending) /\ q.listed = p.listed
  <2>1. ToSet(<<>>) = {}
    BY NoViewGood DEF NoView
  <2> QED BY <2>1 DEF Effect
<1>3. \A w \in View \ T : Ids(r, w) \subseteq Ids(p, w) /\ r.adopted[w] = p.adopted[w]
  BY DEF Effect
<1>4. \A w \in View : Ids(p, w) \cap ToSet(p.listed) \subseteq Ids(r, w)
  BY <1>2 DEF Effect
<1>5. \A c \in ToSet(p.pending) \cap ToSet(p.listed) : \E w \in T : c \in Ids(r, w)
  <2>1. ASSUME NEW c \in ToSet(p.pending) \cap ToSet(p.listed) PROVE \E w \in T : c \in Ids(r, w)
    <3>1. CASE S = {}
      BY <1>2, <3>1 DEF Effect
    <3>2. CASE S # {}
      BY <1>2, <3>2 DEF Effect
    <3> QED BY <3>1, <3>2
  <2> QED BY <2>1
<1>6. \A w \in T : p.adopted[w] => Ids(r, w) \subseteq Ids(p, w) \cup ToSet(p.pending) /\ r.adopted[w]
  <2>1. ASSUME NEW w \in T, p.adopted[w]
        PROVE  Ids(r, w) \subseteq Ids(p, w) \cup ToSet(p.pending) /\ r.adopted[w]
    <3>1. Ids(q, w) \subseteq Ids(p, w) \cup ToSet(p.pending) /\ q.adopted[w] /\ w \in View
      <4>1. CASE w \in S
        BY <2>1, <4>1 DEF Effect
      <4>2. CASE w \notin S
        BY <2>1, <4>2 DEF Effect
      <4> QED BY <4>1, <4>2
    <3>2. CASE w = v
      BY <1>2, <3>1, <3>2 DEF Effect
    <3>3. CASE w # v
      BY <3>1, <3>3 DEF Effect
    <3> QED BY <3>2, <3>3
  <2> QED BY <2>1
<1>7. \A w \in T : p.listed # <<>> => r.adopted[w]
  BY <1>2 DEF Effect
<1>8. T # {}
  OBVIOUS
<1> QED BY <1>1, <1>3, <1>4, <1>5, <1>6, <1>7, <1>8 DEF Effect

(* The effects of the panes of a sequence, one after the other.            *)
InOrder(p, s) == FoldLeft(PaneEffects, p, s)
Pages(used) == {q \in PageType : PageGood(q, used)}

LEMMA EffectSteps ==
  ASSUME NEW used, NEW p, PageGood(p, used), NEW s \in Seq(View)
  PROVE  \E g : /\ g[0] = p /\ InOrder(p, s) = g[Len(s)]
                /\ \A k \in 1 .. Len(s) : g[k] = PaneEffects(g[k - 1], s[k])
<1> DEFINE base == p
           n == Len(s)
           Step(a, c) == PaneEffects(a, c)
           h == [x \in Pages(used) \X View |-> Step(x[1], x[2])]
           IsFold(f) == f = [t \in SUBSET (DOMAIN s) |-> IF t = {} THEN base ELSE LET x == Max(t) IN Step(f[t \ {x}], s[x])]
           f == CHOOSE f : IsFold(f)
<1>0. s \in Seq(View)
  OBVIOUS
<1>1. n \in Nat /\ DOMAIN s = 1 .. n /\ \A j \in 1 .. n : s[j] \in View
  BY <1>0
<1>2. h \in [Pages(used) \X View -> Pages(used)]
  <2>1. ASSUME NEW x \in Pages(used) \X View PROVE Step(x[1], x[2]) \in Pages(used)
    <3>1. x[1] \in Pages(used) /\ x[2] \in View
      OBVIOUS
    <3>2. PageGood(x[1], used)
      BY <3>1 DEF Pages
    <3>3. Effect(x[1], PaneEffects(x[1], x[2]), {x[2]}, used)
      BY <3>1, <3>2, PaneEffect
    <3>4. PageGood(PaneEffects(x[1], x[2]), used)
      BY <3>3 DEF Effect
    <3> QED BY <3>4 DEF Pages, PageGood
  <2> HIDE DEF Step
  <2> QED BY <2>1
<1>3. base \in Pages(used)
  BY DEF Pages, PageGood
<1>4. PICK it \in [SUBSET (1 .. n) -> Pages(used)] : FoldsBy(it, n, base, s, h)
  <2> HIDE DEF h, base
  <2> QED BY <1>0, <1>2, <1>3, FoldExists
<1>5. IsFold(it)
  <2> HIDE DEF Step
  <2>1. ASSUME NEW t \in SUBSET (1 .. n), t # {}
        PROVE  h[<<it[t \ {Max(t)}], s[Max(t)]>>] = Step(it[t \ {Max(t)}], s[Max(t)])
    <3>1. Max(t) \in t /\ t \ {Max(t)} \in SUBSET (1 .. n)
      BY <1>1, <2>1, MaxIs
    <3>2. it[t \ {Max(t)}] \in Pages(used) /\ s[Max(t)] \in View
      BY <1>1, <1>4, <3>1
    <3> QED BY <3>2
  <2>2. \A t \in SUBSET (1 .. n) : it[t] = IF t = {} THEN base ELSE Step(it[t \ {Max(t)}], s[Max(t)])
    BY <1>4, <2>1 DEF FoldsBy
  <2> HIDE DEF h, n
  <2> QED BY <1>1, <1>4, <2>2
<1>6. IsFold(f)
  <2> HIDE DEF IsFold
  <2> QED BY <1>5
<1>7. InOrder(p, s) = f[1 .. n]
  <2>1. InOrder(p, s) = f[DOMAIN s]
    BY DEF InOrder, FoldLeft, MapThenFoldSet
  <2> HIDE DEF f, n
  <2> QED BY <1>1, <2>1
<1> HIDE DEF f
<1>8. f[{}] = base /\ \A t \in SUBSET (1 .. n) : t # {} => f[t] = Step(f[t \ {Max(t)}], s[Max(t)])
  <2> HIDE DEF Step, n
  <2>1. {} \in SUBSET (1 .. n)
    OBVIOUS
  <2> QED BY <1>1, <1>6, <2>1
<1> DEFINE g == [k \in 0 .. n |-> f[1 .. k]]
<1>9. ASSUME NEW k \in 1 .. n PROVE g[k] = Step(g[k - 1], s[k])
  <2>1. k \in 0 .. n /\ k - 1 \in 0 .. n
    BY <1>1
  <2>2. f[1 .. k] = Step(f[1 .. (k - 1)], s[k])
    <3> HIDE DEF Step, n
    <3> QED BY <1>1, <1>8, TopOf
  <2> HIDE DEF Step, n
  <2> QED BY <2>1, <2>2
<1>10. g[0] = base /\ InOrder(p, s) = g[n]
  <2>1. 1 .. 0 = {} /\ 0 \in 0 .. n /\ n \in 0 .. n
    BY <1>1
  <2> HIDE DEF n
  <2> QED BY <1>7, <1>8, <2>1
<1> HIDE DEF g
<1> QED BY <1>9, <1>10

LEMMA InOrderIs ==
  ASSUME NEW used, NEW p, PageGood(p, used), NEW s \in Seq(View)
  PROVE  Effect(p, InOrder(p, s), ToSet(s), used)
<1> DEFINE n == Len(s)
<1>0. n \in Nat
  OBVIOUS
<1>1. PICK g : /\ g[0] = p /\ InOrder(p, s) = g[n]
               /\ \A k \in 1 .. n : g[k] = PaneEffects(g[k - 1], s[k])
  BY EffectSteps
<1>3. \A i \in 1 .. n : s[i] \in View
  OBVIOUS
<1> DEFINE Up(k) == {s[i] : i \in 1 .. k}
           P == {k \in Nat : k <= n => Effect(p, g[k], Up(k), used)}
<1>4. 0 \in P
  <2>1. Up(0) = {}
    OBVIOUS
  <2>2. Effect(p, p, {}, used)
    BY NoEffect
  <2> QED BY <1>1, <2>1, <2>2
<1>5. ASSUME NEW k \in Nat, k \in P PROVE k + 1 \in P
  <2> SUFFICES ASSUME k + 1 <= n PROVE Effect(p, g[k + 1], Up(k + 1), used)
    OBVIOUS
  <2>1. k + 1 \in 1 .. n /\ k <= n /\ (k + 1) - 1 = k
    BY <1>0
  <2>2. Effect(p, g[k], Up(k), used)
    BY <1>5, <2>1
  <2>3. g[k + 1] = PaneEffects(g[k], s[k + 1])
    BY <1>1, <2>1
  <2>4. Up(k + 1) = Up(k) \cup {s[k + 1]}
    <3>1. 1 .. (k + 1) = (1 .. k) \cup {k + 1}
      OBVIOUS
    <3> QED BY <3>1
  <2>5. Up(k) \in SUBSET View
    <3>1. \A i \in 1 .. k : i \in 1 .. n
      BY <1>0, <2>1
    <3> QED BY <1>3, <3>1
  <2> HIDE DEF Up
  <2>6. PageGood(g[k], used) /\ s[k + 1] \in View
    BY <1>3, <2>1, <2>2 DEF Effect
  <2>7. Effect(g[k], PaneEffects(g[k], s[k + 1]), {s[k + 1]}, used)
    BY <2>6, PaneEffect
  <2>8. Effect(p, g[k + 1], Up(k) \cup {s[k + 1]}, used)
    BY <2>2, <2>3, <2>5, <2>6, <2>7, EffectTwice
  <2> QED BY <2>4, <2>8
<1>6. Nat \subseteq P
  <2> HIDE DEF P
  <2> QED BY <1>4, <1>5, NatInd
<1>7. Effect(p, g[n], Up(n), used)
  <2> HIDE DEF Up
  <2> QED BY <1>0, <1>6
<1>8. Up(n) = ToSet(s)
  <2>1. \A x : x \in ToSet(s) <=> \E i \in 1 .. n : s[i] = x
    BY <1>0, SetOf
  <2> QED BY <2>1
<1> QED BY <1>1, <1>7, <1>8

(* A sequence of all the elements of a finite set, each once.              *)
LEMMA OrderOf ==
  ASSUME NEW S, IsFiniteSet(S), NEW s \in SetToSeqs(S)
  PROVE  s \in Seq(S) /\ ToSet(s) = S /\ IsInjective(s)
<1> DEFINE n == Cardinality(S)
<1>1. n \in Nat
  BY FS_CardinalityType
<1>2. s \in [1 .. n -> S] /\ \A i, j \in 1 .. n : i # j => s[i] # s[j]
  BY DEF SetToSeqs
<1>3. s \in Seq(S) /\ Len(s) = n /\ DOMAIN s = 1 .. n
  BY <1>1, <1>2
<1>4. IsInjective(s)
  BY <1>2, <1>3 DEF IsInjective
<1>5. s \in Injection(1 .. n, S)
  BY <1>2, <1>4 DEF Injection
<1>6. IsFiniteSet(1 .. n) /\ Cardinality(1 .. n) = n
  <2>1. 1 \in Int /\ n \in Int /\ (IF 1 > n THEN 0 ELSE (n - 1) + 1) = n
    BY <1>1
  <2>2. IsFiniteSet(1 .. n) /\ Cardinality(1 .. n) = IF 1 > n THEN 0 ELSE (n - 1) + 1
    BY <2>1, FS_Interval
  <2> QED BY <2>1, <2>2
<1>7. s \in Surjection(1 .. n, S)
  <2>1. Cardinality(1 .. n) = Cardinality(S) <=> s \in Surjection(1 .. n, S)
    <3> HIDE DEF n
    <3> QED BY <1>5, FS_Injection
  <2> QED BY <1>6, <2>1
<1>8. \A x \in S : \E i \in 1 .. n : s[i] = x
  BY <1>7 DEF Surjection
<1> QED BY <1>2, <1>3, <1>4, <1>8 DEF ToSet

LEMMA EffectsIs ==
  ASSUME NEW used, NEW p, PageGood(p, used), NEW S \in SUBSET View, NEW q \in Effects(p, S)
  PROVE  Effect(p, q, S, used)
<1>1. PICK s \in SetToSeqs(S) : q = InOrder(p, s)
  BY DEF Effects, InOrder
<1>2. IsFiniteSet(S)
  BY PaneViewsAssumption, FS_Subset
<1>3. s \in Seq(S) /\ ToSet(s) = S
  BY <1>2, OrderOf
<1>4. s \in Seq(View)
  <2>1. Len(s) \in Nat /\ s \in [1 .. Len(s) -> S]
    BY <1>3
  <2>2. s \in [1 .. Len(s) -> View]
    BY <2>1
  <2> QED BY <2>1, <2>2
<1> QED BY <1>1, <1>3, <1>4, InOrderIs

-----------------------------------------------------------------------------
(* The invariant: the page is good, dead tabs that show something leaked,  *)
(* a pane that is shown while there is a list was offered it.              *)
ListAnswer == [for : {"panel", "poll"}, list : Seq(Reveal)]
DialRec == [from : View \cup {Settings}, conn : Conn, asked : BOOLEAN, list : Seq(Conn)]
CloseRec == [view : View, conn : Conn]
ConnsOf(list) == [i \in DOMAIN list |-> list[i].conn]

HostGood ==
  /\ host \in [live : Seq(Conn), used : SUBSET Conn, reveal : [Conn -> Nat]]
  /\ IsInjective(host.live) /\ Live \subseteq host.used
CallsGood ==
  /\ calls \in [lists : SUBSET ListAnswer, dials : SUBSET DialRec, closes : SUBSET CloseRec]
  /\ \A a \in calls.lists :
       /\ IsInjective(ConnsOf(a.list)) /\ ToSet(ConnsOf(a.list)) \subseteq host.used
       /\ \A e \in ToSet(a.list) : e.reveal <= host.reveal[e.conn]
  /\ \A d \in calls.dials : d.conn \in host.used /\ IsInjective(d.list) /\ ToSet(d.list) \subseteq host.used
  /\ \A x \in calls.closes : x.conn \in host.used
PanesGood ==
  /\ dock \in [View -> {"absent", "shown", "hidden", "gone"}]
  /\ \A e \in page.announced : e.reveal <= host.reveal[e.conn]
  /\ \A v \in View : dock[v] = "shown" /\ page.listed # <<>> => page.adopted[v]
FateGood ==
  /\ fate \in [shut : SUBSET (View \X Conn), unseen : SUBSET Conn, leaked : SUBSET View]
  /\ \A v \in View : dock[v] = "gone" /\ Ids(page, v) # {} => v \in fate.leaked
  /\ \A x \in fate.shut : /\ x[2] \notin Ids(page, x[1])
                          /\ dock[x[1]] \in {"shown", "hidden"} /\ page.adopted[x[1]]
  /\ Live \subseteq Seen(page, dock) \cup OnTheWay \cup fate.unseen
ViewsInv == HostGood /\ PageGood(page, host.used) /\ CallsGood /\ PanesGood /\ FateGood

(* What becomes of connection c when the panes S take page p to page q.    *)
Carries(p, q, S, c) ==
  /\ \A w \in View : c \in Ids(p, w) => c \in Ids(q, w)
  /\ S # {} /\ c \in ToSet(p.pending) => \E w \in S : c \in Ids(q, w)

(* The page p on which effects run has all that the page before had.       *)
Prepared(p) ==
  /\ \A w \in View : Ids(p, w) = Ids(page, w)
  /\ ToSet(page.pending) \subseteq ToSet(p.pending)
  /\ \A e \in p.announced \ page.announced : e.conn \in ToSet(p.pending)

(* A step that runs effects of the panes S.                                *)
EffectStep(p, S, shut, why) ==
  /\ host' = host /\ calls'.closes = calls.closes
  /\ \A d \in calls.dials \ calls'.dials : d.conn \in ToSet(p.pending)
  /\ Prepared(p) /\ S \in SUBSET View /\ Effect(p, page', S, host.used)
  /\ dock' \in [View -> {"absent", "shown", "hidden", "gone"}]
  /\ \A w \in S : dock'[w] = "shown"
  /\ \A w \in View : dock[w] = "gone" <=> dock'[w] = "gone"
  /\ \A e \in p.announced : e.reveal <= host.reveal[e.conn]
  /\ \A w \in View \ S : dock'[w] = "shown" /\ p.listed # <<>> => p.adopted[w]
  /\ Fate(shut, why) /\ why \in SUBSET Conn /\ shut \in SUBSET fate.shut
  /\ \A x \in shut : x[2] \notin ToSet(p.pending) /\ p.adopted[x[1]] /\ dock'[x[1]] = dock[x[1]]
  /\ \A c \in Live \ why : Carries(p, page', S, c)

LEMMA FateIs ==
  ASSUME NEW shut, NEW why, FateGood, Fate(shut, why)
  PROVE  fate'.shut = shut /\ fate'.unseen = (fate.unseen \cup why) \ Seen(page', dock') /\ fate'.leaked = fate.leaked
         /\ fate' = [shut |-> fate'.shut, unseen |-> fate'.unseen, leaked |-> fate'.leaked]
BY DEF FateGood, Fate

LEMMA EffectKeeps ==
  ASSUME HostGood, FateGood, NEW p, NEW S, NEW shut, NEW why, EffectStep(p, S, shut, why)
  PROVE  HostGood' /\ PageGood(page', host'.used) /\ PanesGood' /\ FateGood'
<1>1. /\ host' = host /\ Effect(p, page', S, host.used) /\ S \in SUBSET View /\ Prepared(p)
      /\ why \in SUBSET Conn /\ shut \in SUBSET fate.shut
      /\ \A w \in S : dock'[w] = "shown"
      /\ \A w \in View : dock[w] = "gone" <=> dock'[w] = "gone"
  BY DEF EffectStep
<1>2. HostGood' /\ PageGood(page', host'.used)
  BY <1>1 DEF HostGood, Effect, Live
<1>3. PanesGood'
  <2>1. page'.announced = p.announced /\ page'.listed = p.listed
    BY <1>1 DEF Effect
  <2>2. \A e \in page'.announced : e.reveal <= host'.reveal[e.conn]
    BY <1>1, <2>1 DEF EffectStep
  <2>3. ASSUME NEW w \in View, dock'[w] = "shown", page'.listed # <<>> PROVE page'.adopted[w]
    <3>1. CASE w \in S
      BY <1>1, <2>1, <2>3, <3>1 DEF Effect
    <3>2. CASE w \notin S
      <4>1. p.adopted[w] /\ page'.adopted[w] = p.adopted[w]
        BY <1>1, <2>1, <2>3, <3>2 DEF Effect, EffectStep
      <4> QED BY <4>1
    <3> QED BY <3>1, <3>2
  <2>4. dock' \in [View -> {"absent", "shown", "hidden", "gone"}]
    BY DEF EffectStep
  <2> QED BY <2>2, <2>3, <2>4 DEF PanesGood
<1>4. /\ fate'.shut = shut /\ fate'.unseen = (fate.unseen \cup why) \ Seen(page', dock') /\ fate'.leaked = fate.leaked
      /\ fate' = [shut |-> fate'.shut, unseen |-> fate'.unseen, leaked |-> fate'.leaked]
  BY FateIs DEF EffectStep
<1>5. fate' \in [shut : SUBSET (View \X Conn), unseen : SUBSET Conn, leaked : SUBSET View]
  <2>1. fate \in [shut : SUBSET (View \X Conn), unseen : SUBSET Conn, leaked : SUBSET View]
    BY DEF FateGood
  <2>2. /\ fate'.shut \in SUBSET (View \X Conn) /\ fate'.unseen \in SUBSET Conn /\ fate'.leaked \in SUBSET View
    BY <1>1, <1>4, <2>1
  <2> QED BY <1>4, <2>2
<1>6. ASSUME NEW w \in View, dock'[w] = "gone", Ids(page', w) # {} PROVE w \in fate'.leaked
  <2>1. w \notin S /\ dock[w] = "gone"
    BY <1>1, <1>6
  <2>2. Ids(page', w) \subseteq Ids(page, w)
    BY <1>1, <2>1 DEF Effect, Prepared
  <2> QED BY <1>4, <1>6, <2>1, <2>2 DEF FateGood
<1>7. ASSUME NEW x \in fate'.shut
      PROVE  x[2] \notin Ids(page', x[1]) /\ dock'[x[1]] \in {"shown", "hidden"} /\ page'.adopted[x[1]]
  <2>1. x \in fate.shut /\ x \in View \X Conn /\ x[1] \in View
    BY <1>1, <1>4 DEF FateGood
  <2>2. x[2] \notin Ids(page, x[1]) /\ dock[x[1]] \in {"shown", "hidden"}
    BY <2>1 DEF FateGood
  <2>3. x[2] \notin ToSet(p.pending) /\ p.adopted[x[1]] /\ dock'[x[1]] = dock[x[1]]
    BY <1>4 DEF EffectStep
  <2>4. x[2] \notin Ids(p, x[1])
    BY <1>1, <2>1, <2>2 DEF Prepared
  <2>5. CASE x[1] \in S
    <3>1. Ids(page', x[1]) \subseteq Ids(p, x[1]) \cup ToSet(p.pending) /\ page'.adopted[x[1]]
      BY <1>1, <2>3, <2>5 DEF Effect
    <3> QED BY <2>2, <2>3, <2>4, <3>1
  <2>6. CASE x[1] \notin S
    <3>1. Ids(page', x[1]) \subseteq Ids(p, x[1]) /\ page'.adopted[x[1]] = p.adopted[x[1]]
      BY <1>1, <2>1, <2>6 DEF Effect
    <3> QED BY <2>2, <2>3, <2>4, <3>1
  <2> QED BY <2>5, <2>6
<1>8. ASSUME NEW c \in Live', c \notin fate'.unseen, c \notin Seen(page', dock') PROVE c \in OnTheWay'
  <2>1. c \in Live /\ c \notin fate.unseen /\ c \notin why /\ c \in Conn
    BY <1>1, <1>4, <1>8 DEF Live, HostGood
  <2>2. Carries(p, page', S, c)
    BY <2>1 DEF EffectStep
  <2>3. \A w \in View : c \in Ids(page', w) => dock'[w] = "gone"
    BY <1>8 DEF Seen
  <2>4. c \in OnTheWay
    <3>1. c \notin Seen(page, dock)
      BY <1>1, <2>2, <2>3 DEF Seen, Carries, Prepared
    <3> QED BY <2>1, <3>1 DEF FateGood
  <2>5. ASSUME c \in ToSet(p.pending) PROVE c \in OnTheWay'
    <3>1. S = {}
      <4> SUFFICES ASSUME S # {} PROVE FALSE
        OBVIOUS
      <4>1. PICK w \in S : c \in Ids(page', w)
        BY <2>2, <2>5 DEF Carries
      <4>2. dock'[w] = "gone" /\ dock'[w] = "shown"
        BY <1>1, <2>3, <4>1
      <4> QED BY <4>2
    <3>2. page'.pending = p.pending
      BY <1>1, <3>1 DEF Effect
    <3> QED BY <2>5, <3>2 DEF OnTheWay
  <2>6. CASE c \in ToSet(page.pending)
    BY <1>1, <2>5, <2>6 DEF Prepared
  <2>7. CASE \E d \in calls.dials : c = d.conn
    <3>1. PICK d \in calls.dials : c = d.conn
      BY <2>7
    <3>2. CASE d \in calls'.dials
      BY <3>1, <3>2 DEF OnTheWay
    <3>3. CASE d \notin calls'.dials
      BY <2>5, <3>1, <3>3 DEF EffectStep
    <3> QED BY <3>2, <3>3
  <2>8. CASE \E x \in calls.closes : c = x.conn
    <3>1. calls'.closes = calls.closes
      BY DEF EffectStep
    <3> QED BY <2>8, <3>1 DEF OnTheWay
  <2>9. CASE host.reveal[c] > 0 /\ [conn |-> c, reveal |-> host.reveal[c]] \notin page.announced
    <3> DEFINE e == [conn |-> c, reveal |-> host.reveal[c]]
    <3>1. page'.announced = p.announced
      BY <1>1 DEF Effect
    <3>2. CASE e \in p.announced
      <4>1. e.conn = c /\ e.conn \in ToSet(p.pending)
        BY <1>1, <2>9, <3>2 DEF Prepared
      <4> QED BY <2>5, <4>1
    <3>3. CASE e \notin p.announced
      BY <1>1, <2>1, <2>9, <3>1, <3>3 DEF OnTheWay
    <3> QED BY <3>2, <3>3
  <2> QED BY <2>4, <2>6, <2>7, <2>8, <2>9 DEF OnTheWay
<1>9. FateGood'
  BY <1>5, <1>6, <1>7, <1>8 DEF FateGood
<1> QED BY <1>2, <1>3, <1>9

LEMMA ListedAreCarried ==
  ASSUME NEW used, NEW p, NEW q, NEW S \in SUBSET View, Effect(p, q, S, used), NEW c, c \in ToSet(p.listed)
  PROVE  Carries(p, q, S, c)
BY DEF Effect, Carries

LEMMA ConnsAre ==
  ASSUME NEW list \in Seq(Reveal)
  PROVE  ConnsOf(list) \in Seq(Conn) /\ ToSet(ConnsOf(list)) = {e.conn : e \in ToSet(list)}
<1> DEFINE n == Len(list)
<1>1. n \in Nat /\ DOMAIN list = 1 .. n /\ \A i \in 1 .. n : list[i] \in Reveal /\ list[i].conn \in Conn
  <2>1. n \in Nat /\ DOMAIN list = 1 .. n /\ \A i \in 1 .. n : list[i] \in Reveal
    OBVIOUS
  <2> QED BY <2>1 DEF Reveal
<1>2. ConnsOf(list) \in [1 .. n -> Conn] /\ DOMAIN ConnsOf(list) = 1 .. n /\ \A i \in 1 .. n : ConnsOf(list)[i] = list[i].conn
  BY <1>1 DEF ConnsOf
<1>3. ConnsOf(list) \in Seq(Conn)
  BY <1>1, <1>2
<1> QED BY <1>1, <1>2, <1>3 DEF ToSet

(* The announcement of a list, on the page it finds.                       *)
LEMMA AnnouncedPage ==
  ASSUME HostGood, CallsGood, PanesGood, NEW p0, PageGood(p0, host.used), p0.views = page.views,
         p0.pending = page.pending, p0.announced = page.announced, p0.adopted = page.adopted,
         NEW a \in calls.lists
  PROVE  LET p == AnnounceAgentConnections(p0, a.list)
         IN  /\ PageGood(p, host.used) /\ Prepared(p) /\ p.adopted = page.adopted /\ p.listed = p0.listed
             /\ \A e \in p.announced : e.reveal <= host.reveal[e.conn]
<1>1. a.list \in Seq(Reveal)
  BY DEF CallsGood, ListAnswer
<1>2. /\ \A e \in ToSet(a.list) : e.conn \in host.used
      /\ \A e \in ToSet(a.list) : e.reveal <= host.reveal[e.conn]
  BY <1>1, ConnsAre DEF CallsGood
<1>3. PICK p : p = AnnounceAgentConnections(p0, a.list)
  OBVIOUS
<1>4. PageGood(p, host.used)
  BY <1>1, <1>2, <1>3, AnnouncedGood
<1>5. Announced(p0, p, ToSet(a.list))
  BY <1>1, <1>3, AnnouncedIs DEF PageGood
<1>6. Prepared(p)
  BY <1>5 DEF Prepared, Announced, Ids
<1>7. \A e \in p.announced : e.reveal <= host.reveal[e.conn]
  BY <1>2, <1>5 DEF Announced, PanesGood
<1> QED BY <1>3, <1>4, <1>5, <1>6, <1>7 DEF Announced

(* A list or a dial less; nothing else changes of what is under way.       *)
LEMMA AnswerTaken ==
  ASSUME CallsGood, host' = host, NEW L, NEW D, NEW X, calls' = [lists |-> L, dials |-> D, closes |-> X],
         L \subseteq calls.lists, D \subseteq calls.dials, X \subseteq calls.closes
  PROVE  CallsGood'
BY DEF CallsGood

LEMMA CallsAre ==
  ASSUME CallsGood
  PROVE  calls = [lists |-> calls.lists, dials |-> calls.dials, closes |-> calls.closes]
BY DEF CallsGood

LEMMA RefreshKeeps ==
  ASSUME ViewsInv, NEW a, RefreshConnections(a)
  PROVE  ViewsInv'
<1> DEFINE p0 == [page EXCEPT !.listed = [i \in DOMAIN a.list |-> a.list[i].conn]]
           p == AnnounceAgentConnections(p0, a.list)
<1>1. /\ a \in calls.lists /\ host' = host /\ dock' = dock
      /\ page' \in Effects(p, Mounted) /\ calls' = [calls EXCEPT !.lists = calls.lists \ {a}]
      /\ Fate(StillShut(p), Overtaken(p))
  BY DEF RefreshConnections
<1>2. HostGood /\ PageGood(page, host.used) /\ CallsGood /\ PanesGood /\ FateGood
  BY DEF ViewsInv
<1>3. ConnsOf(a.list) \in Seq(Conn) /\ IsInjective(ConnsOf(a.list)) /\ ToSet(ConnsOf(a.list)) \subseteq host.used
  BY <1>1, <1>2, ConnsAre DEF CallsGood, ListAnswer
<1>4. /\ PageGood(p0, host.used) /\ p0.views = page.views /\ p0.pending = page.pending /\ p0.announced = page.announced
      /\ p0.adopted = page.adopted /\ p0.listed = ConnsOf(a.list)
  <2>1. p0 = [page EXCEPT !.listed = ConnsOf(a.list)]
    BY DEF ConnsOf
  <2> HIDE DEF p0
  <2>2. page \in PageType
    BY <1>2 DEF PageGood
  <2>3. /\ p0 \in PageType /\ p0.views = page.views /\ p0.pending = page.pending /\ p0.announced = page.announced
        /\ p0.adopted = page.adopted /\ p0.listed = ConnsOf(a.list) /\ p0.refs = page.refs
    BY <1>3, <2>1, <2>2 DEF PageType
  <2>4. PageGood(p0, host.used)
    BY <1>2, <1>3, <2>3 DEF PageGood, Ids
  <2> QED BY <2>3, <2>4
<1> HIDE DEF p0
<1>5. /\ PageGood(p, host.used) /\ Prepared(p) /\ p.adopted = page.adopted
      /\ \A e \in p.announced : e.reveal <= host.reveal[e.conn]
  BY <1>1, <1>2, <1>4, AnnouncedPage
<1> HIDE DEF p
<1>6. Mounted \in SUBSET View
  BY DEF Mounted
<1>7. Effect(p, page', Mounted, host.used)
  BY <1>1, <1>5, <1>6, EffectsIs
<1>8. calls' = [lists |-> calls.lists \ {a}, dials |-> calls.dials, closes |-> calls.closes]
  BY <1>1, <1>2 DEF CallsGood
<1>9. \A c \in Live \ Overtaken(p) : Carries(p, page', Mounted, c)
  BY <1>6, <1>7, ListedAreCarried DEF Overtaken
<1>10. Overtaken(p) \in SUBSET Conn
  BY <1>2 DEF Overtaken, Live, HostGood
<1>11. \A x \in StillShut(p) : x \in fate.shut /\ x[2] \notin ToSet(p.pending) /\ p.adopted[x[1]]
  BY <1>2, <1>5 DEF StillShut, FateGood
<1>12. EffectStep(p, Mounted, StillShut(p), Overtaken(p))
  <2>1. dock' \in [View -> {"absent", "shown", "hidden", "gone"}] /\ \A w \in View \ Mounted : dock'[w] # "shown"
    BY <1>1, <1>2 DEF PanesGood, Mounted
  <2>2. \A w \in Mounted : dock'[w] = "shown"
    BY <1>1 DEF Mounted
  <2>3. calls'.dials = calls.dials /\ calls'.closes = calls.closes
    BY <1>8
  <2> QED BY <1>1, <1>5, <1>6, <1>7, <1>9, <1>10, <1>11, <2>1, <2>2, <2>3 DEF EffectStep
<1>13. CallsGood'
  BY <1>1, <1>2, <1>8, AnswerTaken
<1> QED BY <1>2, <1>12, <1>13, EffectKeeps DEF ViewsInv

LEMMA QueueKeeps ==
  ASSUME ViewsInv, NEW d, QueueForPane(d)
  PROVE  ViewsInv'
<1> DEFINE p == RequestPaneOpen([page EXCEPT !.listed = d.list], d.conn)
<1>1. /\ d \in calls.dials /\ host' = host /\ dock' = dock
      /\ page' \in Effects(p, Mounted) /\ calls' = [calls EXCEPT !.dials = calls.dials \ {d}]
      /\ Fate(StillShut(p), Overtaken(p))
  BY DEF QueueForPane
<1>2. HostGood /\ PageGood(page, host.used) /\ CallsGood /\ PanesGood /\ FateGood
  BY DEF ViewsInv
<1>3. d.list \in Seq(Conn) /\ IsInjective(d.list) /\ ToSet(d.list) \subseteq host.used /\ d.conn \in Conn /\ d.conn \in host.used
  BY <1>1, <1>2 DEF CallsGood, DialRec
<1>4. /\ PageGood(p, host.used) /\ p.views = page.views /\ ToSet(p.pending) = ToSet(page.pending) \cup {d.conn}
      /\ p.announced = page.announced /\ p.adopted = page.adopted
  <2> DEFINE q == Append(page.pending, d.conn)
  <2>1. page \in PageType /\ page.pending \in Seq(Conn)
    BY <1>2 DEF PageGood, PageType
  <2>2. q \in Seq(Conn) /\ ToSet(q) = ToSet(page.pending) \cup {d.conn}
    BY <1>3, <2>1, AppendSet
  <2>3. p = [page EXCEPT !.listed = d.list, !.pending = q]
    BY <2>1 DEF RequestPaneOpen, PageType
  <2> HIDE DEF p, q
  <2>4. /\ p \in PageType /\ p.views = page.views /\ p.pending = q /\ p.announced = page.announced
        /\ p.adopted = page.adopted /\ p.listed = d.list /\ p.refs = page.refs
    BY <1>3, <2>1, <2>2, <2>3 DEF PageType
  <2>5. PageGood(p, host.used)
    BY <1>2, <1>3, <2>2, <2>4 DEF PageGood, Ids
  <2> QED BY <2>2, <2>4, <2>5
<1> HIDE DEF p
<1>5. Prepared(p) /\ \A e \in p.announced : e.reveal <= host.reveal[e.conn]
  BY <1>2, <1>4 DEF Prepared, Ids, PanesGood
<1>6. Mounted \in SUBSET View
  BY DEF Mounted
<1>7. Effect(p, page', Mounted, host.used)
  BY <1>1, <1>4, <1>6, EffectsIs
<1>8. calls' = [lists |-> calls.lists, dials |-> calls.dials \ {d}, closes |-> calls.closes]
  BY <1>1, <1>2 DEF CallsGood
<1>9. \A c \in Live \ Overtaken(p) : Carries(p, page', Mounted, c)
  BY <1>6, <1>7, ListedAreCarried DEF Overtaken
<1>10. Overtaken(p) \in SUBSET Conn
  BY <1>2 DEF Overtaken, Live, HostGood
<1>11. \A x \in StillShut(p) : x \in fate.shut /\ x[2] \notin ToSet(p.pending) /\ p.adopted[x[1]]
  BY <1>2, <1>4 DEF StillShut, FateGood
<1>12. EffectStep(p, Mounted, StillShut(p), Overtaken(p))
  <2>1. dock' \in [View -> {"absent", "shown", "hidden", "gone"}] /\ \A w \in View \ Mounted : dock'[w] # "shown"
    BY <1>1, <1>2 DEF PanesGood, Mounted
  <2>2. \A w \in Mounted : dock'[w] = "shown"
    BY <1>1 DEF Mounted
  <2>3. calls'.closes = calls.closes /\ \A x \in calls.dials \ calls'.dials : x.conn \in ToSet(p.pending)
    BY <1>4, <1>8
  <2> QED BY <1>1, <1>5, <1>6, <1>7, <1>9, <1>10, <1>11, <2>1, <2>2, <2>3 DEF EffectStep
<1>13. CallsGood'
  BY <1>1, <1>2, <1>8, AnswerTaken
<1> QED BY <1>2, <1>12, <1>13, EffectKeeps DEF ViewsInv

LEMMA ClaimEffect ==
  ASSUME NEW used, NEW p, PageGood(p, used), NEW u \in View, p.listed # <<>> => p.adopted[u]
  PROVE  LET q == ClaimPendingOpens(p, u)
         IN  Effect(p, q, {u}, used) /\ \A c : Carries(p, q, {u}, c)
<1>1. PICK q : q = ClaimPendingOpens(p, u)
  OBVIOUS
<1>2. PICK b : b = [p EXCEPT !.pending = <<>>]
  OBVIOUS
<1>3. OpenedOne(b, q, used, u, ToSet(p.pending))
  BY <1>1, <1>2, ClaimedIs
<1>4. b.listed = p.listed /\ b.announced = p.announced /\ b.adopted = p.adopted /\ b.pending = <<>> /\ b.views = p.views
  BY <1>2 DEF PageGood, PageType
<1>5. \A w \in View : Ids(b, w) = Ids(p, w)
  BY <1>4 DEF Ids
<1>6. /\ PageGood(q, used) /\ q.listed = p.listed /\ q.announced = p.announced /\ q.pending = <<>> /\ q.adopted = p.adopted
      /\ (\A w \in View : w # u => Ids(q, w) = Ids(p, w)) /\ Ids(q, u) = Ids(p, u) \cup ToSet(p.pending)
  BY <1>3, <1>4, <1>5 DEF OpenedOne
<1>7. \A c : Carries(p, q, {u}, c)
  BY <1>6 DEF Carries
<1>8. Effect(p, q, {u}, used)
  BY <1>6 DEF Effect
<1> QED BY <1>1, <1>7, <1>8

LEMMA PollKeeps ==
  ASSUME ViewsInv, NEW a, PollAnnounces(a)
  PROVE  ViewsInv'
<1> DEFINE p == AnnounceAgentConnections(page, a.list)
<1>1. /\ a \in calls.lists /\ host' = host /\ dock' = dock
      /\ page' \in Claims(p, Mounted) /\ calls' = [calls EXCEPT !.lists = calls.lists \ {a}]
      /\ Fate(StillShut(p), {})
  BY DEF PollAnnounces
<1>2. HostGood /\ PageGood(page, host.used) /\ CallsGood /\ PanesGood /\ FateGood
  BY DEF ViewsInv
<1>5. /\ PageGood(p, host.used) /\ Prepared(p) /\ p.adopted = page.adopted /\ p.listed = page.listed
      /\ \A e \in p.announced : e.reveal <= host.reveal[e.conn]
  BY <1>1, <1>2, AnnouncedPage
<1> HIDE DEF p
<1>6. \A w \in View : dock[w] = "shown" /\ p.listed # <<>> => p.adopted[w]
  BY <1>2, <1>5 DEF PanesGood
<1>7. PICK S \in SUBSET Mounted : Effect(p, page', S, host.used) /\ \A c : Carries(p, page', S, c)
  <2>1. CASE Mounted = {}
    <3>1. page' = p
      BY <1>1, <2>1 DEF Claims
    <3>2. Effect(p, p, {}, host.used)
      BY <1>5, NoEffect
    <3>3. \A c : Carries(p, p, {}, c)
      BY DEF Carries
    <3>4. {} \in SUBSET Mounted
      OBVIOUS
    <3> QED BY <3>1, <3>2, <3>3, <3>4
  <2>2. CASE Mounted # {}
    <3>1. PICK u \in Mounted : page' = ClaimPendingOpens(p, u)
      BY <1>1, <2>2 DEF Claims
    <3>2. u \in View /\ (p.listed # <<>> => p.adopted[u]) /\ {u} \in SUBSET Mounted
      BY <1>6, <3>1 DEF Mounted
    <3>3. Effect(p, page', {u}, host.used) /\ \A c : Carries(p, page', {u}, c)
      BY <1>5, <3>1, <3>2, ClaimEffect
    <3> QED BY <3>2, <3>3
  <2> QED BY <2>1, <2>2
<1>8. calls' = [lists |-> calls.lists \ {a}, dials |-> calls.dials, closes |-> calls.closes]
  BY <1>1, <1>2 DEF CallsGood
<1>11. \A x \in StillShut(p) : x \in fate.shut /\ x[2] \notin ToSet(p.pending) /\ p.adopted[x[1]]
  BY <1>2, <1>5 DEF StillShut, FateGood
<1>12. EffectStep(p, S, StillShut(p), {})
  <2>1. dock' \in [View -> {"absent", "shown", "hidden", "gone"}]
    BY <1>1, <1>2 DEF PanesGood
  <2>2. S \in SUBSET View /\ \A w \in S : dock'[w] = "shown"
    BY <1>1 DEF Mounted
  <2>3. calls'.dials = calls.dials /\ calls'.closes = calls.closes
    BY <1>8
  <2> QED BY <1>1, <1>5, <1>6, <1>7, <1>11, <2>1, <2>2, <2>3 DEF EffectStep
<1>13. CallsGood'
  BY <1>1, <1>2, <1>8, AnswerTaken
<1> QED BY <1>2, <1>12, <1>13, EffectKeeps DEF ViewsInv

LEMMA ShowTabKeeps ==
  ASSUME ViewsInv, NEW v \in View, ShowTab(v)
  PROVE  ViewsInv'
<1> DEFINE p == [page EXCEPT !.adopted[v] = FALSE]
           shut == {x \in StillShut(page) : x[1] # v}
<1>1. /\ dock[v] \in {"absent", "hidden"} /\ host' = host /\ calls' = calls
      /\ dock' = [dock EXCEPT ![v] = "shown"] /\ page' = PaneEffects(p, v)
      /\ Fate(shut, Overtaken(page))
  BY DEF ShowTab
<1>2. HostGood /\ PageGood(page, host.used) /\ CallsGood /\ PanesGood /\ FateGood
  BY DEF ViewsInv
<1>3. /\ PageGood(p, host.used) /\ p.views = page.views /\ p.pending = page.pending /\ p.listed = page.listed
      /\ p.announced = page.announced /\ \A w \in View : w # v => p.adopted[w] = page.adopted[w]
  <2> DEFINE ad == [page.adopted EXCEPT ![v] = FALSE]
  <2>1. page \in PageType /\ page.adopted \in [View -> BOOLEAN]
    BY <1>2 DEF PageGood, PageType
  <2>2. ad \in [View -> BOOLEAN] /\ \A w \in View : w # v => ad[w] = page.adopted[w]
    BY <2>1
  <2>3. p = [page EXCEPT !.adopted = ad]
    BY <2>1
  <2> HIDE DEF p, ad
  <2>4. /\ p \in PageType /\ p.views = page.views /\ p.pending = page.pending /\ p.announced = page.announced
        /\ p.adopted = ad /\ p.listed = page.listed /\ p.refs = page.refs
    BY <2>1, <2>2, <2>3 DEF PageType
  <2>5. PageGood(p, host.used)
    BY <1>2, <2>4 DEF PageGood, Ids
  <2> QED BY <2>2, <2>4, <2>5
<1> HIDE DEF p
<1>5. Prepared(p) /\ \A e \in p.announced : e.reveal <= host.reveal[e.conn]
  BY <1>2, <1>3 DEF Prepared, Ids, PanesGood
<1>7. Effect(p, page', {v}, host.used)
  BY <1>1, <1>3, PaneEffect
<1>9. \A c \in Live \ Overtaken(page) : Carries(p, page', {v}, c)
  <2>1. {v} \in SUBSET View
    OBVIOUS
  <2> QED BY <1>3, <1>7, <2>1, ListedAreCarried DEF Overtaken
<1>10. Overtaken(page) \in SUBSET Conn
  BY <1>2 DEF Overtaken, Live, HostGood
<1>4. /\ dock' \in [View -> {"absent", "shown", "hidden", "gone"}] /\ dock'[v] = "shown"
      /\ \A w \in View : w # v => dock'[w] = dock[w]
  BY <1>1, <1>2 DEF PanesGood
<1>11. \A x \in shut : /\ x \in fate.shut /\ x[2] \notin ToSet(p.pending) /\ p.adopted[x[1]]
                       /\ dock'[x[1]] = dock[x[1]]
  <2>1. ASSUME NEW x \in shut
        PROVE  /\ x \in fate.shut /\ x[2] \notin ToSet(p.pending) /\ p.adopted[x[1]] /\ dock'[x[1]] = dock[x[1]]
    <3>1. x \in fate.shut /\ x[2] \notin ToSet(page.pending) /\ x[1] # v
      BY DEF StillShut
    <3>2. page.adopted[x[1]] /\ x[1] \in View
      BY <1>2, <3>1 DEF FateGood
    <3> QED BY <1>3, <1>4, <3>1, <3>2
  <2> QED BY <2>1
<1> HIDE DEF shut
<1>12. EffectStep(p, {v}, shut, Overtaken(page))
  <2>1. \A w \in View : dock[w] = "gone" <=> dock'[w] = "gone"
    <3>1. dock[v] # "gone"
      BY <1>1
    <3> QED BY <1>4, <3>1
  <2>2. \A w \in View \ {v} : dock'[w] = "shown" /\ p.listed # <<>> => p.adopted[w]
    BY <1>2, <1>3, <1>4 DEF PanesGood
  <2>3. {v} \in SUBSET View /\ shut \in SUBSET fate.shut
    BY <1>11
  <2> QED BY <1>1, <1>4, <1>5, <1>7, <1>9, <1>10, <1>11, <2>1, <2>2, <2>3 DEF EffectStep
<1>13. CallsGood'
  BY <1>1, <1>2 DEF CallsGood
<1> QED BY <1>2, <1>12, <1>13, EffectKeeps DEF ViewsInv

(* The host grows: what was asked before stays true of it.                 *)
HostGrows ==
  /\ host.used \subseteq host'.used /\ \A c \in Conn : host.reveal[c] <= host'.reveal[c]
  /\ host'.reveal \in [Conn -> Nat]

LEMMA CallsGrow ==
  ASSUME HostGood, CallsGood, HostGrows
  PROVE  /\ \A a \in calls.lists : /\ IsInjective(ConnsOf(a.list)) /\ ToSet(ConnsOf(a.list)) \subseteq host'.used
                                   /\ \A e \in ToSet(a.list) : e.reveal <= host'.reveal[e.conn]
         /\ \A d \in calls.dials : d.conn \in host'.used /\ IsInjective(d.list) /\ ToSet(d.list) \subseteq host'.used
         /\ \A x \in calls.closes : x.conn \in host'.used
<1>1. ASSUME NEW a \in calls.lists, NEW e \in ToSet(a.list) PROVE e.reveal <= host'.reveal[e.conn]
  <2>1. a.list \in Seq(Reveal)
    BY DEF CallsGood, ListAnswer
  <2>2. e \in Reveal
    BY <2>1, SetOf
  <2>3. /\ e.reveal \in Nat /\ e.conn \in Conn /\ e.reveal <= host.reveal[e.conn]
        /\ host.reveal[e.conn] \in Nat /\ host'.reveal[e.conn] \in Nat /\ host.reveal[e.conn] <= host'.reveal[e.conn]
    BY <2>2 DEF Reveal, CallsGood, HostGood, HostGrows
  <2> QED BY <2>3
<1> QED BY <1>1 DEF CallsGood, HostGrows

LEMMA PageGrows ==
  ASSUME HostGood, PanesGood, PageGood(page, host.used), HostGrows
  PROVE  PageGood(page, host'.used) /\ \A e \in page.announced : e.reveal <= host'.reveal[e.conn]
<1>1. ASSUME NEW e \in page.announced PROVE e.reveal <= host'.reveal[e.conn]
  <2>1. e \in Reveal
    BY DEF PageGood, PageType
  <2>3. /\ e.reveal \in Nat /\ e.conn \in Conn /\ e.reveal <= host.reveal[e.conn]
        /\ host.reveal[e.conn] \in Nat /\ host'.reveal[e.conn] \in Nat /\ host.reveal[e.conn] <= host'.reveal[e.conn]
    BY <2>1 DEF Reveal, PanesGood, HostGood, HostGrows
  <2> QED BY <2>3
<1>2. PageGood(page, host'.used)
  BY DEF PageGood, HostGrows
<1> QED BY <1>1, <1>2

(* A connection opened or found: the list of the host has it.              *)
LEMMA LiveWith ==
  ASSUME HostGood, NEW c \in Conn, c \in Live \/ c \notin host.used
  PROVE  LET L == IF c \in Live THEN host.live ELSE Append(host.live, c)
         IN  L \in Seq(Conn) /\ IsInjective(L) /\ ToSet(L) = Live \cup {c}
<1>1. host.live \in Seq(Conn) /\ IsInjective(host.live) /\ Live \subseteq host.used
  BY DEF HostGood
<1>2. CASE c \in Live
  BY <1>1, <1>2 DEF Live
<1>3. CASE c \notin Live
  BY <1>1, <1>3, AppendSet DEF Live
<1> QED BY <1>2, <1>3

LEMMA AgentConnectsKeeps ==
  ASSUME ViewsInv, NEW c \in Conn, AgentConnects(c)
  PROVE  ViewsInv'
<1> DEFINE L == IF c \in Live THEN host.live ELSE Append(host.live, c)
           rv == [host.reveal EXCEPT ![c] = host.reveal[c] + 1]
           us == host.used \cup {c}
<1>1. /\ c \in Live \/ c \notin host.used
      /\ page' = page /\ dock' = dock /\ calls' = calls /\ fate' = fate
      /\ host' = [host EXCEPT !.live = L, !.used = us, !.reveal[c] = host.reveal[c] + 1]
  BY DEF AgentConnects
<1>2. HostGood /\ PageGood(page, host.used) /\ CallsGood /\ PanesGood /\ FateGood
  BY DEF ViewsInv
<1>3. L \in Seq(Conn) /\ IsInjective(L) /\ ToSet(L) = Live \cup {c}
  BY <1>1, <1>2, LiveWith
<1>4. /\ host.reveal \in [Conn -> Nat] /\ host.used \in SUBSET Conn /\ Live \subseteq host.used
      /\ host \in [live : Seq(Conn), used : SUBSET Conn, reveal : [Conn -> Nat]]
  BY <1>2 DEF HostGood
<1> HIDE DEF L
<1>5. rv \in [Conn -> Nat] /\ us \in SUBSET Conn /\ rv[c] = host.reveal[c] + 1 /\ \A x \in Conn : x # c => rv[x] = host.reveal[x]
  BY <1>4
<1>6. host' = [host EXCEPT !.live = L, !.used = us, !.reveal = rv]
  BY <1>1, <1>4
<1>7. us = host.used \cup {c}
  OBVIOUS
<1> HIDE DEF rv, us
<1>8. /\ host' \in [live : Seq(Conn), used : SUBSET Conn, reveal : [Conn -> Nat]]
      /\ host'.live = L /\ host'.used = us /\ host'.reveal = rv
  BY <1>3, <1>4, <1>5, <1>6
<1>9. HostGood'
  BY <1>3, <1>4, <1>7, <1>8 DEF HostGood, Live
<1>10. host.reveal[c] \in Nat /\ rv[c] > 0 /\ ~(rv[c] <= host.reveal[c]) /\ host.reveal[c] <= rv[c]
  <2>1. host.reveal[c] \in Nat
    BY <1>4
  <2> QED BY <1>5, <2>1
<1>11. HostGrows
  <2>1. ASSUME NEW x \in Conn PROVE host.reveal[x] <= rv[x]
    <3>1. host.reveal[x] \in Nat
      BY <1>4
    <3> QED BY <1>5, <1>10, <3>1
  <2> QED BY <1>5, <1>7, <1>8, <2>1 DEF HostGrows
<1>12. CallsGood'
  BY <1>1, <1>2, <1>11, CallsGrow DEF CallsGood
<1>13. PageGood(page', host'.used) /\ PanesGood'
  BY <1>1, <1>2, <1>11, PageGrows DEF PanesGood
<1>14. ASSUME NEW x \in Live' PROVE x \in Seen(page', dock') \cup OnTheWay' \cup fate'.unseen
  <2>1. CASE x = c
    <3>1. [conn |-> c, reveal |-> rv[c]] \notin page.announced
      <4> SUFFICES ASSUME [conn |-> c, reveal |-> rv[c]] \in page.announced PROVE FALSE
        OBVIOUS
      <4>1. rv[c] <= host.reveal[c]
        BY <1>2 DEF PanesGood
      <4> QED BY <1>10, <4>1
    <3> QED BY <1>1, <1>8, <1>10, <2>1, <3>1 DEF OnTheWay
  <2>2. CASE x # c
    <3>1. x \in Live /\ x \in Conn
      BY <1>3, <1>4, <1>8, <2>2 DEF Live
    <3>2. host'.reveal[x] = host.reveal[x]
      BY <1>5, <1>8, <2>2, <3>1
    <3>3. x \in OnTheWay => x \in OnTheWay'
      BY <1>1, <3>2 DEF OnTheWay
    <3> QED BY <1>1, <1>2, <3>1, <3>3 DEF FateGood
  <2> QED BY <2>1, <2>2
<1>15. FateGood'
  BY <1>1, <1>2, <1>14 DEF FateGood
<1> QED BY <1>9, <1>12, <1>13, <1>15 DEF ViewsInv

(* A connection less on the host.                                          *)
LEMMA LessIsLive ==
  ASSUME HostGood, NEW c \in Conn, host' = [host EXCEPT !.live = Among(host.live, Conn \ {c})]
  PROVE  HostGood' /\ host'.used = host.used /\ host'.reveal = host.reveal /\ Live' = Live \ {c}
<1> DEFINE L == Among(host.live, Conn \ {c})
           keep == Conn \ {c}
<1>1. host \in [live : Seq(Conn), used : SUBSET Conn, reveal : [Conn -> Nat]] /\ host.live \in Seq(Conn)
  BY DEF HostGood
<1>2. L \in Seq(Conn) /\ ToSet(L) = ToSet(host.live) \cap (Conn \ {c}) /\ IsInjective(L)
  <2> HIDE DEF keep
  <2>1. Among(host.live, keep) \in Seq(Conn) /\ ToSet(Among(host.live, keep)) = ToSet(host.live) \cap keep
        /\ (IsInjective(host.live) => IsInjective(Among(host.live, keep)))
    BY <1>1, AmongIs
  <2> QED BY <2>1 DEF HostGood, keep
<1> HIDE DEF L
<1>3. /\ host' \in [live : Seq(Conn), used : SUBSET Conn, reveal : [Conn -> Nat]]
      /\ host'.live = L /\ host'.used = host.used /\ host'.reveal = host.reveal
  BY <1>1, <1>2 DEF L
<1>4. Live \subseteq Conn
  BY <1>1, SetOf DEF Live
<1>5. Live' = Live \ {c}
  BY <1>2, <1>3, <1>4 DEF Live
<1> QED BY <1>2, <1>3, <1>5 DEF HostGood, Live

LEMMA HostDropsKeeps ==
  ASSUME ViewsInv, NEW c \in Conn, HostDrops(c)
  PROVE  ViewsInv'
<1>1. /\ page' = page /\ dock' = dock /\ calls' = calls /\ fate' = fate
      /\ host' = [host EXCEPT !.live = Among(host.live, Conn \ {c})]
  BY DEF HostDrops
<1>2. HostGood /\ PageGood(page, host.used) /\ CallsGood /\ PanesGood /\ FateGood
  BY DEF ViewsInv
<1>3. HostGood' /\ host'.used = host.used /\ host'.reveal = host.reveal /\ Live' = Live \ {c}
  BY <1>1, <1>2, LessIsLive
<1>4. OnTheWay' = OnTheWay
  BY <1>1, <1>3 DEF OnTheWay
<1>5. FateGood'
  BY <1>1, <1>2, <1>3, <1>4 DEF FateGood
<1>6. CallsGood' /\ PanesGood' /\ PageGood(page', host'.used)
  BY <1>1, <1>2, <1>3 DEF CallsGood, PanesGood
<1> QED BY <1>3, <1>5, <1>6 DEF ViewsInv

LEMMA DisconnectDoneKeeps ==
  ASSUME ViewsInv, NEW x, DisconnectDone(x)
  PROVE  ViewsInv'
<1>1. /\ page' = page /\ dock' = dock /\ fate' = fate /\ x \in calls.closes
      /\ host' = [host EXCEPT !.live = Among(host.live, Conn \ {x.conn})]
      /\ calls' = [calls EXCEPT !.closes = calls.closes \ {x}]
  BY DEF DisconnectDone
<1>2. HostGood /\ PageGood(page, host.used) /\ CallsGood /\ PanesGood /\ FateGood
  BY DEF ViewsInv
<1>7. x.conn \in Conn
  BY <1>1, <1>2 DEF CallsGood, CloseRec
<1>3. HostGood' /\ host'.used = host.used /\ host'.reveal = host.reveal /\ Live' = Live \ {x.conn}
  BY <1>1, <1>2, <1>7, LessIsLive
<1>8. calls' = [lists |-> calls.lists, dials |-> calls.dials, closes |-> calls.closes \ {x}]
  BY <1>1, <1>2 DEF CallsGood
<1>4. \A c \in OnTheWay : c # x.conn => c \in OnTheWay'
  BY <1>1, <1>3, <1>8 DEF OnTheWay
<1>5. FateGood'
  <2>1. Live' \subseteq Seen(page', dock') \cup OnTheWay' \cup fate'.unseen
    BY <1>1, <1>2, <1>3, <1>4 DEF FateGood
  <2> QED BY <1>1, <1>2, <2>1 DEF FateGood
<1>6. CallsGood'
  BY <1>2, <1>3, <1>8 DEF CallsGood
<1>9. PanesGood' /\ PageGood(page', host'.used)
  BY <1>1, <1>2, <1>3 DEF PanesGood
<1> QED BY <1>3, <1>5, <1>6, <1>9 DEF ViewsInv

(* An answer that opens c in pane v, whatever became of its tab.           *)
LEMMA LateOpenKeeps ==
  ASSUME ViewsInv, NEW v \in View, NEW c \in Conn, c \in host.used,
         host' = host, dock' = dock, page' = OpenInView(page, v, c), LateOpen(v, c), CallsGood',
         \A d \in calls.dials \ calls'.dials : d.conn = c,
         \A x \in calls.closes \ calls'.closes : x.conn = c
  PROVE  ViewsInv'
<1>1. HostGood /\ PageGood(page, host.used) /\ CallsGood /\ PanesGood /\ FateGood
  BY DEF ViewsInv
<1>2. OpenedOne(page, page', host.used, v, {c})
  BY <1>1, OpenedGood
<1>3. /\ fate'.shut = fate.shut \ {<<v, c>>}
      /\ fate'.unseen = (fate.unseen \cup (IF dock[v] = "gone" THEN {c} ELSE {})) \ Seen(page', dock')
      /\ fate'.leaked = fate.leaked \cup (IF dock[v] = "gone" THEN {v} ELSE {})
      /\ fate' = [shut |-> fate'.shut, unseen |-> fate'.unseen, leaked |-> fate'.leaked]
  BY DEF LateOpen
<1>4. fate' \in [shut : SUBSET (View \X Conn), unseen : SUBSET Conn, leaked : SUBSET View]
  <2>1. fate \in [shut : SUBSET (View \X Conn), unseen : SUBSET Conn, leaked : SUBSET View]
    BY <1>1 DEF FateGood
  <2>2. /\ fate'.shut \in SUBSET (View \X Conn) /\ fate'.unseen \in SUBSET Conn /\ fate'.leaked \in SUBSET View
    BY <1>3, <2>1
  <2> QED BY <1>3, <2>2
<1>5. ASSUME NEW w \in View, dock'[w] = "gone", Ids(page', w) # {} PROVE w \in fate'.leaked
  <2>1. CASE w = v
    BY <1>3, <1>5, <2>1
  <2>2. CASE w # v
    <3>1. Ids(page', w) = Ids(page, w)
      BY <1>2, <2>2 DEF OpenedOne
    <3> QED BY <1>1, <1>3, <1>5, <3>1 DEF FateGood
  <2> QED BY <2>1, <2>2
<1>6. ASSUME NEW x \in fate'.shut
      PROVE  x[2] \notin Ids(page', x[1]) /\ dock'[x[1]] \in {"shown", "hidden"} /\ page'.adopted[x[1]]
  <2>1. x \in fate.shut /\ x # <<v, c>> /\ x \in View \X Conn /\ x[1] \in View
    BY <1>1, <1>3 DEF FateGood
  <2>2. x[2] \notin Ids(page, x[1]) /\ dock[x[1]] \in {"shown", "hidden"} /\ page.adopted[x[1]]
    BY <1>1, <2>1 DEF FateGood
  <2>3. x[1] = v => x[2] # c
    BY <2>1
  <2>4. x[2] \notin Ids(page', x[1])
    BY <1>2, <2>1, <2>2, <2>3 DEF OpenedOne
  <2> QED BY <1>2, <2>2, <2>4 DEF OpenedOne
<1>7. ASSUME NEW x \in Live', x \notin fate'.unseen, x \notin Seen(page', dock') PROVE x \in OnTheWay'
  <2>1. x \in Live /\ x \notin fate.unseen
    BY <1>3, <1>7 DEF Live
  <2>2. \A w \in View : Ids(page, w) \subseteq Ids(page', w)
    BY <1>2 DEF OpenedOne
  <2>3. x \notin Seen(page, dock)
    BY <1>7, <2>2 DEF Seen
  <2>4. x \in OnTheWay
    BY <1>1, <2>1, <2>3 DEF FateGood
  <2>5. x # c
    <3> SUFFICES ASSUME x = c PROVE FALSE
      OBVIOUS
    <3>1. x \in Ids(page', v)
      BY <1>2 DEF OpenedOne
    <3>2. dock[v] = "gone"
      BY <1>7, <3>1 DEF Seen
    <3> QED BY <1>3, <1>7, <3>2
  <2>6. page'.pending = page.pending /\ page'.announced = page.announced
    BY <1>2 DEF OpenedOne
  <2> QED BY <2>4, <2>5, <2>6 DEF OnTheWay
<1>8. FateGood'
  BY <1>4, <1>5, <1>6, <1>7 DEF FateGood
<1>9. PanesGood'
  BY <1>1, <1>2 DEF PanesGood, OpenedOne
<1>10. HostGood' /\ PageGood(page', host'.used)
  BY <1>1, <1>2 DEF HostGood, OpenedOne, Live
<1> QED BY <1>8, <1>9, <1>10 DEF ViewsInv

LEMMA OpenInPaneKeeps ==
  ASSUME ViewsInv, NEW d, OpenConnectionInPane(d)
  PROVE  ViewsInv'
<1>1. /\ d \in calls.dials /\ d.from # Settings /\ host' = host /\ dock' = dock
      /\ page' = OpenInView(page, d.from, d.conn) /\ calls' = [calls EXCEPT !.dials = calls.dials \ {d}]
      /\ LateOpen(d.from, d.conn)
  BY DEF OpenConnectionInPane
<1>2. CallsGood
  BY DEF ViewsInv
<1>3. d.from \in View /\ d.conn \in Conn /\ d.conn \in host.used
  BY <1>1, <1>2 DEF CallsGood, DialRec
<1>4. calls' = [lists |-> calls.lists, dials |-> calls.dials \ {d}, closes |-> calls.closes]
  BY <1>1, <1>2 DEF CallsGood
<1>5. CallsGood'
  BY <1>1, <1>2, <1>4, AnswerTaken
<1>6. (\A e \in calls.dials \ calls'.dials : e.conn = d.conn) /\ \A x \in calls.closes \ calls'.closes : x.conn = d.conn
  BY <1>4
<1> QED BY <1>1, <1>3, <1>5, <1>6, LateOpenKeeps

LEMMA DisconnectFailsKeeps ==
  ASSUME ViewsInv, NEW x, DisconnectFails(x)
  PROVE  ViewsInv'
<1>1. /\ x \in calls.closes /\ host' = host /\ dock' = dock
      /\ page' = OpenInView(page, x.view, x.conn) /\ calls' = [calls EXCEPT !.closes = calls.closes \ {x}]
      /\ LateOpen(x.view, x.conn)
  BY DEF DisconnectFails
<1>2. CallsGood
  BY DEF ViewsInv
<1>3. x.view \in View /\ x.conn \in Conn /\ x.conn \in host.used
  BY <1>1, <1>2 DEF CallsGood, CloseRec
<1>4. calls' = [lists |-> calls.lists, dials |-> calls.dials, closes |-> calls.closes \ {x}]
  BY <1>1, <1>2 DEF CallsGood
<1>5. CallsGood'
  BY <1>1, <1>2, <1>4, AnswerTaken
<1>6. (\A e \in calls.dials \ calls'.dials : e.conn = x.conn) /\ \A y \in calls.closes \ calls'.closes : y.conn = x.conn
  BY <1>4
<1> QED BY <1>1, <1>3, <1>5, <1>6, LateOpenKeeps

(* Calls made or answered that leave the page alone.                       *)
LEMMA CallsOnlyKeep ==
  ASSUME ViewsInv, UNCHANGED <<host, page, dock, fate>>, CallsGood',
         {d.conn : d \in calls.dials} \subseteq {d.conn : d \in calls'.dials}, calls'.closes = calls.closes
  PROVE  ViewsInv'
<1>1. HostGood /\ PageGood(page, host.used) /\ CallsGood /\ PanesGood /\ FateGood
  BY DEF ViewsInv
<1>2. OnTheWay \subseteq OnTheWay'
  BY DEF OnTheWay
<1>3. HostGood' /\ PageGood(page', host'.used) /\ PanesGood'
  BY <1>1 DEF HostGood, PanesGood, Live
<1>4. FateGood'
  BY <1>1, <1>2 DEF FateGood, Live
<1> QED BY <1>3, <1>4 DEF ViewsInv

LEMMA TakeListKeeps ==
  ASSUME ViewsInv, NEW for \in {"panel", "poll"}, TakeList(for)
  PROVE  ViewsInv'
<1> DEFINE list == [i \in DOMAIN host.live |-> [conn |-> host.live[i], reveal |-> host.reveal[host.live[i]]]]
           a == [for |-> for, list |-> list]
<1>1. UNCHANGED <<host, page, dock, fate>> /\ calls' = [calls EXCEPT !.lists = calls.lists \cup {a}]
  BY DEF TakeList
<1>2. HostGood /\ CallsGood
  BY DEF ViewsInv
<1>3. /\ host.live \in Seq(Conn) /\ host.reveal \in [Conn -> Nat] /\ IsInjective(host.live) /\ ToSet(host.live) \subseteq host.used
  BY <1>2 DEF HostGood, Live
<1> DEFINE n == Len(host.live)
<1>4. n \in Nat /\ DOMAIN host.live = 1 .. n /\ \A i \in 1 .. n : host.live[i] \in Conn /\ host.reveal[host.live[i]] \in Nat
  <2>1. n \in Nat /\ DOMAIN host.live = 1 .. n /\ \A i \in 1 .. n : host.live[i] \in Conn
    BY <1>3
  <2> QED BY <1>3, <2>1
<1>5. list \in [1 .. n -> Reveal] /\ \A i \in 1 .. n : list[i].conn = host.live[i] /\ list[i].reveal = host.reveal[host.live[i]]
  BY <1>4 DEF Reveal
<1> HIDE DEF list
<1>6. list \in Seq(Reveal) /\ Len(list) = n /\ DOMAIN list = 1 .. n
  BY <1>4, <1>5
<1>7. ConnsOf(list) = host.live
  <2>1. host.live = [i \in 1 .. n |-> host.live[i]]
    BY <1>3, <1>4
  <2>2. ConnsOf(list) = [i \in 1 .. n |-> list[i].conn]
    BY <1>6 DEF ConnsOf
  <2>3. ConnsOf(list) = [i \in 1 .. n |-> host.live[i]]
    BY <1>5, <2>2
  <2> QED BY <2>1, <2>3
<1>8. \A e \in ToSet(list) : e.reveal <= host.reveal[e.conn]
  <2>1. ASSUME NEW e \in ToSet(list) PROVE e.reveal <= host.reveal[e.conn]
    <3>1. PICK i \in 1 .. n : list[i] = e
      BY <1>6, SetOf
    <3>2. e.conn = host.live[i] /\ e.reveal = host.reveal[host.live[i]] /\ host.reveal[host.live[i]] \in Nat
      BY <1>4, <1>5, <3>1
    <3> QED BY <3>2
  <2> QED BY <2>1
<1>9. a \in ListAnswer /\ a.list = list
  BY <1>6 DEF ListAnswer
<1> HIDE DEF a
<1>10. /\ calls' = [lists |-> calls.lists \cup {a}, dials |-> calls.dials, closes |-> calls.closes]
       /\ calls \in [lists : SUBSET ListAnswer, dials : SUBSET DialRec, closes : SUBSET CloseRec]
  BY <1>1, <1>2 DEF CallsGood
<1>11. CallsGood'
  <2>1. calls' \in [lists : SUBSET ListAnswer, dials : SUBSET DialRec, closes : SUBSET CloseRec]
    BY <1>9, <1>10
  <2>2. /\ IsInjective(ConnsOf(a.list)) /\ ToSet(ConnsOf(a.list)) \subseteq host'.used
        /\ \A e \in ToSet(a.list) : e.reveal <= host'.reveal[e.conn]
    BY <1>1, <1>3, <1>7, <1>8, <1>9
  <2> QED BY <1>1, <1>2, <1>10, <2>1, <2>2 DEF CallsGood
<1> QED BY <1>1, <1>10, <1>11, CallsOnlyKeep

LEMMA ListFailsKeeps ==
  ASSUME ViewsInv, NEW a, ListFails(a)
  PROVE  ViewsInv'
<1>1. UNCHANGED <<host, page, dock, fate>> /\ calls' = [calls EXCEPT !.lists = calls.lists \ {a}] /\ CallsGood
  BY DEF ListFails, ViewsInv
<1>2. calls' = [lists |-> calls.lists \ {a}, dials |-> calls.dials, closes |-> calls.closes]
  BY <1>1 DEF CallsGood
<1>3. CallsGood'
  BY <1>1, <1>2, AnswerTaken
<1> QED BY <1>1, <1>2, <1>3, CallsOnlyKeep

LEMMA SettingsListKeeps ==
  ASSUME ViewsInv, NEW d, SettingsList(d)
  PROVE  ViewsInv'
<1> DEFINE e == [d EXCEPT !.asked = TRUE, !.list = host.live]
<1>1. /\ d \in calls.dials /\ UNCHANGED <<host, page, dock, fate>>
      /\ calls' = [calls EXCEPT !.dials = (calls.dials \ {d}) \cup {e}]
  BY DEF SettingsList
<1>2. CallsGood /\ HostGood
  BY DEF ViewsInv
<1>3. d \in DialRec /\ d.conn \in host.used
  BY <1>1, <1>2 DEF CallsGood
<1>4. host.live \in Seq(Conn) /\ IsInjective(host.live) /\ ToSet(host.live) \subseteq host.used
  BY <1>2 DEF HostGood, Live
<1>5. e \in DialRec /\ e.conn = d.conn /\ e.list = host.live
  BY <1>3, <1>4 DEF DialRec
<1> HIDE DEF e
<1>6. /\ calls' = [lists |-> calls.lists, dials |-> (calls.dials \ {d}) \cup {e}, closes |-> calls.closes]
      /\ calls \in [lists : SUBSET ListAnswer, dials : SUBSET DialRec, closes : SUBSET CloseRec]
  BY <1>1, <1>2 DEF CallsGood
<1>7. CallsGood'
  <2>1. calls' \in [lists : SUBSET ListAnswer, dials : SUBSET DialRec, closes : SUBSET CloseRec]
    BY <1>5, <1>6
  <2>2. e.conn \in host'.used /\ IsInjective(e.list) /\ ToSet(e.list) \subseteq host'.used
    BY <1>1, <1>3, <1>4, <1>5
  <2> QED BY <1>1, <1>2, <1>6, <2>1, <2>2 DEF CallsGood
<1>8. {x.conn : x \in calls.dials} \subseteq {x.conn : x \in calls'.dials}
  BY <1>5, <1>6
<1> QED BY <1>1, <1>6, <1>7, <1>8, CallsOnlyKeep

LEMMA DialKeeps ==
  ASSUME ViewsInv, NEW from \in View \cup {Settings}, NEW c \in Conn, Dial(from, c)
  PROVE  ViewsInv'
<1> DEFINE L == IF c \in Live THEN host.live ELSE Append(host.live, c)
           us == host.used \cup {c}
           d == [from |-> from, conn |-> c, asked |-> FALSE, list |-> <<>>]
<1>1. /\ c \in Live \/ c \notin host.used
      /\ page' = page /\ dock' = dock /\ fate' = fate
      /\ host' = [host EXCEPT !.live = L, !.used = us]
      /\ calls' = [calls EXCEPT !.dials = calls.dials \cup {d}]
  BY DEF Dial
<1>2. HostGood /\ PageGood(page, host.used) /\ CallsGood /\ PanesGood /\ FateGood
  BY DEF ViewsInv
<1>3. L \in Seq(Conn) /\ IsInjective(L) /\ ToSet(L) = Live \cup {c}
  BY <1>1, <1>2, LiveWith
<1>4. /\ host.reveal \in [Conn -> Nat] /\ host.used \in SUBSET Conn /\ Live \subseteq host.used
      /\ host \in [live : Seq(Conn), used : SUBSET Conn, reveal : [Conn -> Nat]]
  BY <1>2 DEF HostGood
<1> HIDE DEF L
<1>5. us \in SUBSET Conn /\ us = host.used \cup {c}
  BY <1>4
<1> HIDE DEF us
<1>6. /\ host' \in [live : Seq(Conn), used : SUBSET Conn, reveal : [Conn -> Nat]]
      /\ host'.live = L /\ host'.used = us /\ host'.reveal = host.reveal
  BY <1>1, <1>3, <1>4, <1>5
<1>7. HostGood'
  BY <1>3, <1>4, <1>5, <1>6 DEF HostGood, Live
<1>8. HostGrows
  <2>1. ASSUME NEW x \in Conn PROVE host.reveal[x] <= host.reveal[x]
    <3>1. host.reveal[x] \in Nat
      BY <1>4
    <3> QED BY <3>1
  <2> QED BY <1>4, <1>5, <1>6, <2>1 DEF HostGrows
<1>9. d \in DialRec /\ d.conn = c /\ d.list = <<>> /\ <<>> \in Seq(Conn)
  BY EmptySeq DEF DialRec
<1> HIDE DEF d
<1>10. /\ calls' = [lists |-> calls.lists, dials |-> calls.dials \cup {d}, closes |-> calls.closes]
       /\ calls \in [lists : SUBSET ListAnswer, dials : SUBSET DialRec, closes : SUBSET CloseRec]
  BY <1>1, <1>2 DEF CallsGood
<1>11. CallsGood'
  <2>1. calls' \in [lists : SUBSET ListAnswer, dials : SUBSET DialRec, closes : SUBSET CloseRec]
    BY <1>9, <1>10
  <2>2. d.conn \in host'.used /\ IsInjective(d.list) /\ ToSet(d.list) \subseteq host'.used
    BY <1>5, <1>6, <1>9, NoViewGood DEF NoView, ViewGood
  <2>3. /\ \A a \in calls.lists : /\ IsInjective(ConnsOf(a.list)) /\ ToSet(ConnsOf(a.list)) \subseteq host'.used
                                  /\ \A e \in ToSet(a.list) : e.reveal <= host'.reveal[e.conn]
        /\ \A e \in calls.dials : e.conn \in host'.used /\ IsInjective(e.list) /\ ToSet(e.list) \subseteq host'.used
        /\ \A x \in calls.closes : x.conn \in host'.used
    BY <1>2, <1>8, CallsGrow
  <2> QED BY <1>10, <2>1, <2>2, <2>3 DEF CallsGood
<1>12. PageGood(page', host'.used) /\ PanesGood'
  BY <1>1, <1>2, <1>8, PageGrows DEF PanesGood
<1>13. OnTheWay \cup {c} \subseteq OnTheWay'
  BY <1>1, <1>6, <1>9, <1>10 DEF OnTheWay
<1>14. Live' = Live \cup {c}
  BY <1>3, <1>6 DEF Live
<1>15. FateGood'
  <2>1. Live' \subseteq Seen(page', dock') \cup OnTheWay' \cup fate'.unseen
    BY <1>1, <1>2, <1>13, <1>14 DEF FateGood
  <2> QED BY <1>1, <1>2, <2>1 DEF FateGood
<1> QED BY <1>7, <1>11, <1>12, <1>15 DEF ViewsInv

LEMMA HideTabKeeps ==
  ASSUME ViewsInv, NEW v \in View, HideTab(v)
  PROVE  ViewsInv'
<1>1. /\ dock[v] = "shown" /\ dock' = [dock EXCEPT ![v] = "hidden"]
      /\ host' = host /\ page' = page /\ calls' = calls /\ fate' = fate
  BY DEF HideTab
<1>2. HostGood /\ PageGood(page, host.used) /\ CallsGood /\ PanesGood /\ FateGood
  BY DEF ViewsInv
<1>3. /\ dock' \in [View -> {"absent", "shown", "hidden", "gone"}] /\ dock'[v] = "hidden"
      /\ \A w \in View : w # v => dock'[w] = dock[w]
  BY <1>1, <1>2 DEF PanesGood
<1>4. Seen(page', dock') = Seen(page, dock) /\ OnTheWay' = OnTheWay /\ Live' = Live
  BY <1>1, <1>3 DEF Seen, OnTheWay, Live
<1>5. \A w \in View : (dock'[w] = "gone" => dock[w] = "gone") /\ (dock'[w] = "shown" => dock[w] = "shown")
                      /\ (dock[w] \in {"shown", "hidden"} => dock'[w] \in {"shown", "hidden"})
  BY <1>1, <1>3
<1>6. PanesGood'
  BY <1>1, <1>2, <1>3, <1>5 DEF PanesGood
<1>7. FateGood'
  <2>1. \A x \in fate.shut : x[1] \in View
    BY <1>2 DEF FateGood
  <2> QED BY <1>1, <1>2, <1>4, <1>5, <2>1 DEF FateGood
<1>8. HostGood' /\ CallsGood' /\ PageGood(page', host'.used)
  BY <1>1, <1>2, <1>4 DEF HostGood, CallsGood
<1> QED BY <1>6, <1>7, <1>8 DEF ViewsInv

LEMMA CloseTabKeeps ==
  ASSUME ViewsInv, NEW v \in View, CloseTab(v)
  PROVE  ViewsInv'
<1> DEFINE shut == {x \in fate.shut : x[1] # v}
           un == (fate.unseen \cup Ids(page, v)) \ Seen(page', dock')
           lk == fate.leaked \cup (IF dock[v] = "hidden" THEN {v} ELSE {})
<1>1. /\ dock[v] \in {"shown", "hidden"} /\ dock' = [dock EXCEPT ![v] = "gone"]
      /\ host' = host /\ calls' = calls
      /\ page' = IF dock[v] = "shown" THEN ForgetView(page, v) ELSE page
      /\ fate' = [shut |-> shut, unseen |-> un, leaked |-> lk]
  BY DEF CloseTab
<1>2. HostGood /\ PageGood(page, host.used) /\ CallsGood /\ PanesGood /\ FateGood
  BY DEF ViewsInv
<1>3. /\ dock' \in [View -> {"absent", "shown", "hidden", "gone"}] /\ dock'[v] = "gone"
      /\ \A w \in View : w # v => dock'[w] = dock[w]
  BY <1>1, <1>2 DEF PanesGood
<1>4. /\ Shown(page, page', host.used) /\ page'.adopted = page.adopted
      /\ \A w \in View : w # v => Ids(page', w) = Ids(page, w)
      /\ (dock[v] = "shown" => Ids(page', v) = {})
  <2>1. CASE dock[v] = "shown"
    <3>1. page' = ForgetView(page, v)
      BY <1>1, <2>1
    <3> QED BY <1>2, <3>1, ForgotIs
  <2>2. CASE dock[v] = "hidden"
    <3>1. page' = page
      BY <1>1, <2>2
    <3> QED BY <1>2, <2>2, <3>1 DEF Shown
  <2> QED BY <1>1, <2>1, <2>2
<1>5. fate'.shut = shut /\ fate'.unseen = un /\ fate'.leaked = lk
  BY <1>1
<1>6. fate' \in [shut : SUBSET (View \X Conn), unseen : SUBSET Conn, leaked : SUBSET View]
  <2>1. fate \in [shut : SUBSET (View \X Conn), unseen : SUBSET Conn, leaked : SUBSET View]
    BY <1>2 DEF FateGood
  <2>2. Ids(page, v) \subseteq Conn
    <3>1. page.views[v].ids \in Seq(Conn)
      BY <1>2 DEF PageGood, PageType, ViewType
    <3> QED BY <3>1, SetOf DEF Ids
  <2>3. shut \in SUBSET (View \X Conn) /\ un \in SUBSET Conn /\ lk \in SUBSET View
    BY <2>1, <2>2
  <2> HIDE DEF shut, un, lk
  <2> QED BY <1>1, <2>3
<1>7. ASSUME NEW w \in View, dock'[w] = "gone", Ids(page', w) # {} PROVE w \in fate'.leaked
  <2>1. CASE w = v
    BY <1>1, <1>4, <1>5, <1>7, <2>1
  <2>2. CASE w # v
    BY <1>2, <1>3, <1>4, <1>5, <1>7, <2>2 DEF FateGood
  <2> QED BY <2>1, <2>2
<1>8. ASSUME NEW x \in fate'.shut
      PROVE  x[2] \notin Ids(page', x[1]) /\ dock'[x[1]] \in {"shown", "hidden"} /\ page'.adopted[x[1]]
  <2>1. x \in fate.shut /\ x[1] # v /\ x[1] \in View
    BY <1>2, <1>5 DEF FateGood
  <2>2. x[2] \notin Ids(page, x[1]) /\ dock[x[1]] \in {"shown", "hidden"} /\ page.adopted[x[1]]
    BY <1>2, <2>1 DEF FateGood
  <2> QED BY <1>3, <1>4, <2>1, <2>2
<1>9. ASSUME NEW x \in Live', x \notin fate'.unseen, x \notin Seen(page', dock') PROVE x \in OnTheWay'
  <2>1. x \in Live /\ x \notin fate.unseen /\ x \notin Ids(page, v)
    BY <1>1, <1>5, <1>9 DEF Live
  <2>2. x \notin Seen(page, dock)
    BY <1>3, <1>4, <1>9, <2>1 DEF Seen
  <2>3. x \in OnTheWay
    BY <1>2, <2>1, <2>2 DEF FateGood
  <2> QED BY <1>1, <1>4, <2>3 DEF OnTheWay, Shown
<1>10. FateGood'
  BY <1>6, <1>7, <1>8, <1>9 DEF FateGood
<1>11. PanesGood'
  BY <1>1, <1>2, <1>3, <1>4 DEF PanesGood, Shown
<1>12. HostGood' /\ CallsGood' /\ PageGood(page', host'.used)
  BY <1>1, <1>2, <1>4 DEF HostGood, CallsGood, Shown, Live
<1> QED BY <1>10, <1>11, <1>12 DEF ViewsInv

LEMMA EmptyPageGood ==
  ASSUME NEW used
  PROVE  /\ PageGood(EmptyPage, used) /\ EmptyPage.pending = <<>> /\ EmptyPage.announced = {} /\ EmptyPage.listed = <<>>
         /\ \A v \in View : Ids(EmptyPage, v) = {}
<1>1. <<>> \in Seq(Conn) /\ IsInjective(<<>>) /\ ToSet(<<>>) = {}
  BY EmptySeq DEF IsInjective, ToSet
<1>2. /\ EmptyPage \in PageType /\ EmptyPage.views = [v \in View |-> NoView] /\ EmptyPage.refs = [c \in Conn |-> {}]
      /\ EmptyPage.pending = <<>> /\ EmptyPage.announced = {} /\ EmptyPage.listed = <<>>
  BY <1>1, NoViewGood DEF EmptyPage, PageType
<1>3. \A v \in View : Ids(EmptyPage, v) = {} /\ ViewGood(EmptyPage.views[v])
  BY <1>2, NoViewGood DEF Ids
<1>4. PageGood(EmptyPage, used)
  BY <1>1, <1>2, <1>3 DEF PageGood
<1> QED BY <1>2, <1>3, <1>4

LEMMA ReloadKeeps == ViewsInv /\ ReloadPage => ViewsInv'
<1> SUFFICES ASSUME ViewsInv, ReloadPage PROVE ViewsInv'
  OBVIOUS
<1>1. /\ host' = host /\ page' = EmptyPage /\ calls' = NoCalls
      /\ dock' = [v \in View |-> "absent"] /\ fate' = [shut |-> {}, unseen |-> Live, leaked |-> {}]
  BY DEF ReloadPage
<1>2. HostGood /\ Live \subseteq Conn /\ Live' = Live
  BY <1>1 DEF ViewsInv, HostGood, Live
<1>3. /\ PageGood(page', host'.used) /\ page'.announced = {} /\ page'.listed = <<>> /\ \A v \in View : Ids(page', v) = {}
  BY <1>1, EmptyPageGood
<1>4. CallsGood'
  BY <1>1 DEF CallsGood, NoCalls
<1>5. PanesGood'
  BY <1>1, <1>3 DEF PanesGood
<1>6. FateGood'
  BY <1>1, <1>2, <1>3 DEF FateGood
<1>7. HostGood'
  BY <1>1, <1>2 DEF HostGood
<1> QED BY <1>3, <1>4, <1>5, <1>6, <1>7 DEF ViewsInv

LEMMA DialFailsKeeps ==
  ASSUME ViewsInv, NEW d, DialFails(d)
  PROVE  ViewsInv'
<1>1. /\ d \in calls.dials /\ host' = host /\ page' = page /\ dock' = dock
      /\ calls' = [calls EXCEPT !.dials = calls.dials \ {d}] /\ Fate(fate.shut, {d.conn})
  BY DEF DialFails
<1>2. HostGood /\ PageGood(page, host.used) /\ CallsGood /\ PanesGood /\ FateGood
  BY DEF ViewsInv
<1>3. calls' = [lists |-> calls.lists, dials |-> calls.dials \ {d}, closes |-> calls.closes]
  BY <1>1, <1>2 DEF CallsGood
<1>4. CallsGood'
  BY <1>1, <1>2, <1>3, AnswerTaken
<1>5. /\ fate'.shut = fate.shut /\ fate'.unseen = (fate.unseen \cup {d.conn}) \ Seen(page', dock') /\ fate'.leaked = fate.leaked
      /\ fate' = [shut |-> fate'.shut, unseen |-> fate'.unseen, leaked |-> fate'.leaked]
  BY <1>1, <1>2, FateIs
<1>6. fate' \in [shut : SUBSET (View \X Conn), unseen : SUBSET Conn, leaked : SUBSET View]
  <2>1. fate \in [shut : SUBSET (View \X Conn), unseen : SUBSET Conn, leaked : SUBSET View]
    BY <1>2 DEF FateGood
  <2>2. d.conn \in Conn
    BY <1>1, <1>2 DEF CallsGood, DialRec
  <2>3. /\ fate'.shut \in SUBSET (View \X Conn) /\ fate'.unseen \in SUBSET Conn /\ fate'.leaked \in SUBSET View
    BY <1>5, <2>1, <2>2
  <2> QED BY <1>5, <2>3
<1>7. ASSUME NEW x \in Live', x \notin fate'.unseen, x \notin Seen(page', dock') PROVE x \in OnTheWay'
  <2>1. x \in Live /\ x \notin fate.unseen /\ x # d.conn /\ x \notin Seen(page, dock)
    BY <1>1, <1>5, <1>7 DEF Live
  <2>2. x \in OnTheWay
    BY <1>2, <2>1 DEF FateGood
  <2> QED BY <1>1, <1>3, <2>1, <2>2 DEF OnTheWay
<1>8. FateGood'
  BY <1>1, <1>2, <1>5, <1>6, <1>7 DEF FateGood
<1>9. HostGood' /\ PageGood(page', host'.used) /\ PanesGood'
  BY <1>1, <1>2 DEF HostGood, PanesGood, Live
<1> QED BY <1>4, <1>8, <1>9 DEF ViewsInv

LEMMA SelectKeeps ==
  ASSUME ViewsInv, NEW v \in View, NEW c \in Conn, SelectServer(v, c)
  PROVE  ViewsInv'
<1>1. /\ c \in Ids(page, v) /\ host' = host /\ dock' = dock /\ calls' = calls /\ fate' = fate
      /\ page' = OpenInView(page, v, c)
  BY DEF SelectServer, Drawn, SelectInView, OpenInView
<1>2. HostGood /\ PageGood(page, host.used) /\ CallsGood /\ PanesGood /\ FateGood
  BY DEF ViewsInv
<1>3. c \in host.used
  BY <1>1, <1>2 DEF PageGood
<1>4. OpenedOne(page, page', host.used, v, {c})
  BY <1>1, <1>2, <1>3, OpenedGood
<1>5. \A w \in View : Ids(page', w) = Ids(page, w)
  BY <1>1, <1>4 DEF OpenedOne
<1>6. Seen(page', dock') = Seen(page, dock) /\ OnTheWay' = OnTheWay /\ Live' = Live
  BY <1>1, <1>4, <1>5 DEF Seen, OnTheWay, Live, OpenedOne
<1>7. FateGood'
  <2>1. \A x \in fate.shut : x[1] \in View
    BY <1>2 DEF FateGood
  <2>2. page'.adopted = page.adopted
    BY <1>4 DEF OpenedOne
  <2> QED BY <1>1, <1>2, <1>5, <1>6, <2>1, <2>2 DEF FateGood
<1>8. PanesGood'
  BY <1>1, <1>2, <1>4 DEF PanesGood, OpenedOne
<1>9. HostGood' /\ CallsGood' /\ PageGood(page', host'.used)
  BY <1>1, <1>2, <1>4, <1>6 DEF HostGood, CallsGood, OpenedOne
<1> QED BY <1>7, <1>8, <1>9 DEF ViewsInv

(* Closing a server in one pane: the host is told exactly if no other view *)
(* shows it; a view that does is a pane, or leaked.                        *)
LEMMA ClosePaneTabKeeps ==
  ASSUME ViewsInv, NEW v \in View, NEW c \in Conn, ClosePaneTab(v, c)
  PROVE  ViewsInv'
<1> DEFINE y == [view |-> v, conn |-> c]
           why == IF fate.leaked \cap page.refs[c] # {} THEN {c} ELSE {}
<1>1. /\ dock[v] = "shown" /\ c \in Ids(page, v) /\ c \in ToSet(page.listed) /\ host' = host /\ dock' = dock
      /\ page' = CloseInView(page, v, c)
      /\ calls' = IF LastReference(page, v, c) THEN [calls EXCEPT !.closes = calls.closes \cup {y}] ELSE calls
      /\ Fate(fate.shut \cup {<<v, c>>}, why)
  BY DEF ClosePaneTab, Drawn
<1>2. HostGood /\ PageGood(page, host.used) /\ CallsGood /\ PanesGood /\ FateGood
  BY DEF ViewsInv
<1>3. /\ Shown(page, page', host.used) /\ page'.adopted = page.adopted
      /\ (\A w \in View : w # v => Ids(page', w) = Ids(page, w)) /\ Ids(page', v) = Ids(page, v) \ {c}
  BY <1>1, <1>2, ClosedIs
<1>4. c \in host.used /\ y \in CloseRec /\ y.conn = c
  BY <1>1, <1>2 DEF PageGood, CloseRec
<1> HIDE DEF y
<1>5. calls \in [lists : SUBSET ListAnswer, dials : SUBSET DialRec, closes : SUBSET CloseRec]
  BY <1>2 DEF CallsGood
<1>6. /\ calls'.lists = calls.lists /\ calls'.dials = calls.dials
      /\ calls'.closes = IF LastReference(page, v, c) THEN calls.closes \cup {y} ELSE calls.closes
      /\ calls' \in [lists : SUBSET ListAnswer, dials : SUBSET DialRec, closes : SUBSET CloseRec]
  BY <1>1, <1>4, <1>5
<1>7. CallsGood'
  BY <1>1, <1>2, <1>4, <1>6 DEF CallsGood
<1>8. why \in SUBSET Conn
  OBVIOUS
<1>9. fate.leaked \cap page.refs[c] # {} => why = {c}
  OBVIOUS
<1> HIDE DEF why
<1>10. /\ fate'.shut = fate.shut \cup {<<v, c>>} /\ fate'.unseen = (fate.unseen \cup why) \ Seen(page', dock')
       /\ fate'.leaked = fate.leaked
       /\ fate' = [shut |-> fate'.shut, unseen |-> fate'.unseen, leaked |-> fate'.leaked]
  BY <1>1, <1>2, FateIs
<1>11. fate' \in [shut : SUBSET (View \X Conn), unseen : SUBSET Conn, leaked : SUBSET View]
  <2>1. fate \in [shut : SUBSET (View \X Conn), unseen : SUBSET Conn, leaked : SUBSET View]
    BY <1>2 DEF FateGood
  <2>2. /\ fate'.shut \in SUBSET (View \X Conn) /\ fate'.unseen \in SUBSET Conn /\ fate'.leaked \in SUBSET View
    BY <1>8, <1>10, <2>1
  <2> QED BY <1>10, <2>2
<1>12. \A w \in View : Ids(page', w) \subseteq Ids(page, w)
  BY <1>3
<1>13. ASSUME NEW w \in View, dock'[w] = "gone", Ids(page', w) # {} PROVE w \in fate'.leaked
  BY <1>1, <1>2, <1>10, <1>12, <1>13 DEF FateGood
<1>14. page.adopted[v]
  <2>1. page.listed # <<>>
    <3>1. page.listed \in Seq(Conn)
      BY <1>2 DEF PageGood, PageType
    <3> QED BY <1>1, <3>1, SetOf
  <2> QED BY <1>1, <1>2, <2>1 DEF PanesGood
<1>15. ASSUME NEW x \in fate'.shut
       PROVE  x[2] \notin Ids(page', x[1]) /\ dock'[x[1]] \in {"shown", "hidden"} /\ page'.adopted[x[1]]
  <2>1. CASE x = <<v, c>>
    BY <1>1, <1>3, <1>14, <2>1
  <2>2. CASE x \in fate.shut
    <3>1. x[1] \in View /\ x[2] \notin Ids(page, x[1]) /\ dock[x[1]] \in {"shown", "hidden"} /\ page.adopted[x[1]]
      BY <1>2, <2>2 DEF FateGood
    <3> QED BY <1>1, <1>3, <1>12, <3>1
  <2> QED BY <1>10, <2>1, <2>2
<1>16. ASSUME NEW x \in Live', x \notin fate'.unseen, x \notin Seen(page', dock') PROVE x \in OnTheWay'
  <2>1. x \in Live /\ x \notin fate.unseen /\ x \notin why
    BY <1>1, <1>10, <1>16 DEF Live
  <2>2. x \in OnTheWay => x \in OnTheWay'
    BY <1>1, <1>3, <1>6 DEF OnTheWay, Shown
  <2>3. CASE x \notin Seen(page, dock)
    BY <1>2, <2>1, <2>2, <2>3 DEF FateGood
  <2>4. CASE x \in Seen(page, dock)
    <3>1. x = c /\ \A w \in View : w # v /\ c \in Ids(page, w) => dock[w] = "gone"
      BY <1>1, <1>3, <1>16, <2>4 DEF Seen
    <3>2. page.refs[c] \in SUBSET View /\ v \in page.refs[c]
      BY <1>1, <1>2 DEF PageGood, PageType
    <3>3. LastReference(page, v, c)
      <4> SUFFICES ASSUME page.refs[c] # {v} PROVE FALSE
        BY DEF LastReference
      <4>1. PICK w \in page.refs[c] : w # v
        BY <3>2
      <4>2. w \in View /\ c \in Ids(page, w)
        BY <1>2, <3>2, <4>1 DEF PageGood
      <4>3. w \in fate.leaked
        BY <1>2, <3>1, <4>1, <4>2 DEF FateGood
      <4>4. c \in why
        BY <1>9, <4>1, <4>3
      <4> QED BY <2>1, <3>1, <4>4
    <3>4. y \in calls'.closes
      BY <1>6, <3>3
    <3> QED BY <1>4, <3>1, <3>4 DEF OnTheWay
  <2> QED BY <2>3, <2>4
<1>17. FateGood'
  BY <1>11, <1>13, <1>15, <1>16 DEF FateGood
<1>18. PanesGood'
  BY <1>1, <1>2, <1>3 DEF PanesGood, Shown
<1>19. HostGood' /\ PageGood(page', host'.used)
  BY <1>1, <1>2, <1>3 DEF HostGood, Shown, Live
<1> QED BY <1>7, <1>17, <1>18, <1>19 DEF ViewsInv

LEMMA ViewsStarts == ViewsInit => ViewsInv
<1> SUFFICES ASSUME ViewsInit PROVE ViewsInv
  OBVIOUS
<1>1. /\ page = EmptyPage /\ calls = NoCalls
      /\ \E start \in {"absent", "shown"} : dock = [v \in View |-> start]
  BY DEF ViewsInit
<1>2. PICK used \in SUBSET Conn : \E live \in SetToSeqs(used), asked \in SUBSET used :
        /\ host = [live |-> live, used |-> used, reveal |-> [c \in Conn |-> IF c \in asked THEN 1 ELSE 0]]
        /\ fate = [shut |-> {}, unseen |-> used, leaked |-> {}]
  BY DEF ViewsInit
<1>3. PICK live \in SetToSeqs(used), asked \in SUBSET used :
        /\ host = [live |-> live, used |-> used, reveal |-> [c \in Conn |-> IF c \in asked THEN 1 ELSE 0]]
        /\ fate = [shut |-> {}, unseen |-> used, leaked |-> {}]
  BY <1>2
<1>4. live \in Seq(Conn) /\ ToSet(live) = used /\ IsInjective(live)
  <2>1. IsFiniteSet(used)
    BY PaneViewsAssumption, FS_Subset
  <2>2. live \in Seq(used) /\ ToSet(live) = used /\ IsInjective(live)
    BY <2>1, OrderOf
  <2>3. Len(live) \in Nat /\ live \in [1 .. Len(live) -> used]
    BY <2>2
  <2>4. live \in [1 .. Len(live) -> Conn]
    BY <2>3
  <2> QED BY <2>2, <2>3, <2>4
<1>5. [c \in Conn |-> IF c \in asked THEN 1 ELSE 0] \in [Conn -> Nat]
  OBVIOUS
<1>6. HostGood /\ Live = used /\ host.used = used
  BY <1>3, <1>4, <1>5 DEF HostGood, Live
<1>7. /\ PageGood(page, host.used) /\ page.announced = {} /\ page.listed = <<>> /\ \A v \in View : Ids(page, v) = {}
  BY <1>1, EmptyPageGood
<1>8. CallsGood
  BY <1>1 DEF CallsGood, NoCalls
<1>9. PanesGood
  BY <1>1, <1>7 DEF PanesGood
<1>10. FateGood
  <2>1. \A v \in View : dock[v] # "gone"
    BY <1>1
  <2> QED BY <1>3, <1>6, <1>7, <2>1 DEF FateGood
<1> QED BY <1>6, <1>7, <1>8, <1>9, <1>10 DEF ViewsInv

LEMMA ViewsStep == ViewsInv /\ [ViewsNext]_viewVars => ViewsInv'
<1> SUFFICES ASSUME ViewsInv, [ViewsNext]_viewVars PROVE ViewsInv'
  OBVIOUS
<1>1. CASE Happens
  <2>1. ASSUME NEW c \in Conn, AgentConnects(c) \/ HostDrops(c) PROVE ViewsInv'
    BY <2>1, AgentConnectsKeeps, HostDropsKeeps
  <2>2. ASSUME NEW v \in View, ShowTab(v) \/ HideTab(v) \/ CloseTab(v) PROVE ViewsInv'
    BY <2>2, ShowTabKeeps, HideTabKeeps, CloseTabKeeps
  <2>3. ASSUME NEW from \in View \cup {Settings}, NEW c \in Conn, Dial(from, c) PROVE ViewsInv'
    BY <2>3, DialKeeps
  <2>4. ASSUME NEW v \in View, NEW c \in Conn, SelectServer(v, c) \/ ClosePaneTab(v, c) PROVE ViewsInv'
    BY <2>4, SelectKeeps, ClosePaneTabKeeps
  <2> QED BY <1>1, <2>1, <2>2, <2>3, <2>4, ReloadKeeps DEF Happens
<1>2. CASE Arrives
  <2>1. ASSUME NEW for \in {"panel", "poll"}, TakeList(for) PROVE ViewsInv'
    BY <2>1, TakeListKeeps
  <2>2. ASSUME NEW a \in calls.lists, RefreshConnections(a) \/ PollAnnounces(a) \/ ListFails(a) PROVE ViewsInv'
    BY <2>2, RefreshKeeps, PollKeeps, ListFailsKeeps
  <2>3. ASSUME NEW d \in calls.dials,
               DialFails(d) \/ OpenConnectionInPane(d) \/ SettingsList(d) \/ QueueForPane(d) PROVE ViewsInv'
    BY <2>3, DialFailsKeeps, OpenInPaneKeeps, SettingsListKeeps, QueueKeeps
  <2>4. ASSUME NEW x \in calls.closes, DisconnectDone(x) \/ DisconnectFails(x) PROVE ViewsInv'
    BY <2>4, DisconnectDoneKeeps, DisconnectFailsKeeps
  <2> QED BY <1>2, <2>1, <2>2, <2>3, <2>4 DEF Arrives
<1>3. CASE UNCHANGED viewVars
  BY <1>3 DEF viewVars, ViewsInv, HostGood, CallsGood, PanesGood, FateGood, Live, OnTheWay
<1> QED BY <1>1, <1>2, <1>3 DEF ViewsNext

LEMMA ViewsAreSound == ViewsInv => ViewsSound /\ ViewsTypeOK
<1> SUFFICES ASSUME ViewsInv PROVE ViewsSound /\ ViewsTypeOK
  OBVIOUS
<1>1. HostGood /\ PageGood(page, host.used) /\ PanesGood /\ FateGood
  BY DEF ViewsInv
<1>2. ViewsSound
  BY <1>1 DEF ViewsSound, PageGood, FateGood
<1>3. ViewsTypeOK
  <2>1. \A v \in View : /\ IsInjective(page.views[v].ids)
                       /\ IF page.views[v].ids = <<>> THEN page.views[v].active = NoConn
                          ELSE page.views[v].active \in Ids(page, v)
    BY <1>1 DEF PageGood, ViewGood, Ids
  <2>2. (UNION {Ids(page, v) : v \in View}) \cup Live \cup ToSet(page.pending) \subseteq host.used
    <3>1. \A v \in View : Ids(page, v) \subseteq host.used
      BY <1>1 DEF PageGood
    <3>2. Live \subseteq host.used /\ ToSet(page.pending) \subseteq host.used
      BY <1>1 DEF PageGood, HostGood
    <3>3. UNION {Ids(page, v) : v \in View} \subseteq host.used
      BY <3>1, Zenon
    <3> QED BY <3>2, <3>3, Zenon
  <2>3. dock \in [View -> {"absent", "shown", "hidden", "gone"}] /\ IsInjective(host.live)
    BY <1>1 DEF PanesGood, HostGood
  <2> QED BY <2>1, <2>2, <2>3 DEF ViewsTypeOK
<1> QED BY <1>2, <1>3

-----------------------------------------------------------------------------
ViewsSpec == ViewsInit /\ [][ViewsNext]_viewVars

THEOREM ViewsInvariant == ViewsSpec => []ViewsInv
<1> QED BY ViewsStarts, ViewsStep, PTL DEF ViewsSpec

LEMMA RemoteIsViews == RemoteSpec => ViewsSpec /\ PanelSpec
<1>1. RemoteInit => ViewsInit /\ PanelInit
  BY DEF RemoteInit
<1>2. [RemoteNext]_<<focus, trashVars, editVars, panelVars, dirVars, downVars, pipesVars, viewVars>> =>
        [ViewsNext]_viewVars /\ [PanelNext]_panelVars
  BY DEF RemoteNext
<1> QED BY <1>1, <1>2, PTL DEF RemoteSpec, ViewsSpec, PanelSpec

(* The references say which views show a server, so that closePaneTab      *)
(* tells the host exactly when the last pane lets go of it; a server       *)
(* closed in a pane stays closed there; every live connection is in a      *)
(* pane, on its way to one, or lost for a reason the code has; and the     *)
(* file panel shows the listing asked for last (pane-selection.js,         *)
(* SshPanel.jsx, useFileBrowser): for any number of connections, panes,    *)
(* lists under way and requests of the agent.                              *)
THEOREM PanesAreSound == RemoteSpec => []PanesSound
<1>1. ViewsInv => ViewsSound
  BY ViewsAreSound
<1>2. ShowsTheLatest /\ ViewsSound => PanesSound
  BY DEF PanesSound
<1> QED BY <1>1, <1>2, RemoteIsViews, ViewsInvariant, PanelShowsTheLatest, PTL

LEMMA RemoteIsTheRest == RemoteSpec => TrashSpec /\ EditSpec /\ DownSpec
<1>1. RemoteInit => TrashInit /\ EditInit /\ DownInit
  BY DEF RemoteInit
<1>2. [RemoteNext]_<<focus, trashVars, editVars, panelVars, dirVars, downVars, pipesVars, viewVars>> =>
        [TrashNext]_trashVars /\ [EditNext]_editVars /\ [DownNext]_downVars
  BY DEF RemoteNext
<1> QED BY <1>1, <1>2, PTL DEF RemoteSpec, TrashSpec, EditSpec, DownSpec

(* The states of the seven modules keep their shape: two entries of the    *)
(* trash never share a name, a pane that shows servers selects one of      *)
(* them and shows none twice, a download keeps to its chunks and tries.    *)
THEOREM RemoteTypesCorrect == RemoteSpec => []RemoteTypeOK
<1>1. DirInv => DirTypeOK
  BY DEF DirInv, DirTypeOK
<1>2. DownInv => DownTypeOK
  BY DEF DownInv, DownTypeOK, Download
<1>3. PipesInv => PipesTypeOK
  BY DEF PipesInv, ArcInv, ScpInv, ArcRec, ScpRec, PipesTypeOK
<1>4. ViewsInv => ViewsTypeOK
  BY ViewsAreSound
<1>5. TrashTypeOK /\ EditorTypeOK /\ PanelTypeOK /\ DirTypeOK /\ DownTypeOK /\ PipesTypeOK /\ ViewsTypeOK => RemoteTypeOK
  BY DEF RemoteTypeOK
<1> QED
  BY <1>1, <1>2, <1>3, <1>4, <1>5, RemoteIsViews, RemoteIsTheRest, RemoteIsDirAndPipes, ViewsInvariant,
     PanelShowsTheLatest, TrashTypeCorrect, EditorTypeCorrect, DownloadInvariant, DirInvariant, PipesInvariant, PTL
=============================================================================
