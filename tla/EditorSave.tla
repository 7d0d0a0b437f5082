----------------------------- MODULE EditorSave -----------------------------
(* Editing a remote file (client/SshFiles.jsx openEditor, saveEditor,      *)
(* restoreLastSave, restoreBackup; sftp-editor-save.js).  SFTP has no      *)
(* compare-and-swap: a save reads the file, backs it up, reads it again    *)
(* and writes.  Editors of several panels and other programs touch the     *)
(* same path, a panel may change its connection while its editor is open,  *)
(* and a transfer may fail at any of these steps.                          *)
EXTENDS Integers

CONSTANTS Editor,      \* panels with an editor
          Server,      \* connections whose file has the edited path
          Unreadable,  \* versions that are binary or over MAX_EDITABLE_BYTES
          MaxVersion,  \* bound: versions ever made; 0 is a cut-off file
          MaxRequests  \* bound: saves and restores asked for

ASSUME EditorAssumption == MaxVersion \in Nat \ {0} /\ MaxRequests \in Nat
                       /\ Unreadable \subseteq 2..MaxVersion /\ Server # {}

VARIABLES remote,   \* [Server -> version the file holds]
          backups,  \* [Server -> versions in .dsh-backup files]
          made,     \* versions made so far
          ed,       \* [Editor -> the panel's editor and its request]
          late,     \* versions that landed between a second read and the end of its write
          requests  \* saves and restores asked for

editVars == <<remote, backups, made, ed, late, requests>>
Version == 0..MaxVersion

Closed == [pc |-> "closed", conn |-> CHOOSE c \in Server : TRUE, to |-> CHOOSE c \in Server : TRUE,
           open |-> FALSE, base |-> 0, text |-> 0, last |-> <<>>]

(* Servers set up alike hold the same version.                             *)
EditInit ==
  /\ remote = [c \in Server |-> 1] /\ made = 1
  /\ backups = [c \in Server |-> {}]
  /\ ed = [e \in Editor |-> Closed] /\ late = {} /\ requests = 0

InWindow(c, e) == \E f \in Editor \ {e} : ed[f].to = c /\ ed[f].pc \in {"write", "writing"}

(* Whatever reaches the file while somebody is about to write it is late.  *)
Puts(e, c, v) ==
  /\ remote' = [remote EXCEPT ![c] = v]
  /\ late' = IF InWindow(c, e) THEN late \cup {v} ELSE late

(* openEditor: stat and read; a binary or a large file is refused.         *)
Open(e) ==
  /\ ed[e].pc = "closed" /\ remote[ed[e].conn] \notin Unreadable
  /\ ed' = [ed EXCEPT ![e].pc = "edit", ![e].open = TRUE, ![e].base = remote[ed[e].conn]]
  /\ UNCHANGED <<remote, backups, made, late, requests>>

Edit(e) ==
  /\ ed[e].pc = "edit" /\ made < MaxVersion /\ made + 1 \notin Unreadable
  /\ made' = made + 1 /\ ed' = [ed EXCEPT ![e].pc = "dirty", ![e].text = made + 1]
  /\ UNCHANGED <<remote, backups, late, requests>>

(* The panel shows another connection; the editor stays open.              *)
SwitchServer(e, c) ==
  /\ c # ed[e].conn
  /\ ed' = [ed EXCEPT ![e].conn = c, ![e].last = <<>>]
  /\ UNCHANGED <<remote, backups, made, late, requests>>

Request(e, base, text) ==
  /\ requests < MaxRequests /\ requests' = requests + 1
  /\ ed' = [ed EXCEPT ![e].pc = "read", ![e].to = ed[e].conn, ![e].base = base, ![e].text = text]
  /\ UNCHANGED <<remote, backups, made, late>>

Save(e) == ed[e].pc = "dirty" /\ Request(e, ed[e].base, ed[e].text)

(* restoreLastSave: the last save the other way round.                     *)
RestoreLast(e) == ed[e].pc = "closed" /\ ed[e].last # <<>> /\ Request(e, ed[e].last[2], ed[e].last[1])

(* restoreBackup reads the backup and the file first.                      *)
RestoreBackup(e) ==
  /\ ed[e].pc = "closed" /\ remote[ed[e].conn] \notin Unreadable
  /\ \E v \in backups[ed[e].conn] : Request(e, remote[ed[e].conn], v)

(* A failed save leaves the editor open with its text.                     *)
Shut(e, last) == [Closed EXCEPT !.conn = ed[e].conn, !.last = last]
Back(e) == IF ed[e].open THEN [ed[e] EXCEPT !.pc = "dirty", !.to = Closed.to] ELSE Shut(e, ed[e].last)
Fails(e) == ed' = [ed EXCEPT ![e] = Back(e)] /\ UNCHANGED <<remote, backups, made, late, requests>>

(* saveEditorFile up to the backup: the file must still be what was read.  *)
ReadCurrent(e) ==
  /\ ed[e].pc = "read"
  /\ IF remote[ed[e].to] = ed[e].base /\ remote[ed[e].to] \notin Unreadable
     THEN ed' = [ed EXCEPT ![e].pc = "backup"] /\ UNCHANGED <<remote, backups, made, late, requests>>
     ELSE Fails(e)

(* The backup is created as a new private file and read back.              *)
BackUp(e) ==
  /\ ed[e].pc = "backup"
  /\ \/ /\ backups' = [backups EXCEPT ![ed[e].to] = @ \cup {ed[e].base}]
        /\ ed' = [ed EXCEPT ![e].pc = "reread"]
        /\ UNCHANGED <<remote, made, late, requests>>
     \/ Fails(e)

Trusting(e) ==            \* faulty variant: the second read is left out
  /\ ed[e].pc = "reread" /\ ed' = [ed EXCEPT ![e].pc = "write"]
  /\ UNCHANGED <<remote, backups, made, late, requests>>
ReadAgain(e) ==
  /\ ed[e].pc = "reread"
  /\ IF remote[ed[e].to] = ed[e].base
     THEN ed' = [ed EXCEPT ![e].pc = "write"] /\ UNCHANGED <<remote, backups, made, late, requests>>
     ELSE Fails(e)

(* Opening for writing empties the file.                                   *)
WriteBegins(e) ==
  LET c == ed[e].to IN
  /\ ed[e].pc = "write"
  /\ Puts(e, c, 0)
  /\ ed' = [ed EXCEPT ![e].pc = "writing"]
  /\ UNCHANGED <<backups, made, requests>>

(* The bytes are there, mixed with those of another write under way; or    *)
(* the transfer breaks.  A panel that has moved on drops the answer.       *)
WriteEnds(e) ==
  LET c == ed[e].to
      mixed == \E f \in Editor \ {e} : ed[f].to = c /\ ed[f].pc = "writing" IN
  /\ ed[e].pc = "writing"
  /\ \/ /\ \E v \in IF mixed THEN {0, ed[e].text} ELSE {ed[e].text} : Puts(e, c, v)
        /\ ed' = [ed EXCEPT ![e] = IF @.conn = c
             THEN Shut(e, <<ed[e].base, ed[e].text>>) ELSE Back(e)]
        /\ UNCHANGED <<backups, made, requests>>
     \/ Fails(e)

(* Another program writes the file.                                        *)
Elsewhere(c) ==
  /\ made < MaxVersion /\ made' = made + 1
  /\ remote' = [remote EXCEPT ![c] = made + 1]
  /\ late' = IF \E f \in Editor : ed[f].to = c /\ ed[f].pc \in {"write", "writing"}
             THEN late \cup {made + 1} ELSE late
  /\ UNCHANGED <<backups, ed, requests>>

EditNext ==
  \/ \E e \in Editor : \/ Open(e) \/ Edit(e) \/ Save(e) \/ RestoreLast(e) \/ RestoreBackup(e)
                       \/ ReadCurrent(e) \/ BackUp(e) \/ ReadAgain(e) \/ WriteBegins(e) \/ WriteEnds(e)
                       \/ \E c \in Server : SwitchServer(e, c)
  \/ \E c \in Server : Elsewhere(c)
EditSpec == EditInit /\ [][EditNext]_editVars
-----------------------------------------------------------------------------
(* An editor with a text was opened or restores; its backups are versions. *)
EditorTypeOK ==
  /\ remote \in [Server -> Version] /\ backups \in [Server -> SUBSET Version]
  /\ made \in Version /\ late \subseteq Version
  /\ \A e \in Editor : ed[e].pc = "dirty" => ed[e].open

(* A save replaces only the version the operator opened, even when its     *)
(* panel shows another server by then, and only after a backup of it lies  *)
(* on that server: unless the version came after the second read, which    *)
(* SFTP cannot exclude (saveEditorFile, "best-effort").                    *)
ReplacesWhatWasRead ==
  [][\A e \in Editor : ed[e].pc = "write" /\ ed'[e].pc = "writing" =>
        LET was == remote[ed[e].to] IN
          was \in late \/ (was = ed[e].base /\ was \in backups[ed[e].to])]_editVars
=============================================================================
