---------------------------- MODULE SftpPipeline ----------------------------
(***************************************************************************)
(* uploadPipeline (sftp-pipeline.js): the blocks of a local file are read  *)
(* and written to an open SFTP handle, several at a time.  Answers come in *)
(* any order; only a contiguous acknowledged prefix is reported, as the    *)
(* checkpoint an interrupted upload resumes from.                          *)
(***************************************************************************)
EXTENDS Integers, FiniteSets
CONSTANTS
  Size,   \* blocks of the file
  Start,  \* the block the upload starts from
  Window  \* requests that may be under way

ASSUME PipelineAssumption == Size \in Nat /\ Start \in 0..Size /\ Window \in Nat \ {0}

VARIABLES
  phase,     \* of the call: "open", "run", "closing", "ok" or "failed"
  block,     \* each block: "todo", "read" (being read), "sent", "quit" or "acked"
  next,      \* the next block to launch
  completed, \* acknowledged blocks beyond the prefix
  committed, \* the contiguous prefix
  progress,  \* what onProgress last reported
  stopped,   \* an error was met
  late,      \* the OPEN reply was not waited for
  landed,    \* the blocks the server has written
  handle     \* "none", "open" or "closed", at the server

pipeVars == <<phase, block, next, completed, committed, progress, stopped, late, landed, handle>>

Block   == Start..(Size - 1)
pending == {b \in Block : block[b] \in {"read", "sent"}}
finished == phase \in {"closing", "ok", "failed"}

(* Types; launched blocks come before next, and no block before the        *)
(* committed prefix is counted twice.                                      *)
PipelineTypeOK ==
  /\ phase \in {"open", "run", "closing", "ok", "failed"}
  /\ block \in [Block -> {"todo", "read", "sent", "quit", "acked"}]
  /\ next \in Start..Size /\ committed \in Start..Size /\ progress \in Start..Size
  /\ completed \subseteq Block /\ landed \subseteq Block
  /\ stopped \in BOOLEAN /\ late \in BOOLEAN /\ handle \in {"none", "open", "closed"}
  /\ \A b \in completed : b > committed /\ block[b] = "acked"
  /\ \A b \in Block : block[b] = "todo" <=> b >= next

PipelineInit ==
  /\ phase = "open" /\ block = [b \in Block |-> "todo"] /\ next = Start
  /\ completed = {} /\ committed = Start /\ progress = Start
  /\ stopped = FALSE /\ late = FALSE /\ landed = {} /\ handle = "none"

-----------------------------------------------------------------------------
(* OPEN is answered in time, fails, or is given up; a late reply closes    *)
(* the handle again.                                                       *)
Opens ==
  /\ phase = "open" /\ phase' = "run" /\ handle' = "open"
  /\ UNCHANGED <<block, next, completed, committed, progress, stopped, late, landed>>

OpenGivenUp ==
  /\ phase = "open" /\ phase' = "failed" /\ late' \in BOOLEAN
  /\ UNCHANGED <<block, next, completed, committed, progress, stopped, landed, handle>>

LateReply ==
  /\ late /\ handle' = IF handle = "none" THEN "open" ELSE "closed"
  /\ late' = (handle = "none")
  /\ UNCHANGED <<phase, block, next, completed, committed, progress, stopped, landed>>

(* The inner loop fills the window.                                        *)
WindowOpen == Cardinality(pending) < Window

Launch ==
  /\ phase = "run" /\ committed < Size /\ ~stopped /\ next < Size /\ WindowOpen
  /\ block' = [block EXCEPT ![next] = "read"] /\ next' = next + 1
  /\ UNCHANGED <<phase, completed, committed, progress, stopped, late, landed, handle>>

(* The local read is back: the write is sent, unless the call is over.     *)
AfterRead(b) == IF finished \/ stopped THEN "quit" ELSE "sent"

ReadDone(b) ==
  /\ block[b] = "read" /\ block' = [block EXCEPT ![b] = AfterRead(b)]
  /\ UNCHANGED <<phase, next, completed, committed, progress, stopped, late, landed, handle>>

(* The server writes a block it was sent.                                  *)
ServerWrites(b) ==
  /\ block[b] = "sent" /\ handle = "open" /\ b \notin landed
  /\ landed' = landed \union {b}
  /\ UNCHANGED <<phase, block, next, completed, committed, progress, stopped, late, handle>>

(* The prefix grows over every acknowledged block that follows it.         *)
CountsAcks(c, done) == c = committed + 1 \* faulty variant
PrefixEnd(c, done) ==
  (c = Size \/ c \notin done) /\ \A b \in committed..(c - 1) : b \in done

Advance(done) ==
  \E c \in committed..Size :
    /\ PrefixEnd(c, done)
    /\ committed' = c /\ progress' = c
    /\ completed' = {b \in done : b >= c}

Acked(b) ==
  /\ block[b] = "sent" /\ b \in landed
  /\ IF finished \/ stopped
     THEN block' = [block EXCEPT ![b] = "quit"] /\ UNCHANGED <<completed, committed, progress>>
     ELSE block' = [block EXCEPT ![b] = "acked"] /\ Advance(completed \union {b})
  /\ UNCHANGED <<phase, next, stopped, late, landed, handle>>

(* A read or a write fails: the loop stops launching.                      *)
BlockFails(b) ==
  /\ block[b] \in {"read", "sent"}
  /\ block' = [block EXCEPT ![b] = "quit"] /\ stopped' = TRUE
  /\ UNCHANGED <<phase, next, completed, committed, progress, late, landed, handle>>

(* The call ends: everything written; an error, the abort or the idle      *)
(* deadline.  The handle is closed before the caller hears of it.          *)
AllWritten == committed = Size /\ pending = {}

Succeeds ==
  /\ phase = "run" /\ AllWritten /\ handle = "open"
  /\ phase' = "ok" /\ handle' \in {"closed", handle}
  /\ UNCHANGED <<block, next, completed, committed, progress, stopped, late, landed>>

Throws ==
  /\ phase = "run" /\ phase' = "closing"
  /\ UNCHANGED <<block, next, completed, committed, progress, stopped, late, landed, handle>>

(* The close is answered, or given up after two seconds.                   *)
Closes ==
  /\ phase = "closing" /\ phase' = "failed" /\ handle' \in {"closed", handle}
  /\ UNCHANGED <<block, next, completed, committed, progress, stopped, late, landed>>

CloseArrives ==
  /\ phase \in {"ok", "failed"} /\ ~late /\ handle = "open" /\ handle' = "closed"
  /\ UNCHANGED <<phase, block, next, completed, committed, progress, stopped, late, landed>>

PipelineNext ==
  \/ Opens \/ OpenGivenUp \/ LateReply \/ Launch \/ Succeeds \/ Throws \/ Closes \/ CloseArrives
  \/ \E b \in Block : ReadDone(b) \/ ServerWrites(b) \/ Acked(b) \/ BlockFails(b)

PipelineSpec == PipelineInit /\ [][PipelineNext]_pipeVars

-----------------------------------------------------------------------------
(* What is reported as progress is on the server: a resumed upload can     *)
(* start there although later blocks were acknowledged before earlier ones.*)
ProgressIsOnServer == \A b \in Start..(progress - 1) : b \in landed

(* Success is only returned when every block was written and none is left  *)
(* in flight.                                                              *)
OkMeansWhole == phase = "ok" => landed = Block /\ pending = {}

(* What the pipeline reports, on the way and at its end, is on the server. *)
PipelineSound == ProgressIsOnServer /\ OkMeansWhole
=============================================================================
