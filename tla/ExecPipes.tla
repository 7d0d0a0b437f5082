------------------------------ MODULE ExecPipes -----------------------------
(* Transfers over an exec channel: a folder as a tar archive               *)
(* (streamDownloadArchive, streamArchiveExec) and one file over SCP        *)
(* (src/scp.js, scpReadFile, scpWriteFile).  Output, exit status, error    *)
(* and close of the channel are events of their own; a lost transport      *)
(* closes the channel without an exit status; the HTTP client may leave.   *)
EXTENDS Integers, Sequences

CONSTANTS Parts,    \* parts of the archive, and of the SCP file
          ScpLimit  \* maxBytes of an SCP download, in parts

ASSUME PipesAssumption == Parts \in Nat \ {0} /\ ScpLimit \in Nat

VARIABLES arc,  \* the archive request: the remote tar, its channel, the response
          scp   \* the SCP call: what the server did, what arrived, the answer

pipesVars == <<arc, scp>>

ArcInit == arc = [tar |-> "none", left |-> Parts, sent |-> 0, started |-> FALSE, broken |-> FALSE,
                  exit |-> "none", lost |-> FALSE, chan |-> "open", resp |-> "open"]

(* The path is a directory and the probe has chosen how to name it; the    *)
(* channel is refused or tar starts.                                       *)
ArcStart ==
  /\ arc.tar = "none" /\ arc.resp = "open"
  /\ \/ arc' = [arc EXCEPT !.resp = "refused"]
     \/ arc' = [arc EXCEPT !.tar = "running"]
  /\ UNCHANGED scp

(* The first output byte sends the headers; a torn-down stream is ignored. *)
ArcData ==
  /\ arc.tar = "running" /\ arc.left > 0 /\ arc.chan = "open"
  /\ arc' = IF arc.broken THEN [arc EXCEPT !.left = @ - 1]
            ELSE [arc EXCEPT !.left = @ - 1, !.sent = @ + 1, !.started = TRUE, !.resp = "streaming"]
  /\ UNCHANGED scp

(* tar ends: with status 0 after its last part, or with an error or a      *)
(* signal anywhere.                                                        *)
TarExits ==
  /\ arc.tar = "running" /\ arc.chan = "open"
  /\ \/ arc.left = 0 /\ arc' = [arc EXCEPT !.tar = "ok", !.exit = "ok"]
     \/ arc' = [arc EXCEPT !.tar = "bad", !.exit = "bad"]
  /\ UNCHANGED scp

(* res.destroy(): the client sees a body that breaks off.                  *)
Cuts(a) == [a EXCEPT !.broken = TRUE, !.resp = IF @ = "streaming" THEN "cut" ELSE @]

ArcError ==
  /\ arc.tar \in {"running", "ok", "bad"} /\ arc.chan = "open" /\ ~arc.broken
  /\ arc' = [Cuts(arc) EXCEPT !.chan = "failed", !.resp = IF arc.started THEN @ ELSE "refused"]
  /\ UNCHANGED scp

ClientLeaves ==
  /\ arc.tar # "none" /\ arc.resp \in {"open", "streaming"}
  /\ arc' = [arc EXCEPT !.broken = TRUE, !.resp = "left"]
  /\ UNCHANGED scp

(* The close event, with or without an exit status before it.              *)
ArcCloses(lost) ==
  /\ arc.chan = "open" /\ arc.tar \in (IF lost THEN {"running"} ELSE {"ok", "bad"})
  /\ arc' = LET a == [arc EXCEPT !.chan = "closed", !.lost = lost] IN
            CASE a.broken  -> a
              [] ~a.broken /\ ~a.started -> [a EXCEPT !.resp = "refused"]
              [] ~a.broken /\ a.started /\ a.exit = "bad" -> Cuts(a)
              [] ~a.broken /\ a.started /\ a.exit # "bad" -> [a EXCEPT !.resp = "ended"]
  /\ UNCHANGED scp
-----------------------------------------------------------------------------
(* SCP, an upload ("t") or a download ("f").  buf holds what arrived and   *)
(* was not read: "ack", "nack", "head", "part".  The server follows the    *)
(* protocol or refuses at any turn; turn counts what it has sent, -1 once  *)
(* it has refused.                                                         *)
ScpInit ==
  \E dir \in {"t", "f"}, size \in 0..Parts :
    scp = [dir |-> dir, size |-> size, turn |-> 0, step |-> "ask", buf |-> <<>>,
           closed |-> FALSE, got |-> 0, file |-> "old", answer |-> "none"]

(* What the server may send next: it acknowledges the start, the header    *)
(* and the data of an upload, the last when the file is written; it sends  *)
(* header, parts and an acknowledgement of a download.                     *)
ServerSays(m) ==
  /\ ~scp.closed /\ scp.answer = "none"
  /\ \/ scp.dir = "t" /\ m = "ack" /\ scp.turn \in 0..2
        /\ (scp.turn = 1 => scp.step \in {"header", "data"}) /\ (scp.turn = 2 => scp.step = "data")
     \/ scp.dir = "f" /\ m = "head" /\ scp.turn = 0
     \/ scp.dir = "f" /\ m = "part" /\ scp.turn \in 1..scp.size /\ scp.step = "data"
     \/ scp.dir = "f" /\ m = "ack" /\ scp.turn = scp.size + 1 /\ scp.step = "data"
     \/ m = "nack" /\ scp.turn >= 0
  /\ scp' = [scp EXCEPT !.buf = Append(@, m), !.turn = IF m = "nack" THEN -1 ELSE @ + 1,
             !.file = IF scp.dir = "t" /\ m = "ack" /\ scp.turn = 2 THEN "whole"
                      ELSE IF scp.dir = "t" /\ scp.step = "data" /\ scp.turn = 2 THEN "part" ELSE @]
  /\ UNCHANGED arc

(* The channel fails or closes, or the 30 s of the reader are over.        *)
ScpEnds ==
  /\ ~scp.closed /\ scp' = [scp EXCEPT !.closed = TRUE] /\ UNCHANGED arc

(* The reader hands out what has arrived even after the close; with too    *)
(* little of it a closed reader fails.                                     *)
Says(m) == scp.buf # <<>> /\ Head(scp.buf) = m
Go(step) == scp' = [scp EXCEPT !.step = step, !.buf = Tail(@)]
Answers(a) == scp' = [scp EXCEPT !.answer = a, !.closed = TRUE]

ScpReads ==
  /\ scp.answer = "none"
  /\ \/ /\ scp.dir = "t" /\ Says("ack")
        /\ \/ scp.step = "ask" /\ Go("header")
           \/ scp.step = "header" /\ Go("data")
           \/ scp.step = "data" /\ Answers("ok")
     \/ /\ scp.dir = "f" /\ scp.step = "ask" /\ Says("head")
        /\ IF scp.size > ScpLimit THEN Answers("truncated") ELSE Go("data")
     \/ /\ scp.dir = "f" /\ scp.step = "data" /\ Says("part")
        /\ scp' = [scp EXCEPT !.got = @ + 1, !.buf = Tail(@)]
     \/ scp.dir = "f" /\ scp.step = "data" /\ Says("ack") /\ scp.got = scp.size /\ Answers("ok")
     \/ Says("nack") /\ Answers("error")
     \/ scp.closed /\ scp.buf = <<>> /\ Answers("error")
  /\ UNCHANGED arc

PipesInit == ArcInit /\ ScpInit
PipesNext ==
  \/ ArcStart \/ ArcData \/ TarExits \/ ArcError \/ ClientLeaves
  \/ \E lost \in BOOLEAN : ArcCloses(lost)
  \/ \E m \in {"ack", "nack", "head", "part"} : ServerSays(m)
  \/ ScpEnds \/ ScpReads
PipesSpec == PipesInit /\ [][PipesNext]_pipesVars
-----------------------------------------------------------------------------
PipesTypeOK ==
  /\ arc.resp \in {"open", "refused", "streaming", "cut", "left", "ended"} /\ arc.sent + arc.left <= Parts
  /\ scp.answer \in {"none", "ok", "error", "truncated"} /\ scp.got \in 0..scp.size

Whole == arc.tar = "ok" /\ arc.sent = Parts

(* A response that ends as complete carries the whole archive, except when *)
(* the channel closed without an exit status; an SCP upload answered as    *)
(* done has been written by the server to the end, and a download answered *)
(* as done has every part its header announced.                            *)
PipesFailClosed ==
  /\ arc.resp = "ended" => Whole \/ arc.lost
  /\ scp.answer = "ok" => IF scp.dir = "t" THEN scp.file = "whole" ELSE scp.got = scp.size
=============================================================================
