---------------------------- MODULE BannerRepair ----------------------------
(* src/ssh-banner.js and openRepairedSock: after ssh2 has refused a peer's *)
(* identification line, the next attempt reads the stream itself up to     *)
(* that line, replaces it and hands the rest to ssh2 through a Duplex.     *)
(* Bytes keep arriving, in any chunks, while that happens.                 *)
EXTENDS Integers, Sequences, SequencesExt

CONSTANTS Lines,     \* lines that begin with SSH-, as a peer may send them
          Greetings, \* greeting lines a peer may send first
          MaxBytes   \* maxBytes of readBanner, in tokens

(* What IDENT_RE and SOFTWARE_RE tell apart in an identification line.      *)
LineType == [version : STRING, stray : BOOLEAN, junk : BOOLEAN, software : STRING, comments : STRING]
ASSUME BannerAssumption ==
  MaxBytes \in Nat /\ Lines \subseteq LineType /\ \A g \in Greetings : g \in Seq({"text"} \X STRING)

VARIABLES peer,    \* all the peer sends, as tokens
          sent,    \* how much of it has reached the socket
          inbox,   \* what the socket holds and has not emitted
          flowing, \* the socket emits what it has
          sock,    \* open | ended | destroyed
          reader,  \* connecting | reading | settled | piped | failed
          head,    \* readBanner's buffer
          toSsh2   \* what the Duplex was given

bannerVars == <<peer, sent, inbox, flowing, sock, reader, head, toSsh2>>

(* A token is an identification line or some other text.                   *)
Ident(l) == <<"ident", l>>
Text(t)  == <<"text", t>>

BannerInit ==
  /\ \E g \in Greetings, l \in Lines :
       peer = g \o <<Ident(l), Text("nl"), Text("kex1"), Text("kex2")>>
  /\ sent = 0 /\ inbox = <<>> /\ flowing = FALSE /\ sock = "open"
  /\ reader = "connecting" /\ head = <<>> /\ toSsh2 = <<>>

(* planBannerRepair.  A line is its protocol version, whether stray blanks *)
(* precede or junk follows the software, the software and the comments.    *)
Rebuilt(l) == [l EXCEPT !.version = IF @ = "1.99" THEN @ ELSE "2.0", !.stray = FALSE, !.junk = FALSE]
PlanBannerRepair(l) ==
  IF l.version \notin {"1.99", "2.0", "2.1"} \/ l.software = "" THEN [action |-> "reject", next |-> l]
  ELSE [action |-> IF Rebuilt(l) = l THEN "keep" ELSE "rewrite", next |-> Rebuilt(l)]

(* identLineEnd: the first identification whose line is complete.          *)
IdentAt(b) == {i \in DOMAIN b : b[i][1] = "ident" /\ i < Len(b) /\ \A j \in 1..(i - 1) : b[j][1] # "ident"}

(* openRepairedSock: the socket connects, or the hop's stream is there.    *)
Connects ==
  /\ reader = "connecting" /\ reader' = "reading" /\ flowing' = TRUE
  /\ UNCHANGED <<peer, sent, inbox, sock, head, toSsh2>>
ConnectFails ==
  /\ reader = "connecting" /\ reader' = "failed" /\ sock' = "destroyed"
  /\ UNCHANGED <<peer, sent, inbox, flowing, head, toSsh2>>

PeerSends ==
  /\ reader # "connecting" /\ sock = "open" /\ sent < Len(peer)
  /\ sent' = sent + 1 /\ inbox' = Append(inbox, peer[sent + 1])
  /\ UNCHANGED <<peer, flowing, sock, reader, head, toSsh2>>
PeerEnds ==
  /\ reader # "connecting" /\ sock = "open" /\ sock' = "ended"
  /\ UNCHANGED <<peer, sent, inbox, flowing, reader, head, toSsh2>>

(* settle pauses the socket before it lets go of it.                       *)
FlowsAfterBanner == FALSE

(* A 'data' event: readBanner's, then the forwarder's, which pauses when   *)
(* the Duplex is full.  A flowing socket nobody listens to discards.       *)
Emits ==
  /\ flowing /\ inbox # <<>> /\ sock # "destroyed" /\ inbox' = <<>>
  /\ head' = IF reader = "reading" THEN head \o inbox ELSE head
  /\ reader' = CASE reader # "reading" -> reader
                 [] reader = "reading" /\ IdentAt(head') # {} -> "settled"
                 [] reader = "reading" /\ IdentAt(head') = {} /\ Len(head') > MaxBytes -> "failed"
                 [] OTHER -> "reading"
  /\ toSsh2' = IF reader = "piped" THEN toSsh2 \o inbox ELSE toSsh2
  /\ flowing' \in CASE reader = "piped" -> BOOLEAN [] reader' = "reading" -> {TRUE}
                    [] OTHER -> {FlowsAfterBanner}
  /\ UNCHANGED <<peer, sent, sock>>

(* The timer, or the peer is gone: the read is given up, and the socket is *)
(* left as it is.                                                          *)
ReadFails ==
  /\ reader = "reading" /\ reader' = "failed" /\ flowing' = FlowsAfterBanner
  /\ UNCHANGED <<peer, sent, inbox, sock, head, toSsh2>>

(* withRepairedBanner once the line is there.                              *)
Attach ==
  /\ reader = "settled"
  /\ LET i == CHOOSE i \in IdentAt(head) : TRUE
         plan == PlanBannerRepair(head[i][2]) IN
     IF plan.action = "reject"
     THEN reader' = "failed" /\ sock' = "destroyed" /\ UNCHANGED <<flowing, toSsh2>>
     ELSE /\ reader' = "piped" /\ flowing' = TRUE /\ UNCHANGED sock
          /\ toSsh2' = [head EXCEPT ![i] = Ident(plan.next)]
  /\ UNCHANGED <<peer, sent, inbox, head>>

(* ssh2 reads on, or is done with the stream.                              *)
Ssh2Reads ==
  /\ reader = "piped" /\ ~flowing /\ flowing' = TRUE
  /\ UNCHANGED <<peer, sent, inbox, sock, reader, head, toSsh2>>
Ssh2Destroys ==
  /\ reader = "piped" /\ sock # "destroyed" /\ sock' = "destroyed"
  /\ UNCHANGED <<peer, sent, inbox, flowing, reader, head, toSsh2>>

BannerNext ==
  \/ Connects \/ ConnectFails \/ PeerSends \/ PeerEnds \/ Emits \/ ReadFails \/ Attach
  \/ Ssh2Reads \/ Ssh2Destroys
BannerSpec == BannerInit /\ [][BannerNext]_bannerVars
-----------------------------------------------------------------------------
BannerTypeOK ==
  /\ sent \in 0..Len(peer) /\ flowing \in BOOLEAN /\ sock \in {"open", "ended", "destroyed"}
  /\ reader \in {"connecting", "reading", "settled", "piped", "failed"}

(* The lines ssh2 accepts.                                                 *)
Ssh2Accepts(l) == l.version \in {"2.0", "1.99"} /\ ~l.stray /\ l.software # ""

(* ssh2 is given what has left the socket, in order and complete, with the *)
(* identification replaced by a line it accepts, of the same software and  *)
(* comments, and only for a peer that speaks SSH-2.                        *)
BannerExact ==
  LET at == CHOOSE i \in DOMAIN peer : peer[i][1] = "ident"
      was == peer[at][2] IN
  reader = "piped" =>
    /\ Len(toSsh2) = sent - Len(inbox)
    /\ \A i \in DOMAIN toSsh2 : i # at => toSsh2[i] = peer[i]
    /\ LET is == toSsh2[at][2] IN
       /\ Ssh2Accepts(is) /\ ~is.junk /\ was.version \in {"1.99", "2.0", "2.1"}
       /\ <<is.software, is.comments>> = <<was.software, was.comments>>
       /\ Ssh2Accepts(was) /\ ~was.junk => is = was
=============================================================================
