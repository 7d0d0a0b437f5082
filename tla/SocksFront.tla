----------------------------- MODULE SocksFront -----------------------------
(* src/socks5.js behind tunnelStartDynamic: one accepted client of a       *)
(* dynamic forward.  It may send its greeting, its request and its payload *)
(* in any chunks and without waiting for answers, and leave at any moment; *)
(* the channel to the address it asked for opens, or is refused, later.    *)
EXTENDS Integers, Sequences, SequencesExt

CONSTANTS Openings, \* [greeting, request]: how a client may begin
          Payload   \* what it sends after that

(* The payload is a sequence of chunks.                                    *)
ASSUME SocksAssumption == Payload \in Seq(STRING)

VARIABLES opening,  \* how this client begins
          given,    \* how many tokens of it have arrived
          served,   \* attachSocks5: state, buffer and what it wrote back
          accepted, \* here | gone | early: left while the channel opened
          channel,  \* none | opening | open | closed
          upstream  \* written to the channel

socksVars == <<opening, given, served, accepted, channel, upstream>>

(* A greeting and a request are frames of two tokens; the first tells what *)
(* the frame says.                                                         *)
FrameLen == 2
Frame(kind) == <<kind, "rest">>
FromClient == Frame(opening.greeting) \o Frame(opening.request) \o Payload

SocksInit ==
  /\ opening \in Openings /\ given = 0
  /\ served = [state |-> "greeting", buffer |-> <<>>, replies |-> <<>>]
  /\ accepted = "here" /\ channel = "none" /\ upstream = <<>>

(* parseGreeting: SOCKS5 and the no-auth method, or nothing.               *)
GreetingReply(frame) == IF frame = "no-auth" THEN "method" ELSE "no-method"
(* parseRequest: CONNECT to an address ssh2 takes.                         *)
RequestReply(frame) ==
  CASE frame = "connect" -> "connecting" [] frame = "bind" -> "command" [] OTHER -> "address"

CutFrame(b) == SubSeq(b, FrameLen + 1, Len(b))

(* One turn of onData's loop: nothing until a frame is complete; a frame   *)
(* is answered and cut off, or refused.                                    *)
Turn(s) ==
  IF s.state \notin {"greeting", "request"} \/ Len(s.buffer) < FrameLen THEN s
  ELSE LET reply == IF s.state = "greeting" THEN GreetingReply(Head(s.buffer))
                    ELSE RequestReply(Head(s.buffer)) IN
       CASE reply = "method" ->
              [state |-> "request", buffer |-> CutFrame(s.buffer), replies |-> Append(s.replies, reply)]
         [] reply = "connecting" ->
              [s EXCEPT !.state = "open", !.buffer = CutFrame(s.buffer)]
         [] OTHER -> [s EXCEPT !.state = "refused", !.replies = Append(@, reply)]

(* A 'data' event: the parser's, or the pipe's once the channel is open.   *)
Arrives(n) ==
  LET chunk == SubSeq(FromClient, given + 1, given + n)
      now == Turn(Turn([served EXCEPT !.buffer = @ \o chunk])) IN
  /\ accepted = "here" /\ given + n <= Len(FromClient) /\ given' = given + n
  /\ IF served.state = "piped"
     THEN upstream' = upstream \o chunk /\ UNCHANGED <<served, accepted, channel>>
     ELSE /\ served' = now /\ UNCHANGED upstream
          /\ accepted' = IF now.state = "refused" THEN "gone" ELSE "here"
          /\ channel' = IF now.state = "open" THEN "opening" ELSE channel
  /\ UNCHANGED opening

(* forwardOut's callback, whether the client is still there or not.        *)
ChannelOpens ==
  /\ channel = "opening" /\ channel' = "open"
  /\ served' = [state |-> "piped", buffer |-> <<>>, replies |-> Append(served.replies, "succeeded")]
  /\ upstream' = served.buffer
  /\ UNCHANGED <<opening, given, accepted>>
ChannelFails ==
  /\ channel = "opening" /\ channel' = "closed" /\ accepted' = "gone"
  /\ served' = [served EXCEPT !.state = "refused", !.replies = Append(@, "failure")]
  /\ UNCHANGED <<opening, given, upstream>>

(* The client closes, half-closes or breaks: the socket is destroyed, and  *)
(* its close takes the channel along once that is piped.                   *)
ClientLeaves ==
  /\ accepted = "here"
  /\ accepted' = IF channel = "opening" THEN "early" ELSE "gone"
  /\ channel' = IF channel = "open" THEN "closed" ELSE channel
  /\ UNCHANGED <<opening, given, served, upstream>>

ChannelCloses ==
  /\ channel = "open" /\ channel' = "closed" /\ accepted' = "gone"
  /\ UNCHANGED <<opening, given, served, upstream>>

SocksNext ==
  \/ \E n \in 1..Len(FromClient) : Arrives(n)
  \/ ChannelOpens \/ ChannelFails \/ ClientLeaves \/ ChannelCloses
SocksSpec == SocksInit /\ [][SocksNext]_socksVars
-----------------------------------------------------------------------------
SocksTypeOK ==
  /\ served.state \in {"greeting", "request", "open", "piped", "refused"}
  /\ accepted \in {"here", "gone", "early"} /\ channel \in {"none", "opening", "open", "closed"}

(* However its bytes are cut, the target gets the client's payload from    *)
(* the first byte on and all of it that has arrived; a client that is sent *)
(* away was told why, and one that asked for what is served only when the  *)
(* channel failed; a channel is left open without its client only when the *)
(* client went while the channel was being opened.                         *)
SocksExact ==
  /\ channel \in {"open", "closed"} /\ served.state = "piped" =>
       upstream = SubSeq(Payload, 1, given - 2 * FrameLen)
  /\ served.state = "refused" =>
       Last(served.replies) = CASE opening.greeting # "no-auth" -> "no-method"
                                [] opening.greeting = "no-auth" /\ opening.request # "connect" ->
                                     RequestReply(opening.request)
                                [] OTHER -> "failure"
  /\ channel = "open" => accepted \in {"here", "early"}
=============================================================================
