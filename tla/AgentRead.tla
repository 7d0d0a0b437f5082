------------------------------ MODULE AgentRead -----------------------------
(* ssh_read (readConnectionOutput, the capture part of appendSessionOutput *)
(* and redactForModel): the agent reads "new" output of a terminal from a  *)
(* bounded capture, rebuilt each time from the last raw snapshot and what  *)
(* came since, so that a credential that spans two reads is still masked.  *)
EXTENDS Integers, Sequences, FiniteSets, SequencesExt

CONSTANTS MaxCapture, \* maxCaptureBytes
          MaxPrinted, \* bound: what the shell prints
          MaxBurst    \* bound: what comes in one piece

ASSUME AgentReadAssumption == MaxCapture \in Nat \ {0} /\ MaxPrinted \in Nat /\ MaxBurst \in Nat

VARIABLES printed,  \* positions printed, each with its kind
          shellUp,  \* the session has not exited
          captured, \* captureBuffer and captureHasDropped
          unread,   \* capturePendingBuffer and capturePendingTruncated
          snapshot, \* lastReadRaw, or NoSnapshot
          told      \* the last answer, with what had been read before it

readVars == <<printed, shellUp, captured, unread, snapshot, told>>

(* Text; the begin and the end of a private key; a label whose value is a  *)
(* secret.                                                                 *)
Pieces == {"text", "begin", "end", "label"}
NoSnapshot == <<[at |-> 0, kind |-> "none"]>>

AgentReadInit ==
  /\ printed = <<>> /\ shellUp = TRUE
  /\ captured = [buf |-> <<>>, dropped |-> FALSE] /\ unread = captured
  /\ snapshot = NoSnapshot
  /\ told = [data |-> <<>>, upTo |-> 0, before |-> 0, truncated |-> FALSE, again |-> FALSE]

TailCapped(s) == SubSeq(s, Len(s) - (IF Len(s) > MaxCapture THEN MaxCapture ELSE Len(s)) + 1, Len(s))
Grown(b, piece) ==
  [buf |-> TailCapped(b.buf \o piece), dropped |-> b.dropped \/ Len(b.buf) + Len(piece) > MaxCapture]

(* appendSessionOutput of what the shell prints; the echo of the agent's   *)
(* own commands is not captured.                                           *)
AppendSessionOutput(kinds) ==
  LET piece == [i \in DOMAIN kinds |-> [at |-> Len(printed) + i, kind |-> kinds[i]]] IN
  /\ shellUp /\ Len(printed) + Len(kinds) <= MaxPrinted
  /\ printed' = printed \o kinds
  /\ captured' = Grown(captured, piece) /\ unread' = Grown(unread, piece)
  /\ UNCHANGED <<shellUp, snapshot, told>>

(* redactForModel: a key is masked from its begin to its end, or to the    *)
(* end of the text; a label with a value becomes a mask.  An item of the   *)
(* result is what it reads like and the positions it stands for.           *)
Item(looks, at) == [looks |-> looks, at |-> at]
RedactStep(done, p) ==
  LET last == IF done = <<>> THEN Item("nothing", {}) ELSE Last(done)
      Merged(looks) == Append(Front(done), Item(looks, last.at \cup {p.at})) IN
  CASE last.looks = "open key" -> Merged(IF p.kind = "end" THEN "key" ELSE "open key")
    [] last.looks = "label" /\ p.kind = "text" -> Merged("secret")
    [] OTHER -> Append(done, Item(IF p.kind = "begin" THEN "open key" ELSE p.kind, {p.at}))
Redact(raw) == FoldLeft(RedactStep, <<>>, raw)
Masks == {"open key", "key", "secret"}

(* What a reader sees: both kinds of key read alike.                       *)
Seen(items) == [i \in DOMAIN items |-> IF items[i].looks = "open key" THEN "key" ELSE items[i].looks]

Continues == snapshot # NoSnapshot /\ ~unread.dropped

(* Mode "new".  The answer is cut behind the text of the previous one when *)
(* that is still how the rebuilt text begins.                              *)
ReadNew ==
  LET raw == IF Continues THEN snapshot \o unread.buf ELSE captured.buf
      complete == Redact(raw)
      previous == IF Continues THEN Redact(snapshot) ELSE <<>>
      extends == Continues /\ IsPrefix(Seen(previous), Seen(complete)) IN
  /\ shellUp
  /\ told' = [data |-> IF extends THEN SubSeq(complete, Len(previous) + 1, Len(complete)) ELSE complete,
              upTo |-> Len(printed), before |-> told.upTo, again |-> ~extends,
              truncated |-> ~Continues /\ (unread.dropped \/ captured.dropped)]
  /\ snapshot' = TailCapped(raw) /\ unread' = [buf |-> <<>>, dropped |-> FALSE]
  /\ UNCHANGED <<printed, shellUp, captured>>

(* Mode "tail" takes nothing away.                                         *)
ReadTail ==
  /\ shellUp
  /\ told' = [data |-> Redact(captured.buf), upTo |-> told.upTo, before |-> told.upTo,
              truncated |-> captured.dropped, again |-> TRUE]
  /\ UNCHANGED <<printed, shellUp, captured, unread, snapshot>>

(* A shell that has exited has nothing to read, not even what is unread.   *)
ShellExits == shellUp /\ shellUp' = FALSE /\ UNCHANGED <<printed, captured, unread, snapshot, told>>

AgentReadNext ==
  \/ \E n \in 1..MaxBurst : \E kinds \in [1..n -> Pieces] : AppendSessionOutput(kinds)
  \/ ReadNew \/ ReadTail \/ ShellExits
AgentReadSpec == AgentReadInit /\ [][AgentReadNext]_readVars
-----------------------------------------------------------------------------
AgentReadTypeOK ==
  /\ Len(captured.buf) <= MaxCapture /\ Len(unread.buf) <= MaxCapture
  /\ snapshot = NoSnapshot \/ Len(snapshot) <= MaxCapture

Covered(items) == UNION {items[i].at : i \in DOMAIN items}
PlainItems(items) == {i \in DOMAIN items : items[i].looks \notin Masks}

(* However much comes between two reads, the agent is given each piece of  *)
(* plain output that is new, in the order it was printed, or is told that  *)
(* some is missing; an answer that says neither that it was cut nor had to *)
(* begin again repeats nothing.                                            *)
ReadsInFull ==
  LET new == (told.before + 1)..told.upTo
      whole == Redact([i \in 1..told.upTo |-> [at |-> i, kind |-> printed[i]]]) IN
  /\ ~told.truncated =>
       \A i \in PlainItems(whole) : whole[i].at \subseteq new => whole[i].at \subseteq Covered(told.data)
  /\ \A i, j \in PlainItems(told.data) : i < j => \A p \in told.data[i].at, q \in told.data[j].at : p < q
  /\ ~told.again => \A i \in PlainItems(told.data) : told.data[i].at \subseteq new
=============================================================================
