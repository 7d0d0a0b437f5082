----------------------------- MODULE ShellMarks -----------------------------
(* The shell-integration tracker (src/shell-integration.js), fed with the  *)
(* terminal's output in whatever chunks it arrives.  A character is a      *)
(* token: "esc", "]", "bel", "\\" (the second half of ST), a text, or one  *)
(* of the payloads the shell prints between the introducer and the         *)
(* terminator.  Beside the tracker, which scans a buffer, run two readers  *)
(* that take the same output one character at a time: one by the tracker's *)
(* own rule, and the terminal of the panel (xterm.js).                     *)
EXTENDS Integers, Sequences, SequencesExt

CONSTANTS MaxCarry,  \* MAX_CARRY, in tokens
          MaxFed,    \* bound: tokens fed
          MaxChunk   \* bound: tokens in a chunk

ASSUME ShellMarksAssumption == {MaxCarry, MaxFed, MaxChunk} \subseteq Nat \ {0}

VARIABLES tracker,   \* state and carry of the ShellIntegrationTracker
          follower,  \* the tracker's rule: its mode, the payload so far, the state
          screen,    \* the terminal, and which facts the tracker shares with it
          fed,       \* tokens fed
          overlong   \* a sequence grew past MaxCarry

marksVars == <<tracker, follower, screen, fed, overlong>>

(* A, B, D with and without a status, and the directory.                   *)
Payloads == {"A", "B", "D0", "D", "Cwd"}
Tokens == Payloads \union {"esc", "]", "bel", "\\", "text"}
Facts == {"atPrompt", "lastExitCode", "cwd", "commands"}
Blank == [atPrompt |-> FALSE, lastExitCode |-> "none", cwd |-> <<>>, commands |-> 0]

MarksInit ==
  /\ tracker = [state |-> Blank, carry |-> <<>>]
  /\ follower = [mode |-> "text", payload |-> <<>>, state |-> Blank]
  /\ screen = [mode |-> "text", payload |-> <<>>, state |-> Blank, cut |-> FALSE, good |-> Facts]
  /\ fed = 0 /\ overlong = FALSE

(* apply: the payload is known by how it begins; what follows the path is  *)
(* part of it.                                                             *)
ApplyMark(s, payload) ==
  LET kind == IF payload = <<>> THEN "" ELSE Head(payload) IN
  CASE kind = "A" -> [s EXCEPT !.atPrompt = TRUE]
    [] kind = "B" -> [s EXCEPT !.atPrompt = FALSE]
    [] kind \in {"D0", "D"} ->
         [s EXCEPT !.atPrompt = FALSE, !.commands = @ + 1,
                   !.lastExitCode = IF kind = "D0" THEN "0" ELSE @]
    [] kind = "Cwd" -> [s EXCEPT !.cwd = Tail(payload)]
    [] OTHER -> s

(* The offsets at which a terminator of an OSC that starts at i begins.    *)
Terminators(buf, i) ==
  {j \in (i + 2)..Len(buf) :
     buf[j] = "bel" \/ (buf[j] = "esc" /\ j < Len(buf) /\ buf[j + 1] = "\\")}
Least(S) == CHOOSE x \in S : \A y \in S : x <= y

(* readSequence on the buffer from offset i, where an OSC is introduced.   *)
ReadSequence(buf, i) ==
  LET T == Terminators(buf, i) IN
  IF T # {}
  THEN [found |-> "payload", payload |-> SubSeq(buf, i + 2, Least(T) - 1),
        next |-> Least(T) + IF buf[Least(T)] = "bel" THEN 1 ELSE 2]
  ELSE [found |-> IF Len(buf) - i + 1 > MaxCarry THEN "skip" ELSE "incomplete",
        payload |-> <<>>, next |-> i + 1]

(* What is kept of a buffer that ends inside a sequence.                   *)
Carried(rest) == SubSeq(rest, 1, IF Len(rest) < MaxCarry THEN Len(rest) ELSE MaxCarry)

(* feed: at[i] is what the scan does from offset i on, the payloads it     *)
(* finds and what it carries over.                                         *)
Scan(buf) ==
  LET at[i \in 1..(Len(buf) + 1)] ==
        CASE i > Len(buf) -> [found |-> <<>>, carry |-> <<>>]
          [] i <= Len(buf) /\ buf[i] # "esc" -> at[i + 1]
          [] i = Len(buf) /\ buf[i] = "esc" ->
               [found |-> <<>>, carry |-> Carried(SubSeq(buf, i, Len(buf)))]
          [] i < Len(buf) /\ buf[i] = "esc" /\ buf[i + 1] # "]" -> at[i + 1]
          [] OTHER ->
               LET seq == ReadSequence(buf, i) IN
               CASE seq.found = "incomplete" ->
                      [found |-> <<>>, carry |-> Carried(SubSeq(buf, i, Len(buf)))]
                 [] seq.found = "skip" -> at[seq.next]
                 [] OTHER -> [at[seq.next] EXCEPT !.found = <<seq.payload>> \o @]
  IN  at[1]

Fed(t, chunk) ==
  LET scan == Scan(t.carry \o chunk) IN
  [state |-> FoldLeft(ApplyMark, t.state, scan.found), carry |-> scan.carry]

(* readSequence, one more character: a sequence ends with the first        *)
(* terminator, whatever stands before it.                                  *)
ReadOne(e, c) ==
  LET to(m, p) == [e EXCEPT !.mode = m, !.payload = p]
      done(p) == [mode |-> "text", payload |-> <<>>, state |-> ApplyMark(e.state, p)] IN
  CASE e.mode = "text" -> to(IF c = "esc" THEN "esc" ELSE "text", <<>>)
    [] e.mode = "esc" -> to(CASE c = "]" -> "osc" [] c = "esc" -> "esc" [] OTHER -> "text", <<>>)
    [] e.mode = "osc" -> CASE c = "bel" -> done(e.payload)
                           [] c = "esc" -> to("st", Append(e.payload, c))
                           [] OTHER -> to("osc", Append(e.payload, c))
    [] e.mode = "st" -> CASE c = "\\" -> done(Front(e.payload))
                          [] c = "bel" -> done(e.payload)
                          [] c = "esc" -> to("st", Append(e.payload, c))
                          [] OTHER -> to("osc", Append(e.payload, c))

ReadAll(e, chunk) == FoldLeft(ReadOne, e, chunk)

(* A sequence may be as long as the carry holds before it is given up.     *)
TooLong(e, chunk) ==
  \E n \in 1..Len(chunk) : Len(ReadAll(e, SubSeq(chunk, 1, n)).payload) + 2 > MaxCarry

(* The terminal, one more character: ESC ends the sequence it is in, and   *)
(* begins the next unless "\\" follows; BEL behind ESC is carried out and  *)
(* the terminal still waits for what ESC begins.  Where it parts from the  *)
(* tracker's rule (cut) the tracker misreads up to the end of the next     *)
(* sequence; from there on a fact is shared again once a marker sets it.   *)
Sets(payload) ==
  LET kind == IF payload = <<>> THEN "" ELSE Head(payload) IN
  CASE kind \in {"A", "B", "D"} -> {"atPrompt"}
    [] kind = "D0" -> {"atPrompt", "lastExitCode"}
    [] kind = "Cwd" -> {"cwd"}
    [] OTHER -> {}

Begins(c) == CASE c = "]" -> "osc" [] c \in {"esc", "bel"} -> "esc" [] OTHER -> "text"

ShowOne(v, c) ==
  LET to(m, p) == [v EXCEPT !.mode = m, !.payload = p]
      ends(m, cut, good) == [mode |-> m, payload |-> <<>>, state |-> ApplyMark(v.state, v.payload),
                             cut |-> cut, good |-> good]
      whole == ends("text", FALSE, IF v.cut THEN {} ELSE v.good \cup Sets(v.payload)) IN
  CASE v.mode = "text" -> to(IF c = "esc" THEN "esc" ELSE "text", <<>>)
    [] v.mode = "esc" -> IF c = "bel" THEN [v EXCEPT !.cut = TRUE, !.good = {}] ELSE to(Begins(c), <<>>)
    [] v.mode = "osc" -> CASE c = "bel" -> whole
                           [] c = "esc" -> to("st", v.payload)
                           [] OTHER -> to("osc", Append(v.payload, c))
    [] v.mode = "st" -> IF c = "\\" THEN whole ELSE ends(Begins(c), TRUE, {})

ShowAll(v, chunk) == FoldLeft(ShowOne, v, chunk)

Feed ==
  /\ \E n \in 1..MaxChunk : \E chunk \in [1..n -> Tokens] :
       /\ fed + n <= MaxFed /\ fed' = fed + n
       /\ tracker' = Fed(tracker, chunk)
       /\ follower' = ReadAll(follower, chunk)
       /\ screen' = ShowAll(screen, chunk)
       /\ overlong' = (overlong \/ TooLong(follower, chunk))

MarksNext == Feed
MarksSpec == MarksInit /\ [][MarksNext]_marksVars
-----------------------------------------------------------------------------
MarksTypeOK ==
  /\ Len(tracker.carry) <= MaxCarry /\ fed \in 0..MaxFed /\ overlong \in BOOLEAN
  /\ tracker.state.commands \in 0..fed /\ screen.good \subseteq Facts

(* However the output is cut into chunks, the tracker reads what it would  *)
(* read of one character after the other, and carries over exactly the     *)
(* sequence it is in the middle of.  And what it says of prompt, exit      *)
(* status, directory and count is what the terminal has read, as long as   *)
(* no escape was cut; one that was costs it the markers up to the end of   *)
(* the next whole sequence, and every later marker is read right: the      *)
(* carry is not poisoned.  All as long as no sequence is longer than the   *)
(* carry.                                                                  *)
MarksExact ==
  ~overlong => /\ tracker.state = follower.state
               /\ tracker.carry = CASE follower.mode = "text" -> <<>>
                                    [] follower.mode = "esc" -> <<"esc">>
                                    [] OTHER -> <<"esc", "]">> \o follower.payload
               /\ \A f \in screen.good : tracker.state[f] = screen.state[f]
=============================================================================
