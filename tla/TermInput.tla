------------------------------ MODULE TermInput -----------------------------
(* Input of one terminal (src/terminal-input.js; write, writeToConnection, *)
(* changeDirectory and enableShellIntegration of the service; the resolver *)
(* of src/exec-cwd.js).  Operator and agent type into the same PTY.  The   *)
(* host keeps a mirror of the line being typed: an agent's Enter is passed *)
(* on only for a mirrored line the policy allows, and the directory switch *)
(* types its command only on a line the mirror knows to be empty, after a  *)
(* probe over another channel has found an idle shell.  Keys are on their  *)
(* way for a while; programs run in the foreground and end.                *)
EXTENDS Integers, Sequences, FiniteSets

CONSTANTS MaxKeys,  \* bound: keys typed
          MaxLine   \* MAX_INPUT_LINE_LENGTH

ASSUME TermInputAssumption == MaxKeys \in Nat /\ MaxLine \in Nat \ {0}

VARIABLES mirror,   \* inputLine, inputKnown, inputRevision of the session
          wire,     \* keys written to the stream and not read by the server
          tty,      \* the server's end: line editor and what runs in front
          typed,    \* keys typed so far
          alive,    \* the session has its stream
          second,   \* the connection has another terminal
          ask,      \* [command -> the request to type it]
          strays    \* what was read where it must not be

inputVars == <<mirror, wire, tty, typed, alive, second, ask, strays>>

(* "x" and "rm" are printable, a line with "rm" is one the policy denies;  *)
(* "esc" stands for escape sequences and completion, "ctl" for the control *)
(* characters the mirror passes over, "kill" for Ctrl-U.                   *)
Keys == {"x", "rm", "enter", "ctrlC", "back", "esc", "ctl"}
Commands == {"cd", "osc133"}
Denied(line) == \E i \in DOMAIN line : line[i] = "rm"
Fronts == {"prompt", "nested", "job", "script"}
Editing == {"prompt", "nested"}

NoAsk == [pc |-> "idle", rev |-> 0, quiet |-> FALSE]
InputInit ==
  /\ mirror = [line |-> <<>>, known |-> TRUE, rev |-> 0]
  /\ wire = <<>> /\ tty = [line |-> <<>>, off |-> "no", front |-> "prompt"]
  /\ typed = 0 /\ alive = TRUE /\ second = FALSE
  /\ ask = [c \in Commands |-> NoAsk] /\ strays = {}

ShorterBy1(line) == IF line = <<>> THEN line ELSE SubSeq(line, 1, Len(line) - 1)

(* processTerminalInput for one character.                                 *)
Mirrored(m, k) ==
  CASE k \in {"enter", "ctrlC"} -> [m EXCEPT !.line = <<>>, !.known = TRUE]
    [] k = "back" -> IF m.known THEN [m EXCEPT !.line = ShorterBy1(m.line)] ELSE m
    [] k = "esc" -> [m EXCEPT !.known = FALSE]
    [] k = "ctl" -> m
    [] OTHER -> IF ~m.known THEN m
                ELSE [m EXCEPT !.line = Append(@, k), !.known = Len(m.line) < MaxLine]

(* prepareTerminalInput: an Enter that is not allowed becomes Ctrl-U.      *)
Guarded(k) ==
  IF k # "enter" \/ (mirror.known /\ ~Denied(mirror.line)) THEN k ELSE "kill"

Types(sent, m) ==
  /\ alive /\ typed < MaxKeys /\ typed' = typed + 1
  /\ wire' = Append(wire, sent)
  /\ mirror' = [m EXCEPT !.rev = mirror.rev + 1]
  /\ UNCHANGED <<tty, alive, second, ask, strays>>

OperatorTypes(k) == Types([key |-> k, by |-> "operator", quiet |-> FALSE], Mirrored(mirror, k))
AgentTypes(k)    == Types([key |-> Guarded(k), by |-> "agent", quiet |-> FALSE], Mirrored(mirror, k))

(* How far the line has left what the mirror follows since the last Enter: *)
(* not at all; by a key the mirror knows it cannot follow; or by one it    *)
(* passed over or a program took.  The line is then any: a recalled        *)
(* command, a completed one, a key put somewhere in its middle.            *)
Offs == {"no", "esc", "lost"}
AnyLine == {<<>>, <<"x">>, <<"rm">>}
Lost == IF tty.off = "esc" THEN "esc" ELSE "lost"

(* A program in front takes the key and may end by it.                     *)
ProgramReads(k) ==
  \E f \in {tty.front, "prompt"} :
    tty' = [tty EXCEPT !.front = f,
                       !.off = CASE k.key \in Commands \cup {"enter", "ctrlC", "kill"} -> "no"
                                 [] k.key = "esc" -> "esc"
                                 [] OTHER -> Lost]

(* The line editor of the shell in front.  Ctrl-U clears up to a cursor    *)
(* the mirror does not know; whatever runs next may stay in front.         *)
ShellReads(k) ==
  \/ /\ k.key \in {"x", "rm", "back"}
     /\ LET exact == IF k.key = "back" THEN ShorterBy1(tty.line) ELSE Append(tty.line, k.key) IN
        \E l \in IF tty.off = "no" THEN {exact} ELSE AnyLine : tty' = [tty EXCEPT !.line = l]
  \/ k.key = "ctrlC" /\ tty' = [tty EXCEPT !.line = <<>>, !.off = "no"]
  \/ k.key = "kill" /\ \E l \in IF tty.off = "no" THEN {<<>>} ELSE AnyLine :
       tty' = [tty EXCEPT !.line = l, !.off = IF l = <<>> THEN "no" ELSE "lost"]
  \/ k.key \in {"esc", "ctl"} /\ \E l \in AnyLine :
       tty' = [tty EXCEPT !.line = l, !.off = IF k.key = "esc" THEN "esc" ELSE Lost]
  \/ /\ k.key \in Commands \cup {"enter"}
     /\ \E f \in IF tty.line = <<>> THEN {tty.front} ELSE Fronts :
          tty' = [line |-> <<>>, off |-> "no", front |-> f]

(* What must not be read where it is: an agent's Enter behind a line that  *)
(* is denied, or behind one the mirror knows it cannot follow; a command   *)
(* anywhere but on an empty prompt.                                        *)
Stray(k) ==
  /\ tty.off # "lost"
  /\ \/ /\ k.key = "enter" /\ k.by = "agent" /\ tty.front \in Editing
        /\ tty.off = "esc" \/ Denied(tty.line)
     \/ /\ k.key \in Commands /\ k.quiet
        /\ tty.off = "esc" \/ tty.front \notin Editing \/ tty.line # <<>>

Reads ==
  LET k == Head(wire) IN
  /\ wire # <<>> /\ wire' = Tail(wire)
  /\ IF tty.front \in Editing THEN ShellReads(k) ELSE ProgramReads(k)
  /\ strays' = IF Stray(k) THEN strays \cup {k.key} ELSE strays
  /\ UNCHANGED <<mirror, typed, alive, second, ask>>

ProgramEnds ==
  /\ tty.front # "prompt" /\ tty' = [tty EXCEPT !.front = "prompt"]
  /\ UNCHANGED <<mirror, wire, typed, alive, second, ask, strays>>

SessionEnds ==
  /\ alive /\ alive' = FALSE
  /\ UNCHANGED <<mirror, wire, tty, typed, second, ask, strays>>

SecondTerminal ==
  /\ second' = ~second
  /\ UNCHANGED <<mirror, wire, tty, typed, alive, ask, strays>>
-----------------------------------------------------------------------------
(* __dsh_find_shell: the shells with a terminal of this connection, by     *)
(* whether they are in front of it and were started to be typed into.      *)
Candidates ==
  LET shell == [front |-> tty.front = "prompt", interactive |-> TRUE] IN
  {<<1, shell>>}
    \cup (IF tty.front = "nested" THEN {<<2, [front |-> TRUE, interactive |-> TRUE]>>} ELSE {})
    \cup (IF tty.front = "script" THEN {<<2, [front |-> TRUE, interactive |-> FALSE]>>} ELSE {})
    \cup (IF second THEN {<<3, [front |-> TRUE, interactive |-> TRUE]>>} ELSE {})
OneIdleShell == Cardinality({c \in Candidates : c[2].front /\ c[2].interactive}) = 1

Ready == alive /\ mirror.known /\ mirror.line = <<>> /\ ~second

Asks(c, pc) == ask' = [ask EXCEPT ![c].pc = pc]
Rest == UNCHANGED <<mirror, wire, tty, typed, alive, second, strays>>

Ask(c) ==
  /\ ask[c] = NoAsk /\ Ready
  /\ ask' = [ask EXCEPT ![c].pc = "probe", ![c].rev = mirror.rev] /\ Rest

(* resolveLoginShell and the probe, which succeeds wherever it runs; only  *)
(* changeDirectory looks at whether it found the shell.  quiet notes that  *)
(* no key was on its way and no other terminal open while the server       *)
(* looked.                                                                 *)
Probe(c) ==
  /\ ask[c].pc = "probe"
  /\ ask' = [ask EXCEPT ![c].pc = IF c = "osc133" \/ OneIdleShell THEN "check" ELSE "refused",
                        ![c].quiet = (wire = <<>> /\ ~second)]
  /\ Rest

ProbeFails(c) == ask[c].pc = "probe" /\ Asks(c, "refused") /\ Rest

SameLine(c) == TRUE       \* faulty variant: what was typed meanwhile is not noticed
SameInput(c) == mirror.rev = ask[c].rev

(* The command and its Enter go out in one write.  It is sure of its       *)
(* prompt when nothing moved since the line was first looked at.           *)
Send(c) ==
  /\ wire' = Append(wire, [key |-> c, by |-> "host", quiet |-> ask[c].quiet /\ SameInput(c)])
  /\ mirror' = [line |-> <<>>, known |-> TRUE, rev |-> mirror.rev + 1]
  /\ ask' = [ask EXCEPT ![c].pc = "sent"]
  /\ UNCHANGED <<tty, typed, alive, second, strays>>

(* changeDirectory after the probe: the session, the line and the revision *)
(* are looked at once more, and the command is written without a pause.    *)
ChangeDirectory ==
  /\ ask["cd"].pc = "check"
  /\ IF Ready /\ SameInput("cd") THEN Send("cd") ELSE Asks("cd", "refused") /\ Rest

(* enableShellIntegration looks at the line once more, but not at the      *)
(* revision, and asks the shell for its family before it writes.           *)
CheckIntegration ==
  /\ ask["osc133"].pc = "check" /\ Asks("osc133", IF Ready THEN "family" ELSE "refused") /\ Rest

EnableShellIntegration ==
  /\ ask["osc133"].pc = "family"
  /\ IF alive THEN Send("osc133") ELSE Asks("osc133", "refused") /\ Rest

InputNext ==
  \/ \E k \in Keys : OperatorTypes(k) \/ AgentTypes(k)
  \/ Reads \/ ProgramEnds \/ SessionEnds \/ SecondTerminal
  \/ \E c \in Commands : Ask(c) \/ Probe(c) \/ ProbeFails(c)
  \/ ChangeDirectory \/ CheckIntegration \/ EnableShellIntegration
InputSpec == InputInit /\ [][InputNext]_inputVars
-----------------------------------------------------------------------------
InputTypeOK ==
  /\ mirror.known \in BOOLEAN /\ Len(mirror.line) <= MaxLine + 1
  /\ mirror.rev <= MaxKeys + 2 /\ Len(wire) <= MaxKeys + 2
  /\ tty.front \in Fronts /\ tty.off \in Offs /\ strays \subseteq Commands \cup {"enter"}

(* The mirror is the shell's line or says that it is not: once the server  *)
(* has read everything, a line the mirror claims to know is the line in    *)
(* the shell.  And it fails closed: after an escape sequence or a          *)
(* completion no agent's Enter reaches the shell before the line is given  *)
(* up, and none ever runs a line the policy denies.  The directory command *)
(* is read on an empty prompt and nowhere else, whoever typed while the    *)
(* probe ran.  Excepted are a line that a control character the mirror     *)
(* passes over has changed, that a program took keys of, or that Ctrl-U    *)
(* cleared only up to the cursor; and, for the directory command, keys     *)
(* still on their way when the probe looked, and another terminal opened   *)
(* and closed around it.                                                   *)
InputSound ==
  /\ wire = <<>> /\ tty.front \in Editing /\ mirror.known /\ tty.off # "lost" => mirror.line = tty.line
  /\ strays \subseteq {"osc133"}

(* The markers' command is typed on an idle prompt, "gated exactly like    *)
(* changeDirectory - the shell must be an idle, known, single interactive  *)
(* prompt".                                                                *)
IntegrationOnPrompt == "osc133" \notin strays
=============================================================================
