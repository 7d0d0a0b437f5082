--------------------------- MODULE TerminalStream ---------------------------
(***************************************************************************)
(* The output of one terminal session on its way to the panes that show    *)
(* it: the bounded journal and the older destructive buffer at the host    *)
(* (index.js, terminal-output.js), the stream and the long poll that read  *)
(* them, the loop of XtermView that moves between the two (SshPanel.jsx)   *)
(* and the pooled terminal that survives an unmount (terminal-pool.js).    *)
(* A unit of output is one character; position k is the k-th one printed.  *)
(***************************************************************************)
EXTENDS Integers, Sequences
CONSTANTS
  Pane,    \* mounts of XtermView on the session; each mounts once
  NoPane,
  MaxOut,  \* bound: characters the shell prints
  Cap,     \* maxBufferBytes
  MaxChan, \* bound: stream items on their way to the client
  Drops    \* bound: broken streams and lost poll answers

ASSUME TerminalAssumption ==
  /\ NoPane \notin Pane /\ "pool" \notin Pane
  /\ MaxOut \in Nat /\ Cap \in Nat /\ MaxChan \in Nat \ {0} /\ Drops \in Nat

VARIABLES
  end,      \* characters printed so far
  bufFrom,  \* the destructive buffer holds bufFrom + 1 .. end
  pty,      \* the remote channel is open
  exited,   \* session.exited is set
  exitAt,   \* end when it was set
  session,  \* "live": in the map; "gone": a tombstone is left; "lost": not even that
  queue,    \* the waiters of the buffer, oldest first
  waiting,  \* the waiters of the journal
  gen,      \* each stream generator: "none", "run", "yield", "last" (its item has the exit) or "sleep"
  cursor,   \* the position the generator, or the read, of a pane starts from
  beat,     \* heartbeatFired
  chan,     \* items on their way to each pane
  pane,     \* the loop of each pane
  slot,     \* the terminal the pane writes to: the pooled one or its own
  owner,    \* of the pooled terminal
  offset,   \* entry.offset of each terminal
  shown,    \* how often (at most 2) a terminal has written each position
  legacy,   \* a destructive read was made for this terminal
  drops     \* broken streams and lost answers so far

hostVars   == <<end, bufFrom, pty, exited, exitAt, session, queue, waiting>>
genVars    == <<gen, cursor, beat>>
clientVars == <<pane, slot, owner, offset, shown, legacy, drops>>
termVars   == <<hostVars, genVars, chan, clientVars>>

NoOffset == -1          \* undefined
Pos      == 1..MaxOut
Term     == Pane \union {"pool"}
Ended    == {"exit", "told", "invalid"}
Mounted  == {"sub", "stream", "back", "poll", "wait", "pollBack"}

Larger(a, b)  == IF a > b THEN a ELSE b
Smaller(a, b) == IF a < b THEN a ELSE b

-----------------------------------------------------------------------------
(* createTerminalOutput: the journal keeps the last Cap characters; read   *)
(* clamps the cursor into what it has.                                     *)
KeptFrom(e)   == Larger(0, e - Cap)
ReadFrom(a, e) == IF a = NoOffset THEN KeptFrom(e) ELSE Smaller(e, Larger(KeptFrom(e), a))
HasData(a)    == ReadFrom(a, end) < end

Item == [ok : BOOLEAN, from : 0..MaxOut, to : 0..MaxOut, exit : BOOLEAN, placed : BOOLEAN]

(* A reader's item: positions from + 1 .. to; placed when it says so.      *)
JournalItem(a, e, x) == [ok |-> TRUE, from |-> ReadFrom(a, e), to |-> e, exit |-> x, placed |-> TRUE]
DrainItem(f, e, x)   == [ok |-> TRUE, from |-> f, to |-> e, exit |-> x, placed |-> FALSE]
TombItem      == [ok |-> TRUE, from |-> 0, to |-> 0, exit |-> TRUE, placed |-> FALSE]
NoSessionItem == [ok |-> FALSE, from |-> 0, to |-> 0, exit |-> FALSE, placed |-> FALSE]

(* Types.  The destructive buffer stays within its cap, no reader is ahead *)
(* of the output, a pane waits for one read at a time and only the owner   *)
(* writes to the pooled terminal.                                          *)
TerminalTypeOK ==
  /\ end \in 0..MaxOut /\ bufFrom \in 0..MaxOut /\ exitAt \in 0..MaxOut
  /\ pty \in BOOLEAN /\ exited \in BOOLEAN /\ session \in {"live", "gone", "lost"}
  /\ queue \in Seq(Pane) /\ waiting \subseteq Pane
  /\ gen \in [Pane -> {"none", "run", "yield", "last", "sleep"}]
  /\ cursor \in [Pane -> NoOffset..MaxOut] /\ beat \in [Pane -> BOOLEAN]
  /\ chan \in [Pane -> Seq(Item)]
  /\ pane \in [Pane -> {"new", "off"} \union Mounted \union Ended]
  /\ slot \in [Pane -> Term] /\ owner \in Pane \union {NoPane}
  /\ offset \in [Term -> NoOffset..MaxOut]
  /\ shown \in [Term -> [Pos -> 0..2]] /\ legacy \in [Term -> BOOLEAN]
  /\ drops \in 0..Drops
  /\ bufFrom <= end /\ end - bufFrom <= Cap
  /\ \A p \in Pane : cursor[p] <= end
  /\ \A t \in Term : offset[t] <= end
  /\ \A i, j \in 1..Len(queue) : queue[i] = queue[j] => i = j
  /\ \A p \in Pane : pane[p] \in Mounted \union Ended /\ slot[p] = "pool" => owner = p

Fresh == [k \in Pos |-> 0]

TermInit ==
  /\ end = 0 /\ bufFrom = 0 /\ pty = TRUE /\ exited = FALSE /\ exitAt = 0 /\ session = "live"
  /\ queue = <<>> /\ waiting = {}
  /\ gen = [p \in Pane |-> "none"] /\ cursor = [p \in Pane |-> NoOffset]
  /\ beat = [p \in Pane |-> FALSE] /\ chan = [p \in Pane |-> <<>>]
  /\ pane = [p \in Pane |-> "new"] /\ slot = [p \in Pane |-> p] /\ owner = NoPane
  /\ offset = [t \in Term |-> NoOffset] /\ shown = [t \in Term |-> Fresh]
  /\ legacy = [t \in Term |-> FALSE] /\ drops = 0

-----------------------------------------------------------------------------
(* The host: output and the ends of the session                            *)

(* An answer to a pane that has unmounted reaches nobody.                  *)
Listening(p) == pane[p] = "wait"
Answered(c, p, item) == IF Listening(p) THEN [c EXCEPT ![p] = Append(@, item)] ELSE c

(* A cursor is a local of its call and ends with it.                       *)
Dropped(p) == [cursor EXCEPT ![p] = NoOffset]
WaitersDone == cursor' = [p \in Pane |-> IF p \in waiting THEN NoOffset ELSE cursor[p]]

(* wakeWaiters: every waiter of the journal; of those of the buffer, the   *)
(* oldest gets what there is, and the others only learn of an exit.        *)
(* The new end, exited and start of the buffer are e, x and f; told is the *)
(* exit wakeWaiters is called with.                                        *)
WakeWaiters(e, x, f, told) ==
  /\ waiting' = {} /\ WaitersDone
  /\ queue' = IF queue = <<>> \/ told THEN <<>> ELSE Tail(queue)
  /\ bufFrom' = IF queue = <<>> THEN f ELSE e
  /\ chan' = [p \in Pane |->
       IF ~Listening(p) THEN chan[p]
       ELSE IF p \in waiting THEN Append(chan[p], JournalItem(cursor[p], e, x))
       ELSE IF queue # <<>> /\ p = Head(queue) THEN Append(chan[p], DrainItem(f, e, told))
       ELSE IF told /\ \E i \in 2..Len(queue) : p = queue[i] THEN Append(chan[p], DrainItem(e, e, told))
       ELSE chan[p]]

(* notifyStreamListeners.                                                  *)
NotifyStreams == gen' = [p \in Pane |-> IF gen[p] = "sleep" THEN "run" ELSE gen[p]]

AppendUncapped(n) == \* faulty variant: the destructive buffer is not capped
  /\ pty /\ end + n <= MaxOut
  /\ end' = end + n
  /\ WakeWaiters(end + n, exited, bufFrom, FALSE)
  /\ NotifyStreams
  /\ UNCHANGED <<pty, exited, exitAt, session, beat, clientVars>>

(* appendSessionOutput: n more characters.                                 *)
AppendSessionOutput(n) ==
  /\ pty /\ end + n <= MaxOut
  /\ end' = end + n
  /\ WakeWaiters(end + n, exited, Larger(bufFrom, end + n - Cap), FALSE)
  /\ NotifyStreams
  /\ UNCHANGED <<pty, exited, exitAt, session, beat, clientVars>>

(* The channel closes: recordExit, unless an exit is known already.        *)
RecordExit ==
  /\ pty /\ pty' = FALSE
  /\ IF exited THEN UNCHANGED <<exited, exitAt, bufFrom, queue, waiting, chan, gen, cursor>>
     ELSE /\ exited' = TRUE /\ exitAt' = end
          /\ WakeWaiters(end, TRUE, bufFrom, TRUE)
          /\ NotifyStreams
  /\ UNCHANGED <<end, session, beat, clientVars>>

SetExited == exited' = TRUE /\ exitAt' = IF exited THEN exitAt ELSE end

(* closeSession; disconnect does the same to a session that has not        *)
(* exited.  Nobody is woken, and what the shell still prints is kept.      *)
CloseSession ==
  /\ session = "live" /\ session' = "gone"
  /\ SetExited
  /\ UNCHANGED <<end, bufFrom, pty, queue, waiting, genVars, chan, clientVars>>

(* handleTransportLoss; a session that exited has left record.sessions.    *)
TransportLoss ==
  /\ session = "live" /\ ~exited /\ session' = "gone" /\ pty' = FALSE
  /\ SetExited
  /\ UNCHANGED <<end, bufFrom, queue, waiting, genVars, chan, clientVars>>

(* rememberExit drops the oldest tombstone for a newer session's.          *)
TombstoneEvicted ==
  /\ session = "gone" /\ session' = "lost"
  /\ UNCHANGED <<end, bufFrom, pty, exited, exitAt, queue, waiting, genVars, chan, clientVars>>

-----------------------------------------------------------------------------
(* The host: terminalStream                                                *)

(* A turn of the loop up to its yield or its sleep.  The item and the exit *)
(* are read together, before the yield.                                    *)
GenTurn(p) ==
  /\ gen[p] = "run" /\ Len(chan[p]) < MaxChan
  /\ IF pane[p] = "off"
     THEN gen' = [gen EXCEPT ![p] = "none"] /\ cursor' = Dropped(p) /\ UNCHANGED <<beat, chan>>
     ELSE IF HasData(cursor[p]) \/ exited \/ beat[p]
     THEN /\ chan' = [chan EXCEPT ![p] = Append(@, JournalItem(cursor[p], end, exited))]
          /\ cursor' = [cursor EXCEPT ![p] = end]
          /\ gen' = [gen EXCEPT ![p] = IF exited THEN "last" ELSE "yield"]
          /\ UNCHANGED beat
     ELSE /\ gen' = [gen EXCEPT ![p] = "sleep"] /\ beat' = [beat EXCEPT ![p] = FALSE]
          /\ UNCHANGED <<cursor, chan>>
  /\ UNCHANGED <<hostVars, clientVars>>

SleepAfterYield(p) == "sleep" \* faulty variant: the check after the yield is missing

(* Output that arrived during the yield is not slept over.                 *)
AfterYield(p) == IF HasData(cursor[p]) THEN "run" ELSE "sleep"

(* The gateway asks for the next item (or ends the generator).             *)
GenResume(p) ==
  /\ gen[p] \in {"yield", "last"}
  /\ gen' = [gen EXCEPT ![p] =
       IF gen[p] = "last" \/ pane[p] = "off" THEN "none" ELSE AfterYield(p)]
  /\ beat' = [beat EXCEPT ![p] = @ /\ gen'[p] = "run"]
  /\ cursor' = IF gen'[p] = "none" THEN Dropped(p) ELSE cursor
  /\ UNCHANGED <<hostVars, chan, clientVars>>

BeatWhileOpen(p) == \* faulty variant: the timer is cleared when the session ends
  /\ gen[p] = "sleep" /\ ~exited
  /\ gen' = [gen EXCEPT ![p] = "run"] /\ beat' = [beat EXCEPT ![p] = TRUE]
  /\ UNCHANGED <<hostVars, cursor, chan, clientVars>>

(* streamHeartbeatMs passed.                                               *)
Heartbeat(p) ==
  /\ gen[p] = "sleep"
  /\ gen' = [gen EXCEPT ![p] = "run"] /\ beat' = [beat EXCEPT ![p] = TRUE]
  /\ UNCHANGED <<hostVars, cursor, chan, clientVars>>

-----------------------------------------------------------------------------
(* The host: read                                                          *)

(* The call made by a pane's poll loop, with what entry.offset is now.     *)
Read(p) ==
  LET a == offset[slot[p]] IN
  /\ pane[p] = "poll" /\ pane' = [pane EXCEPT ![p] = "wait"]
  /\ \/ /\ session # "live"
        /\ chan' = [chan EXCEPT ![p] = <<IF session = "gone" THEN TombItem ELSE NoSessionItem>>]
        /\ UNCHANGED <<bufFrom, queue, waiting, legacy, cursor>>
     \/ /\ session = "live" /\ a # NoOffset
        /\ IF HasData(a) \/ exited
           THEN chan' = [chan EXCEPT ![p] = <<JournalItem(a, end, exited)>>] /\ UNCHANGED <<waiting, cursor>>
           ELSE /\ waiting' = waiting \union {p} /\ cursor' = [cursor EXCEPT ![p] = a]
                /\ UNCHANGED chan
        /\ UNCHANGED <<bufFrom, queue, legacy>>
     \/ /\ session = "live" /\ a = NoOffset
        /\ legacy' = [legacy EXCEPT ![slot[p]] = TRUE]
        /\ IF exited \/ bufFrom < end
           THEN /\ chan' = [chan EXCEPT ![p] = <<DrainItem(bufFrom, end, exited)>>]
                /\ bufFrom' = end /\ UNCHANGED queue
           ELSE queue' = Append(queue, p) /\ UNCHANGED <<bufFrom, chan>>
        /\ UNCHANGED <<waiting, cursor>>
  /\ UNCHANGED <<end, pty, exited, exitAt, session, gen, beat, slot, owner, offset, shown, drops>>

(* timeoutMs passed before anything woke the waiter.                       *)
ReadTimeout(p) ==
  /\ \/ /\ p \in waiting /\ waiting' = waiting \ {p} /\ cursor' = Dropped(p)
        /\ chan' = Answered(chan, p, JournalItem(cursor[p], end, exited))
        /\ UNCHANGED <<bufFrom, queue>>
     \/ \E i \in 1..Len(queue) :
          /\ queue[i] = p
          /\ queue' = [j \in 1..(Len(queue) - 1) |-> IF j < i THEN queue[j] ELSE queue[j + 1]]
          /\ chan' = Answered(chan, p, DrainItem(bufFrom, end, FALSE))
          /\ bufFrom' = end /\ UNCHANGED <<waiting, cursor>>
  /\ UNCHANGED <<end, pty, exited, exitAt, session, gen, beat, clientVars>>

-----------------------------------------------------------------------------
(* The client: the terminal pool and the loop of a pane                    *)

(* acquire: the pooled terminal, or one of its own while another mount     *)
(* holds that.                                                             *)
Mount(p) ==
  /\ pane[p] = "new" /\ pane' = [pane EXCEPT ![p] = "sub"]
  /\ slot' = [slot EXCEPT ![p] = IF owner = NoPane THEN "pool" ELSE p]
  /\ owner' = IF owner = NoPane THEN p ELSE owner
  /\ UNCHANGED <<hostVars, genVars, chan, offset, shown, legacy, drops>>

(* streamTerminal from entry.offset; without a stream the pane polls.      *)
Subscribe(p) ==
  /\ pane[p] = "sub"
  /\ \/ pane' = [pane EXCEPT ![p] = "poll"] /\ UNCHANGED <<genVars, chan>>
     \/ /\ pane' = [pane EXCEPT ![p] = "stream"]
        /\ beat' = [beat EXCEPT ![p] = FALSE]
        /\ IF session = "live"
           THEN /\ gen' = [gen EXCEPT ![p] = "run"]
                /\ cursor' = [cursor EXCEPT ![p] = offset[slot[p]]] /\ UNCHANGED chan
           ELSE chan' = [chan EXCEPT ![p] = <<NoSessionItem>>] /\ UNCHANGED <<gen, cursor>>
  /\ UNCHANGED <<hostVars, slot, owner, offset, shown, legacy, drops>>

(* consume and term.write: what lies before entry.offset is skipped.  An   *)
(* item without offsets is written as it is, and leaves no offset.         *)
Consume(t, item) ==
  LET seen == IF item.placed THEN Larger(item.from, offset[t]) ELSE item.from IN
  /\ offset' = [offset EXCEPT ![t] = IF item.placed THEN Larger(@, item.to) ELSE @]
  /\ shown' = [shown EXCEPT ![t] = [k \in Pos |->
       IF k \in (seen + 1)..item.to THEN Smaller(2, shown[t][k] + 1) ELSE shown[t][k]]]

(* The loop takes an item of its stream, or the answer of its read.        *)
ShowItem(p) ==
  LET item == Head(chan[p]) IN
  /\ pane[p] \in {"stream", "wait"} /\ chan[p] # <<>>
  /\ pane' = [pane EXCEPT ![p] =
       IF ~item.ok THEN "invalid"
       ELSE IF item.exit THEN (IF item.placed THEN "exit" ELSE "told")
       ELSE IF @ = "wait" THEN "poll" ELSE @]
  /\ IF item.ok THEN Consume(slot[p], item) ELSE UNCHANGED <<offset, shown>>
  /\ chan' = [chan EXCEPT ![p] = Tail(@)]
  /\ UNCHANGED <<hostVars, genVars, slot, owner, legacy, drops>>

(* The stream breaks with its items, or the answer of a read is lost.      *)
Drop(p) ==
  /\ drops < Drops /\ drops' = drops + 1
  /\ \/ pane[p] = "stream" /\ pane' = [pane EXCEPT ![p] = "back"]
        /\ gen' = [gen EXCEPT ![p] = "none"] /\ cursor' = Dropped(p)
     \/ pane[p] = "wait" /\ chan[p] # <<>> /\ pane' = [pane EXCEPT ![p] = "pollBack"]
        /\ UNCHANGED <<gen, cursor>>
  /\ chan' = [chan EXCEPT ![p] = <<>>]
  /\ UNCHANGED <<hostVars, beat, slot, owner, offset, shown, legacy>>

BackoffEnds(p) ==
  /\ pane[p] \in {"back", "pollBack"}
  /\ pane' = [pane EXCEPT ![p] = IF @ = "back" THEN "sub" ELSE "poll"]
  /\ UNCHANGED <<hostVars, genVars, chan, slot, owner, offset, shown, legacy, drops>>

Forgotten(t) ==
  /\ offset' = [offset EXCEPT ![t] = NoOffset]
  /\ shown' = [shown EXCEPT ![t] = Fresh] /\ legacy' = [legacy EXCEPT ![t] = FALSE]

(* Unmount: abort wakes the generator; release keeps the pooled terminal   *)
(* and disposes of a pane's own.                                           *)
Unmount(p) ==
  /\ pane[p] \in Mounted \union Ended /\ pane' = [pane EXCEPT ![p] = "off"]
  /\ gen' = [gen EXCEPT ![p] = IF @ = "sleep" THEN "run" ELSE @]
  /\ chan' = [chan EXCEPT ![p] = <<>>]
  /\ IF slot[p] = "pool" THEN owner' = NoPane /\ UNCHANGED <<offset, shown, legacy>>
     ELSE Forgotten(p) /\ UNCHANGED owner
  /\ UNCHANGED <<hostVars, cursor, beat, slot, drops>>

(* Terminals of other sessions push the unowned one out of the pool.       *)
Evict ==
  /\ owner = NoPane /\ offset["pool"] # NoOffset
  /\ Forgotten("pool")
  /\ UNCHANGED <<hostVars, genVars, chan, pane, slot, owner, drops>>

-----------------------------------------------------------------------------
HostStep == \/ \E n \in 1..2 : AppendSessionOutput(n)
            \/ RecordExit \/ CloseSession \/ TransportLoss \/ TombstoneEvicted
GenStep(p)    == GenTurn(p) \/ GenResume(p)
ClientStep(p) == Subscribe(p) \/ Read(p) \/ ShowItem(p) \/ BackoffEnds(p)

TermNext ==
  \/ HostStep \/ Evict
  \/ \E p \in Pane : \/ GenStep(p) \/ Heartbeat(p) \/ ReadTimeout(p)
                     \/ ClientStep(p) \/ Mount(p) \/ Drop(p) \/ Unmount(p)

(* Timers fire, awaited steps resume, and a loop that can go on goes on.   *)
PaneFairness(p) ==
  /\ WF_termVars(GenStep(p)) /\ WF_termVars(Heartbeat(p))
  /\ WF_termVars(ReadTimeout(p)) /\ WF_termVars(ClientStep(p))

TermSpec == TermInit /\ [][TermNext]_termVars

-----------------------------------------------------------------------------
(* A terminal that was never fed by the destructive read writes every      *)
(* character at most once, whatever streams broke, polls took over and     *)
(* panes came and went; of what it has passed, only characters the journal *)
(* no longer has are missing (consume, journal.read, the loop's offsets).  *)
ShownExactly ==
  \A t \in Term : ~legacy[t] => \A k \in Pos :
    /\ shown[t][k] <= 1
    /\ shown[t][k] = 0 /\ k <= offset[t] => k <= KeptFrom(end)

(* No reader waits while there is output for it: not a stream, whatever    *)
(* arrived during its yield, nor a poll.                                   *)
NoSleepOverOutput ==
  /\ \A p \in Pane : gen[p] = "sleep" \/ p \in waiting => ~HasData(cursor[p])
  /\ queue # <<>> => bufFrom = end

(* A pane that was told of the exit by the journal has written everything  *)
(* printed before the exit that the journal still had.                     *)
ExitComesLast ==
  \A p \in Pane : pane[p] = "exit" =>
    \A k \in 1..exitAt : shown[slot[p]][k] > 0 \/ k <= KeptFrom(end)

(* A terminal shows each piece of output once, to the last one.            *)
ShownToTheEnd == ShownExactly /\ ExitComesLast

(* Once the session has exited every pane learns of it, also when nobody   *)
(* woke its reader; and an unmounted pane leaves no listener or waiter.    *)
PaneSettles(p) ==
  /\ (exited /\ pane[p] \in Mounted) ~> (pane[p] \in Ended \union {"off"})
  /\ (pane[p] = "off") ~> (gen[p] = "none" /\ p \notin waiting /\ \A i \in DOMAIN queue : queue[i] # p)
=============================================================================
