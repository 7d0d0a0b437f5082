------------------------ MODULE TerminalStreamProofs ------------------------
(***************************************************************************)
(* Proofs about the output of a terminal, for every number of panes and    *)
(* every size of the journal and of the buffers on the way.                *)
(***************************************************************************)
EXTENDS MCTerminal, TLAPS

(* The types alone.                                                        *)
TermTypes ==
  /\ end \in 0..MaxOut /\ bufFrom \in 0..MaxOut /\ exitAt \in 0..MaxOut
  /\ pty \in BOOLEAN /\ exited \in BOOLEAN /\ session \in {"live", "gone", "lost"}
  /\ queue \in Seq(Pane) /\ waiting \subseteq Pane
  /\ gen \in [Pane -> {"none", "run", "yield", "last", "sleep"}]
  /\ cursor \in [Pane -> NoOffset..MaxOut] /\ beat \in [Pane -> BOOLEAN]
  /\ chan \in [Pane -> Seq(Item)]
  /\ pane \in [Pane -> {"new", "off"} \cup Mounted \cup Ended]
  /\ slot \in [Pane -> Term] /\ owner \in Pane \cup {NoPane}
  /\ offset \in [Term -> NoOffset..MaxOut]
  /\ shown \in [Term -> [Pos -> 0..2]] /\ legacy \in [Term -> BOOLEAN]
  /\ drops \in 0..Drops

(* What is counted: nobody is ahead of the output.                         *)
Counted ==
  /\ bufFrom <= end /\ end - bufFrom <= Cap /\ exitAt <= end
  /\ \A p \in Pane : cursor[p] <= end
  /\ \A t \in Term : offset[t] <= end

(* A terminal is written to by one pane.                                   *)
InUse(p)  == pane[p] \in Mounted \cup Ended
OneWriter ==
  \A p \in Pane : InUse(p) => slot[p] = p \/ (slot[p] = "pool" /\ owner = p)

(* A waiter is a read of a pane that has not been answered.                *)
Queued(p) == \E i \in 1..Len(queue) : queue[i] = p
Awaits(p) == p \in waiting \/ Queued(p)
Waiting(p) ==
  /\ Awaits(p) => pane[p] \in {"wait", "off"} /\ gen[p] = "none" /\ chan[p] = <<>>
  /\ p \in waiting => ~Queued(p) /\ ~HasData(cursor[p])
                      /\ (pane[p] = "wait" => cursor[p] <= offset[slot[p]])
  /\ Queued(p) /\ pane[p] = "wait" => legacy[slot[p]]
Buffered ==
  /\ \A i, j \in 1..Len(queue) : queue[i] = queue[j] => i = j
  /\ Len(queue) > 0 => bufFrom = end

(* What is on its way to a pane starts at what the pane has passed, or at  *)
(* what the journal has left.                                              *)
Passed(p, i) == IF i = 0 THEN offset[slot[p]] ELSE chan[p][i].to
Joined(from, upto) == from <= KeptFrom(end) \/ from <= upto
Fits(p, item, upto) ==
  /\ item.to <= end /\ (item.placed => item.ok)
  /\ item.placed /\ item.exit => exited /\ exitAt <= item.to
  /\ pane[p] = "stream" /\ item.ok => item.placed
  /\ pane[p] = "wait" /\ item.ok /\ ~item.placed => item.to = 0 \/ legacy[slot[p]]
  /\ pane[p] \in {"stream", "wait"} /\ item.placed => Joined(item.from, upto)
Channel(p) ==
  /\ pane[p] \in {"stream", "wait"} \cup Ended \/ chan[p] = <<>>
  /\ pane[p] = "wait" => Len(chan[p]) <= 1
  /\ \A i \in 1..Len(chan[p]) : Fits(p, chan[p][i], Passed(p, i - 1))

(* A stream continues where its items end and sleeps over nothing.         *)
Generator(p) ==
  gen[p] # "none" =>
    /\ pane[p] \in {"stream", "off"} \cup Ended
    /\ gen[p] = "sleep" => ~HasData(cursor[p])
    /\ pane[p] = "stream" => cursor[p] <= Passed(p, Len(chan[p]))

(* Who was told of the exit by the journal has passed it.                  *)
ExitPassed(p) == pane[p] = "exit" => exited /\ exitAt <= offset[slot[p]]

(* What a terminal has passed it has written, unless the journal had lost  *)
(* it; and without destructive reads it wrote it once and nothing beyond.  *)
Written(t) ==
  \A k \in Pos : /\ k <= offset[t] => shown[t][k] > 0 \/ k <= KeptFrom(end)
                 /\ ~legacy[t] => shown[t][k] <= 1 /\ (k > offset[t] => shown[t][k] = 0)

PaneOK(p) == Waiting(p) /\ Channel(p) /\ Generator(p) /\ ExitPassed(p)
TermInv ==
  /\ TermTypes /\ Counted /\ OneWriter /\ Buffered
  /\ \A p \in Pane : PaneOK(p)
  /\ \A t \in Term : Written(t)

-----------------------------------------------------------------------------
(* Where a read starts: at its cursor or at what the journal has left.     *)
LEMMA KeptGrows ==
  ASSUME NEW a \in Nat, NEW b \in Nat, a <= b
  PROVE  KeptFrom(a) \in Nat /\ KeptFrom(a) <= KeptFrom(b) /\ KeptFrom(a) <= a
BY TerminalAssumption DEF KeptFrom, Larger

LEMMA ReadStarts ==
  ASSUME NEW e \in Nat, NEW a \in Int, NoOffset <= a, a <= e
  PROVE  /\ ReadFrom(a, e) \in 0..e
         /\ ReadFrom(a, e) <= KeptFrom(e) \/ ReadFrom(a, e) <= a
<1>1. KeptFrom(e) \in 0..e
  BY KeptGrows
<1> QED BY <1>1 DEF ReadFrom, Larger, Smaller, NoOffset

LEMMA JournalItemTyped ==
  ASSUME NEW e \in 0..MaxOut, NEW a \in Int, NoOffset <= a, a <= e, NEW x \in BOOLEAN
  PROVE  JournalItem(a, e, x) \in Item
<1>1. ReadFrom(a, e) \in 0..MaxOut
  BY ReadStarts, TerminalAssumption
<1> QED BY <1>1 DEF JournalItem, Item

LEMMA TermBegins == TermInit => TermInv
<1> SUFFICES ASSUME TermInit PROVE TermInv
  OBVIOUS
<1> USE TerminalAssumption
<1>1. TermTypes
  <2>1. Fresh \in [Pos -> 0..2] /\ NoOffset \in NoOffset..MaxOut
    BY DEF Fresh, NoOffset
  <2>2. queue = <<>> /\ chan \in [Pane -> Seq(Item)] /\ <<>> \in Seq(Pane)
    BY DEF TermInit
  <2>3. slot \in [Pane -> Term] /\ pane \in [Pane -> {"new", "off"} \cup Mounted \cup Ended]
    BY DEF TermInit, Term
  <2>4. shown \in [Term -> [Pos -> 0..2]] /\ offset \in [Term -> NoOffset..MaxOut]
        /\ cursor \in [Pane -> NoOffset..MaxOut]
    BY <2>1 DEF TermInit
  <2>5. /\ gen \in [Pane -> {"none", "run", "yield", "last", "sleep"}]
        /\ beat \in [Pane -> BOOLEAN] /\ legacy \in [Term -> BOOLEAN]
    BY DEF TermInit
  <2>6. /\ end \in 0..MaxOut /\ bufFrom \in 0..MaxOut /\ exitAt \in 0..MaxOut
        /\ drops \in 0..Drops
    BY DEF TermInit
  <2>7. /\ pty \in BOOLEAN /\ exited \in BOOLEAN /\ session \in {"live", "gone", "lost"}
        /\ waiting \subseteq Pane /\ owner \in Pane \cup {NoPane}
    BY DEF TermInit
  <2> QED BY <2>2, <2>3, <2>4, <2>5, <2>6, <2>7 DEF TermTypes
<1>2. Counted
  BY DEF Counted, NoOffset, TermInit
<1>3. OneWriter /\ Buffered
  BY DEF OneWriter, InUse, Mounted, Ended, Buffered, TermInit
<1>4. ASSUME NEW p \in Pane PROVE PaneOK(p)
  <2>1. pane[p] = "new" /\ gen[p] = "none" /\ chan[p] = <<>> /\ waiting = {} /\ queue = <<>>
    BY DEF TermInit
  <2>2. Len(chan[p]) = 0 /\ ~Awaits(p) /\ ~Queued(p)
    BY <2>1 DEF Awaits, Queued
  <2> QED BY <2>1, <2>2 DEF PaneOK, Waiting, Awaits, Channel, Generator, ExitPassed
<1>5. \A t \in Term : Written(t)
  BY DEF Written, Fresh, NoOffset, Pos, TermInit
<1> QED BY <1>1, <1>2, <1>3, <1>4, <1>5 DEF TermInv
-----------------------------------------------------------------------------
(* What a step leaves alone.                                               *)
LEMMA ItemsTyped ==
  ASSUME TermTypes, NEW q \in Pane
  PROVE  /\ Len(chan[q]) \in Nat
         /\ \A i \in 1..Len(chan[q]) : /\ chan[q][i] \in Item
                                       /\ chan[q][i].from \in 0..MaxOut /\ chan[q][i].to \in 0..MaxOut
         /\ slot[q] \in Term /\ offset[slot[q]] \in NoOffset..MaxOut /\ cursor[q] \in NoOffset..MaxOut
         /\ end \in Nat /\ exitAt \in Nat /\ KeptFrom(end) \in Nat
<1>1. chan[q] \in Seq(Item)
  BY DEF TermTypes
<1>2. Len(chan[q]) \in Nat /\ \A i \in 1..Len(chan[q]) : chan[q][i] \in Item
  BY <1>1
<1>3. \A x \in Item : x.from \in 0..MaxOut /\ x.to \in 0..MaxOut
  BY DEF Item
<1>4. slot[q] \in Term /\ offset[slot[q]] \in NoOffset..MaxOut /\ cursor[q] \in NoOffset..MaxOut
  BY DEF TermTypes
<1>5. end \in Nat /\ exitAt \in Nat
  BY TerminalAssumption DEF TermTypes
<1>6. KeptFrom(end) \in Nat
  BY <1>5, KeptGrows
<1> QED BY <1>2, <1>3, <1>4, <1>5, <1>6

LEMMA PaneStays ==
  ASSUME TermInv, TermTypes', NEW q \in Pane, end' = end,
         exited => exited' /\ exitAt' = exitAt,
         pane'[q] = pane[q], slot'[q] = slot[q], gen'[q] = gen[q], cursor'[q] = cursor[q],
         chan'[q] = chan[q], q \in waiting' => q \in waiting, Queued(q)' => Queued(q),
         InUse(q) => offset'[slot[q]] = offset[slot[q]] /\ legacy'[slot[q]] = legacy[slot[q]]
  PROVE  PaneOK(q)'
<1>1. PaneOK(q)
  BY DEF TermInv
<1>2. Waiting(q)'
  BY <1>1 DEF PaneOK, Waiting, Awaits, InUse, Mounted, HasData, ReadFrom, KeptFrom
<1>3. Channel(q)'
  <2>1. CASE InUse(q)
    BY <1>1, <2>1 DEF PaneOK, Channel, Fits, Passed, Joined, KeptFrom
  <2>2. CASE ~InUse(q)
    <3>1. chan[q] = <<>> /\ Len(chan[q]) = 0
      BY <1>1, <2>2 DEF PaneOK, Channel, InUse, Mounted
    <3> QED BY <3>1 DEF Channel
  <2> QED BY <2>1, <2>2
<1>4. Generator(q)'
  BY <1>1 DEF PaneOK, Generator, Passed, InUse, Mounted, HasData, ReadFrom, KeptFrom
<1>5. ExitPassed(q)'
  BY <1>1 DEF PaneOK, ExitPassed, InUse, Ended
<1> QED BY <1>2, <1>3, <1>4, <1>5 DEF PaneOK

LEMMA WrittenStays ==
  ASSUME TermInv, TermTypes', NEW t \in Term, end <= end',
         offset'[t] = offset[t], shown'[t] = shown[t], legacy'[t] = legacy[t] \/ legacy'[t]
  PROVE  Written(t)'
<1>1. end \in Nat /\ end' \in Nat
  BY TerminalAssumption DEF TermInv, TermTypes
<1>2. KeptFrom(end) \in Nat /\ KeptFrom(end') \in Nat /\ KeptFrom(end) <= KeptFrom(end')
  BY <1>1, KeptGrows
<1>3. \A k \in Pos : k <= KeptFrom(end) => k <= KeptFrom(end')
  BY <1>2, TerminalAssumption DEF Pos
<1>4. Written(t)
  BY DEF TermInv
<1>5. \A k \in Pos : k <= KeptFrom(end') => k <= KeptFrom(end)'
  BY DEF KeptFrom
<1> QED BY <1>3, <1>4, <1>5 DEF Written

(* Nothing is printed, read or shown: the session ends.                    *)
LEMMA EndsKeep ==
  ASSUME TermInv, CloseSession \/ TransportLoss \/ TombstoneEvicted
  PROVE  TermInv'
<1>1. /\ UNCHANGED <<end, bufFrom, queue, waiting, genVars, chan, clientVars>>
      /\ session' \in {"live", "gone", "lost"} /\ pty' \in BOOLEAN
      /\ \/ UNCHANGED <<exited, exitAt>>
         \/ exited' = TRUE /\ exitAt' = IF exited THEN exitAt ELSE end
  BY DEF CloseSession, TransportLoss, TombstoneEvicted, SetExited, TermInv, TermTypes
<1>2. TermTypes'
  BY <1>1 DEF TermInv, TermTypes, genVars, clientVars
<1>3. Counted'
  BY <1>1 DEF TermInv, TermTypes, Counted, genVars, clientVars
<1>4. OneWriter' /\ Buffered'
  BY <1>1 DEF TermInv, OneWriter, Buffered, InUse, clientVars
<1>5. ASSUME NEW q \in Pane PROVE PaneOK(q)'
  BY <1>1, <1>2, PaneStays DEF genVars, clientVars, Queued
<1>6. ASSUME NEW t \in Term PROVE Written(t)'
  BY <1>1, <1>2, WrittenStays DEF clientVars, TermInv, TermTypes
<1> QED BY <1>2, <1>3, <1>4, <1>5, <1>6 DEF TermInv
-----------------------------------------------------------------------------
(* What is on its way stays in order when more is printed, and when an     *)
(* item that continues it is added.                                        *)
LEMMA ChannelGrows ==
  ASSUME TermInv, TermTypes', NEW q \in Pane, end <= end',
         exited => exited' /\ exitAt' = exitAt, UNCHANGED clientVars, chan'[q] = chan[q]
  PROVE  Channel(q)'
<1>1. Channel(q)
  BY DEF TermInv, PaneOK
<1>2. end \in Nat /\ end' \in Nat
  BY TerminalAssumption DEF TermInv, TermTypes
<1>3. KeptFrom(end) \in Nat /\ KeptFrom(end)' \in Nat /\ KeptFrom(end) <= KeptFrom(end)'
  <2>1. KeptFrom(end') = KeptFrom(end)'
    BY DEF KeptFrom
  <2> QED BY <1>2, <2>1, KeptGrows
<1>4. UNCHANGED <<pane, slot, offset, legacy>>
  BY DEF clientVars
<1>5. \A i \in 1..Len(chan[q]) : chan[q][i].from \in Nat /\ chan[q][i].to \in Nat
  BY ItemsTyped, TerminalAssumption DEF TermInv
<1>6. Passed(q, 0)' = Passed(q, 0) /\ \A i \in 1..Len(chan[q]) : Passed(q, i)' = Passed(q, i)
  BY <1>4 DEF Passed
<1>7. ASSUME NEW i \in 1..Len(chan[q]) PROVE Fits(q, chan[q][i], Passed(q, i - 1))'
  <2>1. Fits(q, chan[q][i], Passed(q, i - 1))
    BY <1>1, <1>7 DEF Channel
  <2>2. chan[q][i].to \in Nat /\ chan[q][i].from \in Nat
    BY <1>5, <1>7
  <2> QED BY <1>2, <1>3, <1>4, <2>1, <2>2 DEF Fits, Joined, Passed
<1> QED BY <1>1, <1>4, <1>7 DEF Channel

LEMMA ChannelAppends ==
  ASSUME TermInv, TermTypes', NEW q \in Pane, NEW item \in Item, end <= end',
         exited => exited' /\ exitAt' = exitAt, UNCHANGED clientVars,
         chan'[q] = Append(chan[q], item),
         item.ok, item.to <= end', item.placed /\ item.exit => exited' /\ exitAt' <= item.to,
         pane[q] \in {"stream", "wait"} \cup Ended,
         pane[q] = "stream" => item.placed,
         pane[q] = "wait" => chan[q] = <<>> /\ (item.placed \/ legacy[slot[q]]),
         pane[q] \in {"stream", "wait"} /\ item.placed =>
           item.from <= KeptFrom(end') \/ item.from <= Passed(q, Len(chan[q]))
  PROVE  Channel(q)' /\ Passed(q, Len(chan[q]))' = item.to
<1>1. Channel(q)
  BY DEF TermInv, PaneOK
<1>2. end \in Nat /\ end' \in Nat
  BY TerminalAssumption DEF TermInv, TermTypes
<1>3. KeptFrom(end) \in Nat /\ KeptFrom(end)' \in Nat /\ KeptFrom(end) <= KeptFrom(end)'
      /\ KeptFrom(end') = KeptFrom(end)'
  <2>1. KeptFrom(end') = KeptFrom(end)'
    BY DEF KeptFrom
  <2> QED BY <1>2, <2>1, KeptGrows
<1>4. UNCHANGED <<pane, slot, offset, legacy>>
  BY DEF clientVars
<1>5. \A i \in 1..Len(chan[q]) : chan[q][i].from \in Nat /\ chan[q][i].to \in Nat
  BY ItemsTyped, TerminalAssumption DEF TermInv
<1>6. PICK n \in Nat : n = Len(chan[q]) /\ chan[q] \in Seq(Item)
  BY ItemsTyped DEF TermInv, TermTypes
<1>7. /\ Len(chan'[q]) = n + 1 /\ chan'[q][n + 1] = item
      /\ \A i \in 1..n : chan'[q][i] = chan[q][i]
  BY <1>6
<1>8. ASSUME NEW i \in 0..n PROVE Passed(q, i)' = Passed(q, i)
  BY <1>4, <1>6, <1>7 DEF Passed
<1>9. ASSUME NEW i \in 1..n PROVE Fits(q, chan[q][i], Passed(q, i - 1))'
  <2>1. Fits(q, chan[q][i], Passed(q, i - 1))
    BY <1>1, <1>6, <1>9 DEF Channel
  <2>2. chan[q][i].to \in Nat /\ chan[q][i].from \in Nat /\ chan'[q][i] = chan[q][i]
    BY <1>5, <1>6, <1>7, <1>9
  <2>3. Passed(q, i - 1)' = Passed(q, i - 1)
    BY <1>6, <1>8
  <2> QED BY <1>2, <1>3, <1>4, <2>1, <2>2, <2>3 DEF Fits, Joined
<1>10. Fits(q, chan[q][n + 1], Passed(q, n))'
  <2>1. Passed(q, n)' = Passed(q, n)
    BY <1>6, <1>8
  <2> QED BY <1>3, <1>4, <1>6, <1>7, <2>1 DEF Fits, Joined
<1>11. Channel(q)'
  <2>1. \A i \in 1..(n + 1) : Fits(q, chan[q][i], Passed(q, i - 1))'
    BY <1>6, <1>9, <1>10
  <2>2. pane'[q] = "wait" => n = 0
    BY <1>4, <1>6
  <2> QED BY <1>4, <1>6, <1>7, <2>1, <2>2 DEF Channel
<1> QED BY <1>6, <1>7, <1>11 DEF Passed

(* Everybody who waits is answered or left as he was, and the oldest       *)
(* reader of the buffer gets what it holds.                                *)
LEMMA Wakes ==
  ASSUME TermInv, NEW e \in 0..MaxOut, end <= e, NEW f \in 0..e, e - f <= Cap,
         NEW x \in BOOLEAN, NEW told \in BOOLEAN, told => x,
         WakeWaiters(e, x, f, told), NotifyStreams, end' = e, exited' = x,
         exited => x /\ exitAt' = exitAt, exitAt' \in 0..e,
         pty' \in BOOLEAN, UNCHANGED <<session, beat, clientVars>>
  PROVE  TermInv'
<1> USE TerminalAssumption
<1>1. /\ waiting' = {} /\ queue' = IF queue = <<>> \/ told THEN <<>> ELSE Tail(queue)
      /\ cursor' = [p \in Pane |-> IF p \in waiting THEN NoOffset ELSE cursor[p]]
      /\ bufFrom' = IF queue = <<>> THEN f ELSE e
      /\ chan' = [p \in Pane |->
           IF ~Listening(p) THEN chan[p]
           ELSE IF p \in waiting THEN Append(chan[p], JournalItem(cursor[p], e, x))
           ELSE IF queue # <<>> /\ p = Head(queue) THEN Append(chan[p], DrainItem(f, e, told))
           ELSE IF told /\ \E i \in 2..Len(queue) : p = queue[i] THEN Append(chan[p], DrainItem(e, e, told))
           ELSE chan[p]]
      /\ gen' = [p \in Pane |-> IF gen[p] = "sleep" THEN "run" ELSE gen[p]]
  BY DEF WakeWaiters, WaitersDone, NotifyStreams
<1>2. /\ queue \in Seq(Pane) /\ end \in Nat /\ e \in Nat /\ f \in Nat
      /\ chan \in [Pane -> Seq(Item)] /\ gen \in [Pane -> {"none", "run", "yield", "last", "sleep"}]
      /\ cursor \in [Pane -> NoOffset..MaxOut] /\ \A p \in Pane : cursor[p] <= end
  BY DEF TermInv, TermTypes, Counted
<1>3. UNCHANGED <<pane, slot, owner, offset, shown, legacy, drops, session, beat>>
  BY DEF clientVars
<1>4. \A p \in Pane : JournalItem(cursor[p], e, x) \in Item /\ ReadFrom(cursor[p], e) \in 0..e
                      /\ (ReadFrom(cursor[p], e) <= KeptFrom(e) \/ ReadFrom(cursor[p], e) <= cursor[p])
  <2> SUFFICES ASSUME NEW p \in Pane
               PROVE  JournalItem(cursor[p], e, x) \in Item /\ ReadFrom(cursor[p], e) \in 0..e
                      /\ (ReadFrom(cursor[p], e) <= KeptFrom(e) \/ ReadFrom(cursor[p], e) <= cursor[p])
    OBVIOUS
  <2>1. cursor[p] \in NoOffset..MaxOut /\ cursor[p] <= e
    BY <1>2
  <2>2. cursor[p] \in Int /\ NoOffset <= cursor[p]
    BY <2>1 DEF NoOffset
  <2> QED BY <1>2, <2>1, <2>2, JournalItemTyped, ReadStarts
<1>5. DrainItem(f, e, told) \in Item /\ DrainItem(e, e, told) \in Item
  BY DEF DrainItem, Item
<1>6. queue' \in Seq(Pane) /\ chan' \in [Pane -> Seq(Item)]
  <2>1. queue' \in Seq(Pane)
    BY <1>1, <1>2
  <2>2. ASSUME NEW p \in Pane PROVE chan'[p] \in Seq(Item)
    <3>1. \A item \in Item : Append(chan[p], item) \in Seq(Item)
      BY <1>2
    <3>2. chan'[p] \in {chan[p], Append(chan[p], JournalItem(cursor[p], e, x)),
                        Append(chan[p], DrainItem(f, e, told)), Append(chan[p], DrainItem(e, e, told))}
      BY <1>1
    <3> QED BY <1>2, <1>4, <1>5, <3>1, <3>2
  <2> QED BY <1>1, <2>1, <2>2
<1>7. TermTypes'
  <2>1. cursor' \in [Pane -> NoOffset..MaxOut] /\ gen' \in [Pane -> {"none", "run", "yield", "last", "sleep"}]
    BY <1>1, <1>2 DEF NoOffset
  <2>2. end' \in 0..MaxOut /\ bufFrom' \in 0..MaxOut /\ exitAt' \in 0..MaxOut
    BY <1>1, <1>2
  <2> QED BY <1>1, <1>3, <1>6, <2>1, <2>2 DEF TermInv, TermTypes
<1>8. Counted'
  <2>1. \A p \in Pane : cursor'[p] <= end'
    <3>1. \A p \in Pane : cursor[p] \in Int /\ cursor[p] <= e
      BY <1>2 DEF NoOffset
    <3>2. NoOffset <= e
      BY <1>2 DEF NoOffset
    <3> QED BY <1>1, <3>1, <3>2
  <2>2. \A t \in Term : offset'[t] <= end'
    <3>1. \A t \in Term : offset[t] \in Int /\ offset[t] <= end
      BY DEF TermInv, TermTypes, Counted, NoOffset
    <3> QED BY <1>2, <1>3, <3>1
  <2>3. bufFrom' <= end' /\ end' - bufFrom' <= Cap /\ exitAt' <= end'
    BY <1>1, <1>2
  <2> QED BY <2>1, <2>2, <2>3 DEF Counted
<1>9. OneWriter'
  BY <1>3 DEF TermInv, OneWriter, InUse
<1>10. /\ Len(queue') > 0 => Len(queue) > 0 /\ ~told /\ Len(queue') = Len(queue) - 1
       /\ \A i \in 1..Len(queue') : i + 1 \in 1..Len(queue) /\ queue'[i] = queue[i + 1]
  <2>1. CASE queue = <<>> \/ told
    BY <1>1, <2>1
  <2>2. CASE queue # <<>> /\ ~told
    <3>1. queue' = Tail(queue) /\ Len(queue) > 0
      BY <1>1, <1>2, <2>2
    <3>2. Len(queue') = Len(queue) - 1 /\ \A i \in 1..(Len(queue) - 1) : Tail(queue)[i] = queue[i + 1]
      BY <1>2, <3>1
    <3> QED BY <1>2, <2>2, <3>1, <3>2
  <2> QED BY <2>1, <2>2
<1>11. Buffered'
  <2>1. Len(queue') > 0 => bufFrom' = end'
    BY <1>1, <1>2, <1>10
  <2>2. ASSUME NEW i \in 1..Len(queue'), NEW j \in 1..Len(queue'), queue'[i] = queue'[j] PROVE i = j
    <3>1. queue[i + 1] = queue[j + 1] /\ i + 1 \in 1..Len(queue) /\ j + 1 \in 1..Len(queue)
      BY <1>10, <2>2
    <3>2. i + 1 = j + 1
      BY <3>1 DEF TermInv, Buffered
    <3> QED BY <1>6, <3>2
  <2> QED BY <2>1, <2>2 DEF Buffered
<1>12. ASSUME NEW q \in Pane PROVE PaneOK(q)'
  <2>1. PaneOK(q) /\ q \notin waiting'
    BY <1>1 DEF TermInv
  <2>2. Queued(q)' => /\ Queued(q) /\ queue # <<>> /\ q # Head(queue) /\ ~told
    <3> SUFFICES ASSUME NEW i \in 1..Len(queue'), queue'[i] = q
                 PROVE  Queued(q) /\ queue # <<>> /\ q # Head(queue) /\ ~told
      BY DEF Queued
    <3>1. i + 1 \in 1..Len(queue) /\ queue[i + 1] = q /\ Len(queue') > 0 /\ i \in Nat /\ i >= 1
      BY <1>6, <1>10
    <3>2. Len(queue) > 0 /\ ~told /\ 1 \in 1..Len(queue) /\ queue # <<>> /\ Head(queue) = queue[1]
      BY <1>2, <1>10, <3>1
    <3>3. queue[1] = q => i + 1 = 1
      BY <3>1, <3>2 DEF TermInv, Buffered
    <3> QED BY <3>1, <3>2, <3>3 DEF Queued
  <2>3. q \in waiting => ~Queued(q)
    BY <2>1 DEF PaneOK, Waiting
  <2>4. (queue # <<>> /\ q = Head(queue)) \/ (\E i \in 2..Len(queue) : q = queue[i]) => Queued(q)
    BY <1>2 DEF Queued
  <2>5. ~Awaits(q) => chan'[q] = chan[q] /\ cursor'[q] = cursor[q]
    BY <1>1, <2>4 DEF Awaits
  <2>6. Waiting(q)'
    <3>1. Queued(q)' => chan'[q] = chan[q]
      BY <1>1, <2>2, <2>3
    <3>2. gen[q] = "none" => gen'[q] = "none"
      BY <1>1
    <3> QED BY <1>3, <2>1, <2>2, <3>1, <3>2 DEF PaneOK, Waiting, Awaits
  <2>7. Channel(q)' /\ (pane[q] # "wait" => chan'[q] = chan[q])
    <3>1. pane[q] # "wait" => chan'[q] = chan[q]
      BY <1>1 DEF Listening
    <3>2. CASE chan'[q] = chan[q]
      BY <1>2, <1>3, <1>7, <3>2, ChannelGrows
    <3>3. CASE /\ pane[q] = "wait" /\ q \in waiting
               /\ chan'[q] = Append(chan[q], JournalItem(cursor[q], e, x))
      <4> DEFINE item == JournalItem(cursor[q], e, x)
      <4>1. chan[q] = <<>> /\ cursor[q] <= offset[slot[q]]
        BY <2>1, <3>3 DEF PaneOK, Waiting, Awaits
      <4>2. /\ item \in Item /\ item.ok /\ item.placed /\ item.to = e /\ item.exit = x
            /\ item.from = ReadFrom(cursor[q], e)
        BY <1>4 DEF JournalItem
      <4>3. item.from <= KeptFrom(e) \/ item.from <= Passed(q, Len(chan[q]))
        <5>1. Passed(q, Len(chan[q])) = offset[slot[q]]
          BY <4>1 DEF Passed
        <5>2. /\ offset[slot[q]] \in Int /\ cursor[q] \in Int /\ item.from \in Int
          BY <1>4, <4>2, ItemsTyped DEF TermInv, NoOffset
        <5> QED BY <1>4, <4>1, <4>2, <5>1, <5>2
      <4> HIDE DEF item
      <4>4. chan'[q] = Append(chan[q], item)
        BY <3>3 DEF item
      <4>5. /\ end <= end' /\ item.to <= end' /\ KeptFrom(end') = KeptFrom(e)
            /\ (item.placed /\ item.exit => exited' /\ exitAt' <= item.to)
        BY <1>2, <4>2
      <4>6. UNCHANGED clientVars /\ (exited => exited' /\ exitAt' = exitAt)
        OBVIOUS
      <4>7. pane[q] = "wait" => chan[q] = <<>> /\ (item.placed \/ legacy[slot[q]])
        BY <4>1, <4>2
      <4> QED BY <1>7, <3>3, <4>2, <4>3, <4>4, <4>5, <4>6, <4>7, ChannelAppends
    <3>4. ASSUME NEW g \in {f, e}, pane[q] = "wait", Queued(q), chan'[q] = Append(chan[q], DrainItem(g, e, told))
          PROVE  Channel(q)'
      <4> DEFINE item == DrainItem(g, e, told)
      <4>1. chan[q] = <<>> /\ legacy[slot[q]]
        BY <2>1, <3>4 DEF PaneOK, Waiting, Awaits
      <4>2. item \in Item /\ item.ok /\ ~item.placed /\ item.to = e
        BY <1>5 DEF DrainItem
      <4> HIDE DEF item
      <4>3. chan'[q] = Append(chan[q], item)
        BY <3>4 DEF item
      <4>4. end <= end' /\ item.to <= end'
        BY <1>2, <4>2
      <4>5. UNCHANGED clientVars /\ (exited => exited' /\ exitAt' = exitAt)
        OBVIOUS
      <4> QED BY <1>7, <3>4, <4>1, <4>2, <4>3, <4>4, <4>5, ChannelAppends
    <3>5. \/ chan'[q] = chan[q]
          \/ pane[q] = "wait" /\ q \in waiting /\ chan'[q] = Append(chan[q], JournalItem(cursor[q], e, x))
          \/ pane[q] = "wait" /\ Queued(q) /\ chan'[q] = Append(chan[q], DrainItem(f, e, told))
          \/ pane[q] = "wait" /\ Queued(q) /\ chan'[q] = Append(chan[q], DrainItem(e, e, told))
      BY <1>1, <2>4 DEF Listening
    <3> QED BY <3>1, <3>2, <3>3, <3>4, <3>5
  <2>8. Generator(q)'
    <3> SUFFICES ASSUME gen'[q] # "none" PROVE Generator(q)'
      BY DEF Generator
    <3>1. gen[q] # "none" /\ gen'[q] # "sleep"
      BY <1>1, <1>2
    <3>2. ~Awaits(q)
      BY <2>1, <3>1 DEF PaneOK, Waiting
    <3>3. chan'[q] = chan[q] /\ cursor'[q] = cursor[q]
      BY <2>5, <3>2
    <3> QED BY <1>3, <2>1, <3>1, <3>3 DEF PaneOK, Generator, Passed
  <2>9. ExitPassed(q)'
    BY <1>3, <2>1 DEF PaneOK, ExitPassed
  <2> QED BY <2>6, <2>7, <2>8, <2>9 DEF PaneOK
<1>13. ASSUME NEW t \in Term PROVE Written(t)'
  BY <1>2, <1>3, <1>7, WrittenStays
<1> QED BY <1>7, <1>8, <1>9, <1>11, <1>12, <1>13 DEF TermInv

LEMMA OutputKeeps ==
  ASSUME TermInv, NEW n \in 1..2, AppendSessionOutput(n)
  PROVE  TermInv'
<1> USE TerminalAssumption
<1>1. /\ end \in Nat /\ bufFrom \in Nat /\ bufFrom <= end /\ exitAt \in Nat /\ exitAt <= end
      /\ exited \in BOOLEAN /\ pty \in BOOLEAN
  BY DEF TermInv, TermTypes, Counted
<1>2. PICK e \in 0..MaxOut : e = end + n /\ end <= e /\ exitAt \in 0..e
  BY <1>1 DEF AppendSessionOutput
<1>3. PICK f \in 0..e : f = Larger(bufFrom, end + n - Cap) /\ e - f <= Cap
  <2>1. Cap \in Nat /\ e \in Nat /\ n \in Nat
    BY <1>2
  <2>2. Larger(bufFrom, end + n - Cap) \in 0..e /\ e - Larger(bufFrom, end + n - Cap) <= Cap
    BY <1>1, <1>2, <2>1 DEF Larger
  <2> QED BY <2>2
<1>4. PICK x \in BOOLEAN : x = exited
  BY <1>1
<1>5. /\ end' = e /\ WakeWaiters(e, x, f, FALSE) /\ NotifyStreams
      /\ UNCHANGED <<pty, exited, exitAt, session, beat, clientVars>>
  BY <1>2, <1>3, <1>4 DEF AppendSessionOutput, WakeWaiters
<1>6. exited' = x /\ (exited => x /\ exitAt' = exitAt) /\ exitAt' \in 0..e /\ pty' \in BOOLEAN
  BY <1>1, <1>2, <1>4, <1>5
<1> QED BY <1>2, <1>3, <1>5, <1>6, Wakes

LEMMA RecordExitKeeps == TermInv /\ RecordExit => TermInv'
<1> SUFFICES ASSUME TermInv, RecordExit PROVE TermInv'
  OBVIOUS
<1> USE TerminalAssumption
<1>1. pty' = FALSE /\ UNCHANGED <<end, session, beat, clientVars>>
  BY DEF RecordExit
<1>2. end \in 0..MaxOut /\ bufFrom \in 0..end /\ end - bufFrom <= Cap
  BY DEF TermInv, TermTypes, Counted
<1>3. CASE ~exited
  <2>1. exited' = TRUE /\ exitAt' = end /\ WakeWaiters(end, TRUE, bufFrom, TRUE) /\ NotifyStreams
    BY <1>3 DEF RecordExit
  <2>2. PICK e \in 0..MaxOut : e = end
    BY <1>2
  <2>3. PICK f \in 0..e : f = bufFrom
    BY <1>2, <2>2
  <2>4. WakeWaiters(e, TRUE, f, TRUE) /\ end' = e /\ end <= e /\ e - f <= Cap /\ exitAt' \in 0..e
    BY <1>1, <1>2, <2>1, <2>2, <2>3 DEF WakeWaiters
  <2> QED BY <1>1, <1>3, <2>1, <2>4, Wakes
<1>4. CASE exited
  <2>1. UNCHANGED <<end, exited, exitAt, bufFrom, queue, waiting, chan, gen, cursor, session, beat, clientVars>>
    BY <1>1, <1>4 DEF RecordExit
  <2>2. TermTypes'
    BY <1>1, <2>1 DEF TermInv, TermTypes, clientVars
  <2>3. Counted' /\ OneWriter' /\ Buffered'
    BY <2>1 DEF TermInv, Counted, OneWriter, Buffered, InUse, clientVars
  <2>4. ASSUME NEW q \in Pane PROVE PaneOK(q)'
    BY <2>1, <2>2, PaneStays DEF clientVars, Queued
  <2>5. ASSUME NEW t \in Term PROVE Written(t)'
    BY <1>2, <2>1, <2>2, WrittenStays DEF clientVars
  <2> QED BY <2>2, <2>3, <2>4, <2>5 DEF TermInv
<1> QED BY <1>3, <1>4
-----------------------------------------------------------------------------
(* The stream generators.                                                  *)
LEMMA GenTurnKeeps ==
  ASSUME TermInv, NEW p \in Pane, GenTurn(p)
  PROVE  TermInv'
<1> USE TerminalAssumption
<1>1. /\ gen[p] = "run" /\ UNCHANGED hostVars /\ UNCHANGED clientVars
      /\ PaneOK(p) /\ chan \in [Pane -> Seq(Item)] /\ cursor \in [Pane -> NoOffset..MaxOut]
      /\ gen \in [Pane -> {"none", "run", "yield", "last", "sleep"}] /\ beat \in [Pane -> BOOLEAN]
      /\ end \in 0..MaxOut /\ cursor[p] <= end /\ exited \in BOOLEAN /\ exitAt \in Nat /\ exitAt <= end
  BY DEF GenTurn, TermInv, TermTypes, Counted
<1>2. UNCHANGED <<end, bufFrom, pty, exited, exitAt, session, queue, waiting,
                  pane, slot, owner, offset, shown, legacy, drops>>
  BY <1>1 DEF hostVars, clientVars
<1>3. /\ \A q \in Pane \ {p} : gen'[q] = gen[q] /\ cursor'[q] = cursor[q] /\ chan'[q] = chan[q]
      /\ beat' \in [Pane -> BOOLEAN] /\ gen' \in [Pane -> {"none", "run", "yield", "last", "sleep"}]
      /\ cursor' \in [Pane -> NoOffset..MaxOut] /\ cursor'[p] <= end
  <2> DEFINE Gens == {"none", "run", "yield", "last", "sleep"}
  <2>1. PICK g \in Gens, c \in {NoOffset, end, cursor[p]}, b \in BOOLEAN :
          /\ gen' = [gen EXCEPT ![p] = g] /\ cursor' = [cursor EXCEPT ![p] = c]
          /\ beat' = [beat EXCEPT ![p] = b]
    <3>1. cursor = [cursor EXCEPT ![p] = cursor[p]] /\ beat = [beat EXCEPT ![p] = beat[p]] /\ beat[p] \in BOOLEAN
      BY <1>1
    <3>2. CASE pane[p] = "off"
      <4>1. gen' = [gen EXCEPT ![p] = "none"] /\ cursor' = [cursor EXCEPT ![p] = NoOffset] /\ beat' = beat
        BY <3>2 DEF GenTurn, Dropped
      <4> QED BY <3>1, <4>1
    <3>3. CASE pane[p] # "off" /\ (HasData(cursor[p]) \/ exited \/ beat[p])
      <4>1. /\ gen' = [gen EXCEPT ![p] = IF exited THEN "last" ELSE "yield"]
            /\ cursor' = [cursor EXCEPT ![p] = end] /\ beat' = beat
        BY <3>3 DEF GenTurn
      <4>2. (IF exited THEN "last" ELSE "yield") \in Gens
        OBVIOUS
      <4> QED BY <3>1, <4>1, <4>2
    <3>4. CASE pane[p] # "off" /\ ~(HasData(cursor[p]) \/ exited \/ beat[p])
      <4>1. /\ gen' = [gen EXCEPT ![p] = "sleep"] /\ cursor' = cursor
            /\ beat' = [beat EXCEPT ![p] = FALSE]
        BY <3>4 DEF GenTurn
      <4> QED BY <3>1, <4>1
    <3> QED BY <3>2, <3>3, <3>4
  <2>2. /\ \A q \in Pane \ {p} : gen'[q] = gen[q] /\ cursor'[q] = cursor[q]
        /\ cursor'[p] = c
    BY <1>1, <2>1
  <2>3. \A q \in Pane \ {p} : chan'[q] = chan[q]
    BY <1>1 DEF GenTurn
  <2>4. gen' \in [Pane -> Gens] /\ beat' \in [Pane -> BOOLEAN]
    BY <1>1, <2>1
  <2>5. c \in NoOffset..MaxOut /\ c <= end
    BY <1>1 DEF NoOffset
  <2>6. cursor' \in [Pane -> NoOffset..MaxOut]
    BY <1>1, <2>1, <2>5
  <2> QED BY <2>2, <2>3, <2>4, <2>5, <2>6
<1>4. cursor[p] \in Int /\ NoOffset <= cursor[p] /\ end \in Nat
  BY <1>1 DEF NoOffset
<1>5. PICK item \in Item : item = JournalItem(cursor[p], end, exited)
  BY <1>1, <1>4, JournalItemTyped
<1>6. /\ item.ok /\ item.placed /\ item.to = end /\ item.exit = exited
      /\ item.from <= KeptFrom(end) \/ item.from <= cursor[p]
  BY <1>1, <1>4, <1>5, ReadStarts DEF JournalItem
<1>7. chan' = chan \/ (pane[p] # "off" /\ chan' = [chan EXCEPT ![p] = Append(@, item)])
  BY <1>5 DEF GenTurn
<1>8. TermTypes'
  <2>1. chan' \in [Pane -> Seq(Item)]
    <3>1. Append(chan[p], item) \in Seq(Item)
      BY <1>1
    <3> QED BY <1>1, <1>7, <3>1
  <2> QED BY <1>2, <1>3, <2>1 DEF TermInv, TermTypes
<1>9. Counted' /\ OneWriter' /\ Buffered'
  BY <1>2, <1>3 DEF TermInv, Counted, OneWriter, Buffered, InUse
<1>10. ASSUME NEW q \in Pane \ {p} PROVE PaneOK(q)'
  BY <1>2, <1>3, <1>8, <1>10, PaneStays DEF Queued
<1>11. ~Awaits(p) /\ pane[p] \in {"stream", "off"} \cup Ended
  BY <1>1 DEF PaneOK, Waiting, Generator
<1>12. Waiting(p)' /\ ExitPassed(p)'
  BY <1>1, <1>2, <1>11 DEF Waiting, Awaits, Queued, PaneOK, ExitPassed
<1>13. Channel(p)' /\ Generator(p)'
  <2>1. CASE pane[p] = "off"
    <3>1. chan' = chan /\ gen'[p] = "none"
      BY <1>1, <2>1 DEF GenTurn
    <3>2. Channel(p)'
      BY <1>2, <1>4, <1>8, <3>1, ChannelGrows DEF clientVars
    <3> QED BY <3>1, <3>2 DEF Generator
  <2>2. CASE pane[p] # "off" /\ (HasData(cursor[p]) \/ exited \/ beat[p])
    <3>1. /\ chan' = [chan EXCEPT ![p] = Append(@, item)] /\ cursor'[p] = end
          /\ gen'[p] \in {"last", "yield"}
      BY <1>1, <1>5, <2>2 DEF GenTurn
    <3>2. chan'[p] = Append(chan[p], item) /\ pane[p] \in {"stream"} \cup Ended /\ pane[p] # "wait"
      BY <1>1, <1>11, <2>2, <3>1 DEF Ended
    <3>3. pane[p] = "stream" => item.from <= KeptFrom(end') \/ item.from <= Passed(p, Len(chan[p]))
      <4>1. cursor[p] <= Passed(p, Len(chan[p])) \/ pane[p] # "stream"
        BY <1>1 DEF PaneOK, Generator
      <4>2. Passed(p, Len(chan[p])) \in Int /\ item.from \in Int
        <5>1. chan[p] = <<>> => Len(chan[p]) = 0
          OBVIOUS
        <5> QED BY <1>1, ItemsTyped DEF Passed, Item, TermInv, NoOffset
      <4> QED BY <1>2, <1>4, <1>6, <4>1, <4>2
    <3>4. Channel(p)' /\ Passed(p, Len(chan[p]))' = item.to
      BY <1>1, <1>2, <1>4, <1>6, <1>8, <3>2, <3>3, ChannelAppends
    <3> QED BY <1>2, <1>4, <1>6, <1>11, <2>2, <3>1, <3>4 DEF Generator
  <2>3. CASE pane[p] # "off" /\ ~(HasData(cursor[p]) \/ exited \/ beat[p])
    <3>1. chan' = chan /\ cursor' = cursor
      BY <2>3 DEF GenTurn
    <3>2. Channel(p)'
      BY <1>2, <1>4, <1>8, <3>1, ChannelGrows DEF clientVars
    <3> QED BY <1>1, <1>2, <2>3, <3>1, <3>2 DEF PaneOK, Generator, HasData, ReadFrom, KeptFrom, Passed
  <2> QED BY <2>1, <2>2, <2>3
<1>14. ASSUME NEW t \in Term PROVE Written(t)'
  BY <1>2, <1>4, <1>8, WrittenStays
<1> QED BY <1>8, <1>9, <1>10, <1>12, <1>13, <1>14 DEF TermInv, PaneOK

LEMMA GenTimesKeep ==
  ASSUME TermInv, NEW p \in Pane, GenResume(p) \/ Heartbeat(p)
  PROVE  TermInv'
<1> USE TerminalAssumption
<1>1. /\ gen[p] # "none" /\ UNCHANGED hostVars /\ UNCHANGED clientVars /\ chan' = chan
      /\ PaneOK(p) /\ cursor \in [Pane -> NoOffset..MaxOut] /\ end \in Nat
      /\ gen \in [Pane -> {"none", "run", "yield", "last", "sleep"}] /\ beat \in [Pane -> BOOLEAN]
  BY DEF GenResume, Heartbeat, TermInv, TermTypes
<1>2. UNCHANGED <<end, bufFrom, pty, exited, exitAt, session, queue, waiting,
                  pane, slot, owner, offset, shown, legacy, drops>>
  BY <1>1 DEF hostVars, clientVars
<1>3. /\ \A q \in Pane \ {p} : gen'[q] = gen[q] /\ cursor'[q] = cursor[q]
      /\ beat' \in [Pane -> BOOLEAN] /\ gen' \in [Pane -> {"none", "run", "yield", "last", "sleep"}]
      /\ gen'[p] = "sleep" => ~HasData(cursor[p])
      /\ cursor'[p] = cursor[p] \/ (gen'[p] = "none" /\ cursor'[p] = NoOffset)
      /\ cursor' \in [Pane -> NoOffset..MaxOut]
  <2>1. CASE Heartbeat(p)
    BY <1>1, <2>1 DEF Heartbeat
  <2>2. CASE GenResume(p)
    <3>1. /\ \A q \in Pane \ {p} : gen'[q] = gen[q]
          /\ gen' \in [Pane -> {"none", "run", "yield", "last", "sleep"}]
          /\ gen'[p] = "sleep" => ~HasData(cursor[p])
      BY <1>1, <2>2 DEF GenResume, AfterYield
    <3>2. beat' \in [Pane -> BOOLEAN]
      <4>1. beat' = [beat EXCEPT ![p] = @ /\ gen'[p] = "run"]
        BY <2>2 DEF GenResume
      <4> QED BY <1>1, <4>1
    <3>3. cursor' = IF gen'[p] = "none" THEN [cursor EXCEPT ![p] = NoOffset] ELSE cursor
      BY <2>2 DEF GenResume, Dropped
    <3>4. NoOffset \in NoOffset..MaxOut
      BY DEF NoOffset
    <3> QED BY <1>1, <3>1, <3>2, <3>3, <3>4
  <2> QED BY <2>1, <2>2
<1>4. TermTypes'
  BY <1>1, <1>2, <1>3 DEF TermInv, TermTypes
<1>5. Counted'
  <2>1. NoOffset <= end
    BY <1>1 DEF NoOffset
  <2> QED BY <1>2, <1>3, <2>1 DEF TermInv, Counted
<1>6. OneWriter' /\ Buffered'
  BY <1>2 DEF TermInv, OneWriter, Buffered, InUse
<1>7. ASSUME NEW q \in Pane \ {p} PROVE PaneOK(q)'
  BY <1>1, <1>2, <1>3, <1>4, <1>7, PaneStays DEF Queued
<1>8. PaneOK(p)'
  <2>1. ~Awaits(p)
    BY <1>1 DEF PaneOK, Waiting
  <2>2. Waiting(p)' /\ ExitPassed(p)'
    BY <1>1, <1>2, <2>1 DEF Waiting, Awaits, Queued, PaneOK, ExitPassed
  <2>3. Channel(p)'
    BY <1>1, <1>2, <1>4, ChannelGrows DEF clientVars
  <2>4. Generator(p)'
    BY <1>1, <1>2, <1>3 DEF PaneOK, Generator, HasData, ReadFrom, KeptFrom, Passed
  <2> QED BY <2>2, <2>3, <2>4 DEF PaneOK
<1>9. ASSUME NEW t \in Term PROVE Written(t)'
  BY <1>1, <1>2, <1>4, WrittenStays
<1> QED BY <1>4, <1>5, <1>6, <1>7, <1>8, <1>9 DEF TermInv
-----------------------------------------------------------------------------
(* The reads.                                                              *)
LEMMA WritersApart ==
  ASSUME TermInv, NEW p \in Pane, NEW q \in Pane, p # q, InUse(p), InUse(q)
  PROVE  slot[p] # slot[q]
BY TerminalAssumption DEF TermInv, OneWriter

(* A pane that asks has neither a stream nor an unanswered read.           *)
LEMMA AsksAnew ==
  ASSUME TermInv, NEW p \in Pane, pane[p] \in {"new", "sub", "back", "poll", "pollBack"}
  PROVE  chan[p] = <<>> /\ Len(chan[p]) = 0 /\ ~Awaits(p) /\ gen[p] = "none"
<1>1. PaneOK(p)
  BY DEF TermInv
<1>2. pane[p] \notin {"stream", "wait", "off"} \cup Ended
  BY DEF Ended
<1> QED BY <1>1, <1>2 DEF PaneOK, Channel, Waiting, Generator

LEMMA Answers ==
  ASSUME TermInv, TermTypes', NEW p \in Pane, pane[p] = "poll", pane'[p] = "wait",
         NEW item \in Item, chan'[p] = <<item>>, p \notin waiting', ~Queued(p)',
         UNCHANGED <<end, exited, exitAt, gen, slot, offset>>,
         item.to <= end, item.placed => item.ok, item.placed /\ item.exit => exited /\ exitAt <= item.to,
         item.ok /\ ~item.placed => item.to = 0 \/ legacy'[slot[p]],
         item.placed => item.from <= KeptFrom(end) \/ item.from <= offset[slot[p]]
  PROVE  PaneOK(p)'
<1>1. Len(chan'[p]) = 1 /\ chan'[p][1] = item
  OBVIOUS
<1>2. gen'[p] = "none"
  BY AsksAnew
<1>3. Channel(p)'
  <2>1. ASSUME NEW i \in 1..Len(chan'[p]) PROVE Fits(p, chan[p][i], Passed(p, i - 1))'
    <3>1. i = 1
      BY <1>1, <2>1
    <3> QED BY <1>1, <3>1 DEF Fits, Passed, Joined, KeptFrom
  <2> QED BY <1>1, <2>1 DEF Channel
<1> QED BY <1>2, <1>3 DEF PaneOK, Waiting, Awaits, Generator, ExitPassed

LEMMA ReadKeeps ==
  ASSUME TermInv, NEW p \in Pane, Read(p)
  PROVE  TermInv'
<1> USE TerminalAssumption
<1> DEFINE a == offset[slot[p]]
<1>1. /\ pane[p] = "poll" /\ pane' = [pane EXCEPT ![p] = "wait"]
      /\ UNCHANGED <<end, pty, exited, exitAt, session, gen, beat, slot, owner, offset, shown, drops>>
  BY DEF Read
<1>2. /\ chan \in [Pane -> Seq(Item)] /\ queue \in Seq(Pane) /\ waiting \subseteq Pane
      /\ cursor \in [Pane -> NoOffset..MaxOut] /\ legacy \in [Term -> BOOLEAN]
      /\ pane \in [Pane -> {"new", "off"} \cup Mounted \cup Ended]
      /\ end \in Nat /\ end \in 0..MaxOut /\ bufFrom \in 0..MaxOut /\ bufFrom <= end /\ exited \in BOOLEAN
      /\ exitAt <= end /\ slot[p] \in Term /\ a \in NoOffset..MaxOut /\ a <= end
  BY DEF TermInv, TermTypes, Counted
<1>3. chan[p] = <<>> /\ ~Awaits(p) /\ gen[p] = "none"
  BY <1>1, AsksAnew
<1>4. a \in Int /\ NoOffset <= a
  BY <1>2 DEF NoOffset
<1>5. ASSUME NEW item \in Item, chan' = [chan EXCEPT ![p] = <<item>>] PROVE chan' \in [Pane -> Seq(Item)] /\ chan'[p] = <<item>>
  <2>1. <<item>> \in Seq(Item)
    OBVIOUS
  <2> QED BY <1>2, <1>5, <2>1
<1>6. pane' \in [Pane -> {"new", "off"} \cup Mounted \cup Ended]
  <2>1. "wait" \in Mounted
    BY DEF Mounted
  <2> QED BY <1>1, <1>2, <2>1
(* What holds of the others, whatever is read. *)
<1>7. ASSUME TermTypes', \A q \in Pane \ {p} : chan'[q] = chan[q] /\ cursor'[q] = cursor[q]
                                               /\ (q \in waiting' => q \in waiting) /\ (Queued(q)' => Queued(q)),
             legacy' = [legacy EXCEPT ![slot[p]] = TRUE] \/ legacy' = legacy,
             Buffered', bufFrom' <= end, end - bufFrom' <= Cap, cursor'[p] <= end, PaneOK(p)'
      PROVE  TermInv'
  <2>1. Counted'
    BY <1>1, <1>7 DEF TermInv, Counted
  <2>2. OneWriter'
    BY <1>1, <1>2 DEF TermInv, OneWriter, InUse, Mounted
  <2>3. ASSUME NEW q \in Pane \ {p} PROVE PaneOK(q)'
    <3>1. InUse(q) => slot[q] # slot[p]
      BY <1>1, WritersApart DEF InUse, Mounted
    <3>2. slot[q] \in Term
      BY DEF TermInv, TermTypes
    <3>3. InUse(q) => legacy'[slot[q]] = legacy[slot[q]] /\ offset'[slot[q]] = offset[slot[q]]
      BY <1>1, <1>2, <1>7, <3>1, <3>2
    <3> QED BY <1>1, <1>2, <1>7, <3>3, PaneStays
  <2>4. ASSUME NEW t \in Term PROVE Written(t)'
    <3>1. legacy'[t] = legacy[t] \/ legacy'[t]
      BY <1>2, <1>7
    <3> QED BY <1>1, <1>2, <1>7, <3>1, WrittenStays
  <2> QED BY <1>7, <2>1, <2>2, <2>3, <2>4 DEF TermInv
<1>8. CASE /\ session # "live"
           /\ chan' = [chan EXCEPT ![p] = <<IF session = "gone" THEN TombItem ELSE NoSessionItem>>]
           /\ UNCHANGED <<bufFrom, queue, waiting, legacy, cursor>>
  <2>1. PICK item \in Item : /\ item = IF session = "gone" THEN TombItem ELSE NoSessionItem
                             /\ item.to = 0 /\ ~item.placed
    <3>1. TombItem \in Item /\ NoSessionItem \in Item
      BY DEF TombItem, NoSessionItem, Item
    <3>2. TombItem.to = 0 /\ ~TombItem.placed /\ NoSessionItem.to = 0 /\ ~NoSessionItem.placed
      BY DEF TombItem, NoSessionItem
    <3> QED BY <3>1, <3>2
  <2>2. chan' = [chan EXCEPT ![p] = <<item>>]
    BY <1>8, <2>1
  <2>3. TermTypes'
    BY <1>1, <1>5, <1>6, <1>8, <2>2 DEF TermInv, TermTypes
  <2>4. PaneOK(p)'
    <3>1. p \notin waiting' /\ ~Queued(p)'
      BY <1>3, <1>8 DEF Awaits, Queued
    <3>2. pane'[p] = "wait" /\ chan'[p] = <<item>>
      BY <1>1, <1>2, <1>5, <2>2
    <3>3. UNCHANGED <<end, exited, exitAt, gen, slot, offset>> /\ pane[p] = "poll"
      BY <1>1
    <3>4. /\ item.to <= end /\ (item.placed => item.ok) /\ (item.placed /\ item.exit => exited /\ exitAt <= item.to)
          /\ (item.ok /\ ~item.placed => item.to = 0 \/ legacy'[slot[p]])
          /\ (item.placed => item.from <= KeptFrom(end) \/ item.from <= offset[slot[p]])
      BY <1>2, <2>1, <2>3
    <3> QED BY <1>1, <1>2, <2>1, <2>3, <3>1, <3>2, <3>3, <3>4, Answers
  <2>5. \A q \in Pane \ {p} : chan'[q] = chan[q]
    BY <1>2, <2>2
  <2> QED BY <1>1, <1>2, <1>7, <1>8, <2>3, <2>4, <2>5 DEF TermInv, Buffered, Queued, Counted
<1>9. CASE /\ session = "live" /\ a # NoOffset /\ (HasData(a) \/ exited)
           /\ chan' = [chan EXCEPT ![p] = <<JournalItem(a, end, exited)>>]
           /\ UNCHANGED <<bufFrom, queue, waiting, legacy, cursor>>
  <2>1. PICK item \in Item : item = JournalItem(a, end, exited)
    BY <1>2, <1>4, JournalItemTyped
  <2>2. /\ item.ok /\ item.placed /\ item.to = end /\ item.exit = exited
        /\ item.from <= KeptFrom(end) \/ item.from <= a
    BY <1>2, <1>4, <2>1, ReadStarts DEF JournalItem
  <2>3. chan' = [chan EXCEPT ![p] = <<item>>]
    BY <1>9, <2>1
  <2>4. TermTypes'
    BY <1>1, <1>5, <1>6, <1>9, <2>3 DEF TermInv, TermTypes
  <2>5. PaneOK(p)'
    <3>1. p \notin waiting' /\ ~Queued(p)'
      BY <1>3, <1>9 DEF Awaits, Queued
    <3>2. pane'[p] = "wait" /\ chan'[p] = <<item>>
      BY <1>1, <1>2, <1>5, <2>3
    <3>3. UNCHANGED <<end, exited, exitAt, gen, slot, offset>> /\ pane[p] = "poll"
      BY <1>1
    <3>4. /\ item.to <= end /\ (item.placed => item.ok) /\ (item.placed /\ item.exit => exited /\ exitAt <= item.to)
          /\ (item.ok /\ ~item.placed => item.to = 0 \/ legacy'[slot[p]])
          /\ (item.placed => item.from <= KeptFrom(end) \/ item.from <= offset[slot[p]])
      BY <1>2, <2>2, <2>4
    <3> QED BY <1>1, <1>2, <2>2, <2>4, <3>1, <3>2, <3>3, <3>4, Answers
  <2>6. \A q \in Pane \ {p} : chan'[q] = chan[q]
    BY <1>2, <2>3
  <2> QED BY <1>1, <1>2, <1>7, <1>9, <2>4, <2>5, <2>6 DEF TermInv, Buffered, Queued, Counted
<1>10. CASE /\ session = "live" /\ ~HasData(a)
            /\ waiting' = waiting \cup {p} /\ cursor' = [cursor EXCEPT ![p] = a]
            /\ UNCHANGED <<bufFrom, queue, legacy, chan>>
  <2>1. cursor'[p] = a /\ cursor' \in [Pane -> NoOffset..MaxOut] /\ \A q \in Pane \ {p} : cursor'[q] = cursor[q]
    BY <1>2, <1>10
  <2>2. TermTypes'
    BY <1>1, <1>6, <1>10, <2>1 DEF TermInv, TermTypes
  <2>3. PaneOK(p)'
    <3>1. pane'[p] = "wait" /\ chan'[p] = <<>> /\ Len(chan'[p]) = 0 /\ gen'[p] = "none"
      BY <1>1, <1>2, <1>3, <1>10
    <3>2. ~Queued(p)'
      BY <1>3, <1>10 DEF Awaits, Queued
    <3>3. ~HasData(cursor[p])'
      BY <1>1, <1>10, <2>1 DEF HasData, ReadFrom, KeptFrom
    <3>4. Waiting(p)'
      BY <1>1, <1>2, <1>4, <2>1, <3>1, <3>2, <3>3 DEF Waiting, Awaits
    <3> QED BY <3>1, <3>4 DEF PaneOK, Channel, Generator, ExitPassed
  <2> QED BY <1>1, <1>2, <1>7, <1>10, <2>1, <2>2, <2>3 DEF TermInv, Buffered, Queued, Counted
<1>11. CASE /\ session = "live" /\ legacy' = [legacy EXCEPT ![slot[p]] = TRUE]
            /\ chan' = [chan EXCEPT ![p] = <<DrainItem(bufFrom, end, exited)>>]
            /\ bufFrom' = end /\ UNCHANGED <<queue, waiting, cursor>>
  <2>1. PICK item \in Item : item = DrainItem(bufFrom, end, exited) /\ ~item.placed /\ item.to = end
    <3>1. DrainItem(bufFrom, end, exited) \in Item
      BY <1>2 DEF DrainItem, Item
    <3>2. ~DrainItem(bufFrom, end, exited).placed /\ DrainItem(bufFrom, end, exited).to = end
      BY DEF DrainItem
    <3> QED BY <3>1, <3>2
  <2>2. chan' = [chan EXCEPT ![p] = <<item>>] /\ legacy'[slot[p]] = TRUE /\ legacy' \in [Term -> BOOLEAN]
    BY <1>2, <1>11, <2>1
  <2>3. TermTypes'
    BY <1>1, <1>2, <1>5, <1>6, <1>11, <2>2 DEF TermInv, TermTypes
  <2>4. PaneOK(p)'
    <3>1. p \notin waiting' /\ ~Queued(p)'
      BY <1>3, <1>11 DEF Awaits, Queued
    <3>2. pane'[p] = "wait" /\ chan'[p] = <<item>>
      BY <1>1, <1>2, <1>5, <2>2
    <3>3. UNCHANGED <<end, exited, exitAt, gen, slot, offset>> /\ pane[p] = "poll"
      BY <1>1
    <3>4. /\ item.to <= end /\ (item.placed => item.ok) /\ (item.placed /\ item.exit => exited /\ exitAt <= item.to)
          /\ (item.ok /\ ~item.placed => item.to = 0 \/ legacy'[slot[p]])
          /\ (item.placed => item.from <= KeptFrom(end) \/ item.from <= offset[slot[p]])
      BY <1>2, <2>1, <2>2, <2>3
    <3> QED BY <1>1, <1>2, <2>1, <2>2, <2>3, <3>1, <3>2, <3>3, <3>4, Answers
  <2>5. \A q \in Pane \ {p} : chan'[q] = chan[q]
    BY <1>2, <2>2
  <2>6. Buffered' /\ bufFrom' <= end /\ end - bufFrom' <= Cap
    BY <1>1, <1>2, <1>11 DEF TermInv, Buffered
  <2> QED BY <1>1, <1>2, <1>7, <1>11, <2>3, <2>4, <2>5, <2>6 DEF TermInv, Queued, Counted
<1>12. CASE /\ session = "live" /\ legacy' = [legacy EXCEPT ![slot[p]] = TRUE]
            /\ ~(bufFrom < end) /\ queue' = Append(queue, p)
            /\ UNCHANGED <<bufFrom, chan, waiting, cursor>>
  <2>1. legacy'[slot[p]] = TRUE /\ legacy' \in [Term -> BOOLEAN] /\ queue' \in Seq(Pane)
    BY <1>2, <1>12
  <2>2. TermTypes'
    BY <1>1, <1>6, <1>12, <2>1 DEF TermInv, TermTypes
  <2>3. PICK n \in Nat : n = Len(queue)
    <3>1. Len(queue) \in Nat
      BY <1>2
    <3> QED BY <3>1
  <2>4. Len(queue') = n + 1 /\ queue'[n + 1] = p /\ \A i \in 1..n : queue'[i] = queue[i] /\ queue[i] # p
    BY <1>2, <1>3, <1>12, <2>3 DEF Awaits, Queued
  <2>5. Buffered'
    <3>1. bufFrom' = end'
      BY <1>1, <1>2, <1>12
    <3>2. \A i, j \in 1..n : queue[i] = queue[j] => i = j
      BY <2>3 DEF TermInv, Buffered
    <3> QED BY <2>4, <3>1, <3>2 DEF Buffered
  <2>6. \A q \in Pane \ {p} : Queued(q)' => Queued(q)
    BY <2>3, <2>4 DEF Queued
  <2>7. PaneOK(p)'
    <3>1. pane'[p] = "wait" /\ chan'[p] = <<>> /\ Len(chan'[p]) = 0 /\ gen'[p] = "none" /\ p \notin waiting'
      BY <1>1, <1>2, <1>3, <1>12 DEF Awaits
    <3>2. Waiting(p)'
      BY <1>1, <2>1, <3>1 DEF Waiting, Awaits
    <3> QED BY <3>1, <3>2 DEF PaneOK, Channel, Generator, ExitPassed
  <2> QED BY <1>1, <1>2, <1>7, <1>12, <2>2, <2>5, <2>6, <2>7 DEF TermInv, Counted
<1> QED BY <1>8, <1>9, <1>10, <1>11, <1>12 DEF Read

LEMMA ReadTimeoutKeeps ==
  ASSUME TermInv, NEW p \in Pane, ReadTimeout(p)
  PROVE  TermInv'
<1> USE TerminalAssumption
<1>1. UNCHANGED <<end, pty, exited, exitAt, session, gen, beat, clientVars>>
  BY DEF ReadTimeout
<1>2. UNCHANGED <<pane, slot, owner, offset, shown, legacy, drops>>
  BY <1>1 DEF clientVars
<1>3. /\ chan \in [Pane -> Seq(Item)] /\ queue \in Seq(Pane) /\ waiting \subseteq Pane /\ PaneOK(p)
      /\ cursor \in [Pane -> NoOffset..MaxOut] /\ cursor[p] <= end /\ exited \in BOOLEAN /\ exitAt <= end
      /\ end \in Nat /\ end \in 0..MaxOut /\ bufFrom \in 0..MaxOut /\ bufFrom <= end
  BY DEF TermInv, TermTypes, Counted
<1>4. NoOffset \in NoOffset..MaxOut /\ NoOffset <= end /\ cursor[p] \in Int /\ NoOffset <= cursor[p]
  BY <1>3 DEF NoOffset
(* An answer for p, if anybody still listens. *)
<1>5. ASSUME TermTypes', NEW item \in Item, chan' = Answered(chan, p, item), Awaits(p), ~Awaits(p)', Buffered',
             \A q \in Pane \ {p} : cursor'[q] = cursor[q] /\ (q \in waiting' => q \in waiting) /\ (Queued(q)' => Queued(q)),
             cursor'[p] <= end, bufFrom' <= end, end - bufFrom' <= Cap,
             item.ok, item.to = end, item.placed => item.exit = exited,
             pane[p] = "wait" => item.placed \/ legacy[slot[p]],
             pane[p] = "wait" /\ item.placed => item.from <= KeptFrom(end) \/ item.from <= offset[slot[p]]
      PROVE  TermInv'
  <2>1. chan[p] = <<>> /\ Len(chan[p]) = 0 /\ gen[p] = "none" /\ pane[p] \in {"wait", "off"}
    BY <1>3, <1>5 DEF PaneOK, Waiting
  <2>2. Counted' /\ OneWriter'
    BY <1>1, <1>2, <1>5 DEF TermInv, Counted, OneWriter, InUse
  <2>3. ASSUME NEW q \in Pane \ {p} PROVE PaneOK(q)'
    <3>1. chan'[q] = chan[q]
      BY <1>3, <1>5 DEF Answered
    <3> QED BY <1>1, <1>2, <1>5, <3>1, PaneStays
  <2>4. Waiting(p)' /\ Generator(p)' /\ ExitPassed(p)'
    BY <1>1, <1>2, <1>3, <1>5, <2>1 DEF Waiting, Awaits, Generator, PaneOK, ExitPassed
  <2>5. Channel(p)'
    <3>1. CASE pane[p] = "wait"
      <4>1. chan'[p] = Append(chan[p], item)
        BY <1>3, <1>5, <3>1 DEF Answered, Listening
      <4>2. item.from <= KeptFrom(end') \/ item.from <= Passed(p, Len(chan[p])) \/ ~item.placed
        BY <1>1, <1>5, <2>1, <3>1 DEF Passed
      <4>3. end <= end' /\ item.to <= end' /\ UNCHANGED clientVars /\ (exited => exited' /\ exitAt' = exitAt)
        BY <1>1, <1>3, <1>5
      <4>4. item.placed /\ item.exit => exited' /\ exitAt' <= item.to
        BY <1>1, <1>3, <1>5
      <4> QED BY <1>5, <2>1, <3>1, <4>1, <4>2, <4>3, <4>4, ChannelAppends
    <3>2. CASE pane[p] = "off"
      <4>1. chan' = chan
        BY <1>5, <3>2 DEF Answered, Listening
      <4> QED BY <1>2, <2>1, <4>1 DEF Channel
    <3> QED BY <2>1, <3>1, <3>2
  <2>6. ASSUME NEW t \in Term PROVE Written(t)'
    BY <1>1, <1>2, <1>3, <1>5, WrittenStays
  <2> QED BY <1>5, <2>2, <2>3, <2>4, <2>5, <2>6 DEF TermInv, PaneOK
<1>6. ASSUME NEW item \in Item, chan' = Answered(chan, p, item) PROVE chan' \in [Pane -> Seq(Item)]
  <2>1. Append(chan[p], item) \in Seq(Item)
    BY <1>3
  <2> QED BY <1>3, <1>6, <2>1 DEF Answered
<1>7. CASE /\ p \in waiting /\ waiting' = waiting \ {p} /\ cursor' = Dropped(p)
           /\ chan' = Answered(chan, p, JournalItem(cursor[p], end, exited))
           /\ UNCHANGED <<bufFrom, queue>>
  <2>1. PICK item \in Item : item = JournalItem(cursor[p], end, exited)
    BY <1>3, <1>4, JournalItemTyped
  <2>2. /\ item.ok /\ item.placed /\ item.to = end /\ item.exit = exited
        /\ item.from <= KeptFrom(end) \/ item.from <= cursor[p]
    BY <1>3, <1>4, <2>1, ReadStarts DEF JournalItem
  <2>3. chan' = Answered(chan, p, item)
    BY <1>7, <2>1
  <2>4. /\ cursor' \in [Pane -> NoOffset..MaxOut] /\ cursor'[p] <= end
        /\ \A q \in Pane \ {p} : cursor'[q] = cursor[q]
    BY <1>3, <1>4, <1>7 DEF Dropped
  <2>5. TermTypes'
    BY <1>1, <1>2, <1>6, <1>7, <2>3, <2>4 DEF TermInv, TermTypes
  <2>6. Awaits(p) /\ ~Awaits(p)'
    BY <1>3, <1>7 DEF Awaits, Queued, PaneOK, Waiting
  <2>7. Buffered' /\ \A q \in Pane \ {p} : (q \in waiting' => q \in waiting) /\ (Queued(q)' => Queued(q))
    BY <1>1, <1>7 DEF TermInv, Buffered, Queued
  <2>8. pane[p] = "wait" => item.from <= KeptFrom(end) \/ item.from <= offset[slot[p]]
    <3>1. pane[p] = "wait" => cursor[p] <= offset[slot[p]]
      BY <1>3, <1>7 DEF PaneOK, Waiting
    <3>2. item.from \in Int /\ offset[slot[p]] \in Int
      BY <2>1, ItemsTyped DEF TermInv, NoOffset, Item
    <3> QED BY <1>4, <2>2, <3>1, <3>2
  <2> QED BY <1>3, <1>5, <1>7, <2>2, <2>3, <2>4, <2>5, <2>6, <2>7, <2>8 DEF TermInv, Counted
<1>8. ASSUME NEW i \in 1..Len(queue), queue[i] = p,
             queue' = [j \in 1..(Len(queue) - 1) |-> IF j < i THEN queue[j] ELSE queue[j + 1]],
             chan' = Answered(chan, p, DrainItem(bufFrom, end, FALSE)), bufFrom' = end,
             UNCHANGED <<waiting, cursor>>
      PROVE  TermInv'
  <2>1. PICK item \in Item : item = DrainItem(bufFrom, end, FALSE)
    <3>1. DrainItem(bufFrom, end, FALSE) \in Item
      BY <1>3 DEF DrainItem, Item
    <3> QED BY <3>1
  <2>2. item.ok /\ ~item.placed /\ item.to = end /\ chan' = Answered(chan, p, item)
    BY <1>8, <2>1 DEF DrainItem
  <2>3. PICK n \in Nat : n = Len(queue) - 1
    <3>1. Len(queue) \in Nat /\ Len(queue) >= 1
      BY <1>3, <1>8
    <3> QED BY <3>1
  <2>4. queue' = [j \in 1..n |-> IF j < i THEN queue[j] ELSE queue[j + 1]] /\ i \in 1..(n + 1) /\ Len(queue) = n + 1
    BY <1>3, <1>8, <2>3
  <2>5. \A j \in 1..n : /\ j < i => queue'[j] = queue[j] /\ j \in 1..(n + 1)
                        /\ ~(j < i) => queue'[j] = queue[j + 1] /\ j + 1 \in 1..(n + 1)
    BY <2>3, <2>4
  <2>6. queue' \in Seq(Pane) /\ Len(queue') = n
    <3>1. \A j \in 1..n : queue'[j] \in Pane
      BY <1>3, <2>4, <2>5
    <3>2. queue' \in [1..n -> Pane]
      BY <2>4, <3>1
    <3> QED BY <2>3, <3>2
  <2>7. \A j, k \in 1..(n + 1) : queue[j] = queue[k] => j = k
    BY <2>4 DEF TermInv, Buffered
  <2>8. ~Queued(p)' /\ \A q \in Pane \ {p} : Queued(q)' => Queued(q)
    <3>1. ASSUME NEW j \in 1..n, queue'[j] = p PROVE FALSE
      BY <1>8, <2>3, <2>4, <2>5, <2>7, <3>1
    <3>2. ASSUME NEW q \in Pane, NEW j \in 1..n, queue'[j] = q PROVE Queued(q)
      BY <2>4, <2>5, <3>2 DEF Queued
    <3> QED BY <2>6, <3>1, <3>2 DEF Queued
  <2>9. Awaits(p) /\ ~Awaits(p)'
    <3>1. Queued(p)
      BY <1>8 DEF Queued
    <3>2. p \notin waiting
      BY <1>3, <3>1 DEF PaneOK, Waiting
    <3> QED BY <1>8, <2>8, <3>1, <3>2 DEF Awaits
  <2>10. Buffered'
    <3>1. ASSUME NEW j \in 1..n, NEW k \in 1..n, queue'[j] = queue'[k] PROVE j = k
      BY <2>3, <2>4, <2>5, <2>7, <3>1
    <3> QED BY <1>1, <1>8, <2>6, <3>1 DEF Buffered
  <2>11. TermTypes'
    BY <1>1, <1>2, <1>3, <1>6, <1>8, <2>2, <2>6 DEF TermInv, TermTypes
  <2>12. pane[p] = "wait" => legacy[slot[p]]
    BY <1>3, <1>8 DEF PaneOK, Waiting, Queued
  <2>13. bufFrom' <= end /\ end - bufFrom' <= Cap
    BY <1>3, <1>8
  <2> QED BY <1>3, <1>5, <1>8, <2>2, <2>8, <2>9, <2>10, <2>11, <2>12, <2>13
<1> QED BY <1>7, <1>8 DEF ReadTimeout
-----------------------------------------------------------------------------
(* The panes.                                                              *)
LEMMA MountKeeps ==
  ASSUME TermInv, NEW p \in Pane, Mount(p)
  PROVE  TermInv'
<1> USE TerminalAssumption
<1>1. /\ pane[p] = "new" /\ pane' = [pane EXCEPT ![p] = "sub"]
      /\ slot' = [slot EXCEPT ![p] = IF owner = NoPane THEN "pool" ELSE p]
      /\ owner' = IF owner = NoPane THEN p ELSE owner
      /\ UNCHANGED <<hostVars, genVars, chan, offset, shown, legacy, drops>>
  BY DEF Mount
<1>2. UNCHANGED <<end, bufFrom, pty, exited, exitAt, session, queue, waiting, gen, cursor, beat>>
  BY <1>1 DEF hostVars, genVars
<1>3. pane \in [Pane -> {"new", "off"} \cup Mounted \cup Ended] /\ slot \in [Pane -> Term]
  BY DEF TermInv, TermTypes
<1>4. /\ pane'[p] = "sub" /\ slot'[p] = IF owner = NoPane THEN "pool" ELSE p
      /\ \A q \in Pane \ {p} : pane'[q] = pane[q] /\ slot'[q] = slot[q]
  BY <1>1, <1>3
<1>5. TermTypes'
  <2>1. "sub" \in Mounted /\ p \in Term /\ "pool" \in Term
    BY DEF Mounted, Term
  <2>2. pane' \in [Pane -> {"new", "off"} \cup Mounted \cup Ended] /\ slot' \in [Pane -> Term]
    BY <1>1, <1>3, <2>1
  <2>3. owner' \in Pane \cup {NoPane}
    BY <1>1 DEF TermInv, TermTypes
  <2> QED BY <1>1, <1>2, <2>2, <2>3 DEF TermInv, TermTypes
<1>6. Counted' /\ Buffered'
  BY <1>1, <1>2 DEF TermInv, Counted, Buffered
<1>7. OneWriter'
  BY <1>1, <1>4 DEF TermInv, OneWriter, InUse
<1>8. ASSUME NEW q \in Pane \ {p} PROVE PaneOK(q)'
  BY <1>1, <1>2, <1>4, <1>5, PaneStays DEF Queued
<1>9. PaneOK(p)'
  <2>1. chan'[p] = <<>> /\ Len(chan'[p]) = 0 /\ ~Awaits(p)' /\ gen'[p] = "none"
    BY <1>1, <1>2, AsksAnew DEF Awaits, Queued
  <2> QED BY <1>4, <2>1 DEF PaneOK, Waiting, Awaits, Channel, Generator, ExitPassed
<1>10. ASSUME NEW t \in Term PROVE Written(t)'
  BY <1>1, <1>2, <1>5, WrittenStays DEF TermInv, TermTypes
<1> QED BY <1>5, <1>6, <1>7, <1>8, <1>9, <1>10 DEF TermInv

LEMMA SubscribeKeeps ==
  ASSUME TermInv, NEW p \in Pane, Subscribe(p)
  PROVE  TermInv'
<1> USE TerminalAssumption
<1>1. pane[p] = "sub" /\ UNCHANGED <<hostVars, slot, owner, offset, shown, legacy, drops>>
  BY DEF Subscribe
<1>2. UNCHANGED <<end, bufFrom, pty, exited, exitAt, session, queue, waiting>>
  BY <1>1 DEF hostVars
<1>3. /\ pane \in [Pane -> {"new", "off"} \cup Mounted \cup Ended] /\ chan \in [Pane -> Seq(Item)]
      /\ cursor \in [Pane -> NoOffset..MaxOut] /\ beat \in [Pane -> BOOLEAN]
      /\ gen \in [Pane -> {"none", "run", "yield", "last", "sleep"}]
      /\ end \in Nat /\ offset[slot[p]] \in NoOffset..MaxOut /\ offset[slot[p]] <= end
  BY DEF TermInv, TermTypes, Counted
<1>4. chan[p] = <<>> /\ Len(chan[p]) = 0 /\ ~Awaits(p) /\ gen[p] = "none"
  BY <1>1, AsksAnew
<1>5. ASSUME TermTypes', pane'[p] \in {"poll", "stream"},
             \A q \in Pane \ {p} : /\ pane'[q] = pane[q] /\ chan'[q] = chan[q]
                                   /\ gen'[q] = gen[q] /\ cursor'[q] = cursor[q],
             cursor'[p] <= end, Channel(p)', Generator(p)'
      PROVE  TermInv'
  <2>1. Counted' /\ Buffered'
    BY <1>1, <1>2, <1>5 DEF TermInv, Counted, Buffered
  <2>2. OneWriter'
    BY <1>1, <1>5 DEF TermInv, OneWriter, InUse, Mounted
  <2>3. ASSUME NEW q \in Pane \ {p} PROVE PaneOK(q)'
    BY <1>1, <1>2, <1>5, PaneStays DEF Queued
  <2>4. Waiting(p)' /\ ExitPassed(p)'
    BY <1>2, <1>4, <1>5 DEF Waiting, Awaits, Queued, ExitPassed
  <2>5. ASSUME NEW t \in Term PROVE Written(t)'
    BY <1>1, <1>2, <1>3, <1>5, WrittenStays
  <2> QED BY <1>5, <2>1, <2>2, <2>3, <2>4, <2>5 DEF TermInv, PaneOK
<1>6. CASE pane' = [pane EXCEPT ![p] = "poll"] /\ UNCHANGED <<genVars, chan>>
  <2>1. UNCHANGED <<gen, cursor, beat>>
    BY <1>6 DEF genVars
  <2>2. pane' \in [Pane -> {"new", "off"} \cup Mounted \cup Ended]
    BY <1>3, <1>6 DEF Mounted
  <2>3. TermTypes'
    BY <1>1, <1>2, <1>6, <2>1, <2>2 DEF TermInv, TermTypes
  <2>4. Channel(p)' /\ Generator(p)'
    BY <1>4, <1>6, <2>1 DEF Channel, Generator
  <2> QED BY <1>3, <1>5, <1>6, <2>1, <2>3, <2>4 DEF TermInv, Counted
<1>7. CASE /\ pane' = [pane EXCEPT ![p] = "stream"] /\ beat' = [beat EXCEPT ![p] = FALSE]
           /\ gen' = [gen EXCEPT ![p] = "run"]
           /\ cursor' = [cursor EXCEPT ![p] = offset[slot[p]]] /\ UNCHANGED chan
  <2>1. pane' \in [Pane -> {"new", "off"} \cup Mounted \cup Ended]
    BY <1>3, <1>7 DEF Mounted
  <2>2. /\ gen' \in [Pane -> {"none", "run", "yield", "last", "sleep"}] /\ beat' \in [Pane -> BOOLEAN]
        /\ cursor' \in [Pane -> NoOffset..MaxOut]
    BY <1>3, <1>7
  <2>3. TermTypes'
    BY <1>1, <1>2, <1>7, <2>1, <2>2 DEF TermInv, TermTypes
  <2>4. Channel(p)' /\ Generator(p)'
    <3>1. pane'[p] = "stream" /\ gen'[p] = "run" /\ cursor'[p] = offset[slot[p]]
      BY <1>3, <1>7
    <3>2. offset[slot[p]] \in Int
      BY <1>3 DEF NoOffset
    <3> QED BY <1>1, <1>4, <1>7, <3>1, <3>2 DEF Channel, Generator, Passed
  <2> QED BY <1>3, <1>5, <1>7, <2>3, <2>4
<1>8. CASE /\ pane' = [pane EXCEPT ![p] = "stream"] /\ beat' = [beat EXCEPT ![p] = FALSE]
           /\ chan' = [chan EXCEPT ![p] = <<NoSessionItem>>] /\ UNCHANGED <<gen, cursor>>
  <2>1. PICK item \in Item : item = NoSessionItem /\ ~item.ok /\ ~item.placed /\ item.to = 0
    <3>1. NoSessionItem \in Item
      BY DEF NoSessionItem, Item
    <3> QED BY <3>1 DEF NoSessionItem
  <2>2. chan' = [chan EXCEPT ![p] = <<item>>] /\ <<item>> \in Seq(Item)
    BY <1>8, <2>1
  <2>3. pane' \in [Pane -> {"new", "off"} \cup Mounted \cup Ended]
    BY <1>3, <1>8 DEF Mounted
  <2>4. chan' \in [Pane -> Seq(Item)] /\ beat' \in [Pane -> BOOLEAN]
    BY <1>3, <1>8, <2>2
  <2>5. TermTypes'
    BY <1>1, <1>2, <1>8, <2>3, <2>4 DEF TermInv, TermTypes
  <2>6. pane'[p] = "stream" /\ chan'[p] = <<item>> /\ Len(chan'[p]) = 1 /\ chan'[p][1] = item
    BY <1>3, <1>8, <2>2
  <2>7. Channel(p)'
    <3>1. ASSUME NEW i \in 1..Len(chan'[p]) PROVE Fits(p, chan[p][i], Passed(p, i - 1))'
      <4>1. i = 1
        BY <2>6, <3>1
      <4> QED BY <1>2, <1>3, <2>1, <2>6, <4>1 DEF Fits
    <3> QED BY <2>6, <3>1 DEF Channel
  <2>8. Generator(p)'
    BY <1>4, <1>8 DEF Generator
  <2> QED BY <1>3, <1>5, <1>8, <2>2, <2>5, <2>7, <2>8 DEF TermInv, Counted
<1> QED BY <1>6, <1>7, <1>8 DEF Subscribe

(* The loop of a pane ends or starts over, with nothing on its way.        *)
LEMMA PaneEmptied ==
  ASSUME TermInv, TermTypes', NEW p \in Pane, NEW to \in {"back", "pollBack", "sub", "poll", "off"},
         pane' = [pane EXCEPT ![p] = to], chan' = [chan EXCEPT ![p] = <<>>],
         ~Awaits(p) \/ to = "off",
         \A q \in Pane \ {p} : gen'[q] = gen[q] /\ cursor'[q] = cursor[q],
         gen'[p] = "none" \/ (to = "off" /\ gen[p] # "none" /\ gen'[p] # "sleep"), cursor'[p] = cursor[p] \/ ~Awaits(p),
         cursor'[p] <= end, UNCHANGED <<end, bufFrom, exited, exitAt, queue, waiting, slot>>,
         \A q \in Pane \ {p} : InUse(q) =>
           /\ offset'[slot[q]] = offset[slot[q]] /\ legacy'[slot[q]] = legacy[slot[q]]
           /\ slot[q] = "pool" => owner' = owner,
         to # "off" => owner' = owner /\ pane[p] \in Mounted
  PROVE  /\ OneWriter' /\ Buffered' /\ \A q \in Pane : PaneOK(q)'
         /\ \A q \in Pane : cursor'[q] <= end
<1>1. /\ pane \in [Pane -> {"new", "off"} \cup Mounted \cup Ended] /\ chan \in [Pane -> Seq(Item)]
      /\ PaneOK(p) /\ \A q \in Pane : cursor[q] <= end
  BY DEF TermInv, TermTypes, Counted
<1>2. /\ pane'[p] = to /\ chan'[p] = <<>> /\ Len(chan'[p]) = 0
      /\ \A q \in Pane \ {p} : pane'[q] = pane[q] /\ chan'[q] = chan[q]
  BY <1>1
<1>3. OneWriter'
  <2>1. to = "off" => ~InUse(p)'
    BY <1>2 DEF InUse, Mounted, Ended
  <2>2. ASSUME to # "off" PROVE InUse(p) /\ owner' = owner
    BY <2>2 DEF InUse
  <2>3. OneWriter
    BY DEF TermInv
  <2>4. ASSUME NEW q \in Pane, InUse(q)' PROVE slot'[q] = q \/ (slot'[q] = "pool" /\ owner' = q)
    <3>1. CASE q = p
      BY <2>1, <2>2, <2>3, <2>4, <3>1 DEF OneWriter
    <3>2. CASE q # p
      <4>1. InUse(q)
        BY <1>2, <2>4, <3>2 DEF InUse
      <4> QED BY <2>3, <3>2, <4>1 DEF OneWriter
    <3> QED BY <3>1, <3>2
  <2> QED BY <2>4 DEF OneWriter
<1>4. Buffered'
  BY DEF TermInv, Buffered
<1>5. ASSUME NEW q \in Pane \ {p} PROVE PaneOK(q)'
  <2>1. q \in waiting' => q \in waiting
    OBVIOUS
  <2>2. Queued(q)' => Queued(q)
    BY DEF Queued
  <2>3. slot'[q] = slot[q] /\ end' = end /\ exited' = exited /\ exitAt' = exitAt
    OBVIOUS
  <2> QED BY <1>2, <2>1, <2>2, <2>3, PaneStays
<1>6. PaneOK(p)'
  <2>1. Awaits(p)' <=> Awaits(p)
    BY DEF Awaits, Queued
  <2>2. Awaits(p) => gen[p] = "none" /\ gen'[p] = "none" /\ cursor'[p] = cursor[p]
    BY <1>1 DEF PaneOK, Waiting
  <2>3. Waiting(p)'
    <3>1. Awaits(p)' => pane'[p] = "off" /\ gen'[p] = "none" /\ chan'[p] = <<>>
      BY <1>2, <2>1, <2>2
    <3>2. p \in waiting' => ~Queued(p)' /\ ~HasData(cursor[p])' /\ pane'[p] # "wait"
      <4> SUFFICES ASSUME p \in waiting' PROVE ~Queued(p)' /\ ~HasData(cursor[p])' /\ pane'[p] # "wait"
        OBVIOUS
      <4>1. p \in waiting /\ cursor'[p] = cursor[p]
        BY <2>2 DEF Awaits
      <4>2. ~Queued(p) /\ ~HasData(cursor[p])
        BY <1>1, <4>1 DEF PaneOK, Waiting
      <4>3. ~HasData(cursor[p])'
        BY <4>1, <4>2 DEF HasData, ReadFrom, KeptFrom
      <4> QED BY <1>2, <4>2, <4>3 DEF Queued
    <3> QED BY <1>2, <3>1, <3>2 DEF Waiting
  <2>4. Channel(p)'
    BY <1>2 DEF Channel
  <2>5. Generator(p)' /\ ExitPassed(p)'
    BY <1>2 DEF Generator, ExitPassed
  <2> QED BY <2>3, <2>4, <2>5 DEF PaneOK
<1> QED BY <1>1, <1>3, <1>4, <1>5, <1>6

LEMMA BackoffKeeps ==
  ASSUME TermInv, NEW p \in Pane, Drop(p) \/ BackoffEnds(p)
  PROVE  TermInv'
<1> USE TerminalAssumption
<1>1. /\ pane \in [Pane -> {"new", "off"} \cup Mounted \cup Ended] /\ chan \in [Pane -> Seq(Item)]
      /\ cursor \in [Pane -> NoOffset..MaxOut] /\ PaneOK(p) /\ \A q \in Pane : cursor[q] <= end
      /\ gen \in [Pane -> {"none", "run", "yield", "last", "sleep"}] /\ end \in Nat /\ drops \in 0..Drops
  BY DEF TermInv, TermTypes, Counted
<1>2. NoOffset \in NoOffset..MaxOut /\ NoOffset <= end
  BY <1>1 DEF NoOffset
<1>3. /\ UNCHANGED <<end, bufFrom, pty, exited, exitAt, session, queue, waiting, beat, slot, owner,
                     offset, shown, legacy>>
      /\ drops' \in 0..Drops
  BY <1>1 DEF Drop, BackoffEnds, hostVars, genVars
<1>4. \E to \in {"back", "pollBack", "sub", "poll"} :
        /\ pane' = [pane EXCEPT ![p] = to] /\ chan' = [chan EXCEPT ![p] = <<>>]
        /\ ~Awaits(p) /\ gen'[p] = "none" /\ pane[p] \in Mounted
        /\ cursor'[p] = cursor[p] \/ cursor'[p] = NoOffset
        /\ \A q \in Pane \ {p} : gen'[q] = gen[q] /\ cursor'[q] = cursor[q]
        /\ gen' \in [Pane -> {"none", "run", "yield", "last", "sleep"}] /\ cursor' \in [Pane -> NoOffset..MaxOut]
  <2>1. CASE /\ pane[p] = "stream" /\ pane' = [pane EXCEPT ![p] = "back"] /\ chan' = [chan EXCEPT ![p] = <<>>]
             /\ gen' = [gen EXCEPT ![p] = "none"] /\ cursor' = Dropped(p)
    <3>1. ~Awaits(p)
      BY <1>1, <2>1 DEF PaneOK, Waiting
    <3>3. /\ gen'[p] = "none" /\ \A q \in Pane \ {p} : gen'[q] = gen[q] /\ cursor'[q] = cursor[q]
          /\ gen' \in [Pane -> {"none", "run", "yield", "last", "sleep"}]
      BY <1>1, <2>1 DEF Dropped
    <3>4. cursor' \in [Pane -> NoOffset..MaxOut]
      BY <1>1, <1>2, <2>1 DEF Dropped
    <3>5. cursor'[p] = NoOffset
      BY <1>1, <2>1 DEF Dropped
    <3> QED BY <2>1, <3>1, <3>3, <3>4, <3>5 DEF Mounted
  <2>2. CASE /\ pane[p] = "wait" /\ chan[p] # <<>> /\ pane' = [pane EXCEPT ![p] = "pollBack"]
             /\ chan' = [chan EXCEPT ![p] = <<>>] /\ UNCHANGED <<gen, cursor>>
    <3>1. ~Awaits(p) /\ gen[p] = "none"
      BY <1>1, <2>2 DEF PaneOK, Waiting, Generator, Ended
    <3> QED BY <1>1, <2>2, <3>1 DEF Mounted
  <2>3. CASE BackoffEnds(p)
    <3>1. pane[p] \in {"back", "pollBack"} /\ chan[p] = <<>> /\ ~Awaits(p) /\ gen[p] = "none"
      BY <2>3, AsksAnew DEF BackoffEnds
    <3>2. UNCHANGED <<gen, cursor>> /\ chan' = [chan EXCEPT ![p] = <<>>]
      BY <1>1, <2>3, <3>1 DEF BackoffEnds, genVars
    <3>3. pane' = [pane EXCEPT ![p] = IF pane[p] = "back" THEN "sub" ELSE "poll"]
      BY <1>1, <2>3 DEF BackoffEnds
    <3> QED BY <1>1, <3>1, <3>2, <3>3 DEF Mounted
  <2> QED BY <2>1, <2>2, <2>3 DEF Drop
<1>5. PICK to \in {"back", "pollBack", "sub", "poll"} :
        /\ pane' = [pane EXCEPT ![p] = to] /\ chan' = [chan EXCEPT ![p] = <<>>]
        /\ ~Awaits(p) /\ gen'[p] = "none" /\ pane[p] \in Mounted
        /\ cursor'[p] = cursor[p] \/ cursor'[p] = NoOffset
        /\ \A q \in Pane \ {p} : gen'[q] = gen[q] /\ cursor'[q] = cursor[q]
        /\ gen' \in [Pane -> {"none", "run", "yield", "last", "sleep"}] /\ cursor' \in [Pane -> NoOffset..MaxOut]
  BY <1>4
<1>6. pane' \in [Pane -> {"new", "off"} \cup Mounted \cup Ended] /\ chan' \in [Pane -> Seq(Item)]
  BY <1>1, <1>5 DEF Mounted
<1>7. TermTypes'
  BY <1>3, <1>5, <1>6 DEF TermInv, TermTypes
<1>8. cursor'[p] <= end
  BY <1>1, <1>2, <1>5
<1>9. OneWriter' /\ Buffered' /\ (\A q \in Pane : PaneOK(q)') /\ \A q \in Pane : cursor'[q] <= end
  BY <1>3, <1>5, <1>7, <1>8, PaneEmptied
<1>10. Counted'
  BY <1>3, <1>9 DEF TermInv, Counted
<1>11. ASSUME NEW t \in Term PROVE Written(t)'
  BY <1>1, <1>3, <1>7, WrittenStays
<1> QED BY <1>7, <1>9, <1>10, <1>11 DEF TermInv

LEMMA ForgottenClean ==
  ASSUME TermInv, NEW t \in Term, Forgotten(t)
  PROVE  /\ offset' \in [Term -> NoOffset..MaxOut] /\ shown' \in [Term -> [Pos -> 0..2]]
         /\ legacy' \in [Term -> BOOLEAN] /\ Written(t)'
         /\ \A u \in Term \ {t} : offset'[u] = offset[u] /\ shown'[u] = shown[u] /\ legacy'[u] = legacy[u]
         /\ \A u \in Term : offset'[u] <= end
<1> USE TerminalAssumption
<1>1. /\ offset \in [Term -> NoOffset..MaxOut] /\ shown \in [Term -> [Pos -> 0..2]]
      /\ legacy \in [Term -> BOOLEAN] /\ end \in Nat /\ \A u \in Term : offset[u] <= end
  BY DEF TermInv, TermTypes, Counted
<1>2. NoOffset \in NoOffset..MaxOut /\ Fresh \in [Pos -> 0..2] /\ NoOffset <= end
  BY <1>1 DEF NoOffset, Fresh
<1>3. offset'[t] = NoOffset /\ shown'[t] = Fresh
  BY <1>1 DEF Forgotten
<1>4. Written(t)'
  BY <1>3 DEF Written, NoOffset, Fresh, Pos
<1> QED BY <1>1, <1>2, <1>4 DEF Forgotten

LEMMA UnmountKeeps ==
  ASSUME TermInv, NEW p \in Pane, Unmount(p)
  PROVE  TermInv'
<1> USE TerminalAssumption
<1>1. /\ pane \in [Pane -> {"new", "off"} \cup Mounted \cup Ended] /\ chan \in [Pane -> Seq(Item)]
      /\ PaneOK(p) /\ \A q \in Pane : cursor[q] <= end
      /\ gen \in [Pane -> {"none", "run", "yield", "last", "sleep"}] /\ end \in Nat
  BY DEF TermInv, TermTypes, Counted
<1>2. /\ InUse(p) /\ pane' = [pane EXCEPT ![p] = "off"] /\ chan' = [chan EXCEPT ![p] = <<>>]
      /\ gen' = [gen EXCEPT ![p] = IF gen[p] = "sleep" THEN "run" ELSE gen[p]]
      /\ UNCHANGED <<end, bufFrom, pty, exited, exitAt, session, queue, waiting, cursor, beat, slot, drops>>
  BY <1>1 DEF Unmount, InUse, hostVars
<1>3. /\ offset' \in [Term -> NoOffset..MaxOut] /\ shown' \in [Term -> [Pos -> 0..2]]
      /\ legacy' \in [Term -> BOOLEAN] /\ owner' \in Pane \cup {NoPane} /\ \A t \in Term : Written(t)'
      /\ \A t \in Term : offset'[t] <= end
      /\ \A q \in Pane \ {p} : InUse(q) =>
           /\ offset'[slot[q]] = offset[slot[q]] /\ legacy'[slot[q]] = legacy[slot[q]]
           /\ slot[q] = "pool" => owner' = owner
  <2>1. \A q \in Pane \ {p} : InUse(q) => slot[q] # slot[p] /\ slot[q] \in Term
    BY <1>2, WritersApart DEF TermInv, TermTypes
  <2>2. CASE slot[p] = "pool"
    <3>1. owner' = NoPane /\ UNCHANGED <<offset, shown, legacy>>
      BY <2>2 DEF Unmount
    <3>2. \A t \in Term : Written(t)'
      BY <1>2, <3>1 DEF TermInv, Written, KeptFrom
    <3> QED BY <2>1, <2>2, <3>1, <3>2 DEF TermInv, TermTypes, Counted
  <2>3. CASE slot[p] # "pool"
    <3>1. Forgotten(p) /\ owner' = owner /\ slot[p] = p /\ p \in Term
      BY <1>2, <2>3 DEF Unmount, TermInv, OneWriter, Term
    <3>2. \A t \in Term \ {p} : Written(t)'
      BY <1>2, <3>1, ForgottenClean DEF TermInv, Written, KeptFrom
    <3> QED BY <2>1, <3>1, <3>2, ForgottenClean DEF TermInv, TermTypes
  <2> QED BY <2>2, <2>3
<1>4. gen' \in [Pane -> {"none", "run", "yield", "last", "sleep"}] /\ pane' \in [Pane -> {"new", "off"} \cup Mounted \cup Ended]
      /\ chan' \in [Pane -> Seq(Item)]
  <2>1. gen'[p] \in {"none", "run", "yield", "last", "sleep"}
    BY <1>1, <1>2
  <2> QED BY <1>1, <1>2, <2>1
<1>5. TermTypes'
  BY <1>2, <1>3, <1>4 DEF TermInv, TermTypes
<1>6. OneWriter' /\ Buffered' /\ (\A q \in Pane : PaneOK(q)') /\ \A q \in Pane : cursor'[q] <= end
  <2>1. /\ \A q \in Pane \ {p} : gen'[q] = gen[q] /\ cursor'[q] = cursor[q]
        /\ gen'[p] = "none" \/ (gen[p] # "none" /\ gen'[p] # "sleep")
        /\ cursor'[p] = cursor[p] /\ cursor'[p] <= end
    BY <1>1, <1>2
  <2>2. PICK to \in {"back", "pollBack", "sub", "poll", "off"} : to = "off"
    OBVIOUS
  <2>3. pane' = [pane EXCEPT ![p] = to]
    BY <1>2, <2>2
  <2> QED BY <1>2, <1>3, <1>5, <2>1, <2>2, <2>3, PaneEmptied
<1>7. Counted'
  BY <1>2, <1>3, <1>6 DEF TermInv, Counted
<1> QED BY <1>3, <1>5, <1>6, <1>7 DEF TermInv

LEMMA EvictKeeps == TermInv /\ Evict => TermInv'
<1> SUFFICES ASSUME TermInv, Evict PROVE TermInv'
  OBVIOUS
<1> USE TerminalAssumption
<1>1. /\ owner = NoPane /\ Forgotten("pool")
      /\ UNCHANGED <<end, bufFrom, pty, exited, exitAt, session, queue, waiting, gen, cursor, beat,
                     chan, pane, slot, owner, drops>>
  BY DEF Evict, hostVars, genVars
<1>2. "pool" \in Term
  BY DEF Term
<1>3. TermTypes' /\ Counted' /\ OneWriter' /\ Buffered'
  BY <1>1, <1>2, ForgottenClean DEF TermInv, TermTypes, Counted, OneWriter, InUse, Buffered
<1>4. ASSUME NEW q \in Pane PROVE PaneOK(q)'
  <2>1. InUse(q) => slot[q] # "pool" /\ slot[q] \in Term
    BY <1>1 DEF TermInv, TermTypes, OneWriter
  <2>2. InUse(q) => offset'[slot[q]] = offset[slot[q]] /\ legacy'[slot[q]] = legacy[slot[q]]
    BY <1>1, <1>2, <2>1, ForgottenClean
  <2> QED BY <1>1, <1>3, <2>2, PaneStays DEF Queued
<1>5. \A t \in Term \ {"pool"} : Written(t)'
  BY <1>1, <1>2, ForgottenClean DEF TermInv, Written, KeptFrom
<1> QED BY <1>1, <1>2, <1>3, <1>4, <1>5, ForgottenClean DEF TermInv

-----------------------------------------------------------------------------
(* consume: an item that continues what the terminal has passed is written *)
(* once, and what it skips the journal has lost.                           *)
LEMMA ConsumeWrites ==
  ASSUME TermInv, NEW t \in Term, NEW item \in Item, Consume(t, item), UNCHANGED <<end, legacy>>,
         item.to <= end, item.placed => Joined(item.from, offset[t]),
         ~item.placed => item.to = 0 \/ legacy[t]
  PROVE  /\ offset' \in [Term -> NoOffset..MaxOut] /\ shown' \in [Term -> [Pos -> 0..2]]
         /\ offset'[t] <= end /\ (item.placed => item.to <= offset'[t]) /\ Written(t)'
         /\ \A u \in Term \ {t} : offset'[u] = offset[u] /\ shown'[u] = shown[u]
<1> USE TerminalAssumption
<1> DEFINE seen == IF item.placed THEN Larger(item.from, offset[t]) ELSE item.from
           line == [k \in Pos |-> IF k \in (seen + 1)..item.to THEN Smaller(2, shown[t][k] + 1)
                                  ELSE shown[t][k]]
<1>1. /\ offset \in [Term -> NoOffset..MaxOut] /\ shown \in [Term -> [Pos -> 0..2]]
      /\ offset[t] <= end /\ end \in Nat /\ Written(t)
  BY DEF TermInv, TermTypes, Counted
<1>2. item.from \in 0..MaxOut /\ item.to \in 0..MaxOut /\ item.placed \in BOOLEAN
  BY DEF Item
<1>3. /\ offset' = [offset EXCEPT ![t] = IF item.placed THEN Larger(offset[t], item.to) ELSE offset[t]]
      /\ shown' = [shown EXCEPT ![t] = line]
  BY DEF Consume
<1>4. /\ offset'[t] = IF item.placed THEN Larger(offset[t], item.to) ELSE offset[t]
      /\ shown'[t] = line
      /\ \A u \in Term \ {t} : offset'[u] = offset[u] /\ shown'[u] = shown[u]
  BY <1>1, <1>3
<1>5. PICK u \in NoOffset..MaxOut : u = offset[t]
  BY <1>1
<1>6. PICK v \in NoOffset..MaxOut :
        /\ v = offset'[t] /\ u <= v /\ v <= end /\ (item.placed => item.to <= v)
        /\ (item.placed => v = u \/ v = item.to) /\ (~item.placed => v = u)
  <2>1. u \in Int /\ item.to \in Int /\ u <= end
    BY <1>1, <1>2, <1>5 DEF NoOffset
  <2>2. CASE item.placed
    <3>1. offset'[t] = Larger(u, item.to)
      BY <1>4, <1>5, <2>2
    <3>2. Larger(u, item.to) \in {u, item.to} /\ u <= Larger(u, item.to)
          /\ item.to <= Larger(u, item.to) /\ Larger(u, item.to) <= end
      BY <2>1 DEF Larger
    <3> QED BY <1>2, <2>2, <3>1, <3>2 DEF NoOffset
  <2>3. CASE ~item.placed
    BY <1>4, <1>5, <2>1, <2>3
  <2> QED BY <2>2, <2>3
<1>7. PICK s \in Int : s = seen /\ item.from <= s /\ (item.placed => u <= s)
                       /\ (s = item.from \/ (item.placed /\ s = u))
  <2>1. item.from \in Int /\ u \in Int
    BY <1>2, <1>5 DEF NoOffset
  <2> QED BY <1>2, <1>5, <2>1 DEF Larger
<1>8. ASSUME NEW k \in Pos
      PROVE  /\ line[k] \in 0..2
             /\ k \in (s + 1)..item.to => line[k] = Smaller(2, shown[t][k] + 1)
             /\ k \notin (s + 1)..item.to => line[k] = shown[t][k]
  <2>1. shown[t][k] \in 0..2
    BY <1>1
  <2>2. Smaller(2, shown[t][k] + 1) \in 0..2
    BY <2>1 DEF Smaller
  <2> QED BY <1>7, <2>1, <2>2
<1>9. offset' \in [Term -> NoOffset..MaxOut] /\ shown' \in [Term -> [Pos -> 0..2]]
  <2>1. line \in [Pos -> 0..2]
    BY <1>8
  <2>2. offset'[t] \in NoOffset..MaxOut
    BY <1>6
  <2> HIDE DEF line
  <2>3. shown' \in [Term -> [Pos -> 0..2]]
    BY <1>1, <1>3, <2>1
  <2> QED BY <1>1, <1>3, <1>4, <2>2, <2>3
<1>10. PICK kept \in Nat : kept = KeptFrom(end) /\ kept = KeptFrom(end)'
  BY <1>1, KeptGrows DEF KeptFrom
<1>11. ASSUME NEW k \in Pos
       PROVE  /\ k <= v => shown'[t][k] > 0 \/ k <= kept
              /\ ~legacy[t] => shown'[t][k] <= 1 /\ (k > v => shown'[t][k] = 0)
  <2>1. k \in Nat /\ 1 <= k
    BY DEF Pos
  <2>2. PICK n \in 0..2 : n = shown[t][k]
    BY <1>1
  <2>3. /\ k <= u => n > 0 \/ k <= kept
        /\ ~legacy[t] => n <= 1 /\ (k > u => n = 0)
    BY <1>1, <1>5, <1>10, <2>2 DEF Written
  <2>4. PICK m \in 0..2 : m = shown'[t][k] /\ m = line[k]
    BY <1>4, <1>8
  <2>5. CASE k \in (s + 1)..item.to
    <3>1. m = Smaller(2, n + 1)
      BY <1>8, <2>2, <2>4, <2>5
    <3>2. m > 0 /\ (n = 0 => m = 1)
      BY <3>1 DEF Smaller
    <3>3. ASSUME ~legacy[t] PROVE n = 0 /\ ~(k > v)
      <4>1. item.placed
        BY <1>2, <1>7, <2>1, <2>5, <3>3
      <4>2. k > u /\ k <= v
        BY <1>2, <1>5, <1>6, <1>7, <2>1, <2>5, <4>1 DEF NoOffset
      <4> QED BY <1>6, <2>1, <2>3, <3>3, <4>2 DEF NoOffset
    <3> QED BY <2>4, <3>2, <3>3
  <2>6. CASE k \notin (s + 1)..item.to
    <3>1. m = n
      BY <1>8, <2>2, <2>4, <2>6
    <3>2. ASSUME k <= v, k > u PROVE k <= kept
      <4>1. item.placed /\ v = item.to
        BY <1>5, <1>6, <2>1, <3>2 DEF NoOffset
      <4>2. k <= s
        BY <1>2, <1>7, <2>1, <2>6, <3>2, <4>1
      <4>3. s = item.from /\ item.from > u
        BY <1>2, <1>5, <1>7, <2>1, <3>2, <4>2 DEF NoOffset
      <4>4. item.from <= kept
        BY <1>2, <1>5, <1>10, <4>1, <4>3 DEF Joined, NoOffset
      <4> QED BY <1>2, <1>7, <2>1, <4>2, <4>3, <4>4
    <3>3. k > v => k > u
      BY <1>5, <1>6, <2>1 DEF NoOffset
    <3>4. k <= v => m > 0 \/ k <= kept
      BY <1>5, <1>6, <2>1, <2>3, <3>1, <3>2 DEF NoOffset
    <3> QED BY <2>3, <2>4, <3>1, <3>3, <3>4
  <2> QED BY <2>5, <2>6
<1>12. Written(t)'
  BY <1>6, <1>10, <1>11 DEF Written
<1> QED BY <1>4, <1>6, <1>9, <1>12

(* The loop takes the first item on its way to the pane.                   *)
LEMMA ShowItemKeeps ==
  ASSUME TermInv, NEW p \in Pane, ShowItem(p)
  PROVE  TermInv'
<1> USE TerminalAssumption
<1>1. /\ pane[p] \in {"stream", "wait"} /\ chan[p] # <<>>
      /\ UNCHANGED <<end, bufFrom, pty, exited, exitAt, session, queue, waiting, gen, cursor, beat,
                     slot, owner, legacy, drops>>
  BY DEF ShowItem, hostVars, genVars
<1>2. /\ pane \in [Pane -> {"new", "off"} \cup Mounted \cup Ended] /\ chan \in [Pane -> Seq(Item)]
      /\ offset \in [Term -> NoOffset..MaxOut] /\ shown \in [Term -> [Pos -> 0..2]]
      /\ gen \in [Pane -> {"none", "run", "yield", "last", "sleep"}]
      /\ cursor \in [Pane -> NoOffset..MaxOut] /\ end \in Nat /\ exitAt \in Nat
      /\ PaneOK(p) /\ \A u \in Term : offset[u] <= end
  BY DEF TermInv, TermTypes, Counted
<1>3. PICK t \in Term : t = slot[p]
  BY DEF TermInv, TermTypes
<1>4. PICK n \in Nat : n = Len(chan[p])
  BY <1>2
<1>5. n >= 1 /\ chan[p][1] \in Item /\ Head(chan[p]) = chan[p][1] /\ Tail(chan[p]) \in Seq(Item)
  BY <1>1, <1>2, <1>4
<1>6. PICK item \in Item : item = chan[p][1] /\ item = Head(chan[p])
  BY <1>5
<1>7. item.from \in 0..MaxOut /\ item.to \in 0..MaxOut /\ item.placed \in BOOLEAN
      /\ item.ok \in BOOLEAN /\ item.exit \in BOOLEAN
  BY DEF Item
<1>8. /\ item.to <= end /\ (item.placed => item.ok /\ Joined(item.from, offset[t]))
      /\ (item.placed /\ item.exit => exited /\ exitAt <= item.to)
      /\ (item.ok /\ ~item.placed => pane[p] = "wait" /\ (item.to = 0 \/ legacy[t]))
  <2>1. Fits(p, item, Passed(p, 0))
    BY <1>2, <1>4, <1>5, <1>6 DEF PaneOK, Channel
  <2> QED BY <1>1, <1>3, <2>1 DEF Fits, Passed
<1>9. ~Awaits(p) /\ (pane[p] = "wait" => gen[p] = "none")
  BY <1>1, <1>2 DEF PaneOK, Waiting, Generator, Ended
<1>10. PICK to \in {"invalid", "exit", "told", "poll", "stream"} :
         /\ pane' = [pane EXCEPT ![p] = to]
         /\ to = "exit" => item.ok /\ item.exit /\ item.placed
         /\ to = "stream" => pane[p] = "stream" /\ item.ok
         /\ to = "poll" => pane[p] = "wait"
  <2>1. pane' = [pane EXCEPT ![p] = IF ~item.ok THEN "invalid"
                   ELSE IF item.exit THEN (IF item.placed THEN "exit" ELSE "told")
                   ELSE IF pane[p] = "wait" THEN "poll" ELSE pane[p]]
    BY <1>6 DEF ShowItem
  <2> QED BY <1>1, <2>1
<1>11. chan' = [chan EXCEPT ![p] = Tail(chan[p])]
  BY DEF ShowItem
<1>12. /\ offset' \in [Term -> NoOffset..MaxOut] /\ shown' \in [Term -> [Pos -> 0..2]]
       /\ offset'[t] <= end /\ (item.placed => item.to <= offset'[t]) /\ Written(t)'
       /\ \A u \in Term \ {t} : offset'[u] = offset[u] /\ shown'[u] = shown[u]
  <2>1. CASE item.ok
    <3>1. Consume(t, item)
      BY <1>3, <1>6, <2>1 DEF ShowItem
    <3> QED BY <1>1, <1>8, <2>1, <3>1, ConsumeWrites
  <2>2. CASE ~item.ok
    <3>1. UNCHANGED <<offset, shown>>
      BY <1>6, <2>2 DEF ShowItem
    <3>2. Written(t)
      BY DEF TermInv
    <3>3. Written(t)'
      BY <1>1, <3>1, <3>2 DEF Written, KeptFrom
    <3> QED BY <1>2, <1>8, <2>2, <3>1, <3>3
  <2> QED BY <1>7, <2>1, <2>2
<1>13. TermTypes'
  <2>1. pane' \in [Pane -> {"new", "off"} \cup Mounted \cup Ended]
    BY <1>2, <1>10 DEF Mounted, Ended
  <2>2. chan' \in [Pane -> Seq(Item)]
    BY <1>2, <1>5, <1>11
  <2> QED BY <1>1, <1>12, <2>1, <2>2 DEF TermInv, TermTypes
<1>14. Counted'
  BY <1>1, <1>2, <1>12 DEF TermInv, Counted
<1>15. OneWriter' /\ Buffered'
  <2>1. \A q \in Pane : InUse(q)' => InUse(q)
    BY <1>1, <1>2, <1>10 DEF InUse, Mounted, Ended
  <2> QED BY <1>1, <2>1 DEF TermInv, OneWriter, Buffered
<1>16. ASSUME NEW q \in Pane, q # p PROVE PaneOK(q)'
  <2>1. InUse(p)
    BY <1>1 DEF InUse, Mounted
  <2>2. InUse(q) => slot[q] # t /\ slot[q] \in Term
    BY <1>3, <1>16, <2>1, WritersApart DEF TermInv, TermTypes
  <2>3. InUse(q) => offset'[slot[q]] = offset[slot[q]] /\ legacy'[slot[q]] = legacy[slot[q]]
    BY <1>1, <1>12, <2>2
  <2>4. pane'[q] = pane[q] /\ chan'[q] = chan[q]
    BY <1>2, <1>10, <1>11, <1>16
  <2> QED BY <1>1, <1>13, <2>3, <2>4, PaneStays DEF Queued
<1>17. PaneOK(p)'
  <2>1. pane'[p] = to /\ chan'[p] = Tail(chan[p]) /\ slot'[p] = t /\ gen'[p] = gen[p] /\ cursor'[p] = cursor[p]
    BY <1>1, <1>2, <1>3, <1>10, <1>11
  <2>2. Len(chan'[p]) = n - 1 /\ \A i \in 1..(n - 1) : chan'[p][i] = chan[p][i + 1]
    BY <1>2, <1>4, <1>5, <2>1
  <2>3. Waiting(p)'
    BY <1>1, <1>9 DEF Waiting, Awaits, Queued
  <2>4. ASSUME NEW i \in 1..(n - 1)
        PROVE  /\ Passed(p, i)' = Passed(p, i + 1)
               /\ chan[p][i + 1] \in Item /\ chan[p][i + 1].from \in Int /\ chan[p][i + 1].to \in Int
    <3>1. i # 0 /\ i + 1 # 0 /\ i + 1 \in 1..n
      BY <2>4
    <3>2. chan[p][i + 1] \in Item
      BY <1>2, <1>4, <3>1
    <3>3. chan[p][i + 1].from \in Int /\ chan[p][i + 1].to \in Int
      BY <1>4, <3>1, ItemsTyped DEF TermInv
    <3> QED BY <2>2, <2>4, <3>1, <3>2, <3>3 DEF Passed
  <2>5. Passed(p, 0)' = offset'[t] /\ Passed(p, 1) = item.to
    BY <1>6, <2>1 DEF Passed
  <2>6. ASSUME NEW i \in 1..(n - 1) PROVE Fits(p, chan[p][i], Passed(p, i - 1))'
    <3>1. PICK x \in Item : x = chan[p][i + 1] /\ x = chan'[p][i] /\ x.from \in Int /\ x.to \in Int
      BY <2>2, <2>4
    <3>2. Fits(p, x, Passed(p, i))
      <4>1. i + 1 \in 1..n /\ (i + 1) - 1 = i
        BY <1>4
      <4>2. Fits(p, chan[p][i + 1], Passed(p, (i + 1) - 1))
        BY <1>2, <1>4, <4>1 DEF PaneOK, Channel
      <4> QED BY <3>1, <4>1, <4>2
    <3>3. /\ x.to <= end /\ (x.placed => x.ok)
          /\ (x.placed /\ x.exit => exited /\ exitAt <= x.to)
          /\ (pane[p] = "stream" /\ x.ok => x.placed)
          /\ (pane[p] = "stream" /\ x.placed => Joined(x.from, Passed(p, i)))
      BY <3>2 DEF Fits
    <3>4. ASSUME to = "stream", x.placed PROVE x.from <= KeptFrom(end)' \/ x.from <= Passed(p, i - 1)'
      <4>1. Joined(x.from, Passed(p, i)) /\ item.placed
        BY <1>8, <1>10, <3>3, <3>4
      <4>2. CASE i = 1
        <5>1. x.from <= KeptFrom(end) \/ x.from <= item.to
          BY <2>5, <4>1, <4>2 DEF Joined
        <5>2. PICK v \in Int : v = offset'[t] /\ item.to <= v
          BY <1>12, <4>1 DEF NoOffset
        <5>3. Passed(p, i - 1)' = v
          BY <2>5, <4>2, <5>2
        <5>4. x.from <= KeptFrom(end) \/ x.from <= v
          BY <1>7, <3>1, <5>1, <5>2
        <5>5. KeptFrom(end)' = KeptFrom(end)
          BY <1>1 DEF KeptFrom
        <5> QED BY <5>3, <5>4, <5>5
      <4>3. CASE i # 1
        <5>1. PICK j \in 1..(n - 1) : i = j + 1 /\ j = i - 1
          BY <1>4, <4>3
        <5>2. Passed(p, j)' = Passed(p, j + 1)
          BY <2>4
        <5>3. KeptFrom(end)' = KeptFrom(end)
          BY <1>1 DEF KeptFrom
        <5> QED BY <4>1, <5>1, <5>2, <5>3 DEF Joined
      <4> QED BY <4>2, <4>3
    <3> QED BY <1>1, <1>10, <2>1, <3>1, <3>3, <3>4 DEF Fits, Joined
  <2>7. Channel(p)'
    <3>1. to = "poll" => n = 1
      BY <1>2, <1>4, <1>5, <1>10 DEF PaneOK, Channel
    <3>2. to = "poll" => chan'[p] = <<>>
      <4>1. n = 1 => Len(Tail(chan[p])) = 0 /\ Tail(chan[p]) \in Seq(Item)
        BY <1>4, <1>5, <2>1, <2>2
      <4>2. \A s \in Seq(Item) : Len(s) = 0 => s = <<>>
        OBVIOUS
      <4>3. n = 1 => Tail(chan[p]) = <<>>
        BY <4>1, <4>2
      <4> QED BY <2>1, <3>1, <4>3
    <3> QED BY <1>4, <2>1, <2>2, <2>6, <3>2 DEF Channel, Ended
  <2>8. Generator(p)'
    <3> SUFFICES ASSUME gen[p] # "none" PROVE Generator(p)'
      BY <2>1 DEF Generator
    <3>1. /\ pane[p] = "stream" /\ (gen[p] = "sleep" => ~HasData(cursor[p]))
          /\ cursor[p] <= Passed(p, n)
      BY <1>1, <1>2, <1>4, <1>9 DEF PaneOK, Generator
    <3>2. ~HasData(cursor[p]) => ~HasData(cursor[p])'
      BY <1>1 DEF HasData, ReadFrom, KeptFrom
    <3>3. ASSUME to = "stream" PROVE cursor[p] <= Passed(p, n - 1)'
      <4>1. item.placed
        BY <1>8, <1>10, <3>1, <3>3
      <4>2. CASE n = 1
        <5>1. PICK v \in Int : v = offset'[t] /\ item.to <= v
          BY <1>12, <4>1 DEF NoOffset
        <5>2. PICK c \in Int : c = cursor[p]
          BY <1>2 DEF NoOffset
        <5>3. c <= item.to /\ Passed(p, n - 1)' = v
          BY <2>5, <3>1, <4>2, <5>1, <5>2
        <5> QED BY <1>7, <5>1, <5>2, <5>3
      <4>3. CASE n # 1
        <5>0. n >= 1
          BY <1>5
        <5>1. n - 1 \in 1..(n - 1) /\ n = (n - 1) + 1
          BY <4>3, <5>0
        <5>2. PICK j \in 1..(n - 1) : n = j + 1 /\ j = n - 1
          BY <5>1
        <5>3. Passed(p, j)' = Passed(p, j + 1)
          BY <2>4
        <5> QED BY <3>1, <5>2, <5>3
      <4> QED BY <4>2, <4>3
    <3> QED BY <1>10, <2>1, <2>2, <3>1, <3>2, <3>3 DEF Generator, Ended
  <2>9. ExitPassed(p)'
    <3>1. to = "exit" => exited /\ exitAt <= item.to /\ item.to <= offset'[t]
      BY <1>8, <1>10, <1>12
    <3>2. offset'[t] \in Int
      BY <1>12 DEF NoOffset
    <3>3. to = "exit" => exited /\ exitAt <= offset'[t]
      BY <1>2, <1>7, <3>1, <3>2
    <3> QED BY <1>1, <2>1, <3>3 DEF ExitPassed
  <2> QED BY <2>3, <2>7, <2>8, <2>9 DEF PaneOK
<1>18. ASSUME NEW u \in Term PROVE Written(u)'
  <2>1. CASE u = t
    BY <1>12, <2>1
  <2>2. CASE u # t
    BY <1>1, <1>2, <1>12, <1>13, <2>2, WrittenStays
  <2> QED BY <2>1, <2>2
<1> QED BY <1>13, <1>14, <1>15, <1>16, <1>17, <1>18 DEF TermInv

-----------------------------------------------------------------------------
LEMMA TermStep == TermInv /\ [TermNext]_termVars => TermInv'
<1> SUFFICES ASSUME TermInv, [TermNext]_termVars PROVE TermInv'
  OBVIOUS
<1>1. ASSUME NEW n \in 1..2, AppendSessionOutput(n) PROVE TermInv'
  BY <1>1, OutputKeeps
<1>2. CASE RecordExit
  BY <1>2, RecordExitKeeps
<1>3. CASE CloseSession \/ TransportLoss \/ TombstoneEvicted
  BY <1>3, EndsKeep
<1>4. CASE Evict
  BY <1>4, EvictKeeps
<1>5. ASSUME NEW p \in Pane,
             \/ GenStep(p) \/ Heartbeat(p) \/ ReadTimeout(p)
             \/ ClientStep(p) \/ Mount(p) \/ Drop(p) \/ Unmount(p)
      PROVE  TermInv'
  <2>1. CASE GenStep(p) \/ Heartbeat(p)
    BY <2>1, GenTurnKeeps, GenTimesKeep DEF GenStep
  <2>2. CASE ClientStep(p)
    BY <2>2, SubscribeKeeps, ReadKeeps, ShowItemKeeps, BackoffKeeps DEF ClientStep
  <2>3. CASE ReadTimeout(p)
    BY <2>3, ReadTimeoutKeeps
  <2>4. CASE Mount(p) \/ Drop(p) \/ Unmount(p)
    BY <2>4, MountKeeps, BackoffKeeps, UnmountKeeps
  <2> QED BY <1>5, <2>1, <2>2, <2>3, <2>4
<1>6. CASE UNCHANGED termVars
  <2>1. UNCHANGED <<end, bufFrom, pty, exited, exitAt, session, queue, waiting, gen, cursor, beat,
                    chan, pane, slot, owner, offset, shown, legacy, drops>>
    BY <1>6 DEF termVars, hostVars, genVars, clientVars
  <2>2. TermTypes' /\ Counted' /\ OneWriter' /\ Buffered'
    BY <2>1 DEF TermInv, TermTypes, Counted, OneWriter, InUse, Buffered
  <2>3. \A q \in Pane : PaneOK(q)'
    BY <2>1, <2>2, PaneStays DEF Queued
  <2>4. \A u \in Term : Written(u)'
    BY <2>1 DEF TermInv, Written, KeptFrom
  <2> QED BY <2>2, <2>3, <2>4 DEF TermInv
<1> QED BY <1>1, <1>2, <1>3, <1>4, <1>5, <1>6 DEF TermNext, HostStep

(* What the readers of a terminal rely on: waiters, channels and           *)
(* generators never skip output the journal still has (index.js,           *)
(* terminal-output.js, SshPanel.jsx, terminal-pool.js).                    *)
THEOREM TerminalInvariant == TermSpec => []TermInv
BY TermBegins, TermStep, PTL DEF TermSpec

(* The variables of the terminal's output have their types, nobody is      *)
(* ahead of the output, the destructive buffer stays within its cap, a     *)
(* pane waits once and the pooled terminal has one writer.                 *)
THEOREM TerminalTypeCorrect == TermSpec => []TerminalTypeOK
<1>1. TermInv => TerminalTypeOK
  <2> SUFFICES ASSUME TermInv PROVE TerminalTypeOK
    OBVIOUS
  <2>1. ASSUME NEW p \in Pane, pane[p] \in Mounted \cup Ended, slot[p] = "pool" PROVE owner = p
    BY <2>1, TerminalAssumption DEF TermInv, OneWriter, InUse
  <2> QED BY <2>1 DEF TermInv, TermTypes, Counted, Buffered, TerminalTypeOK
<1> QED BY <1>1, TerminalInvariant, PTL

(* No reader sleeps over output it has not been given; a terminal without  *)
(* destructive reads writes each character at most once and misses only    *)
(* what the journal lost; and the exit the journal reports comes after all *)
(* that was printed before it (consume, journal.read, terminalStream).     *)
THEOREM ReadersAreSound == TermSpec => []ReadersSound
<1>1. TermInv => ReadersSound
  <2> SUFFICES ASSUME TermInv PROVE ReadersSound
    OBVIOUS
  <2>1. NoSleepOverOutput
    <3>1. queue # <<>> => Len(queue) > 0
      BY DEF TermInv, TermTypes
    <3> QED BY <3>1 DEF TermInv, PaneOK, Waiting, Generator, Buffered, NoSleepOverOutput
  <2>2. ShownExactly
    BY DEF TermInv, Written, ShownExactly
  <2>3. ExitComesLast
    <3> SUFFICES ASSUME NEW p \in Pane, pane[p] = "exit", NEW k \in 1..exitAt
                 PROVE  shown[slot[p]][k] > 0 \/ k <= KeptFrom(end)
      BY DEF ExitComesLast
    <3>1. exitAt <= offset[slot[p]] /\ slot[p] \in Term /\ exitAt \in 0..MaxOut
          /\ offset[slot[p]] \in NoOffset..MaxOut /\ Written(slot[p])
      BY DEF TermInv, TermTypes, PaneOK, ExitPassed
    <3>2. k \in Pos /\ k <= offset[slot[p]]
      BY <3>1, TerminalAssumption DEF Pos, NoOffset
    <3> QED BY <3>1, <3>2 DEF Written
  <2> QED BY <2>1, <2>2, <2>3 DEF ReadersSound, ShownToTheEnd
<1> QED BY <1>1, TerminalInvariant, PTL
=============================================================================
