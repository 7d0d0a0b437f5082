------------------------------- MODULE DbProofs -------------------------------
(***************************************************************************)
(* Proofs about a database connection: its pool and transactions, the      *)
(* guard of destructive statements and the gates in front of both, for     *)
(* every number of calls, transactions and pool slots.                     *)
(***************************************************************************)
EXTENDS MCDb, WellFoundedInduction, TLAPS

(* The types, with what is in flight as sequences.                         *)
DbTypes ==
  /\ engine \in Engines /\ tunneled \in BOOLEAN
  /\ rec \in {"none", "connecting", "open", "gone"} /\ tunnel \in BOOLEAN
  /\ pool \in {"none", "live", "ended"} /\ closing \in {"no", "cleaning", "ending", "done"}
  /\ holder \in [Slot -> DbCall \cup Tx \cup {Nobody}]
  /\ cond \in [Slot -> {"none", "clean", "tx", "broken"}]
  /\ dop \in [DbCall -> Ops \cup {"none"}] /\ unit \in [DbCall -> 0 .. 5] /\ again \subseteq DbCall
  /\ dpc \in [DbCall -> {"idle", "checkout", "ping", "stmt", "reset", "resetdead", "end"}]
  /\ answer \in [DbCall -> {"none", "ok", "failed"}] /\ late \subseteq DbCall
  /\ begun \in [Tx -> {"none", "checkout", "begin", "made", "failed"}] /\ txMap \subseteq Tx
  /\ tslot \in [Tx -> Slot \cup {NoSlot}] /\ waits \in [Tx -> SUBSET Activities]
  /\ line \in [Tx -> Seq(Activities)]
  /\ crossed \subseteq Tx /\ due \subseteq Tx /\ told \in [Tx -> SUBSET (Activities \cup {"refused"})]
  /\ work \in [Tx -> {"none", "pending", "kept", "undone", "loose"}]

(* A transaction has its connection from the checkout to the last answer.  *)
HasTx(t) == begun[t] = "begin" \/ t \in txMap \/ waits[t] # {}

(* What holds whatever meets: a connection is not handed out before the    *)
(* pool is there, a call that runs has an operation, and a transaction     *)
(* sends a command again only once the earlier one was answered.           *)
PoolStarts ==
  /\ rec \in {"none", "connecting"} => pool = "none"
  /\ pool = "none" => \A s \in Slot : holder[s] = Nobody
CallRuns(k) == dpc[k] = "idle" \/ dop[k] \in Ops
Sent(t) ==
  /\ begun[t] # "made" => t \notin txMap /\ waits[t] = {} /\ line[t] = <<>> /\ told[t] = {} /\ work[t] = "none"
  /\ \A i, j \in 1 .. Len(line[t]) : line[t][i] = line[t][j] => i = j
  /\ t \in txMap => "dispose" \notin waits[t] /\ \A i \in 1 .. Len(line[t]) : line[t][i] \in waits[t]
  /\ tslot[t] = NoSlot => line[t] = <<>>

(* While no two commands met: who has a slot is using it and the other way *)
(* round.                                                                  *)
InHand == {"ping", "stmt", "reset", "resetdead"}
Held ==
  /\ \A s \in Slot : holder[s] \in DbCall => dpc[holder[s]] \in InHand
  /\ \A s, u \in Slot : holder[s] = holder[u] /\ holder[s] \in DbCall => s = u
  /\ \A s \in Slot : holder[s] \in Tx => tslot[holder[s]] = s /\ HasTx(holder[s])
  /\ \A t \in Tx : HasTx(t) => tslot[t] \in Slot /\ holder[tslot[t]] = t

(* A transaction has one command in flight, or the ROLLBACK of a disposal  *)
(* nobody awaits any more.                                                 *)
Flight(t) ==
  /\ waits[t] # {} => \E a \in Activities : waits[t] = {a} /\ line[t] = <<a>> /\ (a = "dispose" \/ t \in txMap)
  /\ waits[t] = {} /\ line[t] # <<>> =>
       engine = "pg" /\ t \notin txMap /\ line[t] = <<"dispose">> /\ told[t] \cap Finishing = {}

(* What the server sees on a slot is the doing of the transaction there.   *)
Started(t) == t \in txMap \/ waits[t] # {}
Seen(s) ==
  /\ cond[s] = "broken" => engine = "pg"
  /\ InTx(s) => \E t \in Tx : tslot[t] = s /\ begun[t] = "made" /\ (holder[s] = t \/ RollingBack(t))
Works(t) ==
  Started(t) =>
    /\ work[t] = "loose" \/ (InTx(tslot[t]) /\ work[t] \in {"none", "pending"})
    /\ cond[tslot[t]] = "broken" => "refused" \in told[t]
    /\ \A x \in OnSlot(tslot[t]) \ {t} : line[x] = <<>>

(* What was reported is over, and happened.                                *)
Reported(t) ==
  /\ told[t] \cap Finishing # {} => ~HasTx(t) /\ line[t] = <<>>
  /\ "commit" \in told[t] /\ (engine = "pg" => "refused" \notin told[t]) => work[t] \in {"none", "kept", "loose"}
  /\ "commit" \in told[t] => "rollback" \notin told[t] /\ "dispose" \notin told[t]
  /\ work[t] = "kept" => "commit" \in told[t]

Apart ==
  /\ Held /\ \A s \in Slot : Seen(s)
  /\ \A t \in Tx : Flight(t) /\ Works(t) /\ Reported(t)

PoolInv ==
  /\ DbTypes /\ PoolStarts /\ TunnelIsOwned /\ (\A k \in DbCall : CallRuns(k)) /\ (\A t \in Tx : Sent(t))
  /\ crossed = {} => Apart

-----------------------------------------------------------------------------
(* The scripts of the operations, and what the end of a unit does to a     *)
(* call.                                                                   *)
LEMMA ScriptLength ==
  ASSUME NEW o \in Ops, NEW e \in Pooled \cup {"kv", "http", "file"}
  PROVE  Len(Script(o, e)) \in 0 .. 5
<1>1. Len(Query(e)) = 1 /\ Len(Execute(e)) = 1 /\ Len(ListTables(e)) = 1 /\ Len(Run(e)) = 1
  BY DEF Query, Execute, ListTables, Run
<1>2. Len(DescribeTable(e)) \in 0 .. 5
  <2>1. CASE e = "mysql"
    BY <2>1 DEF DescribeTable
  <2>2. CASE e = "pg"
    BY <2>2 DEF DescribeTable
  <2>3. CASE e = "http"
    BY <2>3 DEF DescribeTable
  <2>4. CASE e \in {"kv", "file"}
    BY <2>4 DEF DescribeTable
  <2> QED BY <2>1, <2>2, <2>3, <2>4 DEF Pooled
<1>3. Len(Preview(e)) \in 0 .. 5
  <2>1. Len(<<Soft(Unit(e, "once"))>> \o Query(e)) = 2
    BY DEF Query
  <2> QED BY <1>1, <2>1 DEF Preview
<1>4. Len(ExportRows(e)) \in 0 .. 5 /\ Len(Explain(e)) \in 0 .. 5
  BY DEF ExportRows, Explain
<1> QED BY <1>1, <1>2, <1>3, <1>4 DEF Script, Ops

LEMMA UnitOverDoes ==
  ASSUME DbTypes, NEW k \in DbCall, CallRuns(k), dpc[k] # "idle", NEW good \in BOOLEAN, UnitOver(k, good)
  PROVE  /\ \E at \in {"end", "checkout", "stmt"} : dpc' = [dpc EXCEPT ![k] = at]
         /\ dop' = dop /\ unit' \in [DbCall -> 0 .. 5] /\ again' \subseteq DbCall
         /\ answer' \in [DbCall -> {"none", "ok", "failed"}]
<1> USE PoolAssumption
<1> DEFINE n == unit[k]
           skip == n < Len(Script(dop[k], engine)) /\ Script(dop[k], engine)[n + 1].alt /\ good
           next == IF skip THEN n + 2 ELSE n + 1
<1>1. dop[k] \in Ops /\ engine \in Pooled \cup {"kv", "http", "file"} /\ n \in 0 .. 5
  BY DEF CallRuns, DbTypes
<1>2. Len(Script(dop[k], engine)) \in 0 .. 5
  BY <1>1, ScriptLength
<1>3. next \in Nat
  BY <1>1
<1>4. dop' = dop /\ again' \subseteq DbCall
  BY DEF UnitOver, DbTypes
<1>5. \/ Refuse(k) /\ UNCHANGED unit
      \/ dpc' = [dpc EXCEPT ![k] = "end"] /\ answer' = [answer EXCEPT ![k] = "ok"] /\ UNCHANGED unit
      \/ /\ next <= Len(Script(dop[k], engine)) /\ unit' = [unit EXCEPT ![k] = next] /\ UNCHANGED answer
         /\ dpc' = [dpc EXCEPT ![k] = FirstPc(Script(dop[k], engine)[next])]
  BY DEF UnitOver
<1> HIDE DEF next
<1>6. unit' \in [DbCall -> 0 .. 5]
  BY <1>2, <1>3, <1>5 DEF DbTypes
<1>7. answer' \in [DbCall -> {"none", "ok", "failed"}]
  BY <1>5 DEF Refuse, DbTypes
<1>8. \E at \in {"end", "checkout", "stmt"} : dpc' = [dpc EXCEPT ![k] = at]
  BY <1>5 DEF Refuse, FirstPc
<1> QED BY <1>4, <1>6, <1>7, <1>8

LEMMA PoolBegins == DbInit => PoolInv
<1> SUFFICES ASSUME DbInit PROVE PoolInv
  OBVIOUS
<1> USE PoolAssumption
<1>1. DbTypes
  <2>1. /\ engine \in Engines /\ tunneled \in BOOLEAN /\ rec = "none" /\ tunnel = FALSE /\ pool = "none" /\ closing = "no"
        /\ holder \in [Slot -> DbCall \cup Tx \cup {Nobody}] /\ cond \in [Slot -> {"none", "clean", "tx", "broken"}]
    BY DEF DbInit
  <2>2. /\ dop \in [DbCall -> Ops \cup {"none"}] /\ unit \in [DbCall -> 0 .. 5] /\ again = {} /\ late = {}
        /\ dpc \in [DbCall -> {"idle", "checkout", "ping", "stmt", "reset", "resetdead", "end"}]
        /\ answer \in [DbCall -> {"none", "ok", "failed"}]
    BY DEF DbInit
  <2>3. /\ begun \in [Tx -> {"none", "checkout", "begin", "made", "failed"}] /\ txMap = {}
        /\ tslot \in [Tx -> Slot \cup {NoSlot}] /\ waits \in [Tx -> SUBSET Activities]
        /\ crossed = {} /\ due = {} /\ told \in [Tx -> SUBSET (Activities \cup {"refused"})]
        /\ work \in [Tx -> {"none", "pending", "kept", "undone", "loose"}]
    BY DEF DbInit
  <2>4. line \in [Tx -> Seq(Activities)]
    BY DEF DbInit
  <2> QED BY <2>1, <2>2, <2>3, <2>4 DEF DbTypes
<1>2. PoolStarts /\ TunnelIsOwned /\ (\A k \in DbCall : CallRuns(k)) /\ (\A s \in Slot : holder[s] = Nobody /\ cond[s] = "none")
  BY DEF DbInit, PoolStarts, TunnelIsOwned, CallRuns
<1>3. ASSUME NEW t \in Tx
      PROVE /\ begun[t] = "none" /\ t \notin txMap /\ waits[t] = {} /\ line[t] = <<>> /\ told[t] = {}
            /\ work[t] = "none" /\ Len(line[t]) = 0 /\ ~HasTx(t) /\ ~Started(t)
  BY DEF DbInit, HasTx, Started
<1>4. \A t \in Tx : Sent(t) /\ Flight(t) /\ Works(t) /\ Reported(t)
  BY <1>3 DEF Sent, Flight, Works, Reported
<1>5. Held /\ \A s \in Slot : Seen(s)
  BY <1>2, <1>3 DEF Held, Seen, InTx
<1> QED BY <1>1, <1>2, <1>4, <1>5 DEF PoolInv, Apart

-----------------------------------------------------------------------------
(* What becomes of the slots when a connection is destroyed, handed back   *)
(* or given out.                                                           *)
LEMMA Destruction ==
  ASSUME DbTypes, NEW s \in Slot, Destroy(s)
  PROVE  /\ holder' \in [Slot -> DbCall \cup Tx \cup {Nobody}] /\ cond' \in [Slot -> {"none", "clean", "tx", "broken"}]
         /\ tslot' \in [Tx -> Slot \cup {NoSlot}] /\ line' \in [Tx -> Seq(Activities)]
         /\ work' \in [Tx -> {"none", "pending", "kept", "undone", "loose"}]
         /\ holder'[s] = Nobody /\ cond'[s] = "none"
         /\ \A u \in Slot \ {s} : holder'[u] = holder[u] /\ cond'[u] = cond[u]
         /\ \A t \in Tx : tslot[t] = s => tslot'[t] = NoSlot /\ line'[t] = <<>> /\ work'[t] = Undone(t)
         /\ \A t \in Tx : tslot[t] # s => tslot'[t] = tslot[t] /\ line'[t] = line[t] /\ work'[t] = work[t]
<1>1. /\ holder' = [holder EXCEPT ![s] = Nobody] /\ cond' = [cond EXCEPT ![s] = "none"]
      /\ tslot' = [t \in Tx |-> IF t \in OnSlot(s) THEN NoSlot ELSE tslot[t]]
      /\ line' = [t \in Tx |-> IF t \in OnSlot(s) THEN <<>> ELSE line[t]]
      /\ work' = [t \in Tx |-> IF t \in OnSlot(s) THEN Undone(t) ELSE work[t]]
  BY DEF Destroy, Destroyed, HandlesDie
<1>2. \A t \in Tx : t \in OnSlot(s) <=> tslot[t] = s
  BY DEF OnSlot
<1>3. \A t \in Tx : Undone(t) \in {"none", "pending", "kept", "undone", "loose"}
  BY DEF Undone, DbTypes
<1>4. /\ holder' \in [Slot -> DbCall \cup Tx \cup {Nobody}] /\ cond' \in [Slot -> {"none", "clean", "tx", "broken"}]
      /\ holder'[s] = Nobody /\ cond'[s] = "none"
      /\ \A u \in Slot \ {s} : holder'[u] = holder[u] /\ cond'[u] = cond[u]
  BY <1>1 DEF DbTypes
<1>5. tslot' \in [Tx -> Slot \cup {NoSlot}] /\ work' \in [Tx -> {"none", "pending", "kept", "undone", "loose"}]
  BY <1>1, <1>3 DEF DbTypes
<1>6. line' \in [Tx -> Seq(Activities)]
  <2>1. \A t \in Tx : line[t] \in Seq(Activities) /\ <<>> \in Seq(Activities)
    BY DEF DbTypes
  <2> QED BY <1>1, <2>1
<1> QED BY <1>1, <1>2, <1>4, <1>5, <1>6

LEMMA DestroyKeeps ==
  ASSUME DbTypes, Apart, NEW s \in Slot, Destroy(s), NEW d, d = holder[s], engine' = engine,
         \A t \in Tx : t # d => /\ begun'[t] = begun[t] /\ (t \in txMap' <=> t \in txMap)
                                /\ waits'[t] = waits[t] /\ told'[t] = told[t],
         \A t \in Tx : t = d => /\ begun'[t] # "begin" /\ t \notin txMap' /\ waits'[t] = {}
                                /\ told'[t] \cap Finishing = {},
         \A k \in DbCall : k # d => dpc'[k] = dpc[k]
  PROVE  Apart'
<1> USE PoolAssumption
<1>1. /\ holder'[s] = Nobody /\ cond'[s] = "none"
      /\ \A u \in Slot \ {s} : holder'[u] = holder[u] /\ cond'[u] = cond[u]
      /\ \A t \in Tx : tslot[t] = s => tslot'[t] = NoSlot /\ line'[t] = <<>> /\ work'[t] = Undone(t)
      /\ \A t \in Tx : tslot[t] # s => tslot'[t] = tslot[t] /\ line'[t] = line[t] /\ work'[t] = work[t]
  BY Destruction
<1>2. Held
  BY DEF Apart
<1>3. ASSUME NEW t \in Tx PROVE HasTx(t)' => t # d /\ HasTx(t) /\ tslot[t] \in Slot \ {s} /\ holder[tslot[t]] = t
  <2>1. HasTx(t)' => t # d /\ HasTx(t)
    BY DEF HasTx
  <2> QED BY <1>2, <2>1 DEF Held
<1>4. ASSUME NEW u \in Slot \ {s} PROVE holder[u] # d \/ holder[u] = Nobody
  BY <1>2 DEF Held, DbTypes
<1>5. Held'
  <2>1. \A u \in Slot : (holder[u] \in DbCall => dpc[holder[u]] \in InHand)'
    BY <1>1, <1>2, <1>4 DEF Held
  <2>2. \A u, v \in Slot : (holder[u] = holder[v] /\ holder[u] \in DbCall => u = v)'
    BY <1>1, <1>2 DEF Held
  <2>3. ASSUME NEW u \in Slot, holder'[u] \in Tx PROVE tslot'[holder'[u]] = u /\ HasTx(holder[u])'
    <3>1. u # s /\ holder'[u] = holder[u]
      BY <1>1, <2>3
    <3>2. PICK t \in Tx : t = holder[u] /\ t = holder'[u]
      BY <2>3, <3>1
    <3>3. tslot[t] = u /\ HasTx(t) /\ t # d
      BY <1>2, <1>4, <3>1, <3>2 DEF Held
    <3>4. HasTx(t)' /\ tslot'[t] = u
      BY <1>1, <3>1, <3>3 DEF HasTx
    <3> QED BY <3>2, <3>4 DEF HasTx
  <2>4. \A t \in Tx : HasTx(t)' => tslot'[t] \in Slot /\ holder'[tslot'[t]] = t
    BY <1>1, <1>3
  <2> QED BY <2>1, <2>2, <2>3, <2>4 DEF Held
<1>6. ASSUME NEW u \in Slot PROVE Seen(u)'
  <2>1. CASE u = s
    BY <1>1, <2>1 DEF Seen, InTx
  <2>2. CASE u # s
    <3>1. Seen(u) /\ cond'[u] = cond[u] /\ holder'[u] = holder[u]
      BY <1>1, <2>2 DEF Apart
    <3>2. ASSUME NEW t \in Tx, tslot[t] = u, begun[t] = "made", holder[u] = t \/ RollingBack(t)
          PROVE  tslot'[t] = u /\ begun'[t] = "made" /\ (holder'[u] = t \/ RollingBack(t)')
      <4>1. tslot'[t] = u
        BY <1>1, <2>2, <3>2
      <4>2. t # d
        BY <1>2, <2>2, <3>2 DEF Held
      <4>3. RollingBack(t) => RollingBack(t)'
        BY <1>1, <2>2, <3>2, <4>2 DEF RollingBack
      <4> QED BY <3>1, <3>2, <4>1, <4>2, <4>3
    <3>3. InTx(u)' <=> InTx(u)
      BY <3>1 DEF InTx
    <3> QED BY <3>1, <3>2, <3>3 DEF Seen
  <2> QED BY <2>1, <2>2
<1>7. ASSUME NEW t \in Tx PROVE Flight(t)'
  <2>1. Flight(t)
    BY DEF Apart
  <2>2. CASE t = d
    <3>1. tslot[t] = s
      BY <1>2, <2>2 DEF Held
    <3> QED BY <1>1, <2>2, <3>1 DEF Flight
  <2>3. CASE t # d /\ tslot[t] = s
    <3>1. ~HasTx(t)
      BY <1>2, <2>3 DEF Held
    <3> QED BY <1>1, <2>3, <3>1 DEF Flight, HasTx
  <2>4. CASE t # d /\ tslot[t] # s
    BY <1>1, <2>1, <2>4 DEF Flight
  <2> QED BY <2>2, <2>3, <2>4
<1>8. ASSUME NEW t \in Tx PROVE Works(t)'
  <2> SUFFICES ASSUME Started(t)' PROVE Works(t)'
    BY DEF Works
  <2>1. t # d /\ Started(t) /\ HasTx(t) /\ tslot[t] \in Slot \ {s} /\ tslot'[t] = tslot[t] /\ told'[t] = told[t] /\ work'[t] = work[t]
    BY <1>1, <1>3 DEF Started, HasTx
  <2>2. PICK u \in Slot \ {s} : u = tslot[t] /\ u = tslot'[t]
    BY <2>1
  <2>3. (work[t] = "loose" \/ (InTx(u) /\ work[t] \in {"none", "pending"})) /\ (cond[u] = "broken" => "refused" \in told[t])
        /\ \A x \in Tx \ {t} : tslot[x] = u => line[x] = <<>>
    BY <2>1, <2>2 DEF Apart, Works, OnSlot
  <2>4. (InTx(u) => InTx(u)') /\ \A x \in Tx \ {t} : tslot'[x] = u => line'[x] = <<>>
    BY <1>1, <2>2, <2>3 DEF InTx
  <2>5. (InTx(u) => InTx(tslot[t])') /\ \A x \in OnSlot(tslot[t])' \ {t} : line'[x] = <<>>
    BY <2>2, <2>4 DEF InTx, OnSlot
  <2> QED BY <1>1, <2>1, <2>2, <2>3, <2>5 DEF Works
<1>9. ASSUME NEW t \in Tx PROVE Reported(t)'
  <2>1. Reported(t)
    BY DEF Apart
  <2>2. CASE t = d
    <3>1. tslot[t] = s /\ HasTx(t)
      BY <1>2, <2>2 DEF Held
    <3>2. "commit" \notin told[t] /\ work[t] # "kept"
      BY <2>1, <3>1 DEF Reported, Finishing
    <3>3. work'[t] # "kept" /\ "commit" \notin told'[t]
      BY <1>1, <2>2, <3>1, <3>2 DEF Undone, Finishing
    <3> QED BY <2>2, <3>3 DEF Reported
  <2>3. CASE t # d
    <3>1. /\ work[t] \in {"none", "kept", "loose"} => work'[t] = work[t]
          /\ work'[t] = "kept" => work[t] = "kept"
          /\ line[t] = <<>> => line'[t] = <<>>
      BY <1>1 DEF Undone
    <3> QED BY <2>1, <2>3, <3>1 DEF Reported, HasTx
  <2> QED BY <2>2, <2>3
<1> QED BY <1>5, <1>6, <1>7, <1>8, <1>9 DEF Apart

LEMMA ReleaseKeeps ==
  ASSUME DbTypes, Apart, NEW s \in Slot, Released(s), Keep, NEW d, d = holder[s], UNCHANGED <<engine, begun, told>>,
         \A t \in Tx : t # d => (t \in txMap' <=> t \in txMap) /\ waits'[t] = waits[t],
         \A t \in Tx : t = d => engine = "pg" /\ begun[t] = "made" /\ t \notin txMap' /\ waits'[t] = {} /\ waits[t] = {"dispose"},
         \A k \in DbCall : k # d => dpc'[k] = dpc[k]
  PROVE  /\ Apart' /\ holder' \in [Slot -> DbCall \cup Tx \cup {Nobody}]
         /\ cond' \in [Slot -> {"none", "clean", "tx", "broken"}]
<1> USE PoolAssumption
<1>1. /\ holder'[s] = Nobody /\ cond'[s] \in {"none", cond[s]} /\ UNCHANGED <<tslot, line, work>>
      /\ \A u \in Slot \ {s} : holder'[u] = holder[u] /\ cond'[u] = cond[u]
      /\ holder' \in [Slot -> DbCall \cup Tx \cup {Nobody}] /\ cond' \in [Slot -> {"none", "clean", "tx", "broken"}]
  BY DEF Released, Back, Keep, DbTypes
<1>2. Held
  BY DEF Apart
<1>3. ASSUME NEW t \in Tx PROVE HasTx(t)' => t # d /\ HasTx(t) /\ tslot[t] \in Slot \ {s} /\ holder[tslot[t]] = t
  <2>1. HasTx(t)' => t # d /\ HasTx(t)
    BY DEF HasTx
  <2> QED BY <1>2, <2>1 DEF Held
<1>4. ASSUME NEW u \in Slot \ {s} PROVE holder[u] # d \/ holder[u] = Nobody
  BY <1>2 DEF Held, DbTypes
<1>5. Held'
  <2>1. \A u \in Slot : (holder[u] \in DbCall => dpc[holder[u]] \in InHand)'
    BY <1>1, <1>2, <1>4 DEF Held
  <2>2. \A u, v \in Slot : (holder[u] = holder[v] /\ holder[u] \in DbCall => u = v)'
    BY <1>1, <1>2 DEF Held
  <2>3. ASSUME NEW u \in Slot, holder'[u] \in Tx PROVE tslot'[holder'[u]] = u /\ HasTx(holder[u])'
    <3>1. u # s /\ holder'[u] = holder[u]
      BY <1>1, <2>3
    <3>2. PICK t \in Tx : t = holder[u] /\ t = holder'[u]
      BY <2>3, <3>1
    <3>3. tslot[t] = u /\ HasTx(t) /\ t # d
      BY <1>2, <1>4, <3>1, <3>2 DEF Held
    <3>4. HasTx(t)' /\ tslot'[t] = u
      BY <1>1, <3>3 DEF HasTx
    <3> QED BY <3>2, <3>4 DEF HasTx
  <2>4. \A t \in Tx : HasTx(t)' => tslot'[t] \in Slot /\ holder'[tslot'[t]] = t
    BY <1>1, <1>3
  <2> QED BY <2>1, <2>2, <2>3, <2>4 DEF Held
<1>11. ASSUME NEW t \in Tx, t = d PROVE line[t] = <<"dispose">> /\ told[t] \cap Finishing = {}
  <2>1. Flight(t) /\ Reported(t) /\ waits[t] = {"dispose"}
    BY <1>11 DEF Apart
  <2> QED BY <2>1 DEF Flight, Reported, HasTx
<1>6. ASSUME NEW u \in Slot PROVE Seen(u)'
  <2>1. Seen(u)
    BY DEF Apart
  <2>2. cond'[u] = "broken" => cond[u] = "broken"
    BY <1>1
  <2>3. ASSUME InTx(u)' PROVE \E t \in Tx : tslot'[t] = u /\ begun'[t] = "made" /\ (holder'[u] = t \/ RollingBack(t)')
    <3>1. InTx(u)
      BY <1>1, <2>3 DEF InTx
    <3>2. PICK t \in Tx : tslot[t] = u /\ begun[t] = "made" /\ (holder[u] = t \/ RollingBack(t))
      BY <2>1, <3>1 DEF Seen
    <3>3. holder'[u] = t \/ RollingBack(t)'
      <4>1. CASE holder[u] = t /\ u # s
        BY <1>1, <4>1
      <4>2. CASE holder[u] = t /\ u = s
        <5>1. t = d /\ line[t] = <<"dispose">>
          BY <1>11, <4>2
        <5> QED BY <1>1, <5>1 DEF RollingBack
      <4>3. CASE RollingBack(t) /\ t # d
        BY <1>1, <4>3 DEF RollingBack
      <4>4. CASE RollingBack(t) /\ t = d
        BY <4>4 DEF RollingBack
      <4> QED BY <3>2, <4>1, <4>2, <4>3, <4>4
    <3> QED BY <1>1, <3>2, <3>3
  <2> QED BY <2>1, <2>2, <2>3 DEF Seen
<1>7. ASSUME NEW t \in Tx PROVE Flight(t)'
  <2>1. Flight(t) /\ Reported(t)
    BY DEF Apart
  <2>2. CASE t = d
    <3>1. line[t] = <<"dispose">> /\ told[t] \cap Finishing = {}
      BY <2>1, <2>2 DEF Flight, Reported, HasTx
    <3> QED BY <1>1, <2>2, <3>1 DEF Flight
  <2>3. CASE t # d
    BY <1>1, <2>1, <2>3 DEF Flight
  <2> QED BY <2>2, <2>3
<1>8. ASSUME NEW t \in Tx PROVE Works(t)'
  <2> SUFFICES ASSUME Started(t)' PROVE Works(t)'
    BY DEF Works
  <2>1. t # d /\ Started(t) /\ HasTx(t) /\ tslot[t] \in Slot \ {s}
    BY <1>3 DEF Started, HasTx
  <2>2. cond'[tslot[t]] = cond[tslot[t]] /\ Works(t)
    BY <1>1, <2>1 DEF Apart
  <2> QED BY <1>1, <2>1, <2>2 DEF Works, InTx, OnSlot
<1>9. ASSUME NEW t \in Tx PROVE Reported(t)'
  <2>1. Reported(t)
    BY DEF Apart
  <2>2. t = d => told[t] \cap Finishing = {}
    BY <2>1 DEF Reported, HasTx
  <2>3. t # d => (HasTx(t)' <=> HasTx(t))
    BY DEF HasTx
  <2> QED BY <1>1, <2>1, <2>2, <2>3 DEF Reported
<1> QED BY <1>1, <1>5, <1>6, <1>7, <1>8, <1>9 DEF Apart

LEMMA TakenKeeps ==
  ASSUME DbTypes, Apart, NEW s \in Available, NEW d \in DbCall \cup Tx, Taken(s, d), UNCHANGED <<engine, line, work, told, txMap, waits>>,
         \A t \in Tx : t # d => begun'[t] = begun[t] /\ tslot'[t] = tslot[t],
         \A t \in Tx : t = d => begun'[t] = "begin" /\ tslot'[t] = s /\ begun[t] = "checkout" /\ ~HasTx(t) /\ line[t] = <<>>
                                /\ told[t] = {} /\ work[t] = "none",
         \A k \in DbCall : k # d => dpc'[k] = dpc[k],
         \A k \in DbCall : k = d => dpc'[k] \in InHand /\ dpc[k] \notin InHand
  PROVE  /\ Apart' /\ holder' \in [Slot -> DbCall \cup Tx \cup {Nobody}]
         /\ cond' \in [Slot -> {"none", "clean", "tx", "broken"}]
<1> USE PoolAssumption
<1>1. /\ s \in Slot /\ holder[s] = Nobody /\ holder'[s] = d /\ cond'[s] = IF cond[s] = "none" THEN "clean" ELSE cond[s]
      /\ \A u \in Slot \ {s} : holder'[u] = holder[u] /\ cond'[u] = cond[u]
      /\ holder' \in [Slot -> DbCall \cup Tx \cup {Nobody}] /\ cond' \in [Slot -> {"none", "clean", "tx", "broken"}]
  BY DEF Taken, Available, DbTypes
<1>2. Held
  BY DEF Apart
<1>3. \A u \in Slot : holder[u] # d
  BY <1>2 DEF Held
<1>4. \A t \in Tx : HasTx(t)' <=> HasTx(t) \/ t = d
  BY DEF HasTx
<1>5. \A t \in Tx : Started(t)' <=> Started(t)
  BY DEF Started
<1>6. Held'
  <2>1. \A u \in Slot : (holder[u] \in DbCall => dpc[holder[u]] \in InHand)'
    <3> SUFFICES ASSUME NEW u \in Slot, holder'[u] \in DbCall PROVE dpc'[holder'[u]] \in InHand
      OBVIOUS
    <3>1. CASE u = s
      BY <1>1, <3>1
    <3>2. CASE u # s
      BY <1>1, <1>2, <1>3, <3>2 DEF Held
    <3> QED BY <3>1, <3>2
  <2>2. \A u, v \in Slot : (holder[u] = holder[v] /\ holder[u] \in DbCall => u = v)'
    BY <1>1, <1>2, <1>3 DEF Held
  <2>3. ASSUME NEW u \in Slot, holder'[u] \in Tx PROVE tslot'[holder'[u]] = u /\ HasTx(holder[u])'
    <3>1. PICK t \in Tx : t = holder'[u]
      BY <2>3
    <3>2. tslot'[t] = u /\ HasTx(t)'
      <4>1. CASE u = s
        BY <1>1, <1>4, <3>1, <4>1
      <4>2. CASE u # s
        BY <1>1, <1>2, <1>3, <1>4, <3>1, <4>2 DEF Held
      <4> QED BY <4>1, <4>2
    <3> QED BY <3>1, <3>2 DEF HasTx
  <2>4. \A t \in Tx : HasTx(t)' => tslot'[t] \in Slot /\ holder'[tslot'[t]] = t
    BY <1>1, <1>2, <1>4 DEF Held
  <2> QED BY <2>1, <2>2, <2>3, <2>4 DEF Held
<1>7. ASSUME NEW u \in Slot PROVE Seen(u)'
  <2>1. Seen(u)
    BY DEF Apart
  <2>2. cond'[u] = "broken" => cond[u] = "broken"
    BY <1>1
  <2>3. ASSUME InTx(u)' PROVE \E t \in Tx : tslot'[t] = u /\ begun'[t] = "made" /\ (holder'[u] = t \/ RollingBack(t)')
    <3>1. InTx(u)
      BY <1>1, <2>3 DEF InTx
    <3>2. PICK t \in Tx : tslot[t] = u /\ begun[t] = "made" /\ (holder[u] = t \/ RollingBack(t))
      BY <2>1, <3>1 DEF Seen
    <3>3. t # d
      BY <3>2
    <3>4. holder'[u] = t \/ RollingBack(t)'
      BY <1>1, <3>2 DEF RollingBack
    <3> QED BY <3>2, <3>3, <3>4
  <2> QED BY <2>1, <2>2, <2>3 DEF Seen
<1>8. ASSUME NEW t \in Tx PROVE Flight(t)'
  BY DEF Flight, Apart
<1>9. ASSUME NEW t \in Tx PROVE Works(t)'
  <2> SUFFICES ASSUME Started(t)' PROVE Works(t)'
    BY DEF Works
  <2>1. t # d /\ Started(t) /\ HasTx(t)
    BY <1>5 DEF Started, HasTx
  <2>2. tslot[t] \in Slot \ {s} /\ tslot'[t] = tslot[t]
    BY <1>1, <1>2, <2>1 DEF Held
  <2>3. PICK u \in Slot \ {s} : u = tslot[t] /\ u = tslot'[t]
    BY <2>2
  <2>4. (work[t] = "loose" \/ (InTx(u) /\ work[t] \in {"none", "pending"})) /\ (cond[u] = "broken" => "refused" \in told[t])
        /\ \A x \in Tx \ {t} : tslot[x] = u => line[x] = <<>>
    BY <2>1, <2>3 DEF Apart, Works, OnSlot
  <2>5. (InTx(u) => InTx(tslot[t])') /\ \A x \in OnSlot(tslot[t])' \ {t} : line'[x] = <<>>
    BY <1>1, <2>3, <2>4 DEF InTx, OnSlot
  <2> QED BY <1>1, <2>3, <2>4, <2>5 DEF Works
<1>10. ASSUME NEW t \in Tx PROVE Reported(t)'
  <2>1. Reported(t)
    BY DEF Apart
  <2> QED BY <1>4, <2>1 DEF Reported
<1> QED BY <1>1, <1>6, <1>7, <1>8, <1>9, <1>10 DEF Apart

(* Nothing changes but where a call is.                                    *)
LEMMA ApartStays ==
  ASSUME DbTypes, Apart, UNCHANGED <<engine, holder, cond, begun, txMap, tslot, line, waits, told, work>>,
         \A k \in DbCall : dpc'[k] = dpc[k] \/ dpc'[k] \in InHand \/ \A s \in Slot : holder[s] # k
  PROVE  Apart'
<1>1. Held'
  <2>1. \A t \in Tx : HasTx(t)' <=> HasTx(t)
    BY DEF HasTx
  <2>2. Held
    BY DEF Apart
  <2>3. \A s \in Slot : holder'[s] \in Tx => tslot'[holder'[s]] = s /\ HasTx(holder[s])'
    BY <2>2 DEF Held, HasTx
  <2>4. \A s \in Slot : holder'[s] \in DbCall => dpc'[holder'[s]] \in InHand
    BY <2>2 DEF Held
  <2> QED BY <2>1, <2>2, <2>3, <2>4 DEF Held
<1>2. \A s \in Slot : Seen(s)'
  BY DEF Apart, Seen, InTx, RollingBack
<1>3. ASSUME NEW t \in Tx PROVE Flight(t)' /\ Works(t)' /\ Reported(t)'
  BY DEF Apart, Flight, Works, Reported, InTx, OnSlot, Started, HasTx
<1> QED BY <1>1, <1>2, <1>3 DEF Apart

LEMMA SentStays ==
  ASSUME DbTypes, NEW t \in Tx, Sent(t), begun'[t] = begun[t], t \in txMap' <=> t \in txMap, waits'[t] = waits[t],
         told'[t] = told[t],
         \/ tslot'[t] = tslot[t] /\ line'[t] = line[t] /\ work'[t] = work[t]
         \/ line'[t] = <<>> /\ work'[t] = Undone(t)
  PROVE  Sent(t)'
<1>1. CASE tslot'[t] = tslot[t] /\ line'[t] = line[t] /\ work'[t] = work[t]
  BY <1>1 DEF Sent
<1>2. CASE line'[t] = <<>> /\ work'[t] = Undone(t)
  <2>1. Len(line'[t]) = 0
    BY <1>2
  <2> QED BY <1>2, <2>1 DEF Sent, Undone
<1> QED BY <1>1, <1>2

(* A step of a call, with what it does to the slots.                       *)
LEMMA CallKeeps ==
  ASSUME PoolInv, NEW k \in DbCall, UNCHANGED <<dbConf, begun, txMap, waits, crossed, told, due>>,
         rec' \in {"none", "connecting", "open", "gone"}, tunnel' \in BOOLEAN, closing' \in {"no", "cleaning", "ending", "done"},
         pool' \in {"none", "live", "ended"}, TunnelIsOwned',
         rec' \in {"none", "connecting"} => pool' = "none", pool' = "none" => pool = "none",
         dop' \in [DbCall -> Ops \cup {"none"}], unit' \in [DbCall -> 0 .. 5], again' \subseteq DbCall, late' \subseteq DbCall,
         answer' \in [DbCall -> {"none", "ok", "failed"}],
         dpc' \in [DbCall -> {"idle", "checkout", "ping", "stmt", "reset", "resetdead", "end"}],
         \A x \in DbCall \ {k} : dpc'[x] = dpc[x] /\ dop'[x] = dop[x], CallRuns(k)',
         \/ UNCHANGED slotVars /\ Keep /\ (crossed = {} => Mine(k) = {} \/ dpc'[k] = dpc[k] \/ dpc'[k] \in InHand)
         \/ \E s \in Mine(k) : Released(s) /\ Keep
         \/ \E s \in Mine(k) : Destroy(s)
         \/ dpc'[k] = dpc[k] /\ \E s \in Available : Destroy(s)
         \/ dpc[k] \notin InHand /\ dpc'[k] \in InHand /\ Keep /\ \E s \in Available : Taken(s, k)
  PROVE  PoolInv'
<1> USE PoolAssumption
<1>1. DbTypes /\ PoolStarts /\ (\A t \in Tx : Sent(t)) /\ engine' = engine
  BY DEF PoolInv, dbConf
<1> DEFINE Slots ==
      /\ holder' \in [Slot -> DbCall \cup Tx \cup {Nobody}] /\ cond' \in [Slot -> {"none", "clean", "tx", "broken"}]
      /\ tslot' \in [Tx -> Slot \cup {NoSlot}] /\ line' \in [Tx -> Seq(Activities)]
      /\ work' \in [Tx -> {"none", "pending", "kept", "undone", "loose"}]
      /\ pool = "none" => \A s \in Slot : holder'[s] = Nobody
      /\ \A t \in Tx : Sent(t)'
      /\ crossed = {} => Apart'
<1>2. ASSUME UNCHANGED slotVars, Keep, crossed = {} => Mine(k) = {} \/ dpc'[k] = dpc[k] \/ dpc'[k] \in InHand
      PROVE  Slots
  <2>1. UNCHANGED <<holder, cond, tslot, line, work>>
    BY <1>2 DEF slotVars, Keep
  <2>2. crossed = {} => \A x \in DbCall : dpc'[x] = dpc[x] \/ dpc'[x] \in InHand \/ \A s \in Slot : holder[s] # x
    BY <1>2 DEF Mine
  <2>3. crossed = {} => Apart'
    BY <1>1, <2>1, <2>2, ApartStays DEF PoolInv
  <2>4. Slots
    BY <1>1, <2>1, <2>3, SentStays DEF DbTypes, PoolStarts
  <2> QED BY <2>4
<1>3. ASSUME NEW s \in Mine(k), Released(s), Keep PROVE Slots
  <2>1. s \in Slot /\ holder[s] = k /\ UNCHANGED <<tslot, line, work>> /\ k \notin Tx
    BY <1>3 DEF Mine, Keep
  <2>2. crossed = {} => Apart'
    BY <1>1, <1>3, <2>1, ReleaseKeeps DEF PoolInv
  <2>3. holder' \in [Slot -> DbCall \cup Tx \cup {Nobody}] /\ cond' \in [Slot -> {"none", "clean", "tx", "broken"}]
        /\ \A u \in Slot : holder'[u] \in {Nobody, holder[u]}
    BY <1>1, <1>3, <2>1 DEF Released, Back, DbTypes
  <2> QED BY <1>1, <2>1, <2>2, <2>3, SentStays DEF DbTypes, PoolStarts
<1>4. ASSUME NEW s \in Slot, holder[s] = k \/ holder[s] = Nobody, Destroy(s), holder[s] = k \/ dpc'[k] = dpc[k] PROVE Slots
  <2>1. k \notin Tx /\ Nobody \notin Tx /\ Nobody \notin DbCall
    OBVIOUS
  <2>2. crossed = {} => Apart'
    <3>1. \A x \in DbCall : x # holder[s] => dpc'[x] = dpc[x]
      BY <1>4
    <3> QED BY <1>1, <1>4, <2>1, <3>1, DestroyKeeps DEF PoolInv
  <2>3. \A u \in Slot : holder'[u] \in {Nobody, holder[u]}
    BY <1>1, <1>4, Destruction
  <2>4. \A t \in Tx : Sent(t)'
    BY <1>1, <1>4, Destruction, SentStays
  <2> QED BY <1>1, <1>4, <2>2, <2>3, <2>4, Destruction DEF PoolStarts
<1>5. ASSUME NEW s \in Available, Taken(s, k), Keep, dpc[k] \notin InHand, dpc'[k] \in InHand PROVE Slots
  <2>1. k \notin Tx /\ UNCHANGED <<tslot, line, work>> /\ pool = "live"
    BY <1>5 DEF Keep, Available
  <2>2. crossed = {} => Apart'
    BY <1>1, <1>5, <2>1, TakenKeeps DEF PoolInv
  <2>3. holder' \in [Slot -> DbCall \cup Tx \cup {Nobody}] /\ cond' \in [Slot -> {"none", "clean", "tx", "broken"}]
    BY <1>1, <1>5, <2>1 DEF Taken, DbTypes
  <2> QED BY <1>1, <2>1, <2>2, <2>3, SentStays DEF DbTypes
<1>6. Slots
  BY <1>2, <1>3, <1>4, <1>5 DEF Mine, Available
<1>7. DbTypes'
  BY <1>1, <1>6 DEF DbTypes, dbConf
<1>8. PoolStarts'
  BY <1>6 DEF PoolStarts
<1>9. \A x \in DbCall : CallRuns(x)'
  BY DEF PoolInv, CallRuns
<1> QED BY <1>6, <1>7, <1>8, <1>9 DEF PoolInv

-----------------------------------------------------------------------------
(* The steps of a call.                                                    *)
CallsTyped ==
  /\ dop \in [DbCall -> Ops \cup {"none"}] /\ unit \in [DbCall -> 0 .. 5] /\ again \subseteq DbCall /\ late \subseteq DbCall
  /\ answer \in [DbCall -> {"none", "ok", "failed"}]
  /\ dpc \in [DbCall -> {"idle", "checkout", "ping", "stmt", "reset", "resetdead", "end"}]

(* The call moves on within its script.                                    *)
LEMMA CallMoves ==
  ASSUME PoolInv, NEW k \in DbCall, dpc[k] # "idle", dop' = dop, late' \subseteq DbCall,
         \/ \E good \in BOOLEAN : UnitOver(k, good)
         \/ /\ \E at \in {"checkout", "ping", "stmt", "reset", "resetdead", "end"} : dpc' = [dpc EXCEPT ![k] = at]
            /\ again' \subseteq DbCall /\ UNCHANGED <<unit, answer>>
  PROVE  /\ CallsTyped' /\ (\A x \in DbCall \ {k} : dpc'[x] = dpc[x] /\ dop'[x] = dop[x]) /\ CallRuns(k)'
<1>1. CallRuns(k) /\ DbTypes
  BY DEF PoolInv
<1>2. dop[k] \in Ops
  BY <1>1 DEF CallRuns
<1>3. CallRuns(k)'
  BY <1>2 DEF CallRuns
<1>4. \E at \in {"checkout", "ping", "stmt", "reset", "resetdead", "end"} : dpc' = [dpc EXCEPT ![k] = at]
  BY <1>1, UnitOverDoes
<1>5. unit' \in [DbCall -> 0 .. 5] /\ again' \subseteq DbCall /\ answer' \in [DbCall -> {"none", "ok", "failed"}]
  BY <1>1, UnitOverDoes DEF DbTypes
<1>6. /\ dpc' \in [DbCall -> {"idle", "checkout", "ping", "stmt", "reset", "resetdead", "end"}]
      /\ \A x \in DbCall \ {k} : dpc'[x] = dpc[x]
  BY <1>1, <1>4 DEF DbTypes
<1> QED BY <1>1, <1>3, <1>5, <1>6 DEF CallsTyped, DbTypes

(* ... while the record stays as it is.                                    *)
LEMMA CallStaysPut ==
  ASSUME PoolInv, NEW k \in DbCall, UNCHANGED <<dbConf, recVars, begun, txMap, waits, crossed, told, due>>,
         CallsTyped', \A x \in DbCall \ {k} : dpc'[x] = dpc[x] /\ dop'[x] = dop[x], CallRuns(k)',
         \/ UNCHANGED slotVars /\ Keep /\ (crossed = {} => Mine(k) = {} \/ dpc'[k] = dpc[k] \/ dpc'[k] \in InHand)
         \/ \E s \in Mine(k) : Released(s) /\ Keep
         \/ \E s \in Mine(k) : Destroy(s)
         \/ dpc'[k] = dpc[k] /\ \E s \in Available : Destroy(s)
         \/ dpc[k] \notin InHand /\ dpc'[k] \in InHand /\ Keep /\ \E s \in Available : Taken(s, k)
  PROVE  PoolInv'
<1>1. /\ rec' = rec /\ tunnel' = tunnel /\ pool' = pool /\ closing' = closing
      /\ TunnelIsOwned /\ PoolStarts /\ DbTypes
  BY DEF recVars, PoolInv
<1>2. TunnelIsOwned' /\ (rec' \in {"none", "connecting"} => pool' = "none") /\ (pool' = "none" => pool = "none")
  BY <1>1 DEF TunnelIsOwned, PoolStarts
<1>3. /\ rec' \in {"none", "connecting", "open", "gone"} /\ tunnel' \in BOOLEAN /\ closing' \in {"no", "cleaning", "ending", "done"}
      /\ pool' \in {"none", "live", "ended"}
  BY <1>1 DEF DbTypes
<1> QED BY <1>2, <1>3, CallKeeps DEF CallsTyped

LEMMA StartCallKeeps ==
  ASSUME PoolInv, NEW k \in DbCall, StartCall(k)
  PROVE  PoolInv'
<1> USE PoolAssumption
<1>1. dpc[k] = "idle" /\ UNCHANGED <<dbConf, recVars, slotVars, again, late, txVars>> /\ DbTypes
  BY DEF StartCall, PoolInv
<1>2. PICK o \in Menu[k] :
        /\ dop' = [dop EXCEPT ![k] = o]
        /\ \/ Refuse(k) /\ UNCHANGED unit
           \/ /\ unit' = [unit EXCEPT ![k] = 1] /\ UNCHANGED answer
              /\ dpc' = [dpc EXCEPT ![k] = FirstPc(Script(o, engine)[1])]
  BY DEF StartCall
<1>3. o \in Ops
  <2>1. Menu[k] \subseteq Ops
    OBVIOUS
  <2> QED BY <2>1
<1>4. PICK at \in {"end", "checkout", "stmt"} : dpc' = [dpc EXCEPT ![k] = at]
  <2>1. CASE Refuse(k)
    BY <2>1 DEF Refuse
  <2>2. CASE dpc' = [dpc EXCEPT ![k] = FirstPc(Script(o, engine)[1])]
    <3>1. FirstPc(Script(o, engine)[1]) \in {"end", "checkout", "stmt"}
      BY DEF FirstPc
    <3> QED BY <2>2, <3>1
  <2> QED BY <1>2, <2>1, <2>2
<1>5. dop' \in [DbCall -> Ops \cup {"none"}] /\ dop'[k] = o
  BY <1>1, <1>2, <1>3 DEF DbTypes
<1>6. unit' \in [DbCall -> 0 .. 5] /\ answer' \in [DbCall -> {"none", "ok", "failed"}]
  <2>1. CASE Refuse(k) /\ UNCHANGED unit
    BY <1>1, <2>1 DEF DbTypes, Refuse
  <2>2. CASE unit' = [unit EXCEPT ![k] = 1] /\ UNCHANGED answer
    BY <1>1, <2>2 DEF DbTypes
  <2> QED BY <1>2, <2>1, <2>2
<1>7. CallsTyped'
  BY <1>1, <1>4, <1>5, <1>6 DEF CallsTyped, DbTypes
<1>8. (\A x \in DbCall \ {k} : dpc'[x] = dpc[x] /\ dop'[x] = dop[x]) /\ CallRuns(k)'
  BY <1>1, <1>2, <1>3, <1>4, <1>5 DEF DbTypes, CallRuns
<1>9. crossed = {} => Mine(k) = {}
  <2>1. crossed = {} => \A s \in Slot : holder[s] # k
    BY <1>1 DEF PoolInv, Apart, Held, InHand
  <2> QED BY <2>1 DEF Mine
<1> QED BY <1>1, <1>7, <1>8, <1>9, CallStaysPut DEF txVars, Keep

(* A call that waits for a connection has none.                            *)
LEMMA WaitsBare ==
  ASSUME PoolInv, NEW k \in DbCall, dpc[k] \notin InHand, crossed = {}
  PROVE  Mine(k) = {}
<1>1. \A s \in Slot : holder[s] # k
  BY DEF PoolInv, Apart, Held
<1> QED BY <1>1 DEF Mine

LEMMA CheckoutsKeep ==
  ASSUME PoolInv, NEW k \in DbCall, Checkout(k) \/ CheckoutLost(k) \/ LateCheckout(k)
  PROVE  PoolInv'
<1> USE PoolAssumption
<1>0. DbTypes /\ CallRuns(k)
  BY DEF PoolInv
<1>1. CASE Checkout(k)
  <2>1. /\ dpc[k] = "checkout" /\ UNCHANGED <<dbConf, recVars, dop, unit, again, answer, late, txVars>>
        /\ \E at \in {"stmt", "ping"} : dpc' = [dpc EXCEPT ![k] = at]
        /\ \E s \in Available : Taken(s, k)
    BY <1>1 DEF Checkout
  <2>2. dpc[k] \notin InHand /\ dpc'[k] \in InHand
    BY <1>0, <2>1 DEF InHand, DbTypes
  <2>3. /\ CallsTyped' /\ (\A x \in DbCall \ {k} : dpc'[x] = dpc[x] /\ dop'[x] = dop[x]) /\ CallRuns(k)'
    BY <1>0, <2>1, CallMoves DEF DbTypes
  <2> QED BY <2>1, <2>2, <2>3, CallStaysPut DEF txVars, Keep
<1>2. CASE CheckoutLost(k)
  <2>1. /\ dpc[k] = "checkout" /\ UnitOver(k, FALSE) /\ dop' = dop /\ late' \subseteq DbCall
        /\ UNCHANGED <<dbConf, recVars, slotVars, txVars>>
    BY <1>0, <1>2 DEF CheckoutLost, UnitOver, DbTypes
  <2>2. crossed = {} => Mine(k) = {}
    BY <2>1, WaitsBare DEF InHand
  <2>3. /\ CallsTyped' /\ (\A x \in DbCall \ {k} : dpc'[x] = dpc[x] /\ dop'[x] = dop[x]) /\ CallRuns(k)'
    BY <2>1, CallMoves
  <2> QED BY <2>1, <2>2, <2>3, CallStaysPut DEF txVars, Keep
<1>3. CASE LateCheckout(k)
  <2>1. /\ late' \subseteq DbCall /\ UNCHANGED <<dbConf, recVars, dop, dpc, unit, again, answer, begun, txMap, waits, crossed, told, due>>
        /\ (\E s \in Available : Destroy(s)) \/ (UNCHANGED slotVars /\ Keep)
    BY <1>0, <1>3 DEF LateCheckout, DbTypes
  <2>2. CallsTyped' /\ CallRuns(k)'
    BY <1>0, <2>1 DEF CallsTyped, DbTypes, CallRuns
  <2> QED BY <2>1, <2>2, CallStaysPut
<1> QED BY <1>1, <1>2, <1>3

LEMMA PingsKeep ==
  ASSUME PoolInv, NEW k \in DbCall, PingOk(k) \/ PingFails(k)
  PROVE  PoolInv'
<1> USE PoolAssumption
<1>0. DbTypes /\ CallRuns(k) /\ dpc[k] = "ping"
  BY DEF PoolInv, PingOk, PingFails
<1>1. CASE PingOk(k)
  <2>1. /\ dpc' = [dpc EXCEPT ![k] = "stmt"] /\ UNCHANGED <<dbConf, recVars, slotVars, dop, unit, again, answer, late, txVars>>
    BY <1>1 DEF PingOk
  <2>2. /\ CallsTyped' /\ (\A x \in DbCall \ {k} : dpc'[x] = dpc[x] /\ dop'[x] = dop[x]) /\ CallRuns(k)'
    BY <1>0, <2>1, CallMoves DEF DbTypes
  <2>3. dpc'[k] \in InHand
    BY <1>0, <2>1 DEF InHand, DbTypes
  <2> QED BY <2>1, <2>2, <2>3, CallStaysPut DEF txVars, Keep
<1>2. CASE PingFails(k)
  <2>1. /\ UNCHANGED <<dbConf, recVars, late, begun, txMap, waits, crossed, told, due>>
        /\ (\E s \in Mine(k) : Destroy(s)) \/ (Mine(k) = {} /\ UNCHANGED slotVars /\ Keep)
    BY <1>2 DEF PingFails
  <2>2. dop' = dop
    BY <1>2 DEF PingFails, UnitOver
  <2>3. \/ UnitOver(k, FALSE)
        \/ dpc' = [dpc EXCEPT ![k] = "checkout"] /\ again' \subseteq DbCall /\ UNCHANGED <<unit, answer>>
    <3>1. \/ UnitOver(k, FALSE)
          \/ dpc' = [dpc EXCEPT ![k] = "checkout"] /\ again' = again \cup {k} /\ UNCHANGED <<unit, answer>>
      BY <1>2 DEF PingFails
    <3>2. again \cup {k} \subseteq DbCall
      BY <1>0 DEF DbTypes
    <3> QED BY <3>1, <3>2
  <2>4. late' \subseteq DbCall
    BY <1>0, <2>1 DEF DbTypes
  <2>5. /\ CallsTyped' /\ (\A x \in DbCall \ {k} : dpc'[x] = dpc[x] /\ dop'[x] = dop[x]) /\ CallRuns(k)'
    BY <1>0, <2>2, <2>3, <2>4, CallMoves
  <2> QED BY <2>1, <2>5, CallStaysPut
<1> QED BY <1>1, <1>2

LEMMA StmtDoneKeeps ==
  ASSUME PoolInv, NEW k \in DbCall, StmtDone(k)
  PROVE  PoolInv'
<1> USE PoolAssumption
<1>0. /\ DbTypes /\ CallRuns(k) /\ dpc[k] = "stmt"
      /\ UNCHANGED <<dbConf, recVars, late, begun, txMap, waits, crossed, told, due>>
  BY DEF PoolInv, StmtDone
<1>1. late' \subseteq DbCall
  BY <1>0 DEF DbTypes
<1>2. CASE dpc' = [dpc EXCEPT ![k] = "reset"] /\ UNCHANGED <<dop, unit, again, answer, slotVars>> /\ Keep
  <2>1. /\ CallsTyped' /\ (\A x \in DbCall \ {k} : dpc'[x] = dpc[x] /\ dop'[x] = dop[x]) /\ CallRuns(k)'
    BY <1>0, <1>1, <1>2, CallMoves DEF DbTypes
  <2>2. dpc'[k] \in InHand
    BY <1>0, <1>2 DEF InHand, DbTypes
  <2> QED BY <1>0, <1>2, <2>1, <2>2, CallStaysPut
<1>3. CASE /\ \E good \in BOOLEAN : UnitOver(k, good)
           /\ \/ \E s \in Mine(k) : Released(s) /\ Keep
              \/ \E s \in Mine(k) : Destroy(s)
              \/ Mine(k) = {} /\ UNCHANGED slotVars /\ Keep
  <2>1. dop' = dop
    BY <1>3 DEF UnitOver
  <2>2. /\ CallsTyped' /\ (\A x \in DbCall \ {k} : dpc'[x] = dpc[x] /\ dop'[x] = dop[x]) /\ CallRuns(k)'
    BY <1>0, <1>1, <1>3, <2>1, CallMoves
  <2> QED BY <1>0, <1>3, <2>2, CallStaysPut
<1> QED BY <1>2, <1>3 DEF StmtDone

LEMMA ResetEndsKeeps ==
  ASSUME PoolInv, NEW k \in DbCall, ResetEnds(k)
  PROVE  PoolInv'
<1> USE PoolAssumption
<1>0. /\ DbTypes /\ CallRuns(k) /\ dpc[k] # "idle"
      /\ UNCHANGED <<dbConf, recVars, late, begun, txMap, waits, crossed, told, due>>
  BY DEF PoolInv, ResetEnds
<1>1. late' \subseteq DbCall
  BY <1>0 DEF DbTypes
<1>2. /\ \E good \in BOOLEAN : UnitOver(k, good)
      /\ (\E s \in Mine(k) : Released(s) /\ Keep) \/ (\E s \in Mine(k) : Destroy(s))
  BY DEF ResetEnds
<1>3. dop' = dop
  BY <1>2 DEF UnitOver
<1>4. /\ CallsTyped' /\ (\A x \in DbCall \ {k} : dpc'[x] = dpc[x] /\ dop'[x] = dop[x]) /\ CallRuns(k)'
  BY <1>0, <1>1, <1>2, <1>3, CallMoves
<1> QED BY <1>0, <1>2, <1>4, CallStaysPut

LEMMA StmtLostKeeps ==
  ASSUME PoolInv, NEW k \in DbCall, StmtLost(k)
  PROVE  PoolInv'
<1> USE PoolAssumption
<1>0. /\ DbTypes /\ CallRuns(k) /\ dpc[k] = "stmt"
      /\ UNCHANGED <<dbConf, late, begun, txMap, waits, crossed, told, due>>
  BY DEF PoolInv, StmtLost
<1>1. late' \subseteq DbCall
  BY <1>0 DEF DbTypes
<1>2. CASE dpc' = [dpc EXCEPT ![k] = "resetdead"] /\ UNCHANGED <<recVars, dop, unit, again, answer, slotVars>> /\ Keep
  <2>1. /\ CallsTyped' /\ (\A x \in DbCall \ {k} : dpc'[x] = dpc[x] /\ dop'[x] = dop[x]) /\ CallRuns(k)'
    BY <1>0, <1>1, <1>2, CallMoves DEF DbTypes
  <2>2. dpc'[k] \in InHand
    BY <1>0, <1>2 DEF InHand, DbTypes
  <2> QED BY <1>0, <1>2, <2>1, <2>2, CallStaysPut
<1>3. CASE /\ UnitOver(k, FALSE) /\ UNCHANGED recVars
           /\ (\E s \in Mine(k) : Destroy(s)) \/ (Mine(k) = {} /\ UNCHANGED slotVars /\ Keep)
  <2>1. dop' = dop
    BY <1>3 DEF UnitOver
  <2>2. /\ CallsTyped' /\ (\A x \in DbCall \ {k} : dpc'[x] = dpc[x] /\ dop'[x] = dop[x]) /\ CallRuns(k)'
    BY <1>0, <1>1, <1>3, <2>1, CallMoves
  <2> QED BY <1>0, <1>3, <2>2, CallStaysPut
<1>4. CASE /\ UnitOver(k, FALSE) /\ Mine(k) = {} /\ UNCHANGED slotVars /\ Keep
           /\ rec = "open" /\ DropRecord /\ UNCHANGED closing
  <2>1. dop' = dop
    BY <1>4 DEF UnitOver
  <2>2. /\ CallsTyped' /\ (\A x \in DbCall \ {k} : dpc'[x] = dpc[x] /\ dop'[x] = dop[x]) /\ CallRuns(k)'
    BY <1>0, <1>1, <1>4, <2>1, CallMoves
  <2>3. /\ rec' = "gone" /\ tunnel' = FALSE /\ pool' \in {"ended", pool} /\ closing' = closing
    BY <1>4 DEF DropRecord
  <2>4. TunnelIsOwned'
    BY <2>3 DEF TunnelIsOwned
  <2>5. pool' \in {"none", "live", "ended"} /\ closing' \in {"no", "cleaning", "ending", "done"}
    BY <1>0, <2>3 DEF DbTypes
  <2> QED BY <1>0, <1>4, <2>2, <2>3, <2>4, <2>5, CallKeeps DEF CallsTyped
<1> QED BY <1>2, <1>3, <1>4 DEF StmtLost

-----------------------------------------------------------------------------
(* A command goes out on the connections of some open transactions.        *)
LEMMA SendKeeps ==
  ASSUME PoolInv, NEW S \in SUBSET txMap, NEW a \in Activities, Send(S, a),
         UNCHANGED <<engine, holder, cond, dpc, begun, tslot, told, work>>,
         a = "dispose" => txMap' = txMap \ S, a # "dispose" => txMap' = txMap /\ \A t \in S : a \notin waits[t]
  PROVE  /\ line' \in [Tx -> Seq(Activities)] /\ waits' \in [Tx -> SUBSET Activities] /\ crossed' \subseteq Tx
         /\ \A t \in Tx : Sent(t)'
         /\ crossed' = {} => Apart'
<1> USE PoolAssumption
<1>1. DbTypes /\ S \subseteq Tx
  BY DEF PoolInv, DbTypes
<1>2. /\ line' = [t \in Tx |-> IF t \in S /\ tslot[t] # NoSlot THEN Append(line[t], a) ELSE line[t]]
      /\ waits' = [t \in Tx |-> IF t \in S THEN waits[t] \cup {a} ELSE waits[t]]
      /\ crossed' = crossed \cup {t \in S : waits[t] # {}}
  BY DEF Send
<1>3. \A t \in Tx : line[t] \in Seq(Activities) /\ Append(line[t], a) \in Seq(Activities) /\ waits[t] \in SUBSET Activities
  BY <1>1 DEF DbTypes
<1>4. line' \in [Tx -> Seq(Activities)]
  BY <1>2, <1>3
<1>5. waits' \in [Tx -> SUBSET Activities] /\ crossed' \subseteq Tx
  BY <1>1, <1>2, <1>3 DEF DbTypes
<1>6. ASSUME NEW t \in Tx PROVE Sent(t)'
  <2>1. Sent(t)
    BY DEF PoolInv
  <2>2. CASE t \notin S
    BY <1>2, <2>1, <2>2 DEF Sent
  <2>3. CASE t \in S
    <3>1. t \in txMap /\ begun[t] = "made" /\ waits'[t] = waits[t] \cup {a} /\ a \notin waits[t]
          /\ "dispose" \notin waits[t] /\ \A i \in 1 .. Len(line[t]) : line[t][i] \in waits[t]
      BY <1>2, <2>1, <2>3 DEF Sent
    <3>2. CASE tslot[t] = NoSlot
      <4>1. line'[t] = line[t]
        BY <1>2, <3>2
      <4> QED BY <1>2, <2>1, <2>3, <3>1, <3>2, <4>1 DEF Sent
    <3>3. CASE tslot[t] # NoSlot
      <4>1. PICK n \in Nat : n = Len(line[t])
        BY <1>3
      <4>2. line'[t] = Append(line[t], a)
        BY <1>2, <2>3, <3>3
      <4>3. /\ Len(line'[t]) = n + 1 /\ line'[t][n + 1] = a /\ \A i \in 1 .. n : line'[t][i] = line[t][i]
        BY <1>3, <4>1, <4>2
      <4>4. \A i, j \in 1 .. n : line[t][i] = line[t][j] => i = j
        BY <2>1, <4>1 DEF Sent
      <4>5. \A i \in 1 .. n : line[t][i] # a
        BY <3>1, <4>1
      <4>6. \A i, j \in 1 .. (n + 1) : line'[t][i] = line'[t][j] => i = j
        <5> SUFFICES ASSUME NEW i \in 1 .. (n + 1), NEW j \in 1 .. (n + 1), line'[t][i] = line'[t][j] PROVE i = j
          OBVIOUS
        <5>1. i \in 1 .. n \/ i = n + 1
          OBVIOUS
        <5>2. j \in 1 .. n \/ j = n + 1
          OBVIOUS
        <5> QED BY <4>3, <4>4, <4>5, <5>1, <5>2
      <4>7. \A i \in 1 .. (n + 1) : line'[t][i] \in waits'[t]
        BY <3>1, <4>1, <4>3
      <4>8. t \in txMap' => "dispose" \notin waits'[t]
        BY <2>3, <3>1
      <4> QED BY <3>1, <3>3, <4>3, <4>6, <4>7, <4>8 DEF Sent
    <3> QED BY <3>2, <3>3
  <2> QED BY <2>2, <2>3
<1>7. ASSUME crossed' = {} PROVE Apart'
  <2>1. crossed = {} /\ Apart /\ Held /\ \A t \in S : waits[t] = {}
    BY <1>2, <1>7 DEF PoolInv, Apart
  <2>2. ASSUME NEW t \in S
        PROVE  /\ HasTx(t) /\ HasTx(t)' /\ Started(t) /\ begun[t] = "made"
               /\ waits'[t] = {a} /\ line'[t] = <<a>> /\ line[t] = <<>>
               /\ tslot[t] \in Slot /\ holder[tslot[t]] = t
    <3>1. t \in txMap /\ HasTx(t) /\ Started(t) /\ waits[t] = {} /\ waits'[t] = {a}
      BY <1>1, <1>2, <2>1 DEF HasTx, Started
    <3>2. tslot[t] \in Slot /\ holder[tslot[t]] = t /\ Flight(t) /\ Sent(t)
      BY <1>1, <2>1, <3>1 DEF Held, Apart, PoolInv
    <3>3. line[t] = <<>> /\ begun[t] = "made"
      BY <3>1, <3>2 DEF Flight, Sent
    <3>4. line'[t] = <<a>>
      <4>1. t \in Tx /\ tslot[t] # NoSlot
        BY <1>1, <3>2
      <4>2. line'[t] = Append(line[t], a)
        BY <1>2, <4>1
      <4>3. Append(<<>>, a) = <<a>>
        OBVIOUS
      <4> QED BY <3>3, <4>2, <4>3
    <3> QED BY <3>1, <3>2, <3>3, <3>4 DEF HasTx
  <2>3. \A t \in Tx \ S : line'[t] = line[t] /\ waits'[t] = waits[t] /\ (t \in txMap' <=> t \in txMap)
    BY <1>2
  <2>4. \A t \in Tx : (HasTx(t)' <=> HasTx(t)) /\ (Started(t)' <=> Started(t))
    <3>1. \A t \in Tx \ S : (HasTx(t)' <=> HasTx(t)) /\ (Started(t)' <=> Started(t))
      BY <2>3 DEF HasTx, Started
    <3>2. \A t \in S : Started(t)'
      BY <2>2 DEF Started
    <3> QED BY <2>2, <3>1, <3>2
  <2>5. Held'
    <3>1. \A s \in Slot : holder'[s] \in Tx => tslot'[holder'[s]] = s /\ HasTx(holder[s])'
      <4> SUFFICES ASSUME NEW s \in Slot, NEW t \in Tx, t = holder[s] PROVE tslot'[t] = s /\ HasTx(t)'
        BY DEF HasTx
      <4> QED BY <2>1, <2>4 DEF Held
    <3> QED BY <2>1, <2>4, <3>1 DEF Held
  <2>6. \A s \in Slot : Seen(s)'
    <3>1. \A x \in Tx : RollingBack(x) => RollingBack(x)'
      <4> SUFFICES ASSUME NEW x \in Tx, RollingBack(x) PROVE RollingBack(x)'
        OBVIOUS
      <4>1. x \notin S
        BY <2>2 DEF RollingBack
      <4> QED BY <2>3, <4>1 DEF RollingBack
    <3> QED BY <2>1, <3>1 DEF Apart, Seen, InTx
  <2>7. ASSUME NEW t \in Tx PROVE Flight(t)'
    <3>1. CASE t \in S
      <4>1. a = "dispose" \/ t \in txMap'
        BY <3>1
      <4> QED BY <2>2, <3>1, <4>1 DEF Flight
    <3>2. CASE t \notin S
      BY <2>1, <2>3, <3>2 DEF Apart, Flight
    <3> QED BY <3>1, <3>2
  <2>8. ASSUME NEW t \in Tx PROVE Works(t)'
    <3> SUFFICES ASSUME Started(t)' PROVE Works(t)'
      BY DEF Works
    <3>1. Started(t) /\ Works(t) /\ HasTx(t) /\ holder[tslot[t]] = t
      BY <2>1, <2>4 DEF Apart, Held, Started, HasTx
    <3>2. ASSUME NEW x \in OnSlot(tslot[t]) \ {t} PROVE line'[x] = <<>>
      <4>1. x \in Tx /\ tslot[x] = tslot[t] /\ line[x] = <<>>
        BY <3>1 DEF Works, OnSlot
      <4>2. x \notin S
        BY <2>2, <3>1, <4>1
      <4> QED BY <2>3, <4>1, <4>2
    <3> QED BY <3>1, <3>2 DEF Works, InTx, OnSlot
  <2>9. ASSUME NEW t \in Tx PROVE Reported(t)'
    <3>1. Reported(t)
      BY <2>1 DEF Apart
    <3>2. CASE t \in S
      <4>1. told[t] \cap Finishing = {}
        BY <2>2, <3>1, <3>2 DEF Reported
      <4> QED BY <3>1, <4>1 DEF Reported
    <3>3. CASE t \notin S
      BY <2>3, <2>4, <3>1, <3>3 DEF Reported
    <3> QED BY <3>2, <3>3
  <2> QED BY <2>5, <2>6, <2>7, <2>8, <2>9 DEF Apart
<1> QED BY <1>4, <1>5, <1>6, <1>7

(* Requests, the idle timer, the loss of the transport and disconnect.     *)
LEMMA RequestsKeep ==
  ASSUME PoolInv, UNCHANGED <<dbConf, slotVars, callVars, begun, tslot, told, work>>, NEW S \in SUBSET txMap, NEW a \in Activities,
         Send(S, a), a = "dispose" => txMap' = txMap \ S, a # "dispose" => txMap' = txMap /\ \A t \in S : a \notin waits[t],
         due' \subseteq Tx,
         rec' \in {"none", "connecting", "open", "gone"}, tunnel' \in BOOLEAN, closing' \in {"no", "cleaning", "ending", "done"},
         pool' \in {"none", "live", "ended"}, TunnelIsOwned',
         rec' \in {"none", "connecting"} => pool' = "none", pool' = "none" => pool = "none"
  PROVE  PoolInv'
<1>1. UNCHANGED <<engine, tunneled, holder, cond, dop, dpc, unit, again, answer, late, begun, tslot, told, work>>
  BY DEF dbConf, slotVars, callVars
<1>2. /\ line' \in [Tx -> Seq(Activities)] /\ waits' \in [Tx -> SUBSET Activities] /\ crossed' \subseteq Tx
      /\ (\A t \in Tx : Sent(t)') /\ (crossed' = {} => Apart')
  BY <1>1, SendKeeps
<1>3. DbTypes /\ txMap' \subseteq Tx
  BY DEF PoolInv, DbTypes
<1>4. DbTypes'
  BY <1>1, <1>2, <1>3 DEF DbTypes
<1>5. PoolStarts' /\ \A k \in DbCall : CallRuns(k)'
  BY <1>1 DEF PoolInv, PoolStarts, CallRuns
<1> QED BY <1>2, <1>4, <1>5 DEF PoolInv

LEMMA RecordStays ==
  ASSUME PoolInv, UNCHANGED recVars
  PROVE  /\ rec' \in {"none", "connecting", "open", "gone"} /\ tunnel' \in BOOLEAN /\ closing' \in {"no", "cleaning", "ending", "done"}
         /\ pool' \in {"none", "live", "ended"} /\ TunnelIsOwned'
         /\ (rec' \in {"none", "connecting"} => pool' = "none") /\ (pool' = "none" => pool = "none")
<1>1. /\ rec' = rec /\ tunnel' = tunnel /\ pool' = pool /\ closing' = closing
      /\ TunnelIsOwned /\ PoolStarts /\ DbTypes
  BY DEF recVars, PoolInv
<1> QED BY <1>1 DEF TunnelIsOwned, PoolStarts, DbTypes

LEMMA TxRequestsKeep ==
  ASSUME PoolInv, NEW t \in Tx, IdleTimeout(t) \/ DisposeNext(t) \/ \E a \in Activities : TxRequest(t, a)
  PROVE  PoolInv'
<1>1. "dispose" \in Activities /\ due \subseteq Tx /\ {t} \cap txMap \subseteq txMap
  BY DEF Activities, Finishing, PoolInv, DbTypes
<1>2. CASE IdleTimeout(t)
  <2>1. {t} \subseteq txMap /\ txMap' = txMap \ {t} /\ Send({t}, "dispose") /\ due' \subseteq Tx
        /\ UNCHANGED <<dbConf, recVars, slotVars, callVars, begun, tslot, told, work>>
    BY <1>1, <1>2 DEF IdleTimeout, Dispose
  <2> QED BY <1>1, <2>1, RecordStays, RequestsKeep
<1>3. CASE DisposeNext(t)
  <2>1. /\ txMap' = txMap \ ({t} \cap txMap) /\ Send({t} \cap txMap, "dispose") /\ due' \subseteq Tx
        /\ UNCHANGED <<dbConf, recVars, slotVars, callVars, begun, tslot, told, work>>
    BY <1>1, <1>3 DEF DisposeNext, Dispose
  <2> QED BY <1>1, <2>1, RecordStays, RequestsKeep
<1>4. ASSUME NEW a \in Activities, TxRequest(t, a) PROVE PoolInv'
  <2>1. /\ {t} \subseteq txMap /\ txMap' = txMap /\ Send({t}, a) /\ due' \subseteq Tx /\ a # "dispose" /\ a \notin waits[t]
        /\ UNCHANGED <<dbConf, recVars, slotVars, callVars, begun, tslot, told, work>>
    BY <1>1, <1>4 DEF TxRequest
  <2> QED BY <2>1, RecordStays, RequestsKeep
<1> QED BY <1>2, <1>3, <1>4

LEMMA RecordKeeps ==
  ASSUME PoolInv, TransportLoss \/ Disconnect
  PROVE  PoolInv'
<1>1. "dispose" \in Activities /\ due \subseteq Tx /\ txMap \subseteq Tx /\ DbTypes /\ PoolStarts /\ TunnelIsOwned
  BY DEF Activities, Finishing, PoolInv, DbTypes
<1>2. CASE TransportLoss
  <2>1. /\ rec' = "gone" /\ tunnel' = FALSE /\ pool' \in {"ended", pool} /\ closing' = closing
        /\ txMap' = txMap \ txMap /\ Send(txMap, "dispose") /\ due' \subseteq Tx
        /\ UNCHANGED <<dbConf, slotVars, callVars, begun, tslot, told, work>> /\ rec = "open"
    BY <1>1, <1>2 DEF TransportLoss, LosesTransport, DropRecord, Dispose
  <2>2. TunnelIsOwned' /\ pool' \in {"none", "live", "ended"} /\ closing' \in {"no", "cleaning", "ending", "done"}
        /\ (pool' = "none" => pool = "none")
    BY <1>1, <2>1 DEF TunnelIsOwned, DbTypes
  <2> QED BY <1>1, <2>1, <2>2, RequestsKeep
<1>3. CASE Disconnect
  <2>1. /\ rec = "open" /\ closing' = "cleaning"
        /\ UNCHANGED <<dbConf, rec, tunnel, pool, slotVars, callVars, begun, tslot, told, work>>
    BY <1>3 DEF Disconnect
  <2>2. /\ rec' = "open" /\ tunnel' \in BOOLEAN /\ pool' \in {"none", "live", "ended"} /\ TunnelIsOwned'
        /\ (pool' = "none" => pool = "none")
    BY <1>1, <2>1 DEF TunnelIsOwned, DbTypes
  <2>3. ASSUME NEW t \in txMap, Dispose({t}), due' = txMap \ {t} PROVE PoolInv'
    <3>1. {t} \subseteq txMap /\ txMap' = txMap \ {t} /\ Send({t}, "dispose") /\ due' \subseteq Tx
      BY <1>1, <2>3 DEF Dispose
    <3> QED BY <1>1, <2>1, <2>2, <3>1, RequestsKeep
  <2>4. CASE UNCHANGED <<txMap, line, waits, crossed, due>>
    <3>1. UNCHANGED <<engine, tunneled, holder, cond, dop, dpc, unit, again, answer, late, begun, tslot, told, work>>
      BY <2>1 DEF dbConf, slotVars, callVars
    <3>2. DbTypes' /\ PoolStarts' /\ \A k \in DbCall : CallRuns(k)'
      BY <1>1, <2>1, <2>2, <2>4, <3>1 DEF DbTypes, PoolStarts, PoolInv, CallRuns
    <3>3. \A t \in Tx : Sent(t)'
      BY <2>4, <3>1, SentStays DEF PoolInv
    <3>4. crossed' = {} => Apart'
      BY <1>1, <2>4, <3>1, ApartStays DEF PoolInv
    <3> QED BY <2>2, <3>2, <3>3, <3>4 DEF PoolInv
  <2> QED BY <1>3, <2>3, <2>4 DEF Disconnect
<1> QED BY <1>2, <1>3

-----------------------------------------------------------------------------
(* The record, while calls and transactions stay where they are.           *)
LEMMA CondFades ==
  ASSUME DbTypes, Apart, UNCHANGED <<engine, holder, dpc, begun, txMap, tslot, line, waits, told, work>>,
         \A s \in Slot : cond'[s] = cond[s] \/ (holder[s] = Nobody /\ cond'[s] \in {"none", "clean"})
  PROVE  Apart'
<1> USE PoolAssumption
<1>1. Held
  BY DEF Apart
<1>2. \A t \in Tx : (HasTx(t)' <=> HasTx(t)) /\ (Started(t)' <=> Started(t))
  BY DEF HasTx, Started
<1>3. Held'
  <2>1. \A s \in Slot : holder'[s] \in Tx => tslot'[holder'[s]] = s /\ HasTx(holder[s])'
    BY <1>1 DEF Held, HasTx
  <2> QED BY <1>1, <1>2, <2>1 DEF Held
<1>4. ASSUME NEW s \in Slot PROVE Seen(s)'
  BY DEF Apart, Seen, InTx, RollingBack
<1>5. ASSUME NEW t \in Tx PROVE Flight(t)' /\ Reported(t)'
  BY <1>2 DEF Apart, Flight, Reported
<1>6. ASSUME NEW t \in Tx PROVE Works(t)'
  <2> SUFFICES ASSUME Started(t)' PROVE Works(t)'
    BY DEF Works
  <2>1. Works(t) /\ Started(t) /\ tslot[t] \in Slot /\ holder[tslot[t]] = t /\ t # Nobody
    BY <1>1, <1>2 DEF Apart, Held, Started, HasTx
  <2>2. cond'[tslot[t]] = cond[tslot[t]]
    BY <2>1
  <2> QED BY <2>1, <2>2 DEF Works, InTx, OnSlot
<1> QED BY <1>3, <1>4, <1>5, <1>6 DEF Apart

LEMMA RecordMoves ==
  ASSUME PoolInv, Connect \/ Connected \/ ConnectFails \/ EndPool \/ Disconnected
  PROVE  PoolInv'
<1> USE PoolAssumption
<1>1. DbTypes /\ PoolStarts /\ TunnelIsOwned
  BY DEF PoolInv
<1>2. UNCHANGED <<dbConf, holder, callVars, txVars>>
  BY DEF Connect, Connected, ConnectFails, EndPool, Disconnected, slotVars
<1>3. UNCHANGED <<engine, tunneled, holder, dop, dpc, unit, again, answer, late, begun, txMap, tslot, line, waits, crossed, told, work, due>>
  BY <1>2 DEF dbConf, callVars, txVars
<1>4. /\ rec' \in {"none", "connecting", "open", "gone"} /\ tunnel' \in BOOLEAN /\ pool' \in {"none", "live", "ended"}
      /\ closing' \in {"no", "cleaning", "ending", "done"} /\ TunnelIsOwned' /\ PoolStarts'
  <2>1. CASE Connect
    BY <1>1, <2>1 DEF Connect, DbTypes, TunnelIsOwned, PoolStarts, slotVars
  <2>2. CASE Connected
    BY <1>1, <2>2 DEF Connected, DbTypes, TunnelIsOwned, PoolStarts, slotVars
  <2>3. CASE ConnectFails
    BY <1>1, <2>3 DEF ConnectFails, DbTypes, TunnelIsOwned, PoolStarts, slotVars
  <2>4. CASE EndPool
    BY <1>1, <2>4 DEF EndPool, DbTypes, TunnelIsOwned, PoolStarts, slotVars
  <2>5. CASE Disconnected
    BY <1>1, <2>5 DEF Disconnected, DbTypes, TunnelIsOwned, PoolStarts, slotVars
  <2> QED BY <2>1, <2>2, <2>3, <2>4, <2>5
<1>5. /\ cond' \in [Slot -> {"none", "clean", "tx", "broken"}]
      /\ \A s \in Slot : cond'[s] = cond[s] \/ (holder[s] = Nobody /\ cond'[s] \in {"none", "clean"})
  <2>1. CASE Connect \/ ConnectFails \/ Disconnected
    BY <1>1, <2>1 DEF Connect, ConnectFails, Disconnected, slotVars, DbTypes
  <2>2. CASE Connected
    <3>1. \A s \in Slot : holder[s] = Nobody
      BY <1>1, <2>2 DEF Connected, PoolStarts
    <3>2. cond' = cond \/ \E s \in Slot : cond' = [cond EXCEPT ![s] = "clean"]
      BY <2>2 DEF Connected
    <3> QED BY <1>1, <3>1, <3>2 DEF DbTypes
  <2>3. CASE EndPool
    BY <1>1, <2>3 DEF EndPool, DbTypes
  <2> QED BY <2>1, <2>2, <2>3
<1>6. DbTypes'
  BY <1>1, <1>3, <1>4, <1>5 DEF DbTypes
<1>7. (\A k \in DbCall : CallRuns(k)') /\ \A t \in Tx : Sent(t)'
  BY <1>3 DEF PoolInv, CallRuns, Sent
<1>8. crossed' = {} => Apart'
  BY <1>1, <1>3, <1>5, CondFades DEF PoolInv
<1> QED BY <1>4, <1>6, <1>7, <1>8 DEF PoolInv

-----------------------------------------------------------------------------
(* dbTxBegin.                                                              *)
LEMMA BeginStays ==
  ASSUME DbTypes, Apart, UNCHANGED <<engine, holder, cond, dpc, txMap, tslot, line, waits, told, work>>,
         \A t \in Tx : begun'[t] = begun[t] \/ {begun[t], begun'[t]} \cap {"begin", "made"} = {}
  PROVE  Apart'
<1>1. Held
  BY DEF Apart
<1>2. \A t \in Tx : (HasTx(t)' <=> HasTx(t)) /\ (Started(t)' <=> Started(t))
  BY DEF HasTx, Started
<1>3. Held'
  <2>1. ASSUME NEW s \in Slot, holder'[s] \in Tx PROVE tslot'[holder'[s]] = s /\ HasTx(holder[s])'
    <3>1. PICK t \in Tx : t = holder[s] /\ t = holder'[s]
      BY <2>1
    <3>2. tslot[t] = s /\ HasTx(t)'
      BY <1>1, <1>2, <3>1 DEF Held
    <3> QED BY <3>1, <3>2 DEF HasTx
  <2> QED BY <1>1, <1>2, <2>1 DEF Held
<1>4. ASSUME NEW s \in Slot PROVE Seen(s)'
  <2>1. Seen(s) /\ \A x \in Tx : RollingBack(x) => RollingBack(x)'
    BY DEF Apart, RollingBack
  <2>2. \A x \in Tx : begun[x] = "made" => begun'[x] = "made"
    OBVIOUS
  <2> QED BY <2>1, <2>2 DEF Seen, InTx
<1>5. ASSUME NEW t \in Tx PROVE Flight(t)' /\ Works(t)' /\ Reported(t)'
  BY <1>2 DEF Apart, Flight, Works, Reported, InTx, OnSlot
<1> QED BY <1>3, <1>4, <1>5 DEF Apart

LEMMA TxBeginKeeps ==
  ASSUME PoolInv, NEW t \in Tx, TxBegin(t) \/ TxCheckout(t)
  PROVE  PoolInv'
<1> USE PoolAssumption
<1>1. /\ DbTypes /\ PoolStarts /\ UNCHANGED <<dbConf, recVars, callVars, txMap, line, waits, crossed, told, work, due>>
      /\ begun[t] \in {"none", "checkout"}
  BY DEF PoolInv, TxBegin, TxCheckout
<1>2. UNCHANGED <<engine, tunneled, rec, tunnel, pool, closing, dop, dpc, unit, again, answer, late>>
  BY <1>1 DEF dbConf, recVars, callVars
<1>3. t \notin txMap /\ waits[t] = {} /\ line[t] = <<>> /\ told[t] = {} /\ work[t] = "none" /\ Len(line[t]) = 0 /\ ~HasTx(t)
  BY <1>1 DEF PoolInv, Sent, HasTx
<1>4. ASSUME \/ UNCHANGED slotVars /\ tslot' = tslot /\ (begun' = [begun EXCEPT ![t] = "checkout"] \/ begun' = [begun EXCEPT ![t] = "failed"])
      PROVE PoolInv'
  <2>1. holder' = holder /\ cond' = cond /\ tslot' = tslot
    BY <1>4 DEF slotVars
  <2>2. begun' \in [Tx -> {"none", "checkout", "begin", "made", "failed"}] /\ begun'[t] \in {"checkout", "failed"}
        /\ \A x \in Tx \ {t} : begun'[x] = begun[x]
    BY <1>1, <1>4 DEF DbTypes
  <2>3. DbTypes' /\ PoolStarts' /\ TunnelIsOwned' /\ \A k \in DbCall : CallRuns(k)'
    BY <1>1, <1>2, <2>1, <2>2 DEF DbTypes, PoolInv, PoolStarts, TunnelIsOwned, CallRuns
  <2>4. Sent(t)'
    BY <1>1, <1>3, <2>1, <2>2 DEF Sent
  <2>5. \A x \in Tx \ {t} : Sent(x)'
    BY <1>1, <2>1, <2>2 DEF PoolInv, Sent
  <2>6. \A x \in Tx : begun'[x] = begun[x] \/ {begun[x], begun'[x]} \cap {"begin", "made"} = {}
    BY <1>1, <2>2
  <2>7. crossed' = {} => Apart'
    BY <1>1, <1>2, <2>1, <2>6, BeginStays DEF PoolInv
  <2> QED BY <2>3, <2>4, <2>5, <2>7 DEF PoolInv
<1>5. ASSUME NEW s \in Available, Taken(s, t), tslot' = [tslot EXCEPT ![t] = s], begun' = [begun EXCEPT ![t] = "begin"],
             begun[t] = "checkout"
      PROVE  PoolInv'
  <2>1. /\ begun' \in [Tx -> {"none", "checkout", "begin", "made", "failed"}] /\ tslot' \in [Tx -> Slot \cup {NoSlot}]
        /\ begun'[t] = "begin" /\ tslot'[t] = s /\ s \in Slot /\ pool = "live"
        /\ \A x \in Tx \ {t} : begun'[x] = begun[x] /\ tslot'[x] = tslot[x]
    BY <1>1, <1>5 DEF DbTypes, Available
  <2>2. holder' \in [Slot -> DbCall \cup Tx \cup {Nobody}] /\ cond' \in [Slot -> {"none", "clean", "tx", "broken"}]
    BY <1>1, <1>5, <2>1 DEF Taken, DbTypes
  <2>3. DbTypes' /\ PoolStarts' /\ TunnelIsOwned' /\ \A k \in DbCall : CallRuns(k)'
    BY <1>1, <1>2, <2>1, <2>2 DEF DbTypes, PoolInv, PoolStarts, TunnelIsOwned, CallRuns
  <2>4. Sent(t)'
    BY <1>1, <1>3, <2>1 DEF Sent
  <2>5. \A x \in Tx \ {t} : Sent(x)'
    BY <1>1, <2>1 DEF PoolInv, Sent
  <2>6. crossed' = {} => Apart'
    <3>1. \A k \in DbCall : k # t
      OBVIOUS
    <3> QED BY <1>1, <1>2, <1>3, <1>5, <2>1, <3>1, TakenKeeps DEF PoolInv
  <2> QED BY <2>3, <2>4, <2>5, <2>6 DEF PoolInv
<1> QED BY <1>1, <1>4, <1>5 DEF TxBegin, TxCheckout

LEMMA TxStartedKeeps ==
  ASSUME PoolInv, NEW t \in Tx, TxStarted(t)
  PROVE  PoolInv'
<1> USE PoolAssumption
<1>1. /\ DbTypes /\ PoolStarts /\ begun[t] = "begin" /\ Quiet(tslot[t])
      /\ cond' = [cond EXCEPT ![tslot[t]] = "tx"] /\ begun' = [begun EXCEPT ![t] = "made"] /\ txMap' = txMap \cup {t}
      /\ UNCHANGED <<dbConf, recVars, holder, callVars, tslot, line, waits, crossed, told, work, due>>
  BY DEF PoolInv, TxStarted
<1>2. UNCHANGED <<engine, tunneled, rec, tunnel, pool, closing, dop, dpc, unit, again, answer, late>>
  BY <1>1 DEF dbConf, recVars, callVars
<1>3. t \notin txMap /\ waits[t] = {} /\ line[t] = <<>> /\ told[t] = {} /\ work[t] = "none" /\ Len(line[t]) = 0 /\ HasTx(t)
  BY <1>1 DEF PoolInv, Sent, HasTx
<1>4. /\ begun' \in [Tx -> {"none", "checkout", "begin", "made", "failed"}] /\ txMap' \subseteq Tx
      /\ begun'[t] = "made" /\ \A x \in Tx \ {t} : begun'[x] = begun[x] /\ (x \in txMap' <=> x \in txMap)
      /\ cond' \in [Slot -> {"none", "clean", "tx", "broken"}] /\ \A s \in Slot : s # tslot[t] => cond'[s] = cond[s]
  BY <1>1 DEF DbTypes
<1>5. DbTypes' /\ PoolStarts' /\ TunnelIsOwned' /\ \A k \in DbCall : CallRuns(k)'
  BY <1>1, <1>2, <1>4 DEF DbTypes, PoolInv, PoolStarts, TunnelIsOwned, CallRuns
<1>6. Sent(t)'
  BY <1>1, <1>3, <1>4 DEF Sent
<1>7. \A x \in Tx \ {t} : Sent(x)'
  BY <1>1, <1>4 DEF PoolInv, Sent
<1>8. ASSUME crossed' = {} PROVE Apart'
  <2>1. crossed = {} /\ Apart /\ Held
    BY <1>1, <1>8 DEF PoolInv, Apart
  <2>2. \A x \in Tx : HasTx(x)' <=> HasTx(x)
    BY <1>1, <1>3, <1>4 DEF HasTx
  <2>3. tslot[t] \in Slot /\ holder[tslot[t]] = t /\ cond'[tslot[t]] = "tx"
    BY <1>1, <1>3, <2>1 DEF Held, DbTypes
  <2>4. Held'
    <3>1. ASSUME NEW s \in Slot, holder'[s] \in Tx PROVE tslot'[holder'[s]] = s /\ HasTx(holder[s])'
      <4>1. PICK x \in Tx : x = holder[s] /\ x = holder'[s]
        BY <1>1, <3>1
      <4>2. tslot'[x] = s /\ HasTx(x)'
        BY <1>1, <2>1, <2>2, <4>1 DEF Held
      <4> QED BY <4>1, <4>2 DEF HasTx
    <3> QED BY <1>1, <1>2, <2>1, <2>2, <3>1 DEF Held
  <2>5. ASSUME NEW s \in Slot PROVE Seen(s)'
    <3>1. CASE s = tslot[t]
      BY <1>1, <1>4, <2>3, <3>1 DEF Seen
    <3>2. CASE s # tslot[t]
      <4>1. Seen(s) /\ cond'[s] = cond[s]
        BY <1>4, <2>1, <3>2 DEF Apart
      <4>2. \A x \in Tx : RollingBack(x) => RollingBack(x)'
        BY <1>1, <1>2 DEF RollingBack
      <4>3. \A x \in Tx : begun[x] = "made" => begun'[x] = "made"
        BY <1>4
      <4> QED BY <1>1, <1>2, <4>1, <4>2, <4>3 DEF Seen, InTx
    <3> QED BY <3>1, <3>2
  <2>6. ASSUME NEW x \in Tx PROVE Flight(x)'
    BY <1>1, <1>2, <1>3, <1>4, <2>1 DEF Apart, Flight
  <2>7. Works(t)'
    <3>1. \A x \in OnSlot(tslot[t]) \ {t} : line[x] = <<>>
      BY <1>1 DEF Quiet
    <3> QED BY <1>1, <1>3, <2>3, <3>1 DEF Works, InTx, OnSlot
  <2>8. ASSUME NEW x \in Tx \ {t} PROVE Works(x)'
    <3> SUFFICES ASSUME Started(x)' PROVE Works(x)'
      BY DEF Works
    <3>1. Started(x) /\ Works(x) /\ tslot[x] \in Slot /\ holder[tslot[x]] = x
      BY <1>1, <1>4, <2>1 DEF Apart, Held, Started, HasTx
    <3>2. cond'[tslot[x]] = cond[tslot[x]]
      BY <1>4, <2>3, <3>1
    <3> QED BY <1>1, <3>1, <3>2 DEF Works, InTx, OnSlot
  <2>9. ASSUME NEW x \in Tx PROVE Reported(x)'
    BY <1>1, <1>2, <2>1, <2>2 DEF Apart, Reported
  <2> QED BY <2>4, <2>5, <2>6, <2>7, <2>8, <2>9 DEF Apart
<1> QED BY <1>5, <1>6, <1>7, <1>8 DEF PoolInv

-----------------------------------------------------------------------------
(* A transaction's connection is destroyed: START TRANSACTION or a command *)
(* was given up, or mysql answered COMMIT with an error.                   *)
LEMMA TxDestroyKeeps ==
  ASSUME PoolInv, NEW t \in Tx, Destroy(tslot[t]), UNCHANGED <<dbConf, recVars, callVars, crossed, due>>,
         begun' \in [Tx -> {"none", "checkout", "begin", "made", "failed"}], begun'[t] # "begin",
         txMap' = txMap \ {t}, waits' \in [Tx -> SUBSET Activities], told' \in [Tx -> SUBSET (Activities \cup {"refused"})],
         \A x \in Tx \ {t} : begun'[x] = begun[x] /\ waits'[x] = waits[x] /\ told'[x] = told[x],
         begun'[t] # "made" => waits'[t] = {} /\ told'[t] = {} /\ work[t] = "none",
         crossed = {} => HasTx(t) /\ waits'[t] = {} /\ told'[t] \cap Finishing = {}
  PROVE  PoolInv'
<1> USE PoolAssumption
<1>1. DbTypes /\ PoolStarts /\ TunnelIsOwned /\ (\A k \in DbCall : CallRuns(k)) /\ (\A x \in Tx : Sent(x))
  BY DEF PoolInv
<1>2. UNCHANGED <<engine, tunneled, rec, tunnel, pool, closing, dop, dpc, unit, again, answer, late>>
  BY DEF dbConf, recVars, callVars
<1> DEFINE s == tslot[t]
<1>3. /\ holder' = [holder EXCEPT ![s] = Nobody] /\ cond' = [cond EXCEPT ![s] = "none"]
      /\ tslot' = [x \in Tx |-> IF tslot[x] = s THEN NoSlot ELSE tslot[x]]
      /\ line' = [x \in Tx |-> IF tslot[x] = s THEN <<>> ELSE line[x]]
      /\ work' = [x \in Tx |-> IF tslot[x] = s THEN Undone(x) ELSE work[x]]
  BY DEF Destroy, Destroyed, HandlesDie, OnSlot
<1>4. /\ holder' \in [Slot -> DbCall \cup Tx \cup {Nobody}] /\ cond' \in [Slot -> {"none", "clean", "tx", "broken"}]
      /\ \A u \in Slot : holder'[u] \in {Nobody, holder[u]}
  <2>1. holder \in [Slot -> DbCall \cup Tx \cup {Nobody}] /\ cond \in [Slot -> {"none", "clean", "tx", "broken"}]
    BY <1>1 DEF DbTypes
  <2>2. holder' = [u \in Slot |-> IF u = s THEN Nobody ELSE holder[u]]
    BY <1>3, <2>1
  <2>3. cond' = [u \in Slot |-> IF u = s THEN "none" ELSE cond[u]]
    BY <1>3, <2>1
  <2> HIDE DEF s
  <2>4. holder' \in [Slot -> DbCall \cup Tx \cup {Nobody}] /\ \A u \in Slot : holder'[u] \in {Nobody, holder[u]}
    BY <2>1, <2>2
  <2>5. cond' \in [Slot -> {"none", "clean", "tx", "broken"}]
    BY <2>1, <2>3
  <2> QED BY <2>4, <2>5
<1>5. tslot' \in [Tx -> Slot \cup {NoSlot}] /\ work' \in [Tx -> {"none", "pending", "kept", "undone", "loose"}]
  BY <1>1, <1>3 DEF DbTypes, Undone
<1>6. line' \in [Tx -> Seq(Activities)]
  <2>1. \A x \in Tx : line[x] \in Seq(Activities) /\ <<>> \in Seq(Activities)
    BY <1>1 DEF DbTypes
  <2> QED BY <1>3, <2>1
<1>7. txMap' \subseteq Tx
  BY <1>1 DEF DbTypes
<1>8. DbTypes'
  BY <1>1, <1>2, <1>4, <1>5, <1>6, <1>7 DEF DbTypes
<1>9. PoolStarts' /\ TunnelIsOwned' /\ \A k \in DbCall : CallRuns(k)'
  BY <1>1, <1>2, <1>4 DEF PoolStarts, TunnelIsOwned, CallRuns
<1>10. Sent(t)'
  <2>1. line'[t] = <<>> /\ Len(line'[t]) = 0 /\ t \notin txMap' /\ work'[t] = Undone(t)
    BY <1>3
  <2> QED BY <2>1 DEF Sent, Undone
<1>11. ASSUME NEW x \in Tx \ {t} PROVE Sent(x)'
  <2>1. Sent(x) /\ (x \in txMap' <=> x \in txMap)
    BY <1>1
  <2>2. \/ tslot'[x] = tslot[x] /\ line'[x] = line[x] /\ work'[x] = work[x]
        \/ line'[x] = <<>> /\ work'[x] = Undone(x)
    BY <1>3
  <2> QED BY <1>1, <2>1, <2>2, SentStays
<1>12. ASSUME crossed' = {} PROVE Apart'
  <2>1. crossed = {} /\ Apart /\ Held /\ HasTx(t)
    BY <1>12 DEF PoolInv, Apart
  <2>2. s \in Slot /\ holder[s] = t
    BY <2>1 DEF Held
  <2>3. \A x \in Tx : x # t => (begun'[x] = begun[x] /\ (x \in txMap' <=> x \in txMap) /\ waits'[x] = waits[x] /\ told'[x] = told[x])
    OBVIOUS
  <2>4. \A k \in DbCall : k # t => dpc'[k] = dpc[k]
    BY <1>2
  <2>5. t \notin txMap'
    OBVIOUS
  <2> QED BY <1>1, <1>2, <2>1, <2>2, <2>3, <2>4, <2>5, DestroyKeeps
<1> QED BY <1>8, <1>9, <1>10, <1>11, <1>12 DEF PoolInv

LEMMA TxBeginLostKeeps ==
  ASSUME PoolInv, NEW t \in Tx, TxBeginLost(t)
  PROVE  PoolInv'
<1>1. /\ DbTypes /\ begun[t] = "begin" /\ begun' = [begun EXCEPT ![t] = "failed"] /\ Destroy(tslot[t])
      /\ UNCHANGED <<dbConf, recVars, callVars, txMap, waits, crossed, told, due>>
  BY DEF PoolInv, TxBeginLost
<1>2. t \notin txMap /\ waits[t] = {} /\ told[t] = {} /\ work[t] = "none" /\ HasTx(t)
  BY <1>1 DEF PoolInv, Sent, HasTx
<1>3. /\ begun' \in [Tx -> {"none", "checkout", "begin", "made", "failed"}] /\ begun'[t] = "failed"
      /\ \A x \in Tx \ {t} : begun'[x] = begun[x]
      /\ waits' \in [Tx -> SUBSET Activities] /\ told' \in [Tx -> SUBSET (Activities \cup {"refused"})]
  BY <1>1 DEF DbTypes
<1>4. txMap' = txMap \ {t}
  BY <1>1, <1>2
<1> QED BY <1>1, <1>2, <1>3, <1>4, TxDestroyKeeps

LEMMA TxLostKeeps ==
  ASSUME PoolInv, NEW t \in Tx, NEW a \in Activities, TxLost(t, a)
  PROVE  PoolInv'
<1> USE PoolAssumption
<1> DEFINE s == tslot[t]
<1>1. /\ DbTypes /\ PoolStarts /\ TunnelIsOwned /\ (\A k \in DbCall : CallRuns(k)) /\ (\A x \in Tx : Sent(x))
      /\ a \in waits[t] /\ waits' = [waits EXCEPT ![t] = @ \ {a}] /\ txMap' = txMap \ {t}
      /\ UNCHANGED <<dbConf, recVars, callVars, begun, crossed, told, due>>
  BY DEF PoolInv, TxLost
<1>2. /\ waits' \in [Tx -> SUBSET Activities] /\ waits'[t] = waits[t] \ {a}
      /\ \A x \in Tx \ {t} : waits'[x] = waits[x] /\ (x \in txMap' <=> x \in txMap)
      /\ txMap' \subseteq Tx
  BY <1>1 DEF DbTypes
<1>3. HasTx(t) /\ begun[t] = "made"
  BY <1>1 DEF HasTx, Sent
<1>4. ASSUME crossed = {}
      PROVE  s \in Slot /\ holder[s] = t /\ waits[t] = {a} /\ waits'[t] = {} /\ told[t] \cap Finishing = {}
  <2>1. Apart /\ Held /\ Flight(t) /\ Reported(t)
    BY <1>4 DEF PoolInv, Apart
  <2>2. s \in Slot /\ holder[s] = t
    BY <1>3, <2>1 DEF Held
  <2>3. waits[t] = {a}
    BY <1>1, <2>1 DEF Flight
  <2>4. told[t] \cap Finishing = {}
    BY <1>3, <2>1 DEF Reported
  <2> QED BY <1>2, <2>2, <2>3, <2>4
<1>5. CASE Destroy(s)
  <2>1. begun' \in [Tx -> {"none", "checkout", "begin", "made", "failed"}] /\ begun'[t] = "made"
        /\ told' \in [Tx -> SUBSET (Activities \cup {"refused"})]
        /\ \A x \in Tx \ {t} : begun'[x] = begun[x] /\ waits'[x] = waits[x] /\ told'[x] = told[x]
    BY <1>1, <1>2, <1>3 DEF DbTypes
  <2>2. crossed = {} => HasTx(t) /\ waits'[t] = {} /\ told'[t] \cap Finishing = {}
    BY <1>1, <1>3, <1>4
  <2> QED BY <1>1, <1>2, <1>5, <2>1, <2>2, TxDestroyKeeps
<1>6. CASE /\ Keep
           /\ \/ UNCHANGED slotVars /\ (s = NoSlot \/ holder[s] # t)
              \/ s # NoSlot /\ a = "dispose" /\ engine = "pg" /\ Released(s)
  <2>1. UNCHANGED <<engine, tunneled, rec, tunnel, pool, closing, dop, dpc, unit, again, answer, late, tslot, line, work>>
    BY <1>1, <1>6 DEF dbConf, recVars, callVars, Keep
  <2>2. /\ holder' \in [Slot -> DbCall \cup Tx \cup {Nobody}] /\ cond' \in [Slot -> {"none", "clean", "tx", "broken"}]
        /\ \A u \in Slot : holder'[u] \in {Nobody, holder[u]}
    <3>1. CASE UNCHANGED slotVars
      BY <1>1, <3>1 DEF slotVars, DbTypes
    <3>2. CASE s # NoSlot /\ Released(s)
      <4>1. s \in Slot
        BY <1>1, <3>2 DEF DbTypes
      <4> QED BY <1>1, <3>2, <4>1 DEF Released, Back, DbTypes
    <3> QED BY <1>6, <3>1, <3>2
  <2>3. DbTypes'
    BY <1>1, <1>2, <2>1, <2>2 DEF DbTypes
  <2>4. PoolStarts' /\ TunnelIsOwned' /\ \A k \in DbCall : CallRuns(k)'
    BY <1>1, <2>1, <2>2 DEF PoolStarts, TunnelIsOwned, CallRuns
  <2>5. Sent(t)'
    BY <1>1, <1>2, <1>3, <2>1 DEF Sent
  <2>6. ASSUME NEW x \in Tx \ {t} PROVE Sent(x)'
    BY <1>1, <1>2, <2>1, SentStays
  <2>7. ASSUME crossed' = {} PROVE Apart'
    <3>1. crossed = {} /\ Apart /\ s \in Slot /\ holder[s] = t /\ waits[t] = {a} /\ waits'[t] = {}
      BY <1>1, <1>4, <2>7 DEF PoolInv
    <3>2. s # NoSlot /\ a = "dispose" /\ engine = "pg" /\ Released(s)
      BY <1>6, <3>1
    <3>3. \A x \in Tx : x # t => (x \in txMap' <=> x \in txMap) /\ waits'[x] = waits[x]
      BY <1>2
    <3>4. t \notin txMap'
      BY <1>1
    <3> QED BY <1>1, <1>3, <1>6, <2>1, <3>1, <3>2, <3>3, <3>4, ReleaseKeeps
  <2> QED BY <2>3, <2>4, <2>5, <2>6, <2>7 DEF PoolInv
<1> QED BY <1>5, <1>6 DEF TxLost

-----------------------------------------------------------------------------
(* An answer arrives on a transaction's connection.                        *)
LEMMA TxRefusedKeeps ==
  ASSUME PoolInv, NEW t \in Tx, line[t] # <<>>, Head(line[t]) = "commit", engine = "mysql", Destroy(tslot[t]),
         waits' = [waits EXCEPT ![t] = @ \ {"commit"}], txMap' = txMap \ {t},
         told' = [told EXCEPT ![t] = @ \cup {"refused"}] \/ told' = told,
         UNCHANGED <<dbConf, recVars, callVars, begun, crossed, due>>
  PROVE  PoolInv'
<1> USE PoolAssumption
<1>1. DbTypes /\ Sent(t)
  BY DEF PoolInv
<1>2. begun[t] = "made"
  BY <1>1 DEF Sent
<1>3. /\ begun' \in [Tx -> {"none", "checkout", "begin", "made", "failed"}] /\ begun'[t] = "made"
      /\ waits' \in [Tx -> SUBSET Activities] /\ waits'[t] = waits[t] \ {"commit"}
      /\ told' \in [Tx -> SUBSET (Activities \cup {"refused"})] /\ told'[t] \subseteq told[t] \cup {"refused"}
      /\ \A x \in Tx \ {t} : begun'[x] = begun[x] /\ waits'[x] = waits[x] /\ told'[x] = told[x]
  <2>1. begun' = begun /\ begun \in [Tx -> {"none", "checkout", "begin", "made", "failed"}]
        /\ waits \in [Tx -> SUBSET Activities] /\ told \in [Tx -> SUBSET (Activities \cup {"refused"})]
    BY <1>1 DEF DbTypes
  <2>2. /\ waits' \in [Tx -> SUBSET Activities] /\ waits'[t] = waits[t] \ {"commit"}
        /\ \A x \in Tx \ {t} : waits'[x] = waits[x]
    BY <2>1
  <2>3. /\ told' \in [Tx -> SUBSET (Activities \cup {"refused"})] /\ told'[t] \subseteq told[t] \cup {"refused"}
        /\ \A x \in Tx \ {t} : told'[x] = told[x]
    BY <2>1
  <2> QED BY <1>2, <2>1, <2>2, <2>3
<1>4. crossed = {} => HasTx(t) /\ waits'[t] = {} /\ told'[t] \cap Finishing = {}
  <2> SUFFICES ASSUME crossed = {} PROVE HasTx(t) /\ waits'[t] = {} /\ told'[t] \cap Finishing = {}
    OBVIOUS
  <2>1. Flight(t) /\ Reported(t)
    BY DEF PoolInv, Apart
  <2>2. PICK b \in Activities : waits[t] = {b} /\ line[t] = <<b>>
    BY <2>1 DEF Flight
  <2>3. b = "commit"
    BY <2>2
  <2>4. HasTx(t)
    BY <2>2 DEF HasTx
  <2> QED BY <1>3, <2>1, <2>2, <2>3, <2>4 DEF Reported, Finishing
<1> QED BY <1>2, <1>3, <1>4, TxDestroyKeeps

(* What an answered command does, connection by connection.                *)
Answered(t, a, good, ends) == ServerDoes(t, a, good, ends) /\ HandBack(t, a, good, ends)
AnswerDone(t, a, good, ends) ==
  /\ tslot[t] \in Slot /\ a \in Activities
  /\ line' \in [Tx -> Seq(Activities)] /\ line'[t] = Tail(line[t]) /\ \A x \in Tx \ {t} : line'[x] = line[x]
  /\ work' \in [Tx -> {"none", "pending", "kept", "undone", "loose"}] /\ \A x \in Tx \ {t} : work'[x] = work[x]
  /\ holder' \in [Slot -> DbCall \cup Tx \cup {Nobody}] /\ cond' \in [Slot -> {"none", "clean", "tx", "broken"}]
  /\ \A u \in Slot \ {tslot[t]} : holder'[u] = holder[u] /\ cond'[u] = cond[u]
  /\ holder'[tslot[t]] = (IF a \in Finishing /\ a \in waits[t] /\ (engine = "mysql" \/ holder[tslot[t]] = t)
                            THEN Nobody ELSE holder[tslot[t]])
  /\ work'[t] = (IF ends THEN "loose"
                 ELSE IF ~InTx(tslot[t]) THEN work[t]
                 ELSE IF a = "exec" THEN (IF good /\ cond[tslot[t]] = "tx" /\ work[t] # "loose" THEN "pending" ELSE work[t])
                 ELSE IF a = "commit" /\ good /\ cond[tslot[t]] = "tx" /\ work[t] = "pending" THEN "kept" ELSE Undone(t))
  /\ cond'[tslot[t]] \in {"none", CondAfter(tslot[t], a, good, ends)}
  /\ a = "exec" => cond'[tslot[t]] = CondAfter(tslot[t], a, good, ends)
  /\ begun[t] = "made"

LEMMA AnswerDoes ==
  ASSUME PoolInv, NEW t \in Tx, line[t] # <<>>, NEW good \in BOOLEAN, NEW ends \in BOOLEAN, NEW a, a = Head(line[t]),
         Answered(t, a, good, ends)
  PROVE  AnswerDone(t, a, good, ends)
<1> USE PoolAssumption
<1>1. DbTypes /\ Sent(t)
  BY DEF PoolInv
<1>2. PICK s : s = tslot[t]
  OBVIOUS
<1>3. s \in Slot /\ begun[t] = "made"
  BY <1>1, <1>2 DEF Sent, DbTypes
<1>4. line[t] \in Seq(Activities) /\ a \in Activities /\ Tail(line[t]) \in Seq(Activities)
  <2>1. line[t] \in Seq(Activities)
    BY <1>1 DEF DbTypes
  <2> QED BY <2>1
<1>5. line' \in [Tx -> Seq(Activities)] /\ line'[t] = Tail(line[t]) /\ \A x \in Tx \ {t} : line'[x] = line[x]
  BY <1>1, <1>4 DEF Answered, ServerDoes, DbTypes
<1>6. Undone(t) \in {"none", "pending", "kept", "undone", "loose"}
  BY <1>1 DEF Undone, DbTypes
<1> DEFINE made == IF ends THEN "loose"
                   ELSE IF ~InTx(s) THEN work[t]
                   ELSE IF a = "exec" THEN (IF good /\ cond[s] = "tx" /\ work[t] # "loose" THEN "pending" ELSE work[t])
                   ELSE IF a = "commit" /\ good /\ cond[s] = "tx" /\ work[t] = "pending" THEN "kept" ELSE Undone(t)
<1>7. made \in {"none", "pending", "kept", "undone", "loose"}
  BY <1>1, <1>6 DEF DbTypes
<1>8. work' = [work EXCEPT ![t] = made]
  BY <1>2 DEF Answered, ServerDoes
<1>9. work' \in [Tx -> {"none", "pending", "kept", "undone", "loose"}] /\ work'[t] = made /\ \A x \in Tx \ {t} : work'[x] = work[x]
  <2> HIDE DEF made
  <2> QED BY <1>1, <1>7, <1>8 DEF DbTypes
<1> DEFINE given == IF a \in Finishing /\ a \in waits[t] /\ (engine = "mysql" \/ holder[s] = t) THEN Nobody ELSE holder[s]
<1>10. holder' = [holder EXCEPT ![s] = given] /\ given \in DbCall \cup Tx \cup {Nobody}
  BY <1>1, <1>2, <1>3 DEF Answered, HandBack, DbTypes
<1>11. /\ holder' \in [Slot -> DbCall \cup Tx \cup {Nobody}] /\ holder'[s] = given
       /\ \A u \in Slot \ {s} : holder'[u] = holder[u]
  <2> HIDE DEF given
  <2> QED BY <1>1, <1>3, <1>10 DEF DbTypes
<1>12. PICK after \in {"none", CondAfter(s, a, good, ends)} :
          cond' = [cond EXCEPT ![s] = after] /\ (a = "exec" => after = CondAfter(s, a, good, ends))
  BY <1>2 DEF Answered, HandBack, Finishing
<1>13. CondAfter(s, a, good, ends) \in {"none", "clean", "tx", "broken"}
  BY <1>1, <1>3 DEF CondAfter, DbTypes
<1>14. cond' \in [Slot -> {"none", "clean", "tx", "broken"}] /\ cond'[s] = after /\ \A u \in Slot \ {s} : cond'[u] = cond[u]
  BY <1>1, <1>3, <1>12, <1>13 DEF DbTypes
<1> HIDE DEF made, given
<1>15. /\ holder'[tslot[t]] = given /\ work'[t] = made /\ cond'[tslot[t]] = after /\ Tail(line[t]) = line'[t]
  BY <1>2, <1>5, <1>9, <1>11, <1>14
<1> QED BY <1>2, <1>3, <1>4, <1>5, <1>9, <1>11, <1>12, <1>14, <1>15 DEF AnswerDone, made, given

(* The answer nobody awaits: the ROLLBACK of a disposal that was given up. *)
LateAnswer(t, a, good, ends) ==
  /\ PoolInv /\ Apart /\ line[t] # <<>> /\ waits[t] = {} /\ good \in BOOLEAN /\ ends \in BOOLEAN /\ a = Head(line[t])
  /\ Answered(t, a, good, ends) /\ waits' = [waits EXCEPT ![t] = @ \ {a}]
  /\ UNCHANGED <<engine, begun, txMap, tslot, told, dpc>>

LEMMA LateAnswerKeeps ==
  ASSUME NEW t \in Tx, NEW a, NEW good, NEW ends, LateAnswer(t, a, good, ends)
  PROVE  Apart'
<1> USE PoolAssumption
<1>12. /\ PoolInv /\ Apart /\ line[t] # <<>> /\ waits[t] = {} /\ good \in BOOLEAN /\ ends \in BOOLEAN /\ a = Head(line[t])
       /\ Answered(t, a, good, ends) /\ waits' = [waits EXCEPT ![t] = @ \ {a}]
       /\ UNCHANGED <<engine, begun, txMap, tslot, told, dpc>>
  BY DEF LateAnswer
<1> USE <1>12
<1>1. /\ DbTypes /\ Held /\ Flight(t) /\ Reported(t)
  BY DEF PoolInv, Apart
<1>2. engine = "pg" /\ t \notin txMap /\ line[t] = <<"dispose">> /\ told[t] \cap Finishing = {}
  BY <1>1 DEF Flight
<1>3. a = "dispose"
  BY <1>2
<1>0. AnswerDone(t, a, good, ends)
  BY AnswerDoes
<1>4. PICK s \in Slot : s = tslot[t]
  BY <1>0 DEF AnswerDone
<1>5. /\ line'[t] = <<>> /\ (\A x \in Tx \ {t} : line'[x] = line[x] /\ work'[x] = work[x]) /\ work'[t] \in {work[t], Undone(t), "loose"}
      /\ (\A u \in Slot : holder'[u] = holder[u]) /\ (\A u \in Slot \ {s} : cond'[u] = cond[u]) /\ cond'[s] \in {"none", "clean"}
      /\ (\A x \in Tx : waits'[x] = waits[x])
  <2>1. Tail(line[t]) = <<>>
    BY <1>2
  <2>2. CondAfter(s, a, good, ends) = "clean"
    BY <1>3 DEF CondAfter
  <2>3. \A x \in Tx : waits'[x] = waits[x]
    BY <1>1 DEF DbTypes
  <2>4. a \notin waits[t]
    OBVIOUS
  <2>5. holder'[s] = holder[s] /\ \A u \in Slot \ {s} : holder'[u] = holder[u] /\ cond'[u] = cond[u]
    BY <1>0, <1>4, <2>4 DEF AnswerDone
  <2>6. cond'[s] \in {"none", "clean"} /\ line'[t] = <<>> /\ \A x \in Tx \ {t} : line'[x] = line[x] /\ work'[x] = work[x]
    BY <1>0, <1>4, <2>1, <2>2 DEF AnswerDone
  <2>7. work'[t] \in {work[t], Undone(t), "loose"}
    BY <1>0, <1>3 DEF AnswerDone
  <2> QED BY <2>3, <2>5, <2>6, <2>7
<1>6. \A x \in Tx : (HasTx(x)' <=> HasTx(x)) /\ (Started(x)' <=> Started(x))
  BY <1>5 DEF HasTx, Started
<1>7. Held'
  <2>1. ASSUME NEW u \in Slot, holder'[u] \in Tx PROVE tslot'[holder'[u]] = u /\ HasTx(holder[u])'
    <3>1. PICK x \in Tx : x = holder[u] /\ x = holder'[u]
      BY <1>5, <2>1
    <3>2. tslot'[x] = u /\ HasTx(x)'
      BY <1>1, <1>6, <3>1 DEF Held
    <3> QED BY <3>1, <3>2 DEF HasTx
  <2> QED BY <1>1, <1>5, <1>6, <2>1 DEF Held
<1>8. ASSUME NEW u \in Slot PROVE Seen(u)'
  <2>1. CASE u = s
    BY <1>2, <1>5, <2>1 DEF Seen, InTx
  <2>2. CASE u # s
    <3>1. Seen(u) /\ cond'[u] = cond[u] /\ holder'[u] = holder[u]
      BY <1>5, <2>2 DEF Apart
    <3>2. \A x \in Tx : tslot[x] = u /\ RollingBack(x) => RollingBack(x)'
      BY <1>4, <1>5, <2>2 DEF RollingBack
    <3> QED BY <3>1, <3>2 DEF Seen, InTx
  <2> QED BY <2>1, <2>2
<1>9. ASSUME NEW x \in Tx PROVE Flight(x)'
  <2>1. CASE x = t
    BY <1>5, <2>1 DEF Flight
  <2>2. CASE x # t
    BY <1>5, <2>2 DEF Apart, Flight
  <2> QED BY <2>1, <2>2
<1>10. ASSUME NEW x \in Tx PROVE Works(x)'
  <2> SUFFICES ASSUME Started(x)' PROVE Works(x)'
    BY DEF Works
  <2>1. x # t /\ Started(x) /\ Works(x) /\ tslot[x] \in Slot
    BY <1>1, <1>2, <1>6 DEF Apart, Held, Started, HasTx
  <2>2. tslot[x] # s
    BY <1>4, <2>1 DEF Works, OnSlot
  <2>3. cond'[tslot[x]] = cond[tslot[x]] /\ work'[x] = work[x]
    BY <1>5, <2>1, <2>2
  <2>4. \A y \in OnSlot(tslot[x]) \ {x} : line'[y] = <<>>
    BY <1>5, <2>1 DEF Works, OnSlot
  <2> QED BY <2>1, <2>3, <2>4 DEF Works, InTx, OnSlot
<1>11. ASSUME NEW x \in Tx PROVE Reported(x)'
  <2>1. CASE x = t
    <3>1. work[t] # "kept" /\ "commit" \notin told[t]
      BY <1>1, <1>2 DEF Reported, Finishing
    <3>2. work'[t] # "kept"
      BY <1>5, <3>1 DEF Undone
    <3> QED BY <1>2, <2>1, <3>1, <3>2 DEF Reported
  <2>2. CASE x # t
    BY <1>5, <1>6, <2>2 DEF Apart, Reported
  <2> QED BY <2>1, <2>2
<1> QED BY <1>7, <1>8, <1>9, <1>10, <1>11 DEF Apart

(* The answer of a statement, of COMMIT or of ROLLBACK that is awaited.    *)
AwaitedAnswer(t, a, good, ends) ==
  /\ PoolInv /\ Apart /\ line[t] # <<>> /\ waits[t] # {} /\ good \in BOOLEAN /\ ends \in BOOLEAN /\ a = Head(line[t])
  /\ (a \in {"rollback", "dispose"} => good) /\ (good \/ a = "exec" \/ engine = "pg") /\ (ends => EndsItself(tslot[t], a))
  /\ Answered(t, a, good, ends) /\ waits' = [waits EXCEPT ![t] = @ \ {a}]
  /\ txMap' = (IF a \in {"commit", "rollback"} THEN txMap \ {t} ELSE txMap)
  /\ told' = [told EXCEPT ![t] = @ \cup {IF good THEN a ELSE "refused"}]
  /\ UNCHANGED <<engine, begun, tslot, dpc>>

LEMMA AwaitedAnswerKeeps ==
  ASSUME NEW t \in Tx, NEW a, NEW good, NEW ends, AwaitedAnswer(t, a, good, ends)
  PROVE  Apart'
<1> USE PoolAssumption
<1>16. /\ PoolInv /\ Apart /\ line[t] # <<>> /\ waits[t] # {} /\ good \in BOOLEAN /\ ends \in BOOLEAN /\ a = Head(line[t])
       /\ (a \in {"rollback", "dispose"} => good) /\ (good \/ a = "exec" \/ engine = "pg") /\ (ends => EndsItself(tslot[t], a))
       /\ Answered(t, a, good, ends) /\ waits' = [waits EXCEPT ![t] = @ \ {a}]
       /\ txMap' = (IF a \in {"commit", "rollback"} THEN txMap \ {t} ELSE txMap)
       /\ told' = [told EXCEPT ![t] = @ \cup {IF good THEN a ELSE "refused"}]
       /\ UNCHANGED <<engine, begun, tslot, dpc>>
  BY DEF AwaitedAnswer
<1> USE <1>16
<1>0. AnswerDone(t, a, good, ends)
  BY AnswerDoes
<1>1. /\ DbTypes /\ Held /\ Flight(t) /\ Reported(t) /\ Sent(t) /\ Works(t) /\ HasTx(t) /\ Started(t)
  BY DEF PoolInv, Apart, HasTx, Started
<1>2. waits[t] = {a} /\ line[t] = <<a>> /\ (a = "dispose" \/ t \in txMap) /\ told[t] \cap Finishing = {} /\ a \in Activities
  <2>1. PICK b \in Activities : waits[t] = {b} /\ line[t] = <<b>> /\ (b = "dispose" \/ t \in txMap)
    BY <1>1 DEF Flight
  <2>2. b = a
    BY <2>1
  <2> QED BY <1>1, <2>1, <2>2 DEF Reported
<1>3. PICK s \in Slot : s = tslot[t] /\ holder[s] = t /\ begun[t] = "made"
  BY <1>0, <1>1 DEF Held, AnswerDone
<1>4. /\ line'[t] = <<>> /\ waits'[t] = {} /\ told'[t] = told[t] \cup {IF good THEN a ELSE "refused"}
      /\ \A x \in Tx \ {t} : /\ line'[x] = line[x] /\ work'[x] = work[x] /\ waits'[x] = waits[x] /\ told'[x] = told[x]
                             /\ (x \in txMap' <=> x \in txMap)
      /\ \A u \in Slot \ {s} : holder'[u] = holder[u] /\ cond'[u] = cond[u]
      /\ \A u \in Slot \ {s} : holder[u] # t
  <2>1. Tail(line[t]) = <<>> /\ waits[t] \ {a} = {}
    BY <1>2
  <2>2. waits'[t] = waits[t] \ {a} /\ \A x \in Tx \ {t} : waits'[x] = waits[x]
    BY <1>1 DEF DbTypes
  <2>3. told'[t] = told[t] \cup {IF good THEN a ELSE "refused"} /\ \A x \in Tx \ {t} : told'[x] = told[x]
    BY <1>1 DEF DbTypes
  <2>4. \A u \in Slot \ {s} : holder[u] # t
    BY <1>1, <1>3 DEF Held
  <2>5. \A x \in Tx \ {t} : (x \in txMap' <=> x \in txMap)
    OBVIOUS
  <2> QED BY <1>0, <1>3, <2>1, <2>2, <2>3, <2>4, <2>5 DEF AnswerDone
<1>5. (work[t] = "loose" \/ (InTx(s) /\ work[t] \in {"none", "pending"})) /\ (cond[s] = "broken" => "refused" \in told[t] /\ engine = "pg")
  BY <1>1, <1>3 DEF Works, Apart, Seen
<1>6. \/ /\ a = "exec" /\ t \in txMap' /\ holder'[s] = t
         /\ work'[t] = "loose" \/ (InTx(s)' /\ work'[t] \in {"none", "pending"})
         /\ (cond'[s] = "broken" => "refused" \in told'[t] /\ engine = "pg") /\ told'[t] \cap Finishing = {}
      \/ /\ a \in Finishing /\ t \notin txMap' /\ holder'[s] = Nobody /\ cond'[s] \in {"none", "clean"}
         /\ "commit" \in told'[t] /\ (engine = "pg" => "refused" \notin told'[t]) => work'[t] \in {"none", "kept", "loose"}
         /\ "commit" \in told'[t] => "rollback" \notin told'[t] /\ "dispose" \notin told'[t]
         /\ work'[t] = "kept" => "commit" \in told'[t]
  <2>1. CASE a = "exec"
    <3>1. a \notin Finishing /\ t \in txMap' /\ holder'[s] = t
      BY <1>0, <1>2, <1>3, <2>1 DEF Finishing, AnswerDone
    <3>2. /\ cond'[s] = CondAfter(s, a, good, ends)
          /\ work'[t] = "loose" \/ (~ends /\ work[t] # "loose" /\ work'[t] \in {"pending", work[t]})
      BY <1>0, <1>3, <1>5, <2>1 DEF AnswerDone
    <3>3. cond'[s] = "broken" => "refused" \in told'[t] /\ engine = "pg"
      BY <1>4, <1>5, <2>1, <3>2 DEF CondAfter
    <3>4. InTx(s) /\ ~ends => cond'[s] \in {"tx", "broken"}
      BY <1>5, <2>1, <3>2 DEF CondAfter, InTx
    <3>5. told'[t] \cap Finishing = {}
      BY <1>2, <1>4, <2>1 DEF Finishing
    <3> QED BY <1>5, <2>1, <3>1, <3>2, <3>3, <3>4, <3>5 DEF InTx
  <2>2. CASE a \in Finishing
    <3>1. a # "exec" /\ "commit" \notin told[t] /\ "rollback" \notin told[t] /\ "dispose" \notin told[t]
      BY <1>2, <2>2 DEF Finishing
    <3>2. t \notin txMap'
      <4>1. a = "dispose" => t \notin txMap
        BY <1>1, <1>2 DEF Sent
      <4> QED BY <2>2, <4>1 DEF Finishing
    <3>3. holder'[s] = Nobody
      BY <1>0, <1>2, <1>3, <2>2 DEF AnswerDone
    <3>4. cond'[s] \in {"none", "clean"}
      BY <1>0, <1>3, <3>1 DEF CondAfter, AnswerDone
    <3>5. ~ends /\ work'[t] = IF work[t] = "loose" THEN "loose" ELSE IF a = "commit" /\ good /\ cond[s] = "tx" /\ work[t] = "pending" THEN "kept" ELSE Undone(t)
      <4>1. ~ends
        BY <1>3, <3>1 DEF EndsItself
      <4>2. work[t] = "loose" => Undone(t) = "loose"
        BY DEF Undone
      <4> QED BY <1>0, <1>3, <1>5, <3>1, <4>1, <4>2 DEF AnswerDone
    <3>6. work[t] # "loose" => Undone(t) \in {"none", "undone"} /\ (work[t] = "none" => Undone(t) = "none")
      BY <1>5 DEF Undone
    <3>7. work[t] = "loose" \/ cond[s] = "tx" \/ ("refused" \in told[t] /\ engine = "pg")
      BY <1>5 DEF InTx
    <3>8. CASE a = "commit" /\ good
      <4>1. told'[t] = told[t] \cup {"commit"}
        BY <1>4, <3>8
      <4> QED BY <1>5, <2>2, <3>1, <3>2, <3>3, <3>4, <3>5, <3>6, <3>7, <3>8, <4>1
    <3>9. CASE ~(a = "commit" /\ good)
      <4>1. "commit" \notin told'[t]
        BY <1>4, <3>1, <3>9
      <4> QED BY <2>2, <3>2, <3>3, <3>4, <3>5, <3>6, <3>9, <4>1
    <3> QED BY <3>8, <3>9
  <2> QED BY <1>2, <2>1, <2>2 DEF Activities
<1>7. \A x \in Tx \ {t} : (HasTx(x)' <=> HasTx(x)) /\ (Started(x)' <=> Started(x))
  BY <1>4 DEF HasTx, Started
<1>8. (a = "exec" => HasTx(t)') /\ (a # "exec" => ~HasTx(t)' /\ ~Started(t)')
  BY <1>3, <1>4, <1>6 DEF HasTx, Started, Finishing
<1>9. t \notin DbCall /\ Nobody \notin DbCall /\ Nobody \notin Tx
  OBVIOUS
<1>10. holder'[s] \in {t, Nobody} /\ (holder'[s] = t <=> a = "exec")
  BY <1>6, <1>9 DEF Finishing
<1>11. Held'
  <2>1. \A u \in Slot : (holder[u] \in DbCall => dpc[holder[u]] \in InHand)'
    BY <1>1, <1>4, <1>9, <1>10 DEF Held
  <2>2. \A u, v \in Slot : (holder[u] = holder[v] /\ holder[u] \in DbCall => u = v)'
    BY <1>1, <1>4, <1>9, <1>10 DEF Held
  <2>3. ASSUME NEW u \in Slot, holder'[u] \in Tx PROVE tslot'[holder'[u]] = u /\ HasTx(holder[u])'
    <3>1. PICK x \in Tx : x = holder'[u]
      BY <2>3
    <3>2. tslot'[x] = u /\ HasTx(x)'
      <4>1. CASE u = s
        BY <1>3, <1>8, <1>9, <1>10, <3>1, <4>1
      <4>2. CASE u # s
        BY <1>1, <1>4, <1>7, <3>1, <4>2 DEF Held
      <4> QED BY <4>1, <4>2
    <3> QED BY <3>1, <3>2 DEF HasTx
  <2>4. \A x \in Tx : HasTx(x)' => tslot'[x] \in Slot /\ holder'[tslot'[x]] = x
    <3> SUFFICES ASSUME NEW x \in Tx, HasTx(x)' PROVE tslot[x] \in Slot /\ holder'[tslot[x]] = x
      OBVIOUS
    <3>1. CASE x = t
      BY <1>3, <1>8, <1>10, <3>1
    <3>2. CASE x # t
      <4>1. HasTx(x) /\ tslot[x] \in Slot /\ holder[tslot[x]] = x
        BY <1>1, <1>7, <3>2 DEF Held
      <4>2. tslot[x] # s
        BY <1>3, <3>2, <4>1
      <4> QED BY <1>4, <4>1, <4>2
    <3> QED BY <3>1, <3>2
  <2> QED BY <2>1, <2>2, <2>3, <2>4 DEF Held
<1>12. ASSUME NEW u \in Slot PROVE Seen(u)'
  <2>1. CASE u = s
    BY <1>3, <1>6, <2>1 DEF Seen, InTx
  <2>2. CASE u # s
    <3>1. Seen(u) /\ cond'[u] = cond[u] /\ holder'[u] = holder[u]
      BY <1>4, <2>2 DEF Apart
    <3>2. \A x \in Tx : tslot[x] = u /\ RollingBack(x) => RollingBack(x)'
      BY <1>3, <1>4, <2>2 DEF RollingBack
    <3> QED BY <3>1, <3>2 DEF Seen, InTx
  <2> QED BY <2>1, <2>2
<1>13. ASSUME NEW x \in Tx PROVE Flight(x)'
  <2>1. CASE x = t
    BY <1>4, <2>1 DEF Flight
  <2>2. CASE x # t
    BY <1>4, <2>2 DEF Apart, Flight
  <2> QED BY <2>1, <2>2
<1>14. ASSUME NEW x \in Tx PROVE Works(x)'
  <2> SUFFICES ASSUME Started(x)' PROVE Works(x)'
    BY DEF Works
  <2>1. CASE x = t
    <3>1. \A y \in OnSlot(s) \ {t} : line'[y] = <<>>
      BY <1>1, <1>3, <1>4 DEF Works, OnSlot
    <3>2. a = "exec"
      BY <1>8, <2>1
    <3>3. (work'[t] = "loose" \/ (InTx(s)' /\ work'[t] \in {"none", "pending"})) /\ (cond'[s] = "broken" => "refused" \in told'[t])
      BY <1>6, <3>2 DEF Finishing
    <3> QED BY <1>3, <2>1, <3>1, <3>3 DEF Works, OnSlot, InTx
  <2>2. CASE x # t
    <3>1. Started(x) /\ Works(x) /\ tslot[x] \in Slot /\ holder[tslot[x]] = x
      BY <1>1, <1>7, <2>2 DEF Apart, Held, Started, HasTx
    <3>2. tslot[x] # s
      BY <1>3, <2>2, <3>1
    <3>3. cond'[tslot[x]] = cond[tslot[x]] /\ work'[x] = work[x] /\ told'[x] = told[x]
      BY <1>4, <2>2, <3>1, <3>2
    <3>4. \A y \in OnSlot(tslot[x]) \ {x} : line'[y] = <<>>
      BY <1>4, <3>1 DEF Works, OnSlot
    <3> QED BY <3>1, <3>3, <3>4 DEF Works, InTx, OnSlot
  <2> QED BY <2>1, <2>2
<1>15. ASSUME NEW x \in Tx PROVE Reported(x)'
  <2>1. CASE x = t
    <3>1. a = "exec" => "commit" \notin told'[t] /\ work'[t] # "kept" /\ told'[t] \cap Finishing = {}
      BY <1>6 DEF Finishing
    <3> QED BY <1>4, <1>6, <1>8, <2>1, <3>1 DEF Reported, Finishing
  <2>2. CASE x # t
    BY <1>4, <1>7, <2>2 DEF Apart, Reported
  <2> QED BY <2>1, <2>2
<1> QED BY <1>11, <1>12, <1>13, <1>14, <1>15 DEF Apart

LEMMA SentOnAnswer ==
  ASSUME DbTypes, NEW t \in Tx, Sent(t), line[t] # <<>>, NEW a, a = Head(line[t]), begun' = begun, tslot' = tslot,
         line'[t] = Tail(line[t]), waits'[t] = waits[t] \ {a}, t \in txMap' => t \in txMap
  PROVE  Sent(t)'
<1>1. PICK n \in Nat : n = Len(line[t])
  BY DEF DbTypes
<1>2. line[t] \in Seq(Activities) /\ n >= 1 /\ a = line[t][1]
  <2>1. line[t] \in Seq(Activities)
    BY DEF DbTypes
  <2>2. n # 0
    BY <1>1, <2>1
  <2> QED BY <1>1, <2>1, <2>2
<1>3. Len(line'[t]) = n - 1 /\ \A i \in 1 .. (n - 1) : line'[t][i] = line[t][i + 1]
  BY <1>1, <1>2
<1>4. \A i, j \in 1 .. n : line[t][i] = line[t][j] => i = j
  BY <1>1 DEF Sent
<1>5. \A i, j \in 1 .. (n - 1) : line'[t][i] = line'[t][j] => i = j
  <2> SUFFICES ASSUME NEW i \in 1 .. (n - 1), NEW j \in 1 .. (n - 1), line'[t][i] = line'[t][j] PROVE i = j
    OBVIOUS
  <2>1. i + 1 \in 1 .. n /\ j + 1 \in 1 .. n
    BY <1>2
  <2>2. line[t][i + 1] = line[t][j + 1]
    BY <1>3
  <2>3. i + 1 = j + 1
    BY <1>4, <2>1, <2>2
  <2> QED BY <2>3
<1>6. ASSUME t \in txMap' PROVE "dispose" \notin waits'[t] /\ \A i \in 1 .. (n - 1) : line'[t][i] \in waits'[t]
  <2>1. "dispose" \notin waits[t] /\ \A i \in 1 .. n : line[t][i] \in waits[t]
    BY <1>1, <1>6 DEF Sent
  <2> SUFFICES ASSUME NEW i \in 1 .. (n - 1) PROVE line'[t][i] \in waits'[t]
    BY <2>1
  <2>2. i + 1 \in 1 .. n /\ 1 \in 1 .. n /\ i + 1 # 1
    BY <1>2
  <2>3. line[t][i + 1] # line[t][1]
    BY <1>4, <2>2
  <2> QED BY <1>2, <1>3, <2>1, <2>2, <2>3
<1>7. begun'[t] = "made" /\ tslot'[t] # NoSlot
  BY DEF Sent
<1> QED BY <1>3, <1>5, <1>6, <1>7 DEF Sent

LEMMA TxAnsweredKeeps ==
  ASSUME PoolInv, NEW t \in Tx, TxAnswered(t)
  PROVE  PoolInv'
<1> USE PoolAssumption
<1>1. PICK a : a = Head(line[t])
  OBVIOUS
<1>2. PICK good \in BOOLEAN, ends \in BOOLEAN :
        /\ a \in {"rollback", "dispose"} => good
        /\ ends => EndsItself(tslot[t], a)
        /\ told' = [told EXCEPT ![t] = IF a \notin waits[t] \/ (engine = "pg" /\ holder[tslot[t]] # t /\ a \in Finishing)
                                       THEN @ ELSE @ \cup {IF good THEN a ELSE "refused"}]
        /\ \/ /\ good \/ a = "exec" \/ engine = "pg"
              /\ Answered(t, a, good, ends) /\ UNCHANGED tslot
           \/ ~good /\ a = "commit" /\ engine = "mysql" /\ Destroy(tslot[t])
  BY <1>1 DEF TxAnswered, Answered
<1>3. /\ line[t] # <<>> /\ waits' = [waits EXCEPT ![t] = @ \ {a}]
      /\ txMap' = (IF a \in {"commit", "rollback"} THEN txMap \ {t} ELSE txMap)
      /\ UNCHANGED <<dbConf, recVars, callVars, begun, crossed, due>>
  BY <1>1 DEF TxAnswered
<1>4. DbTypes /\ PoolStarts /\ TunnelIsOwned /\ (\A k \in DbCall : CallRuns(k)) /\ (\A x \in Tx : Sent(x))
  BY DEF PoolInv
<1>5. CASE ~good /\ a = "commit" /\ engine = "mysql" /\ Destroy(tslot[t])
  <2>1. told' = [told EXCEPT ![t] = @ \cup {"refused"}] \/ told' = told
    BY <1>2, <1>4, <1>5 DEF DbTypes
  <2>2. txMap' = txMap \ {t}
    BY <1>3, <1>5
  <2> QED BY <1>1, <1>3, <1>5, <2>1, <2>2, TxRefusedKeeps
<1>6. CASE /\ good \/ a = "exec" \/ engine = "pg"
           /\ Answered(t, a, good, ends) /\ UNCHANGED tslot
  <2>1. AnswerDone(t, a, good, ends)
    BY <1>1, <1>3, <1>6, AnswerDoes
  <2>2. UNCHANGED <<engine, tunneled, rec, tunnel, pool, closing, dop, dpc, unit, again, answer, late>>
    BY <1>3 DEF dbConf, recVars, callVars
  <2>3. waits' \in [Tx -> SUBSET Activities] /\ waits'[t] = waits[t] \ {a} /\ \A x \in Tx \ {t} : waits'[x] = waits[x]
    BY <1>3, <1>4 DEF DbTypes
  <2>4. a \in Activities
    BY <2>1 DEF AnswerDone
  <2>5. PICK news \in SUBSET (Activities \cup {"refused"}) : told' = [told EXCEPT ![t] = @ \cup news]
    <3>1. told[t] = told[t] \cup {}
      OBVIOUS
    <3>2. \/ told' = [told EXCEPT ![t] = @ \cup {}]
          \/ told' = [told EXCEPT ![t] = @ \cup {a}]
          \/ told' = [told EXCEPT ![t] = @ \cup {"refused"}]
      BY <1>2, <3>1
    <3> QED BY <2>4, <3>2
  <2>6. told' \in [Tx -> SUBSET (Activities \cup {"refused"})] /\ \A x \in Tx \ {t} : told'[x] = told[x]
    BY <1>4, <2>5 DEF DbTypes
  <2>7. DbTypes'
    <3>1. /\ line' \in [Tx -> Seq(Activities)] /\ work' \in [Tx -> {"none", "pending", "kept", "undone", "loose"}]
          /\ holder' \in [Slot -> DbCall \cup Tx \cup {Nobody}] /\ cond' \in [Slot -> {"none", "clean", "tx", "broken"}]
      BY <2>1 DEF AnswerDone
    <3>2. txMap' \subseteq Tx
      BY <1>3, <1>4 DEF DbTypes
    <3> QED BY <1>3, <1>4, <1>6, <2>2, <2>3, <2>6, <3>1, <3>2 DEF DbTypes
  <2>8. PoolStarts' /\ TunnelIsOwned' /\ \A k \in DbCall : CallRuns(k)'
    <3>1. \A u \in Slot : holder'[u] \in {Nobody, holder[u]}
      BY <2>1 DEF AnswerDone
    <3> QED BY <1>4, <2>2, <3>1 DEF PoolStarts, TunnelIsOwned, CallRuns
  <2>9. Sent(t)'
    <3>1. line'[t] = Tail(line[t]) /\ (t \in txMap' => t \in txMap)
      BY <1>3, <2>1 DEF AnswerDone
    <3> QED BY <1>1, <1>3, <1>4, <1>6, <2>3, <3>1, SentOnAnswer
  <2>10. ASSUME NEW x \in Tx \ {t} PROVE Sent(x)'
    <3>1. line'[x] = line[x] /\ work'[x] = work[x] /\ (x \in txMap' <=> x \in txMap)
      BY <1>3, <2>1 DEF AnswerDone
    <3> QED BY <1>3, <1>4, <1>6, <2>3, <2>6, <3>1, SentStays
  <2>11. ASSUME crossed' = {} PROVE Apart'
    <3>1. crossed = {} /\ Apart /\ Held /\ Flight(t)
      BY <1>3, <2>11 DEF PoolInv, Apart
    <3>2. CASE waits[t] = {}
      <4>1. told' = told
        BY <1>2, <1>4, <3>2 DEF DbTypes
      <4>2. line[t] = <<"dispose">>
        BY <1>3, <3>1, <3>2 DEF Flight
      <4>3. txMap' = txMap
        BY <1>1, <1>3, <4>2
      <4>4. UNCHANGED <<engine, begun, txMap, tslot, told, dpc>> /\ waits' = [waits EXCEPT ![t] = @ \ {a}]
        BY <1>3, <1>6, <2>2, <4>1, <4>3
      <4>5. PoolInv /\ Apart /\ line[t] # <<>> /\ waits[t] = {} /\ a = Head(line[t]) /\ Answered(t, a, good, ends)
        BY <1>1, <1>3, <1>6, <3>1, <3>2
      <4>6. LateAnswer(t, a, good, ends)
        BY <4>4, <4>5 DEF LateAnswer
      <4> QED BY <4>6, LateAnswerKeeps
    <3>3. CASE waits[t] # {}
      <4>1. a \in waits[t]
        <5>1. PICK b \in Activities : waits[t] = {b} /\ line[t] = <<b>>
          BY <3>1, <3>3 DEF Flight
        <5> QED BY <1>1, <5>1
      <4>2. holder[tslot[t]] = t
        BY <3>1, <3>3 DEF Held, HasTx
      <4>3. told' = [told EXCEPT ![t] = @ \cup {IF good THEN a ELSE "refused"}]
        BY <1>2, <4>1, <4>2
      <4>4. UNCHANGED <<engine, begun, tslot, dpc>> /\ waits' = [waits EXCEPT ![t] = @ \ {a}]
            /\ txMap' = (IF a \in {"commit", "rollback"} THEN txMap \ {t} ELSE txMap)
        BY <1>3, <1>6, <2>2
      <4>5. /\ PoolInv /\ Apart /\ line[t] # <<>> /\ waits[t] # {} /\ a = Head(line[t]) /\ Answered(t, a, good, ends)
            /\ (a \in {"rollback", "dispose"} => good) /\ (good \/ a = "exec" \/ engine = "pg")
            /\ (ends => EndsItself(tslot[t], a))
        BY <1>1, <1>2, <1>3, <1>6, <3>1, <3>3
      <4>6. AwaitedAnswer(t, a, good, ends)
        BY <4>3, <4>4, <4>5 DEF AwaitedAnswer
      <4> QED BY <4>6, AwaitedAnswerKeeps
    <3> QED BY <3>2, <3>3
  <2> QED BY <2>7, <2>8, <2>9, <2>10, <2>11 DEF PoolInv
<1> QED BY <1>2, <1>5, <1>6

-----------------------------------------------------------------------------
(* The pool on its own.                                                    *)
PoolSpec == DbInit /\ [][DbNext]_dbVars

LEMMA PoolStep == PoolInv /\ [DbNext]_dbVars => PoolInv'
<1> SUFFICES ASSUME PoolInv, [DbNext]_dbVars PROVE PoolInv'
  OBVIOUS
<1>1. CASE Connect \/ Connected \/ ConnectFails \/ EndPool \/ Disconnected
  BY <1>1, RecordMoves
<1>2. CASE TransportLoss \/ Disconnect
  BY <1>2, RecordKeeps
<1>3. ASSUME NEW k \in DbCall,
             \/ StartCall(k) \/ Checkout(k) \/ CheckoutLost(k) \/ LateCheckout(k) \/ PingOk(k) \/ PingFails(k)
             \/ StmtDone(k) \/ StmtLost(k) \/ ResetEnds(k)
      PROVE  PoolInv'
  BY <1>3, StartCallKeeps, CheckoutsKeep, PingsKeep, StmtDoneKeeps, StmtLostKeeps, ResetEndsKeeps
<1>4. ASSUME NEW t \in Tx,
             \/ TxBegin(t) \/ TxCheckout(t) \/ TxStarted(t) \/ TxBeginLost(t)
             \/ IdleTimeout(t) \/ TxAnswered(t) \/ DisposeNext(t)
             \/ \E a \in Activities : TxRequest(t, a) \/ TxLost(t, a)
      PROVE  PoolInv'
  BY <1>4, TxBeginKeeps, TxStartedKeeps, TxBeginLostKeeps, TxRequestsKeep, TxAnsweredKeeps, TxLostKeeps
<1>5. CASE UNCHANGED dbVars
  <2>1. UNCHANGED <<dbConf, recVars, slotVars, callVars, txVars>>
    BY <1>5 DEF dbVars
  <2>2. UNCHANGED <<engine, tunneled, rec, tunnel, pool, closing, holder, cond, dop, dpc, unit, again, answer, late,
                    begun, txMap, tslot, line, waits, crossed, told, work, due>>
    BY <2>1 DEF dbConf, recVars, slotVars, callVars, txVars
  <2>3. DbTypes' /\ PoolStarts' /\ TunnelIsOwned' /\ (\A k \in DbCall : CallRuns(k)')
    BY <2>2 DEF PoolInv, DbTypes, PoolStarts, TunnelIsOwned, CallRuns
  <2>4. \A t \in Tx : Sent(t)'
    BY <2>2 DEF PoolInv, Sent
  <2>5. crossed' = {} => Apart'
    BY <2>2, ApartStays DEF PoolInv
  <2> QED BY <2>3, <2>4, <2>5 DEF PoolInv
<1> QED BY <1>1, <1>2, <1>3, <1>4, <1>5 DEF DbNext

(* The inductive invariant of the pool: who holds what, what is in flight, *)
(* and, until two commands meet on a transaction, what the server made of  *)
(* it and what was reported.                                               *)
THEOREM PoolInvariant == PoolSpec => []PoolInv
BY PoolBegins, PoolStep, PTL DEF PoolSpec

LEMMA PoolInvSound == PoolInv => PoolSound
<1> SUFFICES ASSUME PoolInv PROVE PoolSound
  OBVIOUS
<1> USE PoolAssumption
<1>1. DbTypes /\ TunnelIsOwned
  BY DEF PoolInv
<1>2. ASSUME crossed = {}, NEW s \in Slot PROVE Using(s) = {holder[s]} \ {Nobody}
  <2>1. Held /\ holder[s] \in DbCall \cup Tx \cup {Nobody}
    BY <1>1, <1>2 DEF PoolInv, Apart, DbTypes
  <2>2. \A k \in DbCall : holder[s] = k => dpc[k] \in InHand
    BY <2>1 DEF Held
  <2>3. {k \in DbCall : holder[s] = k /\ dpc[k] \in {"ping", "stmt", "reset", "resetdead"}} = {k \in DbCall : holder[s] = k}
    BY <2>2 DEF InHand
  <2>4. {t \in Tx : tslot[t] = s /\ (begun[t] = "begin" \/ t \in txMap \/ waits[t] # {})} = {t \in Tx : holder[s] = t}
    BY <2>1 DEF Held, HasTx
  <2>5. Using(s) = {k \in DbCall : holder[s] = k} \cup {t \in Tx : holder[s] = t}
    BY <2>3, <2>4 DEF Using
  <2> QED BY <2>1, <2>5
<1>3. ASSUME crossed = {}, NEW s \in Slot, holder[s] = Nobody, InTx(s)
      PROVE  \E t \in Tx : tslot[t] = s /\ RollingBack(t)
  <2>1. Seen(s) /\ Nobody \notin Tx
    BY <1>3 DEF PoolInv, Apart
  <2> QED BY <1>3, <2>1 DEF Seen
<1> QED BY <1>1, <1>2, <1>3 DEF PoolSound, SlotsAccounted, FreeIsClean

(* For every number of calls, transactions and slots: a pooled connection  *)
(* is either free or in the hands of the one caller that uses it, and does *)
(* not come back inside a transaction, unless two commands met; a tunnel   *)
(* lives no longer than its connection.                                    *)
THEOREM PoolIsSound == PoolSpec => []PoolSound
BY PoolInvariant, PoolInvSound, PTL

LEMMA PoolInvHonest == PoolInv => TxHonest
<1> SUFFICES ASSUME PoolInv, crossed = {}, NEW t \in Tx
             PROVE  /\ "commit" \in told[t] /\ (engine = "pg" => "refused" \notin told[t]) => work[t] # "undone"
                    /\ "commit" \in told[t] => "rollback" \notin told[t] /\ "dispose" \notin told[t]
                    /\ "rollback" \in told[t] \/ "dispose" \in told[t] => work[t] # "kept"
  BY DEF TxHonest
<1>1. Reported(t)
  BY DEF PoolInv, Apart
<1> QED BY <1>1 DEF Reported

(* What dbTxCommit and dbTxRollback report is what happened to the work,   *)
(* for every number of transactions.                                       *)
THEOREM TransactionsAreHonest == PoolSpec => []TxHonest
BY PoolInvariant, PoolInvHonest, PTL

LEMMA PoolInvTyped == PoolInv => DbTypeOK
<1> SUFFICES ASSUME PoolInv PROVE DbTypeOK
  OBVIOUS
<1>1. DbTypes
  BY DEF PoolInv
<1>2. ASSUME NEW t \in Tx PROVE line[t] \in Seq(Activities) /\ Len(line[t]) <= 4
  <2>1. line[t] \in Seq(Activities)
    BY <1>1 DEF DbTypes
  <2>2. PICK n \in Nat : n = Len(line[t])
    BY <2>1
  <2>3. \A i, j \in 1 .. n : line[t][i] = line[t][j] => i = j
    BY <2>2 DEF PoolInv, Sent
  <2>4. \A i \in 1 .. n : line[t][i] \in {"exec", "commit", "rollback", "dispose"}
    BY <2>1, <2>2 DEF Activities, Finishing
  <2>5. n <= 4
    <3> SUFFICES ASSUME n >= 5 PROVE FALSE
      OBVIOUS
    <3>1. 1 \in 1 .. n /\ 2 \in 1 .. n /\ 3 \in 1 .. n /\ 4 \in 1 .. n /\ 5 \in 1 .. n
      OBVIOUS
    <3>2. /\ line[t][1] # line[t][2] /\ line[t][1] # line[t][3] /\ line[t][1] # line[t][4] /\ line[t][1] # line[t][5]
          /\ line[t][2] # line[t][3] /\ line[t][2] # line[t][4] /\ line[t][2] # line[t][5]
          /\ line[t][3] # line[t][4] /\ line[t][3] # line[t][5] /\ line[t][4] # line[t][5]
      BY <2>3, <3>1
    <3> QED BY <2>4, <3>1, <3>2
  <2> QED BY <2>1, <2>2, <2>5
<1> QED BY <1>1, <1>2 DEF DbTypes, DbTypeOK

(* The state of the pool stays within its types; in particular at most     *)
(* four requests are ever in flight on one transaction.                    *)
THEOREM PoolTypeCorrect == PoolSpec => []DbTypeOK
BY PoolInvariant, PoolInvTyped, PTL

-----------------------------------------------------------------------------
(* The guard of destructive statements.                                    *)
LEMMA NatMin ==
  ASSUME NEW T, T \subseteq Nat, T # {}
  PROVE  \E x \in T : \A y \in T : x <= y
<1> DEFINE R == OpToRel(<, Nat)
<1>1. \E x \in T : \A y \in T : ~(<<y, x>> \in R)
  <2>1. IsWellFoundedOn(R, Nat)
    BY NatLessThanWellFounded
  <2> HIDE DEF R
  <2> QED BY <2>1, WFMin
<1>2. \A x, y \in T : y < x => <<y, x>> \in R
  BY DEF OpToRel
<1> HIDE DEF R
<1>3. PICK x \in T : \A y \in T : ~(<<y, x>> \in R)
  BY <1>1
<1>4. \A y \in T : ~(y < x)
  BY <1>2, <1>3
<1> QED BY <1>4

GuardSpec == GuardInit /\ [][GuardNext]_guardVars

(* What was asked is known from the start of a request to its answer, and  *)
(* only the operator's requests reach the final DROP.                      *)
Asked(g) ==
  /\ gpc[g] = "idle" <=> greq[g] = NoTable
  /\ gpc[g] = "purge" => greq[g].origin = "panel" /\ greq[g].name \in Quarantine

GuardInv ==
  /\ GuardTypeOK /\ NothingDropped
  /\ greq \in [Guarded -> Requests \cup {NoTable}] /\ took \in [Guarded -> 0 .. MaxBorn]
  /\ \E codes : reply \in [Guarded -> [code : codes, to : Names \cup {NoTable}]]
  /\ \A g \in Guarded : Asked(g)

(* The first name of the day that is not taken is one of today's names.    *)
LEMMA CandidateIsFree ==
  ASSUME NEW names, Quarantine \ names # {}
  PROVE  Candidate(names) \in Quarantine \ names
<1> DEFINE free == Quarantine \ names
<1>1. free \subseteq Nat
  BY GuardAssumption DEF Quarantine
<1>2. PICK c \in free : \A d \in free : c <= d
  BY <1>1, NatMin
<1> QED BY <1>2 DEF Candidate

(* A rename to a free name keeps every table.                              *)
LEMMA RenameKeeps ==
  ASSUME store \in [Names -> 0 .. MaxBorn], NEW n \in Names, NEW to \in Names, store[n] # 0, store[to] = 0,
         NEW moved, moved = RenamedStore(n, to)
  PROVE  /\ moved \in [Names -> 0 .. MaxBorn]
         /\ \A m \in Names : moved[m] # 0 => \E k \in Exists : store[k] = moved[m]
         /\ \A k \in Exists : \E m \in Names : moved[m] # 0 /\ moved[m] = store[k]
<1>1. n # to /\ 0 \in 0 .. MaxBorn
  BY GuardAssumption
<1>2. /\ moved \in [Names -> 0 .. MaxBorn] /\ moved[n] = 0 /\ moved[to] = store[n]
      /\ \A m \in Names \ {n, to} : moved[m] = store[m]
  BY <1>1 DEF RenamedStore
<1>3. \A m \in Names : moved[m] # 0 => \E k \in Exists : store[k] = moved[m]
  BY <1>2 DEF Exists
<1>4. \A k \in Exists : \E m \in Names : moved[m] # 0 /\ moved[m] = store[k]
  BY <1>2 DEF Exists
<1> QED BY <1>2, <1>3, <1>4

LEMMA GuardBegins == GuardInit => GuardInv
<1> SUFFICES ASSUME GuardInit PROVE GuardInv
  OBVIOUS
<1> USE GuardAssumption, RequestAssumption
<1>1. 1 \in 0 .. MaxBorn /\ 0 \in 0 .. MaxBorn /\ Plain \in Names
  BY DEF Names
<1>2. store \in [Names -> 0 .. MaxBorn] /\ \A n \in Names : (store[n] = 1 <=> n = Plain) /\ (store[n] = 0 <=> n # Plain)
  BY <1>1 DEF GuardInit
<1>3. GuardTypeOK
  BY <1>1, <1>2 DEF GuardInit, GuardTypeOK
<1>4. Exists = {Plain} /\ store[Plain] = 1
  BY <1>1, <1>2 DEF Exists
<1>5. 1 .. bornTables = purged \cup {store[n] : n \in Exists} /\ purged = {}
  BY <1>4 DEF GuardInit
<1>6. \A g \in Guarded : reply[g].code = "none" /\ gpc[g] = "idle" /\ greq[g] = NoTable
  BY DEF GuardInit, NoReply
<1>7. reply \in [Guarded -> [code : {"none"}, to : Names \cup {NoTable}]]
  BY DEF GuardInit, NoReply
<1>8. greq \in [Guarded -> Requests \cup {NoTable}] /\ took \in [Guarded -> 0 .. MaxBorn]
  BY <1>1 DEF GuardInit
<1>9. NothingDropped
  BY <1>5, <1>6 DEF NothingDropped
<1>10. \A g \in Guarded : Asked(g)
  BY <1>6 DEF Asked
<1> QED BY <1>3, <1>7, <1>8, <1>9, <1>10 DEF GuardInv

(* A request is answered.                                                  *)
LEMMA Answering ==
  ASSUME NEW g \in Guarded, NEW codes, reply \in [Guarded -> [code : codes, to : Names \cup {NoTable}]],
         gpc \in [Guarded -> {"idle", "backup", "dump", "list", "rename", "purge", "end"}],
         NEW c, NEW to \in Names \cup {NoTable}, Answer(g, c, to)
  PROVE  /\ \E other : reply' \in [Guarded -> [code : other, to : Names \cup {NoTable}]]
         /\ gpc' \in [Guarded -> {"idle", "backup", "dump", "list", "rename", "purge", "end"}]
         /\ gpc'[g] = "end" /\ reply'[g].code = c /\ reply'[g].to = to
         /\ \A h \in Guarded \ {g} : gpc'[h] = gpc[h] /\ reply'[h] = reply[h]
<1> DEFINE r == [code |-> c, to |-> to]
           other == codes \cup {c}
<1>1. gpc' = [gpc EXCEPT ![g] = "end"] /\ reply' = [reply EXCEPT ![g] = r]
  BY DEF Answer, Go
<1>2. r \in [code : other, to : Names \cup {NoTable}] /\ r.code = c /\ r.to = to
  OBVIOUS
<1>3. \A h \in Guarded : reply[h] \in [code : other, to : Names \cup {NoTable}]
  OBVIOUS
<1> HIDE DEF r, other
<1>4. reply' \in [Guarded -> [code : other, to : Names \cup {NoTable}]] /\ reply'[g] = r
  BY <1>1, <1>2, <1>3
<1>5. \A h \in Guarded \ {g} : gpc'[h] = gpc[h] /\ reply'[h] = reply[h]
  BY <1>1
<1> QED BY <1>1, <1>2, <1>4, <1>5

(* A step of a request that leaves the tables alone.                       *)
LEMMA RequestKeeps ==
  ASSUME GuardInv, NEW g \in Guarded, UNCHANGED <<store, bornTables, purged>>,
         gpc' \in [Guarded -> {"idle", "backup", "dump", "list", "rename", "purge", "end"}], gpc'[g] # "idle",
         \A h \in Guarded \ {g} : gpc'[h] = gpc[h] /\ greq'[h] = greq[h] /\ reply'[h] = reply[h],
         copy' \in [Guarded -> SUBSET (1 .. MaxBorn)], seen' \in [Guarded -> SUBSET Names],
         greq' \in [Guarded -> Requests \cup {NoTable}], greq'[g] # NoTable, greq'[g] = greq[g] \/ gpc[g] = "idle",
         gpc'[g] = "purge" => greq'[g].origin = "panel" /\ greq'[g].name \in Quarantine,
         took' = took, \E codes : reply' \in [Guarded -> [code : codes, to : Names \cup {NoTable}]],
         reply'[g].code = "quarantined" => reply'[g] = reply[g]
  PROVE  GuardInv'
<1> USE GuardAssumption, RequestAssumption
<1>1. GuardTypeOK'
  BY DEF GuardInv, GuardTypeOK
<1>2. \A h \in Guarded : Asked(h)'
  BY DEF GuardInv, Asked
<1>3. Exists' = Exists /\ {store'[n] : n \in Exists'} = {store[n] : n \in Exists}
  BY DEF Exists
<1>4. \A h \in Guarded : reply'[h].code = "quarantined" => took'[h] # 0 /\ reply'[h].to \in Quarantine
  BY DEF GuardInv, NothingDropped
<1>5. ASSUME purged # {} PROVE \E h \in Guarded : greq'[h] # NoTable /\ greq'[h].origin = "panel"
  <2>1. PICK h \in Guarded : greq[h] # NoTable /\ greq[h].origin = "panel"
    BY <1>5 DEF GuardInv, NothingDropped
  <2>2. greq'[h] = greq[h]
    BY <2>1 DEF GuardInv, Asked
  <2> QED BY <2>1, <2>2
<1>6. NothingDropped'
  BY <1>3, <1>4, <1>5 DEF GuardInv, NothingDropped
<1> QED BY <1>1, <1>2, <1>6 DEF GuardInv

(* ... because it is refused or fails.                                     *)
LEMMA RefusalKeeps ==
  ASSUME GuardInv, NEW g \in Guarded, UNCHANGED <<store, bornTables, purged, took>>, NEW c, c # "quarantined", Answer(g, c, NoTable),
         copy' \in [Guarded -> SUBSET (1 .. MaxBorn)], seen' \in [Guarded -> SUBSET Names],
         greq' \in [Guarded -> Requests \cup {NoTable}], greq'[g] # NoTable, greq'[g] = greq[g] \/ gpc[g] = "idle",
         \A h \in Guarded \ {g} : greq'[h] = greq[h]
  PROVE  GuardInv'
<1>1. PICK codes : reply \in [Guarded -> [code : codes, to : Names \cup {NoTable}]]
  BY DEF GuardInv
<1>2. gpc \in [Guarded -> {"idle", "backup", "dump", "list", "rename", "purge", "end"}]
  BY DEF GuardInv, GuardTypeOK
<1>3. /\ \E other : reply' \in [Guarded -> [code : other, to : Names \cup {NoTable}]]
      /\ gpc' \in [Guarded -> {"idle", "backup", "dump", "list", "rename", "purge", "end"}]
      /\ gpc'[g] = "end" /\ reply'[g].code = c
      /\ \A h \in Guarded \ {g} : gpc'[h] = gpc[h] /\ reply'[h] = reply[h]
  BY <1>1, <1>2, Answering
<1> QED BY <1>3, RequestKeeps

(* A step that changes the tables: a request that ends, or the server's    *)
(* other clients.                                                          *)
LEMMA TablesKeep ==
  ASSUME GuardInv, NEW S \in SUBSET Guarded, UNCHANGED <<greq, copy, seen>>,
         store' \in [Names -> 0 .. MaxBorn], bornTables' \in 0 .. MaxBorn, purged' \subseteq 1 .. MaxBorn,
         1 .. bornTables' = purged' \cup {store'[n] : n \in Exists'},
         gpc' \in [Guarded -> {"idle", "backup", "dump", "list", "rename", "purge", "end"}],
         \A g \in S : gpc[g] # "idle" /\ gpc'[g] = "end",
         \A g \in Guarded \ S : gpc'[g] = gpc[g] /\ reply'[g] = reply[g] /\ took'[g] = took[g],
         took' \in [Guarded -> 0 .. MaxBorn], \E codes : reply' \in [Guarded -> [code : codes, to : Names \cup {NoTable}]],
         \A g \in S : reply'[g].code = "quarantined" => took'[g] # 0 /\ reply'[g].to \in Quarantine,
         purged' # purged => \E g \in S : gpc[g] = "purge"
  PROVE  GuardInv'
<1> USE GuardAssumption, RequestAssumption
<1>1. GuardTypeOK'
  BY DEF GuardInv, GuardTypeOK
<1>2. \A h \in Guarded : Asked(h)'
  BY DEF GuardInv, Asked
<1>3. \A h \in Guarded : reply'[h].code = "quarantined" => took'[h] # 0 /\ reply'[h].to \in Quarantine
  BY DEF GuardInv, NothingDropped
<1>4. purged' # {} => \E h \in Guarded : greq'[h] # NoTable /\ greq'[h].origin = "panel"
  <2>1. CASE purged' = purged
    BY <2>1 DEF GuardInv, NothingDropped
  <2>2. CASE purged' # purged
    BY <2>2 DEF GuardInv, Asked
  <2> QED BY <2>1, <2>2
<1>5. NothingDropped'
  BY <1>3, <1>4 DEF NothingDropped
<1> QED BY <1>1, <1>2, <1>5 DEF GuardInv

LEMMA GuardStep == GuardInv /\ [GuardNext]_guardVars => GuardInv'
<1> SUFFICES ASSUME GuardInv, [GuardNext]_guardVars PROVE GuardInv'
  OBVIOUS
<1> USE GuardAssumption, RequestAssumption
<1>1. /\ GuardTypeOK /\ greq \in [Guarded -> Requests \cup {NoTable}] /\ took \in [Guarded -> 0 .. MaxBorn]
      /\ gpc \in [Guarded -> {"idle", "backup", "dump", "list", "rename", "purge", "end"}]
      /\ \A g \in Guarded : Asked(g)
  BY DEF GuardInv, GuardTypeOK
<1>2. PICK codes : reply \in [Guarded -> [code : codes, to : Names \cup {NoTable}]]
  BY DEF GuardInv
<1>3. ASSUME NEW g \in Guarded, gpc[g] # "idle" PROVE greq[g] \in Requests /\ greq[g] # NoTable
  BY <1>1, <1>3 DEF Asked
<1>A. ASSUME NEW g \in Guarded, gpc[g] # "idle", greq' = greq
       PROVE  /\ greq' \in [Guarded -> Requests \cup {NoTable}] /\ greq'[g] # NoTable /\ greq'[g] = greq[g]
              /\ \A h \in Guarded \ {g} : greq'[h] = greq[h]
  BY <1>1, <1>3, <1>A
<1>4. ASSUME NEW g \in Guarded, NEW at \in {"backup", "dump", "list", "rename", "purge", "end"}, Go(g, at)
      PROVE  /\ gpc' \in [Guarded -> {"idle", "backup", "dump", "list", "rename", "purge", "end"}] /\ gpc'[g] = at
             /\ \A h \in Guarded \ {g} : gpc'[h] = gpc[h]
  BY <1>1, <1>4 DEF Go
<1>5. ASSUME NEW g \in Guarded, GuardDestructiveSql(g) PROVE GuardInv'
  <2>1. PICK r \in Requests :
          /\ greq' = [greq EXCEPT ![g] = r]
          /\ \/ \E c \in {"blocked"} : Answer(g, c, NoTable)
             \/ \E at \in {"dump", "backup"} : Go(g, at) /\ UNCHANGED reply
             \/ r.name \in Quarantine /\ MayPurge(r) /\ Go(g, "purge") /\ UNCHANGED reply
    BY <1>5 DEF GuardDestructiveSql
  <2>2. gpc[g] = "idle" /\ UNCHANGED <<store, bornTables, purged, copy, seen, took>>
    BY <1>5 DEF GuardDestructiveSql
  <2>3. /\ greq' \in [Guarded -> Requests \cup {NoTable}] /\ greq'[g] = r /\ r # NoTable
        /\ \A h \in Guarded \ {g} : greq'[h] = greq[h]
    BY <1>1, <2>1
  <2>4. copy' \in [Guarded -> SUBSET (1 .. MaxBorn)] /\ seen' \in [Guarded -> SUBSET Names]
    BY <1>1, <2>2 DEF GuardTypeOK
  <2>5. CASE Answer(g, "blocked", NoTable)
    BY <2>2, <2>3, <2>4, <2>5, RefusalKeeps
  <2>6. ASSUME NEW at \in {"dump", "backup"}, Go(g, at), UNCHANGED reply PROVE GuardInv'
    BY <1>2, <1>4, <2>2, <2>3, <2>4, <2>6, RequestKeeps
  <2>7. CASE r.name \in Quarantine /\ MayPurge(r) /\ Go(g, "purge") /\ UNCHANGED reply
    BY <1>2, <1>4, <2>2, <2>3, <2>4, <2>7, RequestKeeps DEF MayPurge
  <2> QED BY <2>1, <2>5, <2>6, <2>7
<1>6. ASSUME NEW g \in Guarded, DumpDatabase(g) PROVE GuardInv'
  <2>1. PICK some \in SUBSET {store[n] : n \in Exists} : copy' = [copy EXCEPT ![g] = some]
    BY <1>6 DEF DumpDatabase
  <2>2. some \in SUBSET (1 .. MaxBorn)
    BY <1>1 DEF GuardTypeOK, Exists
  <2>3. copy' \in [Guarded -> SUBSET (1 .. MaxBorn)] /\ seen' \in [Guarded -> SUBSET Names]
    BY <1>1, <1>6, <2>1, <2>2 DEF GuardTypeOK, DumpDatabase
  <2>4. gpc[g] = "dump" /\ Answer(g, "blocked", NoTable) /\ UNCHANGED <<store, bornTables, purged, greq, seen, took>>
    BY <1>6 DEF DumpDatabase
  <2> QED BY <1>A, <2>3, <2>4, RefusalKeeps
<1>7. ASSUME NEW g \in Guarded, BackupTableSnapshot(g) PROVE GuardInv'
  <2>1. PICK got \in {{store[greq[g].name]} \ {0}, {}} : copy' = [copy EXCEPT ![g] = got]
    BY <1>7 DEF BackupTableSnapshot
  <2>2. /\ gpc[g] = "backup" /\ UNCHANGED <<store, bornTables, purged, greq, seen, took>>
        /\ Answer(g, "blocked", NoTable) \/ (Go(g, "list") /\ UNCHANGED reply)
    BY <1>7 DEF BackupTableSnapshot
  <2>3. greq[g].name \in Names
    BY <1>3, <2>2 DEF Requests
  <2>4. got \in SUBSET (1 .. MaxBorn)
    <3>1. store[greq[g].name] \in 0 .. MaxBorn
      BY <1>1, <2>3 DEF GuardTypeOK
    <3> QED BY <3>1
  <2>5. copy' \in [Guarded -> SUBSET (1 .. MaxBorn)] /\ seen' \in [Guarded -> SUBSET Names]
    BY <1>1, <2>1, <2>2, <2>4 DEF GuardTypeOK
  <2>6. CASE Answer(g, "blocked", NoTable)
    BY <1>A, <2>2, <2>5, <2>6, RefusalKeeps
  <2>7. CASE Go(g, "list") /\ UNCHANGED reply
    BY <1>1, <1>2, <1>3, <1>4, <2>2, <2>5, <2>7, RequestKeeps
  <2> QED BY <2>2, <2>6, <2>7
<1>8. ASSUME NEW g \in Guarded, ListForRename(g) PROVE GuardInv'
  <2>1. /\ gpc[g] = "list" /\ UNCHANGED <<store, bornTables, purged, greq, copy, took>>
        /\ \/ \E c \in {"blocked", "absent"} : Answer(g, c, NoTable) /\ UNCHANGED seen
           \/ seen' = [seen EXCEPT ![g] = Exists] /\ Go(g, "rename") /\ UNCHANGED reply
    BY <1>8 DEF ListForRename
  <2>2. copy' \in [Guarded -> SUBSET (1 .. MaxBorn)] /\ seen' \in [Guarded -> SUBSET Names]
    BY <1>1, <2>1 DEF GuardTypeOK, Exists
  <2>3. ASSUME NEW c \in {"blocked", "absent"}, Answer(g, c, NoTable) PROVE GuardInv'
    BY <1>A, <2>1, <2>2, <2>3, RefusalKeeps
  <2>4. CASE Go(g, "rename") /\ UNCHANGED reply
    BY <1>1, <1>2, <1>3, <1>4, <2>1, <2>2, <2>4, RequestKeeps
  <2> QED BY <2>1, <2>3, <2>4
<1>9. ASSUME NEW g \in Guarded, QuarantineRename(g) PROVE GuardInv'
  <2> DEFINE n == greq[g].name
             to == Candidate(seen[g])
  <2>1. /\ gpc[g] = "rename" /\ Quarantine \ seen[g] # {} /\ UNCHANGED <<bornTables, purged, greq, copy, seen>>
        /\ \/ /\ store[n] # 0 /\ store[to] = 0 /\ store' = RenamedStore(n, to) /\ took' = [took EXCEPT ![g] = store[n]]
              /\ (\E c \in {"quarantined", "moved"} : Answer(g, c, to)) \/ Answer(g, "blocked", NoTable)
           \/ Answer(g, "blocked", NoTable) /\ UNCHANGED <<store, took>>
    BY <1>9 DEF QuarantineRename
  <2>2. n \in Names /\ to \in Quarantine /\ to \in Names
    BY <1>3, <2>1, CandidateIsFree DEF Requests, Names
  <2> HIDE DEF n, to
  <2>3. copy' \in [Guarded -> SUBSET (1 .. MaxBorn)] /\ seen' \in [Guarded -> SUBSET Names]
    BY <1>1, <2>1 DEF GuardTypeOK
  <2>4. CASE Answer(g, "blocked", NoTable) /\ UNCHANGED <<store, took>>
    BY <1>A, <2>1, <2>3, <2>4, RefusalKeeps
  <2>5. CASE /\ store[n] # 0 /\ store[to] = 0 /\ store' = RenamedStore(n, to) /\ took' = [took EXCEPT ![g] = store[n]]
             /\ (\E c \in {"quarantined", "moved"} : Answer(g, c, to)) \/ Answer(g, "blocked", NoTable)
    <3>1. /\ store' \in [Names -> 0 .. MaxBorn]
          /\ {store'[m] : m \in Exists'} = {store[m] : m \in Exists}
      <4>1. store \in [Names -> 0 .. MaxBorn] /\ Exists' = {m \in Names : store'[m] # 0}
        BY <1>1 DEF GuardTypeOK, Exists
      <4>2. /\ store' \in [Names -> 0 .. MaxBorn]
            /\ \A m \in Names : store'[m] # 0 => \E k \in Exists : store[k] = store'[m]
            /\ \A k \in Exists : \E m \in Names : store'[m] # 0 /\ store'[m] = store[k]
        BY <2>2, <2>5, <4>1, RenameKeeps
      <4> QED BY <4>1, <4>2
    <3>2. 1 .. bornTables' = purged' \cup {store'[m] : m \in Exists'} /\ bornTables' \in 0 .. MaxBorn /\ purged' \subseteq 1 .. MaxBorn
      BY <1>1, <2>1, <3>1 DEF GuardInv, NothingDropped, GuardTypeOK
    <3>3. took' \in [Guarded -> 0 .. MaxBorn] /\ took'[g] # 0 /\ \A h \in Guarded \ {g} : took'[h] = took[h]
      <4>1. store[n] \in 0 .. MaxBorn
        BY <1>1, <2>2 DEF GuardTypeOK
      <4> QED BY <1>1, <2>5, <4>1
    <3>4. PICK c, dest : dest \in Names \cup {NoTable} /\ Answer(g, c, dest) /\ (c = "quarantined" => dest = to)
      <4>1. CASE Answer(g, "blocked", NoTable)
        BY <4>1
      <4>2. ASSUME NEW c \in {"quarantined", "moved"}, Answer(g, c, to)
            PROVE  \E d, e : e \in Names \cup {NoTable} /\ Answer(g, d, e) /\ (d = "quarantined" => e = to)
        BY <2>2, <4>2
      <4> QED BY <2>5, <4>1, <4>2
    <3>5. /\ \E other : reply' \in [Guarded -> [code : other, to : Names \cup {NoTable}]]
          /\ gpc' \in [Guarded -> {"idle", "backup", "dump", "list", "rename", "purge", "end"}]
          /\ gpc'[g] = "end" /\ reply'[g].code = c /\ reply'[g].to = dest
          /\ \A h \in Guarded \ {g} : gpc'[h] = gpc[h] /\ reply'[h] = reply[h]
      BY <1>1, <1>2, <3>4, Answering
    <3>6. \A h \in {g} : reply'[h].code = "quarantined" => took'[h] # 0 /\ reply'[h].to \in Quarantine
      BY <2>2, <3>3, <3>4, <3>5
    <3>7. {g} \in SUBSET Guarded /\ \A h \in {g} : gpc[h] # "idle" /\ gpc'[h] = "end"
      BY <2>1, <3>5
    <3> QED BY <2>1, <3>1, <3>2, <3>3, <3>5, <3>6, <3>7, TablesKeep
  <2> QED BY <2>1, <2>4, <2>5 DEF n, to
<1>10. ASSUME NEW g \in Guarded, RunQuarantineSql(g) PROVE GuardInv'
  <2> DEFINE n == greq[g].name
  <2>1. /\ gpc[g] = "purge" /\ UNCHANGED <<bornTables, greq, copy, seen, took>>
        /\ \E c \in {"dropped", "failed"} : Answer(g, c, NoTable)
        /\ \/ UNCHANGED <<store, purged>>
           \/ store[n] # 0 /\ store' = [store EXCEPT ![n] = 0] /\ purged' = purged \cup {store[n]}
    BY <1>10 DEF RunQuarantineSql
  <2>2. n \in Names
    BY <1>3, <2>1 DEF Requests
  <2> HIDE DEF n
  <2>3. /\ store' \in [Names -> 0 .. MaxBorn] /\ bornTables' \in 0 .. MaxBorn /\ purged' \subseteq 1 .. MaxBorn
        /\ 1 .. bornTables' = purged' \cup {store'[m] : m \in Exists'}
    <3>1. CASE UNCHANGED <<store, purged>>
      BY <1>1, <2>1, <3>1 DEF GuardInv, NothingDropped, GuardTypeOK, Exists
    <3>2. CASE store[n] # 0 /\ store' = [store EXCEPT ![n] = 0] /\ purged' = purged \cup {store[n]}
      <4>1. /\ store' \in [Names -> 0 .. MaxBorn] /\ store'[n] = 0 /\ \A m \in Names \ {n} : store'[m] = store[m]
        BY <1>1, <2>2, <3>2 DEF GuardTypeOK
      <4>2. store[n] \in 1 .. MaxBorn
        BY <1>1, <2>2, <3>2 DEF GuardTypeOK
      <4>3. {store[m] : m \in Exists} = {store[n]} \cup {store'[m] : m \in Exists'}
        BY <2>2, <3>2, <4>1 DEF Exists
      <4>4. 1 .. bornTables' = purged' \cup {store'[m] : m \in Exists'}
        BY <2>1, <3>2, <4>3 DEF GuardInv, NothingDropped
      <4> QED BY <1>1, <2>1, <3>2, <4>1, <4>2, <4>4 DEF GuardTypeOK
    <3> QED BY <2>1, <3>1, <3>2
  <2>4. PICK c \in {"dropped", "failed"} : Answer(g, c, NoTable)
    BY <2>1
  <2>5. /\ \E other : reply' \in [Guarded -> [code : other, to : Names \cup {NoTable}]]
        /\ gpc' \in [Guarded -> {"idle", "backup", "dump", "list", "rename", "purge", "end"}]
        /\ gpc'[g] = "end" /\ reply'[g].code = c
        /\ \A h \in Guarded \ {g} : gpc'[h] = gpc[h] /\ reply'[h] = reply[h]
    BY <1>1, <1>2, <2>4, Answering
  <2>6. {g} \in SUBSET Guarded /\ \A h \in {g} : gpc[h] = "purge" /\ gpc[h] # "idle" /\ gpc'[h] = "end" /\ reply'[h].code # "quarantined"
    BY <2>1, <2>5
  <2>7. took' \in [Guarded -> 0 .. MaxBorn] /\ \A h \in Guarded : took'[h] = took[h]
    BY <1>1, <2>1
  <2> QED BY <2>1, <2>3, <2>5, <2>6, <2>7, TablesKeep
<1>11. ASSUME CreateTable \/ \E n \in Quarantine : RenameBack(n) PROVE GuardInv'
  <2>1. UNCHANGED <<purged, gpc, greq, copy, seen, reply, took>>
    BY <1>11 DEF CreateTable, RenameBack
  <2>2. Plain \in Names /\ Quarantine \subseteq Names
    BY DEF Names
  <2>3. /\ store' \in [Names -> 0 .. MaxBorn] /\ bornTables' \in 0 .. MaxBorn
        /\ 1 .. bornTables' = purged' \cup {store'[m] : m \in Exists'}
    <3>1. CASE CreateTable
      <4>1. /\ store[Plain] = 0 /\ bornTables < MaxBorn /\ bornTables \in 0 .. MaxBorn /\ bornTables' = bornTables + 1
            /\ store' = [store EXCEPT ![Plain] = bornTables + 1]
        BY <1>1, <3>1 DEF CreateTable, GuardTypeOK
      <4>2. bornTables + 1 \in 1 .. MaxBorn /\ bornTables' \in 0 .. MaxBorn
        BY <4>1
      <4>3. /\ store' \in [Names -> 0 .. MaxBorn] /\ store'[Plain] = bornTables + 1
            /\ \A m \in Names \ {Plain} : store'[m] = store[m]
        BY <1>1, <2>2, <4>1, <4>2 DEF GuardTypeOK
      <4>4. {store'[m] : m \in Exists'} = {bornTables + 1} \cup {store[m] : m \in Exists}
        BY <2>2, <4>1, <4>2, <4>3 DEF Exists
      <4>5. 1 .. bornTables' = 1 .. bornTables \cup {bornTables + 1}
        BY <4>1
      <4>6. 1 .. bornTables = purged \cup {store[m] : m \in Exists}
        BY DEF GuardInv, NothingDropped
      <4> QED BY <2>1, <4>2, <4>3, <4>4, <4>5, <4>6
    <3>2. ASSUME NEW n \in Quarantine, RenameBack(n)
          PROVE  /\ store' \in [Names -> 0 .. MaxBorn] /\ bornTables' \in 0 .. MaxBorn
                 /\ 1 .. bornTables' = purged' \cup {store'[m] : m \in Exists'}
      <4>1. store[n] # 0 /\ store[Plain] = 0 /\ store' = RenamedStore(n, Plain) /\ bornTables' = bornTables
        BY <3>2 DEF RenameBack
      <4>2. store' \in [Names -> 0 .. MaxBorn] /\ {store'[m] : m \in Exists'} = {store[m] : m \in Exists}
        <5>1. store \in [Names -> 0 .. MaxBorn] /\ Exists' = {m \in Names : store'[m] # 0} /\ n \in Names
          BY <1>1, <2>2 DEF GuardTypeOK, Exists
        <5>2. /\ store' \in [Names -> 0 .. MaxBorn]
              /\ \A m \in Names : store'[m] # 0 => \E k \in Exists : store[k] = store'[m]
              /\ \A k \in Exists : \E m \in Names : store'[m] # 0 /\ store'[m] = store[k]
          BY <2>2, <4>1, <5>1, RenameKeeps
        <5> QED BY <5>1, <5>2
      <4> QED BY <1>1, <2>1, <4>1, <4>2 DEF GuardInv, NothingDropped, GuardTypeOK
    <3> QED BY <1>11, <3>1, <3>2
  <2>4. purged' \subseteq 1 .. MaxBorn
    BY <1>1, <2>1 DEF GuardTypeOK
  <2>5. {} \in SUBSET Guarded /\ \A h \in Guarded \ {} : gpc'[h] = gpc[h] /\ reply'[h] = reply[h] /\ took'[h] = took[h]
    BY <2>1
  <2>6. took' \in [Guarded -> 0 .. MaxBorn] /\ reply' \in [Guarded -> [code : codes, to : Names \cup {NoTable}]]
        /\ gpc' \in [Guarded -> {"idle", "backup", "dump", "list", "rename", "purge", "end"}]
    BY <1>1, <1>2, <2>1
  <2> QED BY <2>1, <2>3, <2>4, <2>5, <2>6, TablesKeep
<1>12. CASE UNCHANGED guardVars
  <2>1. UNCHANGED <<store, bornTables, purged, gpc, greq, copy, seen, reply, took>>
    BY <1>12 DEF guardVars
  <2>2. GuardTypeOK' /\ \A g \in Guarded : Asked(g)'
    BY <1>1, <2>1 DEF GuardTypeOK, Asked
  <2>3. Exists' = Exists
    BY <2>1 DEF Exists
  <2>4. NothingDropped'
    BY <2>1, <2>3 DEF GuardInv, NothingDropped
  <2> QED BY <1>1, <1>2, <2>1, <2>2, <2>4 DEF GuardInv
<1> QED BY <1>5, <1>6, <1>7, <1>8, <1>9, <1>10, <1>11, <1>12 DEF GuardNext

(* What the guard knows of a request, and where every table is.            *)
THEOREM GuardInvariant == GuardSpec => []GuardInv
BY GuardBegins, GuardStep, PTL DEF GuardSpec

LEMMA GuardInvMeans == GuardInv => NothingDropped /\ GuardTypeOK
BY DEF GuardInv

(* However many requests meet on the server, and whatever other clients do *)
(* there: no table disappears but by the operator's DROP.                  *)
THEOREM NothingIsDropped == GuardSpec => []NothingDropped
BY GuardInvariant, GuardInvMeans, PTL

-----------------------------------------------------------------------------
(* The gates.  The lexers read any text without losing their place.        *)
SqlSpec == SqlInit /\ [][SqlNext]_sqlVars

Tok == [word : Words \union {"E", ".", ","}, depth : Nat, isCall : BOOLEAN]
Lexer == [done : Seq(Seq(Tok)), cur : Seq(Tok), depth : Nat,
          at : {"out", "in", "skip", "closing", "line", "block", "dollar"},
          quote : Quotes \union {"E'"}, nest : Nat, wordLast : BOOLEAN]

(* One element later.                                                      *)
Follows(l, n) == n \in Lexer /\ n.depth <= l.depth + 1 /\ n.nest <= l.nest + 1

(* A reading that is still shared has brought the gates' lexer to where    *)
(* the server's stands.                                                    *)
SqlInv ==
  /\ typed \in 0 .. MaxText /\ dialect \in Dialects /\ shared \subseteq {"escaping", "literal"}
  /\ \A l \in {escaping, literal, server} : l \in Lexer /\ l.depth <= typed /\ l.nest <= typed
  /\ ("escaping" \in shared => escaping = server) /\ ("literal" \in shared => literal = server)

(* A word turns out to be the name of a call.                              *)
LEMMA MarkTyped ==
  ASSUME NEW s \in Seq(Tok)
  PROVE  [s EXCEPT ![Len(s)].isCall = TRUE] \in Seq(Tok)
<1>1. PICK n \in Nat : n = Len(s)
  OBVIOUS
<1> DEFINE r == [s EXCEPT ![Len(s)].isCall = TRUE]
<1> DEFINE mark == [s[n] EXCEPT !.isCall = TRUE]
<1>A. r = [s EXCEPT ![n] = mark]
  BY <1>1
<1>2. r = [i \in 1 .. n |-> IF i = n THEN mark ELSE s[i]]
  <2> HIDE DEF mark, r
  <2>1. DOMAIN s = 1 .. n
    BY <1>1
  <2> QED BY <1>A, <2>1
<1>3. \A i \in 1 .. n : s[i] \in Tok /\ (i = n => mark \in Tok)
  <2> SUFFICES ASSUME NEW i \in 1 .. n PROVE s[i] \in Tok /\ (i = n => mark \in Tok)
    OBVIOUS
  <2>1. s[i] \in Tok
    BY <1>1
  <2>2. \A t \in Tok : [t EXCEPT !.isCall = TRUE] \in Tok
    BY DEF Tok
  <2> QED BY <2>1, <2>2
<1>4. r \in [1 .. n -> Tok]
  <2> HIDE DEF r, mark
  <2> QED BY <1>2, <1>3
<1> HIDE DEF r
<1>5. r \in Seq(Tok)
  BY <1>4
<1> QED BY <1>5 DEF r

(* The end of a statement.                                                 *)
LEMMA CloseTyped ==
  ASSUME NEW l \in Lexer
  PROVE  Follows(l, CloseStatement(l))
<1>1. l.done \in Seq(Seq(Tok)) /\ l.cur \in Seq(Tok) /\ <<>> \in Seq(Tok) /\ Append(l.done, l.cur) \in Seq(Seq(Tok))
      /\ l.depth \in Nat /\ l.nest \in Nat
  <2>1. l.done \in Seq(Seq(Tok)) /\ l.cur \in Seq(Tok) /\ l.depth \in Nat /\ l.nest \in Nat
    BY DEF Lexer
  <2> QED BY <2>1
<1> DEFINE ended == IF l.cur = <<>> THEN l.done ELSE Append(l.done, l.cur)
<1>2. ended \in Seq(Seq(Tok))
  BY <1>1
<1>3. CloseStatement(l) = [l EXCEPT !.done = ended, !.cur = <<>>, !.depth = 0]
  BY DEF CloseStatement
<1> HIDE DEF ended
<1> DEFINE n == [l EXCEPT !.done = ended, !.cur = <<>>, !.depth = 0]
<1>4. n \in Lexer /\ n.depth = 0 /\ n.nest = l.nest
  BY <1>1, <1>2 DEF Lexer
<1> HIDE DEF n
<1>5. n.depth <= l.depth + 1 /\ n.nest <= l.nest + 1
  BY <1>1, <1>4
<1> QED BY <1>3, <1>4, <1>5 DEF Follows, n

LEMMA CountsGrow ==
  ASSUME NEW l \in Lexer
  PROVE  l.depth <= l.depth + 1 /\ l.nest <= l.nest + 1
BY DEF Lexer

LEMMA AppendTyped ==
  ASSUME NEW T, NEW s \in Seq(T), NEW t \in T
  PROVE  Append(s, t) \in Seq(T)
OBVIOUS

(* A token at the end of the open statement.                               *)
LEMMA PushTyped ==
  ASSUME NEW l \in Lexer, NEW w \in Words \union {"E", ".", ","}
  PROVE  Follows(l, Push(l, w))
<1>1. l.cur \in Seq(Tok) /\ l.depth \in Nat /\ l.nest \in Nat
  BY DEF Lexer
<1> DEFINE longer == Append(l.cur, Token(l, w))
           n == [l EXCEPT !.cur = longer]
<1>2. Token(l, w) \in Tok
  BY <1>1 DEF Token, Tok
<1>3. longer \in Seq(Tok)
  BY <1>1, <1>2, AppendTyped
<1>4. Push(l, w) = n
  BY DEF Push
<1> HIDE DEF longer
<1>5. n \in Lexer /\ n.depth = l.depth /\ n.nest = l.nest
  BY <1>3 DEF Lexer
<1> HIDE DEF n
<1>6. l.depth <= l.depth + 1 /\ l.nest <= l.nest + 1
  BY CountsGrow
<1>7. n.depth <= l.depth + 1 /\ n.nest <= l.nest + 1
  BY <1>5, <1>6, Zenon
<1> QED BY <1>4, <1>5, <1>7 DEF Follows

(* The parenthesis of a call, or any other.                                *)
LEMMA CalledTyped ==
  ASSUME NEW l \in Lexer
  PROVE  Follows(l, OpenParen(l))
<1>1. l.cur \in Seq(Tok) /\ l.depth \in Nat /\ l.nest \in Nat
  BY DEF Lexer
<1> DEFINE marked == IF l.wordLast THEN [l.cur EXCEPT ![Len(l.cur)].isCall = TRUE] ELSE l.cur
           deeper == l.depth + 1
           n == [l EXCEPT !.depth = deeper, !.cur = marked]
<1>2. marked \in Seq(Tok)
  BY <1>1, MarkTyped
<1>3. deeper \in Nat /\ deeper <= l.depth + 1
  BY <1>1
<1>4. OpenParen(l) = n
  BY DEF OpenParen
<1> HIDE DEF marked, deeper
<1>5. n \in Lexer /\ n.depth = deeper /\ n.nest = l.nest
  BY <1>2, <1>3 DEF Lexer
<1> HIDE DEF n
<1>6. n.depth <= l.depth + 1 /\ n.nest <= l.nest + 1
  BY <1>1, <1>3, <1>5
<1> QED BY <1>4, <1>5, <1>6 DEF Follows

(* The lexer goes elsewhere.                                               *)
LEMMA MovedTyped ==
  ASSUME NEW l \in Lexer
  PROVE  /\ Follows(l, l)
         /\ \A at \in {"out", "in", "skip", "closing", "line", "block", "dollar"} : Follows(l, Enter(l, at))
         /\ \A q \in Quotes \union {"E'"} : Follows(l, OpenString(l, q))
         /\ Follows(l, OpenComment(l)) /\ Follows(l, CloseParen(l))
         /\ Follows(l, [l EXCEPT !.nest = l.nest + 1]) /\ (l.nest > 0 => Follows(l, [l EXCEPT !.nest = l.nest - 1]))
<1>1. l.depth \in Nat /\ l.nest \in Nat /\ l.depth <= l.depth + 1 /\ l.nest <= l.nest + 1 /\ 0 <= l.nest + 1
  BY DEF Lexer
<1>2. Follows(l, l)
  BY <1>1 DEF Follows
<1>3. \A at \in {"out", "in", "skip", "closing", "line", "block", "dollar"} : Follows(l, Enter(l, at))
  BY <1>1 DEF Lexer, Follows, Enter
<1>4. \A q \in Quotes \union {"E'"} : Follows(l, OpenString(l, q))
  BY <1>1 DEF Lexer, Follows, OpenString
<1>5. Follows(l, OpenComment(l))
  BY <1>1 DEF Lexer, Follows, OpenComment
<1>6. ASSUME NEW x \in Nat, x <= l.depth + 1 PROVE Follows(l, [l EXCEPT !.depth = x])
  BY <1>1, <1>6 DEF Lexer, Follows
<1>7. ASSUME NEW y \in Nat, y <= l.nest + 1 PROVE Follows(l, [l EXCEPT !.nest = y])
  BY <1>1, <1>7 DEF Lexer, Follows
<1>8. DepthBelow(l.depth) \in Nat /\ DepthBelow(l.depth) <= l.depth + 1
  BY <1>1 DEF DepthBelow
<1>9. l.nest + 1 \in Nat /\ (l.nest > 0 => l.nest - 1 \in Nat /\ l.nest - 1 <= l.nest + 1)
  BY <1>1
<1>10. Follows(l, CloseParen(l))
  BY <1>6, <1>8 DEF CloseParen
<1>11. Follows(l, [l EXCEPT !.nest = l.nest + 1]) /\ (l.nest > 0 => Follows(l, [l EXCEPT !.nest = l.nest - 1]))
  BY <1>1, <1>7, <1>9
<1> QED BY <1>2, <1>3, <1>4, <1>5, <1>10, <1>11

(* One element outside strings and comments.                               *)
LEMMA OutsideTyped ==
  ASSUME NEW d, d.quotes \subseteq Quotes, NEW l \in Lexer, NEW e \in Elements
  PROVE  Follows(l, OutsideStep(d, l, e))
<1> DEFINE n == Outside(d, l, e)
<1>1. Follows(l, Structure(l, e))
  <2>1. CASE e \in Words \union {".", ","}
    <3>1. Structure(l, e) \in {l, CloseStatement(l), OpenParen(l), CloseParen(l), Push(l, e)}
      BY DEF Structure
    <3> QED BY <2>1, <3>1, PushTyped, MovedTyped, CloseTyped, CalledTyped
  <2>2. CASE e \notin Words \union {".", ","}
    <3>1. Structure(l, e) \in {l, CloseStatement(l), OpenParen(l), CloseParen(l)}
      BY <2>2 DEF Structure
    <3> QED BY <3>1, MovedTyped, CloseTyped, CalledTyped
  <2> QED BY <2>1, <2>2
<1>2. Follows(l, OpenString(Push(l, "E"), "E'"))
  <2> DEFINE p == Push(l, "E")
  <2>1. Follows(l, p) /\ p.depth = l.depth /\ p.nest = l.nest
    BY PushTyped DEF Push, Lexer
  <2> HIDE DEF p
  <2>2. p \in Lexer
    BY <2>1 DEF Follows
  <2>3. Follows(p, OpenString(p, "E'"))
    BY <2>2, MovedTyped
  <2>4. Follows(l, OpenString(p, "E'"))
    BY <2>1, <2>3 DEF Follows
  <2> QED BY <2>4 DEF p
<1>3. \/ n \in {Enter(l, "line"), Enter(l, "dollar"), OpenComment(l), Structure(l, e)}
      \/ e \in d.quotes /\ n = OpenString(l, e)
      \/ n = OpenString(Push(l, "E"), "E'")
  BY DEF Outside
<1> HIDE DEF n
<1>4. Follows(l, n)
  BY <1>1, <1>2, <1>3, MovedTyped
<1>5. n \in Lexer /\ l.wordLast \in BOOLEAN
  BY <1>4 DEF Follows, Lexer
<1> DEFINE b == (e \in Words \/ (e = "eol" /\ l.wordLast))
<1>6. b \in BOOLEAN
  OBVIOUS
<1>7. OutsideStep(d, l, e) = [n EXCEPT !.wordLast = b]
  BY DEF OutsideStep, n
<1> HIDE DEF b
<1>8. [n EXCEPT !.wordLast = b] \in Lexer
      /\ [n EXCEPT !.wordLast = b].depth = n.depth /\ [n EXCEPT !.wordLast = b].nest = n.nest
  BY <1>5, <1>6 DEF Lexer
<1> QED BY <1>4, <1>7, <1>8 DEF Follows

(* One element, wherever the lexer stands.                                 *)
LEMMA ScanTyped ==
  ASSUME NEW d, d.quotes \subseteq Quotes, NEW l \in Lexer, NEW e \in Elements
  PROVE  Follows(l, ScanStep(d, l, e))
<1>1. l.depth \in Nat /\ l.nest \in Nat
      /\ l.at \in {"out", "in", "skip", "closing", "line", "block", "dollar"} /\ l.quote \in Quotes \union {"E'"}
  BY DEF Lexer
<1>2. \A at \in {"out", "in", "skip", "closing", "line", "block", "dollar"} : Follows(l, Enter(l, at)) /\ Follows(l, l)
  BY MovedTyped
<1>3. Follows(l, InBlock(d, l, e))
  <2>1. Follows(l, [l EXCEPT !.nest = l.nest + 1]) /\ (l.nest > 0 => Follows(l, [l EXCEPT !.nest = l.nest - 1]))
    BY MovedTyped
  <2>2. \/ InBlock(d, l, e) \in {l, Enter(l, "out"), [l EXCEPT !.nest = l.nest + 1]}
        \/ l.nest > 0 /\ InBlock(d, l, e) = [l EXCEPT !.nest = l.nest - 1]
    BY DEF InBlock
  <2> QED BY <1>2, <2>1, <2>2
<1>4. Follows(l, InString(d, l, e))
  BY <1>2 DEF InString
<1>5. Follows(l, OutsideStep(d, Enter(l, "out"), e))
  <2>1. Enter(l, "out") \in Lexer /\ Enter(l, "out").depth = l.depth /\ Enter(l, "out").nest = l.nest
    BY DEF Enter, Lexer
  <2> QED BY <2>1, OutsideTyped DEF Follows
<1>6. ScanStep(d, l, e) \in {l, Enter(l, "out"), Enter(l, "in"), Enter(l, "closing"), InBlock(d, l, e),
                             InString(d, l, e), OutsideStep(d, Enter(l, "out"), e)}
  BY DEF ScanStep
<1> QED BY <1>2, <1>3, <1>4, <1>5, <1>6

(* Two readings that take the element alike do the same with it.           *)
LEMMA ReadAlike ==
  ASSUME NEW c, NEW d, NEW l, NEW e,
         (l.at \notin {"in", "skip", "line", "block", "dollar"}) =>
            /\ (e \in c.quotes <=> e \in d.quotes) /\ (e \in c.line <=> e \in d.line)
            /\ (e = "/*!" => (c.version <=> d.version)) /\ (e = "$$" => (c.dollar <=> d.dollar)),
         (l.at = "in" /\ e = "\\") => (Escapes(c, l) <=> Escapes(d, l)),
         (l.at = "block" /\ e \in {"/*", "/*!"}) => (c.nested <=> d.nested)
  PROVE  ScanStep(c, l, e) = ScanStep(d, l, e)
<1>1. CASE l.at \notin {"in", "skip", "line", "block", "dollar"}
  <2>1. \A m : Outside(c, m, e) = Outside(d, m, e)
    BY <1>1 DEF Outside
  <2>2. OutsideStep(c, Enter(l, "out"), e) = OutsideStep(d, Enter(l, "out"), e)
    BY <2>1 DEF OutsideStep
  <2> QED BY <1>1, <2>2 DEF ScanStep
<1>2. CASE l.at = "in"
  <2>1. InString(c, l, e) = InString(d, l, e)
    BY <1>2 DEF InString
  <2> QED BY <1>2, <2>1 DEF ScanStep
<1>3. CASE l.at = "block"
  <2>1. InBlock(c, l, e) = InBlock(d, l, e)
    BY <1>3 DEF InBlock
  <2> QED BY <1>3, <2>1 DEF ScanStep
<1>4. CASE l.at \in {"skip", "line", "dollar"}
  BY <1>4 DEF ScanStep
<1> QED BY <1>1, <1>2, <1>3, <1>4

(* What the two grammars have.                                             *)
LEMMA GrammarsAre ==
  ASSUME dialect \in Dialects
  PROVE  /\ Escaping.quotes = Quotes /\ Literal.quotes = Quotes /\ Grammar(dialect).quotes \subseteq Quotes
         /\ Escaping.line = LineOpeners /\ Literal.line = LineOpeners
         /\ Escaping.escapes = Quotes /\ Literal.escapes = {}
         /\ Escaping.version /\ Literal.version /\ Escaping.dollar /\ Literal.dollar
         /\ ~Escaping.nested /\ ~Literal.nested
         /\ dialect = "pg" =>
              /\ Grammar(dialect).quotes = {"'", "\""} /\ Grammar(dialect).escapes = {}
              /\ Grammar(dialect).line = {"--", "-- "} /\ Grammar(dialect).dollar
              /\ ~Grammar(dialect).version /\ Grammar(dialect).nested
         /\ dialect # "pg" =>
              /\ Grammar(dialect).quotes = Quotes /\ Grammar(dialect).escapes = {"'", "\""}
              /\ Grammar(dialect).line = {"-- ", "#"} /\ ~Grammar(dialect).dollar
              /\ Grammar(dialect).version /\ ~Grammar(dialect).nested
BY DEF Dialects, Grammar, Escaping, Literal, Quotes, LineOpeners

(* A reading no mark has taken away reads this one as the server does.     *)
LEMMA SharedReads ==
  ASSUME dialect \in Dialects, server \in Lexer, NEW e \in Elements
  PROVE  /\ "escaping" \notin Misread(e) => ScanStep(Escaping, server, e) = ScanStep(Grammar(dialect), server, e)
         /\ "literal" \notin Misread(e) => ScanStep(Literal, server, e) = ScanStep(Grammar(dialect), server, e)
<1>1. server.at \in {"out", "in", "skip", "closing", "line", "block", "dollar"} /\ server.quote \in Quotes \union {"E'"}
  BY DEF Lexer
<1> DEFINE g == Grammar(dialect)
<1>2. ASSUME NEW c \in {Escaping, Literal}, ~Strange(e),
             server.at = "in" /\ e = "\\" => (Escapes(c, server) <=> Escapes(g, server))
      PROVE  ScanStep(c, server, e) = ScanStep(g, server, e)
  <2>1. server.at \notin {"in", "skip", "line", "block", "dollar"} =>
          /\ (e \in c.quotes <=> e \in g.quotes) /\ (e \in c.line <=> e \in g.line)
          /\ (e = "/*!" => (c.version <=> g.version)) /\ (e = "$$" => (c.dollar <=> g.dollar))
    <3> SUFFICES ASSUME server.at \notin {"in", "skip", "line", "block", "dollar"}
                 PROVE  /\ (e \in c.quotes <=> e \in g.quotes) /\ (e \in c.line <=> e \in g.line)
                        /\ (e = "/*!" => (c.version <=> g.version)) /\ (e = "$$" => (c.dollar <=> g.dollar))
      OBVIOUS
    <3>1. Unquoted(server)
      BY <1>1 DEF Unquoted
    <3>2. CASE dialect = "pg"
      <4>1. e \notin {"#", "backtick", "/*!"}
        BY <1>2, <3>1, <3>2 DEF Strange
      <4> QED BY <1>2, <3>2, <4>1, GrammarsAre DEF Quotes, LineOpeners
    <3>3. CASE dialect # "pg"
      <4>1. e \notin {"--", "$$"}
        BY <1>2, <3>1, <3>3 DEF Strange
      <4> QED BY <1>2, <3>3, <4>1, GrammarsAre DEF Quotes, LineOpeners
    <3> QED BY <3>2, <3>3
  <2>2. (server.at = "block" /\ e \in {"/*", "/*!"}) => (c.nested <=> g.nested)
    BY <1>2, GrammarsAre DEF Strange
  <2> HIDE DEF g
  <2> QED BY <1>2, <2>1, <2>2, ReadAlike
<1>3. "escaping" \notin Misread(e) =>
        ~Strange(e) /\ (server.at = "in" /\ e = "\\" => (Escapes(Escaping, server) <=> Escapes(g, server)))
  BY <1>1, GrammarsAre DEF Misread, Escapes
<1>4. "literal" \notin Misread(e) =>
        ~Strange(e) /\ (server.at = "in" /\ e = "\\" => (Escapes(Literal, server) <=> Escapes(g, server)))
  BY <1>1, GrammarsAre DEF Misread, Escapes
<1> QED BY <1>2, <1>3, <1>4

LEMMA GatesBegin == SqlInit => SqlInv
<1> SUFFICES ASSUME SqlInit PROVE SqlInv
  OBVIOUS
<1>1. <<>> \in Seq(Tok) /\ <<>> \in Seq(Seq(Tok))
  OBVIOUS
<1>2. NewLexer \in Lexer /\ NewLexer.depth = 0 /\ NewLexer.nest = 0
  BY <1>1 DEF NewLexer, Lexer, Quotes
<1> QED BY <1>2, TextAssumption DEF SqlInit, SqlInv

LEMMA GatesStep == SqlInv /\ [SqlNext]_sqlVars => SqlInv'
<1> SUFFICES ASSUME SqlInv, [SqlNext]_sqlVars PROVE SqlInv'
  OBVIOUS
<1>1. CASE SqlNext
  <2>1. typed < MaxText /\ typed' = typed + 1 /\ typed \in Nat /\ MaxText \in Nat /\ dialect' = dialect
    BY <1>1, TextAssumption DEF SqlNext, SqlInv
  <2>2. PICK e \in Elements :
          /\ escaping' = ScanStep(Escaping, escaping, e) /\ literal' = ScanStep(Literal, literal, e)
          /\ server' = ScanStep(Grammar(dialect), server, e) /\ shared' = shared \ Misread(e)
    BY <1>1 DEF SqlNext
  <2>3. dialect \in Dialects /\ \A l \in {escaping, literal, server} : l \in Lexer /\ l.depth <= typed /\ l.nest <= typed
    BY DEF SqlInv
  <2>4. Follows(escaping, escaping') /\ Follows(literal, literal') /\ Follows(server, server')
    BY <2>2, <2>3, ScanTyped, GrammarsAre
  <2>5. \A l \in {escaping, literal, server} : l.depth \in Nat /\ l.nest \in Nat
    BY <2>3 DEF Lexer
  <2>6. ASSUME NEW l \in {escaping, literal, server}, NEW n, Follows(l, n)
        PROVE  n \in Lexer /\ n.depth <= typed + 1 /\ n.nest <= typed + 1
    <3>1. n \in Lexer /\ n.depth \in Nat /\ n.nest \in Nat /\ n.depth <= l.depth + 1 /\ n.nest <= l.nest + 1
      BY <2>6 DEF Follows, Lexer
    <3> QED BY <2>1, <2>3, <2>5, <3>1
  <2>7. \A l \in {escaping', literal', server'} : l \in Lexer /\ l.depth <= typed' /\ l.nest <= typed'
    BY <2>1, <2>4, <2>6
  <2>8. ("escaping" \in shared' => escaping' = server') /\ ("literal" \in shared' => literal' = server')
    <3>1. ("escaping" \in shared => escaping = server) /\ ("literal" \in shared => literal = server)
      BY DEF SqlInv
    <3> QED BY <2>2, <2>3, <3>1, SharedReads
  <2>9. typed' \in 0 .. MaxText
    BY <2>1
  <2>10. shared' \subseteq {"escaping", "literal"} /\ dialect' \in Dialects
    BY <2>1, <2>2, <2>3 DEF SqlInv
  <2> QED BY <2>7, <2>8, <2>9, <2>10 DEF SqlInv
<1>2. CASE UNCHANGED sqlVars
  BY <1>2 DEF sqlVars, SqlInv
<1> QED BY <1>1, <1>2

(* The gates' two readings, and the server's wherever one is still shared. *)
THEOREM GatesInvariant == SqlSpec => []SqlInv
BY GatesBegin, GatesStep, PTL DEF SqlSpec

LEMMA GatesTyped == SqlInv => SqlTypeOK
<1> SUFFICES ASSUME SqlInv PROVE SqlTypeOK
  OBVIOUS
<1>1. ASSUME NEW l \in Lexer, l.depth <= typed, l.nest <= typed
      PROVE  /\ l.at \in {"out", "in", "skip", "closing", "line", "block", "dollar"}
             /\ l.quote \in Quotes \union {"E'"} /\ l.depth \in 0 .. MaxText /\ l.nest \in 0 .. MaxText
             /\ \A i \in DOMAIN l.cur : l.cur[i].word \in Words \union {"E", ".", ","}
  <2>1. l.depth \in Nat /\ l.nest \in Nat /\ typed \in 0 .. MaxText /\ MaxText \in Nat
    BY TextAssumption DEF Lexer, SqlInv
  <2>2. l.cur \in Seq(Tok)
    BY DEF Lexer
  <2>3. \A i \in DOMAIN l.cur : l.cur[i] \in Tok
    BY <2>2
  <2>4. \A i \in DOMAIN l.cur : l.cur[i].word \in Words \union {"E", ".", ","}
    BY <2>3 DEF Tok
  <2>5. l.depth \in 0 .. MaxText /\ l.nest \in 0 .. MaxText
    BY <1>1, <2>1
  <2>6. l.at \in {"out", "in", "skip", "closing", "line", "block", "dollar"} /\ l.quote \in Quotes \union {"E'"}
    BY DEF Lexer
  <2> QED BY <2>4, <2>5, <2>6
<1>2. typed \in 0 .. MaxText /\ dialect \in Dialects /\ shared \subseteq {"escaping", "literal"}
  BY DEF SqlInv
<1>3. \A l \in {escaping, literal, server} : l \in Lexer /\ l.depth <= typed /\ l.nest <= typed
  BY DEF SqlInv
<1> QED BY <1>1, <1>2, <1>3 DEF SqlTypeOK

(* What the gates let through, the server, whose reading is one of theirs, *)
(* executes with no statement they would have stopped.                     *)
LEMMA GatesAgree == SqlInv => GatesHold
<1> SUFFICES ASSUME SqlInv, shared # {}
             PROVE  /\ ReadOnly => ~Blocked /\ ~SomeOf(Statements(server), Refused)
                    /\ ~Blocked => ~SomeOf(Statements(server), Destructive)
                    /\ ParseTarget # <<>> =>
                         Blocked /\ ParseTarget = Target(FirstDestructive(Statements(server)))
  BY DEF GatesHold
<1>0. server \in {escaping, literal}
  BY DEF SqlInv
<1>1. ASSUME NEW s, Destructive(s) PROVE Refused(s)
  <2>1. s[1].depth = 0 /\ s[1].word \in DESTRUCTIVE_VERBS
    BY <1>1 DEF Destructive, TopVerb, DESTRUCTIVE_VERBS
  <2> QED BY <2>1 DEF Refused, DESTRUCTIVE_VERBS, READONLY_VERBS
<1>2. ReadOnly => ~Blocked /\ ~SomeOf(Statements(server), Refused)
  <2> SUFFICES ASSUME ReadOnly PROVE ~Blocked /\ ~SomeOf(Statements(server), Refused)
    OBVIOUS
  <2>1. ~Diverges /\ Statements(escaping) = Statements(literal) /\ Statements(server) = Statements(escaping)
    BY <1>0 DEF ReadOnly, Diverges
  <2>2. ~(\E i \in DOMAIN Statements(escaping) : Refused(Statements(escaping)[i]))
    BY DEF ReadOnly, SomeOf
  <2>3. ~(\E i \in DOMAIN Statements(escaping) : Destructive(Statements(escaping)[i]))
    BY <1>1, <2>2
  <2>4. ~Blocked
    BY <2>1, <2>3 DEF Blocked, SomeOf
  <2> QED BY <2>1, <2>2, <2>4 DEF SomeOf
<1>3. ~Blocked => ~SomeOf(Statements(server), Destructive)
  <2> SUFFICES ASSUME ~Blocked PROVE ~SomeOf(Statements(server), Destructive)
    OBVIOUS
  <2>1. ~(\E i \in DOMAIN Statements(escaping) : Destructive(Statements(escaping)[i]))
    BY DEF Blocked, SomeOf
  <2>2. Diverges => ~(\E i \in DOMAIN Statements(literal) : Destructive(Statements(literal)[i]))
    BY DEF Blocked, SomeOf
  <2>3. ~Diverges => Statements(escaping) = Statements(literal)
    BY DEF Diverges
  <2> QED BY <1>0, <2>1, <2>2, <2>3 DEF SomeOf
<1>4. ParseTarget # <<>> => Blocked /\ ParseTarget = Target(FirstDestructive(Statements(server)))
  <2> SUFFICES ASSUME ParseTarget # <<>> PROVE Blocked /\ ParseTarget = Target(FirstDestructive(Statements(server)))
    OBVIOUS
  <2>1. ~Diverges /\ (\E i \in DOMAIN Statements(escaping) : Destructive(Statements(escaping)[i]))
        /\ ParseTarget = Target(FirstDestructive(Statements(escaping)))
    BY DEF ParseTarget, SomeOf
  <2>2. Statements(server) = Statements(escaping)
    BY <1>0, <2>1 DEF Diverges
  <2>3. Blocked
    BY <2>1 DEF Blocked, SomeOf
  <2> QED BY <2>1, <2>2, <2>3
<1> QED BY <1>2, <1>3, <1>4

(* Whatever the text and whichever dialect the server speaks, as long as   *)
(* it holds no mark that only one side knows: the server executes nothing  *)
(* the gate of its channel would have refused, and the guard acts on the   *)
(* table the server means.                                                 *)
THEOREM GatesAreHeld == SqlSpec => []GatesHold
BY GatesInvariant, GatesAgree, PTL

-----------------------------------------------------------------------------
(* The three together, as the model checker runs them.                     *)
DatabaseInv == PoolInv /\ GuardInv /\ SqlInv

LEMMA DatabaseStep == DatabaseInv /\ [MCDbNext]_<<dbVars, guardVars, sqlVars>> => DatabaseInv'
<1> SUFFICES ASSUME DatabaseInv, [MCDbNext]_<<dbVars, guardVars, sqlVars>> PROVE DatabaseInv'
  OBVIOUS
<1>1. [DbNext]_dbVars /\ [GuardNext]_guardVars /\ [SqlNext]_sqlVars
  BY DEF MCDbNext
<1> QED BY <1>1, PoolStep, GuardStep, GatesStep DEF DatabaseInv

THEOREM DatabaseInvariant == MCDbSpec => []DatabaseInv
<1>1. MCDbInit => DatabaseInv
  BY PoolBegins, GuardBegins, GatesBegin DEF MCDbInit, DatabaseInv
<1> QED BY <1>1, DatabaseStep, PTL DEF MCDbSpec

LEMMA DatabaseInvMeans == DatabaseInv => DatabaseTypeOK
BY PoolInvTyped, GuardInvMeans, GatesTyped DEF DatabaseInv, DatabaseTypeOK

(* The types of the pool, the guard and the gates, for every instance.     *)
THEOREM DatabaseTypeCorrect == MCDbSpec => []DatabaseTypeOK
BY DatabaseInvariant, DatabaseInvMeans, PTL
=============================================================================
