------------------------------- MODULE DbPool -------------------------------
(***************************************************************************)
(* A database connection of DbOpsManager (db-ops.js): the record, its SSH  *)
(* tunnel and its driver pool; the calls that check a pooled connection    *)
(* out, ping it, run a statement and hand it back, every await raced       *)
(* against a deadline (raceDeadline); interactive transactions with their  *)
(* idle timer; loss of the transport and disconnect.                       *)
(*                                                                         *)
(* A connection can fall silent without an event: no answer is ever assumed*)
(* to come, and every await may be lost to its deadline or a cancellation. *)
(***************************************************************************)
EXTENDS Integers, Sequences, FiniteSets

CONSTANTS
  DbCall,    \* calls of the agent or the panel
  Menu,      \* DbCall -> the operations it may be
  Tx,        \* interactive transactions
  Slot,      \* the places of the driver's pool
  Engines,   \* "pg", "mysql": pooled; "kv": redis, mongodb; "http": clickhouse; "file": sqlite
  Tunneled,  \* whether the connection goes through SSH
  MaxLine,   \* bound: requests in flight on one transaction
  NoSlot, Nobody

Pooled == {"pg", "mysql"}
Ops    == {"query", "execute", "listTables", "describeTable", "preview", "exportRows", "explain", "run"}

ASSUME PoolAssumption ==
  /\ Engines \subseteq Pooled \union {"kv", "http", "file"} /\ Engines # {}
  /\ Tunneled \subseteq BOOLEAN
  /\ Menu \in [DbCall -> SUBSET Ops]
  /\ MaxLine \in Nat /\ NoSlot \notin Slot /\ Nobody \notin DbCall \union Tx /\ DbCall \intersect Tx = {}

VARIABLES
  engine, tunneled,              \* what dbConnect was asked for
  rec, tunnel, pool, closing,    \* the record in dbConnections, its listener, its client, disconnect
  holder, cond,                  \* who has a slot, and what the server sees of its transaction
  dop, dpc, unit, again, answer, \* calls: where they are in their script
  late,                          \* checkouts given up that the pool still queues
  begun, txMap, tslot,           \* dbTxBegin, dbTransactions, the dedicated connection
  line, waits,                   \* commands in flight on it, and who still awaits them
  crossed, told, work,           \* met a second command in flight; what was reported; the server's side
  due                            \* transactions disconnect has still to dispose of

dbConf  == <<engine, tunneled>>
recVars == <<rec, tunnel, pool, closing>>
slotVars == <<holder, cond>>
callVars == <<dop, dpc, unit, again, answer, late>>
txVars  == <<begun, txMap, tslot, line, waits, crossed, told, work, due>>
dbVars  == <<dbConf, recVars, slotVars, callVars, txVars>>

Finishing  == {"commit", "rollback", "dispose"}
Activities == {"exec"} \union Finishing

DbTypeOK ==
  /\ engine \in Engines /\ tunneled \in BOOLEAN
  /\ rec \in {"none", "connecting", "open", "gone"} /\ tunnel \in BOOLEAN
  /\ pool \in {"none", "live", "ended"} /\ closing \in {"no", "cleaning", "ending", "done"}
  /\ holder \in [Slot -> DbCall \union Tx \union {Nobody}]
  /\ cond \in [Slot -> {"none", "clean", "tx", "broken"}]
  /\ dop \in [DbCall -> Ops \union {"none"}] /\ unit \in [DbCall -> 0 .. 5] /\ again \subseteq DbCall
  /\ dpc \in [DbCall -> {"idle", "checkout", "ping", "stmt", "reset", "resetdead", "end"}]
  /\ answer \in [DbCall -> {"none", "ok", "failed"}] /\ late \subseteq DbCall
  /\ begun \in [Tx -> {"none", "checkout", "begin", "made", "failed"}] /\ txMap \subseteq Tx
  /\ tslot \in [Tx -> Slot \union {NoSlot}] /\ waits \in [Tx -> SUBSET Activities]
  /\ \A t \in Tx : line[t] \in Seq(Activities) /\ Len(line[t]) <= 4
  /\ crossed \subseteq Tx /\ due \subseteq Tx /\ told \in [Tx -> SUBSET (Activities \union {"refused"})]
  /\ work \in [Tx -> {"none", "pending", "kept", "undone", "loose"}]

DbInit ==
  /\ engine \in Engines /\ tunneled \in Tunneled
  /\ rec = "none" /\ tunnel = FALSE /\ pool = "none" /\ closing = "no"
  /\ holder = [s \in Slot |-> Nobody] /\ cond = [s \in Slot |-> "none"]
  /\ dop = [k \in DbCall |-> "none"] /\ dpc = [k \in DbCall |-> "idle"]
  /\ unit = [k \in DbCall |-> 0] /\ again = {} /\ answer = [k \in DbCall |-> "none"] /\ late = {}
  /\ begun = [t \in Tx |-> "none"] /\ txMap = {} /\ tslot = [t \in Tx |-> NoSlot]
  /\ line = [t \in Tx |-> <<>>] /\ waits = [t \in Tx |-> {}]
  /\ crossed = {} /\ due = {} /\ told = [t \in Tx |-> {}] /\ work = [t \in Tx |-> "none"]

-----------------------------------------------------------------------------
(* The operations as scripts: the units of work each awaits in turn.  A    *)
(* "once" unit is a statement of its own (pgQueryOnce, mysqlQueryOnce), a  *)
(* "paged" one streams rows; "soft" failures are ignored, an "alt" unit is *)
(* the fallback of the one before it.  An engine without a pool talks over *)
(* its own client.                                                         *)
Unit(e, via) == [via |-> IF e \in Pooled THEN via ELSE e, soft |-> FALSE, alt |-> FALSE]
Soft(u) == [u EXCEPT !.soft = TRUE]
Alt(u)  == [u EXCEPT !.alt = TRUE]
IsSqlType(e) == e # "kv"

QueryPaged(e) == Unit(e, "paged")
Query(e)      == <<QueryPaged(e)>>
Execute(e)    == <<Unit(e, "once")>>
ListTables(e) == <<Unit(e, "once")>>

DescribeTable(e) ==
  CASE e = "mysql" -> [i \in 1 .. 5 |-> Unit(e, "once")]
    [] e = "pg"    -> [i \in 1 .. 4 |-> Unit(e, "once")]
    [] e = "http"  -> <<Unit(e, "once"), Soft(Unit(e, "once")), Soft(Unit(e, "once"))>>
    [] e \in {"kv", "file"} -> <<Unit(e, "once")>>

Preview(e) ==
  IF e = "file" THEN Query(e) ELSE <<Soft(Unit(e, "once"))>> \o Query(e)

(* Rows that went over SSH are written next to the database by sftp.       *)
ExportRows(e) ==
  IF tunneled THEN <<QueryPaged(e), [Unit(e, "once") EXCEPT !.via = "write"]>> ELSE <<QueryPaged(e)>>

Explain(e) ==
  IF e = "http" THEN <<Soft(Unit(e, "once")), Alt(Unit(e, "once"))>> ELSE <<Unit(e, "once")>>

Run(e) == <<Unit(e, "once")>>

Script(o, e) ==
  CASE o = "query" -> Query(e) [] o = "execute" -> Execute(e) [] o = "listTables" -> ListTables(e)
    [] o = "describeTable" -> DescribeTable(e) [] o = "preview" -> Preview(e)
    [] o = "exportRows" -> ExportRows(e) [] o = "explain" -> Explain(e) [] o = "run" -> Run(e)

Supported(o, e) == (o = "run") = ~IsSqlType(e)

-----------------------------------------------------------------------------
(* The pool.  A connection handed back after pool.end() is closed.         *)
Back(s) == IF pool = "ended" THEN "none" ELSE cond[s]
Reachable == tunneled => tunnel

(* release: the slot is free again with the connection on it.              *)
Released(s) == holder' = [holder EXCEPT ![s] = Nobody] /\ cond' = [cond EXCEPT ![s] = Back(s)]

(* destroy, or release with an error: the connection is gone from the pool *)
(* and whoever still refers to it has a dead handle.                       *)
Destroyed(s) ==
  /\ holder' = [holder EXCEPT ![s] = Nobody] /\ cond' = [cond EXCEPT ![s] = "none"]

Undone(t) == IF work[t] = "pending" THEN "undone" ELSE work[t]
OnSlot(s) == {t \in Tx : tslot[t] = s}
HandlesDie(s) ==
  /\ tslot' = [t \in Tx |-> IF t \in OnSlot(s) THEN NoSlot ELSE tslot[t]]
  /\ line' = [t \in Tx |-> IF t \in OnSlot(s) THEN <<>> ELSE line[t]]
  /\ work' = [t \in Tx |-> IF t \in OnSlot(s) THEN Undone(t) ELSE work[t]]

Destroy(s) == Destroyed(s) /\ HandlesDie(s)
Keep == UNCHANGED <<tslot, line, work>>

(* Which slots pool.connect or getConnection can give.                     *)
Available == {s \in Slot : holder[s] = Nobody /\ pool = "live" /\ (cond[s] # "none" \/ Reachable)}
Taken(s, u) ==
  /\ holder' = [holder EXCEPT ![s] = u]
  /\ cond' = [cond EXCEPT ![s] = IF @ = "none" THEN "clean" ELSE @]

CurUnit(k) == Script(dop[k], engine)[unit[k]]

(* A connection answers in the order it was asked: first what is still in  *)
(* flight from a transaction that had it before.                           *)
Quiet(s) == \A t \in OnSlot(s) : line[t] = <<>>

(* The slot of a call.                                                     *)
Mine(k) == {s \in Slot : holder[s] = k}
Answers(k) ==
  /\ engine \in Pooled => Mine(k) # {} \/ CurUnit(k).via = "write"
  /\ \A s \in Mine(k) : Quiet(s)

-----------------------------------------------------------------------------
(* connect: the tunnel, then the handshake of the engine raced with the    *)
(* connect deadline; a failure takes client and tunnel with it.            *)
Connect ==
  /\ rec = "none" /\ rec' = "connecting" /\ tunnel' = (tunneled /\ engine # "file")
  /\ UNCHANGED <<dbConf, pool, closing, slotVars, callVars, txVars>>

Connected ==
  /\ rec = "connecting" /\ (Reachable \/ engine = "file")
  /\ rec' = "open" /\ pool' = "live"
  /\ \/ engine \in Pooled /\ \E s \in Slot : cond' = [cond EXCEPT ![s] = "clean"]
     \/ engine \notin Pooled /\ UNCHANGED cond
  /\ UNCHANGED <<dbConf, tunnel, closing, holder, callVars, txVars>>

ConnectFails ==
  /\ rec = "connecting" /\ rec' = "gone" /\ tunnel' = FALSE /\ pool' = "ended"
  /\ UNCHANGED <<dbConf, closing, slotVars, callVars, txVars>>

-----------------------------------------------------------------------------
(* A call starts: getRecord, the engine, then its first unit.              *)
FirstPc(u) == IF u.via \in {"once", "paged"} THEN "checkout" ELSE "stmt"

Refuse(k) == /\ dpc' = [dpc EXCEPT ![k] = "end"] /\ answer' = [answer EXCEPT ![k] = "failed"]

StartCall(k) ==
  /\ dpc[k] = "idle"
  /\ \E o \in Menu[k] :
       /\ dop' = [dop EXCEPT ![k] = o]
       /\ \/ (rec # "open" \/ ~Supported(o, engine)) /\ Refuse(k) /\ UNCHANGED unit
          \/ /\ rec = "open" /\ Supported(o, engine)
             /\ unit' = [unit EXCEPT ![k] = 1]
             /\ dpc' = [dpc EXCEPT ![k] = FirstPc(Script(o, engine)[1])]
             /\ UNCHANGED answer
  /\ UNCHANGED <<dbConf, recVars, slotVars, again, late, txVars>>

(* The unit of a call is over: the next one, or the answer.  The second    *)
(* half of preview is a query of its own that looks the record up again.   *)
UnitOver(k, good) ==
  LET script == Script(dop[k], engine)
      n == unit[k]
      skip == n < Len(script) /\ script[n + 1].alt /\ good
      next == IF skip THEN n + 2 ELSE n + 1
      stops == ~good /\ ~script[n].soft
      lost == dop[k] = "preview" /\ rec # "open"
  IN /\ again' = again \ {k}
     /\ \/ /\ stops \/ (next <= Len(script) /\ lost)
           /\ Refuse(k) /\ UNCHANGED unit
        \/ /\ ~stops /\ next > Len(script)
           /\ dpc' = [dpc EXCEPT ![k] = "end"] /\ answer' = [answer EXCEPT ![k] = "ok"]
           /\ UNCHANGED unit
        \/ /\ ~stops /\ next <= Len(script) /\ ~lost
           /\ dpc' = [dpc EXCEPT ![k] = FirstPc(script[next])] /\ unit' = [unit EXCEPT ![k] = next]
           /\ UNCHANGED answer
     /\ UNCHANGED dop

(* pgCheckout, mysqlCheckout.  ensureIdleAlive pings a connection that was *)
(* not used for a while.                                                   *)
Checkout(k) ==
  /\ dpc[k] = "checkout" /\ k \notin late
  /\ \E s \in Available : Taken(s, k)
  /\ dpc' = [dpc EXCEPT ![k] = "stmt"] \/ (CurUnit(k).via = "once" /\ dpc' = [dpc EXCEPT ![k] = "ping"])
  /\ UNCHANGED <<dbConf, recVars, dop, unit, again, answer, late, txVars>>

(* No connection in time: the call goes on without, and the pool may still *)
(* hand it one.                                                            *)
CheckoutLost(k) ==
  /\ dpc[k] = "checkout" /\ UnitOver(k, FALSE)
  /\ late' \in {late, late \union {k}}
  /\ UNCHANGED <<dbConf, recVars, slotVars, txVars>>

(* What arrives late is destroyed on arrival.                              *)
LateCheckout(k) ==
  /\ k \in late /\ late' = late \ {k}
  /\ \/ \E s \in Available : Destroy(s)
     \/ Available = {} /\ pool # "live" /\ UNCHANGED slotVars /\ Keep
  /\ UNCHANGED <<dbConf, recVars, dop, dpc, unit, again, answer, begun, txMap, waits, crossed, told, due>>

PingOk(k) ==
  /\ dpc[k] = "ping" /\ Answers(k)
  /\ dpc' = [dpc EXCEPT ![k] = "stmt"]
  /\ UNCHANGED <<dbConf, recVars, slotVars, dop, unit, again, answer, late, txVars>>

(* withAliveRetry: a suspect connection is destroyed and the unit tried    *)
(* once more.                                                              *)
NeverTried(k) == FALSE \* faulty variant: every failed ping is retried
TriedAgain(k) == k \in again

PingFails(k) ==
  /\ dpc[k] = "ping"
  /\ \/ \E s \in Mine(k) : Destroy(s)
     \/ Mine(k) = {} /\ UNCHANGED slotVars /\ Keep
  /\ \/ /\ ~TriedAgain(k) /\ again' = again \union {k}
        /\ dpc' = [dpc EXCEPT ![k] = "checkout"] /\ UNCHANGED <<dop, unit, answer>>
     \/ TriedAgain(k) /\ UnitOver(k, FALSE)
  /\ UNCHANGED <<dbConf, recVars, late, begun, txMap, waits, crossed, told, due>>

(* handleDbTransportLoss, without its transactions: the record leaves the  *)
(* map and its tunnel closes; only redis and mongodb close their client.   *)
DropRecord ==
  /\ rec' = "gone" /\ tunnel' = FALSE
  /\ pool' = IF engine = "kv" THEN "ended" ELSE pool

(* The statement is answered.  A server error leaves the connection usable;*)
(* rows beyond the cap end a mysql stream early and cost its connection.   *)
StmtDone(k) ==
  LET paged == CurUnit(k).via = "paged"
  IN /\ dpc[k] = "stmt" /\ Answers(k)
     /\ \/ /\ engine = "pg" /\ paged
           /\ dpc' = [dpc EXCEPT ![k] = "reset"]
           /\ UNCHANGED <<dop, unit, again, answer, slotVars>> /\ Keep
        \/ /\ ~(engine = "pg" /\ paged) /\ \E good \in BOOLEAN : UnitOver(k, good)
           /\ \/ \E s \in Mine(k) : Released(s) /\ Keep
              \/ engine = "mysql" /\ \E s \in Mine(k) : Destroy(s)
              \/ Mine(k) = {} /\ UNCHANGED slotVars /\ Keep
     /\ UNCHANGED <<dbConf, recVars, late, begun, txMap, waits, crossed, told, due>>

(* Cancelled or out of time: the connection is in mid-protocol.  For redis *)
(* and mongodb that is the end of the record.                              *)
StmtLost(k) ==
  /\ dpc[k] = "stmt" /\ engine # "file"
  /\ \/ /\ engine = "pg" /\ CurUnit(k).via = "paged"
        /\ dpc' = [dpc EXCEPT ![k] = "resetdead"]
        /\ UNCHANGED <<recVars, dop, unit, again, answer, slotVars>> /\ Keep
     \/ /\ ~(engine = "pg" /\ CurUnit(k).via = "paged")
        /\ UnitOver(k, FALSE)
        /\ \/ (\E s \in Mine(k) : Destroy(s)) /\ UNCHANGED recVars
           \/ /\ Mine(k) = {} /\ UNCHANGED slotVars /\ Keep
              /\ \/ engine = "kv" /\ rec = "open" /\ DropRecord /\ UNCHANGED closing
                 \/ (engine # "kv" \/ rec # "open") /\ UNCHANGED recVars
  /\ UNCHANGED <<dbConf, late, begun, txMap, waits, crossed, told, due>>

(* pgQueryPaged resets statement_timeout before it hands the client back:  *)
(* answered, or given up after two seconds.                                *)
ResetEnds(k) ==
  /\ dpc[k] \in {"reset", "resetdead"}
  /\ \/ /\ dpc[k] = "reset" /\ Answers(k)
        /\ \E good \in BOOLEAN : UnitOver(k, good)
        /\ \E s \in Mine(k) : Released(s) /\ Keep
     \/ /\ \E good \in BOOLEAN : (dpc[k] = "reset" \/ ~good) /\ UnitOver(k, good)
        /\ \E s \in Mine(k) : Destroy(s)
  /\ UNCHANGED <<dbConf, recVars, late, begun, txMap, waits, crossed, told, due>>

-----------------------------------------------------------------------------
(* dbTxBegin: a dedicated connection, START TRANSACTION raced; then the    *)
(* transaction is entered in the map whatever became of the record.        *)
TxBegin(t) ==
  /\ begun[t] = "none" /\ engine \in Pooled /\ rec = "open"
  /\ begun' = [begun EXCEPT ![t] = "checkout"]
  /\ UNCHANGED <<dbConf, recVars, slotVars, callVars, txMap, tslot, line, waits, crossed, told, work, due>>

TxCheckout(t) ==
  /\ begun[t] = "checkout"
  /\ \/ \E s \in Available :
          Taken(s, t) /\ tslot' = [tslot EXCEPT ![t] = s] /\ begun' = [begun EXCEPT ![t] = "begin"]
     \/ begun' = [begun EXCEPT ![t] = "failed"] /\ UNCHANGED <<slotVars, tslot>>
  /\ UNCHANGED <<dbConf, recVars, callVars, txMap, line, waits, crossed, told, work, due>>

TxStarted(t) ==
  /\ begun[t] = "begin" /\ Quiet(tslot[t])
  /\ cond' = [cond EXCEPT ![tslot[t]] = "tx"]
  /\ begun' = [begun EXCEPT ![t] = "made"] /\ txMap' = txMap \union {t}
  /\ UNCHANGED <<dbConf, recVars, holder, callVars, tslot, line, waits, crossed, told, work, due>>

TxBeginLost(t) ==
  /\ begun[t] = "begin" /\ begun' = [begun EXCEPT ![t] = "failed"]
  /\ Destroy(tslot[t])
  /\ UNCHANGED <<dbConf, recVars, callVars, txMap, waits, crossed, told, due>>

(* A command goes out on the transaction's connection: a statement of      *)
(* dbTxExecute, dbTxCommit or dbTxRollback; the transaction stays in the   *)
(* map until the answer.                                                   *)
Send(S, a) ==
  /\ line' = [t \in Tx |-> IF t \in S /\ tslot[t] # NoSlot THEN Append(line[t], a) ELSE line[t]]
  /\ waits' = [t \in Tx |-> IF t \in S THEN waits[t] \union {a} ELSE waits[t]]
  /\ crossed' = crossed \union {t \in S : waits[t] # {}}

TxRequest(t, a) ==
  /\ t \in txMap /\ a \in {"exec", "commit", "rollback"} \ waits[t] /\ Cardinality(waits[t]) < MaxLine
  /\ Send({t}, a)
  /\ UNCHANGED <<dbConf, recVars, slotVars, callVars, begun, txMap, tslot, told, work, due>>

(* disposeTransaction: out of the map first, then ROLLBACK.                *)
KeepsBookmark(S) == txMap' = txMap /\ Send(S, "dispose") \* faulty variant: ROLLBACK goes out first
Dispose(S) == txMap' = txMap \ S /\ Send(S, "dispose")

(* touchTransaction's timer: also while a command is in flight.            *)
IdleTimeout(t) ==
  /\ t \in txMap /\ Dispose({t})
  /\ UNCHANGED <<dbConf, recVars, slotVars, callVars, begun, tslot, told, work, due>>

(* What the server makes of the oldest command.  A refused statement leaves*)
(* a mysql transaction as it was and breaks a PostgreSQL one, which answers*)
(* COMMIT as a rollback unless a savepoint mends it.  A statement may end  *)
(* the transaction by itself: a deadlock undoes all of it, DDL of mysql    *)
(* commits it first, and dbTxExecute lets COMMIT and ROLLBACK through.     *)
(* What was done in it and what follows then have no fate in common.       *)
InTx(s) == cond[s] \in {"tx", "broken"}
EndsItself(s, a) == a = "exec" /\ InTx(s)
ServerDoes(t, a, good, ends) ==
  LET s == tslot[t]
  IN /\ line' = [line EXCEPT ![t] = Tail(@)]
     /\ work' = [work EXCEPT ![t] =
          IF ends THEN "loose"
          ELSE IF ~InTx(s) THEN @
          ELSE IF a = "exec" THEN (IF good /\ cond[s] = "tx" /\ @ # "loose" THEN "pending" ELSE @)
          ELSE IF a = "commit" /\ good /\ cond[s] = "tx" /\ @ = "pending" THEN "kept" ELSE Undone(t)]
CondAfter(s, a, good, ends) ==
  IF a # "exec" \/ ends THEN "clean"
  ELSE IF engine = "pg" /\ InTx(s) THEN (IF good THEN "tx" ELSE "broken") ELSE cond[s]

(* finishTransaction and disposeTransaction hand the connection back.  A   *)
(* second release of it throws in pg; in mysql2 it puts the connection on  *)
(* the free list although somebody else may have it.                       *)
HandBack(t, a, good, ends) ==
  LET s == tslot[t]
      theirs == a \in Finishing /\ a \in waits[t]
  IN /\ holder' = [holder EXCEPT ![s] = IF theirs /\ (engine = "mysql" \/ @ = t) THEN Nobody ELSE @]
     /\ cond' = [cond EXCEPT ![s] =
          IF theirs /\ pool = "ended" /\ holder'[s] = Nobody THEN "none" ELSE CondAfter(s, a, good, ends)]

TxAnswered(t) ==
  LET a == Head(line[t])
      s == tslot[t]
      twice == engine = "pg" /\ holder[s] # t /\ a \in Finishing
  IN /\ line[t] # <<>>
     /\ waits' = [waits EXCEPT ![t] = @ \ {a}]
     /\ txMap' = IF a \in {"commit", "rollback"} THEN txMap \ {t} ELSE txMap
     /\ \E good, ends \in BOOLEAN :
          /\ (a \in {"rollback", "dispose"} => good) /\ (ends => EndsItself(s, a))
          /\ told' = [told EXCEPT ![t] = IF a \notin waits[t] \/ twice THEN @ ELSE @ \union {IF good THEN a ELSE "refused"}]
          /\ \/ /\ good \/ a = "exec" \/ engine = "pg"
                /\ ServerDoes(t, a, good, ends) /\ HandBack(t, a, good, ends) /\ UNCHANGED tslot
             \/ ~good /\ a = "commit" /\ engine = "mysql" /\ Destroy(s)
     /\ UNCHANGED <<dbConf, recVars, callVars, begun, crossed, due>>

(* The race is lost: killTransaction for a statement, the catch of         *)
(* finishTransaction for COMMIT and ROLLBACK: the connection is destroyed. *)
(* In the catch of disposeTransaction pg releases it without an error.     *)
TxLost(t, a) ==
  LET s == tslot[t]
      handed == engine = "pg" /\ s # NoSlot /\ holder[s] # t
  IN /\ a \in waits[t] /\ waits' = [waits EXCEPT ![t] = @ \ {a}]
     /\ txMap' = txMap \ {t}
     /\ \/ (s = NoSlot \/ handed) /\ UNCHANGED slotVars /\ Keep
        \/ s # NoSlot /\ ~handed /\ (a # "dispose" \/ engine = "mysql") /\ Destroy(s)
        \/ s # NoSlot /\ ~handed /\ a = "dispose" /\ engine = "pg" /\ Released(s) /\ Keep
     /\ UNCHANGED <<dbConf, recVars, callVars, begun, crossed, told, due>>

-----------------------------------------------------------------------------
(* The loss of the transport: an error event of the client, or the SSH     *)
(* connection under it (closeForSshConnection).  abandonTransactionsFor    *)
(* disposes of every transaction.                                          *)
KeepsListening == rec' = "gone" /\ pool' = pool /\ tunnel' = tunnel \* faulty variant
LosesTransport == DropRecord

TransportLoss ==
  /\ rec = "open" /\ LosesTransport /\ Dispose(txMap)
  /\ UNCHANGED <<dbConf, closing, slotVars, callVars, begun, tslot, told, work, due>>

(* disconnect: the transactions one after the other (disposeDbTransactionsFor),*)
(* awaited for five seconds; then the record leaves the map and the pool   *)
(* ends; then the tunnel closes.                                           *)
Disconnect ==
  /\ rec = "open" /\ closing = "no" /\ closing' = "cleaning"
  /\ \/ txMap = {} /\ UNCHANGED <<txMap, line, waits, crossed, due>>
     \/ \E t \in txMap : Dispose({t}) /\ due' = txMap \ {t}
  /\ UNCHANGED <<dbConf, rec, tunnel, pool, slotVars, callVars, begun, tslot, told, work>>

DisposeNext(t) ==
  /\ t \in due /\ \A x \in Tx : "dispose" \notin waits[x]
  /\ due' = due \ {t} /\ Dispose({t} \intersect txMap)
  /\ UNCHANGED <<dbConf, recVars, slotVars, callVars, begun, tslot, told, work>>

EndPool ==
  /\ closing = "cleaning" /\ closing' = "ending"
  /\ rec' = "gone" /\ pool' = "ended" /\ UNCHANGED tunnel
  /\ cond' = [s \in Slot |-> IF holder[s] = Nobody THEN "none" ELSE cond[s]]
  /\ UNCHANGED <<dbConf, holder, callVars, txVars>>

(* The pool has ended, or end() was given up and forceClosePool cut what   *)
(* sockets it found.                                                       *)
Disconnected ==
  /\ closing = "ending" /\ closing' = "done" /\ tunnel' = FALSE
  /\ UNCHANGED <<dbConf, rec, pool, slotVars, callVars, txVars>>

-----------------------------------------------------------------------------
DbNext ==
  \/ Connect \/ Connected \/ ConnectFails
  \/ TransportLoss \/ Disconnect \/ EndPool \/ Disconnected
  \/ \E k \in DbCall :
       \/ StartCall(k) \/ Checkout(k) \/ CheckoutLost(k) \/ LateCheckout(k) \/ PingOk(k) \/ PingFails(k)
       \/ StmtDone(k) \/ StmtLost(k) \/ ResetEnds(k)
  \/ \E t \in Tx :
       \/ TxBegin(t) \/ TxCheckout(t) \/ TxStarted(t) \/ TxBeginLost(t)
       \/ IdleTimeout(t) \/ TxAnswered(t) \/ DisposeNext(t)
       \/ \E a \in Activities : TxRequest(t, a) \/ TxLost(t, a)

(* The write of an export: sftpWriteFile, awaited with neither a deadline  *)
(* nor the caller's signal.                                                *)
Writing(k) == dpc[k] = "stmt" /\ CurUnit(k).via = "write"

(* Every deadline fires (of a connection whose statement ceiling was not   *)
(* lifted with queryTimeoutMs = 0); a ClickHouse request has none, and     *)
(* nothing is assumed of an export's write.                                *)
DbFairness ==
  /\ \A k \in DbCall :
       /\ WF_dbVars(CheckoutLost(k)) /\ WF_dbVars(PingFails(k)) /\ WF_dbVars(ResetEnds(k))
       /\ WF_dbVars(engine # "http" /\ ~Writing(k) /\ StmtLost(k))
       /\ WF_dbVars(engine = "file" /\ ~Writing(k) /\ StmtDone(k))
  /\ \A t \in Tx :
       /\ WF_dbVars(TxCheckout(t)) /\ WF_dbVars(TxBeginLost(t)) /\ WF_dbVars(IdleTimeout(t))
       /\ WF_dbVars(DisposeNext(t)) /\ \A a \in Activities : WF_dbVars(TxLost(t, a))
  /\ WF_dbVars(EndPool) /\ WF_dbVars(Disconnected)

-----------------------------------------------------------------------------
(* Who is using a slot.                                                    *)
Using(s) ==
  {k \in DbCall : holder[s] = k /\ dpc[k] \in {"ping", "stmt", "reset", "resetdead"}} \union
  {t \in Tx : tslot[t] = s /\ (begun[t] = "begin" \/ t \in txMap \/ waits[t] # {})}

(* Unless two commands met on one transaction, a pooled connection is      *)
(* either in the hands of exactly the one caller that uses it or free: no  *)
(* slot leaks on any path of cancellation, timeout, loss and disconnect,   *)
(* and no two callers share one.                                           *)
SlotsAccounted ==
  crossed = {} => \A s \in Slot : Using(s) = {holder[s]} \ {Nobody}

(* A connection handed back carries no transaction of dbTxBegin but one    *)
(* whose ROLLBACK is still in flight on it: the disposal of a PostgreSQL   *)
(* transaction that was given up.                                          *)
RollingBack(t) == engine = "pg" /\ waits[t] = {} /\ line[t] = <<"dispose">>
FreeIsClean ==
  crossed = {} => \A s \in Slot :
    holder[s] = Nobody /\ InTx(s) => \E t \in Tx : tslot[t] = s /\ RollingBack(t)

(* A listener lives only for a connection that is being made, in the map,  *)
(* or being taken down.                                                    *)
TunnelIsOwned == tunnel => rec \in {"connecting", "open"} \/ closing \in {"cleaning", "ending"}

(* No slot is lost or handed on dirty, and no tunnel outlives its         *)
(* connection, whoever times out, cancels or disconnects.                  *)
PoolSound == SlotsAccounted /\ FreeIsClean /\ TunnelIsOwned

(* What dbTxCommit and dbTxRollback report happened, unless a PostgreSQL   *)
(* statement failed before, a statement ended the transaction by itself    *)
(* (its work is then loose), or two commands met (their connection may then*)
(* be handed back while another has it): a reported commit keeps the work, *)
(* a reported rollback does not.                                           *)
TxHonest == crossed = {} => \A t \in Tx :
  /\ "commit" \in told[t] /\ (engine = "pg" => "refused" \notin told[t]) => work[t] # "undone"
  /\ "commit" \in told[t] => "rollback" \notin told[t] /\ "dispose" \notin told[t]
  /\ "rollback" \in told[t] \/ "dispose" \in told[t] => work[t] # "kept"

(* Where commands do meet on one transaction (a statement, COMMIT or       *)
(* ROLLBACK of a caller with each other, with the idle timer, a disconnect *)
(* or a lost transport) the first one to be answered decides, and who is   *)
(* told something is told what happened; only callers that ask for COMMIT  *)
(* and for ROLLBACK at once may both hear yes, and not in PostgreSQL.  And *)
(* the PostgreSQL connection that is free with a transaction on it has     *)
(* something in flight that ends it, behind which its next user is served. *)
(* A mysql connection released twice may serve two users: what other       *)
(* transactions hear from then on is left out.                             *)
Ends(t) == line[t] # <<>> /\ line[t][Len(line[t])] \in Finishing
MeetingHonest ==
  /\ \A t \in Tx : engine = "pg" \/ crossed \subseteq {t} =>
       /\ "commit" \in told[t] /\ "rollback" \notin told[t] /\ (engine = "pg" => "refused" \notin told[t]) =>
            work[t] # "undone"
       /\ "rollback" \in told[t] /\ "commit" \notin told[t] => work[t] # "kept"
       /\ engine = "pg" /\ "commit" \in told[t] => "rollback" \notin told[t]
  /\ engine = "pg" => \A s \in Slot :
       holder[s] = Nobody /\ InTx(s) => \E t \in OnSlot(s) : Ends(t)

(* What is reported of a transaction happened.                             *)
ReportsHonest == TxHonest /\ MeetingHonest

(* A transaction reported as committed is committed.                       *)
CommitKeeps == \A t \in Tx \ crossed : "commit" \in told[t] => work[t] # "undone"

(* Every call of a connection with ceilings ends or hangs in the write of  *)
(* its export, disconnect ends, and a transaction does not keep its        *)
(* connection for ever.                                                    *)
CallEnds(k) == dpc[k] \notin {"idle", "end"} ~> dpc[k] = "end" \/ engine = "http" \/ Writing(k)
DisconnectEnds == closing = "cleaning" ~> closing = "done"
TxReclaimed(t) == t \in txMap ~> waits[t] = {} /\ t \notin txMap
=============================================================================
