------------------------------- MODULE MCDb --------------------------------
(* The database modules for TLC: the pool of a connection, the guard of    *)
(* destructive statements and the gates in front of both.  They share no   *)
(* state, so a behaviour moves in one of them only.                        *)
EXTENDS DbPool, DbGuard, SqlGate, TLC
CONSTANTS k1, k2, x1

MCMenu == [k \in DbCall |-> IF k = k1 THEN {"query", "run", "listTables"} ELSE Ops \ {"query", "run", "listTables"}]

(* The marks of the texts the run reads: all but the comma, which ends a   *)
(* name as the end of the statement does.                                  *)
MCPunct == {"'", "\"", "backtick", "E'", "\\", ";", "(", ")", ".", "--", "-- ", "#", "eol", "/*", "/*!", "*/", "$$"}

(* The dialect matters where the engine speaks SQL.                        *)
MCDbInit == DbInit /\ GuardInit /\ SqlInit /\ dialect = (IF engine = "mysql" THEN "mysql" ELSE "pg")

PoolMoved  == rec # "none" \/ \E k \in DbCall : dpc[k] # "idle"
GuardMoved == \E g \in Guarded : gpc[g] # "idle"
GateMoved  == typed > 0

MCDbNext ==
  \/ ~GuardMoved /\ ~GateMoved /\ DbNext /\ UNCHANGED <<guardVars, sqlVars>>
  \/ engine = "pg" /\ ~PoolMoved /\ ~GateMoved /\ GuardNext /\ UNCHANGED <<dbVars, sqlVars>>
  \/ engine \in Dialects /\ ~PoolMoved /\ ~GuardMoved /\ SqlNext /\ UNCHANGED <<dbVars, guardVars>>

MCDbSpec == MCDbInit /\ [][MCDbNext]_<<dbVars, guardVars, sqlVars>> /\ DbFairness

(* Two calls meet, or one of them meets a transaction.                     *)
Meeting == begun[x1] = "none" \/ dpc[k2] = "idle"

(* The types of the three modules, with what each relates.                 *)
DatabaseTypeOK == DbTypeOK /\ GuardTypeOK /\ SqlTypeOK

(* Calls, the transaction and disconnect all come to an end, although a    *)
(* connection may fall silent at any point.                                *)
DbCallsEnd == CallEnds(k1) /\ CallEnds(k2) /\ TxReclaimed(x1) /\ DisconnectEnds
=============================================================================
