------------------------------ MODULE DbGuard ------------------------------
(***************************************************************************)
(* guardDestructiveSql (db-ops.js): what becomes of DROP and TRUNCATE.     *)
(* The target is backed up, a dropped table is renamed out of the way, and *)
(* only the operator's DROP of a renamed table is executed.  Between the   *)
(* awaits other clients use the server.                                    *)
(*                                                                         *)
(* Tables carry an identity, so that it can be told which one a backup or  *)
(* a rename got.                                                           *)
(***************************************************************************)
EXTENDS Integers

CONSTANTS
  Guarded,    \* blocked requests under way
  MaxSuffix,  \* bound: collisions of one day's quarantine names
  MaxBorn,    \* bound: tables ever created
  Capable,    \* whether the engine can rename (not clickhouse)
  NoTable

ASSUME GuardAssumption == MaxSuffix \in Nat /\ MaxBorn \in Nat \ {0} /\ Capable \in BOOLEAN /\ NoTable \notin Int

(* The names of one table: its own, and <name>_to_be_dropped_<date> with   *)
(* the suffixes of that day.                                               *)
Plain      == 0
Quarantine == 1 .. MaxSuffix
Names      == {Plain} \union Quarantine

VARIABLES
  store,     \* Names -> which table is there
  bornTables, purged, \* tables created; tables the operator's DROP removed
  gpc, greq, \* per request: where it is, what it asks
  copy,      \* per request: tables its backup holds
  seen,      \* per request: the names listTables returned
  reply,     \* per request: how it was answered, and with which new name
  took       \* per request: the table its rename moved

guardVars == <<store, bornTables, purged, gpc, greq, copy, seen, reply, took>>

Requests == [verb : {"drop", "truncate"}, kind : {"table", "database", "other"}, name : Names, origin : {"agent", "panel"}]
ASSUME RequestAssumption == NoTable \notin Requests

NoReply == [code |-> "none", to |-> NoTable]

GuardTypeOK ==
  /\ store \in [Names -> 0 .. MaxBorn] /\ bornTables \in 0 .. MaxBorn /\ purged \subseteq 1 .. MaxBorn
  /\ gpc \in [Guarded -> {"idle", "backup", "dump", "list", "rename", "purge", "end"}]
  /\ copy \in [Guarded -> SUBSET (1 .. MaxBorn)] /\ seen \in [Guarded -> SUBSET Names]

GuardInit ==
  /\ store = [n \in Names |-> IF n = Plain THEN 1 ELSE 0]
  /\ bornTables = 1 /\ purged = {}
  /\ gpc = [g \in Guarded |-> "idle"] /\ greq = [g \in Guarded |-> NoTable]
  /\ copy = [g \in Guarded |-> {}] /\ seen = [g \in Guarded |-> {}]
  /\ reply = [g \in Guarded |-> NoReply] /\ took = [g \in Guarded |-> 0]

Go(g, at) == gpc' = [gpc EXCEPT ![g] = at]
Answer(g, code, to) == Go(g, "end") /\ reply' = [reply EXCEPT ![g] = [code |-> code, to |-> to]]
Exists == {n \in Names : store[n] # 0}

(* Purging a quarantined table is the operator's step.                     *)
AnyonePurges(r) == TRUE \* faulty variant: the origin is not looked at
MayPurge(r) == r.origin = "panel"

(* guardDestructiveSql up to its first await.                              *)
GuardDestructiveSql(g) ==
  /\ gpc[g] = "idle"
  /\ \E r \in Requests :
       /\ greq' = [greq EXCEPT ![g] = r]
       /\ \/ r.kind = "other" /\ Answer(g, "blocked", NoTable)
          \/ r.kind = "database" /\ r.verb = "drop" /\ Go(g, "dump") /\ UNCHANGED reply
          \/ r.kind = "table" /\ r.name \in Quarantine /\ MayPurge(r) /\ Go(g, "purge") /\ UNCHANGED reply
          \/ r.kind = "table" /\ r.name \in Quarantine /\ ~MayPurge(r) /\ Answer(g, "blocked", NoTable)
          \/ r.kind = "table" /\ r.name = Plain /\ Go(g, "backup") /\ UNCHANGED reply
  /\ UNCHANGED <<store, bornTables, purged, copy, seen, took>>

(* A whole database: every table the connection's own database lists is    *)
(* backed up, as far as that works, and the statement stays blocked.       *)
DumpDatabase(g) ==
  /\ gpc[g] = "dump" /\ Answer(g, "blocked", NoTable)
  /\ \E some \in SUBSET {store[n] : n \in Exists} : copy' = [copy EXCEPT ![g] = some]
  /\ UNCHANGED <<store, bornTables, purged, greq, seen, took>>

(* backupTableSnapshot: rows, then the DDL; a failure is noted and the     *)
(* guard goes on.                                                          *)
BackupTableSnapshot(g) ==
  LET n == greq[g].name
      rows == {store[n]} \ {0}
  IN /\ gpc[g] = "backup"
     /\ \E got \in {rows, {}} : copy' = [copy EXCEPT ![g] = got]
     /\ \/ (greq[g].verb = "truncate" \/ ~Capable) /\ Answer(g, "blocked", NoTable)
        \/ greq[g].verb = "drop" /\ Capable /\ Go(g, "list") /\ UNCHANGED reply
     /\ UNCHANGED <<store, bornTables, purged, greq, seen, took>>

(* quarantineRename, first half: the names of the moment.                  *)
ListForRename(g) ==
  /\ gpc[g] = "list"
  /\ \/ Answer(g, "blocked", NoTable) /\ UNCHANGED seen
     \/ greq[g].name \notin Exists /\ Answer(g, "absent", NoTable) /\ UNCHANGED seen
     \/ /\ greq[g].name \in Exists /\ seen' = [seen EXCEPT ![g] = Exists]
        /\ Go(g, "rename") /\ UNCHANGED reply
  /\ UNCHANGED <<store, bornTables, purged, greq, copy, took>>

(* The first name of today that was not taken.                             *)
Candidate(names) ==
  LET free == Quarantine \ names
  IN CHOOSE c \in free : \A d \in free : c <= d

(* Second half: RENAME TABLE on the server, which refuses when the table   *)
(* is gone or the name taken; the answer may be lost.                      *)
RenamedStore(n, to) == [store EXCEPT ![n] = 0, ![to] = store[n]]

QuarantineRename(g) ==
  LET n == greq[g].name
      to == Candidate(seen[g])
      works == store[n] # 0 /\ store[to] = 0
      told == IF greq[g].origin = "agent" THEN "quarantined" ELSE "moved"
  IN /\ gpc[g] = "rename" /\ Quarantine \ seen[g] # {}
     /\ \/ /\ works /\ store' = RenamedStore(n, to) /\ took' = [took EXCEPT ![g] = store[n]]
           /\ Answer(g, told, to) \/ Answer(g, "blocked", NoTable)
        \/ Answer(g, "blocked", NoTable) /\ UNCHANGED <<store, took>>
     /\ UNCHANGED <<bornTables, purged, greq, copy, seen>>

(* runQuarantineSql: the operator's final DROP.                            *)
RunQuarantineSql(g) ==
  LET n == greq[g].name
  IN /\ gpc[g] = "purge"
     /\ \/ Answer(g, "failed", NoTable) /\ UNCHANGED <<store, purged>>
        \/ /\ store[n] # 0 /\ (Answer(g, "dropped", NoTable) \/ Answer(g, "failed", NoTable))
           /\ store' = [store EXCEPT ![n] = 0] /\ purged' = purged \union {store[n]}
     /\ UNCHANGED <<bornTables, greq, copy, seen, took>>

(* Another statement creates the table anew, or renames it back.           *)
CreateTable ==
  /\ store[Plain] = 0 /\ bornTables < MaxBorn
  /\ bornTables' = bornTables + 1 /\ store' = [store EXCEPT ![Plain] = bornTables + 1]
  /\ UNCHANGED <<purged, gpc, greq, copy, seen, reply, took>>

RenameBack(n) ==
  /\ store[n] # 0 /\ store[Plain] = 0 /\ store' = RenamedStore(n, Plain)
  /\ UNCHANGED <<bornTables, purged, gpc, greq, copy, seen, reply, took>>

GuardNext ==
  \/ \E g \in Guarded :
       \/ GuardDestructiveSql(g) \/ DumpDatabase(g) \/ BackupTableSnapshot(g)
       \/ ListForRename(g) \/ QuarantineRename(g) \/ RunQuarantineSql(g)
  \/ CreateTable
  \/ \E n \in Quarantine : RenameBack(n)

-----------------------------------------------------------------------------
(* No table disappears through the guard, whatever meets on the server: it *)
(* is under some name, or the operator's DROP took it; an answer that names*)
(* a new home was given for a rename that really moved the table there;    *)
(* and the agent alone never makes a table go.                             *)
NothingDropped ==
  /\ 1 .. bornTables = purged \union {store[n] : n \in Exists}
  /\ \A g \in Guarded : reply[g].code = "quarantined" => took[g] # 0 /\ reply[g].to \in Quarantine
  /\ purged # {} => \E g \in Guarded : greq[g] # NoTable /\ greq[g].origin = "panel"
=============================================================================
