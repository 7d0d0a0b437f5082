---------------------------- MODULE AgentTarget ----------------------------
(***************************************************************************)
(* Which machine the agent works on: agentConnectProfile, the connection   *)
(* of a bound workspace (requireRemoteWorkspaceConnection and              *)
(* revealRemoteWorkspaceConnection), the operator's panel, and batch runs  *)
(* (index.js).  A transport is reduced to its stages; SshTransport has the *)
(* rest.                                                                   *)
(***************************************************************************)
EXTENDS Integers, Sequences, FiniteSets

CONSTANTS
  Conn, Prof,   \* connection ids ever used; saved resources
  Asks,         \* agent calls
  Targets,      \* the resources the operator ticked, in order
  Workers,      \* BATCH_MAX_CONCURRENCY
  NameOf, Queries, \* resource names and what the agent types, letters as numbers
  NoConn

ASSUME AgentAssumption ==
  Workers \in Nat \ {0} /\ Targets \in Seq(Prof) /\ NoConn \notin Conn \union Prof /\ IsFiniteSet(Prof)

VARIABLES
  conn,    \* Conn -> [st, prof, term]: its stage, resource, and its terminal
  active,  \* activeConnectionId
  auto,    \* the agentAutoConnect switch, as this behaviour has it (see Resources)
  ask,     \* Asks -> [at, kind, prof, conn, prev, reused, reply]
  task,    \* the batch task
  slot     \* per target: [at, conn, results]

agentVars == <<conn, active, auto, ask, task, slot>>

NoTerm == "none"
Idle == [at |-> "idle", kind |-> "none", prof |-> NoConn, conn |-> NoConn, prev |-> NoConn, reused |-> FALSE, reply |-> "none"]
Waiting == [at |-> "wait", conn |-> NoConn, results |-> 0]

AgentTypeOK ==
  /\ conn \in [Conn -> [st : {"free", "connecting", "live", "dead", "gone"}, prof : Prof \union {NoConn}, term : {NoTerm, "pending", "open", "exited"}]]
  /\ active \in Conn \union {NoConn} /\ auto \in BOOLEAN
  /\ task \in {"none", "planned", "running", "done", "cancelled"}
  /\ \A i \in DOMAIN Targets : slot[i].results \in 0 .. 1
  /\ \A c \in Conn : conn[c].st \in {"free", "connecting", "dead", "gone"} => conn[c].term = NoTerm

AgentInit ==
  /\ conn = [c \in Conn |-> [st |-> "free", prof |-> NoConn, term |-> NoTerm]]
  /\ active = NoConn /\ auto \in BOOLEAN /\ task = "none"
  /\ ask = [a \in Asks |-> Idle]
  /\ slot = [i \in DOMAIN Targets |-> Waiting]

InMap(c) == conn[c].st \in {"connecting", "live", "dead"}
Fresh == {c \in Conn : conn[c].st = "free"}
Reusable(p) == {c \in Conn : conn[c].st = "live" /\ conn[c].prof = p}

-----------------------------------------------------------------------------
(* resolveProfileRef: the id, else the exact name, else the only name that *)
(* contains the text; case does not matter (10 + n is n in upper case).    *)
Lower(s) == [i \in DOMAIN s |-> s[i] % 10]
Includes(s, t) == \E i \in 0 .. Len(s) - Len(t) : \A j \in DOMAIN t : s[i + j] = t[j]
Exact(q) == {p \in Prof : Lower(NameOf[p]) = Lower(q)}
Partial(q) == {p \in Prof : Includes(Lower(NameOf[p]), Lower(q))}
ResolveProfileRef(q) ==
  IF q \in Prof THEN {q}
  ELSE IF Len(q) = 0 THEN {}
  ELSE IF Exact(q) # {} THEN (IF Cardinality(Exact(q)) = 1 THEN Exact(q) ELSE {})
  ELSE IF Cardinality(Partial(q)) = 1 THEN Partial(q) ELSE {}

-----------------------------------------------------------------------------
(* connectInternal: the record is in the map while the handshake runs; a   *)
(* new connection becomes the active one.                                  *)
Dial(c, p) == c \in Fresh /\ conn' = [conn EXCEPT ![c] = [st |-> "connecting", prof |-> p, term |-> NoTerm]]
Up(c)      == conn[c].st = "connecting" /\ conn' = [conn EXCEPT ![c].st = "live"] /\ active' = c
Down(c)    == conn' = [conn EXCEPT ![c].st = "gone", ![c].term = NoTerm]

(* disconnect: out of the map with its sessions; the active one is cleared.*)
DropConnection(c) == Down(c) /\ active' = IF active = c THEN NoConn ELSE active

-----------------------------------------------------------------------------
(* Whether a terminal is opened: agentConnectProfile counts the sessions,  *)
(* a bound workspace looks for one that is live.                           *)
HasTerminal(kind, c) == IF kind = "profile" THEN conn[c].term # NoTerm ELSE conn[c].term = "open"

(* selectConnection and the answer follow a terminal without an await.     *)
Record(a, at, p, kind, c) ==
  ask' = [ask EXCEPT ![a] = [at |-> at, kind |-> kind, prof |-> p, conn |-> c, prev |-> active, reused |-> c # NoConn, reply |-> IF at = "end" THEN conn[c].term ELSE "none"]]

(* openSession: the session is in the map while the shell is requested.    *)
Requested(c) == [conn EXCEPT ![c].term = IF @ = "open" THEN @ ELSE "pending"]

Reuse(a, p, kind) ==
  \E c \in Reusable(p) :
    IF HasTerminal(kind, c) THEN Record(a, "end", p, kind, c) /\ conn' = conn /\ active' = c
    ELSE Record(a, "opening", p, kind, c) /\ conn' = Requested(c) /\ active' = active

(* agentConnectProfile and requireRemoteWorkspaceConnection up to their    *)
(* first real await.  A workspace may reuse with the switch off.           *)
AgentConnectProfile(a, q) ==
  /\ ask[a].at = "idle" /\ auto
  /\ \E p \in ResolveProfileRef(q) :
       \/ Reuse(a, p, "profile")
       \/ Reusable(p) = {} /\ Record(a, "auth", p, "profile", NoConn) /\ UNCHANGED <<conn, active>>
  /\ UNCHANGED <<auto, task, slot>>

RequireWorkspaceConnection(a, p) ==
  /\ ask[a].at = "idle"
  /\ \/ Reuse(a, p, "workspace")
     \/ Reusable(p) = {} /\ auto /\ Record(a, "auth", p, "workspace", NoConn) /\ UNCHANGED <<conn, active>>
  /\ UNCHANGED <<auto, task, slot>>

(* profileConnect: the credential is there or not; then the transport.     *)
AgentFails(a) == ask' = [ask EXCEPT ![a].at = "end", ![a].reply = "failed"]

AgentDials(a) ==
  /\ ask[a].at = "auth"
  /\ \/ AgentFails(a) /\ conn' = conn
     \/ \E c \in Fresh : Dial(c, ask[a].prof) /\ ask' = [ask EXCEPT ![a].at = "dial", ![a].conn = c]
  /\ UNCHANGED <<active, auto, task, slot>>

AgentDialEnds(a) ==
  LET c == ask[a].conn
  IN /\ ask[a].at = "dial"
     /\ \/ conn' = [conn EXCEPT ![c].st = "live", ![c].term = "pending"] /\ active' = c /\ ask' = [ask EXCEPT ![a].at = "opening"]
        \/ AgentFails(a) /\ Down(c) /\ active' = active
     /\ UNCHANGED <<auto, task, slot>>

(* rollback: what this call made goes, and the old target comes back.      *)
Undone(a) ==
  LET c == ask[a].conn
  IN IF ~InMap(c) THEN conn
     ELSE IF ~ask[a].reused THEN [conn EXCEPT ![c].st = "gone", ![c].term = NoTerm]
     ELSE IF conn[c].term = "pending" THEN [conn EXCEPT ![c].term = NoTerm] ELSE conn

ShellAnswers(a) ==
  LET c == ask[a].conn
  IN /\ ask[a].at = "opening"
     /\ \/ /\ conn[c].st = "live" /\ conn' = [conn EXCEPT ![c].term = "open"] /\ active' = c
           /\ ask' = [ask EXCEPT ![a].at = "end", ![a].reply = "open"]
        \/ AgentFails(a) /\ conn' = Undone(a) /\ active' = ask[a].prev
     /\ UNCHANGED <<auto, task, slot>>

AgentAgain(a) ==
  /\ ask[a].at = "end" /\ ask[a].reply = "failed" /\ ask' = [ask EXCEPT ![a] = Idle]
  /\ UNCHANGED <<conn, active, auto, task, slot>>

-----------------------------------------------------------------------------
(* The operator: connect, terminal, a click on a pane, disconnect, cancel. *)
PanelConnect(c, p) ==
  /\ Dial(c, p) /\ UNCHANGED <<active, auto, ask, task, slot>>

PanelConnected(c) ==
  /\ \A a \in Asks : ask[a].conn # c
  /\ \A i \in DOMAIN slot : slot[i].conn # c
  /\ conn[c].st = "connecting" /\ (Up(c) \/ (Down(c) /\ UNCHANGED active))
  /\ UNCHANGED <<auto, ask, task, slot>>

PanelTerminal(c) ==
  /\ conn[c].st = "live" /\ conn[c].term # "open"
  /\ conn' = [conn EXCEPT ![c].term = "open"] /\ active' = c
  /\ UNCHANGED <<auto, ask, task, slot>>

SelectConnection(c) ==
  /\ conn[c].st = "live" /\ active # c /\ active' = c
  /\ UNCHANGED <<conn, auto, ask, task, slot>>

(* disconnect, profileDisconnect and, while it connects, cancelProfileConnect. *)
Disconnect(c) ==
  /\ conn[c].st \in {"live", "dead"} /\ DropConnection(c)
  /\ UNCHANGED <<auto, ask, task, slot>>

ShellExits(c) ==
  /\ conn[c].term = "open" /\ conn' = [conn EXCEPT ![c].term = "exited"]
  /\ UNCHANGED <<active, auto, ask, task, slot>>

TransportLost(c) ==
  /\ conn[c].st = "live" /\ conn' = [conn EXCEPT ![c].st = "dead", ![c].term = NoTerm]
  /\ UNCHANGED <<active, auto, ask, task, slot>>

Reconnected(c) ==
  /\ conn[c].st = "dead" /\ conn' = [conn EXCEPT ![c].st = "live"]
  /\ UNCHANGED <<active, auto, ask, task, slot>>

-----------------------------------------------------------------------------
(* batchPlan, batchCancel, and batchRun: the task leaves the list before   *)
(* anything runs.                                                          *)
BatchPlan ==
  /\ task = "none" /\ task' = "planned" /\ UNCHANGED <<conn, active, auto, ask, slot>>

BatchCancel ==
  /\ task = "planned" /\ task' = "cancelled" /\ UNCHANGED <<conn, active, auto, ask, slot>>

BatchRun ==
  /\ task = "planned" /\ task' = "running" /\ UNCHANGED <<conn, active, auto, ask, slot>>

Running == {i \in DOMAIN slot : slot[i].at \notin {"wait", "end"}}
Settle(i) == slot' = [slot EXCEPT ![i].at = "end", ![i].results = @ + 1]

(* A worker takes the next target; runCommandOnProfile never reuses.       *)
FreeWorker == Cardinality(Running) < Workers
TakeTarget(i) ==
  /\ task = "running" /\ slot[i].at = "wait" /\ FreeWorker
  /\ \A j \in DOMAIN slot : j < i => slot[j].at # "wait"
  /\ \/ Settle(i) /\ conn' = conn
     \/ \E c \in Fresh : Dial(c, Targets[i]) /\ slot' = [slot EXCEPT ![i].at = "dial", ![i].conn = c]
  /\ UNCHANGED <<active, auto, ask, task>>

BatchDialEnds(i) ==
  LET c == slot[i].conn
  IN /\ slot[i].at = "dial"
     /\ \/ Up(c) /\ slot' = [slot EXCEPT ![i].at = "exec"]
        \/ Down(c) /\ active' = active /\ Settle(i)
     /\ UNCHANGED <<auto, ask, task>>

(* The command ends, fails or times out; then the connection is closed,    *)
(* unless somebody has already done so.                                    *)
CloseAfter(i) == IF InMap(slot[i].conn) THEN DropConnection(slot[i].conn) ELSE UNCHANGED <<conn, active>>

BatchExecEnds(i) ==
  /\ slot[i].at = "exec" /\ Settle(i) /\ CloseAfter(i)
  /\ UNCHANGED <<auto, ask, task>>

BatchAnswers ==
  /\ task = "running" /\ \A i \in DOMAIN slot : slot[i].at = "end"
  /\ task' = "done" /\ UNCHANGED <<conn, active, auto, ask, slot>>

AgentNext ==
  \/ \E a \in Asks :
       \/ \E q \in Queries : AgentConnectProfile(a, q)
       \/ \E p \in Prof : RequireWorkspaceConnection(a, p)
       \/ AgentDials(a) \/ AgentDialEnds(a) \/ ShellAnswers(a) \/ AgentAgain(a)
  \/ \E c \in Conn :
       \/ \E p \in Prof : PanelConnect(c, p)
       \/ PanelConnected(c) \/ PanelTerminal(c) \/ SelectConnection(c) \/ Disconnect(c)
       \/ ShellExits(c) \/ TransportLost(c) \/ Reconnected(c)
  \/ BatchPlan \/ BatchCancel \/ BatchRun \/ BatchAnswers
  \/ \E i \in DOMAIN slot : TakeTarget(i) \/ BatchDialEnds(i) \/ BatchExecEnds(i)

-----------------------------------------------------------------------------
(* A connection made for a command on many machines is closed when that    *)
(* command is over, every ticked machine has exactly one result in the     *)
(* answer, and a task that was cancelled or already run does nothing.      *)
BatchLeavesNothing ==
  /\ \A i \in DOMAIN slot : slot[i].at = "end" => (slot[i].conn # NoConn => conn[slot[i].conn].st = "gone") /\ slot[i].results = 1
  /\ task \in {"none", "planned", "cancelled"} => \A i \in DOMAIN slot : slot[i] = Waiting
  /\ task = "done" => \A i \in DOMAIN slot : slot[i].results = 1
  /\ Cardinality(Running) <= Workers

(* An agent call that failed leaves no connection of its own behind, and a *)
(* file operation in a bound workspace goes ahead only on a machine whose  *)
(* terminal the operator has in front of them.                             *)
AgentIsSeen ==
  \A a \in Asks : ask[a].at = "end" =>
    /\ ask[a].reply = "failed" /\ ~ask[a].reused /\ ask[a].conn # NoConn => ~InMap(ask[a].conn)
    /\ ask[a].kind = "workspace" => ask[a].reply \in {"failed", "open"}

(* The resource the agent named is the one it meant: an exact name wins    *)
(* over names that merely contain it, and several candidates are refused.  *)
NamesResolve ==
  \A q \in Queries : \A p \in ResolveProfileRef(q) :
    q = p \/ \A r \in Prof \ {p} : Lower(NameOf[r]) # Lower(q) /\ (Lower(NameOf[p]) # Lower(q) => r \notin Partial(q))

(* Who acts, on which machine, and what is left of it afterwards.          *)
AgentSound == BatchLeavesNothing /\ AgentIsSeen /\ NamesResolve
=============================================================================
