--------------------------- MODULE ConnLifecycle ---------------------------
(***************************************************************************)
(* What a connection record of SshOpsService is to the rest of the plugin: *)
(* it is connecting, usable, down while it heals by itself, or closed, and *)
(* closed is final.  SshTransport implements this; ExecGate builds on it.  *)
(***************************************************************************)
CONSTANT Conn
VARIABLE status

Statuses == {"new", "connecting", "up", "down", "closed"}

LifecycleInit == status = [c \in Conn |-> "new"]

Opens(c) ==
  /\ status[c] = "new"
  /\ status' = [status EXCEPT ![c] = "connecting"]

(* The first connect or a reconnect succeeded.                             *)
ComesUp(c) ==
  /\ status[c] \in {"connecting", "down"}
  /\ status' = [status EXCEPT ![c] = "up"]

(* The transport of an established record is lost.                         *)
Drops(c) ==
  /\ status[c] = "up"
  /\ status' = [status EXCEPT ![c] = "down"]

(* A first connect fails, or records are closed; cancelling a profile may  *)
(* close several at once.                                                  *)
CloseAll(S) ==
  /\ S # {} /\ \A c \in S : status[c] \in {"connecting", "up", "down"}
  /\ status' = [c \in Conn |-> IF c \in S THEN "closed" ELSE status[c]]

LifecycleNext ==
  \/ \E c \in Conn : Opens(c) \/ ComesUp(c) \/ Drops(c)
  \/ \E S \in SUBSET Conn : CloseAll(S)

LifecycleSpec == LifecycleInit /\ [][LifecycleNext]_status
=============================================================================
