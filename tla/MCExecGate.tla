----------------------------- MODULE MCExecGate -----------------------------
(* ExecGate for TLC: a POSIX host and a device without a shell, what each  *)
(* call's command is, and which of them happen together.                   *)
EXTENDS ExecGate, TLC
CONSTANTS safe1, delete1, destroy1, host, device

MCKind ==
  [k \in Call |-> CASE k = delete1 -> "delete" [] k = destroy1 -> "destroy" [] OTHER -> "safe"]

DestroyReleased  == {{}, {"destroy"}}

(* A behaviour explores one of: a dangerous call or a delete while target  *)
(* and policy move between the two connections; two calls that compete for *)
(* the device's terminal.                                                  *)
Busy == {k \in Call : pc[k] # "idle"}
Used == {c \in Conn : status[c] # "new"}
Unset(c) == resource[c] = "none"
OneScenario ==
  \/ Busy \subseteq {destroy1} /\ Unset(host) /\ Unset(device)
  \/ Busy \subseteq {delete1} /\ Used \subseteq {host} /\ Unset(device)
  \/ Busy \subseteq {destroy1, safe1} /\ Used \subseteq {device} /\ Unset(host)

(* The harmless call ends: it is the one that may be sent again, and that  *)
(* meets the other calls at the terminal.                                  *)
HarmlessExecEnds == ExecEnds(safe1)
=============================================================================
