--------------------------- MODULE MCSshTransport ---------------------------
(* SshTransport for TLC.  Three clients leave room for a client in use and *)
(* two replaced ones whose events are still on their way.                  *)
EXTENDS SshTransport, TLC
CONSTANTS hard, plain

MCFallbacks == [c \in Conn |-> IF c = hard THEN AllFallbacks ELSE {"legacy", "kbd"}]

(* Records share no transport state, so a behaviour that uses one of them  *)
(* is enough: the easy and the hard environment are explored side by side. *)
OneRecord == Cardinality({c \in Conn : phase[c] # "fresh"}) <= 1

(* Calls are answered and connections come back.                           *)
AnsweredAndHealed == EveryCallAnswered /\ SelfHeals
=============================================================================
