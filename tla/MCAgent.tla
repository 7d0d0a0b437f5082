------------------------------ MODULE MCAgent ------------------------------
(* What an agent works with, for TLC: the saved resources, the connection  *)
(* it is given, the host keys it trusts, the remote workspace it is held   *)
(* in and the recordings it reads.  The modules share no state, so a       *)
(* behaviour moves in one of them, the area chosen at the start.           *)
EXTENDS Resources, AgentTarget, HostTrust, WorkspacePath, SessionLog, TLC
CONSTANTS p1, p2, d1

VARIABLE area

MCLinks == {Link(<<"b">>), Link(<<"a">>), Link(<<"b", "b">>), Link(<<"a", "b">>)}
MCTree ==
  {[p \in {<<"a">>, <<"b">>, <<"a", "a">>, <<"a", "b">>, <<"b", "b">>} |->
      CASE p = <<"a">> -> Dir [] p = <<"b">> -> n3 [] p = <<"a", "a">> -> n1
        [] p = <<"a", "b">> -> n2 [] p = <<"b", "b">> -> n4] :
     n1 \in {Dir, Link(<<"b">>), Link(<<"b", "b">>)}, n2 \in {Absent, File} \union MCLinks,
     n3 \in {Dir, Link(<<"a">>)}, n4 \in {Absent, Dir, Link(<<"a", "a">>)}}
MCRoots == {<<"a">>, <<"a", "a">>}
MCLocal == {<<"w">>, <<"w", "v">>}
MCCwd == MCLocal \union {<<"w", "b">>}
MCInputs ==
  {[abs |-> x, segs |-> s] : x \in BOOLEAN, s \in UNION {[1..n -> {"a", "b", ".."}] : n \in 1..2}}
MCTargets == <<p1, p2>>
MCNameOf == (p1 :> <<1, 2>>) @@ (p2 :> <<11, 2, 3>>)
MCQueries == {<<1, 12>>, <<2>>, <<3>>, <<>>}
MCSymmetry == Permutations(Conn) \union Permutations(Asks)

allVars == <<resVars, agentVars, trustVars, wsVars, storeVars, area>>

(* The choices an area does not make are made once.                        *)
Pinned ==
  /\ area # "resources" => live
  /\ area # "agent" => auto
  /\ area # "trust" => server = CHOOSE k \in Key : TRUE
  /\ area # "workspace" => lenient /\ tree = CHOOSE t \in MCTree : TRUE

MCAgentInit ==
  /\ area \in {"resources", "agent", "trust", "workspace", "log"}
  /\ ResInit /\ AgentInit /\ TrustInit /\ WsInit /\ LogInit /\ Pinned

MCAgentNext ==
  /\ UNCHANGED area
  /\ \/ area = "resources" /\ ResNext /\ UNCHANGED <<agentVars, trustVars, wsVars, storeVars>>
     \/ area = "agent" /\ AgentNext /\ UNCHANGED <<resVars, trustVars, wsVars, storeVars>>
     \/ area = "trust" /\ TrustNext /\ UNCHANGED <<resVars, agentVars, wsVars, storeVars>>
     \/ area = "workspace" /\ WsNext /\ UNCHANGED <<resVars, agentVars, trustVars, storeVars>>
     \/ area = "log" /\ LogNext /\ UNCHANGED <<resVars, agentVars, trustVars, wsVars>>

MCAgentSpec == MCAgentInit /\ [][MCAgentNext]_allVars

(* Bounds of the resources: one family of tables moves in a behaviour, and *)
(* calls meet over one id.                                                 *)
Moved ==
  {f \in {"settings", "databases", "tables"} :
     CASE f = "settings" -> \/ [row EXCEPT !.user = "root"] # [auto |-> FALSE, tier |-> "standard", user |-> "root", lang |-> "zh"]
                            \/ line # <<>>
       [] f = "databases" -> dbs # {} \/ d1 \in secrets
       [] f = "tables" -> \/ Saved # {} \/ creds # Cred \/ groups # Group
                          \/ \E c \in Call : calls[c].kind \in {"credentialDelete", "groupDelete"}}
(* Bounds of the others: a batch meets one agent call at a time, a reader  *)
(* meets the recording only.                                               *)
Bounds ==
  /\ Cardinality(Moved) <= 1 /\ Cardinality(met) <= 1 /\ mem.user = "root"
  /\ task = "none" \/ Cardinality({a \in Asks : ask[a] # Idle}) <= 1
  /\ reader.at = "idle" \/ Undisturbed

(* The types of the five modules.                                          *)
AgentWorldTypeOK == ResTypeOK /\ AgentTypeOK /\ TrustTypeOK /\ WsTypeOK /\ LogTypeOK

(* The recording is what the terminal showed, to its end.                  *)
RecordingSound == LogIsWhatWasShown /\ EndedLogIsFinal

(* What an agent is given is what is stored: no reference dangles, what is *)
(* in force was saved, a batch cleans up and names resolve.                *)
AgentWorldSound == ResourcesSound /\ AgentSound

(* An agent reaches the host it trusts and the tree it is held in.         *)
AgentHeldInPlace == OneKeyPerHost /\ WorkspaceContained
=============================================================================
