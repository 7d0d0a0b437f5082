---------------------------- MODULE MCSshService ----------------------------
(* SshService for TLC, and the streams of bytes a connection is made of:   *)
(* what is typed into its terminals and read off them, how it logs in,     *)
(* the repaired banner and the SOCKS front.  The streams share no state,   *)
(* so a behaviour moves in one area, chosen at the start.                  *)
EXTENDS SshService, TermInput, ShellMarks, AgentRead, Login, BannerRepair, SocksFront, TLC
CONSTANTS shell1, shell2, tunnel1, remote1, sftp1, sftp2, known, unseen

VARIABLE area

MCKind ==
  [k \in Caller |-> CASE k \in {shell1, shell2} -> "shell" [] k = tunnel1 -> "listen"
                      [] k = remote1 -> "remote" [] OTHER -> "sftp"]

NoFallbacks == [c \in Conn |-> {}]

MCDevices ==
  {[honest |-> TRUE, factors |-> f] :
     f \in {<<"password">>, <<"publickey", "password">>, <<"password", "publickey">>,
            <<Keyboard>>, <<"publickey", Keyboard>>}}
  \union {[honest |-> FALSE, factors |-> <<>>]}
MCHoldings ==
  {{"password"}, {"password", "publickey"}, {"password", "agent"}, {"publickey"}, {"publickey", "badkey"}}
MCLines ==
  [version : {"none", "1.5", "1.99", "2.0", "2.1"}, stray : BOOLEAN, junk : BOOLEAN,
   software : {"", "sw"}, comments : {"", "c"}]
Hello == <<Text("hello"), Text("nl")>>
MCGreetings == {<<>>, Hello, Hello \o Hello}
MCOpenings == [greeting : {"no-auth", "other"}, request : {"connect", "bind", "other"}]
MCPayload == <<"p1", "p2", "p3">>

(* What an area does not choose is chosen once.                            *)
Pinned ==
  /\ area # "login" => device = CHOOSE d \in Devices : TRUE
  /\ area # "login" => holds = CHOOSE h \in Holdings : TRUE
  /\ area # "banner" => peer[1] = Ident(CHOOSE l \in Lines : TRUE)
  /\ area # "socks" => opening = CHOOSE o \in Openings : TRUE

MCServiceInit ==
  /\ area \in {"service", "input", "marks", "read", "login", "banner", "socks"}
  /\ ServiceInit /\ InputInit /\ MarksInit /\ AgentReadInit
  /\ LoginInit /\ BannerInit /\ SocksInit /\ Pinned

MCServiceNext ==
  /\ UNCHANGED area
  /\ \/ /\ area = "service" /\ ServiceNext
        /\ UNCHANGED <<inputVars, marksVars, readVars, loginVars, bannerVars, socksVars>>
     \/ /\ area = "input" /\ InputNext
        /\ UNCHANGED <<vars, marksVars, readVars, loginVars, bannerVars, socksVars>>
     \/ /\ area = "marks" /\ MarksNext
        /\ UNCHANGED <<vars, inputVars, readVars, loginVars, bannerVars, socksVars>>
     \/ /\ area = "read" /\ AgentReadNext
        /\ UNCHANGED <<vars, inputVars, marksVars, loginVars, bannerVars, socksVars>>
     \/ /\ area = "login" /\ LoginNext
        /\ UNCHANGED <<vars, inputVars, marksVars, readVars, bannerVars, socksVars>>
     \/ /\ area = "banner" /\ BannerNext
        /\ UNCHANGED <<vars, inputVars, marksVars, readVars, loginVars, socksVars>>
     \/ /\ area = "socks" /\ SocksNext
        /\ UNCHANGED <<vars, inputVars, marksVars, readVars, loginVars, bannerVars>>

streamVars == <<inputVars, marksVars, readVars, loginVars, bannerVars, socksVars>>
MCServiceSpec == MCServiceInit /\ [][MCServiceNext]_<<vars, streamVars, area>>

(* A behaviour explores one of: two terminals or SFTP calls on one record; *)
(* a terminal and port forwards on one that jumps and meets a new host     *)
(* key; the agent's target while both records come and go.                 *)
Busy == {k \in Caller : op[k] # "idle"}
Used == {c \in Conn : phase[c] # "fresh"}
OneScenario ==
  \/ Cardinality(Busy) <= 2 /\ Busy \subseteq {shell1, shell2, sftp1, sftp2} /\ Used \subseteq {known}
  \/ Busy \subseteq {tunnel1, remote1} /\ Used \subseteq {unseen}
  \/ Busy \subseteq {shell1, remote1} /\ Used \subseteq {unseen}
  \/ Busy = {}

(* One command is asked for at a time, and a terminal that is gone matters *)
(* while a request is under way; output is followed as far as a sequence   *)
(* longer than the carry.                                                  *)
OneStream ==
  /\ \E c \in Commands : ask[c] = NoAsk
  /\ alive \/ \E c \in Commands : ask[c].pc \in {"probe", "check", "family"}
  /\ ~overlong

Bounds == OneScenario /\ OneStream

ClientSymmetry == Permutations(Client)

(* The types of the service and of the streams.                            *)
ServiceWorldTypeOK ==
  ServiceTypeOK /\ InputTypeOK /\ MarksTypeOK /\ AgentReadTypeOK
  /\ LoginTypeOK /\ BannerTypeOK /\ SocksTypeOK

(* Sessions, tunnels, channels and the active connection: no map keeps     *)
(* what is gone, none loses what is there.                                 *)
MapsSound == SessionsAccounted /\ NothingOutlives

(* What the two ends of a terminal believe of each other is so: the line   *)
(* being typed, the markers in the output and what the agent reads of it.  *)
TerminalLineSound == InputSound /\ MarksExact /\ ReadsInFull

(* A connection is begun with exactly what the peer sent and the record    *)
(* holds: the login walk, the repaired banner and the SOCKS front.         *)
ConnectingSound == LoginSound /\ BannerExact /\ SocksExact
=============================================================================
