----------------------------- MODULE SshService -----------------------------
(***************************************************************************)
(* What SshOpsService keeps on top of its connection records: terminal     *)
(* sessions, port forwards, the cached SFTP channel and the connection the *)
(* agent's tools act on.  SshTransport supplies the records; a step that   *)
(* changes a record here carries the teardown or the continuation that the *)
(* same handler performs on these resources.                               *)
(*                                                                         *)
(* A Caller is one operation: openSession, tunnelStartLocal/Dynamic,       *)
(* tunnelStartRemote or requireSftp.  Each awaits ensureAlive and then the *)
(* channel or listener it asked for; its name also stands for the session  *)
(* or tunnel id it registers.                                              *)
(***************************************************************************)
EXTENDS SshTransport

CONSTANTS
  Kind,        \* Caller -> the operation it performs
  MaxSessions  \* MAX_SESSIONS

Kinds == {"shell", "listen", "remote", "sftp"}

ASSUME ServiceAssumption ==
  /\ Kind \in [Caller -> Kinds]
  /\ MaxSessions \in Nat \ {0}

VARIABLES
  active,       \* activeConnectionId
  op,           \* how far each operation is
  retried,      \* requireSftp calls in their one retry
  onClient,     \* the client its channel was requested on
  sessions,     \* keys of the service's sessions Map
  connSessions, \* record.sessions
  stream,       \* sessions whose shell channel is open
  exited,       \* sessions with an exit recorded on them
  tombs,        \* keys of exitedSessions
  tunnels,      \* record.tunnels
  listening,    \* tunnels whose net.Server accepts
  unowned,      \* listeners that started when their record was not in service (history)
  sftp          \* record.sftp: the client its channel belongs to

opVars      == <<op, retried, onClient>>
sessionVars == <<sessions, connSessions, stream, exited, tombs>>
tunnelVars  == <<tunnels, listening, unowned>>
serviceVars == <<active, opVars, sessionVars, tunnelVars, sftp>>
vars        == <<transportVars, serviceVars>>

OpStates == {"idle", "wait", "opening", "open", "stopping", "stopped", "failed"}

OfKind(kind) == {k \in Caller : Kind[k] = kind}

(* Types of the service's maps; only requireSftp ever opens a second time. *)
ServiceTypeOK ==
  /\ TransportTypeOK
  /\ active \in Conn \union {NoConn}
  /\ op \in [Caller -> OpStates] /\ retried \subseteq OfKind("sftp")
  /\ onClient \in [Caller -> Client \union {NoClient}]
  /\ sessions \subseteq Caller /\ connSessions \in [Conn -> SUBSET Caller]
  /\ stream \subseteq Caller /\ exited \subseteq Caller /\ tombs \subseteq Caller
  /\ tunnels \in [Conn -> SUBSET Caller] /\ listening \subseteq Caller /\ unowned \subseteq Caller
  /\ sftp \in [Conn -> Client \union {NoClient}]

ServiceInit ==
  /\ TransportInit
  /\ active = NoConn
  /\ op = [k \in Caller |-> "idle"] /\ retried = {} /\ onClient = [k \in Caller |-> NoClient]
  /\ sessions = {} /\ connSessions = [c \in Conn |-> {}]
  /\ stream = {} /\ exited = {} /\ tombs = {}
  /\ tunnels = [c \in Conn |-> {}] /\ listening = {} /\ unowned = {}
  /\ sftp = [c \in Conn |-> NoClient]

-----------------------------------------------------------------------------
(* Calls this step answers.  An operation that is told yes goes on at once:*)
(* openSession registers its session in both maps before it awaits the     *)
(* channel, the others await first.  One that is told no returns an error. *)
Told(answer) == {k \in Caller : call[k] # answer /\ call'[k] = answer}

Proceed ==
  LET granted == Told("yes")
      shells  == granted \intersect OfKind("shell")
  IN /\ op' = [k \in Caller |-> IF k \in granted THEN "opening"
                                ELSE IF k \in Told("no") THEN "failed" ELSE op[k]]
     /\ onClient' = [k \in Caller |-> IF k \in granted THEN client'[callee'[k]] ELSE onClient[k]]
     /\ sessions' = sessions \union shells
     /\ connSessions' = [c \in Conn |-> connSessions[c] \union {k \in shells : callee'[k] = c}]
     /\ UNCHANGED <<retried, stream, exited, tombs>>

(* Record steps that neither establish nor tear down.                      *)
QuietStep(c) ==
  /\ \/ Connect(c) \/ SockReady(c) \/ SockFails(c) \/ HandshakeFails(c)
     \/ SleepEnds(c) \/ PersistFails(c) \/ TransportCloses(c) \/ TimerFires(c)
     \/ ReconnectThrows(c)
  /\ Proceed
  /\ UNCHANGED <<active, tunnelVars, sftp>>

(* connectInternal returns: the new connection becomes the active one.  A  *)
(* reconnect leaves the selection alone.                                   *)
Establish(c) ==
  /\ HandshakeReady(c) \/ PersistDone(c)
  /\ Proceed
  /\ active' = IF connecting[c] /\ phase'[c] = "idle" THEN c ELSE active
  /\ UNCHANGED <<tunnelVars, sftp>>

(* closeConnectionTunnels                                                  *)
\* Faulty variant: the map is cleared and the listeners go on.
ForgetTunnels(c) == tunnels' = [tunnels EXCEPT ![c] = {}] /\ UNCHANGED <<listening, unowned>>
CloseConnectionTunnels(c) ==
  /\ tunnels' = [tunnels EXCEPT ![c] = {}]
  /\ listening' = listening \ tunnels[c]
  /\ UNCHANGED unowned

(* The sessions of a record end: they leave both maps and their exit is    *)
(* remembered for late readers; E are the ones marked as exited.           *)
RetireSessions(c, E) ==
  /\ sessions' = sessions \ connSessions[c]
  /\ connSessions' = [connSessions EXCEPT ![c] = {}]
  /\ stream' = stream \ connSessions[c]
  /\ exited' = exited \union E
  /\ tombs' = tombs \union connSessions[c]

(* The SFTP channel dies with its transport.                               *)
SftpDropped(c) == sftp' = [sftp EXCEPT ![c] = NoClient]

(* handleTransportLoss with its teardown; a delivery it ignores changes    *)
(* nothing here.                                                           *)
Loss(c) ==
  /\ \E more \in BOOLEAN : LossEvent(c, more)
  /\ \/ /\ dead'[c] # dead[c]
        /\ RetireSessions(c, connSessions[c]) /\ CloseConnectionTunnels(c) /\ SftpDropped(c)
     \/ /\ dead'[c] = dead[c]
        /\ UNCHANGED <<sessionVars, tunnelVars, sftp>>
  /\ UNCHANGED <<active, opVars>>

(* disconnect with its teardown: a session still opening has no stream to  *)
(* end and is not marked; record.sftp is left as it is.                    *)
Close(c) ==
  /\ Disconnect(c)
  /\ RetireSessions(c, connSessions[c] \intersect stream) /\ CloseConnectionTunnels(c)
  /\ active' = IF active = c THEN NoConn ELSE active
  /\ UNCHANGED <<opVars, sftp>>

Cancel == \E P \in SUBSET Conn : CancelConnect(P) /\ UNCHANGED serviceVars

-----------------------------------------------------------------------------
(* An operation starts: openSession looks at the session limit, requireSftp*)
(* at the cached channel, then all of them await ensureAlive.              *)
Start(k, c) ==
  /\ op[k] = "idle"
  /\ Kind[k] = "shell" => Cardinality(sessions) < MaxSessions
  /\ Kind[k] = "sftp" => sftp[c] = NoClient
  /\ EnsureAlive(k, c)
  /\ IF call'[k] = "wait"
     THEN op' = [op EXCEPT ![k] = "wait"] /\ UNCHANGED <<retried, onClient, sessionVars>>
     ELSE Proceed
  /\ UNCHANGED <<active, tunnelVars, sftp>>

(* requireSftp returns the cached channel.                                 *)
SftpCached(k, c) ==
  /\ op[k] = "idle" /\ Kind[k] = "sftp" /\ c \in connections
  /\ sftp[c] # NoClient
  /\ op' = [op EXCEPT ![k] = "open"]
  /\ onClient' = [onClient EXCEPT ![k] = sftp[c]]
  /\ UNCHANGED <<transportVars, active, retried, sessionVars, tunnelVars, sftp>>

(* openSession's session-limit return.                                     *)
LimitReached(k, c) ==
  /\ op[k] = "idle" /\ Kind[k] = "shell" /\ c \in connections
  /\ Cardinality(sessions) >= MaxSessions
  /\ op' = [op EXCEPT ![k] = "failed"]
  /\ UNCHANGED <<transportVars, active, retried, onClient, sessionVars, tunnelVars, sftp>>

GiveUpWaiting(k) ==
  /\ WaitTimesOut(k)
  /\ Proceed
  /\ UNCHANGED <<active, tunnelVars, sftp>>

(* The client answers a channel request only over the transport it was     *)
(* made on, which may already be ending.                                   *)
Answers(k) ==
  /\ onClient[k] = client[callee[k]]
  /\ link[callee[k]] \in {"up", "ending"}

(* The channel or listener is there.  openSession takes its stream and     *)
(* makes its connection the active one, without looking at the maps again. *)
ShellOpens(k) ==
  /\ op[k] = "opening" /\ Kind[k] = "shell" /\ Answers(k)
  /\ op' = [op EXCEPT ![k] = "open"]
  /\ stream' = stream \union {k}
  /\ active' = callee[k]
  /\ UNCHANGED <<transportVars, retried, onClient, sessions, connSessions, exited, tombs, tunnelVars, sftp>>

(* A record is in service: its first connect returned, and it has been     *)
(* neither lost nor closed since.                                          *)
InService(c) == c \in connections /\ ~connecting[c] /\ ~dead[c]

(* tunnelStartLocal and tunnelStartDynamic: listen() does not depend on the*)
(* transport, and the record is not looked at again.                       *)
ListenerOpens(k) ==
  /\ op[k] = "opening" /\ Kind[k] = "listen"
  /\ op' = [op EXCEPT ![k] = "open"]
  /\ tunnels' = [tunnels EXCEPT ![callee[k]] = @ \union {k}]
  /\ listening' = listening \union {k}
  /\ unowned' = IF InService(callee[k]) THEN unowned ELSE unowned \union {k}
  /\ UNCHANGED <<transportVars, active, retried, onClient, sessionVars, sftp>>

(* tunnelStartRemote: the server accepted forwardIn.                       *)
RemoteOpens(k) ==
  /\ op[k] = "opening" /\ Kind[k] = "remote" /\ Answers(k)
  /\ op' = [op EXCEPT ![k] = "open"]
  /\ tunnels' = [tunnels EXCEPT ![callee[k]] = @ \union {k}]
  /\ UNCHANGED <<transportVars, active, retried, onClient, sessionVars, listening, unowned, sftp>>

(* requireSftp caches the channel on the record.                           *)
SftpOpens(k) ==
  /\ op[k] = "opening" /\ Kind[k] = "sftp" /\ Answers(k)
  /\ op' = [op EXCEPT ![k] = "open"]
  /\ sftp' = [sftp EXCEPT ![callee[k]] = onClient[k]]
  /\ UNCHANGED <<transportVars, active, retried, onClient, sessionVars, tunnelVars>>

(* The request failed; openSession takes its session out of both maps.     *)
\* Faulty variant: only the service's map is cleaned up.
ForgetSession(k) == sessions' = sessions \ {k} /\ UNCHANGED connSessions
DropSession(k) ==
  /\ sessions' = sessions \ {k}
  /\ connSessions' = [c \in Conn |-> connSessions[c] \ {k}]

RetriesAny(k) == k \notin retried /\ dead[callee[k]] \* faulty variant
RetriesSftp(k) == Kind[k] = "sftp" /\ k \notin retried /\ dead[callee[k]]

OpenFails(k) ==
  /\ op[k] = "opening" /\ ~RetriesSftp(k)
  /\ op' = [op EXCEPT ![k] = "failed"]
  /\ DropSession(k)
  /\ UNCHANGED <<transportVars, active, retried, onClient, stream, exited, tombs, tunnelVars, sftp>>

(* requireSftp failed because the transport died: it awaits the reconnect  *)
(* and tries once more, or gives up at once on a record that was closed.   *)
SftpRetries(k) ==
  /\ op[k] = "opening" /\ RetriesSftp(k)
  /\ retried' = retried \union {k}
  /\ call' = [call EXCEPT ![k] = Answer(callee[k])]
  /\ op' = [op EXCEPT ![k] = IF call'[k] = "wait" THEN "wait" ELSE "failed"]
  /\ UNCHANGED <<recVars, tryVars, netVars, callee, active, onClient, sessionVars, tunnelVars, sftp>>

-----------------------------------------------------------------------------
(* recordExit: the shell's channel closed by itself.  The session leaves   *)
(* its record but stays in the service's map for readers.                  *)
SessionExits(k) ==
  /\ k \in stream /\ k \notin exited
  /\ exited' = exited \union {k}
  /\ stream' = stream \ {k}
  /\ connSessions' = [c \in Conn |->
       IF c = callee[k] /\ c \in connections THEN connSessions[c] \ {k} ELSE connSessions[c]]
  /\ UNCHANGED <<transportVars, active, opVars, sessions, tombs, tunnelVars, sftp>>

(* closeSession: by the panel, at any time after the session is registered.*)
CloseSession(k) ==
  /\ k \in sessions
  /\ sessions' = sessions \ {k}
  /\ connSessions' = [c \in Conn |->
       IF c = callee[k] /\ c \in connections THEN connSessions[c] \ {k} ELSE connSessions[c]]
  /\ exited' = IF k \in stream THEN exited \union {k} ELSE exited
  /\ stream' = stream \ {k}
  /\ tombs' = tombs \union {k}
  /\ UNCHANGED <<transportVars, active, opVars, tunnelVars, sftp>>

(* tunnelStop: the server stops accepting at once, and the entry goes when *)
(* its last socket has closed or the remote end answered.                  *)
StopTunnel(k) ==
  /\ op[k] = "open" /\ \E c \in connections : k \in tunnels[c]
  /\ listening' = listening \ {k}
  /\ op' = [op EXCEPT ![k] = "stopping"]
  /\ UNCHANGED <<transportVars, active, retried, onClient, sessionVars, tunnels, unowned, sftp>>

TunnelStopped(k) ==
  /\ op[k] = "stopping"
  /\ tunnels' = [tunnels EXCEPT ![callee[k]] = @ \ {k}]
  /\ op' = [op EXCEPT ![k] = "stopped"]
  /\ UNCHANGED <<transportVars, active, retried, onClient, sessionVars, listening, unowned, sftp>>

(* selectConnection refuses unknown, dead and closing connections.         *)
Selectable(c) == c \in connections /\ ~dead[c] /\ ~closing[c]

SelectConnection(c) ==
  /\ Selectable(c)
  /\ active' = c
  /\ UNCHANGED <<transportVars, opVars, sessionVars, tunnelVars, sftp>>

(* resolveConnection forgets an active id that is no longer in the map.    *)
ResolveConnection ==
  /\ active # NoConn /\ active \notin connections
  /\ active' = NoConn
  /\ UNCHANGED <<transportVars, opVars, sessionVars, tunnelVars, sftp>>

-----------------------------------------------------------------------------
OpStep(k) ==
  \/ \E c \in Conn : Start(k, c) \/ SftpCached(k, c) \/ LimitReached(k, c)
  \/ GiveUpWaiting(k)
  \/ ShellOpens(k) \/ ListenerOpens(k) \/ RemoteOpens(k) \/ SftpOpens(k) \/ OpenFails(k) \/ SftpRetries(k)
  \/ SessionExits(k) \/ CloseSession(k) \/ StopTunnel(k) \/ TunnelStopped(k)

ServiceNext ==
  \/ \E c \in Conn : QuietStep(c) \/ Establish(c) \/ Loss(c) \/ Close(c) \/ SelectConnection(c)
  \/ Cancel \/ ResolveConnection
  \/ \E k \in Caller : OpStep(k)

ServiceSpec == ServiceInit /\ [][ServiceNext]_vars

-----------------------------------------------------------------------------
(* The two session maps agree: a known record lists exactly the sessions of*)
(* its own the service knows and that have not exited, through opens that *)
(* fail, exits, closes, losses and disconnects in any order.               *)
SessionMapsAgree ==
  /\ \A c \in connections : \A k \in connSessions[c] : k \in sessions \ exited /\ callee[k] = c
  /\ \A k \in sessions \ exited : k \in connSessions[callee[k]]

(* A terminal that a caller was given and that is gone from the map has an *)
(* exit a late read can still fetch.                                       *)
ExitRemembered ==
  \A k \in OfKind("shell") : op[k] = "open" /\ k \notin sessions => k \in tombs

(* A session is accounted for from its registration to its last reader.    *)
SessionsAccounted == SessionMapsAgree /\ ExitRemembered

(* A dead record holds nothing that needs a transport: no terminal, no SFTP*)
(* channel and no remote forward, also when one was being opened at the    *)
(* moment of the loss.                                                     *)
DeadHoldsNothing ==
  \A c \in connections : dead[c] =>
    /\ connSessions[c] = {} /\ sftp[c] = NoClient
    /\ tunnels[c] \intersect OfKind("remote") = {}

(* The cached SFTP channel belongs to the client in use.                   *)
SftpIsCurrent ==
  \A c \in connections : sftp[c] # NoClient => sftp[c] = client[c]

(* A local listener accepts only while its record is in service and has it *)
(* among its tunnels, where tunnelStop finds it and a disconnect or a loss *)
(* closes it.  The exceptions are listeners whose listen() was answered    *)
(* when the record was lost or closed (index.js 5090-5095 does not look    *)
(* again), or while a first connect still wrote the host key: these are on *)
(* the record they were started for, and if that is gone they accept with  *)
(* nobody left to stop them.                                               *)
ListenersAreOwned ==
  \A k \in listening :
    /\ k \in tunnels[callee[k]]
    /\ k \notin unowned => InService(callee[k])

(* The agent's target is never a connection whose first connect has not    *)
(* returned: commands that name no connection go to one that was usable.   *)
(* (Not so while a first-seen key is written: selectConnection only looks  *)
(* at dead and closing, and the record is alive by then.)                  *)
ActiveWasEstablished ==
  active \in Conn \ FirstSeen => outcome[active] # "none" /\ ~connecting[active]

(* Nothing outlives what it needs: the transport of a channel, the record  *)
(* of a listener, the established connection the agent is aimed at.        *)
NothingOutlives ==
  DeadHoldsNothing /\ SftpIsCurrent /\ ListenersAreOwned /\ ActiveWasEstablished
=============================================================================
