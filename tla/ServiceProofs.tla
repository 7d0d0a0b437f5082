---------------------------- MODULE ServiceProofs ----------------------------
(***************************************************************************)
(* Proofs about SshService, for any number of connections, clients and     *)
(* operations.  Every step of it but one is a step of SshTransport or none *)
(* on the records, so the invariant of the records is taken from           *)
(* SshTransportProofs; ServiceInv adds what the service keeps on them.     *)
(* The further parts prove the streams a connection is made of: the login  *)
(* walk (LoginInv), the repaired banner (BannerInv), the SOCKS front       *)
(* (SocksInv), the line being typed (InputInv), the markers in the output  *)
(* (MarksInv) and what the agent reads of it (ReadInv).                    *)
(***************************************************************************)
EXTENDS MCSshService, SshTransportProofs, SequenceTheorems, FiniteSetTheorems

-----------------------------------------------------------------------------
(* The inductive invariant of what the service keeps on its records.       *)

(* A dead record has no transport, a live one whose key was known before   *)
(* has had its first connect, a fresh one has no outcome.                  *)
LinkBooks(c) ==
  /\ dead[c] => link[c] \notin {"up", "ending"}
  /\ ~dead[c] /\ c \notin FirstSeen => outcome[c] # "none" /\ ~connecting[c]
  /\ phase[c] = "fresh" => outcome[c] = "none"

(* A waiting call is that of a waiting operation; an operation that was    *)
(* told to go on is on a record that has been connected.                   *)
CallBooks(k) ==
  /\ call[k] = "wait" => op[k] = "wait"
  /\ callee[k] # NoConn => phase[callee[k]] # "fresh"
  /\ op[k] \in {"wait", "opening"} => callee[k] # NoConn
  /\ op[k] = "opening" /\ callee[k] \notin FirstSeen =>
       outcome[callee[k]] # "none" /\ ~connecting[callee[k]]

(* A session is nowhere before its operation was told to go on; one that   *)
(* has not exited is on its record; one that left the map is a tombstone.  *)
(* A tunnel that listens is open and on its record.                        *)
SessionBooks(k) ==
  /\ Kind[k] # "shell" \/ op[k] \in {"idle", "wait"} => k \notin sessions \union stream \union exited
  /\ k \in sessions \ exited => callee[k] # NoConn /\ k \in connSessions[callee[k]]
  /\ Kind[k] = "shell" /\ op[k] \in {"opening", "open"} => k \in sessions \union tombs
  /\ k \in listening => op[k] = "open" /\ callee[k] # NoConn /\ k \in tunnels[callee[k]]

(* What a record holds are operations of its own; a record in the map      *)
(* lists sessions that live, its channel is that of its client, and it     *)
(* holds nothing while dead.                                               *)
RecordBooks(c) ==
  /\ \A k \in connSessions[c] : callee[k] = c /\ Kind[k] = "shell" /\ op[k] \notin {"idle", "wait"}
  /\ \A k \in tunnels[c] : callee[k] = c /\ op[k] \in {"open", "stopping"}
  /\ sftp[c] # NoClient => phase[c] # "fresh"
  /\ c \in connections =>
       /\ connSessions[c] \subseteq sessions \ exited
       /\ sftp[c] # NoClient => sftp[c] = client[c]
       /\ dead[c] => connSessions[c] = {} /\ sftp[c] = NoClient /\ tunnels[c] \intersect OfKind("remote") = {}

Books ==
  /\ \A k \in Caller : CallBooks(k) /\ SessionBooks(k)
  /\ \A c \in Conn : RecordBooks(c)
  /\ ActiveWasEstablished

LinkInv == LinkHasClient /\ \A c \in Conn : LinkBooks(c)

ServiceInv == ServiceTypeOK /\ TransportInv /\ LinkInv /\ Books

LEMMA ServiceBegins == ServiceInit => ServiceInv
<1> SUFFICES ASSUME ServiceInit PROVE ServiceInv
  OBVIOUS
<1> USE TransportAssumption, ServiceAssumption
<1>1. TransportTypeOK /\ TransportInv
  BY TransportTypeInit, TransportInvInit DEF ServiceInit
<1>2. LinkInv
  BY TransportTypeInit DEF ServiceInit, TransportInit, LinkInv, LinkBooks
<1>3. ServiceTypeOK
  BY <1>1 DEF ServiceInit, ServiceTypeOK, OpStates, OfKind
<1>4. Books
  BY DEF ServiceInit, TransportInit, Books, CallBooks, SessionBooks, RecordBooks, ActiveWasEstablished
<1> QED BY <1>1, <1>2, <1>3, <1>4 DEF ServiceInv

-----------------------------------------------------------------------------
(* What a step of the transport does to a record, as far as the service    *)
(* can tell: a record enters the map when it is fresh and never again, a   *)
(* first connect stays over, and the client only changes on a dead record. *)
RecordMoves(c) ==
  /\ c \in connections' => c \in connections \/ phase[c] = "fresh"
  /\ phase[c] # "fresh" => phase'[c] # "fresh"
  /\ outcome[c] # "none" => outcome'[c] # "none"
  /\ connecting'[c] => connecting[c] \/ phase[c] = "fresh"
  /\ client'[c] # client[c] => dead[c]

(* A step without a loss leaves no record dead that was not.               *)
Spares(c) == dead'[c] => dead[c]

LEMMA OtherRecord ==
  ASSUME TransportTypeOK, NEW c \in Conn, RecordStep(c), NEW d \in Conn, d # c
  PROVE  RecordMoves(d) /\ Spares(d) /\ (LinkBooks(d) => LinkBooks(d)')
BY RecordStepIsLocal DEF RecordMoves, Spares, LinkBooks

(* Attempt on a dead record.                                               *)
LEMMA AttemptMoves ==
  ASSUME TransportTypeOK, NEW c \in Conn, NEW u, Attempt(c, u), dead[c], dead' = dead, connecting[c] \/ ~connecting'[c],
         connections' = connections, phase[c] # "fresh", LinkBooks(c)
  PROVE  RecordMoves(c) /\ LinkBooks(c)'
BY DEF Attempt, NewClient, Ended, TransportTypeOK, RecordMoves, LinkBooks

LEMMA RecordStepMoves ==
  ASSUME TransportTypeOK, TransportInv, NEW c \in Conn, RecordStep(c), LinkBooks(c)
  PROVE  RecordMoves(c) /\ LinkBooks(c)'
<1>0. RecordInv(c)
  BY DEF TransportInv
<1> USE DEF recVars, tryVars, netVars, callVars, TransportTypeOK, RecordMoves, LinkBooks, RecordInv, NotReadyDead,
            ReadyAlive, FirstInFlight, FreshUnknown, InFlight
<1>1. CASE Connect(c)
  BY <1>0, <1>1 DEF Connect, Attempt, NewClient, Ended
<1>2. CASE SockReady(c)
  BY <1>0, <1>2 DEF SockReady, NewClient
<1>3. CASE SockFails(c) \/ PersistFails(c)
  BY <1>0, <1>3 DEF SockFails, PersistFails, ReturnError, DeleteFailed
<1>4. CASE HandshakeReady(c) \/ PersistDone(c)
  BY <1>0, <1>4 DEF HandshakeReady, PersistDone, ReturnOk, AttachTransportHandlers
<1>5. CASE HandshakeFails(c)
  <2>1. CASE \E u : Attempt(c, u) /\ UNCHANGED <<recVars, callVars>>
    BY <1>0, <1>5, <2>1, AttemptMoves DEF HandshakeFails
  <2>2. CASE ~\E u : Attempt(c, u) /\ UNCHANGED <<recVars, callVars>>
    BY <1>0, <1>5, <2>2 DEF HandshakeFails, ReturnError, DeleteFailed
  <2> QED BY <2>1, <2>2
<1>6. CASE SleepEnds(c)
  BY <1>0, <1>6 DEF SleepEnds, Attempt, NewClient, Ended, ReturnError, DeleteFailed
<1>7. CASE TransportCloses(c) \/ Disconnect(c)
  BY <1>0, <1>7 DEF TransportCloses, Disconnect, Ended
<1>8. CASE ReconnectThrows(c)
  BY <1>0, <1>8 DEF ReconnectThrows, Ended
<1>9. CASE TimerFires(c)
  BY <1>0, <1>9 DEF TimerFires, TimerArmed, Attempt, NewClient, Ended
<1>10. ASSUME NEW more \in BOOLEAN, LossEvent(c, more) PROVE RecordMoves(c) /\ LinkBooks(c)'
  BY <1>0, <1>10 DEF LossEvent, HandleTransportLoss, LossApplies, PendingIsGone, Phases
<1> QED BY <1>1, <1>2, <1>3, <1>4, <1>5, <1>6, <1>7, <1>8, <1>9, <1>10 DEF RecordStep

(* Every step on the records keeps what is known of them.                  *)
LEMMA TransportMoves ==
  ASSUME TransportTypeOK, TransportInv, LinkInv, [TransportNext]_transportVars
  PROVE  TransportTypeOK' /\ TransportInv' /\ LinkInv' /\ \A c \in Conn : RecordMoves(c)
<1>0. TransportTypeOK' /\ TransportInv' /\ LinkHasClient'
  BY TransportTypeStep, TransportInvStep, LinkHasClientStep DEF LinkInv
<1>1. ASSUME NEW c \in Conn, RecordStep(c), NEW d \in Conn PROVE RecordMoves(d) /\ LinkBooks(d)'
  BY <1>1, OtherRecord, RecordStepMoves DEF LinkInv
<1>2. ASSUME NEW P \in SUBSET Conn, CancelConnect(P), NEW d \in Conn PROVE RecordMoves(d) /\ LinkBooks(d)'
  BY <1>2 DEF CancelConnect, tryVars, callVars, RecordMoves, LinkInv, LinkBooks, Ended, TransportTypeOK
<1>3. ASSUME UNCHANGED <<recVars, tryVars, netVars>>, NEW d \in Conn PROVE RecordMoves(d) /\ LinkBooks(d)'
  BY <1>3 DEF recVars, tryVars, netVars, RecordMoves, LinkInv, LinkBooks
<1>4. ASSUME NEW k \in Caller, CallStep(k) PROVE UNCHANGED <<recVars, tryVars, netVars>>
  BY <1>4 DEF CallStep, EnsureAlive, WaitTimesOut, CallReturns
<1>5. UNCHANGED transportVars => UNCHANGED <<recVars, tryVars, netVars>>
  BY DEF transportVars
<1> QED BY <1>0, <1>1, <1>2, <1>3, <1>4, <1>5 DEF TransportNext, LinkInv

-----------------------------------------------------------------------------
(* What the steps of the transport say to callers.                         *)
LEMMA RecordStepTells ==
  ASSUME TransportTypeOK, TransportInv, \A k \in Caller : CallBooks(k), NEW c \in Conn,
         RecordStep(c), NEW k \in Caller, call'[k] # call[k]
  PROVE  /\ call[k] = "wait" /\ callee'[k] = callee[k] /\ callee[k] = c
         /\ call'[k] \in {"yes", "no"} /\ (call'[k] = "yes" => ~dead'[c])
<1>0. RecordInv(c) /\ callee' = callee /\ callee[k] = c
  BY RecordStepAnswers DEF TransportInv
<1> USE DEF recVars, tryVars, netVars, callVars, TransportTypeOK, Settle, Waiters
<1>1. CASE SockFails(c) \/ PersistFails(c) \/ HandshakeFails(c) \/ SleepEnds(c)
  BY <1>0, <1>1 DEF SockFails, PersistFails, HandshakeFails, SleepEnds, ReturnError
<1>2. CASE HandshakeReady(c)
  BY <1>0, <1>2 DEF HandshakeReady, ReturnOk, WakeWaiters
<1>3. CASE PersistDone(c)
  BY <1>0, <1>3 DEF PersistDone, ReturnOk, WakeWaiters, RecordInv, ReadyAlive
<1>4. CASE ReconnectThrows(c)
  BY <1>0, <1>4 DEF ReconnectThrows
<1>5. CASE Connect(c) \/ SockReady(c) \/ TransportCloses(c) \/ TimerFires(c) \/ Disconnect(c)
  BY <1>5 DEF Connect, SockReady, TransportCloses, TimerFires, Disconnect
<1>6. ASSUME NEW more \in BOOLEAN, LossEvent(c, more) PROVE call' = call
  BY <1>6 DEF LossEvent
<1> QED BY <1>1, <1>2, <1>3, <1>4, <1>5, <1>6 DEF RecordStep

(* Only a loss makes a record dead.                                        *)
Lossless(c) ==
  \/ Connect(c) \/ SockReady(c) \/ SockFails(c) \/ HandshakeReady(c) \/ HandshakeFails(c) \/ SleepEnds(c)
  \/ PersistDone(c) \/ PersistFails(c) \/ TransportCloses(c) \/ TimerFires(c) \/ ReconnectThrows(c) \/ Disconnect(c)

LEMMA OnlyLossKills ==
  ASSUME TransportTypeOK, TransportInv, NEW c \in Conn, Lossless(c)
  PROVE  RecordStep(c) /\ \A d \in Conn : Spares(d)
<1>1. RecordInv(c)
  BY DEF TransportInv
<1>2. Spares(c)
  BY <1>1 DEF Lossless, Connect, SockReady, SockFails, HandshakeReady, HandshakeFails, SleepEnds, PersistDone,
     PersistFails, TransportCloses, TimerFires, Disconnect, ReturnError, ReconnectThrows, recVars, Spares,
     RecordInv, NotReadyDead, InFlight, TransportTypeOK
<1>3. RecordStep(c)
  BY DEF Lossless, RecordStep
<1> QED BY <1>2, <1>3, OtherRecord

(* The calls a step answers, each on a record that has been connected.     *)
Tells ==
  \A k \in Caller :
    /\ call'[k] # call[k] =>
         /\ op[k] \in {"idle", "wait"} /\ call'[k] \in {"yes", "no"} /\ callee'[k] \in Conn
         /\ phase'[callee'[k]] # "fresh"
         /\ call'[k] = "yes" => ~dead'[callee'[k]]
    /\ callee'[k] # callee[k] => call'[k] # call[k] /\ op[k] = "idle"
    /\ op[k] = "wait" => callee'[k] = callee[k]

LEMMA TypedBooks ==
  ASSUME ServiceInv
  PROVE  /\ TransportTypeOK /\ TransportInv /\ LinkInv
         /\ op \in [Caller -> OpStates] /\ onClient \in [Caller -> Client \union {NoClient}]
         /\ sessions \subseteq Caller /\ connSessions \in [Conn -> SUBSET Caller] /\ tunnels \in [Conn -> SUBSET Caller]
         /\ stream \subseteq Caller /\ exited \subseteq Caller /\ tombs \subseteq Caller
         /\ listening \subseteq Caller /\ unowned \subseteq Caller
         /\ sftp \in [Conn -> Client \union {NoClient}] /\ active \in Conn \union {NoConn}
         /\ callee \in [Caller -> Conn \union {NoConn}] /\ call \in [Caller -> CallStates]
         /\ (\A k \in Caller : CallBooks(k) /\ SessionBooks(k)) /\ (\A c \in Conn : RecordBooks(c)) /\ ActiveWasEstablished
BY DEF ServiceInv, ServiceTypeOK, TransportTypeOK, Books

LEMMA ProceedKeeps ==
  ASSUME ServiceInv, TransportTypeOK', TransportInv', LinkInv', \A c \in Conn : RecordMoves(c) /\ Spares(c), Tells,
         Proceed, UNCHANGED <<tunnelVars, sftp>>,
         active' \in Conn \union {NoConn}, active' # active => ActiveWasEstablished'
  PROVE  ServiceInv'
<1> USE TransportAssumption, ServiceAssumption DEF tunnelVars
<1> DEFINE granted == Told("yes")
           shells  == granted \intersect OfKind("shell")
<1>0. /\ op' = [k \in Caller |-> IF k \in granted THEN "opening" ELSE IF k \in Told("no") THEN "failed" ELSE op[k]]
      /\ onClient' = [k \in Caller |-> IF k \in granted THEN client'[callee'[k]] ELSE onClient[k]]
      /\ sessions' = sessions \union shells
      /\ connSessions' = [c \in Conn |-> connSessions[c] \union {k \in shells : callee'[k] = c}]
      /\ UNCHANGED <<retried, stream, exited, tombs>>
  BY DEF Proceed
<1>1. /\ TransportTypeOK /\ TransportTypeOK' /\ TransportInv /\ TransportInv' /\ LinkInv /\ LinkInv'
      /\ op \in [Caller -> OpStates] /\ onClient \in [Caller -> Client \union {NoClient}]
      /\ sessions \subseteq Caller /\ connSessions \in [Conn -> SUBSET Caller] /\ tunnels \in [Conn -> SUBSET Caller]
      /\ exited \subseteq Caller
      /\ callee \in [Caller -> Conn \union {NoConn}] /\ call \in [Caller -> CallStates]
      /\ callee' \in [Caller -> Conn \union {NoConn}] /\ client' \in [Conn -> Client \union {NoClient}]
  BY TypedBooks DEF TransportTypeOK
<1>2. ASSUME NEW k \in Caller, k \in granted
      PROVE  op[k] \in {"idle", "wait"} /\ callee'[k] \in Conn /\ ~dead'[callee'[k]] /\ phase'[callee'[k]] # "fresh"
  BY <1>2 DEF Told, Tells
<1>3. ASSUME NEW k \in Caller, k \in Told("no") PROVE op[k] \in {"idle", "wait"}
  BY <1>3 DEF Told, Tells
<1>4. granted \subseteq Caller /\ granted \intersect Told("no") = {} /\ shells \subseteq granted
  BY DEF Told
<1>5. ServiceTypeOK'
  <2>1. op' \in [Caller -> OpStates]
    BY <1>0, <1>1 DEF OpStates
  <2>2. onClient' \in [Caller -> Client \union {NoClient}]
    BY <1>0, <1>1, <1>2
  <2>3. sessions' \subseteq Caller /\ connSessions' \in [Conn -> SUBSET Caller]
    BY <1>0, <1>1, <1>4
  <2> QED BY <1>0, <2>1, <2>2, <2>3 DEF ServiceInv, ServiceTypeOK
<1> HIDE DEF granted, shells
<1>6. \A k \in Caller :
        /\ op'[k] = IF k \in granted THEN "opening" ELSE IF k \in Told("no") THEN "failed" ELSE op[k]
        /\ k \in shells <=> k \in granted /\ Kind[k] = "shell"
  BY <1>0 DEF shells, OfKind
<1>7. \A c \in Conn : connSessions'[c] = connSessions[c] \union {k \in shells : callee'[k] = c}
  BY <1>0
<1>8. ASSUME NEW k \in Caller PROVE CallBooks(k)'
  <2>0. CallBooks(k)
    BY TypedBooks
  <2>1. /\ call'[k] # call[k] =>
             /\ op[k] \in {"idle", "wait"} /\ call'[k] \in {"yes", "no"} /\ callee'[k] \in Conn
             /\ phase'[callee'[k]] # "fresh"
        /\ callee'[k] # callee[k] => call'[k] # call[k] /\ op[k] = "idle"
    BY DEF Tells
  <2>2. CASE k \in granted
    <3>1. call'[k] = "yes" /\ callee'[k] \in Conn /\ ~dead'[callee'[k]] /\ phase'[callee'[k]] # "fresh" /\ op'[k] = "opening"
      BY <1>2, <1>6, <2>2 DEF granted, Told
    <3>2. callee'[k] \notin FirstSeen => outcome'[callee'[k]] # "none" /\ ~connecting'[callee'[k]]
      BY <1>1, <3>1 DEF LinkInv, LinkBooks
    <3> QED BY <3>1, <3>2 DEF CallBooks
  <2>3. CASE k \notin granted
    <3>1. op'[k] = IF k \in Told("no") THEN "failed" ELSE op[k]
      BY <1>6, <2>3
    <3>2. callee'[k] # NoConn => phase'[callee'[k]] # "fresh"
      BY <1>1, <2>0, <2>1 DEF CallBooks, RecordMoves
    <3>3. op'[k] \in {"wait", "opening"} => op[k] = op'[k] /\ callee'[k] # NoConn /\ callee'[k] = callee[k]
      BY <1>1, <2>0, <2>1, <3>1 DEF CallBooks
    <3>4. call'[k] = "wait" => op'[k] = "wait"
      <4>1. CASE call'[k] = call[k]
        BY <2>0, <3>1, <4>1 DEF CallBooks, Told
      <4> QED BY <2>1, <4>1
    <3>5. ASSUME op'[k] = "opening", callee'[k] \notin FirstSeen
          PROVE  outcome'[callee'[k]] # "none" /\ ~connecting'[callee'[k]]
      <4>1. callee[k] \in Conn /\ callee[k] \notin FirstSeen /\ callee'[k] = callee[k]
        BY <1>1, <3>3, <3>5
      <4>2. outcome[callee[k]] # "none" /\ ~connecting[callee[k]] /\ phase[callee[k]] # "fresh"
        BY <2>0, <3>3, <3>5, <4>1 DEF CallBooks
      <4> QED BY <4>1, <4>2 DEF RecordMoves
    <3> QED BY <3>2, <3>3, <3>4, <3>5 DEF CallBooks
  <2> QED BY <2>2, <2>3
<1>9. ASSUME NEW k \in Caller PROVE SessionBooks(k)'
  <2>0. SessionBooks(k) /\ CallBooks(k)
    BY TypedBooks
  <2>1. callee'[k] # callee[k] => op[k] = "idle"
    BY DEF Tells
  <2>2. k \in sessions' <=> k \in sessions \/ k \in shells
    BY <1>0
  <2>3. UNCHANGED <<exited, tombs, listening, tunnels, stream>>
    BY <1>0
  <2>4. CASE k \in granted
    <3>1. op[k] \in {"idle", "wait"} /\ callee'[k] \in Conn /\ op'[k] = "opening"
      BY <1>2, <1>6, <2>4
    <3>2. k \notin sessions \union stream \union exited \union listening
      BY <2>0, <3>1 DEF SessionBooks
    <3>3. k \in shells => k \in connSessions'[callee'[k]]
      BY <1>7, <3>1, <1>4
    <3> QED BY <1>6, <2>2, <2>3, <2>4, <3>1, <3>2, <3>3 DEF SessionBooks
  <2>5. CASE k \notin granted
    <3>1. k \notin shells /\ op'[k] = IF k \in Told("no") THEN "failed" ELSE op[k]
      BY <1>6, <2>5
    <3>2. k \in sessions \union listening => callee'[k] = callee[k] /\ op[k] \notin {"idle", "wait"}
      BY <2>0, <2>1 DEF SessionBooks
    <3>3. op[k] \notin {"idle", "wait"} => op'[k] = op[k]
      BY <1>3, <3>1
    <3>4. callee[k] \in Conn => connSessions[callee[k]] \subseteq connSessions'[callee[k]]
      BY <1>7
    <3>5. callee[k] # NoConn => callee[k] \in Conn
      BY <1>1
    <3> QED BY <2>0, <2>2, <2>3, <3>1, <3>2, <3>3, <3>4, <3>5 DEF SessionBooks
  <2> QED BY <2>4, <2>5
<1>10. ASSUME NEW c \in Conn PROVE RecordBooks(c)'
  <2>0. RecordBooks(c) /\ RecordMoves(c) /\ Spares(c)
    BY TypedBooks
  <2>1. \A k \in Caller : op[k] \notin {"idle", "wait"} => callee'[k] = callee[k] /\ op'[k] = op[k]
    BY <1>2, <1>3, <1>6 DEF Tells
  <2>2. ASSUME NEW k \in connSessions'[c]
        PROVE  callee'[k] = c /\ Kind[k] = "shell" /\ op'[k] \notin {"idle", "wait"}
    <3>1. CASE k \in connSessions[c]
      <4>1. k \in Caller
        BY <1>1, <3>1
      <4> QED BY <2>0, <2>1, <3>1, <4>1 DEF RecordBooks
    <3>2. CASE k \notin connSessions[c]
      BY <1>4, <1>6, <1>7, <2>2, <3>2
    <3> QED BY <3>1, <3>2
  <2>3. ASSUME NEW k \in tunnels[c] PROVE callee'[k] = c /\ op'[k] \in {"open", "stopping"}
    <3>1. k \in Caller
      BY <1>1
    <3> QED BY <2>0, <2>1, <2>3, <3>1 DEF RecordBooks
  <2>4. CASE phase[c] = "fresh"
    <3>1. sftp[c] = NoClient
      BY <2>0, <2>4 DEF RecordBooks
    <3>2. \A k \in Caller : callee[k] # c
      <4> TAKE k \in Caller
      <4> QED BY <1>1, <2>4, TypedBooks DEF CallBooks
    <3>3. connSessions[c] = {} /\ tunnels[c] = {}
      BY <1>1, <2>0, <3>2 DEF RecordBooks
    <3>4. connSessions'[c] = {k \in shells : callee'[k] = c}
      BY <1>7, <3>3
    <3>5. \A k \in shells : k \in sessions' /\ k \notin exited' /\ (callee'[k] = c => ~dead'[c])
      <4> TAKE k \in shells
      <4>1. k \in Caller /\ k \in granted
        BY <1>4
      <4>2. k \notin exited
        BY <1>2, <4>1, TypedBooks DEF SessionBooks
      <4> QED BY <1>0, <1>2, <4>1, <4>2
    <3> QED BY <2>2, <2>3, <3>1, <3>3, <3>4, <3>5 DEF RecordBooks
  <2>5. CASE phase[c] # "fresh"
    <3>1. phase'[c] # "fresh" /\ (c \in connections' => c \in connections)
      BY <2>0, <2>5 DEF RecordMoves
    <3>2. \A k \in shells : k \in sessions' /\ k \notin exited' /\ (callee'[k] = c => ~dead'[c])
      <4> TAKE k \in shells
      <4>1. k \in Caller /\ k \in granted
        BY <1>4
      <4>2. k \notin exited
        BY <1>2, <4>1, TypedBooks DEF SessionBooks
      <4> QED BY <1>0, <1>2, <4>1, <4>2
    <3>3. c \in connections' => connSessions'[c] \subseteq sessions' \ exited'
      BY <1>0, <1>7, <2>0, <3>1, <3>2 DEF RecordBooks
    <3>4. c \in connections' /\ sftp[c] # NoClient => sftp[c] = client'[c]
      BY <2>0, <3>1 DEF RecordBooks, RecordMoves
    <3>5. c \in connections' /\ dead'[c] => connSessions'[c] = {} /\ sftp[c] = NoClient /\ tunnels[c] \intersect OfKind("remote") = {}
      BY <1>7, <2>0, <3>1, <3>2 DEF RecordBooks, Spares
    <3> QED BY <2>2, <2>3, <3>1, <3>3, <3>4, <3>5 DEF RecordBooks
  <2> QED BY <2>4, <2>5
<1>11. ActiveWasEstablished'
  <2>1. CASE active' = active
    BY <1>1, <2>1, TypedBooks DEF ActiveWasEstablished, RecordMoves, LinkInv, LinkBooks
  <2> QED BY <2>1
<1> QED BY <1>1, <1>5, <1>8, <1>9, <1>10, <1>11 DEF ServiceInv, Books

-----------------------------------------------------------------------------
(* Steps of the transport, with what the same handler does to the rest.    *)
LEMMA QuietlyKeeps ==
  ASSUME ServiceInv, NEW c \in Conn, Lossless(c), Proceed, UNCHANGED <<tunnelVars, sftp>>,
         active' \in Conn \union {NoConn}, active' # active => ActiveWasEstablished'
  PROVE  ServiceInv'
<1>1. TransportTypeOK /\ TransportInv /\ LinkInv /\ \A k \in Caller : CallBooks(k)
  BY TypedBooks
<1>2. RecordStep(c) /\ TransportNext
  BY <1>1, OnlyLossKills DEF TransportNext
<1>3. TransportTypeOK' /\ TransportInv' /\ LinkInv' /\ \A d \in Conn : RecordMoves(d) /\ Spares(d)
  BY <1>1, <1>2, TransportMoves, OnlyLossKills
<1>4. Tells
  <2> SUFFICES ASSUME NEW k \in Caller
               PROVE  /\ callee'[k] = callee[k]
                      /\ call'[k] # call[k] =>
                           /\ op[k] \in {"idle", "wait"} /\ call'[k] \in {"yes", "no"} /\ callee'[k] \in Conn
                           /\ phase'[callee'[k]] # "fresh"
                           /\ call'[k] = "yes" => ~dead'[callee'[k]]
    BY DEF Tells
  <2>1. callee' = callee
    BY <1>1, <1>2, RecordStepAnswers
  <2>2. CASE call'[k] # call[k]
    <3>1. /\ call[k] = "wait" /\ callee'[k] = callee[k] /\ callee[k] = c
          /\ call'[k] \in {"yes", "no"} /\ (call'[k] = "yes" => ~dead'[c])
      BY <1>1, <1>2, <2>2, RecordStepTells
    <3>2. op[k] = "wait" /\ phase[c] # "fresh"
      BY <1>1, <3>1, TransportAssumption DEF CallBooks
    <3> QED BY <1>3, <3>1, <3>2 DEF RecordMoves
  <2> QED BY <2>1, <2>2
<1> QED BY <1>3, <1>4, ProceedKeeps

LEMMA QuietStepKeeps ==
  ASSUME ServiceInv, NEW c \in Conn, QuietStep(c)
  PROVE  ServiceInv'
<1>1. Lossless(c)
  BY DEF QuietStep, Lossless
<1> QED BY <1>1, QuietlyKeeps, TypedBooks DEF QuietStep

LEMMA EstablishKeeps ==
  ASSUME ServiceInv, NEW c \in Conn, Establish(c)
  PROVE  ServiceInv'
<1>1. Lossless(c)
  BY DEF Establish, Lossless
<1>2. active' \in Conn \union {NoConn}
  BY TypedBooks DEF Establish
<1>3. ASSUME active' # active PROVE ActiveWasEstablished'
  <2>1. active' = c /\ phase'[c] = "idle" /\ (HandshakeReady(c) \/ PersistDone(c))
    BY <1>3 DEF Establish
  <2>2. outcome'[c] = "ok" /\ ~connecting'[c]
    BY <2>1, TypedBooks DEF HandshakeReady, PersistDone, ReturnOk, TransportTypeOK
  <2> QED BY <2>1, <2>2 DEF ActiveWasEstablished
<1> QED BY <1>1, <1>2, <1>3, QuietlyKeeps DEF Establish

(* A call that runs into its own limit is told no.                         *)
LEMMA GiveUpKeeps ==
  ASSUME ServiceInv, NEW k \in Caller, GiveUpWaiting(k)
  PROVE  ServiceInv'
<1>1. call[k] = "wait" /\ call' = [call EXCEPT ![k] = "no"] /\ UNCHANGED <<recVars, tryVars, netVars, callee>>
  BY DEF GiveUpWaiting, WaitTimesOut
<1>2. TransportNext
  BY DEF GiveUpWaiting, TransportNext, CallStep
<1>3. TransportTypeOK' /\ TransportInv' /\ LinkInv' /\ \A d \in Conn : RecordMoves(d) /\ Spares(d)
  BY <1>1, <1>2, TransportMoves, TypedBooks DEF recVars, Spares
<1>4. Tells
  <2>1. /\ \A l \in Caller : callee'[l] = callee[l] /\ (l # k => call'[l] = call[l])
        /\ call'[k] = "no" /\ op[k] = "wait" /\ callee[k] \in Conn /\ phase'[callee[k]] # "fresh"
    BY <1>1, TypedBooks DEF tryVars, CallBooks
  <2> QED BY <2>1 DEF Tells
<1> QED BY <1>3, <1>4, ProceedKeeps, TypedBooks DEF GiveUpWaiting

(* An operation begins: answered at once, or it waits.                     *)
LEMMA StartKeeps ==
  ASSUME ServiceInv, NEW k \in Caller, NEW c \in Conn, Start(k, c)
  PROVE  ServiceInv'
<1>1. /\ op[k] = "idle" /\ call[k] = "idle" /\ c \in connections /\ UNCHANGED <<recVars, tryVars, netVars>>
      /\ callee' = [callee EXCEPT ![k] = c] /\ call' = [call EXCEPT ![k] = Answer(c)]
      /\ UNCHANGED <<active, tunnelVars, sftp>>
  BY DEF Start, EnsureAlive
<1>2. TransportNext
  BY DEF Start, TransportNext, CallStep
<1>3. TransportTypeOK' /\ TransportInv' /\ LinkInv' /\ \A d \in Conn : RecordMoves(d) /\ Spares(d)
  BY <1>1, <1>2, TransportMoves, TypedBooks DEF recVars, Spares
<1>4. /\ \A l \in Caller \ {k} : callee'[l] = callee[l] /\ call'[l] = call[l]
      /\ callee'[k] = c /\ call'[k] = Answer(c) /\ phase'[c] # "fresh"
  BY <1>1, TypedBooks DEF tryVars, TransportInv, RecordInv, FreshUnknown
<1>5. Answer(c) \in {"yes", "no", "wait"} /\ (Answer(c) = "yes" => ~dead'[c])
  BY <1>1 DEF Answer, recVars
<1>6. CASE call'[k] # "wait"
  <2>1. Proceed
    BY <1>6 DEF Start
  <2>2. Tells
    BY <1>1, <1>4, <1>5, <1>6 DEF Tells
  <2> QED BY <1>1, <1>3, <2>1, <2>2, ProceedKeeps, TypedBooks
<1>7. CASE call'[k] = "wait"
  <2>1. op' = [op EXCEPT ![k] = "wait"] /\ UNCHANGED <<retried, onClient, sessionVars, active, tunnelVars, sftp>>
    BY <1>1, <1>7 DEF Start
  <2>2. op'[k] = "wait" /\ op' \in [Caller -> OpStates] /\ \A l \in Caller \ {k} : op'[l] = op[l]
    BY <2>1, TypedBooks DEF OpStates
  <2>3. ServiceTypeOK'
    BY <1>3, <2>1, <2>2 DEF ServiceInv, ServiceTypeOK, sessionVars, tunnelVars
  <2>4. ASSUME NEW l \in Caller PROVE CallBooks(l)' /\ SessionBooks(l)'
    <3>1. CallBooks(l) /\ SessionBooks(l)
      BY TypedBooks
    <3>2. CASE l = k
      <4>1. c # NoConn
        BY TransportAssumption
      <4> QED BY <1>1, <1>4, <1>7, <2>1, <2>2, <3>1, <3>2, <4>1 DEF CallBooks, SessionBooks, sessionVars, tunnelVars
    <3>3. CASE l # k
      BY <1>1, <1>4, <2>1, <2>2, <3>1, <3>3 DEF CallBooks, SessionBooks, sessionVars, tunnelVars, tryVars, recVars
    <3> QED BY <3>2, <3>3
  <2>5. ASSUME NEW d \in Conn PROVE RecordBooks(d)'
    <3>1. RecordBooks(d)
      BY TypedBooks
    <3>2. k \notin connSessions[d] /\ k \notin tunnels[d]
      BY <1>1, <3>1 DEF RecordBooks
    <3>3. connSessions[d] \subseteq Caller /\ tunnels[d] \subseteq Caller
      BY TypedBooks
    <3> QED BY <1>1, <1>4, <2>1, <2>2, <3>1, <3>2, <3>3 DEF RecordBooks, sessionVars, tunnelVars, recVars, tryVars, netVars
  <2>6. ActiveWasEstablished'
    BY <1>1, TypedBooks DEF ActiveWasEstablished, recVars, tryVars
  <2> QED BY <1>3, <2>3, <2>4, <2>5, <2>6 DEF ServiceInv, Books
<1> QED BY <1>6, <1>7


(* The teardown of a record, by a loss or by disconnect: what it held      *)
(* leaves every map at once, and nothing of another record does.           *)
LEMMA TeardownKeeps ==
  ASSUME ServiceInv, TransportTypeOK', TransportInv', LinkInv', NEW c \in Conn, NEW E \in SUBSET connSessions[c],
         RetireSessions(c, E), CloseConnectionTunnels(c), UNCHANGED <<phase, outcome, connecting, client, call, callee, opVars>>,
         connections' \subseteq connections, \A d \in Conn : d # c => dead'[d] = dead[d],
         \/ SftpDropped(c)
         \/ sftp' = sftp /\ c \notin connections',
         c \notin connections' \/ E = connSessions[c],
         active' \in {active, NoConn}
  PROVE  ServiceInv'
<1>1. /\ op' = op /\ callee' = callee /\ call' = call /\ retried' = retried /\ onClient' = onClient
      /\ phase' = phase /\ outcome' = outcome /\ connecting' = connecting /\ client' = client
  BY DEF opVars
<1>2. /\ sessions' = sessions \ connSessions[c] /\ stream' = stream \ connSessions[c]
      /\ exited' = exited \union E /\ tombs' = tombs \union connSessions[c]
      /\ listening' = listening \ tunnels[c] /\ unowned' = unowned
  BY DEF RetireSessions, CloseConnectionTunnels
<1>3. /\ connSessions'[c] = {} /\ tunnels'[c] = {}
      /\ \A d \in Conn : d # c => connSessions'[d] = connSessions[d] /\ tunnels'[d] = tunnels[d] /\ sftp'[d] = sftp[d]
      /\ sftp'[c] \in {NoClient, sftp[c]} /\ (c \in connections' => sftp'[c] = NoClient)
  BY TypedBooks DEF RetireSessions, CloseConnectionTunnels, SftpDropped
<1>4. ServiceTypeOK'
  <2>1. connSessions' \in [Conn -> SUBSET Caller] /\ tunnels' \in [Conn -> SUBSET Caller]
        /\ sftp' \in [Conn -> Client \union {NoClient}]
    BY TypedBooks DEF RetireSessions, CloseConnectionTunnels, SftpDropped
  <2>2. connSessions[c] \subseteq Caller
    BY TypedBooks
  <2> QED BY <1>1, <1>2, <2>1, <2>2 DEF ServiceInv, ServiceTypeOK
<1>5. \A k \in Caller : callee[k] \in Conn \union {NoConn}
  BY TypedBooks
<1>6. ASSUME NEW k \in Caller PROVE CallBooks(k)' /\ SessionBooks(k)'
  <2>1. CallBooks(k) /\ SessionBooks(k) /\ RecordBooks(c)
    BY TypedBooks
  <2>2. CallBooks(k)'
    BY <1>1, <2>1 DEF CallBooks
  <2>3. k \in connSessions[c] => callee[k] = c /\ Kind[k] = "shell" /\ op[k] \notin {"idle", "wait"}
    BY <2>1 DEF RecordBooks
  <2> QED BY <1>1, <1>2, <1>3, <1>5, <2>1, <2>2, <2>3 DEF SessionBooks
<1>7. ASSUME NEW d \in Conn PROVE RecordBooks(d)'
  <2>1. RecordBooks(d) /\ RecordBooks(c)
    BY TypedBooks
  <2>2. CASE d = c
    BY <1>1, <1>3, <2>1, <2>2 DEF RecordBooks
  <2>3. CASE d # c
    <3>1. connSessions'[d] = connSessions[d] /\ tunnels'[d] = tunnels[d] /\ sftp'[d] = sftp[d] /\ dead'[d] = dead[d]
      BY <1>3, <2>3
    <3>2. connSessions[d] \intersect connSessions[c] = {}
      BY <2>1, <2>3 DEF RecordBooks
    <3>3. connSessions[d] \subseteq sessions \ exited => connSessions'[d] \subseteq sessions' \ exited'
      BY <1>2, <3>1, <3>2
    <3> QED BY <1>1, <2>1, <3>1, <3>3 DEF RecordBooks
  <2> QED BY <2>2, <2>3
<1>8. ActiveWasEstablished'
  BY <1>1, TypedBooks, TransportAssumption DEF ActiveWasEstablished
<1> QED BY <1>4, <1>6, <1>7, <1>8 DEF ServiceInv, Books

LEMMA LossKeeps ==
  ASSUME ServiceInv, NEW c \in Conn, Loss(c)
  PROVE  ServiceInv'
<1>1. PICK more \in BOOLEAN : LossEvent(c, more)
  BY DEF Loss
<1>2. TransportTypeOK' /\ TransportInv' /\ LinkInv'
  BY <1>1, TransportMoves, TypedBooks DEF TransportNext, RecordStep
<1>3. /\ UNCHANGED <<connections, closing, connecting, tryVars, client, link, watched, callVars>>
      /\ \A d \in Conn : d # c => dead'[d] = dead[d]
  BY <1>1, TypedBooks DEF LossEvent, HandleTransportLoss, TransportTypeOK
<1>4. CASE dead'[c] # dead[c]
  <2>1. RetireSessions(c, connSessions[c]) /\ CloseConnectionTunnels(c) /\ SftpDropped(c) /\ UNCHANGED <<active, opVars>>
    BY <1>4 DEF Loss
  <2> QED BY <1>2, <1>3, <2>1, TeardownKeeps DEF tryVars, callVars
<1>5. CASE dead'[c] = dead[c]
  <2>1. UNCHANGED <<sessionVars, tunnelVars, sftp, active, opVars>>
    BY <1>5 DEF Loss
  <2>2. dead' = dead
    BY <1>1, <1>3, <1>5, <1>2, TypedBooks DEF TransportTypeOK
  <2> QED BY <1>2, <1>3, <2>1, <2>2 DEF ServiceInv, ServiceTypeOK, Books, CallBooks, SessionBooks, RecordBooks,
             ActiveWasEstablished, sessionVars, tunnelVars, opVars, tryVars, callVars
<1> QED BY <1>4, <1>5

LEMMA CloseKeeps ==
  ASSUME ServiceInv, NEW c \in Conn, Close(c)
  PROVE  ServiceInv'
<1>1. Disconnect(c) /\ RetireSessions(c, connSessions[c] \intersect stream) /\ CloseConnectionTunnels(c)
      /\ active' \in {active, NoConn} /\ UNCHANGED <<opVars, sftp>>
  BY DEF Close
<1>2. TransportTypeOK' /\ TransportInv' /\ LinkInv'
  BY <1>1, TransportMoves, TypedBooks DEF TransportNext, RecordStep
<1>3. connections' = connections \ {c} /\ UNCHANGED <<dead, connecting, tryVars, client, callVars>>
  BY <1>1 DEF Disconnect
<1> QED BY <1>1, <1>2, <1>3, TeardownKeeps DEF tryVars, callVars

-----------------------------------------------------------------------------
(* Steps that touch no record but the map, the selection or the operation. *)
LEMMA CancelKeeps ==
  ASSUME ServiceInv, Cancel
  PROVE  ServiceInv'
<1>1. PICK P \in SUBSET Conn : CancelConnect(P) /\ UNCHANGED serviceVars
  BY DEF Cancel
<1>2. TransportTypeOK' /\ TransportInv' /\ LinkInv'
  BY <1>1, TransportMoves, TypedBooks DEF TransportNext
<1>3. UNCHANGED <<connections, dead, connecting, tryVars, client, callVars>>
  BY <1>1 DEF CancelConnect
<1> QED BY <1>1, <1>2, <1>3 DEF ServiceInv, ServiceTypeOK, Books, CallBooks, SessionBooks, RecordBooks,
           ActiveWasEstablished, serviceVars, sessionVars, tunnelVars, opVars, tryVars, callVars

LEMMA SelectionKeeps ==
  ASSUME ServiceInv, UNCHANGED <<transportVars, opVars, sessionVars, tunnelVars, sftp>>,
         active' \in Conn \union {NoConn}, active' \in Conn => ~dead[active']
  PROVE  ServiceInv'
<1>1. TransportTypeOK' /\ TransportInv' /\ LinkInv'
  BY TransportMoves, TypedBooks
<1>2. ActiveWasEstablished'
  BY TypedBooks DEF ActiveWasEstablished, LinkInv, LinkBooks, transportVars, recVars, tryVars
<1> QED BY <1>1, <1>2 DEF ServiceInv, ServiceTypeOK, Books, CallBooks, SessionBooks, RecordBooks,
           sessionVars, tunnelVars, opVars, transportVars, recVars, netVars, tryVars, callVars

(* What the steps of one operation share: no record moves, the others'     *)
(* operations stay as they are.                                            *)
Alone(k) ==
  /\ UNCHANGED transportVars
  /\ op' \in [Caller -> OpStates] /\ \A l \in Caller : l # k => op'[l] = op[l]

LEMMA AloneKeeps ==
  ASSUME ServiceInv, NEW k \in Caller, Alone(k)
  PROVE  /\ TransportTypeOK' /\ TransportInv' /\ LinkInv'
         /\ UNCHANGED <<connections, dead, connecting, phase, outcome, client, link, call, callee>>
BY TransportMoves, TypedBooks DEF Alone, transportVars, recVars, netVars, tryVars, callVars

LEMMA SftpCachedKeeps ==
  ASSUME ServiceInv, NEW k \in Caller, NEW c \in Conn, SftpCached(k, c)
  PROVE  ServiceInv'
<1>1. /\ op[k] = "idle" /\ Kind[k] = "sftp" /\ op' = [op EXCEPT ![k] = "open"]
      /\ onClient' = [onClient EXCEPT ![k] = sftp[c]]
      /\ UNCHANGED <<transportVars, active, retried, sessions, connSessions, stream, exited, tombs, tunnels, listening, unowned, sftp>>
  BY DEF SftpCached, sessionVars, tunnelVars
<1>2. op'[k] = "open" /\ Alone(k)
  BY <1>1, TypedBooks DEF Alone, OpStates
<1>3. /\ TransportTypeOK' /\ TransportInv' /\ LinkInv'
      /\ UNCHANGED <<connections, dead, connecting, phase, outcome, client, link, call, callee>>
  BY <1>2, AloneKeeps
<1>4. ServiceTypeOK'
  <2>1. onClient' \in [Caller -> Client \union {NoClient}]
    BY <1>1, TypedBooks
  <2> QED BY <1>1, <1>2, <1>3, <2>1 DEF ServiceInv, ServiceTypeOK, Alone
<1>5. ASSUME NEW l \in Caller PROVE CallBooks(l)' /\ SessionBooks(l)'
  <2>1. CallBooks(l) /\ SessionBooks(l)
    BY TypedBooks
  <2> QED BY <1>1, <1>2, <1>3, <2>1 DEF CallBooks, SessionBooks, Alone
<1>6. ASSUME NEW d \in Conn PROVE RecordBooks(d)'
  <2>1. RecordBooks(d) /\ connSessions[d] \subseteq Caller /\ tunnels[d] \subseteq Caller
    BY TypedBooks
  <2>2. k \notin connSessions[d] /\ k \notin tunnels[d]
    BY <1>1, <2>1 DEF RecordBooks
  <2> QED BY <1>1, <1>2, <1>3, <2>1, <2>2 DEF RecordBooks, Alone
<1>7. ActiveWasEstablished'
  BY <1>1, <1>3, TypedBooks DEF ActiveWasEstablished
<1> QED BY <1>3, <1>4, <1>5, <1>6, <1>7 DEF ServiceInv, Books

LEMMA LimitReachedKeeps ==
  ASSUME ServiceInv, NEW k \in Caller, NEW c \in Conn, LimitReached(k, c)
  PROVE  ServiceInv'
<1>1. /\ op[k] = "idle" /\ op' = [op EXCEPT ![k] = "failed"]
      /\ UNCHANGED <<transportVars, active, retried, onClient, sessions, connSessions, stream, exited, tombs,
                     tunnels, listening, unowned, sftp>>
  BY DEF LimitReached, sessionVars, tunnelVars
<1>2. op'[k] = "failed" /\ Alone(k)
  BY <1>1, TypedBooks DEF Alone, OpStates
<1>3. /\ TransportTypeOK' /\ TransportInv' /\ LinkInv'
      /\ UNCHANGED <<connections, dead, connecting, phase, outcome, client, link, call, callee>>
  BY <1>2, AloneKeeps
<1>4. ServiceTypeOK'
  BY <1>1, <1>2, <1>3 DEF ServiceInv, ServiceTypeOK, Alone
<1>5. ASSUME NEW l \in Caller PROVE CallBooks(l)' /\ SessionBooks(l)'
  <2>1. CallBooks(l) /\ SessionBooks(l)
    BY TypedBooks
  <2> QED BY <1>1, <1>2, <1>3, <2>1 DEF CallBooks, SessionBooks, Alone
<1>6. ASSUME NEW d \in Conn PROVE RecordBooks(d)'
  <2>1. RecordBooks(d) /\ connSessions[d] \subseteq Caller /\ tunnels[d] \subseteq Caller
    BY TypedBooks
  <2>2. k \notin connSessions[d] /\ k \notin tunnels[d]
    BY <1>1, <2>1 DEF RecordBooks
  <2> QED BY <1>1, <1>2, <1>3, <2>1, <2>2 DEF RecordBooks, Alone
<1>7. ActiveWasEstablished'
  BY <1>1, <1>3, TypedBooks DEF ActiveWasEstablished
<1> QED BY <1>3, <1>4, <1>5, <1>6, <1>7 DEF ServiceInv, Books

(* The channel is answered on a transport that is there, so the record is  *)
(* alive: what is opened is not left behind on a dead one.                 *)
LEMMA AnsweredAlive ==
  ASSUME ServiceInv, NEW k \in Caller, op[k] = "opening"
  PROVE  /\ callee[k] \in Conn /\ phase[callee[k]] # "fresh"
         /\ Answers(k) => ~dead[callee[k]] /\ onClient[k] = client[callee[k]]
<1>1. CallBooks(k) /\ callee[k] \in Conn \union {NoConn}
  BY TypedBooks
<1>2. callee[k] \in Conn /\ phase[callee[k]] # "fresh"
  BY <1>1 DEF CallBooks
<1>3. LinkBooks(callee[k])
  BY <1>2, TypedBooks DEF LinkInv
<1> QED BY <1>2, <1>3 DEF Answers, LinkBooks

LEMMA ShellOpensKeeps ==
  ASSUME ServiceInv, NEW k \in Caller, ShellOpens(k)
  PROVE  ServiceInv'
<1>1. /\ op[k] = "opening" /\ Kind[k] = "shell" /\ Answers(k) /\ op' = [op EXCEPT ![k] = "open"]
      /\ stream' = stream \union {k} /\ active' = callee[k]
      /\ UNCHANGED <<transportVars, retried, onClient, sessions, connSessions, exited, tombs, tunnels, listening, unowned, sftp>>
  BY DEF ShellOpens, tunnelVars
<1>2. op'[k] = "open" /\ Alone(k)
  BY <1>1, TypedBooks DEF Alone, OpStates
<1>3. /\ TransportTypeOK' /\ TransportInv' /\ LinkInv'
      /\ UNCHANGED <<connections, dead, connecting, phase, outcome, client, link, call, callee>>
  BY <1>2, AloneKeeps
<1>4. ServiceTypeOK'
  <2>1. active' \in Conn \union {NoConn} /\ stream' \subseteq Caller
    BY <1>1, TypedBooks
  <2> QED BY <1>1, <1>2, <1>3, <2>1 DEF ServiceInv, ServiceTypeOK, Alone
<1>5. ASSUME NEW l \in Caller PROVE CallBooks(l)' /\ SessionBooks(l)'
  <2>1. CallBooks(l) /\ SessionBooks(l)
    BY TypedBooks
  <2>2. l \in stream' <=> l \in stream \/ l = k
    BY <1>1
  <2> QED BY <1>1, <1>2, <1>3, <2>1, <2>2 DEF CallBooks, SessionBooks, Alone
<1>6. ASSUME NEW d \in Conn PROVE RecordBooks(d)'
  <2>1. RecordBooks(d) /\ connSessions[d] \subseteq Caller /\ tunnels[d] \subseteq Caller
    BY TypedBooks
  <2>2. k \notin tunnels[d]
    BY <1>1, <2>1 DEF RecordBooks
  <2> QED BY <1>1, <1>2, <1>3, <2>1, <2>2 DEF RecordBooks, Alone
<1>7. ActiveWasEstablished'
  <2>1. CallBooks(k)
    BY TypedBooks
  <2> QED BY <1>1, <1>3, <2>1 DEF ActiveWasEstablished, CallBooks
<1> QED BY <1>3, <1>4, <1>5, <1>6, <1>7 DEF ServiceInv, Books

(* A tunnel that starts, listening or forwarded by the server.             *)
LEMMA TunnelOpensKeeps ==
  ASSUME ServiceInv, NEW k \in Caller, ListenerOpens(k) \/ RemoteOpens(k)
  PROVE  ServiceInv'
<1>1. /\ op[k] = "opening" /\ op' = [op EXCEPT ![k] = "open"]
      /\ tunnels' = [tunnels EXCEPT ![callee[k]] = @ \union {k}]
      /\ listening' \in {listening, listening \union {k}} /\ unowned' \in {unowned, unowned \union {k}}
      /\ UNCHANGED <<transportVars, active, retried, onClient, sessions, connSessions, stream, exited, tombs, sftp>>
      /\ Kind[k] # "shell" /\ (Kind[k] = "remote" => Answers(k))
  BY DEF ListenerOpens, RemoteOpens, sessionVars
<1>2. op'[k] = "open" /\ Alone(k)
  BY <1>1, TypedBooks DEF Alone, OpStates
<1>3. /\ TransportTypeOK' /\ TransportInv' /\ LinkInv'
      /\ UNCHANGED <<connections, dead, connecting, phase, outcome, client, link, call, callee>>
  BY <1>2, AloneKeeps
<1>4. /\ callee[k] \in Conn /\ (Kind[k] = "remote" => ~dead[callee[k]])
      /\ tunnels' \in [Conn -> SUBSET Caller]
      /\ \A d \in Conn : tunnels'[d] = IF d = callee[k] THEN tunnels[d] \union {k} ELSE tunnels[d]
  BY <1>1, AnsweredAlive, TypedBooks
<1>5. ServiceTypeOK'
  <2>1. listening' \subseteq Caller /\ unowned' \subseteq Caller
    BY <1>1, TypedBooks
  <2> QED BY <1>1, <1>2, <1>3, <1>4, <2>1 DEF ServiceInv, ServiceTypeOK, Alone
<1>6. ASSUME NEW l \in Caller PROVE CallBooks(l)' /\ SessionBooks(l)'
  <2>1. CallBooks(l) /\ SessionBooks(l) /\ callee[l] \in Conn \union {NoConn}
    BY TypedBooks
  <2>2. l \in listening' => l \in listening \/ l = k
    BY <1>1
  <2>3. callee[k] # NoConn
    BY <1>4, TransportAssumption
  <2> QED BY <1>1, <1>2, <1>3, <1>4, <2>1, <2>2, <2>3 DEF CallBooks, SessionBooks, Alone
<1>7. ASSUME NEW d \in Conn PROVE RecordBooks(d)'
  <2>1. RecordBooks(d) /\ connSessions[d] \subseteq Caller /\ tunnels[d] \subseteq Caller
    BY TypedBooks
  <2>2. k \notin connSessions[d]
    BY <1>1, <2>1 DEF RecordBooks
  <2>3. \A l \in tunnels'[d] : callee'[l] = d /\ op'[l] \in {"open", "stopping"}
    BY <1>2, <1>3, <1>4, <2>1 DEF RecordBooks, Alone
  <2>4. dead[d] => tunnels'[d] \intersect OfKind("remote") = tunnels[d] \intersect OfKind("remote")
    BY <1>4 DEF OfKind
  <2> QED BY <1>1, <1>2, <1>3, <2>1, <2>2, <2>3, <2>4 DEF RecordBooks, Alone
<1>8. ActiveWasEstablished'
  BY <1>1, <1>3, TypedBooks DEF ActiveWasEstablished
<1> QED BY <1>3, <1>5, <1>6, <1>7, <1>8 DEF ServiceInv, Books

LEMMA SftpOpensKeeps ==
  ASSUME ServiceInv, NEW k \in Caller, SftpOpens(k)
  PROVE  ServiceInv'
<1>1. /\ op[k] = "opening" /\ Kind[k] = "sftp" /\ Answers(k) /\ op' = [op EXCEPT ![k] = "open"]
      /\ sftp' = [sftp EXCEPT ![callee[k]] = onClient[k]]
      /\ UNCHANGED <<transportVars, active, retried, onClient, sessions, connSessions, stream, exited, tombs, tunnels, listening, unowned>>
  BY DEF SftpOpens, sessionVars, tunnelVars
<1>2. op'[k] = "open" /\ Alone(k)
  BY <1>1, TypedBooks DEF Alone, OpStates
<1>3. /\ TransportTypeOK' /\ TransportInv' /\ LinkInv'
      /\ UNCHANGED <<connections, dead, connecting, phase, outcome, client, link, call, callee>>
  BY <1>2, AloneKeeps
<1>4. /\ callee[k] \in Conn /\ phase[callee[k]] # "fresh" /\ ~dead[callee[k]] /\ onClient[k] = client[callee[k]]
      /\ sftp' \in [Conn -> Client \union {NoClient}]
      /\ \A d \in Conn : sftp'[d] = IF d = callee[k] THEN client[d] ELSE sftp[d]
  BY <1>1, AnsweredAlive, TypedBooks
<1>5. ServiceTypeOK'
  BY <1>1, <1>2, <1>3, <1>4 DEF ServiceInv, ServiceTypeOK, Alone
<1>6. ASSUME NEW l \in Caller PROVE CallBooks(l)' /\ SessionBooks(l)'
  <2>1. CallBooks(l) /\ SessionBooks(l)
    BY TypedBooks
  <2> QED BY <1>1, <1>2, <1>3, <2>1 DEF CallBooks, SessionBooks, Alone
<1>7. ASSUME NEW d \in Conn PROVE RecordBooks(d)'
  <2>1. RecordBooks(d) /\ connSessions[d] \subseteq Caller /\ tunnels[d] \subseteq Caller
    BY TypedBooks
  <2>2. k \notin connSessions[d] /\ k \notin tunnels[d]
    BY <1>1, <2>1 DEF RecordBooks
  <2> QED BY <1>1, <1>2, <1>3, <1>4, <2>1, <2>2 DEF RecordBooks, Alone
<1>8. ActiveWasEstablished'
  BY <1>1, <1>3, TypedBooks DEF ActiveWasEstablished
<1> QED BY <1>3, <1>5, <1>6, <1>7, <1>8 DEF ServiceInv, Books

LEMMA OpenFailsKeeps ==
  ASSUME ServiceInv, NEW k \in Caller, OpenFails(k)
  PROVE  ServiceInv'
<1>1. /\ op[k] = "opening" /\ op' = [op EXCEPT ![k] = "failed"] /\ sessions' = sessions \ {k}
      /\ \A d \in Conn : connSessions'[d] = connSessions[d] \ {k}
      /\ UNCHANGED <<transportVars, active, retried, onClient, stream, exited, tombs, tunnels, listening, unowned, sftp>>
  BY DEF OpenFails, DropSession, tunnelVars
<1>2. op'[k] = "failed" /\ Alone(k)
  BY <1>1, TypedBooks DEF Alone, OpStates
<1>3. /\ TransportTypeOK' /\ TransportInv' /\ LinkInv'
      /\ UNCHANGED <<connections, dead, connecting, phase, outcome, client, link, call, callee>>
  BY <1>2, AloneKeeps
<1>4. ServiceTypeOK'
  <2>1. connSessions' \in [Conn -> SUBSET Caller] /\ sessions' \subseteq Caller
    BY TypedBooks DEF OpenFails, DropSession
  <2> QED BY <1>1, <1>2, <1>3, <2>1 DEF ServiceInv, ServiceTypeOK, Alone
<1>5. ASSUME NEW l \in Caller PROVE CallBooks(l)' /\ SessionBooks(l)'
  <2>1. CallBooks(l) /\ SessionBooks(l) /\ callee[l] \in Conn \union {NoConn}
    BY TypedBooks
  <2>2. CallBooks(l)'
    BY <1>1, <1>2, <1>3, <2>1 DEF CallBooks, Alone
  <2> QED BY <1>1, <1>2, <1>3, <2>1, <2>2 DEF SessionBooks, Alone
<1>6. ASSUME NEW d \in Conn PROVE RecordBooks(d)'
  <2>1. RecordBooks(d) /\ connSessions[d] \subseteq Caller /\ tunnels[d] \subseteq Caller
    BY TypedBooks
  <2>2. k \notin tunnels[d]
    BY <1>1, <2>1 DEF RecordBooks
  <2>3. connSessions[d] \subseteq sessions \ exited => connSessions'[d] \subseteq sessions' \ exited'
    BY <1>1
  <2> QED BY <1>1, <1>2, <1>3, <2>1, <2>2, <2>3 DEF RecordBooks, Alone
<1>7. ActiveWasEstablished'
  BY <1>1, <1>3, TypedBooks DEF ActiveWasEstablished
<1> QED BY <1>3, <1>4, <1>5, <1>6, <1>7 DEF ServiceInv, Books

(* requireSftp asks for a reconnect a second time: the one step that is no *)
(* step of the transport.                                                  *)
LEMMA SftpRetriesKeeps ==
  ASSUME ServiceInv, NEW k \in Caller, SftpRetries(k)
  PROVE  ServiceInv'
<1>1. /\ op[k] = "opening" /\ Kind[k] = "sftp" /\ dead[callee[k]] /\ retried' = retried \union {k}
      /\ call' = [call EXCEPT ![k] = Answer(callee[k])]
      /\ op' = [op EXCEPT ![k] = IF call'[k] = "wait" THEN "wait" ELSE "failed"]
      /\ UNCHANGED <<recVars, tryVars, netVars, callee, active, onClient, sessions, connSessions, stream, exited,
                     tombs, tunnels, listening, unowned, sftp>>
  BY DEF SftpRetries, RetriesSftp, sessionVars, tunnelVars
<1>2. /\ UNCHANGED <<connections, dead, closing, connecting, timer, tries, phase, used, outcome, client, link, watched, events>>
  BY <1>1 DEF recVars, tryVars, netVars
<1>3. call'[k] \in {"no", "wait"} /\ \A l \in Caller : l # k => call'[l] = call[l]
  BY <1>1, TypedBooks DEF Answer
<1>4. call' \in [Caller -> CallStates]
  BY <1>1, <1>3, TypedBooks DEF CallStates
<1>5. op' \in [Caller -> OpStates] /\ op'[k] = (IF call'[k] = "wait" THEN "wait" ELSE "failed")
      /\ \A l \in Caller : l # k => op'[l] = op[l]
  BY <1>1, TypedBooks DEF OpStates
<1>6. TransportTypeOK'
  BY <1>1, <1>2, <1>4, TypedBooks DEF TransportTypeOK
<1>7. TransportInv'
  BY <1>2, TypedBooks DEF TransportInv, RecordInv, TimerArmed, NotReadyDead, ReadyAlive, FirstInFlight,
     FreshUnknown, AttemptUnwatched, PendingIsGone, StoppedAtRest, DeadIsTended
<1>8. LinkInv'
  BY <1>2, TypedBooks DEF LinkInv, LinkBooks, LinkHasClient
<1>9. ServiceTypeOK'
  <2>1. retried' \subseteq OfKind("sftp")
    BY <1>1 DEF ServiceInv, ServiceTypeOK, OfKind
  <2> QED BY <1>1, <1>5, <1>6, <2>1 DEF ServiceInv, ServiceTypeOK
<1>10. ASSUME NEW l \in Caller PROVE CallBooks(l)' /\ SessionBooks(l)'
  <2>1. CallBooks(l) /\ SessionBooks(l)
    BY TypedBooks
  <2>2. CASE l = k
    BY <1>1, <1>2, <1>3, <1>5, <2>1, <2>2 DEF CallBooks, SessionBooks
  <2>3. CASE l # k
    BY <1>1, <1>2, <1>3, <1>5, <2>1, <2>3 DEF CallBooks, SessionBooks
  <2> QED BY <2>2, <2>3
<1>11. ASSUME NEW d \in Conn PROVE RecordBooks(d)'
  <2>1. RecordBooks(d) /\ connSessions[d] \subseteq Caller /\ tunnels[d] \subseteq Caller
    BY TypedBooks
  <2>2. k \notin tunnels[d] /\ k \notin connSessions[d]
    BY <1>1, <2>1 DEF RecordBooks
  <2> QED BY <1>1, <1>2, <1>5, <2>1, <2>2 DEF RecordBooks
<1>12. ActiveWasEstablished'
  BY <1>1, <1>2, TypedBooks DEF ActiveWasEstablished
<1> QED BY <1>6, <1>7, <1>8, <1>9, <1>10, <1>11, <1>12 DEF ServiceInv, Books

(* A session that exits or is closed leaves its record's map only if the   *)
(* record is still known; one that is not known any more is never asked.   *)
LEMMA SessionEndsKeeps ==
  ASSUME ServiceInv, NEW k \in Caller, SessionExits(k) \/ CloseSession(k)
  PROVE  ServiceInv'
<1>1. /\ connSessions' = [c \in Conn |->
           IF c = callee[k] /\ c \in connections THEN connSessions[c] \ {k} ELSE connSessions[c]]
      /\ UNCHANGED <<transportVars, active, op, retried, onClient, tunnels, listening, unowned, sftp>>
      /\ k \in sessions \union stream /\ stream' = stream \ {k}
      /\ exited' \in {exited, exited \union {k}}
      /\ \/ sessions' = sessions /\ tombs' = tombs /\ exited' = exited \union {k}
         \/ sessions' = sessions \ {k} /\ tombs' = tombs \union {k}
  BY DEF SessionExits, CloseSession, opVars, tunnelVars
<1>2. op \in [Caller -> OpStates] /\ Alone(k)
  BY <1>1, TypedBooks DEF Alone
<1>3. /\ TransportTypeOK' /\ TransportInv' /\ LinkInv'
      /\ UNCHANGED <<connections, dead, connecting, phase, outcome, client, link, call, callee>>
  BY <1>2, AloneKeeps
<1>4. SessionBooks(k) /\ Kind[k] = "shell" /\ op[k] \notin {"idle", "wait"}
  BY <1>1, TypedBooks DEF SessionBooks
<1>5. connSessions' \in [Conn -> SUBSET Caller]
      /\ \A d \in Conn : connSessions'[d] \subseteq connSessions[d] /\ connSessions[d] \subseteq connSessions'[d] \union {k}
  BY <1>1, TypedBooks
<1>6. ServiceTypeOK'
  <2>1. sessions' \subseteq Caller /\ stream' \subseteq Caller /\ exited' \subseteq Caller /\ tombs' \subseteq Caller
    BY <1>1, TypedBooks
  <2> QED BY <1>1, <1>3, <1>5, <2>1 DEF ServiceInv, ServiceTypeOK
<1>7. k \notin sessions' \/ k \in exited'
  BY <1>1
<1>8. ASSUME NEW l \in Caller PROVE CallBooks(l)' /\ SessionBooks(l)'
  <2>1. CallBooks(l) /\ SessionBooks(l) /\ callee[l] \in Conn \union {NoConn}
    BY TypedBooks
  <2>2. CallBooks(l)'
    BY <1>1, <1>3, <2>1 DEF CallBooks
  <2>0. callee' = callee /\ op' = op /\ tunnels' = tunnels /\ listening' = listening
    BY <1>1, <1>3
  <2>3. CASE l = k
    <3>1. k \in sessions \union tombs => k \in sessions' \union tombs'
      BY <1>1
    <3> QED BY <1>4, <1>7, <2>0, <2>1, <2>2, <2>3, <3>1 DEF SessionBooks
  <2>4. CASE l # k
    <3>1. /\ l \in sessions' <=> l \in sessions
          /\ l \in exited' <=> l \in exited
          /\ l \in stream' <=> l \in stream
          /\ l \in tombs' <=> l \in tombs
      BY <1>1, <2>4
    <3>2. callee[l] # NoConn /\ l \in connSessions[callee[l]] => l \in connSessions'[callee[l]]
      BY <1>5, <2>1, <2>4
    <3> QED BY <2>0, <2>1, <2>2, <3>1, <3>2 DEF SessionBooks
  <2> QED BY <2>2, <2>3, <2>4
<1>9. ASSUME NEW d \in Conn PROVE RecordBooks(d)'
  <2>1. RecordBooks(d)
    BY TypedBooks
  <2>2. d \in connections => k \notin connSessions'[d]
    BY <1>1, <2>1 DEF RecordBooks
  <2>3. d \in connections /\ connSessions[d] \subseteq sessions \ exited => connSessions'[d] \subseteq sessions' \ exited'
    BY <1>1, <1>5, <2>2
  <2>4. dead[d] /\ connSessions[d] = {} => connSessions'[d] = {}
    BY <1>5
  <2> QED BY <1>1, <1>3, <1>5, <2>1, <2>3, <2>4 DEF RecordBooks
<1>10. ActiveWasEstablished'
  BY <1>1, <1>3, TypedBooks DEF ActiveWasEstablished
<1> QED BY <1>3, <1>6, <1>8, <1>9, <1>10 DEF ServiceInv, Books

LEMMA TunnelStopKeeps ==
  ASSUME ServiceInv, NEW k \in Caller, StopTunnel(k) \/ TunnelStopped(k)
  PROVE  ServiceInv'
<1>1. /\ op' = [op EXCEPT ![k] = IF StopTunnel(k) THEN "stopping" ELSE "stopped"]
      /\ UNCHANGED <<transportVars, active, retried, onClient, sessions, connSessions, stream, exited, tombs, unowned, sftp>>
      /\ \/ op[k] = "open" /\ op'[k] = "stopping" /\ listening' = listening \ {k} /\ tunnels' = tunnels
         \/ op[k] = "stopping" /\ op'[k] = "stopped" /\ tunnels' = [tunnels EXCEPT ![callee[k]] = @ \ {k}] /\ listening' = listening
  <2>1. CASE StopTunnel(k)
    BY <2>1, TypedBooks DEF StopTunnel, sessionVars
  <2>2. CASE ~StopTunnel(k)
    BY <2>2, TypedBooks DEF TunnelStopped, sessionVars
  <2> QED BY <2>1, <2>2
<1>2. Alone(k)
  BY <1>1, TypedBooks DEF Alone, OpStates
<1>3. /\ TransportTypeOK' /\ TransportInv' /\ LinkInv'
      /\ UNCHANGED <<connections, dead, connecting, phase, outcome, client, link, call, callee>>
  BY <1>2, AloneKeeps
<1>4. /\ tunnels' \in [Conn -> SUBSET Caller] /\ listening' \subseteq listening
      /\ \A d \in Conn : tunnels'[d] \subseteq tunnels[d] /\ tunnels[d] \subseteq tunnels'[d] \union {k}
      /\ op'[k] = "stopped" => \A d \in Conn : callee[k] = d => k \notin tunnels'[d]
  BY <1>1, TypedBooks
<1>5. ServiceTypeOK'
  <2>1. listening' \subseteq Caller
    BY <1>4, TypedBooks
  <2> QED BY <1>1, <1>2, <1>3, <1>4, <2>1 DEF ServiceInv, ServiceTypeOK, Alone
<1>6. ASSUME NEW l \in Caller PROVE CallBooks(l)' /\ SessionBooks(l)'
  <2>1. CallBooks(l) /\ SessionBooks(l) /\ callee[l] \in Conn \union {NoConn}
    BY TypedBooks
  <2>2. CASE l = k
    <3>1. k \notin listening'
      BY <1>1, <2>1, <2>2 DEF SessionBooks
    <3> QED BY <1>1, <1>3, <2>1, <2>2, <3>1 DEF CallBooks, SessionBooks
  <2>3. CASE l # k
    <3>1. op'[l] = op[l] /\ (l \in listening' => l \in listening)
      BY <1>2, <1>4, <2>3 DEF Alone
    <3> QED BY <1>1, <1>3, <1>4, <2>1, <2>3, <3>1 DEF CallBooks, SessionBooks
  <2> QED BY <2>2, <2>3
<1>7. ASSUME NEW d \in Conn PROVE RecordBooks(d)'
  <2>1. RecordBooks(d) /\ connSessions[d] \subseteq Caller /\ tunnels[d] \subseteq Caller
    BY TypedBooks
  <2>2. \A l \in tunnels'[d] : callee[l] = d /\ op'[l] \in {"open", "stopping"}
    <3> TAKE l \in tunnels'[d]
    <3>1. l \in tunnels[d] /\ l \in Caller
      BY <1>4, <2>1
    <3>2. callee[l] = d /\ op[l] \in {"open", "stopping"}
      BY <2>1, <3>1 DEF RecordBooks
    <3>3. CASE l = k
      BY <1>1, <1>4, <3>2, <3>3
    <3>4. CASE l # k
      BY <1>2, <3>1, <3>2, <3>4 DEF Alone
    <3> QED BY <3>2, <3>3, <3>4
  <2>3. \A l \in Caller : op[l] \notin {"idle", "wait"} => op'[l] \notin {"idle", "wait"}
    BY <1>1, <1>2 DEF Alone
  <2>4. tunnels[d] \intersect OfKind("remote") = {} => tunnels'[d] \intersect OfKind("remote") = {}
    BY <1>4
  <2> QED BY <1>1, <1>3, <2>1, <2>2, <2>3, <2>4 DEF RecordBooks
<1>8. ActiveWasEstablished'
  BY <1>1, <1>3, TypedBooks DEF ActiveWasEstablished
<1> QED BY <1>3, <1>5, <1>6, <1>7, <1>8 DEF ServiceInv, Books

-----------------------------------------------------------------------------
LEMMA ServiceStep == ServiceInv /\ [ServiceNext]_vars => ServiceInv'
<1> SUFFICES ASSUME ServiceInv, [ServiceNext]_vars PROVE ServiceInv'
  OBVIOUS
<1>1. ASSUME NEW c \in Conn, QuietStep(c) \/ Establish(c) \/ Loss(c) \/ Close(c) PROVE ServiceInv'
  BY <1>1, QuietStepKeeps, EstablishKeeps, LossKeeps, CloseKeeps
<1>2. ASSUME NEW c \in Conn, SelectConnection(c) PROVE ServiceInv'
  BY <1>2, SelectionKeeps DEF SelectConnection, Selectable
<1>3. CASE ResolveConnection
  BY <1>3, SelectionKeeps, TransportAssumption DEF ResolveConnection
<1>4. CASE Cancel
  BY <1>4, CancelKeeps
<1>5. ASSUME NEW k \in Caller, OpStep(k) PROVE ServiceInv'
  BY <1>5, StartKeeps, SftpCachedKeeps, LimitReachedKeeps, GiveUpKeeps, ShellOpensKeeps, TunnelOpensKeeps,
     SftpOpensKeeps, OpenFailsKeeps, SftpRetriesKeeps, SessionEndsKeeps, TunnelStopKeeps DEF OpStep
<1>6. CASE UNCHANGED vars
  <2>1. UNCHANGED <<transportVars, opVars, sessionVars, tunnelVars, sftp>> /\ active' = active
    BY <1>6 DEF vars, serviceVars
  <2>2. TransportTypeOK' /\ TransportInv' /\ LinkInv'
    BY <2>1, TransportMoves, TypedBooks
  <2> QED BY <2>1, <2>2 DEF ServiceInv, ServiceTypeOK, Books, CallBooks, SessionBooks, RecordBooks, ActiveWasEstablished,
             sessionVars, tunnelVars, opVars, transportVars, recVars, netVars, tryVars, callVars
<1> QED BY <1>1, <1>2, <1>3, <1>4, <1>5, <1>6 DEF ServiceNext

(* The records and all that the service keeps on them, through every step  *)
(* of the service.                                                         *)
THEOREM ServiceInvariant == ServiceSpec => []ServiceInv
BY ServiceBegins, ServiceStep, PTL DEF ServiceSpec

(* The records and the service's maps keep their types through every       *)
(* handler; only requireSftp ever asks for its channel a second time.      *)
THEOREM ServiceTypeCorrect == ServiceSpec => []ServiceTypeOK
<1>1. ServiceInv => ServiceTypeOK
  BY DEF ServiceInv
<1> QED BY <1>1, ServiceInvariant, PTL

-----------------------------------------------------------------------------
(* The listeners that started while their record was in service.           *)
ListenersInService == \A k \in listening \ unowned : InService(callee[k])

LEMMA ListeningBooks ==
  ASSUME ServiceInv, NEW k \in listening
  PROVE  k \in Caller /\ op[k] = "open" /\ callee[k] \in Conn /\ k \in tunnels[callee[k]]
<1>1. k \in Caller /\ SessionBooks(k) /\ callee[k] \in Conn \union {NoConn}
  BY TypedBooks
<1> QED BY <1>1 DEF SessionBooks

(* The steps on a record that take none out of service: all but a loss and *)
(* a disconnect.                                                           *)
Sparing(c) ==
  \/ Connect(c) \/ SockReady(c) \/ SockFails(c) \/ HandshakeReady(c) \/ HandshakeFails(c) \/ SleepEnds(c)
  \/ PersistDone(c) \/ PersistFails(c) \/ TransportCloses(c) \/ TimerFires(c) \/ ReconnectThrows(c)

LEMMA StaysInService ==
  ASSUME TransportTypeOK, TransportInv, NEW c \in Conn, Sparing(c), NEW d \in Conn, InService(d)
  PROVE  InService(d)'
<1>1. CASE d # c
  <2>1. RecordStep(c)
    BY DEF Sparing, RecordStep
  <2> QED BY <1>1, <2>1, RecordStepIsLocal DEF InService
<1>2. CASE d = c
  <2>1. c \in connections /\ ~connecting[c] /\ ~dead[c] /\ RecordInv(c)
    BY <1>2 DEF InService, TransportInv
  <2>2. phase[c] \notin {"fresh", "sock", "hand", "sleep"}
    BY <2>1 DEF RecordInv, NotReadyDead, FreshUnknown
  <2>3. TransportCloses(c) \/ TimerFires(c) \/ PersistDone(c) \/ PersistFails(c)
    BY <2>2 DEF Sparing, Connect, SockReady, SockFails, HandshakeReady, HandshakeFails, SleepEnds, ReconnectThrows,
       InFlight
  <2> QED BY <1>2, <2>1, <2>3 DEF InService, TransportCloses, TimerFires, PersistDone, PersistFails, ReturnOk, ReturnError,
             recVars, TransportTypeOK
<1> QED BY <1>1, <1>2

(* No listener is new or counted again, and the records of those that are  *)
(* left stay in service.                                                   *)
LEMMA ListenersKept ==
  ASSUME ServiceInv, ListenersInService, listening' \ unowned' \subseteq listening \ unowned,
         \A k \in listening' : callee'[k] = callee[k],
         \A d \in Conn : (\E k \in listening' : callee[k] = d) /\ InService(d) => InService(d)'
  PROVE  ListenersInService'
<1> SUFFICES ASSUME NEW k \in listening', k \notin unowned' PROVE InService(callee[k])'
  BY DEF ListenersInService
<1>1. k \in listening \ unowned
  OBVIOUS
<1>2. PICK d \in Conn : d = callee[k]
  BY <1>1, ListeningBooks
<1>3. InService(d)
  BY <1>1, <1>2 DEF ListenersInService
<1>4. InService(d)' /\ callee'[k] = d
  BY <1>2, <1>3
<1> QED BY <1>4 DEF InService

LEMMA RecordsKeepListeners ==
  ASSUME ServiceInv, ListenersInService, NEW c \in Conn, QuietStep(c) \/ Establish(c)
  PROVE  ListenersInService'
<1>1. Sparing(c) /\ UNCHANGED <<listening, unowned>>
  BY DEF QuietStep, Establish, Sparing, tunnelVars
<1>2. TransportTypeOK /\ TransportInv /\ RecordStep(c)
  BY <1>1, TypedBooks DEF Sparing, RecordStep
<1>3. ASSUME NEW k \in Caller PROVE callee' = callee
  BY <1>2, RecordStepAnswers
<1>4. ASSUME NEW d \in Conn, InService(d) PROVE InService(d)'
  BY <1>1, <1>2, <1>4, StaysInService
<1>5. \A d \in Conn : (\E k \in listening' : callee[k] = d) /\ InService(d) => InService(d)'
  BY <1>4
<1>6. listening' \ unowned' \subseteq listening \ unowned /\ \A k \in listening' : callee'[k] = callee[k]
  BY <1>1, <1>3, ListeningBooks
<1> QED BY <1>5, <1>6, ListenersKept

(* A loss and a disconnect close the listeners of the record they take out *)
(* of service.                                                             *)
LEMMA TeardownKeepsListeners ==
  ASSUME ServiceInv, ListenersInService, NEW c \in Conn, Loss(c) \/ Close(c)
  PROVE  ListenersInService'
<1>1. CASE CloseConnectionTunnels(c)
  <2>1. /\ listening' = listening \ tunnels[c] /\ unowned' = unowned /\ callee' = callee
        /\ \A d \in Conn \ {c} : InService(d) => InService(d)'
    <3>1. CASE Loss(c)
      BY <1>1, <3>1, TypedBooks DEF Loss, LossEvent, HandleTransportLoss, CloseConnectionTunnels, InService, callVars,
         TransportTypeOK
    <3>2. CASE Close(c)
      BY <1>1, <3>2 DEF Close, Disconnect, CloseConnectionTunnels, InService, callVars
    <3> QED BY <3>1, <3>2
  <2>2. ASSUME NEW k \in listening' PROVE callee[k] \in Conn \ {c}
    BY <2>1, <2>2, ListeningBooks
  <2>3. \A d \in Conn : (\E k \in listening' : callee[k] = d) /\ InService(d) => InService(d)'
    BY <2>1, <2>2
  <2>4. listening' \ unowned' \subseteq listening \ unowned /\ \A k \in listening' : callee'[k] = callee[k]
    BY <2>1
  <2> QED BY <2>3, <2>4, ListenersKept
<1>2. CASE ~CloseConnectionTunnels(c)
  <2>1. PICK more \in BOOLEAN : LossEvent(c, more) /\ dead'[c] = dead[c] /\ UNCHANGED tunnelVars
    BY <1>2 DEF Loss, Close
  <2>2. UNCHANGED <<listening, unowned, connections, connecting, callee>>
    BY <2>1 DEF LossEvent, tunnelVars, callVars
  <2>3. dead' = dead
    <3>1. dead' = [dead EXCEPT ![c] = TRUE] \/ dead' = dead
      BY <2>1 DEF LossEvent, HandleTransportLoss
    <3>2. dead \in [Conn -> BOOLEAN]
      BY TypedBooks DEF TransportTypeOK
    <3> QED BY <2>1, <3>1, <3>2
  <2>4. \A d \in Conn : InService(d) => InService(d)'
    BY <2>2, <2>3 DEF InService
  <2>5. listening' \ unowned' \subseteq listening \ unowned /\ \A k \in listening' : callee'[k] = callee[k]
    BY <2>2
  <2> QED BY <2>4, <2>5, ListenersKept
<1> QED BY <1>1, <1>2

LEMMA OperationsKeepListeners ==
  ASSUME ServiceInv, ListenersInService, NEW k \in Caller, OpStep(k)
  PROVE  ListenersInService'
<1>1. UNCHANGED <<connections, connecting, dead>>
  BY DEF OpStep, Start, EnsureAlive, GiveUpWaiting, WaitTimesOut, SftpCached, LimitReached, ShellOpens, ListenerOpens,
     RemoteOpens, SftpOpens, OpenFails, SftpRetries, SessionExits, CloseSession, StopTunnel, TunnelStopped,
     transportVars, recVars
<1>2. \A l \in listening : callee'[l] = callee[l]
  <2>1. callee' = callee \/ (op[k] = "idle" /\ \E c \in Conn : callee' = [callee EXCEPT ![k] = c])
    BY DEF OpStep, Start, EnsureAlive, GiveUpWaiting, WaitTimesOut, SftpCached, LimitReached, ShellOpens, ListenerOpens,
       RemoteOpens, SftpOpens, OpenFails, SftpRetries, SessionExits, CloseSession, StopTunnel, TunnelStopped,
       transportVars, callVars
  <2> QED BY <2>1, ListeningBooks, TypedBooks
<1>3. CASE ListenerOpens(k)
  <2>1. /\ listening' = listening \union {k} /\ callee' = callee
        /\ unowned' = IF InService(callee[k]) THEN unowned ELSE unowned \union {k}
    BY <1>3 DEF ListenerOpens, transportVars, callVars
  <2> SUFFICES ASSUME NEW l \in listening', l \notin unowned' PROVE InService(callee[l])'
    BY DEF ListenersInService
  <2>2. InService(callee[l]) /\ callee'[l] = callee[l]
    BY <2>1 DEF ListenersInService
  <2> QED BY <1>1, <2>1, <2>2 DEF InService
<1>4. CASE ~ListenerOpens(k)
  <2>1. listening' \subseteq listening /\ unowned' = unowned
    BY <1>4 DEF OpStep, Start, GiveUpWaiting, SftpCached, LimitReached, ShellOpens, RemoteOpens, SftpOpens, OpenFails,
       SftpRetries, SessionExits, CloseSession, StopTunnel, TunnelStopped, tunnelVars
  <2> QED BY <1>1, <1>2, <2>1, ListenersKept DEF InService
<1> QED BY <1>3, <1>4

LEMMA ListenersStep == ServiceInv /\ ListenersInService /\ [ServiceNext]_vars => ListenersInService'
<1> SUFFICES ASSUME ServiceInv, ListenersInService, [ServiceNext]_vars PROVE ListenersInService'
  OBVIOUS
<1>1. ASSUME NEW c \in Conn, SelectConnection(c) PROVE UNCHANGED <<transportVars, tunnelVars>>
  BY <1>1 DEF SelectConnection
<1>2. CASE UNCHANGED <<transportVars, tunnelVars>>
  <2>1. UNCHANGED <<listening, unowned, connections, connecting, dead, callee>>
    BY <1>2 DEF transportVars, recVars, callVars, tunnelVars
  <2> QED BY <2>1, ListenersKept DEF InService
<1>3. CASE Cancel
  <2>1. UNCHANGED <<listening, unowned, connections, connecting, dead, callee>>
    BY <1>3 DEF Cancel, CancelConnect, serviceVars, tunnelVars, callVars
  <2> QED BY <2>1, ListenersKept DEF InService
<1>4. ResolveConnection \/ UNCHANGED vars => UNCHANGED <<transportVars, tunnelVars>>
  BY DEF ResolveConnection, vars, serviceVars
<1> QED BY <1>1, <1>2, <1>3, <1>4, RecordsKeepListeners, TeardownKeepsListeners, OperationsKeepListeners DEF ServiceNext

(* Through opens that fail, exits, closes, losses and disconnects in any   *)
(* order the two session maps agree and an exit is remembered for late     *)
(* reads; a dead record holds no terminal, channel or remote forward, a    *)
(* cached channel is that of the client in use, a listener accepts only    *)
(* while its record is in service and has it among its tunnels (but for one*)
(* whose listen() was answered when the record was lost, closed or not yet *)
(* connected), and the agent's target has been connected.                  *)
THEOREM MapsAreSound == ServiceSpec => []MapsSound
<1>1. ASSUME ServiceInv PROVE SessionMapsAgree
  <2>1. ASSUME NEW c \in connections, NEW k \in connSessions[c] PROVE k \in sessions \ exited /\ callee[k] = c
    <3>1. c \in Conn
      BY <1>1, <2>1, TypedBooks DEF TransportTypeOK
    <3> QED BY <1>1, <2>1, <3>1, TypedBooks DEF RecordBooks
  <2>2. ASSUME NEW k \in sessions \ exited PROVE k \in connSessions[callee[k]]
    BY <1>1, <2>2, TypedBooks DEF SessionBooks
  <2> QED BY <2>1, <2>2 DEF SessionMapsAgree
<1>2. ASSUME ServiceInv PROVE ExitRemembered
  BY <1>2, TypedBooks DEF ExitRemembered, OfKind, SessionBooks
<1>3. ASSUME ServiceInv PROVE DeadHoldsNothing /\ SftpIsCurrent
  <2>1. \A c \in connections : c \in Conn /\ RecordBooks(c)
    BY <1>3, TypedBooks DEF TransportTypeOK
  <2> QED BY <2>1 DEF DeadHoldsNothing, SftpIsCurrent, RecordBooks
<1>4. ASSUME ServiceInv, ListenersInService PROVE ListenersAreOwned
  BY <1>4, ListeningBooks DEF ListenersAreOwned, ListenersInService
<1>5. ServiceInv /\ ListenersInService => MapsSound
  BY <1>1, <1>2, <1>3, <1>4, TypedBooks DEF MapsSound, SessionsAccounted, NothingOutlives
<1>6. ServiceInit => ListenersInService
  BY DEF ServiceInit, ListenersInService
<1> QED BY <1>5, <1>6, ListenersStep, ServiceInvariant, PTL DEF ServiceSpec

-----------------------------------------------------------------------------
(* The login walk.                                                         *)
LEMMA AvailableType ==
  /\ Available \in Seq(Methods) /\ Len(Available) \in 1..5 /\ Available[1] = "none"
  /\ DOMAIN Available = 1..Len(Available)
<1>1. AuthMethodOrder = <<"none", "password", "publickey", "agent", Keyboard>>
  BY DEF AuthMethodOrder
<1>2. \A i \in 1..5 : AuthMethodOrder[i] \in Methods
  BY <1>1 DEF Methods, ToSet
<1>3. ASSUME NEW i \in 1..5 PROVE Kept(i) \in Seq(Methods) /\ Len(Kept(i)) \in 0..1
  BY <1>2 DEF Kept
<1>4. Kept(1) = <<"none">>
  BY <1>1 DEF Kept
<1>5. /\ Kept(1) \in Seq(Methods) /\ Len(Kept(1)) = 1 /\ Kept(1)[1] = "none"
      /\ Kept(2) \in Seq(Methods) /\ Len(Kept(2)) \in 0..1 /\ Kept(3) \in Seq(Methods) /\ Len(Kept(3)) \in 0..1
      /\ Kept(4) \in Seq(Methods) /\ Len(Kept(4)) \in 0..1 /\ Kept(5) \in Seq(Methods) /\ Len(Kept(5)) \in 0..1
  BY <1>3, <1>4
<1> DEFINE Plus(s, t) == s \o t
<1>6. ASSUME NEW s \in Seq(Methods), NEW t \in Seq(Methods), NEW m \in Nat, s[1] = "none", Len(s) \in 1..m, Len(t) \in 0..1
      PROVE  Plus(s, t) \in Seq(Methods) /\ Plus(s, t)[1] = "none" /\ Len(Plus(s, t)) \in 1..(m + 1)
  <2>1. s \o t \in Seq(Methods) /\ Len(s \o t) = Len(s) + Len(t)
    BY <1>6, ConcatProperties
  <2>2. (s \o t)[1] = s[1]
    BY <1>6, ConcatProperties
  <2>3. Len(s) + Len(t) \in 1..(m + 1)
    <3> DEFINE x == Len(s)
               y == Len(t)
    <3>1. x \in 1..m /\ y \in 0..1
      BY <1>6
    <3> HIDE DEF x, y
    <3>2. x + y \in 1..(m + 1)
      BY <3>1
    <3> QED BY <3>2 DEF x, y
  <2> QED BY <1>6, <2>1, <2>2, <2>3
<1>7. Available = Plus(Plus(Plus(Plus(Kept(1), Kept(2)), Kept(3)), Kept(4)), Kept(5))
  BY DEF Available
<1>8. Kept(1) \in Seq(Methods) /\ Kept(1)[1] = "none" /\ Len(Kept(1)) \in 1..1
  BY <1>5
<1> HIDE DEF Plus
<1>9. Plus(Kept(1), Kept(2)) \in Seq(Methods) /\ Plus(Kept(1), Kept(2))[1] = "none" /\ Len(Plus(Kept(1), Kept(2))) \in 1..2
  <2>1. Plus(Kept(1), Kept(2)) \in Seq(Methods) /\ Plus(Kept(1), Kept(2))[1] = "none" /\ Len(Plus(Kept(1), Kept(2))) \in 1..(1 + 1)
    BY <1>5, <1>6, <1>8
  <2> QED BY <2>1
<1>10. Plus(Plus(Kept(1), Kept(2)), Kept(3)) \in Seq(Methods) /\ Plus(Plus(Kept(1), Kept(2)), Kept(3))[1] = "none" /\ Len(Plus(Plus(Kept(1), Kept(2)), Kept(3))) \in 1..3
  <2>1. Plus(Plus(Kept(1), Kept(2)), Kept(3)) \in Seq(Methods) /\ Plus(Plus(Kept(1), Kept(2)), Kept(3))[1] = "none" /\ Len(Plus(Plus(Kept(1), Kept(2)), Kept(3))) \in 1..(2 + 1)
    BY <1>5, <1>6, <1>9
  <2> QED BY <2>1
<1>11. Plus(Plus(Plus(Kept(1), Kept(2)), Kept(3)), Kept(4)) \in Seq(Methods) /\ Plus(Plus(Plus(Kept(1), Kept(2)), Kept(3)), Kept(4))[1] = "none" /\ Len(Plus(Plus(Plus(Kept(1), Kept(2)), Kept(3)), Kept(4))) \in 1..4
  <2>1. Plus(Plus(Plus(Kept(1), Kept(2)), Kept(3)), Kept(4)) \in Seq(Methods) /\ Plus(Plus(Plus(Kept(1), Kept(2)), Kept(3)), Kept(4))[1] = "none" /\ Len(Plus(Plus(Plus(Kept(1), Kept(2)), Kept(3)), Kept(4))) \in 1..(3 + 1)
    BY <1>5, <1>6, <1>10
  <2> QED BY <2>1
<1>12. Available \in Seq(Methods) /\ Available[1] = "none" /\ Len(Available) \in 1..5
  <2>1. Available \in Seq(Methods) /\ Available[1] = "none" /\ Len(Available) \in 1..(4 + 1)
    BY <1>5, <1>6, <1>7, <1>11
  <2> QED BY <2>1
<1> QED BY <1>12

Stages == {"new", "hand", "walk", "error", "up", "down", "auth", "transport", "protocol", "credential", "unknown"}
Names == STRING \union Methods
AuthType == [attempts : 0..2, left : SUBSET Names, sawFailure : BOOLEAN, kbdSeen : BOOLEAN, partials : Nat]
WalkType == [next : Nat, steps : Nat, offered : SUBSET Methods, done : Nat]

LoginTypes ==
  /\ device \in Devices /\ stage \in Stages /\ failure \in Failures \union {"none"} /\ budget \in 0..FirstTries
  /\ auth \in AuthType /\ walk \in WalkType

(* Up to position n every method was offered; since the walk last started  *)
(* over none of them was the factor that is due, as long as the record may *)
(* start over.                                                             *)
WalkedTo(n) ==
  /\ \A i \in 1..n : Available[i] \in walk.offered
  /\ device.honest /\ auth.partials <= Len(Available) => \A i \in 2..n : Factor(Available[i]) # Wanted

(* Positions a walk has passed, over all of its starts.                    *)
Rounds == IF auth.partials < Len(Available) THEN auth.partials ELSE Len(Available)

WalkSteps == walk.next \in 1..(Len(Available) + 1) /\ walk.steps <= Rounds * Len(Available) + walk.next - 1
Walking ==
  /\ walk.next \in 1..Len(Available) /\ Available[walk.next] \in walk.offered /\ WalkedTo(walk.next - 1)
  /\ device.honest => walk.done < Len(device.factors)
Rejection ==
  /\ WalkedTo(Len(Available))
  /\ device.honest => walk.done < Len(device.factors) /\ auth.left = {Wanted}

LoginInv ==
  /\ LoginTypes
  /\ stage = "hand" => walk = NoWalk
  /\ walk = NoWalk \/ WalkSteps
  /\ stage = "walk" => Walking
  /\ (stage = "error" /\ failure = "rejected") \/ stage = "auth" => Rejection

LEMMA SameMethods == UNCHANGED <<holds, kbdOff>> => Available' = Available
BY DEF Available, Kept

LEMMA LoginBegins == LoginInit => LoginInv
BY LoginAssumption, AvailableType DEF LoginInit, LoginInv, WalkSteps, Walking, Rejection, LoginTypes, Stages, AuthType, WalkType, NoWalk

(* What a refusal of the offered method does to the walk.                  *)
LEMMA RefusedKeeps ==
  ASSUME LoginInv, stage = "walk", NEW left \in SUBSET Names, NEW partial \in BOOLEAN, NEW done \in Nat,
         Refused(left, partial, done),
         device.honest => /\ left = {device.factors[done + 1]} /\ done < Len(device.factors)
                          /\ partial \/ (done = walk.done /\ Factor(Offered) # Wanted)
  PROVE  LoginInv'
<1> DEFINE partials == auth.partials + IF partial THEN 1 ELSE 0
           next == Restarted(partial, partials)
           a == IF left = {} THEN [auth EXCEPT !.partials = partials]
                ELSE [auth EXCEPT !.left = left, !.sawFailure = TRUE, !.partials = partials]
           n == Len(Available)
<1>1. Offers(a, next) /\ walk' = Walked(next, done)
  BY DEF Refused
<1>2. /\ device \in Devices /\ failure \in Failures \union {"none"} /\ budget \in 0..FirstTries
      /\ auth \in AuthType /\ walk \in WalkType
      /\ walk.next \in 1..n /\ Available[walk.next] \in walk.offered /\ WalkedTo(walk.next - 1)
      /\ walk = NoWalk \/ walk.steps <= Rounds * n + walk.next - 1
  BY DEF LoginInv, LoginTypes, Walking, WalkSteps
<1>3. n = Len(Available) /\ n \in 1..5 /\ Available \in Seq(Methods)
  BY AvailableType
<1> HIDE DEF n
<1>4. auth.partials \in Nat /\ partials \in Nat /\ walk.next \in Nat /\ walk.steps \in Nat /\ walk.done \in Nat
      /\ walk.offered \subseteq Methods
  BY <1>2 DEF AuthType, WalkType
<1>5. a \in AuthType /\ a.partials = partials /\ (left # {} => a.left = left)
  BY <1>2, <1>4 DEF AuthType
<1>6. \/ next = 2 /\ partials = auth.partials + 1 /\ partials <= n
      \/ /\ next = walk.next + 1
         /\ \/ partials = auth.partials + 1 /\ partials > n
            \/ partials = auth.partials /\ (device.honest => done = walk.done /\ Factor(Offered) # Wanted)
  <2>1. CASE partial
    BY <1>3, <1>4, <2>1 DEF Restarted
  <2>2. CASE ~partial
    BY <1>3, <1>4, <2>2 DEF Restarted
  <2> QED BY <2>1, <2>2
<1>7. next = 2 \/ next = walk.next + 1
  BY <1>6
<1> HIDE DEF a, partials, next
<1>8. /\ UNCHANGED <<device, holds, kbdOff, budget>> /\ auth' \in AuthType /\ auth'.partials = partials
      /\ left # {} => auth'.left = left
      /\ \/ next > n /\ stage' = "error" /\ failure' = "rejected"
         \/ next <= n /\ stage' = "walk" /\ failure' = failure
  <2>1. CASE next > n
    BY <1>1, <1>3, <1>5, <2>1 DEF Offers
  <2>2. CASE ~(next > n)
    <3>1. auth' = [a EXCEPT !.attempts = IF @ < 2 THEN @ + 1 ELSE 2] /\ UNCHANGED <<device, holds, kbdOff, budget, failure>>
          /\ stage' = "walk"
      BY <1>1, <1>3, <2>2 DEF Offers
    <3> DEFINE t == IF a.attempts < 2 THEN a.attempts + 1 ELSE 2
    <3>2. t \in 0..2 /\ auth' = [a EXCEPT !.attempts = t]
      BY <1>5, <3>1 DEF AuthType
    <3> HIDE DEF t
    <3>3. auth' \in AuthType /\ auth'.partials = a.partials /\ auth'.left = a.left
      BY <1>5, <3>2 DEF AuthType
    <3>4. next <= n
      BY <1>3, <1>4, <1>7, <2>2
    <3> QED BY <1>5, <3>1, <3>3, <3>4
  <2> QED BY <2>1, <2>2
<1>9. Available' = Available
  BY <1>8, SameMethods
<1>10. next \in Nat /\ next \in 1..(n + 1)
  BY <1>2, <1>3, <1>4, <1>7
<1>11. /\ walk' \in WalkType /\ walk'.next = next /\ walk'.done = done /\ walk'.steps = walk.steps + 1
       /\ walk.offered \subseteq walk'.offered /\ (next <= n => Available[next] \in walk'.offered)
  <2> DEFINE o == IF next <= n THEN walk.offered \union {Available[next]} ELSE walk.offered
  <2>1. o \subseteq Methods /\ walk.offered \subseteq o /\ (next <= n => Available[next] \in o)
    BY <1>3, <1>4, <1>10
  <2>2. walk' = [next |-> next, done |-> done, steps |-> walk.steps + 1, offered |-> o]
    BY <1>1, <1>3 DEF Walked
  <2> HIDE DEF o
  <2>3. walk.steps + 1 \in Nat
    BY <1>4
  <2> QED BY <1>10, <2>1, <2>2, <2>3 DEF WalkType
<1>12. /\ \A i \in 1..(next - 1) : Available[i] \in walk'.offered
       /\ device.honest /\ partials <= n => \A i \in 2..(next - 1) : Factor(Available[i]) # device.factors[done + 1]
  <2>1. \A i \in 1..(next - 1) : Available[i] \in walk'.offered
    BY <1>2, <1>3, <1>4, <1>7, <1>11 DEF WalkedTo
  <2>2. ASSUME device.honest, partials <= n, NEW i \in 2..(next - 1)
        PROVE  Factor(Available[i]) # device.factors[done + 1]
    <3>1. next # 2 \/ i \notin 2..(next - 1)
      OBVIOUS
    <3>2. next = walk.next + 1 /\ partials = auth.partials /\ done = walk.done
          /\ Factor(Available[walk.next]) # device.factors[done + 1]
      BY <1>3, <1>4, <1>6, <2>2, <3>1 DEF Offered, Wanted
    <3>3. i = walk.next \/ i \in 2..(walk.next - 1)
      BY <1>4, <3>2
    <3> QED BY <1>2, <1>3, <2>2, <3>1, <3>2, <3>3 DEF WalkedTo, Wanted
  <2> QED BY <2>1, <2>2
<1>13. walk'.steps <= Rounds' * n + next - 1
  <2> DEFINE r == IF partials < n THEN partials ELSE n
  <2>1. Rounds' = r
    BY <1>3, <1>8, <1>9 DEF Rounds
  <2>2. walk.steps <= Rounds * n + walk.next - 1
    BY <1>2, <1>4 DEF NoWalk
  <2>3. Rounds \in 0..5 /\ r \in 0..5 /\ Rounds <= n
    <3>1. Rounds = (IF auth.partials < n THEN auth.partials ELSE n)
      BY <1>3 DEF Rounds
    <3>2. n \in 1..5 /\ auth.partials \in Nat /\ partials \in Nat
      BY <1>3, <1>4
    <3> QED BY <3>1, <3>2
  <2>4. CASE next = 2 /\ partials = auth.partials + 1 /\ partials <= n
    <3>1. r = Rounds + 1
      BY <1>3, <1>4, <2>4 DEF Rounds
    <3>2. (Rounds + 1) * n = Rounds * n + n /\ Rounds * n \in Nat
      BY <1>3, <2>3
    <3>3. Rounds' * n = Rounds * n + n
      BY <2>1, <3>1, <3>2
    <3> DEFINE x == Rounds * n
    <3>4. x \in Nat /\ Rounds' * n = x + n /\ walk.steps <= x + walk.next - 1
      BY <2>2, <3>2, <3>3
    <3> HIDE DEF x
    <3>5. walk.next \in Nat /\ walk.next <= n /\ n \in Nat
      BY <1>2, <1>3, <1>4
    <3>6. walk.steps + 1 <= (x + n) + 2 - 1
      BY <1>4, <3>4, <3>5
    <3> QED BY <1>11, <2>4, <3>4, <3>6
  <2>5. CASE next = walk.next + 1 /\ ((partials = auth.partials + 1 /\ partials > n) \/ partials = auth.partials)
    <3>1. r = Rounds
      BY <1>3, <1>4, <2>5 DEF Rounds
    <3>2. Rounds * n \in Nat
      BY <1>3, <2>3
    <3> DEFINE x == Rounds * n
    <3>3. x \in Nat /\ Rounds' * n = x /\ walk.steps <= x + walk.next - 1
      BY <2>1, <2>2, <3>1, <3>2
    <3> HIDE DEF x
    <3>4. walk.steps + 1 <= x + (walk.next + 1) - 1
      BY <1>4, <3>3
    <3> QED BY <1>11, <2>5, <3>3, <3>4
  <2> QED BY <1>6, <2>4, <2>5
<1>14. WalkSteps'
  BY <1>3, <1>9, <1>10, <1>11, <1>13 DEF WalkSteps
<1>15. LoginTypes'
  BY <1>2, <1>8, <1>11 DEF LoginTypes, Stages, Failures
<1>16. device.honest => walk'.done < Len(device'.factors) /\ auth'.left = {Wanted'}
  BY <1>8, <1>11 DEF Wanted
<1>17. CASE next <= n
  <2>1. stage' = "walk" /\ walk'.next \in 1..Len(Available') /\ Available'[walk'.next] \in walk'.offered
    BY <1>3, <1>8, <1>9, <1>10, <1>11, <1>17
  <2>2. WalkedTo(walk.next - 1)'
    BY <1>3, <1>8, <1>9, <1>11, <1>12 DEF WalkedTo, Wanted
  <2>3. Walking'
    BY <1>8, <1>16, <2>1, <2>2 DEF Walking
  <2> QED BY <1>14, <1>15, <2>1, <2>3 DEF LoginInv
<1>18. CASE next > n
  <2>1. next - 1 = n /\ stage' = "error"
    BY <1>3, <1>8, <1>10, <1>18
  <2>2. WalkedTo(Len(Available))'
    BY <1>3, <1>8, <1>9, <1>11, <1>12, <2>1 DEF WalkedTo, Wanted
  <2>3. Rejection'
    BY <1>8, <1>16, <2>2 DEF Rejection
  <2> QED BY <1>14, <1>15, <2>1, <2>3 DEF LoginInv
<1> QED BY <1>3, <1>10, <1>17, <1>18

LEMMA LoginStep == LoginInv /\ [LoginNext]_loginVars => LoginInv'
<1> SUFFICES ASSUME LoginInv, [LoginNext]_loginVars PROVE LoginInv'
  OBVIOUS
<1> USE DEF Stages, Failures
<1>1. /\ device \in Devices /\ stage \in Stages /\ failure \in Failures \union {"none"} /\ budget \in 0..FirstTries
      /\ auth \in AuthType /\ walk \in WalkType
  BY DEF LoginInv, LoginTypes
<1>2. /\ Available \in Seq(Methods) /\ Len(Available) \in 1..5 /\ Available[1] = "none"
  BY AvailableType
<1>3. /\ stage = "hand" => walk = NoWalk
      /\ walk = NoWalk \/ WalkSteps
      /\ stage = "walk" => Walking
      /\ (stage = "error" /\ failure = "rejected") \/ stage = "auth" => Rejection
      /\ LoginTypes
  BY DEF LoginInv
(* What does not touch the walk keeps what is said of it.                  *)
<1>4. ASSUME UNCHANGED <<device, holds, kbdOff, walk>>, auth'.partials = auth.partials, auth'.left = auth.left
      PROVE  /\ (walk = NoWalk)' <=> walk = NoWalk
             /\ WalkSteps' <=> WalkSteps
             /\ Walking' <=> Walking
             /\ Rejection' <=> Rejection
  <2>1. Available' = Available
    BY <1>4, SameMethods
  <2>2. Rounds' = Rounds /\ Wanted' = Wanted
    BY <1>4, <2>1 DEF Rounds, Wanted
  <2>3. WalkedTo(walk.next - 1)' <=> WalkedTo(walk.next - 1)
    BY <1>4, <2>1, <2>2 DEF WalkedTo
  <2>4. WalkedTo(Len(Available))' <=> WalkedTo(Len(Available))
    BY <1>4, <2>1, <2>2 DEF WalkedTo
  <2>5. WalkSteps' <=> WalkSteps
    BY <1>4, <2>1, <2>2 DEF WalkSteps
  <2>6. Walking' <=> Walking
    BY <1>4, <2>1, <2>2, <2>3 DEF Walking
  <2>7. Rejection' <=> Rejection
    BY <1>4, <2>1, <2>2, <2>4 DEF Rejection
  <2> QED BY <1>4, <2>5, <2>6, <2>7 DEF NoWalk
<1>5. ASSUME walk' = NoWalk, stage' = "hand", UNCHANGED <<device, auth>>, failure' \in Failures \union {"none"},
             budget' \in 0..FirstTries
      PROVE  LoginInv'
  <2>1. LoginTypes'
    BY <1>1, <1>5 DEF LoginTypes, NoWalk, WalkType
  <2> QED BY <1>5, <2>1 DEF LoginInv
<1>6. FirstTries \in Nat
  BY LoginAssumption
<1>7. CASE Dial
  BY <1>1, <1>5, <1>6, <1>7 DEF Dial
<1>8. ASSUME NEW e \in Failures \ {"rejected"}, Fails(e) PROVE LoginInv'
  <2>1. LoginTypes' /\ stage' = "error" /\ failure' # "rejected"
    BY <1>1, <1>8 DEF Fails, LoginTypes
  <2>2. walk' = NoWalk \/ WalkSteps'
    BY <1>3, <1>4, <1>8 DEF Fails
  <2> QED BY <2>1, <2>2 DEF LoginInv
<1>9. CASE HandshakeCut
  BY <1>8, <1>9 DEF HandshakeCut
<1>10. CASE TransportEnds
  BY <1>8, <1>10 DEF TransportEnds
<1>11. CASE HandshakeDone
  <2>1. Offers(auth, 1) /\ walk' = [NoWalk EXCEPT !.next = 1, !.offered = {Available[1]}]
    BY <1>11 DEF HandshakeDone
  <2>2. /\ stage' = "walk" /\ UNCHANGED <<device, holds, kbdOff, budget, failure>>
        /\ auth' = [auth EXCEPT !.attempts = IF @ < 2 THEN @ + 1 ELSE 2]
    BY <1>2, <2>1 DEF Offers
  <2> DEFINE t == IF auth.attempts < 2 THEN auth.attempts + 1 ELSE 2
  <2>3. t \in 0..2 /\ auth' = [auth EXCEPT !.attempts = t]
    BY <1>1, <2>2 DEF AuthType
  <2> HIDE DEF t
  <2>4. auth' \in AuthType
    BY <1>1, <2>3 DEF AuthType
  <2>5. walk' = [next |-> 1, steps |-> 0, offered |-> {Available[1]}, done |-> 0]
    BY <2>1 DEF NoWalk
  <2>6. Available' = Available
    BY <2>2, SameMethods
  <2>7. LoginTypes'
    BY <1>1, <1>2, <2>2, <2>4, <2>5 DEF LoginTypes, WalkType
  <2>8. Rounds' \in Nat /\ Rounds' * Len(Available) \in Nat
    BY <1>2, <2>4, <2>6 DEF Rounds, AuthType
  <2>9. WalkSteps'
    BY <1>2, <2>5, <2>6, <2>8 DEF WalkSteps
  <2>10. device.honest => 0 < Len(device.factors)
    BY <1>1, LoginAssumption, EmptySeq
  <2>11. WalkedTo(walk.next - 1)'
    BY <2>5, <2>6 DEF WalkedTo
  <2>12. Walking'
    BY <1>2, <2>2, <2>5, <2>6, <2>10, <2>11 DEF Walking
  <2> QED BY <2>2, <2>7, <2>9, <2>12 DEF LoginInv
<1>12. CASE ServerRefuses
  <2>1. stage = "walk" /\ Walking
    BY <1>3, <1>12 DEF ServerRefuses
  <2>2. walk.done \in Nat
    BY <1>1 DEF WalkType
  <2>3. CASE device.honest
    <3>1. Factor(Offered) # Wanted /\ Refused({Wanted}, FALSE, walk.done) /\ walk.done < Len(device.factors)
      BY <1>12, <2>1, <2>3 DEF ServerRefuses, Walking
    <3>2. Wanted = device.factors[walk.done + 1] /\ Wanted \in Names
      BY <1>1, <2>2, <2>3, <3>1, LoginAssumption DEF Wanted, Names
    <3> QED BY <2>1, <2>2, <2>3, <3>1, <3>2, RefusedKeeps
  <2>4. CASE ~device.honest
    <3>1. PICK left \in {{}, {"password"}} : \E partial \in BOOLEAN : Refused(left, partial, 0)
      BY <1>12, <2>4 DEF ServerRefuses
    <3>2. left = {} \/ left = {"password"}
      BY <3>1
    <3>3. left \in SUBSET Names
      BY <3>2 DEF Names, Methods, AuthMethodOrder, ToSet
    <3> QED BY <2>1, <2>4, <3>1, <3>3, RefusedKeeps
  <2> QED BY <2>3, <2>4
<1>13. CASE ServerTakesFactor
  <2>1. /\ stage = "walk" /\ device.honest /\ walk.done + 1 < Len(device.factors)
        /\ Refused({device.factors[walk.done + 2]}, TRUE, walk.done + 1)
    BY <1>13 DEF ServerTakesFactor, Accepts
  <2>2. walk.done \in Nat
    BY <1>1 DEF WalkType
  <2>3. device.factors[walk.done + 2] \in Names
    BY <1>1, <2>1, <2>2, LoginAssumption DEF Names
  <2> DEFINE done == walk.done + 1
             left == {device.factors[walk.done + 2]}
  <2>4. left = {device.factors[done + 1]} /\ done \in Nat /\ left \in SUBSET Names
    <3>1. done + 1 = walk.done + 2 /\ done \in Nat
      BY <2>2
    <3> QED BY <2>3, <3>1
  <2>5. Refused(left, TRUE, done) /\ done < Len(device.factors)
    BY <2>1
  <2> HIDE DEF done, left
  <2> QED BY <2>1, <2>4, <2>5, RefusedKeeps
<1>14. CASE LogsIn
  <2>1. stage' = "up" /\ UNCHANGED <<device, holds, auth, kbdOff, walk, budget, failure, dials>>
    BY <1>14 DEF LogsIn
  <2>2. LoginTypes'
    BY <1>1, <2>1 DEF LoginTypes
  <2>3. walk' = NoWalk \/ WalkSteps'
    BY <1>3, <1>4, <2>1
  <2> QED BY <2>1, <2>2, <2>3 DEF LoginInv
<1>15. CASE Prompts
  <2>1. /\ stage = "walk" /\ auth' = [auth EXCEPT !.kbdSeen = TRUE]
        /\ UNCHANGED <<device, holds, kbdOff, stage, walk, budget, failure, dials>>
    BY <1>15 DEF Prompts
  <2>2. auth' \in AuthType /\ auth'.partials = auth.partials /\ auth'.left = auth.left
    BY <1>1, <2>1 DEF AuthType
  <2>3. LoginTypes'
    BY <1>1, <2>1, <2>2 DEF LoginTypes
  <2>4. (walk' = NoWalk \/ WalkSteps') /\ Walking'
    BY <1>3, <1>4, <2>1, <2>2
  <2> QED BY <2>1, <2>3, <2>4 DEF LoginInv
<1>16. CASE KbdFallback
  <2>1. budget' \in 0..FirstTries
    BY <1>1, <1>6, <1>16 DEF KbdFallback
  <2> QED BY <1>1, <1>5, <1>16, <2>1 DEF KbdFallback
<1>17. CASE Retry
  <2>1. budget' \in 0..FirstTries
    BY <1>1, <1>6, <1>17 DEF Retry
  <2> QED BY <1>1, <1>5, <1>17, <2>1 DEF Retry
<1>18. CASE GiveUp
  <2>1. stage = "error" /\ stage' = Stage(failure) /\ UNCHANGED <<device, holds, auth, kbdOff, walk, budget, failure, dials>>
    BY <1>18 DEF GiveUp
  <2>2. stage' \in {"auth", "transport", "protocol", "credential", "unknown"} /\ (stage' = "auth" => failure = "rejected")
    BY <1>1, <2>1 DEF Stage
  <2>3. LoginTypes'
    BY <1>1, <2>1, <2>2 DEF LoginTypes
  <2>4. (walk' = NoWalk \/ WalkSteps') /\ (stage' = "auth" => Rejection')
    BY <1>3, <1>4, <2>1, <2>2
  <2> QED BY <2>1, <2>2, <2>3, <2>4 DEF LoginInv
<1>19. CASE GoesDown
  <2>1. stage' = "down" /\ UNCHANGED <<device, holds, auth, kbdOff, walk, budget, failure, dials>>
    BY <1>19 DEF GoesDown
  <2>2. LoginTypes'
    BY <1>1, <2>1 DEF LoginTypes
  <2>3. walk' = NoWalk \/ WalkSteps'
    BY <1>3, <1>4, <2>1
  <2> QED BY <2>1, <2>2, <2>3 DEF LoginInv
<1>20. CASE UNCHANGED loginVars
  <2>1. UNCHANGED <<device, holds, auth, kbdOff, walk, stage, budget, failure, dials>>
    BY <1>20 DEF loginVars
  <2>2. LoginTypes'
    BY <1>1, <2>1 DEF LoginTypes
  <2>3. /\ stage' = "hand" => walk' = NoWalk
        /\ walk' = NoWalk \/ WalkSteps'
        /\ stage' = "walk" => Walking'
        /\ (stage' = "error" /\ failure' = "rejected") \/ stage' = "auth" => Rejection'
    BY <1>3, <1>4, <2>1
  <2> QED BY <2>2, <2>3 DEF LoginInv
<1> QED BY <1>7, <1>9, <1>10, <1>11, <1>12, <1>13, <1>14, <1>15, <1>16, <1>17, <1>18, <1>19, <1>20 DEF LoginNext

LEMMA LoginSoundFollows == LoginInv => LoginSound
<1> SUFFICES ASSUME LoginInv PROVE LoginSound
  OBVIOUS
<1>1. /\ device \in Devices /\ auth \in AuthType /\ walk \in WalkType
      /\ walk = NoWalk \/ WalkSteps
      /\ stage = "auth" => Rejection
  BY DEF LoginInv, LoginTypes
<1>2. Available \in Seq(Methods) /\ Len(Available) \in 1..5 /\ Available[1] = "none" /\ DOMAIN Available = 1..Len(Available)
  BY AvailableType
<1> DEFINE n == Len(Available)
<1>3. n = Len(Available) /\ n \in 1..5
  BY <1>2
<1> HIDE DEF n
<1>4. walk.steps <= n * (n + 1)
  <2>1. walk.next \in Nat /\ walk.steps \in Nat /\ auth.partials \in Nat
    BY <1>1 DEF WalkType, AuthType
  <2>2. n * (n + 1) \in Nat /\ n * (n + 1) = n * n + n
    BY <1>3
  <2>3. CASE walk = NoWalk
    BY <2>2, <2>3 DEF NoWalk
  <2>4. CASE WalkSteps
    <3> DEFINE r == IF auth.partials < n THEN auth.partials ELSE n
    <3>1. walk.next <= n + 1 /\ walk.steps <= r * n + walk.next - 1
      BY <1>3, <2>1, <2>4 DEF WalkSteps, Rounds
    <3>2. r \in Nat /\ r <= n
      BY <1>3, <2>1
    <3> HIDE DEF r
    <3>3. r * n \in Nat /\ n * n \in Nat /\ r * n <= n * n
      BY <1>3, <3>2
    <3> DEFINE x == r * n
               y == n * n
    <3>4. x \in Nat /\ y \in Nat /\ x <= y /\ walk.steps <= x + walk.next - 1
      BY <3>1, <3>3
    <3> HIDE DEF x, y
    <3>5. walk.steps <= y + n
      BY <1>3, <2>1, <3>1, <3>4
    <3> QED BY <2>2, <3>5 DEF y
  <2> QED BY <1>1, <2>3, <2>4
<1>5. ASSUME stage = "auth" PROVE ToSet(Available) \subseteq walk.offered
  BY <1>1, <1>2, <1>5 DEF Rejection, WalkedTo, ToSet
<1>6. ASSUME stage = "auth", device.honest, HasFactors PROVE auth.partials > n
  <2>1. Rejection /\ walk.done \in Nat /\ walk.done < Len(device.factors)
    BY <1>1, <1>6 DEF Rejection, WalkType
  <2>2. device.factors \in Seq(STRING \ {"none"})
    BY <1>1, <1>6, LoginAssumption
  <2>3. walk.done + 1 \in DOMAIN device.factors /\ Wanted \in STRING \ {"none"}
    BY <2>1, <2>2 DEF Wanted
  <2>4. Wanted \in {Factor(m) : m \in ToSet(Available)}
    BY <1>6, <2>3 DEF HasFactors, ToSet, Wanted
  <2>5. PICK i \in 1..n : Wanted = Factor(Available[i])
    BY <1>2, <1>3, <2>4 DEF ToSet
  <2>6. i # 1
    BY <1>2, <2>3, <2>5 DEF Factor
  <2>7. i \in 2..n
    BY <1>3, <2>5, <2>6
  <2>8. ~(auth.partials <= n)
    BY <1>3, <1>6, <2>1, <2>5, <2>7 DEF Rejection, WalkedTo
  <2> QED BY <1>1, <1>3, <2>8 DEF AuthType
<1>7. ASSUME stage = "auth", device.honest PROVE Hint = {Wanted}
  BY <1>1, <1>7 DEF Hint, Rejection
<1> QED BY <1>3, <1>4, <1>5, <1>6, <1>7 DEF LoginSound

(* For any devices and credentials: a rejection comes after every method   *)
(* was offered on this transport; an honest server that rejects a record   *)
(* which holds all of its factors does so only once the restarts are used  *)
(* up over the life of the record, and what the diagnosis says the server  *)
(* still accepts is what it wants; no server keeps the walk going.         *)
THEOREM LoginsAreSound == LoginSpec => []LoginSound
<1>1. LoginInit => LoginInv
  BY LoginBegins
<1>2. LoginInv /\ [LoginNext]_loginVars => LoginInv'
  BY LoginStep
<1>3. LoginInv => LoginSound
  BY LoginSoundFollows
<1> QED BY <1>1, <1>2, <1>3, PTL DEF LoginSpec

-----------------------------------------------------------------------------
(* The repaired banner.                                                    *)
Token == ({"text"} \X (STRING \union {"nl", "kex1", "kex2"})) \union ({"ident"} \X Lines)

(* The identification stands at one place, and its line is ended.          *)
IdentIs(at) ==
  /\ at \in 1..Len(peer) /\ at < Len(peer) /\ peer[at][1] = "ident" /\ peer[at][2] \in Lines
  /\ \A i \in 1..Len(peer) : i # at => peer[i][1] # "ident"

(* What has left the socket, and what is still in it.                      *)
Taken == sent - Len(inbox)
InboxIsNext ==
  /\ sent \in 0..Len(peer) /\ inbox \in Seq(Token) /\ Len(inbox) <= sent
  /\ \A i \in 1..Len(inbox) : inbox[i] = peer[Taken + i]
HeadIsTaken ==
  /\ head \in Seq(Token) /\ Len(head) = Taken
  /\ \A i \in 1..Len(head) : head[i] = peer[i]
PipeIsTaken ==
  /\ toSsh2 \in Seq(Token \union {Ident(Rebuilt(l)) : l \in Lines}) /\ Len(toSsh2) = Taken
  /\ \E at \in 1..Len(toSsh2) :
       /\ IdentIs(at) /\ \A i \in 1..Len(toSsh2) : i # at => toSsh2[i] = peer[i]
       /\ toSsh2[at] = Ident(PlanBannerRepair(peer[at][2]).next)
       /\ PlanBannerRepair(peer[at][2]).action # "reject"

BannerInv ==
  /\ peer \in Seq(Token) /\ \E at \in 1..Len(peer) : IdentIs(at)
  /\ InboxIsNext
  /\ reader = "connecting" => inbox = <<>> /\ ~flowing
  /\ reader \in {"connecting", "reading", "settled"} => HeadIsTaken
  /\ reader = "settled" => ~flowing /\ IdentAt(head) # {}
  /\ reader = "piped" => PipeIsTaken

LEMMA BannerBegins == BannerInit => BannerInv
<1> SUFFICES ASSUME BannerInit PROVE BannerInv
  OBVIOUS
<1>1. PICK g \in Greetings, l \in Lines : peer = g \o <<Ident(l), Text("nl"), Text("kex1"), Text("kex2")>>
  BY DEF BannerInit
<1> DEFINE t == <<Ident(l), Text("nl"), Text("kex1"), Text("kex2")>>
           T == STRING \union {"nl", "kex1", "kex2"}
<1>2. /\ sent = 0 /\ inbox = <<>> /\ flowing = FALSE /\ reader = "connecting" /\ head = <<>>
  BY DEF BannerInit
<1>3. g \in Seq({"text"} \X STRING)
  BY BannerAssumption
<1>4. g \in Seq(Token)
  <2>1. ({"text"} \X STRING) \subseteq Token
    BY DEF Token
  <2> QED BY <1>3, <2>1, SeqMonotonic
<1>5. t \in Seq(Token) /\ Len(t) = 4 /\ t[1] = Ident(l) /\ t[2] = Text("nl") /\ t[3] = Text("kex1") /\ t[4] = Text("kex2")
  <2>1. Ident(l) \in Token /\ Text("nl") \in Token /\ Text("kex1") \in Token /\ Text("kex2") \in Token
    BY DEF Token, Ident, Text
  <2> QED BY <2>1
<1> HIDE DEF t
<1>6. /\ peer \in Seq(Token) /\ Len(peer) = Len(g) + 4
      /\ \A i \in 1..Len(peer) : peer[i] = IF i <= Len(g) THEN g[i] ELSE t[i - Len(g)]
  BY <1>1, <1>4, <1>5, ConcatProperties DEF t
<1> DEFINE at == Len(g) + 1
<1>7. IdentIs(at) /\ at \in 1..Len(peer)
  <2>1. Len(g) \in Nat
    BY <1>4
  <2>2. at \in 1..Len(peer) /\ at < Len(peer) /\ peer[at] = Ident(l)
    BY <1>5, <1>6, <2>1
  <2>3. ASSUME NEW i \in 1..Len(peer), i # at PROVE peer[i][1] # "ident"
    <3>1. CASE i <= Len(g)
      <4>1. peer[i] = g[i] /\ g[i] \in {"text"} \X STRING
        BY <1>3, <1>6, <2>1, <3>1
      <4> QED BY <4>1
    <3>2. CASE i > Len(g)
      <4>1. i - Len(g) \in 2..4 /\ peer[i] = t[i - Len(g)]
        BY <1>6, <2>1, <2>3, <3>2
      <4>2. peer[i] \in {Text("nl"), Text("kex1"), Text("kex2")}
        BY <1>5, <4>1
      <4> QED BY <4>2 DEF Text
    <3> QED BY <2>1, <3>1, <3>2
  <2> QED BY <2>2, <2>3 DEF IdentIs, Ident
<1>8. InboxIsNext /\ HeadIsTaken
  <2>1. <<>> \in Seq(Token) /\ Len(inbox) = 0 /\ Len(head) = 0 /\ Len(peer) \in Nat
    BY <1>2, <1>6, EmptySeq
  <2>2. InboxIsNext
    BY <1>2, <2>1 DEF InboxIsNext, Taken
  <2>3. Taken = 0
    <3>1. sent = 0 /\ Len(inbox) = 0
      BY <1>2, <2>1
    <3> QED BY <3>1 DEF Taken
  <2>4. HeadIsTaken
    BY <1>2, <2>1, <2>3 DEF HeadIsTaken
  <2> QED BY <2>2, <2>4
<1> QED BY <1>2, <1>6, <1>7, <1>8 DEF BannerInv

LEMMA BannerStep == BannerInv /\ [BannerNext]_bannerVars => BannerInv'
<1> SUFFICES ASSUME BannerInv, [BannerNext]_bannerVars PROVE BannerInv'
  OBVIOUS
<1>1. /\ peer \in Seq(Token) /\ \E at \in 1..Len(peer) : IdentIs(at)
      /\ InboxIsNext
      /\ reader = "connecting" => inbox = <<>> /\ ~flowing
      /\ reader \in {"connecting", "reading", "settled"} => HeadIsTaken
      /\ reader = "settled" => ~flowing /\ IdentAt(head) # {}
      /\ reader = "piped" => PipeIsTaken
  BY DEF BannerInv
<1>2. /\ sent \in 0..Len(peer) /\ inbox \in Seq(Token) /\ Len(inbox) <= sent
      /\ \A i \in 1..Len(inbox) : inbox[i] = peer[Taken + i]
      /\ Len(peer) \in Nat /\ Len(inbox) \in Nat /\ Taken \in Nat
  BY <1>1 DEF InboxIsNext, Taken
(* What leaves the peer and what was taken alone keeps the invariant's     *)
(* parts about them.                                                       *)
<1>3. ASSUME UNCHANGED peer PROVE /\ peer' \in Seq(Token) /\ \E at \in 1..Len(peer') : IdentIs(at)'
  <2>1. PICK at \in 1..Len(peer) : IdentIs(at)
    BY <1>1
  <2>2. IdentIs(at)'
    BY <1>3, <2>1 DEF IdentIs
  <2> QED BY <1>1, <1>3, <2>1, <2>2
<1>4. ASSUME UNCHANGED <<peer, sent, inbox>> PROVE InboxIsNext' /\ Taken' = Taken
  BY <1>1, <1>4 DEF InboxIsNext, Taken
<1>5. ASSUME UNCHANGED <<peer, head>>, Taken' = Taken, HeadIsTaken PROVE HeadIsTaken'
  BY <1>5 DEF HeadIsTaken
<1>6. ASSUME UNCHANGED <<peer, toSsh2>>, Taken' = Taken, PipeIsTaken PROVE PipeIsTaken'
  BY <1>6 DEF PipeIsTaken, IdentIs
<1>7. CASE Connects
  BY <1>1, <1>3, <1>4, <1>5, <1>7 DEF Connects, BannerInv
<1>8. CASE ConnectFails
  BY <1>1, <1>3, <1>4, <1>8 DEF ConnectFails, BannerInv
<1>9. CASE PeerEnds
  BY <1>1, <1>3, <1>4, <1>5, <1>6, <1>9 DEF PeerEnds, BannerInv, IdentAt
<1>10. CASE ReadFails
  BY <1>1, <1>3, <1>4, <1>10 DEF ReadFails, BannerInv
<1>11. CASE Ssh2Reads
  BY <1>1, <1>3, <1>4, <1>6, <1>11 DEF Ssh2Reads, BannerInv
<1>12. CASE Ssh2Destroys
  BY <1>1, <1>3, <1>4, <1>6, <1>12 DEF Ssh2Destroys, BannerInv
<1>13. CASE PeerSends
  <2>1. /\ reader # "connecting" /\ sent < Len(peer) /\ sent' = sent + 1 /\ inbox' = Append(inbox, peer[sent + 1])
        /\ UNCHANGED <<peer, flowing, sock, reader, head, toSsh2>>
    BY <1>13 DEF PeerSends
  <2>2. peer[sent + 1] \in Token
    BY <1>1, <1>2, <2>1
  <2>3. /\ inbox' \in Seq(Token) /\ Len(inbox') = Len(inbox) + 1 /\ inbox'[Len(inbox) + 1] = peer[sent + 1]
        /\ \A i \in 1..Len(inbox) : inbox'[i] = inbox[i]
    BY <1>2, <2>1, <2>2, AppendProperties
  <2>4. Taken' = Taken /\ Taken + (Len(inbox) + 1) = sent + 1
    BY <1>2, <2>1, <2>3 DEF Taken
  <2>5. \A i \in 1..Len(inbox') : inbox'[i] = peer'[Taken' + i]
    BY <1>2, <2>1, <2>3, <2>4
  <2>6. InboxIsNext'
    BY <1>2, <2>1, <2>3, <2>5 DEF InboxIsNext
  <2>7. IdentAt(head)' = IdentAt(head)
    BY <2>1 DEF IdentAt
  <2> QED BY <1>1, <1>3, <1>5, <1>6, <2>1, <2>4, <2>6, <2>7 DEF BannerInv
<1>14. CASE Emits
  <2>1. /\ flowing /\ inbox # <<>> /\ inbox' = <<>> /\ UNCHANGED <<peer, sent, sock>>
        /\ head' = IF reader = "reading" THEN head \o inbox ELSE head
        /\ toSsh2' = IF reader = "piped" THEN toSsh2 \o inbox ELSE toSsh2
        /\ reader # "connecting" /\ reader # "settled"
    BY <1>1, <1>14 DEF Emits
  <2>2. /\ reader' \in {"reading", "settled", "failed", reader}
        /\ reader' \in {"reading", "settled"} => reader = "reading"
        /\ reader # "reading" => reader' = reader
        /\ reader' = "settled" => IdentAt(head') # {}
    BY <1>14, <2>1 DEF Emits
  <2>3. reader' = "settled" => flowing' = FALSE
    BY <1>14, <2>1, <2>2 DEF Emits, FlowsAfterBanner
  <2>4. <<>> \in Seq(Token) /\ Len(inbox') = 0 /\ Taken' = sent /\ Taken + Len(inbox) = sent
    BY <1>2, <2>1, EmptySeq DEF Taken
  <2>5. InboxIsNext'
    BY <1>2, <2>1, <2>4 DEF InboxIsNext
  <2>6. CASE reader = "reading"
    <3>1. head \in Seq(Token) /\ Len(head) = Taken /\ \A i \in 1..Len(head) : head[i] = peer[i]
      BY <1>1, <2>6 DEF HeadIsTaken
    <3>2. /\ head' \in Seq(Token) /\ Len(head') = Taken + Len(inbox)
          /\ \A i \in 1..Len(head') : head'[i] = IF i <= Taken THEN head[i] ELSE inbox[i - Taken]
      <4>1. head' = head \o inbox
        BY <2>1, <2>6
      <4>2. head' \in Seq(Token) /\ Len(head') = Len(head) + Len(inbox)
            /\ \A i \in 1..(Len(head) + Len(inbox)) : head'[i] = IF i <= Len(head) THEN head[i] ELSE inbox[i - Len(head)]
        BY <1>2, <3>1, <4>1, ConcatProperties
      <4> QED BY <3>1, <4>2
    <3>3. ASSUME NEW i \in 1..Len(head') PROVE head'[i] = peer[i]
      <4>1. CASE i <= Taken
        BY <3>1, <3>2, <4>1
      <4>2. CASE i > Taken
        <5>1. i - Taken \in 1..Len(inbox) /\ Taken + (i - Taken) = i /\ head'[i] = inbox[i - Taken]
          BY <1>2, <3>2, <4>2
        <5> QED BY <1>2, <5>1
      <4> QED BY <1>2, <4>1, <4>2
    <3>4. HeadIsTaken'
      BY <2>1, <2>4, <3>2, <3>3 DEF HeadIsTaken
    <3>5. reader' = "settled" => IdentAt(head)' # {}
      BY <2>2 DEF IdentAt
    <3> QED BY <1>3, <2>1, <2>2, <2>3, <2>5, <2>6, <3>4, <3>5 DEF BannerInv
  <2>7. CASE reader = "piped"
    <3>1. PipeIsTaken
      BY <1>1, <2>7
    <3> DEFINE T == Token \union {Ident(Rebuilt(l)) : l \in Lines}
    <3>2. PICK at \in 1..Len(toSsh2) :
            /\ IdentIs(at) /\ \A i \in 1..Len(toSsh2) : i # at => toSsh2[i] = peer[i]
            /\ toSsh2[at] = Ident(PlanBannerRepair(peer[at][2]).next)
            /\ PlanBannerRepair(peer[at][2]).action # "reject"
      BY <3>1 DEF PipeIsTaken
    <3>3. toSsh2 \in Seq(T) /\ Len(toSsh2) = Taken
      BY <3>1 DEF PipeIsTaken
    <3>4. inbox \in Seq(T)
      BY <1>2, SeqMonotonic
    <3> HIDE DEF T
    <3>5. /\ toSsh2' \in Seq(T) /\ Len(toSsh2') = Taken + Len(inbox)
          /\ \A i \in 1..Len(toSsh2') : toSsh2'[i] = IF i <= Taken THEN toSsh2[i] ELSE inbox[i - Taken]
      <4>1. toSsh2' = toSsh2 \o inbox
        BY <2>1, <2>7
      <4>2. toSsh2' \in Seq(T) /\ Len(toSsh2') = Len(toSsh2) + Len(inbox)
            /\ \A i \in 1..(Len(toSsh2) + Len(inbox)) :
                 toSsh2'[i] = IF i <= Len(toSsh2) THEN toSsh2[i] ELSE inbox[i - Len(toSsh2)]
        BY <3>3, <3>4, <4>1, ConcatProperties
      <4> QED BY <3>3, <4>2
    <3>6. at \in 1..Taken /\ at \in 1..Len(toSsh2') /\ toSsh2'[at] = toSsh2[at]
      BY <1>2, <3>3, <3>5
    <3>7. ASSUME NEW i \in 1..Len(toSsh2'), i # at PROVE toSsh2'[i] = peer[i]
      <4>1. CASE i <= Taken
        BY <3>2, <3>3, <3>5, <3>7, <4>1
      <4>2. CASE i > Taken
        <5>1. i - Taken \in 1..Len(inbox) /\ Taken + (i - Taken) = i /\ toSsh2'[i] = inbox[i - Taken]
          <6>1. Len(toSsh2') = Taken + Len(inbox) /\ i \in 1..Len(toSsh2') /\ i > Taken
            BY <3>5, <3>7, <4>2
          <6>2. i - Taken \in 1..Len(inbox) /\ Taken + (i - Taken) = i
            BY <1>2, <6>1
          <6> QED BY <1>2, <3>5, <6>1, <6>2
        <5> QED BY <1>2, <5>1
      <4> QED BY <1>2, <4>1, <4>2
    <3>8. IdentIs(at)'
      BY <2>1, <3>2 DEF IdentIs
    <3>9. PipeIsTaken'
      BY <2>1, <2>4, <3>2, <3>5, <3>6, <3>7, <3>8 DEF PipeIsTaken, T
    <3> QED BY <1>3, <2>1, <2>2, <2>5, <2>7, <3>9 DEF BannerInv
  <2>8. CASE reader \notin {"reading", "piped"}
    <3>1. reader' \notin {"connecting", "reading", "settled", "piped"}
      BY <2>1, <2>2, <2>8
    <3> QED BY <1>3, <2>1, <2>5, <3>1 DEF BannerInv
  <2> QED BY <2>6, <2>7, <2>8
<1>15. CASE Attach
  <2> DEFINE i == CHOOSE i \in IdentAt(head) : TRUE
             plan == PlanBannerRepair(head[i][2])
  <2>1. reader = "settled" /\ UNCHANGED <<peer, sent, inbox, head>>
    BY <1>15 DEF Attach
  <2>2. HeadIsTaken /\ IdentAt(head) # {}
    BY <1>1, <2>1
  <2>3. i \in IdentAt(head)
    BY <2>2
  <2>4. \/ plan.action = "reject" /\ reader' = "failed"
        \/ plan.action # "reject" /\ reader' = "piped" /\ toSsh2' = [head EXCEPT ![i] = Ident(plan.next)]
    BY <1>15 DEF Attach
  <2> HIDE DEF i
  <2>5. head \in Seq(Token) /\ Len(head) = Taken /\ \A j \in 1..Len(head) : head[j] = peer[j]
    BY <2>2 DEF HeadIsTaken
  <2>6. i \in 1..Len(head) /\ head[i] = peer[i] /\ peer[i][1] = "ident"
    BY <2>3, <2>5 DEF IdentAt
  <2>7. InboxIsNext' /\ Taken' = Taken
    BY <1>4, <2>1
  <2>8. CASE plan.action = "reject"
    <3>1. reader' = "failed"
      BY <2>4, <2>8
    <3> QED BY <1>3, <2>1, <2>7, <3>1 DEF BannerInv
  <2>9. CASE plan.action # "reject"
    <3> DEFINE T == Token \union {Ident(Rebuilt(l)) : l \in Lines}
    <3>1. PICK at \in 1..Len(peer) : IdentIs(at)
      BY <1>1
    <3>2. i = at
      BY <1>2, <2>5, <2>6, <3>1 DEF IdentIs, Taken
    <3>3. IdentIs(at) /\ peer[at][2] \in Lines
      BY <3>1 DEF IdentIs
    <3>4. plan = PlanBannerRepair(peer[at][2]) /\ at \in 1..Len(head)
      BY <2>6, <3>2
    <3>5. Ident(plan.next) \in T
      BY <2>9, <3>3, <3>4 DEF PlanBannerRepair
    <3>6. head \in Seq(T)
      BY <2>5, SeqMonotonic
    <3> HIDE DEF T, plan
    <3>7. /\ toSsh2' \in Seq(T) /\ Len(toSsh2') = Len(head)
          /\ \A j \in 1..Len(head) : toSsh2'[j] = IF j = at THEN Ident(plan.next) ELSE head[j]
      BY <2>4, <2>9, <3>2, <3>4, <3>5, <3>6, ExceptSeq
    <3>8. IdentIs(at)'
      BY <2>1, <3>3 DEF IdentIs
    <3>9. PipeIsTaken'
      BY <2>1, <2>5, <2>7, <2>9, <3>4, <3>7, <3>8 DEF PipeIsTaken, T
    <3>10. reader' = "piped"
      BY <2>4, <2>9
    <3> QED BY <1>3, <2>1, <2>7, <3>9, <3>10 DEF BannerInv
  <2> QED BY <2>8, <2>9
<1>16. CASE UNCHANGED bannerVars
  <2>1. UNCHANGED <<peer, sent, inbox, flowing, sock, reader, head, toSsh2>>
    BY <1>16 DEF bannerVars
  <2>2. IdentAt(head)' = IdentAt(head)
    BY <2>1 DEF IdentAt
  <2> QED BY <1>1, <1>3, <1>4, <1>5, <1>6, <2>1, <2>2 DEF BannerInv
<1> QED BY <1>7, <1>8, <1>9, <1>10, <1>11, <1>12, <1>13, <1>14, <1>15, <1>16 DEF BannerNext

LEMMA BannerExactFollows == BannerInv => BannerExact
<1> SUFFICES ASSUME BannerInv, reader = "piped"
             PROVE  LET at == CHOOSE i \in DOMAIN peer : peer[i][1] = "ident"
                        was == peer[at][2] IN
                    /\ Len(toSsh2) = sent - Len(inbox)
                    /\ \A i \in DOMAIN toSsh2 : i # at => toSsh2[i] = peer[i]
                    /\ LET is == toSsh2[at][2] IN
                       /\ Ssh2Accepts(is) /\ ~is.junk /\ was.version \in {"1.99", "2.0", "2.1"}
                       /\ <<is.software, is.comments>> = <<was.software, was.comments>>
                       /\ Ssh2Accepts(was) /\ ~was.junk => is = was
  BY DEF BannerExact
<1>1. peer \in Seq(Token) /\ PipeIsTaken
  BY DEF BannerInv
<1>2. PICK i \in 1..Len(toSsh2) :
        /\ IdentIs(i) /\ \A j \in 1..Len(toSsh2) : j # i => toSsh2[j] = peer[j]
        /\ toSsh2[i] = Ident(PlanBannerRepair(peer[i][2]).next)
        /\ PlanBannerRepair(peer[i][2]).action # "reject"
  BY <1>1 DEF PipeIsTaken
<1> DEFINE at == CHOOSE j \in DOMAIN peer : peer[j][1] = "ident"
           was == peer[at][2]
           is == toSsh2[at][2]
<1>3. at = i
  <2>1. DOMAIN peer = 1..Len(peer)
    BY <1>1
  <2> QED BY <1>2, <2>1 DEF IdentIs
<1> HIDE DEF at
<1>4. Len(toSsh2) = sent - Len(inbox) /\ DOMAIN toSsh2 = 1..Len(toSsh2)
  BY <1>1 DEF PipeIsTaken, Taken
<1>5. was \in LineType
  BY <1>2, <1>3, BannerAssumption DEF IdentIs
<1> HIDE DEF was
<1>6. is = PlanBannerRepair(was).next /\ PlanBannerRepair(was).action # "reject"
  BY <1>2, <1>3 DEF Ident, was
<1> HIDE DEF is
<1>7. is = Rebuilt(was) /\ was.version \in {"1.99", "2.0", "2.1"} /\ was.software # ""
  BY <1>6 DEF PlanBannerRepair
<1>8. was = [version |-> was.version, stray |-> was.stray, junk |-> was.junk, software |-> was.software, comments |-> was.comments]
      /\ was.stray \in BOOLEAN /\ was.junk \in BOOLEAN
  BY <1>5 DEF LineType
<1> DEFINE v == IF was.version = "1.99" THEN was.version ELSE "2.0"
<1>9. is = [version |-> v, stray |-> FALSE, junk |-> FALSE, software |-> was.software, comments |-> was.comments]
  BY <1>5, <1>7 DEF Rebuilt, LineType
<1>10. v \in {"1.99", "2.0"} /\ (was.version \in {"2.0", "1.99"} => v = was.version)
  OBVIOUS
<1> HIDE DEF v
<1>11. Ssh2Accepts(is) /\ ~is.junk /\ <<is.software, is.comments>> = <<was.software, was.comments>>
  <2>1. is.version = v /\ is.stray = FALSE /\ is.junk = FALSE /\ is.software = was.software /\ is.comments = was.comments
    BY <1>9
  <2>2. Ssh2Accepts(is)
    BY <1>7, <1>10, <2>1 DEF Ssh2Accepts
  <2> QED BY <2>1, <2>2
<1>12. Ssh2Accepts(was) /\ ~was.junk => is = was
  <2>1. ASSUME Ssh2Accepts(was), ~was.junk PROVE is = was
    <3>1. v = was.version /\ was.stray = FALSE /\ was.junk = FALSE
      BY <1>8, <1>10, <2>1 DEF Ssh2Accepts
    <3> QED BY <1>8, <1>9, <3>1
  <2> QED BY <2>1
<1>13. \A j \in DOMAIN toSsh2 : j # at => toSsh2[j] = peer[j]
  BY <1>2, <1>3, <1>4
<1> QED BY <1>4, <1>7, <1>11, <1>12, <1>13 DEF at, was, is

(* However the peer cuts what it sends, and for any lines and greetings:   *)
(* ssh2 is given what has left the socket, in order and complete, with     *)
(* only the identification replaced, by a line it accepts of the same      *)
(* software and comments, and only for a peer that speaks SSH-2.           *)
THEOREM BannersAreExact == BannerSpec => []BannerExact
<1>1. BannerInit => BannerInv
  BY BannerBegins
<1>2. BannerInv /\ [BannerNext]_bannerVars => BannerInv'
  BY BannerStep
<1>3. BannerInv => BannerExact
  BY BannerExactFollows
<1> QED BY <1>1, <1>2, <1>3, PTL DEF BannerSpec

-----------------------------------------------------------------------------
(* The SOCKS front.                                                        *)
SocksTokens == STRING \union {"rest", opening.greeting, opening.request}
SocksReplies == {"method", "no-method", "command", "address", "succeeded", "failure"}

(* What the client asks for is what the front serves; what it is told      *)
(* otherwise.                                                              *)
Asked == opening.greeting = "no-auth" /\ opening.request = "connect"
SocksTold ==
  IF opening.greeting # "no-auth" THEN "no-method"
  ELSE IF opening.request # "connect" THEN RequestReply(opening.request) ELSE "failure"

(* b is what arrived behind position k, up to g.                           *)
Arrived(b, k, g) ==
  /\ b \in Seq(SocksTokens) /\ k <= g /\ Len(b) = g - k
  /\ \A i \in 1..Len(b) : b[i] = FromClient[k + i]

ParserAt(s, g) ==
  /\ \E st \in {"greeting", "request", "open", "piped", "refused"}, b \in Seq(SocksTokens), r \in Seq(SocksReplies) :
       s = [state |-> st, buffer |-> b, replies |-> r]
  /\ s.state = "greeting" => Arrived(s.buffer, 0, g)
  /\ s.state = "request" => Arrived(s.buffer, 2, g) /\ opening.greeting = "no-auth"
  /\ s.state = "open" => Arrived(s.buffer, 4, g) /\ Asked
  /\ s.state = "refused" => s.replies # <<>> /\ s.replies[Len(s.replies)] = SocksTold

SocksInv ==
  /\ given \in 0..Len(FromClient) /\ ParserAt(served, given)
  /\ accepted \in {"here", "gone", "early"} /\ channel \in {"none", "opening", "open", "closed"}
  /\ channel = "opening" <=> served.state = "open"
  /\ channel = "opening" => accepted # "gone"
  /\ channel = "open" => served.state = "piped" /\ accepted # "gone"
  /\ channel = "closed" => accepted = "gone"
  /\ served.state = "piped" => Arrived(upstream, 4, given)
  /\ served.state = "refused" => accepted # "here"

LEMMA FromClientIs ==
  /\ FromClient \in Seq(SocksTokens) /\ Len(FromClient) = 4 + Len(Payload) /\ Len(Payload) \in Nat
  /\ FromClient[1] = opening.greeting /\ FromClient[3] = opening.request
  /\ \A i \in 1..Len(Payload) : FromClient[4 + i] = Payload[i]
<1> DEFINE a == Frame(opening.greeting)
           b == Frame(opening.request)
<1>1. a \in Seq(SocksTokens) /\ Len(a) = 2 /\ a[1] = opening.greeting
  BY DEF Frame, SocksTokens
<1>2. b \in Seq(SocksTokens) /\ Len(b) = 2 /\ b[1] = opening.request
  BY DEF Frame, SocksTokens
<1>3. Payload \in Seq(SocksTokens) /\ Len(Payload) \in Nat
  BY SocksAssumption, SeqMonotonic DEF SocksTokens
<1> DEFINE ab == a \o b
<1> HIDE DEF a, b
<1>4. ab \in Seq(SocksTokens) /\ Len(ab) = 4 /\ ab[1] = opening.greeting /\ ab[3] = opening.request
  <2>1. ab \in Seq(SocksTokens) /\ Len(ab) = Len(a) + Len(b)
        /\ \A i \in 1..(Len(a) + Len(b)) : ab[i] = IF i <= Len(a) THEN a[i] ELSE b[i - Len(a)]
    BY <1>1, <1>2, ConcatProperties
  <2> QED BY <1>1, <1>2, <2>1
<1>5. FromClient = ab \o Payload
  BY DEF FromClient, a, b
<1> HIDE DEF ab
<1>6. FromClient \in Seq(SocksTokens) /\ Len(FromClient) = Len(ab) + Len(Payload)
      /\ \A i \in 1..(Len(ab) + Len(Payload)) : FromClient[i] = IF i <= Len(ab) THEN ab[i] ELSE Payload[i - Len(ab)]
  BY <1>3, <1>4, <1>5, ConcatProperties
<1>7. \A i \in 1..(4 + Len(Payload)) : FromClient[i] = IF i <= 4 THEN ab[i] ELSE Payload[i - 4]
  BY <1>4, <1>6
<1>8. ASSUME NEW i \in 1..Len(Payload) PROVE FromClient[4 + i] = Payload[i]
  <2>1. 4 + i \in 1..(4 + Len(Payload)) /\ ~(4 + i <= 4) /\ (4 + i) - 4 = i
    BY <1>3
  <2> QED BY <1>7, <2>1
<1> QED BY <1>3, <1>4, <1>6, <1>7, <1>8

(* A chunk extends what arrived.                                           *)
LEMMA ChunkExtends ==
  ASSUME NEW b, NEW k \in Nat, given \in Nat, NEW n \in Nat \ {0}, given + n <= Len(FromClient), Arrived(b, k, given)
  PROVE  Arrived(b \o SubSeq(FromClient, given + 1, given + n), k, given + n)
<1> DEFINE c == SubSeq(FromClient, given + 1, given + n)
<1>1. FromClient \in Seq(SocksTokens) /\ Len(FromClient) \in Nat
  BY FromClientIs
<1>2. given + 1 \in 1..Len(FromClient) /\ given + n \in 1..Len(FromClient) /\ (given + n) - (given + 1) + 1 = n
      /\ given + n >= given + 1
  BY <1>1
<1>3. /\ c \in Seq(SocksTokens) /\ Len(c) = n
      /\ \A i \in 1..n : c[i] = FromClient[given + i]
  <2> DEFINE p == given + 1
             q == given + n
  <2>1. p \in 1..(Len(FromClient) + 1) /\ q \in 0..Len(FromClient) /\ p <= q + 1 /\ q - p + 1 = n
    BY <1>1, <1>2
  <2>2. c = SubSeq(FromClient, p, q)
    OBVIOUS
  <2> HIDE DEF p, q, c
  <2>3. c \in Seq(SocksTokens) /\ Len(c) = n /\ \A i \in 1..n : c[i] = FromClient[p + i - 1]
    BY <1>1, <2>1, <2>2, SubSeqProperties
  <2>4. \A i \in 1..n : p + i - 1 = given + i
    BY DEF p
  <2> QED BY <2>3, <2>4
<1> HIDE DEF c
<1>4. b \in Seq(SocksTokens) /\ k <= given /\ Len(b) = given - k /\ \A i \in 1..Len(b) : b[i] = FromClient[k + i]
  BY DEF Arrived
<1>5. /\ b \o c \in Seq(SocksTokens) /\ Len(b \o c) = Len(b) + Len(c)
      /\ \A i \in 1..(Len(b) + Len(c)) : (b \o c)[i] = IF i <= Len(b) THEN b[i] ELSE c[i - Len(b)]
  BY <1>3, <1>4, ConcatProperties
<1> DEFINE bc == b \o c
           l == Len(b)
<1>6. /\ bc \in Seq(SocksTokens) /\ Len(bc) = l + n /\ l = given - k /\ l \in Nat
      /\ \A i \in 1..(l + n) : bc[i] = IF i <= l THEN b[i] ELSE c[i - l]
      /\ \A i \in 1..l : b[i] = FromClient[k + i]
  BY <1>3, <1>4, <1>5
<1> HIDE DEF bc, l
<1>7. ASSUME NEW i \in 1..(l + n) PROVE bc[i] = FromClient[k + i]
  <2>1. CASE i <= l
    BY <1>6, <2>1
  <2>2. CASE i > l
    <3>1. i - l \in 1..n /\ given + (i - l) = k + i
      BY <1>6, <2>2
    <3> QED BY <1>3, <1>6, <2>2, <3>1
  <2> QED BY <1>6, <2>1, <2>2
<1>8. Len(bc) = (given + n) - k /\ k <= given + n
  BY <1>4, <1>6
<1>9. Arrived(bc, k, given + n)
  BY <1>6, <1>7, <1>8 DEF Arrived
<1> QED BY <1>9 DEF bc, c

(* Cutting a frame off.                                                    *)
LEMMA FrameIsCut ==
  ASSUME NEW b, NEW k \in Nat, NEW g \in Nat, Arrived(b, k, g), ~(Len(b) < FrameLen)
  PROVE  Arrived(CutFrame(b), k + 2, g) /\ Head(b) = FromClient[k + 1]
<1>1. b \in Seq(SocksTokens) /\ k <= g /\ Len(b) = g - k /\ \A i \in 1..Len(b) : b[i] = FromClient[k + i]
  BY DEF Arrived
<1>2. Len(b) \in Nat /\ 2 <= Len(b)
  BY <1>1 DEF FrameLen
<1>3. Head(b) = FromClient[k + 1]
  BY <1>1, <1>2
<1> DEFINE c == SubSeq(b, 3, Len(b))
           n == Len(b)
<1>4. CutFrame(b) = c
  BY DEF CutFrame, FrameLen
<1>5. 3 \in 1..(n + 1) /\ n \in 0..Len(b) /\ 3 <= n + 1
  BY <1>2
<1> HIDE DEF c
<1>6. c \in Seq(SocksTokens) /\ Len(c) = n - 3 + 1 /\ \A i \in 1..(n - 3 + 1) : c[i] = b[3 + i - 1]
  BY <1>1, <1>5, SubSeqProperties DEF c
<1>7. Len(c) = g - (k + 2) /\ k + 2 <= g
  BY <1>1, <1>2, <1>6
<1>8. ASSUME NEW i \in 1..Len(c) PROVE c[i] = FromClient[(k + 2) + i]
  <2>1. 3 + i - 1 \in 1..Len(b) /\ k + (3 + i - 1) = (k + 2) + i /\ i \in 1..(n - 3 + 1)
    BY <1>2, <1>6
  <2> QED BY <1>1, <1>6, <2>1
<1> QED BY <1>3, <1>4, <1>6, <1>7, <1>8 DEF Arrived

LEMMA TurnKeeps ==
  ASSUME NEW s, NEW g \in Nat, ParserAt(s, g), s.state # "piped"
  PROVE  ParserAt(Turn(s), g) /\ Turn(s).state # "piped" /\ (s.state = "open" => Turn(s).state = "open")
<1>1. PICK st \in {"greeting", "request", "open", "piped", "refused"}, b \in Seq(SocksTokens), r \in Seq(SocksReplies) :
        s = [state |-> st, buffer |-> b, replies |-> r]
  BY DEF ParserAt
<1>2. /\ s.state = st /\ s.buffer = b /\ s.replies = r
      /\ st = "greeting" => Arrived(b, 0, g)
      /\ st = "request" => Arrived(b, 2, g) /\ opening.greeting = "no-auth"
  BY <1>1 DEF ParserAt
<1>3. CASE st \notin {"greeting", "request"} \/ Len(b) < FrameLen
  BY <1>1, <1>2, <1>3 DEF Turn
<1>4. CASE st \in {"greeting", "request"} /\ ~(Len(b) < FrameLen)
  <2> DEFINE reply == IF st = "greeting" THEN GreetingReply(Head(b)) ELSE RequestReply(Head(b))
             cut == CutFrame(b)
             more == Append(r, reply)
  <2>1. \/ reply = "method" /\ Turn(s) = [state |-> "request", buffer |-> cut, replies |-> more]
        \/ reply = "connecting" /\ Turn(s) = [s EXCEPT !.state = "open", !.buffer = cut]
        \/ reply \notin {"method", "connecting"} /\ Turn(s) = [s EXCEPT !.state = "refused", !.replies = more]
    BY <1>1, <1>2, <1>4 DEF Turn
  <2>2. /\ st = "greeting" => Arrived(cut, 2, g) /\ Head(b) = opening.greeting
        /\ st = "request" => Arrived(cut, 4, g) /\ Head(b) = opening.request
    <3>1. CASE st = "greeting"
      <4>1. Arrived(cut, 0 + 2, g) /\ Head(b) = FromClient[0 + 1]
        BY <1>2, <1>4, <3>1, FrameIsCut
      <4> HIDE DEF cut
      <4> QED BY <3>1, <4>1, FromClientIs
    <3>2. CASE st = "request"
      <4>1. Arrived(cut, 2 + 2, g) /\ Head(b) = FromClient[2 + 1]
        BY <1>2, <1>4, <3>2, FrameIsCut
      <4> HIDE DEF cut
      <4> QED BY <3>2, <4>1, FromClientIs
    <3> QED BY <1>4, <3>1, <3>2
  <2>3. \/ st = "greeting" /\ reply = "method" /\ opening.greeting = "no-auth"
        \/ st = "greeting" /\ reply = "no-method" /\ opening.greeting # "no-auth"
        \/ st = "request" /\ reply = RequestReply(opening.request)
    BY <1>4, <2>2 DEF GreetingReply
  <2>4. /\ RequestReply(opening.request) \in {"connecting", "command", "address"}
        /\ RequestReply(opening.request) = "connecting" <=> opening.request = "connect"
    BY DEF RequestReply
  <2>5. cut \in Seq(SocksTokens)
    BY <1>4, <2>2 DEF Arrived
  <2>6. reply \in SocksReplies => more \in Seq(SocksReplies) /\ more # <<>> /\ more[Len(more)] = reply
    <3>1. ASSUME NEW x \in SocksReplies PROVE Append(r, x) \in Seq(SocksReplies) /\ Append(r, x) # <<>> /\ Append(r, x)[Len(Append(r, x))] = x
      <4>1. Append(r, x) \in Seq(SocksReplies) /\ Len(Append(r, x)) = Len(r) + 1 /\ Append(r, x)[Len(r) + 1] = x /\ Len(r) \in Nat
        BY AppendProperties
      <4> DEFINE a == Append(r, x)
      <4>2. a # <<>>
        <5>1. Len(a) # 0
          BY <4>1
        <5> HIDE DEF a
        <5> QED BY <5>1
      <4> QED BY <4>1, <4>2
    <3> QED BY <3>1
  <2> HIDE DEF reply, cut, more
  <2>7. CASE st = "greeting" /\ reply = "method" /\ opening.greeting = "no-auth"
    <3>1. Turn(s) = [state |-> "request", buffer |-> cut, replies |-> more] /\ more \in Seq(SocksReplies)
      BY <2>1, <2>6, <2>7 DEF SocksReplies
    <3>2. Arrived(cut, 2, g)
      BY <2>2, <2>7
    <3>3. ParserAt(Turn(s), g)
      BY <2>5, <2>7, <3>1, <3>2 DEF ParserAt
    <3> QED BY <1>2, <2>7, <3>1, <3>3
  <2>8. CASE st = "greeting" /\ reply = "no-method" /\ opening.greeting # "no-auth"
    <3>1. Turn(s) = [state |-> "refused", buffer |-> b, replies |-> more] /\ more \in Seq(SocksReplies)
          /\ more # <<>> /\ more[Len(more)] = "no-method"
      BY <1>1, <2>1, <2>6, <2>8 DEF SocksReplies
    <3>2. ParserAt(Turn(s), g)
      BY <2>8, <3>1 DEF ParserAt, SocksTold
    <3> QED BY <1>2, <2>8, <3>1, <3>2
  <2>9. CASE st = "request" /\ reply = RequestReply(opening.request)
    <3>1. opening.greeting = "no-auth" /\ Arrived(cut, 4, g)
      BY <1>2, <2>2, <2>9
    <3>2. CASE opening.request = "connect"
      <4>1. Turn(s) = [state |-> "open", buffer |-> cut, replies |-> r]
        BY <1>1, <2>1, <2>4, <2>9, <3>2
      <4>2. ParserAt(Turn(s), g)
        BY <2>5, <3>1, <3>2, <4>1 DEF ParserAt, Asked
      <4> QED BY <1>2, <2>9, <4>1, <4>2
    <3>3. CASE opening.request # "connect"
      <4>1. reply \in {"command", "address"}
        BY <2>4, <2>9, <3>3
      <4>2. Turn(s) = [state |-> "refused", buffer |-> b, replies |-> more] /\ more \in Seq(SocksReplies)
            /\ more # <<>> /\ more[Len(more)] = RequestReply(opening.request)
        BY <1>1, <2>1, <2>6, <2>9, <4>1 DEF SocksReplies
      <4>3. ParserAt(Turn(s), g)
        BY <3>1, <3>3, <4>2 DEF ParserAt, SocksTold
      <4> QED BY <1>2, <2>9, <4>2, <4>3
    <3> QED BY <3>2, <3>3
  <2> QED BY <2>3, <2>7, <2>8, <2>9
<1> QED BY <1>3, <1>4

LEMMA SocksBegins == SocksInit => SocksInv
<1> SUFFICES ASSUME SocksInit PROVE SocksInv
  OBVIOUS
<1>1. given = 0 /\ served = [state |-> "greeting", buffer |-> <<>>, replies |-> <<>>] /\ accepted = "here" /\ channel = "none"
  BY DEF SocksInit
<1>2. <<>> \in Seq(SocksTokens) /\ <<>> \in Seq(SocksReplies)
  BY EmptySeq
<1>3. Arrived(<<>>, 0, 0)
  BY <1>2 DEF Arrived
<1>4. ParserAt(served, given)
  BY <1>1, <1>2, <1>3 DEF ParserAt
<1>5. 0 \in 0..Len(FromClient)
  BY FromClientIs
<1> QED BY <1>1, <1>4, <1>5 DEF SocksInv

(* How the client begins does not change, so what is said of its bytes     *)
(* before a step can be said of them after it.                             *)
LEMMA SameOpening ==
  ASSUME UNCHANGED opening
  PROVE  /\ FromClient' = FromClient
         /\ Arrived(upstream', 4, given') => Arrived(upstream, 4, given)'
         /\ ParserAt(served', given') => ParserAt(served, given)'
<1>1. FromClient' = FromClient /\ SocksTokens' = SocksTokens /\ SocksTold' = SocksTold /\ Asked' = Asked
  BY DEF FromClient, SocksTokens, SocksTold, Asked
<1>2. Arrived(upstream', 4, given') => Arrived(upstream, 4, given)'
  BY <1>1 DEF Arrived
<1>3. Arrived(served'.buffer, 0, given') => Arrived(served.buffer, 0, given)'
  BY <1>1 DEF Arrived
<1>4. Arrived(served'.buffer, 2, given') => Arrived(served.buffer, 2, given)'
  BY <1>1 DEF Arrived
<1>5. Arrived(served'.buffer, 4, given') => Arrived(served.buffer, 4, given)'
  BY <1>1 DEF Arrived
<1>6. ParserAt(served', given') => ParserAt(served, given)'
  BY <1>1, <1>3, <1>4, <1>5 DEF ParserAt
<1> QED BY <1>1, <1>2, <1>6

LEMMA SocksStep == SocksInv /\ [SocksNext]_socksVars => SocksInv'
<1> SUFFICES ASSUME SocksInv, [SocksNext]_socksVars PROVE SocksInv'
  OBVIOUS
<1>1. /\ given \in 0..Len(FromClient) /\ ParserAt(served, given)
      /\ accepted \in {"here", "gone", "early"} /\ channel \in {"none", "opening", "open", "closed"}
      /\ channel = "opening" <=> served.state = "open"
      /\ channel = "opening" => accepted # "gone"
      /\ channel = "open" => served.state = "piped" /\ accepted # "gone"
      /\ channel = "closed" => accepted = "gone"
      /\ served.state = "piped" => Arrived(upstream, 4, given)
      /\ served.state = "refused" => accepted # "here"
  BY DEF SocksInv
<1>2. Len(FromClient) \in Nat /\ given \in Nat
  BY <1>1, FromClientIs
<1>3. PICK st \in {"greeting", "request", "open", "piped", "refused"}, b \in Seq(SocksTokens), r \in Seq(SocksReplies) :
        served = [state |-> st, buffer |-> b, replies |-> r]
  BY <1>1 DEF ParserAt
(* The parser and the pipe are as they were.                               *)
<1>4. ASSUME UNCHANGED <<opening, given, served, upstream>>
      PROVE  /\ given' \in 0..Len(FromClient') /\ ParserAt(served, given)'
             /\ served'.state = "piped" => Arrived(upstream, 4, given)'
  <2>1. FromClient' = FromClient /\ ParserAt(served', given')
        /\ (served'.state = "piped" => Arrived(upstream', 4, given'))
    BY <1>1, <1>4, SameOpening
  <2> QED BY <1>1, <1>4, <2>1, SameOpening
<1>5. ASSUME NEW n \in 1..Len(FromClient), Arrives(n) PROVE SocksInv'
  <2> DEFINE chunk == SubSeq(FromClient, given + 1, given + n)
             grown == [served EXCEPT !.buffer = @ \o chunk]
             now == Turn(Turn(grown))
             g == given + n
  <2>1. /\ accepted = "here" /\ given + n <= Len(FromClient) /\ given' = given + n /\ UNCHANGED opening
        /\ \/ served.state = "piped" /\ upstream' = upstream \o chunk /\ UNCHANGED <<served, accepted, channel>>
           \/ /\ served.state # "piped" /\ served' = now /\ UNCHANGED upstream
              /\ accepted' = IF now.state = "refused" THEN "gone" ELSE "here"
              /\ channel' = IF now.state = "open" THEN "opening" ELSE channel
    BY <1>5 DEF Arrives
  <2>2. n \in Nat \ {0} /\ FromClient' = FromClient /\ given' \in 0..Len(FromClient') /\ g \in Nat
    BY <1>2, <2>1, SameOpening
  <2>3. CASE served.state = "piped"
    <3>1. upstream' = upstream \o chunk /\ UNCHANGED <<served, accepted, channel>>
      BY <2>1, <2>3
    <3>2. Arrived(upstream', 4, given')
      BY <1>1, <1>2, <2>1, <2>2, <2>3, <3>1, ChunkExtends
    <3>3. Arrived(upstream, 4, given)'
      BY <2>1, <3>2, SameOpening
    <3>4. ParserAt(served', given')
      <4>1. served'.state = "piped"
        BY <2>3, <3>1
      <4> QED BY <1>3, <3>1, <4>1 DEF ParserAt
    <3>5. ParserAt(served, given)'
      BY <2>1, <3>4, SameOpening
    <3> QED BY <1>1, <2>2, <2>3, <3>1, <3>3, <3>5 DEF SocksInv
  <2>4. CASE served.state # "piped"
    <3>1. /\ served' = now /\ UNCHANGED upstream
          /\ accepted' = IF now.state = "refused" THEN "gone" ELSE "here"
          /\ channel' = IF now.state = "open" THEN "opening" ELSE channel
      BY <2>1, <2>4
    <3>2. served.state # "refused"
      BY <1>1, <2>1
    <3> DEFINE bb == b \o chunk
    <3>3. grown = [state |-> st, buffer |-> bb, replies |-> r] /\ served.state = st /\ served.buffer = b
      <4>1. served.buffer = b /\ served.state = st
        BY <1>3
      <4>2. grown = [served EXCEPT !.buffer = bb]
        BY <4>1, Zenon
      <4> HIDE DEF grown, bb
      <4> QED BY <1>3, <4>1, <4>2
    <3>4. /\ st = "greeting" => Arrived(b, 0, given)
          /\ st = "request" => Arrived(b, 2, given) /\ opening.greeting = "no-auth"
          /\ st = "open" => Arrived(b, 4, given) /\ Asked
      BY <1>1, <3>3 DEF ParserAt
    <3>5. /\ st = "greeting" => Arrived(bb, 0, g)
          /\ st = "request" => Arrived(bb, 2, g)
          /\ st = "open" => Arrived(bb, 4, g)
      BY <1>2, <2>1, <2>2, <3>4, ChunkExtends
    <3> HIDE DEF bb
    <3>6. bb \in Seq(SocksTokens)
      BY <2>4, <3>2, <3>3, <3>5 DEF Arrived
    <3>7. ParserAt(grown, g) /\ grown.state = st /\ st # "piped"
      BY <2>4, <3>2, <3>3, <3>4, <3>5, <3>6 DEF ParserAt
    <3> HIDE DEF grown, g
    <3>8. ParserAt(Turn(grown), g) /\ Turn(grown).state # "piped" /\ (st = "open" => Turn(grown).state = "open")
      BY <2>2, <3>7, TurnKeeps
    <3>9. ParserAt(now, g) /\ now.state # "piped" /\ (st = "open" => now.state = "open")
      BY <2>2, <3>8, TurnKeeps
    <3> HIDE DEF now
    <3>10. ParserAt(served', given')
      BY <2>1, <3>1, <3>9 DEF g
    <3>11. ParserAt(served, given)'
      BY <2>1, <3>10, SameOpening
    <3>12. /\ accepted' \in {"here", "gone"} /\ channel' \in {"none", "opening"}
           /\ channel' = "opening" <=> served'.state = "open"
           /\ channel' = "opening" => accepted' = "here"
           /\ served'.state = "refused" => accepted' = "gone"
           /\ served'.state # "piped"
      BY <1>1, <2>1, <2>4, <3>1, <3>3, <3>9
    <3> QED BY <2>2, <3>11, <3>12 DEF SocksInv
  <2> QED BY <2>3, <2>4
<1>6. CASE ChannelOpens
  <2>1. /\ channel = "opening" /\ channel' = "open" /\ upstream' = served.buffer /\ UNCHANGED <<opening, given, accepted>>
        /\ served' = [state |-> "piped", buffer |-> <<>>, replies |-> Append(served.replies, "succeeded")]
    BY <1>6 DEF ChannelOpens
  <2>2. Arrived(upstream', 4, given')
    BY <1>1, <2>1 DEF ParserAt
  <2>3. <<>> \in Seq(SocksTokens) /\ Append(served.replies, "succeeded") \in Seq(SocksReplies)
    BY <1>3, EmptySeq, AppendProperties DEF SocksReplies
  <2>4. ParserAt(served', given')
    <3> DEFINE a == Append(served.replies, "succeeded")
    <3>1. a \in Seq(SocksReplies) /\ served' = [state |-> "piped", buffer |-> <<>>, replies |-> a]
      BY <2>1, <2>3
    <3> HIDE DEF a
    <3> QED BY <2>3, <3>1 DEF ParserAt
  <2>5. Arrived(upstream, 4, given)' /\ ParserAt(served, given)' /\ FromClient' = FromClient
    BY <2>1, <2>2, <2>4, SameOpening
  <2> QED BY <1>1, <2>1, <2>5 DEF SocksInv
<1>7. CASE ChannelFails
  <2> DEFINE a == Append(r, "failure")
  <2>1. /\ channel = "opening" /\ channel' = "closed" /\ accepted' = "gone" /\ UNCHANGED <<opening, given, upstream>>
        /\ served' = [state |-> "refused", buffer |-> b, replies |-> a]
    BY <1>3, <1>7 DEF ChannelFails
  <2>2. Asked
    BY <1>1, <2>1 DEF ParserAt
  <2>3. a \in Seq(SocksReplies) /\ a # <<>> /\ a[Len(a)] = "failure"
    <3>1. "failure" \in SocksReplies
      BY DEF SocksReplies
    <3>2. a \in Seq(SocksReplies) /\ Len(a) = Len(r) + 1 /\ a[Len(r) + 1] = "failure" /\ Len(r) \in Nat
      BY <3>1, AppendProperties
    <3> HIDE DEF a
    <3>3. Len(a) # 0
      BY <3>2
    <3> QED BY <3>2, <3>3
  <2> HIDE DEF a
  <2>4. ParserAt(served', given')
    BY <2>1, <2>2, <2>3 DEF ParserAt, SocksTold, Asked
  <2>5. ParserAt(served, given)' /\ FromClient' = FromClient
    BY <2>1, <2>4, SameOpening
  <2> QED BY <1>1, <2>1, <2>5 DEF SocksInv
<1>8. CASE ClientLeaves
  <2>1. /\ accepted = "here" /\ accepted' = (IF channel = "opening" THEN "early" ELSE "gone")
        /\ channel' = (IF channel = "open" THEN "closed" ELSE channel) /\ UNCHANGED <<opening, given, served, upstream>>
    BY <1>8 DEF ClientLeaves
  <2> QED BY <1>1, <1>4, <2>1 DEF SocksInv
<1>9. CASE ChannelCloses
  <2>1. channel = "open" /\ channel' = "closed" /\ accepted' = "gone" /\ UNCHANGED <<opening, given, served, upstream>>
    BY <1>9 DEF ChannelCloses
  <2> QED BY <1>1, <1>4, <2>1 DEF SocksInv
<1>10. CASE UNCHANGED socksVars
  <2>1. UNCHANGED <<opening, given, served, accepted, channel, upstream>>
    BY <1>10 DEF socksVars
  <2> QED BY <1>1, <1>4, <2>1 DEF SocksInv
<1> QED BY <1>5, <1>6, <1>7, <1>8, <1>9, <1>10 DEF SocksNext

LEMMA SocksExactFollows == SocksInv => SocksExact
<1> SUFFICES ASSUME SocksInv PROVE SocksExact
  OBVIOUS
<1>1. /\ given \in 0..Len(FromClient) /\ ParserAt(served, given)
      /\ channel = "open" => accepted # "gone"
      /\ served.state = "piped" => Arrived(upstream, 4, given)
      /\ accepted \in {"here", "gone", "early"}
  BY DEF SocksInv
<1>2. ASSUME served.state = "piped" PROVE upstream = SubSeq(Payload, 1, given - 2 * FrameLen)
  <2>1. /\ upstream \in Seq(SocksTokens) /\ 4 <= given /\ Len(upstream) = given - 4
        /\ \A i \in 1..Len(upstream) : upstream[i] = FromClient[4 + i]
    BY <1>1, <1>2 DEF Arrived
  <2>2. given \in Nat /\ given <= 4 + Len(Payload) /\ Len(Payload) \in Nat
    BY <1>1, FromClientIs
  <2> DEFINE m == given - 4
             s == SubSeq(Payload, 1, m)
  <2>3. m \in Nat /\ m <= Len(Payload) /\ Len(upstream) = m
    BY <2>1, <2>2
  <2>4. 2 * FrameLen = 4
    BY DEF FrameLen
  <2> HIDE DEF m, s
  <2>5. \A i \in 1..m : Payload[i] \in SocksTokens
    BY <2>2, <2>3, SocksAssumption DEF SocksTokens
  <2>6. s \in Seq(SocksTokens) /\ Len(s) = m /\ \A i \in 1..m : s[i] = Payload[i]
    <3>1. /\ s \in Seq(SocksTokens) /\ Len(s) = (IF 1 <= m THEN m - 1 + 1 ELSE 0)
          /\ \A i \in 1..(m - 1 + 1) : s[i] = Payload[1 + i - 1]
      BY <2>3, <2>5, SubSeqProperties DEF s
    <3>2. \A i \in 1..m : 1 + i - 1 = i /\ i \in 1..(m - 1 + 1)
      BY <2>3
    <3>3. Len(s) = m
      BY <2>3, <3>1
    <3> QED BY <3>1, <3>2, <3>3
  <2>7. ASSUME NEW i \in 1..m PROVE upstream[i] = s[i]
    <3>1. i \in 1..Len(Payload) /\ i \in 1..Len(upstream)
      BY <2>2, <2>3
    <3>2. upstream[i] = FromClient[4 + i] /\ FromClient[4 + i] = Payload[i]
      BY <2>1, <3>1, FromClientIs
    <3> QED BY <2>6, <3>2
  <2>8. upstream = s
    BY <2>1, <2>3, <2>6, <2>7, SeqEqual
  <2> QED BY <2>4, <2>8 DEF m, s
<1>3. ASSUME served.state = "refused"
      PROVE  Last(served.replies) = CASE opening.greeting # "no-auth" -> "no-method"
                                      [] opening.greeting = "no-auth" /\ opening.request # "connect" ->
                                           RequestReply(opening.request)
                                      [] OTHER -> "failure"
  <2>1. Last(served.replies) = SocksTold
    BY <1>1, <1>3 DEF ParserAt, Last
  <2> QED BY <2>1 DEF SocksTold
<1> QED BY <1>1, <1>2, <1>3 DEF SocksExact

(* For any payload and any way the client begins, cut in any chunks: the   *)
(* target gets the payload from the first byte on and all of it that has   *)
(* arrived; a client that is sent away was told why; a channel without its *)
(* client is one that client left while it was being opened.               *)
THEOREM SocksFrontIsExact == SocksSpec => []SocksExact
<1>1. SocksInit => SocksInv
  BY SocksBegins
<1>2. SocksInv /\ [SocksNext]_socksVars => SocksInv'
  BY SocksStep
<1>3. SocksInv => SocksExact
  BY SocksExactFollows
<1> QED BY <1>1, <1>2, <1>3, PTL DEF SocksSpec

(* What a connection is begun with is exactly what the peer sent and the   *)
(* record holds, in the login walk, the repaired banner and the SOCKS      *)
(* front alike.                                                            *)
THEOREM ConnectingIsSound == LoginSpec /\ BannerSpec /\ SocksSpec => []ConnectingSound
<1>1. LoginSound /\ BannerExact /\ SocksExact => ConnectingSound
  BY DEF ConnectingSound
<1> QED BY <1>1, LoginsAreSound, BannersAreExact, SocksFrontIsExact, PTL

-----------------------------------------------------------------------------
(* The line being typed.                                                   *)
Line == Seq(Keys)
View == [line : Line, known : BOOLEAN]
MirrorType == [line : Line, known : BOOLEAN, rev : Nat]
WireKey == [key : Keys \union {"kill"} \union Commands, by : {"operator", "agent", "host"}, quiet : BOOLEAN]
TtyType == [line : Line, off : Offs, front : Fronts]
AskType == [pc : {"idle", "probe", "check", "family", "refused", "sent"}, rev : Nat, quiet : BOOLEAN]

InputTypes ==
  /\ mirror \in MirrorType /\ wire \in Seq(WireKey) /\ tty \in TtyType
  /\ ask \in [Commands -> AskType] /\ typed \in Nat /\ alive \in BOOLEAN /\ second \in BOOLEAN

(* The mirror after a key as the wire carries it.                          *)
Cleared == [line |-> <<>>, known |-> TRUE]
After(m, k) == IF k \in Keys THEN Mirrored(m, k) ELSE Cleared

(* v are the views the mirror had when the keys on the wire were written,  *)
(* and the one it has; an agent's Enter was written behind a line that is  *)
(* known and allowed, a directory switch behind an empty one.              *)
Explained(v, w, m) ==
  /\ v \in [1..(Len(w) + 1) -> View] /\ v[Len(w) + 1] = [line |-> m.line, known |-> m.known]
  /\ \A i \in 1..Len(w) :
       /\ v[i + 1] = After(v[i], w[i].key)
       /\ w[i].key = "enter" /\ w[i].by = "agent" => v[i].known /\ ~Denied(v[i].line)
       /\ w[i].key = "cd" => v[i].known /\ v[i].line = <<>>

(* What a key makes of the mirror's line, whether it is known or not.      *)
KeyTurns(l, b, r, k, l2, b2) ==
  /\ Mirrored([line |-> l, known |-> b, rev |-> r], k) = [line |-> l2, known |-> b2, rev |-> r]
  /\ Mirrored([line |-> l, known |-> b], k) = [line |-> l2, known |-> b2]
  /\ k \in {"enter", "ctrlC"} => l2 = <<>> /\ b2 = TRUE
  /\ k = "back" => (IF b THEN l2 = ShorterBy1(l) ELSE b2 = FALSE)
  /\ k = "esc" => b2 = FALSE
  /\ k = "ctl" => l2 = l /\ b2 = b
  /\ k \in {"x", "rm"} => (IF b THEN l2 = Append(l, k) ELSE b2 = FALSE)
  /\ b /\ Len(l) <= MaxLine => Len(l2) <= MaxLine + 1 /\ (b2 => Len(l2) <= MaxLine)
  /\ ~b => l2 = <<>> \/ (l2 = l /\ ~b2)

LEMMA KeyMirrored ==
  ASSUME NEW l \in Line, NEW b \in BOOLEAN, NEW r \in Nat, NEW k \in Keys
  PROVE  \E l2 \in Line, b2 \in BOOLEAN : KeyTurns(l, b, r, k, l2, b2)
<1>1. MaxLine \in Nat \ {0}
  BY TermInputAssumption
<1>2. <<>> \in Line /\ Len(<<>>) = 0
  BY EmptySeq DEF Line
<1>3. ShorterBy1(l) \in Line /\ Len(ShorterBy1(l)) <= Len(l) /\ Len(l) \in Nat /\ Len(ShorterBy1(l)) \in Nat
  <2>1. CASE l = <<>>
    BY <1>2, <2>1 DEF ShorterBy1
  <2>2. CASE l # <<>>
    <3>1. Len(l) \in Nat \ {0} /\ l \in Seq(Keys)
      BY <2>2, EmptySeq DEF Line
    <3> DEFINE n == Len(l) - 1
    <3>2. n \in Nat /\ n <= Len(l)
      BY <3>1
    <3>3. ShorterBy1(l) = SubSeq(l, 1, n)
      BY <2>2 DEF ShorterBy1
    <3>4. \A i \in 1..n : l[i] \in Keys
      BY <3>1, <3>2
    <3> HIDE DEF n
    <3>5. SubSeq(l, 1, n) \in Seq(Keys) /\ Len(SubSeq(l, 1, n)) = (IF 1 <= n THEN n - 1 + 1 ELSE 0)
      BY <3>2, <3>4, SubSeqProperties
    <3>6. Len(SubSeq(l, 1, n)) = n
      BY <3>2, <3>5
    <3> QED BY <3>1, <3>2, <3>3, <3>5, <3>6 DEF Line
  <2> QED BY <2>1, <2>2
<1>4. Append(l, k) \in Line /\ Len(Append(l, k)) = Len(l) + 1
  BY AppendProperties DEF Line
<1> DEFINE long == [line |-> l, known |-> b, rev |-> r]
           short == [line |-> l, known |-> b]
<1>5. CASE k \in {"enter", "ctrlC"}
  <2>1. Mirrored(long, k) = [line |-> <<>>, known |-> TRUE, rev |-> r] /\ Mirrored(short, k) = [line |-> <<>>, known |-> TRUE]
    BY <1>5 DEF Mirrored
  <2> DEFINE e == <<>>
  <2>2. e \in Line /\ Len(e) <= MaxLine /\ Len(e) <= MaxLine + 1 /\ e = <<>>
    BY <1>1, <1>2
  <2>3. Mirrored(long, k) = [line |-> e, known |-> TRUE, rev |-> r] /\ Mirrored(short, k) = [line |-> e, known |-> TRUE]
    BY <2>1
  <2> HIDE DEF e
  <2> USE <2>2
  <2> WITNESS e \in Line, TRUE \in BOOLEAN
  <2> QED BY <1>5, <2>3 DEF KeyTurns
<1>6. CASE k = "back"
  <2>1. CASE b
    <3> DEFINE s == ShorterBy1(l)
    <3>1. Mirrored(long, k) = [line |-> s, known |-> TRUE, rev |-> r] /\ Mirrored(short, k) = [line |-> s, known |-> TRUE]
      BY <1>6, <2>1 DEF Mirrored
    <3>2. s \in Line /\ Len(s) <= Len(l) /\ Len(l) \in Nat /\ Len(s) \in Nat
      BY <1>3
    <3>3. Len(l) <= MaxLine => Len(s) <= MaxLine /\ Len(s) <= MaxLine + 1
      BY <1>1, <3>2
    <3>4. s = ShorterBy1(l)
      OBVIOUS
    <3> HIDE DEF s
    <3> USE <3>2
    <3> WITNESS s \in Line, TRUE \in BOOLEAN
    <3> QED BY <1>6, <2>1, <3>1, <3>3, <3>4 DEF KeyTurns
  <2>2. CASE ~b
    <3>1. Mirrored(long, k) = [line |-> l, known |-> FALSE, rev |-> r] /\ Mirrored(short, k) = [line |-> l, known |-> FALSE]
      BY <1>6, <2>2 DEF Mirrored
    <3> WITNESS l \in Line, FALSE \in BOOLEAN
    <3> QED BY <1>6, <2>2, <3>1 DEF KeyTurns
  <2> QED BY <2>1, <2>2
<1>7. CASE k = "esc"
  <2>1. Mirrored(long, k) = [line |-> l, known |-> FALSE, rev |-> r] /\ Mirrored(short, k) = [line |-> l, known |-> FALSE]
    BY <1>7 DEF Mirrored
  <2>2. Len(l) <= MaxLine => Len(l) <= MaxLine + 1
    BY <1>1, <1>3
  <2> WITNESS l \in Line, FALSE \in BOOLEAN
  <2> QED BY <1>7, <2>1, <2>2 DEF KeyTurns
<1>8. CASE k = "ctl"
  <2>1. Mirrored(long, k) = [line |-> l, known |-> b, rev |-> r] /\ Mirrored(short, k) = [line |-> l, known |-> b]
    BY <1>8 DEF Mirrored
  <2>2. Len(l) <= MaxLine => Len(l) <= MaxLine + 1
    BY <1>1, <1>3
  <2> WITNESS l \in Line, b \in BOOLEAN
  <2> QED BY <1>8, <2>1, <2>2 DEF KeyTurns
<1>9. CASE k \in {"x", "rm"}
  <2>1. CASE b
    <3> DEFINE s == Append(l, k)
               c == Len(l) < MaxLine
    <3>1. Mirrored(long, k) = [line |-> s, known |-> c, rev |-> r] /\ Mirrored(short, k) = [line |-> s, known |-> c]
      BY <1>9, <2>1 DEF Mirrored
    <3>2. s \in Line /\ Len(s) = Len(l) + 1 /\ c \in BOOLEAN /\ Len(l) \in Nat
      BY <1>3, <1>4
    <3>3. Len(l) <= MaxLine => Len(s) <= MaxLine + 1 /\ (c => Len(s) <= MaxLine)
      BY <1>1, <3>2
    <3>4. s = Append(l, k)
      OBVIOUS
    <3> HIDE DEF s, c
    <3> USE <3>2
    <3> WITNESS s \in Line, c \in BOOLEAN
    <3> QED BY <1>9, <2>1, <3>1, <3>3, <3>4 DEF KeyTurns
  <2>2. CASE ~b
    <3>1. Mirrored(long, k) = [line |-> l, known |-> FALSE, rev |-> r] /\ Mirrored(short, k) = [line |-> l, known |-> FALSE]
      BY <1>9, <2>2 DEF Mirrored
    <3> WITNESS l \in Line, FALSE \in BOOLEAN
    <3> QED BY <1>9, <2>2, <3>1 DEF KeyTurns
  <2> QED BY <2>1, <2>2
<1> QED BY <1>5, <1>6, <1>7, <1>8, <1>9 DEF Keys

WireKeys == Keys \union {"kill"} \union Commands

LEMMA AfterIs ==
  ASSUME NEW m \in View, NEW k \in WireKeys
  PROVE  /\ After(m, k) \in View
         /\ k \in {"enter", "ctrlC", "kill"} \union Commands => After(m, k) = Cleared
         /\ k = "back" => (IF m.known THEN After(m, k).line = ShorterBy1(m.line) ELSE ~After(m, k).known)
         /\ k = "esc" => ~After(m, k).known
         /\ k = "ctl" /\ ~m.known => ~After(m, k).known
         /\ k \in {"x", "rm"} => (IF m.known THEN After(m, k).line = Append(m.line, k) ELSE ~After(m, k).known)
<1>1. m = [line |-> m.line, known |-> m.known] /\ m.line \in Line /\ m.known \in BOOLEAN
  BY DEF View
<1>2. CASE k \in Keys
  <2> DEFINE l == m.line
             b == m.known
  <2>1. l \in Line /\ b \in BOOLEAN /\ m = [line |-> l, known |-> b] /\ 0 \in Nat
    BY <1>1
  <2>2. l = m.line /\ b = m.known
    OBVIOUS
  <2> HIDE DEF l, b
  <2>a. PICK l2 \in Line, b2 \in BOOLEAN : KeyTurns(l, b, 0, k, l2, b2)
    BY <1>2, <2>1, KeyMirrored
  <2>3. /\ Mirrored([line |-> l, known |-> b], k) = [line |-> l2, known |-> b2]
        /\ k \in {"enter", "ctrlC"} => l2 = <<>> /\ b2 = TRUE
        /\ k = "back" => (IF b THEN l2 = ShorterBy1(l) ELSE b2 = FALSE)
        /\ k = "esc" => b2 = FALSE
        /\ k = "ctl" => b2 = b
        /\ k \in {"x", "rm"} => (IF b THEN l2 = Append(l, k) ELSE b2 = FALSE)
    BY <2>a DEF KeyTurns
  <2>4. After(m, k) = [line |-> l2, known |-> b2]
    BY <1>2, <2>1, <2>3 DEF After
  <2>5. After(m, k) \in View /\ After(m, k).line = l2 /\ After(m, k).known = b2
    BY <2>4 DEF View
  <2>6. k \in {"enter", "ctrlC"} => After(m, k) = Cleared
    BY <2>3, <2>4 DEF Cleared
  <2>7. k \notin {"kill"} \union Commands
    BY <1>2 DEF Keys, Commands
  <2> QED BY <2>2, <2>3, <2>5, <2>6, <2>7
<1>3. CASE k \notin Keys
  <2>1. After(m, k) = Cleared
    BY <1>3 DEF After
  <2>2. <<>> \in Line
    BY EmptySeq DEF Line
  <2>3. Cleared \in View
    BY <2>2 DEF Cleared, View
  <2> QED BY <1>3, <2>1, <2>3 DEF Keys
<1> QED BY <1>2, <1>3

(* A key more on the wire.                                                 *)
LEMMA ExplainedMore ==
  ASSUME NEW v, NEW w \in Seq(WireKey), NEW m, Explained(v, w, m), NEW k \in WireKey, NEW m2,
         [line |-> m2.line, known |-> m2.known] = After([line |-> m.line, known |-> m.known], k.key),
         k.key = "enter" /\ k.by = "agent" => m.known /\ ~Denied(m.line),
         k.key = "cd" => m.known /\ m.line = <<>>
  PROVE  \E u : Explained(u, Append(w, k), m2) /\ u[1] = v[1]
<1> DEFINE n == Len(w)
           x == [line |-> m2.line, known |-> m2.known]
           u == [i \in 1..((n + 1) + 1) |-> IF i <= n + 1 THEN v[i] ELSE x]
           ww == Append(w, k)
<1>1. n \in Nat /\ ww \in Seq(WireKey) /\ Len(ww) = n + 1 /\ ww[n + 1] = k /\ \A i \in 1..n : ww[i] = w[i]
  BY AppendProperties
<1>2. /\ v \in [1..(n + 1) -> View] /\ v[n + 1] = [line |-> m.line, known |-> m.known]
      /\ \A i \in 1..n :
           /\ v[i + 1] = After(v[i], w[i].key)
           /\ w[i].key = "enter" /\ w[i].by = "agent" => v[i].known /\ ~Denied(v[i].line)
           /\ w[i].key = "cd" => v[i].known /\ v[i].line = <<>>
  BY DEF Explained
<1>3. k.key \in WireKeys /\ v[n + 1] \in View
  BY <1>1, <1>2 DEF WireKey, WireKeys
<1>4. x = After(v[n + 1], k.key)
  BY <1>2
<1>5. x \in View
  BY <1>3, <1>4, AfterIs
<1>6. v[n + 1].line = m.line /\ v[n + 1].known = m.known
  BY <1>2
<1>7. x = [line |-> m2.line, known |-> m2.known]
  OBVIOUS
<1> HIDE DEF n, x, ww
<1>8. /\ u \in [1..((n + 1) + 1) -> View] /\ u[(n + 1) + 1] = x
      /\ \A i \in 1..(n + 1) : u[i] = v[i]
  BY <1>1, <1>2, <1>5
<1> HIDE DEF u
<1>9. ASSUME NEW i \in 1..(n + 1)
      PROVE  /\ u[i + 1] = After(u[i], ww[i].key)
             /\ ww[i].key = "enter" /\ ww[i].by = "agent" => u[i].known /\ ~Denied(u[i].line)
             /\ ww[i].key = "cd" => u[i].known /\ u[i].line = <<>>
  <2>1. CASE i = n + 1
    BY <1>1, <1>3, <1>4, <1>6, <1>8, <2>1
  <2>2. CASE i # n + 1
    <3>1. i \in 1..n /\ i + 1 \in 1..(n + 1)
      BY <1>1, <2>2
    <3> QED BY <1>1, <1>2, <1>8, <3>1
  <2> QED BY <2>1, <2>2
<1>10. u[1] = v[1]
  BY <1>1, <1>8
<1>11. Explained(u, ww, m2)
  BY <1>1, <1>7, <1>8, <1>9 DEF Explained
<1> QED BY <1>10, <1>11 DEF ww

(* The first key is read.                                                  *)
LEMMA ExplainedLess ==
  ASSUME NEW v, NEW w \in Seq(WireKey), w # <<>>, NEW m, Explained(v, w, m)
  PROVE  \E u : Explained(u, Tail(w), m) /\ u[1] = After(v[1], Head(w).key)
<1> DEFINE n == Len(w)
           t == Tail(w)
           u == [i \in 1..((n - 1) + 1) |-> v[i + 1]]
<1>1. /\ n \in Nat \ {0} /\ t \in Seq(WireKey) /\ Len(t) = n - 1 /\ Head(w) = w[1]
      /\ \A i \in 1..(n - 1) : t[i] = w[i + 1]
  BY EmptySeq, HeadTailProperties
<1>2. /\ v \in [1..(n + 1) -> View] /\ v[n + 1] = [line |-> m.line, known |-> m.known]
      /\ \A i \in 1..n :
           /\ v[i + 1] = After(v[i], w[i].key)
           /\ w[i].key = "enter" /\ w[i].by = "agent" => v[i].known /\ ~Denied(v[i].line)
           /\ w[i].key = "cd" => v[i].known /\ v[i].line = <<>>
  BY DEF Explained
<1> HIDE DEF n, t
<1>3. /\ u \in [1..((n - 1) + 1) -> View]
      /\ \A i \in 1..((n - 1) + 1) : u[i] = v[i + 1]
  BY <1>1, <1>2
<1> HIDE DEF u
<1>4. u[(n - 1) + 1] = [line |-> m.line, known |-> m.known]
  <2>1. (n - 1) + 1 = n /\ n \in 1..((n - 1) + 1)
    BY <1>1
  <2> QED BY <1>2, <1>3, <2>1
<1>5. ASSUME NEW i \in 1..(n - 1)
      PROVE  /\ u[i + 1] = After(u[i], t[i].key)
             /\ t[i].key = "enter" /\ t[i].by = "agent" => u[i].known /\ ~Denied(u[i].line)
             /\ t[i].key = "cd" => u[i].known /\ u[i].line = <<>>
  <2>1. i + 1 \in 1..n /\ i \in 1..((n - 1) + 1) /\ i + 1 \in 1..((n - 1) + 1)
    BY <1>1
  <2>2. u[i] = v[i + 1] /\ u[i + 1] = v[(i + 1) + 1] /\ t[i] = w[i + 1]
    BY <1>1, <1>3, <2>1
  <2> QED BY <1>2, <2>1, <2>2
<1>6. u[1] = After(v[1], Head(w).key)
  <2>1. 1 \in 1..n /\ 1 \in 1..((n - 1) + 1)
    BY <1>1
  <2>2. u[1] = v[1 + 1] /\ v[1 + 1] = After(v[1], w[1].key)
    BY <1>2, <1>3, <2>1
  <2> QED BY <1>1, <2>2
<1>7. Explained(u, t, m)
  BY <1>1, <1>3, <1>4, <1>5 DEF Explained
<1> QED BY <1>6, <1>7 DEF t

(* The line in the shell is the one the mirror had when the keys now on    *)
(* the wire were written, whenever both ends know theirs.                  *)
Agrees(m, t) == /\ m.known /\ t.off # "lost" => m.line = t.line
                /\ t.off = "esc" => ~m.known
LineExplained == \E v : Explained(v, wire, mirror) /\ Agrees(v[1], tty)
FrontTakesNone == tty.front \notin Editing => tty.line = <<>>

(* A directory switch that is sure of its prompt is alone on the wire, and *)
(* the prompt is still there.                                              *)
SwitchOnPrompt ==
  \A i \in 1..Len(wire) : wire[i].key = "cd" /\ wire[i].quiet => i = 1 /\ tty.front \in Editing
QuietSinceProbe ==
  /\ ask["cd"].rev <= mirror.rev
  /\ ask["cd"].pc = "check" /\ ask["cd"].quiet /\ mirror.rev = ask["cd"].rev =>
       wire = <<>> /\ tty.front \in Editing

MirrorBound == Len(mirror.line) <= MaxLine + 1 /\ (mirror.known => Len(mirror.line) <= MaxLine)
OnceSent(c) == IF ask[c].pc = "sent" THEN 1 ELSE 0
RevCounts == /\ typed <= MaxKeys /\ mirror.rev = typed + OnceSent("cd") + OnceSent("osc133")
             /\ Len(wire) <= mirror.rev

InputInv ==
  /\ InputTypes /\ LineExplained /\ FrontTakesNone /\ SwitchOnPrompt /\ QuietSinceProbe
  /\ MirrorBound /\ RevCounts /\ strays \subseteq {"osc133"}

LEMMA InputBegins == InputInit => InputInv
<1> SUFFICES ASSUME InputInit PROVE InputInv
  OBVIOUS
<1> DEFINE e == <<>>
<1>1. e \in Line /\ e \in Seq(WireKey) /\ Len(e) = 0 /\ e = <<>>
  BY EmptySeq DEF Line
<1>2. /\ mirror = [line |-> e, known |-> TRUE, rev |-> 0]
      /\ wire = e /\ tty = [line |-> e, off |-> "no", front |-> "prompt"]
      /\ typed = 0 /\ alive = TRUE /\ second = FALSE
      /\ ask = [c \in Commands |-> NoAsk] /\ strays = {}
  BY DEF InputInit
<1> HIDE DEF e
<1>3. InputTypes
  BY <1>1, <1>2 DEF InputTypes, MirrorType, TtyType, AskType, Fronts, Offs, NoAsk
<1>4. LineExplained
  <2> DEFINE v == [i \in 1..1 |-> [line |-> e, known |-> TRUE]]
  <2>1. [line |-> e, known |-> TRUE] \in View
    BY <1>1 DEF View
  <2>2. v \in [1..1 -> View] /\ v[1] = [line |-> e, known |-> TRUE]
    BY <2>1
  <2> HIDE DEF v
  <2>3. Explained(v, e, mirror)
    BY <1>1, <1>2, <2>2 DEF Explained
  <2>4. Agrees(v[1], tty)
    BY <1>2, <2>2 DEF Agrees
  <2> QED BY <1>2, <2>3, <2>4 DEF LineExplained
<1>5. FrontTakesNone
  BY <1>2 DEF FrontTakesNone, Editing
<1>6. SwitchOnPrompt
  BY <1>1, <1>2 DEF SwitchOnPrompt
<1>7. ask["cd"] = NoAsk /\ ask["osc133"] = NoAsk
  BY <1>2 DEF Commands
<1>8. QuietSinceProbe
  BY <1>2, <1>7 DEF QuietSinceProbe, NoAsk
<1>9. MirrorBound
  BY <1>1, <1>2, TermInputAssumption DEF MirrorBound
<1>10. RevCounts
  BY <1>1, <1>2, <1>7, TermInputAssumption DEF RevCounts, OnceSent, NoAsk
<1> QED BY <1>2, <1>3, <1>4, <1>5, <1>6, <1>8, <1>9, <1>10 DEF InputInv

(* What a key more on the wire keeps.                                      *)
LEMMA WriteKeeps ==
  ASSUME InputTypes, LineExplained, SwitchOnPrompt, NEW k \in WireKey, wire' = Append(wire, k), UNCHANGED tty,
         [line |-> mirror'.line, known |-> mirror'.known] = After([line |-> mirror.line, known |-> mirror.known], k.key),
         k.key = "enter" /\ k.by = "agent" => mirror.known /\ ~Denied(mirror.line),
         k.key = "cd" => /\ mirror.known /\ mirror.line = <<>>
                         /\ k.quiet => wire = <<>> /\ tty.front \in Editing
  PROVE  LineExplained' /\ SwitchOnPrompt' /\ wire' \in Seq(WireKey) /\ Len(wire') = Len(wire) + 1
<1>1. wire \in Seq(WireKey)
  BY DEF InputTypes
<1>2. /\ wire' \in Seq(WireKey) /\ Len(wire') = Len(wire) + 1 /\ wire'[Len(wire) + 1] = k /\ Len(wire) \in Nat
      /\ \A i \in 1..Len(wire) : wire'[i] = wire[i]
  BY <1>1, AppendProperties
<1>3. LineExplained'
  <2>1. PICK v : Explained(v, wire, mirror) /\ Agrees(v[1], tty)
    BY DEF LineExplained
  <2> DEFINE m2 == mirror'
             w2 == wire'
  <2>2. PICK u : Explained(u, Append(wire, k), m2) /\ u[1] = v[1]
    BY <1>1, <2>1, ExplainedMore
  <2>3. Explained(u, wire', mirror')
    BY <2>2
  <2>4. Agrees(u[1], tty')
    BY <2>1, <2>2
  <2> QED BY <2>3, <2>4 DEF LineExplained
<1>4. ASSUME NEW i \in 1..Len(wire'), wire'[i].key = "cd", wire'[i].quiet PROVE i = 1 /\ tty'.front \in Editing
  <2>1. CASE i = Len(wire) + 1
    <3>1. wire = <<>> /\ tty.front \in Editing
      BY <1>2, <1>4, <2>1
    <3>2. Len(wire) = 0
      BY <3>1, EmptySeq
    <3> QED BY <2>1, <3>1, <3>2
  <2>2. CASE i # Len(wire) + 1
    <3>1. i \in 1..Len(wire)
      BY <1>2, <2>2
    <3> QED BY <1>2, <1>4, <3>1 DEF SwitchOnPrompt
  <2> QED BY <2>1, <2>2
<1>5. SwitchOnPrompt'
  BY <1>4 DEF SwitchOnPrompt, Editing
<1> QED BY <1>2, <1>3, <1>5

LEMMA TypesKeeps ==
  ASSUME InputInv, NEW key \in Keys, NEW press \in WireKey, Types(press, Mirrored(mirror, key)),
         press.key = key \/ (key = "enter" /\ press.key = "kill"),
         press.key = "enter" /\ press.by = "agent" => mirror.known /\ ~Denied(mirror.line)
  PROVE  InputInv'
<1> DEFINE l == mirror.line
           b == mirror.known
           r == mirror.rev
<1>1. /\ InputTypes /\ LineExplained /\ FrontTakesNone /\ SwitchOnPrompt /\ QuietSinceProbe
      /\ MirrorBound /\ RevCounts /\ strays \subseteq {"osc133"}
  BY DEF InputInv
<1>2. /\ l \in Line /\ b \in BOOLEAN /\ r \in Nat /\ mirror = [line |-> l, known |-> b, rev |-> r]
      /\ wire \in Seq(WireKey) /\ typed \in Nat /\ ask["cd"] \in AskType
  BY <1>1 DEF InputTypes, MirrorType, Commands
<1>3. l = mirror.line /\ b = mirror.known /\ r = mirror.rev
  OBVIOUS
<1> HIDE DEF l, b, r
<1>4. PICK l2 \in Line, b2 \in BOOLEAN : KeyTurns(l, b, r, key, l2, b2)
  BY <1>2, KeyMirrored
<1>5. /\ alive /\ typed < MaxKeys /\ typed' = typed + 1 /\ wire' = Append(wire, press)
      /\ mirror' = [Mirrored(mirror, key) EXCEPT !.rev = mirror.rev + 1]
      /\ UNCHANGED <<tty, alive, second, ask, strays>>
  BY DEF Types
<1>6. /\ Mirrored(mirror, key) = [line |-> l2, known |-> b2, rev |-> r]
      /\ Mirrored([line |-> l, known |-> b], key) = [line |-> l2, known |-> b2]
      /\ key = "enter" => l2 = <<>> /\ b2 = TRUE
      /\ b /\ Len(l) <= MaxLine => Len(l2) <= MaxLine + 1 /\ (b2 => Len(l2) <= MaxLine)
      /\ ~b => l2 = <<>> \/ (l2 = l /\ ~b2)
  BY <1>2, <1>4 DEF KeyTurns
<1> DEFINE r2 == r + 1
<1>7. r2 \in Nat /\ r2 = r + 1
  BY <1>2
<1>8. mirror' = [line |-> l2, known |-> b2, rev |-> r2]
  BY <1>3, <1>5, <1>6
<1> HIDE DEF r2
<1>9. mirror' \in MirrorType /\ mirror'.line = l2 /\ mirror'.known = b2 /\ mirror'.rev = r + 1
  BY <1>7, <1>8 DEF MirrorType
<1>10. [line |-> mirror'.line, known |-> mirror'.known] = After([line |-> mirror.line, known |-> mirror.known], press.key)
  <2>1. CASE press.key = key
    BY <1>3, <1>6, <1>9, <2>1 DEF After
  <2>2. CASE key = "enter" /\ press.key = "kill"
    BY <1>6, <1>9, <2>2 DEF After, Keys, Cleared
  <2> QED BY <2>1, <2>2
<1>11. press.key # "cd"
  BY DEF Keys
<1>12. LineExplained' /\ SwitchOnPrompt' /\ wire' \in Seq(WireKey) /\ Len(wire') = Len(wire) + 1
  BY <1>1, <1>5, <1>10, <1>11, WriteKeeps
<1>13. InputTypes'
  BY <1>1, <1>2, <1>5, <1>9, <1>12 DEF InputTypes
<1>14. FrontTakesNone'
  BY <1>1, <1>5 DEF FrontTakesNone, Editing
<1>15. QuietSinceProbe'
  <2>1. ask["cd"].rev \in Nat /\ ask["cd"].rev <= r /\ ask' = ask
    BY <1>1, <1>2, <1>3, <1>5 DEF QuietSinceProbe, AskType
  <2>2. ask'["cd"].rev <= mirror'.rev /\ mirror'.rev # ask'["cd"].rev
    BY <1>2, <1>9, <2>1
  <2> QED BY <2>2 DEF QuietSinceProbe
<1>16. MirrorBound'
  <2>1. Len(l2) <= MaxLine + 1 /\ (b2 => Len(l2) <= MaxLine)
    <3>1. Len(l) <= MaxLine + 1 /\ (b => Len(l) <= MaxLine)
      BY <1>1, <1>3 DEF MirrorBound
    <3>2. Len(<<>>) = 0 /\ MaxLine \in Nat \ {0}
      BY EmptySeq, TermInputAssumption
    <3>3. CASE b
      BY <1>6, <3>1, <3>3
    <3>4. CASE ~b
      <4>1. CASE l2 = <<>>
        <5>1. Len(l2) = 0
          BY <3>2, <4>1
        <5> QED BY <3>2, <5>1
      <4>2. CASE l2 = l /\ ~b2
        BY <3>1, <4>2
      <4> QED BY <1>6, <3>4, <4>1, <4>2
    <3> QED BY <3>3, <3>4
  <2> QED BY <1>9, <2>1 DEF MirrorBound
<1>17. RevCounts'
  <2>1. OnceSent("cd")' = OnceSent("cd") /\ OnceSent("osc133")' = OnceSent("osc133")
        /\ OnceSent("cd") \in 0..1 /\ OnceSent("osc133") \in 0..1
    BY <1>5 DEF OnceSent
  <2>2. typed <= MaxKeys /\ r = typed + OnceSent("cd") + OnceSent("osc133") /\ Len(wire) <= r /\ MaxKeys \in Nat
    BY <1>1, <1>3, TermInputAssumption DEF RevCounts
  <2>3. Len(wire) \in Nat
    BY <1>2
  <2>4. typed' <= MaxKeys /\ r + 1 = typed' + OnceSent("cd") + OnceSent("osc133") /\ Len(wire') <= r + 1
    BY <1>2, <1>5, <1>12, <2>1, <2>2, <2>3
  <2> QED BY <1>9, <2>1, <2>4 DEF RevCounts
<1>18. strays' \subseteq {"osc133"}
  BY <1>1, <1>5
<1> QED BY <1>12, <1>13, <1>14, <1>15, <1>16, <1>17, <1>18 DEF InputInv

(* What a request keeps that leaves the terminal alone.                    *)
LEMMA AskKeeps ==
  ASSUME InputInv, UNCHANGED <<mirror, wire, tty, typed, strays>>, alive' \in BOOLEAN, second' \in BOOLEAN,
         ask' \in [Commands -> AskType], OnceSent("cd")' = OnceSent("cd"), OnceSent("osc133")' = OnceSent("osc133"),
         QuietSinceProbe'
  PROVE  InputInv'
<1>1. /\ InputTypes /\ LineExplained /\ FrontTakesNone /\ SwitchOnPrompt
      /\ MirrorBound /\ RevCounts /\ strays \subseteq {"osc133"}
  BY DEF InputInv
<1>2. InputTypes'
  BY <1>1 DEF InputTypes
<1>3. LineExplained'
  BY <1>1 DEF LineExplained
<1>4. FrontTakesNone' /\ SwitchOnPrompt'
  BY <1>1 DEF FrontTakesNone, SwitchOnPrompt, Editing
<1>5. MirrorBound' /\ RevCounts'
  BY <1>1 DEF MirrorBound, RevCounts
<1> QED BY <1>1, <1>2, <1>3, <1>4, <1>5 DEF InputInv

LEMMA SendKeeps ==
  ASSUME InputInv, NEW c \in Commands, Send(c), ask[c].pc # "sent",
         c = "cd" => mirror.known /\ mirror.line = <<>> /\ ask["cd"].pc = "check"
  PROVE  InputInv'
<1>1. /\ InputTypes /\ LineExplained /\ FrontTakesNone /\ SwitchOnPrompt /\ QuietSinceProbe
      /\ MirrorBound /\ RevCounts /\ strays \subseteq {"osc133"}
  BY DEF InputInv
<1> DEFINE quiet == ask[c].quiet /\ SameInput(c)
           k == [key |-> c, by |-> "host", quiet |-> quiet]
           r == mirror.rev
           r2 == r + 1
           e == <<>>
<1>2. /\ wire' = Append(wire, k) /\ mirror' = [line |-> e, known |-> TRUE, rev |-> r2]
      /\ ask' = [ask EXCEPT ![c].pc = "sent"]
      /\ UNCHANGED <<tty, typed, alive, second, strays>>
  BY DEF Send
<1>3. e \in Line /\ Len(e) = 0
  BY EmptySeq DEF Line
<1>4. /\ r \in Nat /\ r2 \in Nat /\ r2 = r + 1 /\ wire \in Seq(WireKey) /\ typed \in Nat
      /\ ask \in [Commands -> AskType] /\ "cd" \in Commands /\ "osc133" \in Commands
  BY <1>1 DEF InputTypes, MirrorType, Commands
<1>5. r = mirror.rev
  OBVIOUS
<1>6. quiet \in BOOLEAN /\ (quiet => ask[c].quiet /\ mirror.rev = ask[c].rev)
  <2>1. ask[c].quiet \in BOOLEAN
    BY <1>4 DEF AskType
  <2> QED BY <2>1 DEF SameInput
<1> HIDE DEF quiet
<1>7. k \in WireKey /\ k.key = c /\ k.by = "host" /\ k.quiet = quiet
  BY <1>6 DEF WireKey
<1> HIDE DEF k, r, r2
<1>8. mirror' \in MirrorType /\ mirror'.line = e /\ mirror'.known = TRUE /\ mirror'.rev = r2
  BY <1>2, <1>3, <1>4 DEF MirrorType
<1>9. [line |-> mirror'.line, known |-> mirror'.known] = After([line |-> mirror.line, known |-> mirror.known], k.key)
  BY <1>7, <1>8 DEF After, Keys, Cleared, Commands
<1>10. c # "enter"
  BY DEF Commands
<1>11. c = "cd" => /\ mirror.known /\ mirror.line = <<>>
                   /\ k.quiet => wire = <<>> /\ tty.front \in Editing
  BY <1>1, <1>6, <1>7 DEF QuietSinceProbe
<1>12. LineExplained' /\ SwitchOnPrompt' /\ wire' \in Seq(WireKey) /\ Len(wire') = Len(wire) + 1
  BY <1>1, <1>2, <1>7, <1>9, <1>10, <1>11, WriteKeeps
<1>13. /\ ask' \in [Commands -> AskType] /\ ask'[c].pc = "sent" /\ ask'[c].rev = ask[c].rev
       /\ \A d \in Commands : d # c => ask'[d] = ask[d]
  <2>1. [ask[c] EXCEPT !.pc = "sent"] \in AskType
    BY <1>4 DEF AskType
  <2> DEFINE a == [ask[c] EXCEPT !.pc = "sent"]
  <2>2. a.pc = "sent" /\ a.rev = ask[c].rev
    BY <1>4 DEF AskType
  <2>3. ask' = [ask EXCEPT ![c] = a]
    BY <1>2
  <2>4. a \in AskType
    BY <2>1
  <2> HIDE DEF a
  <2> QED BY <1>4, <2>2, <2>3, <2>4
<1>14. InputTypes'
  BY <1>1, <1>2, <1>8, <1>12, <1>13 DEF InputTypes
<1>15. FrontTakesNone'
  BY <1>1, <1>2 DEF FrontTakesNone, Editing
<1>16. QuietSinceProbe'
  <2>1. ask["cd"].rev \in Nat /\ ask["cd"].rev <= r
    BY <1>1, <1>4, <1>5 DEF QuietSinceProbe, AskType
  <2>2. ask'["cd"].rev = ask["cd"].rev
    BY <1>4, <1>13
  <2>3. ask'["cd"].rev <= mirror'.rev /\ mirror'.rev # ask'["cd"].rev
    BY <1>4, <1>8, <2>1, <2>2
  <2> QED BY <2>3 DEF QuietSinceProbe
<1>17. MirrorBound'
  BY <1>3, <1>8, TermInputAssumption DEF MirrorBound
<1>18. RevCounts'
  <2>1. typed <= MaxKeys /\ r = typed + OnceSent("cd") + OnceSent("osc133") /\ Len(wire) <= r /\ Len(wire) \in Nat
    BY <1>1, <1>4, <1>5 DEF RevCounts
  <2>2. /\ OnceSent("cd") \in 0..1 /\ OnceSent("osc133") \in 0..1
        /\ OnceSent(c) = 0
    BY DEF OnceSent
  <2>3. OnceSent("cd")' + OnceSent("osc133")' = OnceSent("cd") + OnceSent("osc133") + 1
        /\ OnceSent("cd")' \in 0..1 /\ OnceSent("osc133")' \in 0..1
    <3>1. CASE c = "cd"
      <4>1. OnceSent("cd")' = 1 /\ OnceSent("osc133")' = OnceSent("osc133") /\ OnceSent("cd") = 0
        BY <1>4, <1>13, <2>2, <3>1 DEF OnceSent
      <4> QED BY <2>2, <4>1
    <3>2. CASE c = "osc133"
      <4>1. OnceSent("osc133")' = 1 /\ OnceSent("cd")' = OnceSent("cd") /\ OnceSent("osc133") = 0
        BY <1>4, <1>13, <2>2, <3>2 DEF OnceSent
      <4> QED BY <2>2, <4>1
    <3> QED BY <3>1, <3>2 DEF Commands
  <2>4. r2 = typed + OnceSent("cd")' + OnceSent("osc133")' /\ Len(wire') <= r2
    BY <1>4, <1>12, <2>1, <2>2, <2>3
  <2> QED BY <1>2, <1>8, <2>1, <2>4 DEF RevCounts
<1>19. strays' \subseteq {"osc133"}
  BY <1>1, <1>2
<1> QED BY <1>12, <1>14, <1>15, <1>16, <1>17, <1>18, <1>19 DEF InputInv

(* What the server's end makes of a key it reads.                          *)
LEMMA ReadFollows ==
  ASSUME tty \in TtyType, NEW k \in WireKey, NEW m \in View, Agrees(m, tty),
         FrontTakesNone, IF tty.front \in Editing THEN ShellReads(k) ELSE ProgramReads(k)
  PROVE  /\ tty' \in TtyType /\ FrontTakesNone'
         /\ Agrees(After(m, k.key), tty')
<1> DEFINE l == tty.line
           o == tty.off
           f == tty.front
           a == After(m, k.key)
<1>1. tty = [line |-> l, off |-> o, front |-> f] /\ l \in Line /\ o \in Offs /\ f \in Fronts
  BY DEF TtyType
<1>2. k.key \in WireKeys
  BY DEF WireKey, WireKeys
<1>3. /\ a \in View
      /\ k.key \in {"enter", "ctrlC", "kill"} \union Commands => a = Cleared
      /\ k.key = "back" => (IF m.known THEN a.line = ShorterBy1(m.line) ELSE ~a.known)
      /\ k.key = "esc" => ~a.known
      /\ k.key = "ctl" /\ ~m.known => ~a.known
      /\ k.key \in {"x", "rm"} => (IF m.known THEN a.line = Append(m.line, k.key) ELSE ~a.known)
  BY <1>2, AfterIs
<1>4. /\ <<>> \in Line /\ \A x \in AnyLine : x \in Line
      /\ ShorterBy1(l) \in Line
  <2>1. <<>> \in Line
    BY EmptySeq DEF Line
  <2>2. <<"x">> \in Line /\ <<"rm">> \in Line
    BY DEF Line, Keys
  <2>3. "back" \in Keys /\ 0 \in Nat /\ TRUE \in BOOLEAN
    BY DEF Keys
  <2>4. PICK l2 \in Line, b2 \in BOOLEAN : KeyTurns(l, TRUE, 0, "back", l2, b2)
    BY <1>1, <2>3, KeyMirrored
  <2>5. l2 = ShorterBy1(l)
    BY <2>4 DEF KeyTurns
  <2> QED BY <2>1, <2>2, <2>5 DEF AnyLine
<1>5. (m.known /\ o # "lost" => m.line = l) /\ (o = "esc" => ~m.known)
  BY DEF Agrees
<1>6. f \notin Editing => l = <<>>
  BY DEF FrontTakesNone
<1>7. a = Cleared => a.line = <<>>
  BY DEF Cleared
<1>8. IF f \in Editing THEN ShellReads(k) ELSE ProgramReads(k)
  OBVIOUS
<1>9. ASSUME NEW ll \in Line, NEW oo \in Offs, NEW ff \in Fronts, tty' = [line |-> ll, off |-> oo, front |-> ff],
             ff \notin Editing => ll = <<>>, a.known /\ oo # "lost" => a.line = ll, oo = "esc" => ~a.known
      PROVE  tty' \in TtyType /\ FrontTakesNone' /\ Agrees(a, tty')
  <2>1. tty' \in TtyType /\ tty'.line = ll /\ tty'.off = oo /\ tty'.front = ff
    BY <1>9 DEF TtyType
  <2>2. FrontTakesNone'
    BY <1>9, <2>1 DEF FrontTakesNone, Editing
  <2> QED BY <1>9, <2>1, <2>2 DEF Agrees
<1> HIDE DEF a
<1>10. a = After(m, k.key)
  BY DEF a
<1> SUFFICES tty' \in TtyType /\ FrontTakesNone' /\ Agrees(a, tty')
  BY <1>10
<1>11. CASE f \notin Editing
  <2> DEFINE oo == CASE k.key \in Commands \cup {"enter", "ctrlC", "kill"} -> "no"
                     [] k.key = "esc" -> "esc"
                     [] OTHER -> Lost
  <2>1. PICK ff \in {f, "prompt"} : tty' = [tty EXCEPT !.front = ff, !.off = oo]
    BY <1>8, <1>11 DEF ProgramReads
  <2>2. /\ oo \in Offs /\ (oo = "no" => a = Cleared)
        /\ oo = "esc" => ~a.known
    <3>1. CASE k.key \in Commands \cup {"enter", "ctrlC", "kill"}
      <4>1. oo = "no"
        BY <3>1 DEF Commands
      <4> HIDE DEF oo
      <4> QED BY <1>3, <3>1, <4>1 DEF Offs
    <3>2. CASE k.key = "esc"
      <4>1. k.key \notin Commands \cup {"enter", "ctrlC", "kill"}
        BY <3>2 DEF Commands
      <4>2. oo = "esc"
        BY <3>2, <4>1
      <4> HIDE DEF oo
      <4> QED BY <1>3, <3>2, <4>2 DEF Offs
    <3>3. CASE k.key \notin Commands \cup {"enter", "ctrlC", "kill"} /\ k.key # "esc"
      <4>1. oo = IF o = "esc" THEN "esc" ELSE "lost"
        BY <3>3 DEF Lost
      <4>2. k.key \in {"x", "rm", "back", "ctl"}
        BY <1>2, <3>3 DEF WireKeys, Keys
      <4> HIDE DEF oo, o
      <4> QED BY <1>3, <1>5, <4>1, <4>2 DEF Offs
    <3> QED BY <3>1, <3>2, <3>3
  <2> HIDE DEF oo
  <2>3. tty' = [line |-> l, off |-> oo, front |-> ff] /\ ff \in Fronts
    BY <1>1, <2>1, <2>2 DEF Fronts
  <2>4. l = <<>>
    BY <1>6, <1>11
  <2>5. a.known /\ oo # "lost" => a.line = l
    BY <1>7, <2>2, <2>4 DEF Offs
  <2> QED BY <1>1, <1>9, <2>2, <2>3, <2>4, <2>5
<1>12. CASE f \in Editing
  <2> HIDE DEF l, o, f
  <2>1. ShellReads(k)
    BY <1>8, <1>12
  <2> DEFINE exact == IF k.key = "back" THEN ShorterBy1(l) ELSE Append(l, k.key)
  <2>2. CASE /\ k.key \in {"x", "rm", "back"}
             /\ \E x \in IF o = "no" THEN {exact} ELSE AnyLine : tty' = [tty EXCEPT !.line = x]
    <3>1. exact \in Line
      <4>1. CASE k.key = "back"
        BY <1>4, <4>1
      <4>2. CASE k.key # "back"
        <5>1. k.key \in Keys
          BY <2>2 DEF Keys
        <5>2. Append(l, k.key) \in Line
          BY <1>1, <5>1, AppendProperties DEF Line
        <5> QED BY <4>2, <5>2
      <4> QED BY <4>1, <4>2
    <3>2. o = "no" /\ a.known => a.line = exact
      <4>1. CASE k.key = "back"
        BY <1>3, <1>5, <4>1
      <4>2. CASE k.key # "back"
        <5>1. k.key \in {"x", "rm"}
          BY <2>2, <4>2
        <5> QED BY <1>3, <1>5, <4>2, <5>1
      <4> QED BY <4>1, <4>2
    <3> HIDE DEF exact
    <3>3. PICK ll \in Line : tty' = [tty EXCEPT !.line = ll] /\ (o = "no" => ll = exact)
      BY <1>4, <2>2, <3>1
    <3>4. tty' = [line |-> ll, off |-> o, front |-> f]
      BY <1>1, <3>3
    <3>5. o = "esc" => ~a.known
      BY <1>3, <1>5, <2>2
    <3>6. a.known /\ o # "lost" => a.line = ll
      BY <1>1, <3>2, <3>3, <3>5 DEF Offs
    <3> QED BY <1>1, <1>9, <1>12, <3>4, <3>5, <3>6
  <2>4. CASE k.key = "ctrlC" /\ tty' = [tty EXCEPT !.line = <<>>, !.off = "no"]
    <3>1. tty' = [line |-> <<>>, off |-> "no", front |-> f] /\ "no" \in Offs
      BY <1>1, <2>4 DEF Offs
    <3>2. a = Cleared
      BY <1>3, <2>4
    <3> QED BY <1>1, <1>4, <1>7, <1>9, <1>12, <3>1, <3>2
  <2>5. CASE k.key = "kill" /\ \E x \in IF o = "no" THEN {<<>>} ELSE AnyLine :
               tty' = [tty EXCEPT !.line = x, !.off = IF x = <<>> THEN "no" ELSE "lost"]
    <3>1. PICK ll \in Line : tty' = [tty EXCEPT !.line = ll, !.off = IF ll = <<>> THEN "no" ELSE "lost"]
      BY <1>4, <2>5
    <3>2. PICK oo \in Offs : oo = IF ll = <<>> THEN "no" ELSE "lost"
      BY DEF Offs
    <3>3. tty' = [line |-> ll, off |-> oo, front |-> f]
      BY <1>1, <3>1, <3>2
    <3>4. a = Cleared
      BY <1>3, <2>5
    <3>5. (a.known /\ oo # "lost" => a.line = ll) /\ oo # "esc"
      BY <1>7, <3>2, <3>4
    <3> QED BY <1>1, <1>9, <1>12, <3>3, <3>5
  <2>6. CASE k.key \in {"esc", "ctl"} /\ \E x \in AnyLine :
               tty' = [tty EXCEPT !.line = x, !.off = IF k.key = "esc" THEN "esc" ELSE Lost]
    <3>1. PICK oo \in Offs : oo = IF k.key = "esc" THEN "esc" ELSE Lost
      BY DEF Offs, Lost
    <3>2. PICK ll \in Line : tty' = [tty EXCEPT !.line = ll, !.off = oo]
      BY <1>4, <2>6, <3>1
    <3>3. tty' = [line |-> ll, off |-> oo, front |-> f]
      BY <1>1, <3>2
    <3>4. oo # "no" /\ (oo = "esc" => ~a.known)
      BY <1>3, <1>5, <2>6, <3>1 DEF Lost, o
    <3>5. a.known /\ oo # "lost" => a.line = ll
      BY <3>4 DEF Offs
    <3> QED BY <1>1, <1>9, <1>12, <3>3, <3>4, <3>5
  <2>7. CASE /\ k.key \in Commands \cup {"enter"}
             /\ \E x \in IF tty.line = <<>> THEN {tty.front} ELSE Fronts :
                  tty' = [line |-> <<>>, off |-> "no", front |-> x]
    <3>1. PICK ff \in Fronts : tty' = [line |-> <<>>, off |-> "no", front |-> ff]
      BY <1>1, <2>7 DEF f
    <3>2. a = Cleared /\ "no" \in Offs
      BY <1>3, <2>7 DEF Offs
    <3> QED BY <1>4, <1>7, <1>9, <3>1, <3>2
  <2> HIDE DEF exact
  <2>8. exact = IF k.key = "back" THEN ShorterBy1(tty.line) ELSE Append(tty.line, k.key)
    BY DEF exact, l
  <2> QED BY <2>1, <2>2, <2>4, <2>5, <2>6, <2>7, <2>8 DEF ShellReads, o
<1> QED BY <1>11, <1>12

LEMMA ReadsKeep == ASSUME InputInv, Reads PROVE InputInv'
<1> DEFINE k == Head(wire)
<1>1. /\ InputTypes /\ LineExplained /\ FrontTakesNone /\ SwitchOnPrompt /\ QuietSinceProbe
      /\ MirrorBound /\ RevCounts /\ strays \subseteq {"osc133"}
  BY DEF InputInv
<1>2. /\ wire # <<>> /\ wire' = Tail(wire)
      /\ IF tty.front \in Editing THEN ShellReads(k) ELSE ProgramReads(k)
      /\ strays' = IF Stray(k) THEN strays \cup {k.key} ELSE strays
      /\ UNCHANGED <<mirror, typed, alive, second, ask>>
  BY DEF Reads
<1>3. wire \in Seq(WireKey) /\ tty \in TtyType
  BY <1>1 DEF InputTypes
<1>4. /\ Len(wire) \in Nat \ {0} /\ wire' \in Seq(WireKey) /\ Len(wire') = Len(wire) - 1 /\ k = wire[1] /\ k \in WireKey
      /\ \A i \in 1..(Len(wire) - 1) : wire'[i] = wire[i + 1]
  BY <1>2, <1>3, EmptySeq, HeadTailProperties
<1>5. PICK v : Explained(v, wire, mirror) /\ Agrees(v[1], tty)
  BY <1>1 DEF LineExplained
<1>6. /\ v[1] \in View
      /\ k.key = "enter" /\ k.by = "agent" => v[1].known /\ ~Denied(v[1].line)
      /\ k.key = "cd" => v[1].known /\ v[1].line = <<>>
  <2>1. 1 \in 1..(Len(wire) + 1) /\ 1 \in 1..Len(wire)
    BY <1>4
  <2>2. /\ v \in [1..(Len(wire) + 1) -> View]
        /\ \A i \in 1..Len(wire) :
             /\ wire[i].key = "enter" /\ wire[i].by = "agent" => v[i].known /\ ~Denied(v[i].line)
             /\ wire[i].key = "cd" => v[i].known /\ v[i].line = <<>>
    BY <1>5 DEF Explained
  <2> QED BY <1>4, <2>1, <2>2
<1>7. k.key = "cd" /\ k.quiet => tty.front \in Editing
  BY <1>1, <1>4 DEF SwitchOnPrompt
<1>8. PICK u : Explained(u, Tail(wire), mirror) /\ u[1] = After(v[1], k.key)
  BY <1>2, <1>3, <1>5, ExplainedLess
<1> HIDE DEF k
<1>9. /\ tty' \in TtyType /\ FrontTakesNone'
      /\ Agrees(After(v[1], k.key), tty')
  BY <1>1, <1>2, <1>3, <1>4, <1>5, <1>6, ReadFollows
<1>10. LineExplained'
  <2>1. Explained(u, wire', mirror')
    BY <1>2, <1>8
  <2>2. Agrees(u[1], tty')
    BY <1>8, <1>9
  <2> QED BY <2>1, <2>2 DEF LineExplained
<1>11. SwitchOnPrompt'
  <2>1. ASSUME NEW i \in 1..Len(wire'), wire'[i].key = "cd", wire'[i].quiet PROVE FALSE
    <3>1. i \in 1..(Len(wire) - 1) /\ i + 1 \in 1..Len(wire) /\ i + 1 # 1
      BY <1>4
    <3> QED BY <1>1, <1>4, <2>1, <3>1 DEF SwitchOnPrompt
  <2> QED BY <2>1 DEF SwitchOnPrompt
<1>12. QuietSinceProbe'
  BY <1>1, <1>2 DEF QuietSinceProbe
<1>13. InputTypes'
  BY <1>1, <1>2, <1>4, <1>9 DEF InputTypes
<1>14. MirrorBound'
  BY <1>1, <1>2 DEF MirrorBound
<1>15. RevCounts'
  <2>1. OnceSent("cd")' = OnceSent("cd") /\ OnceSent("osc133")' = OnceSent("osc133")
    BY <1>2 DEF OnceSent
  <2>2. mirror.rev \in Nat /\ Len(wire) <= mirror.rev
    BY <1>1 DEF InputTypes, MirrorType, RevCounts
  <2>3. Len(wire') <= mirror.rev
    BY <1>4, <2>2
  <2> QED BY <1>1, <1>2, <2>1, <2>3 DEF RevCounts
<1>16. strays' \subseteq {"osc133"}
  <2>1. ASSUME Stray(k) PROVE k.key = "osc133"
    <3>1. /\ tty.off # "lost"
          /\ \/ /\ k.key = "enter" /\ k.by = "agent" /\ tty.front \in Editing
                /\ tty.off = "esc" \/ Denied(tty.line)
             \/ /\ k.key \in Commands /\ k.quiet
                /\ tty.off = "esc" \/ tty.front \notin Editing \/ tty.line # <<>>
      BY <2>1 DEF Stray
    <3>a. v[1].known => v[1].line = tty.line /\ tty.off # "esc"
      BY <1>5, <3>1 DEF Agrees
    <3>2. CASE k.key = "enter" /\ k.by = "agent" /\ (tty.off = "esc" \/ Denied(tty.line))
      <4>1. v[1].line = tty.line /\ ~Denied(v[1].line) /\ tty.off # "esc"
        BY <1>6, <3>a, <3>2
      <4> QED BY <3>2, <4>1
    <3>3. CASE k.key = "cd" /\ k.quiet /\ (tty.off = "esc" \/ tty.front \notin Editing \/ tty.line # <<>>)
      <4>1. v[1].line = tty.line /\ v[1].line = <<>> /\ tty.off # "esc"
        BY <1>6, <3>a, <3>3
      <4> QED BY <1>7, <3>3, <4>1
    <3> QED BY <3>1, <3>2, <3>3 DEF Commands
  <2> QED BY <1>1, <1>2, <2>1
<1> QED BY <1>9, <1>10, <1>11, <1>12, <1>13, <1>14, <1>15, <1>16 DEF InputInv

(* One idle shell in front is one that can be typed into.                  *)
LEMMA IdleShellIsPrompt == ASSUME tty \in TtyType, ~second, OneIdleShell PROVE tty.front \in Editing
<1> SUFFICES ASSUME tty.front \notin Editing PROVE FALSE
  OBVIOUS
<1>1. tty.front \in {"job", "script"}
  BY DEF TtyType, Fronts, Editing
<1> DEFINE away == [front |-> FALSE, interactive |-> TRUE]
           script == [front |-> TRUE, interactive |-> FALSE]
<1>2. Candidates \subseteq {<<1, away>>, <<2, script>>}
  <2>1. tty.front # "prompt" /\ tty.front # "nested"
    BY <1>1
  <2>2. [front |-> tty.front = "prompt", interactive |-> TRUE] = away
    BY <2>1
  <2> HIDE DEF away
  <2> QED BY <2>1, <2>2 DEF Candidates
<1>3. ASSUME NEW c \in Candidates PROVE ~(c[2].front /\ c[2].interactive)
  <2>1. ~away.front /\ ~script.interactive
    OBVIOUS
  <2> HIDE DEF away, script
  <2>2. c = <<1, away>> \/ c = <<2, script>>
    BY <1>2
  <2>3. c[2] = away \/ c[2] = script
    BY <2>2
  <2> QED BY <2>1, <2>3
<1> DEFINE S == {c \in Candidates : c[2].front /\ c[2].interactive}
<1>4. S = {}
  BY <1>3
<1>5. Cardinality(S) = 1
  BY DEF OneIdleShell
<1>6. Cardinality({}) = 0
  BY FS_EmptySet
<1> HIDE DEF S
<1> QED BY <1>4, <1>5, <1>6

LEMMA AskRecord ==
  ASSUME NEW a \in AskType, NEW pc, NEW rev
  PROVE  /\ [a EXCEPT !.pc = pc] = [pc |-> pc, rev |-> a.rev, quiet |-> a.quiet]
         /\ [[a EXCEPT !.pc = pc] EXCEPT !.rev = rev] = [pc |-> pc, rev |-> rev, quiet |-> a.quiet]
<1>1. a = [pc |-> a.pc, rev |-> a.rev, quiet |-> a.quiet]
  BY DEF AskType
<1>2. [a EXCEPT !.pc = pc] = [pc |-> pc, rev |-> a.rev, quiet |-> a.quiet]
  BY <1>1
<1> DEFINE x == [a EXCEPT !.pc = pc]
<1>3. x = [pc |-> pc, rev |-> a.rev, quiet |-> a.quiet]
  BY <1>2
<1> HIDE DEF x
<1>4. [x EXCEPT !.rev = rev] = [pc |-> pc, rev |-> rev, quiet |-> a.quiet]
  BY <1>3
<1> QED BY <1>2, <1>4 DEF x

LEMMA InputStep == InputInv /\ [InputNext]_inputVars => InputInv'
<1> SUFFICES ASSUME InputInv, [InputNext]_inputVars PROVE InputInv'
  OBVIOUS
<1>1. /\ InputTypes /\ LineExplained /\ FrontTakesNone /\ SwitchOnPrompt /\ QuietSinceProbe
      /\ MirrorBound /\ RevCounts /\ strays \subseteq {"osc133"}
  BY DEF InputInv
<1>2. /\ mirror.rev \in Nat /\ mirror.known \in BOOLEAN /\ tty \in TtyType /\ ask \in [Commands -> AskType]
      /\ alive \in BOOLEAN /\ second \in BOOLEAN /\ "cd" \in Commands /\ "osc133" \in Commands
  BY <1>1 DEF InputTypes, MirrorType, Commands
<1>3. ASSUME NEW k \in Keys, OperatorTypes(k) PROVE InputInv'
  <2> DEFINE press == [key |-> k, by |-> "operator", quiet |-> FALSE]
  <2>1. Types(press, Mirrored(mirror, k))
    BY <1>3 DEF OperatorTypes
  <2>2. press \in WireKey /\ press.key = k /\ press.by = "operator"
    BY DEF WireKey
  <2> HIDE DEF press
  <2> QED BY <2>1, <2>2, TypesKeeps
<1>4. ASSUME NEW k \in Keys, AgentTypes(k) PROVE InputInv'
  <2> DEFINE press == [key |-> Guarded(k), by |-> "agent", quiet |-> FALSE]
  <2>1. Types(press, Mirrored(mirror, k))
    BY <1>4 DEF AgentTypes
  <2>2. /\ Guarded(k) = k \/ (k = "enter" /\ Guarded(k) = "kill")
        /\ Guarded(k) = "enter" => mirror.known /\ ~Denied(mirror.line)
    BY DEF Guarded, Keys
  <2>3. Guarded(k) \in Keys \union {"kill"} \union Commands
    BY <2>2
  <2>4. press \in WireKey /\ press.key = Guarded(k)
    BY <2>3 DEF WireKey
  <2> HIDE DEF press
  <2> QED BY <2>1, <2>2, <2>4, TypesKeeps
<1>5. CASE Reads
  BY <1>5, ReadsKeep
<1>6. CASE ProgramEnds
  <2>1. /\ tty' = [tty EXCEPT !.front = "prompt"]
        /\ UNCHANGED <<mirror, wire, typed, alive, second, ask, strays>>
    BY <1>6 DEF ProgramEnds
  <2>2. tty' \in TtyType /\ tty'.front = "prompt" /\ tty'.line = tty.line /\ tty'.off = tty.off
    BY <1>2, <2>1 DEF TtyType, Fronts
  <2>3. tty'.front \in Editing
    BY <2>2 DEF Editing
  <2>4. InputTypes'
    BY <1>1, <2>1, <2>2 DEF InputTypes
  <2>5. LineExplained'
    BY <1>1, <2>1, <2>2 DEF LineExplained, Agrees
  <2>6. FrontTakesNone'
    BY <2>3 DEF FrontTakesNone, Editing
  <2>7. SwitchOnPrompt'
    BY <1>1, <2>1, <2>3 DEF SwitchOnPrompt, Editing
  <2>8. QuietSinceProbe'
    BY <1>1, <2>1, <2>3 DEF QuietSinceProbe, Editing
  <2>9. MirrorBound' /\ RevCounts'
    BY <1>1, <2>1 DEF MirrorBound, RevCounts, OnceSent
  <2> QED BY <1>1, <2>1, <2>4, <2>5, <2>6, <2>7, <2>8, <2>9 DEF InputInv
<1>7. CASE SessionEnds
  <2>1. /\ alive' = FALSE /\ UNCHANGED <<mirror, wire, tty, typed, second, ask, strays>>
    BY <1>7 DEF SessionEnds
  <2>2. QuietSinceProbe' /\ OnceSent("cd")' = OnceSent("cd") /\ OnceSent("osc133")' = OnceSent("osc133")
    BY <1>1, <2>1 DEF QuietSinceProbe, OnceSent
  <2> QED BY <1>2, <2>1, <2>2, AskKeeps
<1>8. CASE SecondTerminal
  <2>1. /\ second' \in BOOLEAN /\ UNCHANGED <<mirror, wire, tty, typed, alive, ask, strays>>
    BY <1>2, <1>8 DEF SecondTerminal
  <2>2. QuietSinceProbe' /\ OnceSent("cd")' = OnceSent("cd") /\ OnceSent("osc133")' = OnceSent("osc133")
    BY <1>1, <2>1 DEF QuietSinceProbe, OnceSent
  <2> QED BY <1>2, <2>1, <2>2, AskKeeps
(* A request moves on without being sent.                                  *)
<1>9. ASSUME NEW c \in Commands, NEW pc \in {"probe", "check", "family", "refused"}, NEW rev \in Nat, NEW quiet \in BOOLEAN,
             ask[c].pc # "sent", ask' = [ask EXCEPT ![c] = [pc |-> pc, rev |-> rev, quiet |-> quiet]], Rest,
             c = "cd" => /\ rev <= mirror.rev
                         /\ pc = "check" /\ quiet /\ mirror.rev = rev => wire = <<>> /\ tty.front \in Editing
      PROVE  InputInv'
  <2> DEFINE a == [pc |-> pc, rev |-> rev, quiet |-> quiet]
  <2>1. a \in AskType /\ a.pc = pc /\ a.rev = rev /\ a.quiet = quiet
    BY DEF AskType
  <2>2. ask' = [ask EXCEPT ![c] = a]
    BY <1>9
  <2> HIDE DEF a
  <2>3. /\ ask' \in [Commands -> AskType] /\ ask'[c] = a
        /\ \A d \in Commands : d # c => ask'[d] = ask[d]
    BY <1>2, <2>1, <2>2
  <2>4. UNCHANGED <<mirror, wire, tty, typed, alive, second, strays>>
    BY <1>9 DEF Rest
  <2>5. ask'[c].pc # "sent"
    BY <2>1, <2>3
  <2>6. OnceSent("cd")' = OnceSent("cd") /\ OnceSent("osc133")' = OnceSent("osc133")
    BY <1>2, <1>9, <2>3, <2>5 DEF OnceSent
  <2>7. QuietSinceProbe'
    <3>1. CASE c = "cd"
      <4>1. ask'["cd"].pc = pc /\ ask'["cd"].rev = rev /\ ask'["cd"].quiet = quiet
        BY <2>1, <2>3, <3>1
      <4> QED BY <1>9, <2>4, <3>1, <4>1 DEF QuietSinceProbe, Editing
    <3>2. CASE c # "cd"
      BY <1>1, <1>2, <2>3, <2>4, <3>2 DEF QuietSinceProbe, Editing
    <3> QED BY <3>1, <3>2
  <2> QED BY <1>2, <2>3, <2>4, <2>6, <2>7, AskKeeps
<1>10. ASSUME NEW c \in Commands
       PROVE  /\ ask[c] = [pc |-> ask[c].pc, rev |-> ask[c].rev, quiet |-> ask[c].quiet]
              /\ ask[c].rev \in Nat /\ ask[c].quiet \in BOOLEAN
  BY <1>2 DEF AskType
<1>11. ask["cd"].rev <= mirror.rev
  BY <1>1 DEF QuietSinceProbe
<1>12. ASSUME NEW c \in Commands, NEW pc \in {"probe", "family", "refused"}, ask[c].pc # "sent", Asks(c, pc), Rest
       PROVE  InputInv'
  <2> DEFINE rev == ask[c].rev
             quiet == ask[c].quiet
  <2>1. rev \in Nat /\ quiet \in BOOLEAN /\ (c = "cd" => rev <= mirror.rev) /\ pc # "check"
    BY <1>10, <1>11
  <2>2. ask' = [ask EXCEPT ![c] = [pc |-> pc, rev |-> rev, quiet |-> quiet]]
    <3>1. ask' = [ask EXCEPT ![c].pc = pc]
      BY <1>12 DEF Asks
    <3>2. [ask[c] EXCEPT !.pc = pc] = [pc |-> pc, rev |-> rev, quiet |-> quiet]
      BY <1>2, AskRecord
    <3> QED BY <3>1, <3>2
  <2> HIDE DEF rev, quiet
  <2> QED BY <1>9, <1>12, <2>1, <2>2
<1>13. ASSUME NEW c \in Commands, Ask(c) PROVE InputInv'
  <2> DEFINE rev == mirror.rev
             quiet == ask[c].quiet
  <2>1. rev \in Nat /\ quiet \in BOOLEAN /\ rev <= mirror.rev /\ ask[c].pc # "sent" /\ Rest
    BY <1>2, <1>10, <1>13 DEF Ask, NoAsk
  <2>2. ask' = [ask EXCEPT ![c] = [pc |-> "probe", rev |-> rev, quiet |-> quiet]]
    <3>1. ask' = [ask EXCEPT ![c].pc = "probe", ![c].rev = rev]
      BY <1>13 DEF Ask
    <3>2. [[ask[c] EXCEPT !.pc = "probe"] EXCEPT !.rev = rev] = [pc |-> "probe", rev |-> rev, quiet |-> quiet]
      BY <1>2, AskRecord
    <3> QED BY <1>2, <3>1, <3>2
  <2> HIDE DEF rev, quiet
  <2> QED BY <1>9, <2>1, <2>2
<1>14. ASSUME NEW c \in Commands, Probe(c) PROVE InputInv'
  <2> DEFINE rev == ask[c].rev
             pc == IF c = "osc133" \/ OneIdleShell THEN "check" ELSE "refused"
  <2>1. PICK q \in BOOLEAN : q = (wire = <<>> /\ ~second)
    OBVIOUS
  <2>2. ask' = [ask EXCEPT ![c].pc = pc, ![c].quiet = q]
    BY <1>14, <2>1 DEF Probe
  <2>3. /\ rev \in Nat /\ pc \in {"check", "refused"} /\ (c = "cd" => rev <= mirror.rev)
        /\ ask[c].pc # "sent" /\ Rest
    BY <1>10, <1>11, <1>14 DEF Probe
  <2>4. c = "cd" /\ pc = "check" /\ q => wire = <<>> /\ tty.front \in Editing
    BY <1>2, <2>1, IdleShellIsPrompt
  <2> HIDE DEF pc
  <2>5. ask' = [ask EXCEPT ![c] = [pc |-> pc, rev |-> rev, quiet |-> q]]
    <3>1. [[ask[c] EXCEPT !.pc = pc] EXCEPT !.quiet = q] = [pc |-> pc, rev |-> rev, quiet |-> q]
      <4> DEFINE x == [ask[c] EXCEPT !.pc = pc]
      <4>1. x = [pc |-> pc, rev |-> rev, quiet |-> ask[c].quiet]
        BY <1>2, AskRecord
      <4> HIDE DEF x, rev
      <4>2. [x EXCEPT !.quiet = q] = [pc |-> pc, rev |-> rev, quiet |-> q]
        BY <4>1
      <4> QED BY <4>2 DEF x
    <3> QED BY <1>2, <2>2, <3>1
  <2> HIDE DEF rev
  <2> QED BY <1>9, <2>3, <2>4, <2>5
<1>15. ASSUME NEW c \in Commands, ProbeFails(c) PROVE InputInv'
  BY <1>12, <1>15 DEF ProbeFails
<1>16. CASE ChangeDirectory
  <2>1. CASE Ready /\ SameInput("cd")
    BY <1>2, <1>16, <2>1, SendKeeps DEF ChangeDirectory, Ready
  <2>2. CASE ~(Ready /\ SameInput("cd"))
    BY <1>2, <1>12, <1>16, <2>2 DEF ChangeDirectory
  <2> QED BY <2>1, <2>2
<1>17. CASE CheckIntegration
  BY <1>2, <1>12, <1>17 DEF CheckIntegration
<1>18. CASE EnableShellIntegration
  <2>1. CASE alive
    BY <1>2, <1>18, <2>1, SendKeeps DEF EnableShellIntegration
  <2>2. CASE ~alive
    BY <1>2, <1>12, <1>18, <2>2 DEF EnableShellIntegration
  <2> QED BY <2>1, <2>2
<1>19. CASE UNCHANGED inputVars
  <2>1. UNCHANGED <<mirror, wire, tty, typed, alive, second, ask, strays>>
    BY <1>19 DEF inputVars
  <2>2. QuietSinceProbe' /\ OnceSent("cd")' = OnceSent("cd") /\ OnceSent("osc133")' = OnceSent("osc133")
    BY <1>1, <2>1 DEF QuietSinceProbe, OnceSent
  <2> QED BY <1>2, <2>1, <2>2, AskKeeps
<1> QED BY <1>3, <1>4, <1>5, <1>6, <1>7, <1>8, <1>13, <1>14, <1>15, <1>16, <1>17, <1>18, <1>19 DEF InputNext

(* What the invariant says of the line once the wire is empty, and of the  *)
(* bounds.                                                                 *)
LEMMA InputInvGives == InputInv => InputSound /\ InputTypeOK
<1>1. ASSUME InputInv PROVE InputSound
  <2>1. PICK v : Explained(v, wire, mirror) /\ Agrees(v[1], tty)
    BY <1>1 DEF InputInv, LineExplained
  <2>2. ASSUME wire = <<>>, mirror.known, tty.off # "lost" PROVE mirror.line = tty.line
    <3>1. Len(wire) = 0
      BY <2>2, EmptySeq
    <3>2. v[1] = [line |-> mirror.line, known |-> mirror.known]
      BY <2>1, <3>1 DEF Explained
    <3> QED BY <2>1, <2>2, <3>2 DEF Agrees
  <2> QED BY <1>1, <2>2 DEF InputSound, InputInv
<1>2. ASSUME InputInv PROVE InputTypeOK
  <2>1. /\ mirror \in MirrorType /\ wire \in Seq(WireKey) /\ tty \in TtyType /\ typed \in Nat
        /\ MirrorBound /\ RevCounts /\ strays \subseteq {"osc133"}
    BY <1>2 DEF InputInv, InputTypes
  <2>2. /\ mirror.known \in BOOLEAN /\ mirror.rev \in Nat /\ Len(wire) \in Nat /\ tty.front \in Fronts /\ tty.off \in Offs
        /\ OnceSent("cd") \in 0..1 /\ OnceSent("osc133") \in 0..1 /\ MaxKeys \in Nat
    BY <2>1, TermInputAssumption DEF MirrorType, TtyType, OnceSent
  <2>3. mirror.rev <= MaxKeys + 2 /\ Len(wire) <= MaxKeys + 2
    BY <2>1, <2>2 DEF RevCounts
  <2> QED BY <2>1, <2>2, <2>3 DEF InputTypeOK, MirrorBound, Commands
<1> QED BY <1>1, <1>2

(* For any bounds, however operator, agent and host interleave their keys  *)
(* with what the server reads: once it has read everything, a line the     *)
(* mirror claims to know is the one in the shell; after an escape sequence *)
(* or a completion the gate fails closed, so that no agent's Enter reaches *)
(* the shell; none runs a denied line, and the directory command is read   *)
(* on an empty prompt and nowhere else; with the exceptions InputSound     *)
(* names.                                                                  *)
THEOREM InputIsSound == InputSpec => []InputSound
BY InputBegins, InputStep, InputInvGives, PTL DEF InputSpec

(* The mirror's line is bounded by MAX_INPUT_LINE_LENGTH, and no key is    *)
(* written but by a call that the revision counts.                         *)
THEOREM InputTypeCorrect == InputSpec => []InputTypeOK
BY InputBegins, InputStep, InputInvGives, PTL DEF InputSpec

-----------------------------------------------------------------------------
(* Folds.  The left fold of the community modules is a choice of a ladder  *)
(* of partial results; here that ladder is shown to exist and to be the    *)
(* only one, so that a fold goes on from its front, and joins.             *)
LEMMA NatMin ==
  ASSUME NEW T, T \subseteq Nat, T # {}
  PROVE  \E x \in T : \A y \in T : x <= y
<1> DEFINE R == OpToRel(<, Nat)
<1>1. \E x \in T : \A y \in T : ~(<<y, x>> \in R)
  <2>1. IsWellFoundedOn(R, Nat)
    BY NatLessThanWellFounded
  <2> HIDE DEF R
  <2> QED BY <2>1, WFMin
<1>2. \A x, y \in T : y < x => <<y, x>> \in R
  BY DEF OpToRel
<1> HIDE DEF R
<1>3. PICK x \in T : \A y \in T : ~(<<y, x>> \in R)
  BY <1>1
<1>4. \A y \in T : ~(y < x)
  BY <1>2, <1>3
<1>5. \A y \in T : x <= y
  BY <1>4
<1> QED BY <1>5

(* Induction over a set of naturals.                                       *)
LEMMA NatInd ==
  ASSUME NEW P, 0 \in P, \A n \in Nat : n \in P => n + 1 \in P
  PROVE  Nat \subseteq P
<1> SUFFICES ASSUME Nat \ P # {} PROVE FALSE
  OBVIOUS
<1>1. PICK x \in Nat \ P : \A y \in Nat \ P : x <= y
  BY NatMin
<1>2. x # 0 /\ x - 1 \in Nat /\ ~(x <= x - 1)
  BY <1>1
<1>3. x - 1 \in P
  BY <1>1, <1>2
<1>4. (x - 1) + 1 \in P
  BY <1>2, <1>3
<1> QED BY <1>1, <1>2, <1>4

(* The largest of finitely many naturals, which the fold of the community  *)
(* modules takes its positions by.                                         *)
LEMMA MaxIs ==
  ASSUME NEW n \in Nat, NEW t \in SUBSET (1 .. n), t # {}
  PROVE  Max(t) \in t /\ \A y \in t : Max(t) >= y
<1> DEFINE R == {n - y : y \in t}
<1>1. R \subseteq Nat /\ R # {}
  <2>1. ASSUME NEW y \in t PROVE n - y \in Nat
    OBVIOUS
  <2>2. PICK y \in t : TRUE
    OBVIOUS
  <2>3. n - y \in R
    BY <2>2
  <2> QED BY <2>1, <2>3
<1>2. PICK r \in R : \A q \in R : r <= q
  BY <1>1, NatMin
<1>3. PICK x \in t : r = n - x
  BY <1>2
<1>4. ASSUME NEW y \in t PROVE x >= y
  <2>1. n - y \in R /\ n - x <= n - y /\ x \in 1 .. n /\ y \in 1 .. n
    BY <1>2, <1>3
  <2> QED BY <2>1
<1> QED BY <1>3, <1>4 DEF Max

LEMMA TopOf ==
  ASSUME NEW n \in Nat, NEW k \in 1 .. n
  PROVE  /\ 1 .. k \in SUBSET (1 .. n) /\ 1 .. k # {} /\ Max(1 .. k) = k /\ (1 .. k) \ {k} = 1 .. (k - 1)
<1>1. 1 .. k \in SUBSET (1 .. n) /\ 1 .. k # {} /\ k \in 1 .. k /\ (1 .. k) \ {k} = 1 .. (k - 1)
  <2>1. k \in Nat /\ 1 <= k /\ k <= n
    OBVIOUS
  <2>2. k \in 1 .. k /\ 1 .. k \in SUBSET (1 .. n)
    BY <2>1
  <2>3. \A x : x \in (1 .. k) \ {k} <=> x \in 1 .. (k - 1)
    BY <2>1
  <2>4. (1 .. k) \ {k} = 1 .. (k - 1)
    BY <2>3, Zenon
  <2> QED BY <2>2, <2>4
<1>2. Max(1 .. k) \in 1 .. k /\ \A y \in 1 .. k : Max(1 .. k) >= y
  BY <1>1, MaxIs
<1>3. Max(1 .. k) = k
  BY <1>1, <1>2
<1> QED BY <1>1, <1>3

(* A fold by a function h is a function on the sets of positions.          *)
FoldsBy(it, n, base, s, h) ==
  \A t \in SUBSET (1 .. n) : it[t] = IF t = {} THEN base ELSE h[<<it[t \ {Max(t)}], s[Max(t)]>>]

(* A function with the equation of the fold exists.                        *)
LEMMA FoldExists ==
  ASSUME NEW T, NEW E, NEW base \in T, NEW s \in Seq(E), NEW h \in [T \X E -> T]
  PROVE  \E it \in [SUBSET (1 .. Len(s)) -> T] : FoldsBy(it, Len(s), base, s, h)
<1> DEFINE Ok(n) == \E it \in [SUBSET (1 .. n) -> T] : FoldsBy(it, n, base, s, h)
           P == {n \in Nat : n <= Len(s) => Ok(n)}
<1>1. 0 \in P
  <2> DEFINE it == [t \in SUBSET (1 .. 0) |-> base]
  <2>1. it \in [SUBSET (1 .. 0) -> T] /\ \A t \in SUBSET (1 .. 0) : t = {}
    OBVIOUS
  <2>2. FoldsBy(it, 0, base, s, h)
    BY <2>1 DEF FoldsBy
  <2> HIDE DEF it
  <2> QED BY <2>1, <2>2
<1>2. ASSUME NEW n \in Nat, n \in P PROVE n + 1 \in P
  <2> HIDE DEF Ok
  <2> SUFFICES ASSUME n + 1 <= Len(s) PROVE Ok(n + 1)
    OBVIOUS
  <2> USE DEF Ok
  <2>1. Len(s) \in Nat /\ n <= Len(s) /\ n + 1 \in 1 .. Len(s) /\ s[n + 1] \in E
    <3>1. Len(s) \in Nat /\ \A j \in 1 .. Len(s) : s[j] \in E
      OBVIOUS
    <3> QED BY <3>1
  <2>2. PICK g \in [SUBSET (1 .. n) -> T] : FoldsBy(g, n, base, s, h)
    BY <1>2, <2>1
  <2> DEFINE it == [t \in SUBSET (1 .. (n + 1)) |-> IF n + 1 \in t THEN h[<<g[t \ {n + 1}], s[n + 1]>>] ELSE g[t]]
  <2>3. ASSUME NEW t \in SUBSET (1 .. (n + 1)), n + 1 \in t
        PROVE  t \ {n + 1} \in SUBSET (1 .. n) /\ Max(t) = n + 1 /\ t # {} /\ n + 1 \notin t \ {n + 1}
    <3>1. n + 1 \in Nat /\ t # {}
      BY <2>3
    <3>2. Max(t) \in t /\ \A y \in t : Max(t) >= y
      BY <3>1, MaxIs
    <3>3. Max(t) = n + 1
      <4>1. Max(t) \in 1 .. (n + 1) /\ Max(t) >= n + 1
        BY <2>3, <3>2
      <4> QED BY <4>1
    <3>4. t \ {n + 1} \in SUBSET (1 .. n)
      OBVIOUS
    <3> QED BY <3>1, <3>3, <3>4
  <2>4. ASSUME NEW t \in SUBSET (1 .. (n + 1)), n + 1 \notin t
        PROVE  t \in SUBSET (1 .. n) /\ (t # {} => Max(t) \in t /\ t \ {Max(t)} \in SUBSET (1 .. n) /\ n + 1 \notin t \ {Max(t)})
    <3>1. t \in SUBSET (1 .. n)
      BY <2>4
    <3> QED BY <2>4, <3>1, MaxIs
  <2>5. ASSUME NEW t \in SUBSET (1 .. (n + 1)) PROVE it[t] \in T
    <3>1. CASE n + 1 \in t
      <4>1. it[t] = h[<<g[t \ {n + 1}], s[n + 1]>>] /\ g[t \ {n + 1}] \in T
        BY <2>2, <2>3, <3>1
      <4> QED BY <2>1, <4>1
    <3>2. CASE n + 1 \notin t
      BY <2>2, <2>4, <3>2
    <3> QED BY <3>1, <3>2
  <2>6. ASSUME NEW t \in SUBSET (1 .. (n + 1)) PROVE it[t] = IF t = {} THEN base ELSE h[<<it[t \ {Max(t)}], s[Max(t)]>>]
    <3>1. CASE n + 1 \in t
      <4>1. t \ {n + 1} \in SUBSET (1 .. (n + 1))
        OBVIOUS
      <4>2. it[t \ {n + 1}] = g[t \ {n + 1}]
        BY <2>3, <3>1, <4>1
      <4>3. it[t] = h[<<g[t \ {n + 1}], s[n + 1]>>]
        BY <3>1
      <4> HIDE DEF it
      <4> QED BY <2>3, <3>1, <4>2, <4>3
    <3>2. CASE n + 1 \notin t
      <4>1. it[t] = g[t] /\ t \in SUBSET (1 .. n)
        BY <2>4, <3>2
      <4>2. t # {} => it[t \ {Max(t)}] = g[t \ {Max(t)}]
        <5> SUFFICES ASSUME t # {} PROVE it[t \ {Max(t)}] = g[t \ {Max(t)}]
          OBVIOUS
        <5>1. n + 1 \notin t \ {Max(t)} /\ t \ {Max(t)} \in SUBSET (1 .. (n + 1))
          BY <2>4, <3>2
        <5> QED BY <5>1
      <4> HIDE DEF it
      <4> QED BY <2>2, <4>1, <4>2 DEF FoldsBy
    <3> QED BY <3>1, <3>2
  <2>7. it \in [SUBSET (1 .. (n + 1)) -> T]
    <3>1. it = [t \in SUBSET (1 .. (n + 1)) |-> it[t]]
      OBVIOUS
    <3> HIDE DEF it
    <3> QED BY <2>5, <3>1
  <2> HIDE DEF it
  <2>8. FoldsBy(it, n + 1, base, s, h)
    BY <2>6 DEF FoldsBy
  <2> QED BY <2>7, <2>8
<1>3. Nat \subseteq P
  <2> HIDE DEF P
  <2> QED BY <1>1, <1>2, NatInd
<1>4. Len(s) \in Nat /\ Len(s) <= Len(s)
  OBVIOUS
<1> QED BY <1>3, <1>4

(* The same fold, position by position, and where it ends.                 *)
Steps(g, base, s, h) == g[0] = base /\ \A k \in 1 .. Len(s) : g[k] = h[<<g[k - 1], s[k]>>]
Folded(h, base, s) == (CHOOSE g : Steps(g, base, s, h))[Len(s)]

(* It exists together with the values it goes through.                     *)
LEMMA StepsExist ==
  ASSUME NEW T, NEW E, NEW base \in T, NEW s \in Seq(E), NEW h \in [T \X E -> T]
  PROVE  \E it \in [SUBSET (1 .. Len(s)) -> T] :
           /\ FoldsBy(it, Len(s), base, s, h)
           /\ \E g \in [0 .. Len(s) -> T] : Steps(g, base, s, h) /\ g[Len(s)] = it[1 .. Len(s)]
<1> DEFINE n == Len(s)
<1>1. n \in Nat
  OBVIOUS
<1>2. PICK it \in [SUBSET (1 .. n) -> T] : FoldsBy(it, n, base, s, h)
  BY FoldExists
<1> DEFINE g == [k \in 0 .. n |-> it[1 .. k]]
<1> HIDE DEF n
<1>3. \A k \in 0 .. n : 1 .. k \in SUBSET (1 .. n)
  BY <1>1
<1>4. g \in [0 .. n -> T]
  BY <1>2, <1>3
<1>5. g[0] = base
  <2>1. 0 \in 0 .. n /\ 1 .. 0 = {}
    BY <1>1
  <2>2. it[{}] = base
    BY <1>2 DEF FoldsBy
  <2> QED BY <2>1, <2>2
<1>6. ASSUME NEW k \in 1 .. n PROVE g[k] = h[<<g[k - 1], s[k]>>]
  <2>1. 1 .. k \in SUBSET (1 .. n) /\ 1 .. k # {} /\ Max(1 .. k) = k /\ (1 .. k) \ {k} = 1 .. (k - 1)
    BY <1>1, TopOf
  <2>2. it[1 .. k] = h[<<it[(1 .. k) \ {Max(1 .. k)}], s[Max(1 .. k)]>>]
    BY <1>2, <2>1 DEF FoldsBy
  <2>3. it[1 .. k] = h[<<it[1 .. (k - 1)], s[k]>>]
    BY <2>1, <2>2
  <2>4. k \in 0 .. n /\ k - 1 \in 0 .. n
    BY <1>1
  <2> QED BY <2>3, <2>4
<1>7. g[n] = it[1 .. n]
  BY <1>1
<1> HIDE DEF g
<1>8. Steps(g, base, s, h)
  BY <1>5, <1>6 DEF Steps, n
<1> QED BY <1>2, <1>4, <1>7, <1>8 DEF n

(* The fold is where any such values end.                                  *)
LEMMA FoldedIs ==
  ASSUME NEW E, NEW s \in Seq(E), NEW base, NEW h, NEW g, Steps(g, base, s, h)
  PROVE  Folded(h, base, s) = g[Len(s)]
<1> DEFINE f == CHOOSE x : Steps(x, base, s, h)
           P == {k \in Nat : k <= Len(s) => f[k] = g[k]}
<1>1. Steps(f, base, s, h)
  <2> HIDE DEF f
  <2>1. \E x : Steps(x, base, s, h)
    OBVIOUS
  <2> QED BY <2>1 DEF f
<1> HIDE DEF f
<1>2. 0 \in P
  BY <1>1 DEF Steps
<1>3. ASSUME NEW k \in Nat, k \in P PROVE k + 1 \in P
  <2> SUFFICES ASSUME k + 1 <= Len(s) PROVE f[k + 1] = g[k + 1]
    OBVIOUS
  <2>1. Len(s) \in Nat
    OBVIOUS
  <2>2. k + 1 \in 1 .. Len(s) /\ (k + 1) - 1 = k /\ k <= Len(s)
    BY <2>1
  <2>3. f[k] = g[k]
    BY <1>3, <2>2
  <2>4. f[k + 1] = h[<<f[(k + 1) - 1], s[k + 1]>>] /\ g[k + 1] = h[<<g[(k + 1) - 1], s[k + 1]>>]
    BY <1>1, <2>2 DEF Steps
  <2> QED BY <2>2, <2>3, <2>4
<1>4. Nat \subseteq P
  <2> HIDE DEF P
  <2> QED BY <1>2, <1>3, NatInd
<1>5. Len(s) \in Nat /\ Len(s) <= Len(s)
  OBVIOUS
<1>6. f[Len(s)] = g[Len(s)]
  BY <1>4, <1>5
<1> QED BY <1>6 DEF Folded, f

(* A fold of nothing, of one element, and of one sequence after another.   *)
Folds(h, T, E) == h \in [T \X E -> T]

(* A fold over two sequences joined is one over the second from where the  *)
(* first ended.                                                            *)
LEMMA FoldedJoins ==
  ASSUME NEW T, NEW E, NEW h, Folds(h, T, E), NEW base \in T
  PROVE  /\ Folded(h, base, <<>>) = base
         /\ \A x \in E : Folded(h, base, <<x>>) = h[<<base, x>>]
         /\ \A s \in Seq(E) : Folded(h, base, s) \in T
         /\ \A a, b \in Seq(E) : Folded(h, base, a \o b) = Folded(h, Folded(h, base, a), b)
<1>0. h \in [T \X E -> T]
  BY DEF Folds
<1>1. Folded(h, base, <<>>) = base
  <2>1. <<>> \in Seq(E) /\ Len(<<>>) = 0
    BY EmptySeq
  <2>2. PICK g \in [0 .. Len(<<>>) -> T] : Steps(g, base, <<>>, h)
    BY <1>0, <2>1, StepsExist
  <2>3. g[0] = base
    BY <2>2 DEF Steps
  <2>4. Folded(h, base, <<>>) = g[Len(<<>>)]
    BY <2>1, <2>2, FoldedIs
  <2> QED BY <2>1, <2>3, <2>4
<1>2. ASSUME NEW s \in Seq(E) PROVE Folded(h, base, s) \in T
  <2>1. PICK g \in [0 .. Len(s) -> T] : Steps(g, base, s, h)
    BY <1>0, StepsExist
  <2>2. Folded(h, base, s) = g[Len(s)]
    BY <2>1, FoldedIs
  <2>3. Len(s) \in 0 .. Len(s)
    OBVIOUS
  <2> QED BY <2>1, <2>2, <2>3
<1>3. ASSUME NEW x \in E PROVE Folded(h, base, <<x>>) = h[<<base, x>>]
  <2> DEFINE s == <<x>>
  <2>1. s \in Seq(E) /\ Len(s) = 1 /\ s[1] = x
    OBVIOUS
  <2> HIDE DEF s
  <2>2. PICK g \in [0 .. Len(s) -> T] : Steps(g, base, s, h)
    BY <1>0, <2>1, StepsExist
  <2>3. g[0] = base /\ g[1] = h[<<g[1 - 1], s[1]>>]
    BY <2>1, <2>2 DEF Steps
  <2>4. Folded(h, base, s) = g[Len(s)]
    BY <2>1, <2>2, FoldedIs
  <2> QED BY <2>1, <2>3, <2>4 DEF s
<1>4. ASSUME NEW a \in Seq(E), NEW b \in Seq(E) PROVE Folded(h, base, a \o b) = Folded(h, Folded(h, base, a), b)
  <2> DEFINE s == a \o b
             m == Len(a)
             n == Len(b)
  <2>1. s \in Seq(E) /\ Len(s) = m + n /\ m \in Nat /\ n \in Nat
    BY ConcatProperties
  <2>2. \A k \in 1 .. m + n : s[k] = IF k <= m THEN a[k] ELSE b[k - m]
    BY ConcatProperties
  <2> HIDE DEF s
  <2>3. PICK g \in [0 .. Len(s) -> T] : Steps(g, base, s, h)
    BY <1>0, <2>1, StepsExist
  <2> DEFINE f == [k \in 0 .. n |-> g[m + k]]
  <2>4. Steps(g, base, a, h)
    <3>1. ASSUME NEW k \in 1 .. m PROVE g[k] = h[<<g[k - 1], a[k]>>]
      <4>1. k \in 1 .. m + n /\ k <= m
        BY <2>1
      <4>2. k \in 1 .. Len(s) /\ s[k] = a[k]
        BY <2>1, <2>2, <4>1
      <4> QED BY <2>3, <4>2 DEF Steps
    <3> QED BY <2>3, <3>1 DEF Steps
  <2>5. Folded(h, base, a) = g[m]
    BY <2>4, FoldedIs
  <2>6. Steps(f, g[m], b, h)
    <3>1. f[0] = g[m]
      BY <2>1
    <3>2. ASSUME NEW k \in 1 .. n PROVE f[k] = h[<<f[k - 1], b[k]>>]
      <4> HIDE DEF m, n
      <4>1. m + k \in 1 .. m + n /\ ~(m + k <= m) /\ (m + k) - m = k /\ (m + k) - 1 = m + (k - 1)
            /\ k \in 0 .. n /\ k - 1 \in 0 .. n
        BY <2>1
      <4>2. m + k \in 1 .. Len(s) /\ s[m + k] = b[k]
        BY <2>1, <2>2, <4>1
      <4>3. g[m + k] = h[<<g[(m + k) - 1], s[m + k]>>]
        BY <2>3, <4>2 DEF Steps
      <4> QED BY <4>1, <4>2, <4>3
    <3> HIDE DEF f
    <3> QED BY <3>1, <3>2 DEF Steps
  <2>7. Folded(h, g[m], b) = f[n]
    <3> HIDE DEF f
    <3> QED BY <2>6, FoldedIs DEF n
  <2>8. Folded(h, base, s) = g[m + n]
    <3>1. Folded(h, base, s) = g[Len(s)]
      BY <2>1, <2>3, FoldedIs
    <3> QED BY <2>1, <3>1
  <2>9. f[n] = g[m + n]
    BY <2>1
  <2> HIDE DEF f, m, n
  <2> QED BY <2>5, <2>7, <2>8, <2>9 DEF s
<1> QED BY <1>1, <1>2, <1>3, <1>4

(* A function on sets of positions that goes on by h from one position to  *)
(* the next ends where the fold ends.                                      *)
Ladder(f, T, E, base, s, h) ==
  /\ base \in T /\ s \in Seq(E) /\ h \in [T \X E -> T]
  /\ f[{}] = base /\ \A k \in 1 .. Len(s) : f[1 .. (k - 1)] \in T => f[1 .. k] = h[<<f[1 .. (k - 1)], s[k]>>]

(* A function that folds over sets of positions ends where the ladder of   *)
(* partial results does.                                                   *)
LEMMA LadderIs ==
  ASSUME NEW T, NEW E, NEW base, NEW s, NEW h, NEW f, Ladder(f, T, E, base, s, h)
  PROVE  f[1 .. Len(s)] = Folded(h, base, s)
<1>0. base \in T /\ s \in Seq(E) /\ h \in [T \X E -> T]
  BY DEF Ladder
<1>1. PICK g \in [0 .. Len(s) -> T] : Steps(g, base, s, h)
  BY <1>0, StepsExist
<1> DEFINE P == {k \in Nat : k <= Len(s) => f[1 .. k] = g[k]}
<1>2. 0 \in P
  <2>1. 1 .. 0 = {}
    OBVIOUS
  <2> QED BY <1>1, <2>1 DEF Steps, Ladder
<1>3. ASSUME NEW k \in Nat, k \in P PROVE k + 1 \in P
  <2> SUFFICES ASSUME k + 1 <= Len(s) PROVE f[1 .. (k + 1)] = g[k + 1]
    OBVIOUS
  <2>1. Len(s) \in Nat
    BY <1>0
  <2>2. k + 1 \in 1 .. Len(s) /\ (k + 1) - 1 = k /\ k <= Len(s) /\ k \in 0 .. Len(s)
    BY <2>1
  <2>3. f[1 .. k] = g[k] /\ g[k] \in T
    BY <1>1, <1>3, <2>2
  <2>4. f[1 .. (k + 1)] = h[<<f[1 .. k], s[k + 1]>>]
    BY <2>2, <2>3 DEF Ladder
  <2>5. g[k + 1] = h[<<g[k], s[k + 1]>>]
    BY <1>1, <2>2 DEF Steps
  <2> QED BY <2>3, <2>4, <2>5
<1>4. Nat \subseteq P
  <2> HIDE DEF P
  <2> QED BY <1>2, <1>3, NatInd
<1>5. Len(s) \in Nat /\ Len(s) <= Len(s)
  BY <1>0
<1>6. f[1 .. Len(s)] = g[Len(s)]
  BY <1>4, <1>5
<1>7. Folded(h, base, s) = g[Len(s)]
  BY <1>0, <1>1, FoldedIs
<1> QED BY <1>6, <1>7

-----------------------------------------------------------------------------
(* The markers in the output (ShellMarks).  Scan is shown to be the one    *)
(* function its cases describe, from the end of the buffer down; then, as  *)
(* long as no sequence outgrew what is kept, a reader that takes the       *)
(* buffer by the rule, from an idle state, ends where the markers found in *)
(* it lead, with the carry before it (ScanFollows).  The screen agrees     *)
(* with that reader on the good facts (BesideOne), and MarksInv follows.   *)
(* The states the markers lead through, and what the folds of the markers  *)
(* and of the characters are made of.                                      *)
MarkStates == [atPrompt : BOOLEAN, lastExitCode : {"none", "0"}, cwd : Seq(Tokens), commands : Nat]
Texts == Seq(Tokens)
Applies == [x \in MarkStates \X Texts |-> ApplyMark(x[1], x[2])]
Marked(s, found) == FoldLeft(ApplyMark, s, found)

(* A marker leads from state to state and counts at most one command.      *)
LEMMA ApplyMarkIs ==
  ASSUME NEW s \in MarkStates, NEW p \in Texts
  PROVE  ApplyMark(s, p) \in MarkStates /\ ApplyMark(s, p).commands \in s.commands .. (s.commands + 1)
<1>1. p # <<>> => Tail(p) \in Seq(Tokens)
  BY HeadTailProperties DEF Texts
<1>2. s.commands \in Nat
  BY DEF MarkStates
<1> DEFINE kind == IF p = <<>> THEN "" ELSE Head(p)
<1>3. ApplyMark(s, p) = CASE kind = "A" -> [s EXCEPT !.atPrompt = TRUE]
    [] kind = "B" -> [s EXCEPT !.atPrompt = FALSE]
    [] kind \in {"D0", "D"} ->
         [s EXCEPT !.atPrompt = FALSE, !.commands = @ + 1,
                   !.lastExitCode = IF kind = "D0" THEN "0" ELSE @]
    [] kind = "Cwd" -> [s EXCEPT !.cwd = Tail(p)]
    [] OTHER -> s
  BY DEF ApplyMark
<1>4. kind = "Cwd" => p # <<>>
  OBVIOUS
<1> HIDE DEF kind
<1>5. CASE kind = "A"
  <2> DEFINE r == [s EXCEPT !.atPrompt = TRUE]
  <2>1. ApplyMark(s, p) = r
    BY <1>3, <1>5
  <2>2. r \in MarkStates /\ r.commands = s.commands
    BY DEF MarkStates
  <2> HIDE DEF r
  <2> QED BY <1>2, <2>1, <2>2
<1>6. CASE kind = "B"
  <2> DEFINE r == [s EXCEPT !.atPrompt = FALSE]
  <2>1. ApplyMark(s, p) = r
    BY <1>3, <1>6
  <2>2. r \in MarkStates /\ r.commands = s.commands
    BY DEF MarkStates
  <2> HIDE DEF r
  <2> QED BY <1>2, <2>1, <2>2
<1>7. CASE kind \in {"D0", "D"}
  <2> DEFINE l == IF kind = "D0" THEN "0" ELSE s.lastExitCode
  <2>1. l \in {"none", "0"}
    BY DEF MarkStates
  <2> DEFINE c == s.commands + 1
             r == [s EXCEPT !.atPrompt = FALSE, !.commands = c, !.lastExitCode = l]
  <2>2. ApplyMark(s, p) = r
    BY <1>3, <1>7
  <2>3. r \in MarkStates /\ r.commands = c
    <3>1. c \in Nat
      BY <1>2
    <3> HIDE DEF c, l
    <3> QED BY <2>1, <3>1 DEF MarkStates
  <2> HIDE DEF r
  <2> QED BY <1>2, <2>2, <2>3
<1>8. CASE kind = "Cwd"
  <2> DEFINE t == Tail(p)
             r == [s EXCEPT !.cwd = t]
  <2>1. ApplyMark(s, p) = r /\ t \in Seq(Tokens)
    BY <1>1, <1>3, <1>4, <1>8
  <2>2. r \in MarkStates /\ r.commands = s.commands
    <3> HIDE DEF t
    <3> QED BY <2>1 DEF MarkStates
  <2> HIDE DEF r
  <2> QED BY <1>2, <2>1, <2>2
<1>9. CASE kind \notin {"A", "B", "D0", "D", "Cwd"}
  BY <1>2, <1>3, <1>9
<1> QED BY <1>5, <1>6, <1>7, <1>8, <1>9

LEMMA AppliesIs == Applies \in [MarkStates \X Texts -> MarkStates] /\ \A s \in MarkStates, p \in Texts : Applies[<<s, p>>] = ApplyMark(s, p)
<1>1. ASSUME NEW x \in MarkStates \X Texts PROVE ApplyMark(x[1], x[2]) \in MarkStates
  BY ApplyMarkIs
<1>2. ASSUME NEW s \in MarkStates, NEW p \in Texts PROVE Applies[<<s, p>>] = ApplyMark(s, p)
  BY DEF Applies
<1> QED BY <1>1, <1>2 DEF Applies

(* The fold of the markers is the ladder's.                                *)
LEMMA MarkedIsFolded ==
  ASSUME NEW base \in MarkStates, NEW s \in Seq(Texts)
  PROVE  Marked(base, s) = Folded(Applies, base, s)
<1> DEFINE n == Len(s)
           IsFold(f) == f = [t \in SUBSET (DOMAIN s) |-> IF t = {} THEN base ELSE LET x == Max(t) IN ApplyMark(f[t \ {x}], s[x])]
           ladder == CHOOSE f : IsFold(f)
<1>1. n \in Nat /\ DOMAIN s = 1 .. n /\ \A j \in 1 .. n : s[j] \in Texts
  OBVIOUS
<1>2. PICK it \in [SUBSET (1 .. n) -> MarkStates] : FoldsBy(it, n, base, s, Applies)
  BY AppliesIs, FoldExists
<1>3. IsFold(it)
  <2>1. ASSUME NEW t \in SUBSET (1 .. n), t # {} PROVE it[t] = ApplyMark(it[t \ {Max(t)}], s[Max(t)])
    <3>1. Max(t) \in t /\ t \ {Max(t)} \in SUBSET (1 .. n)
      BY <1>1, <2>1, MaxIs
    <3>2. it[t] = Applies[<<it[t \ {Max(t)}], s[Max(t)]>>]
      BY <1>2, <2>1 DEF FoldsBy
    <3> QED BY <1>1, <1>2, <3>1, <3>2, AppliesIs
  <2>2. it[{}] = base
    BY <1>2 DEF FoldsBy
  <2>3. \A t \in SUBSET (1 .. n) : it[t] = IF t = {} THEN base ELSE LET x == Max(t) IN ApplyMark(it[t \ {x}], s[x])
    BY <2>1, <2>2
  <2> QED BY <1>1, <1>2, <2>3
<1>4. IsFold(ladder)
  <2> HIDE DEF IsFold
  <2> QED BY <1>3
<1>5. Marked(base, s) = ladder[DOMAIN s]
  BY DEF Marked, FoldLeft, MapThenFoldSet
<1> HIDE DEF ladder
<1> PICK f : f = ladder
  OBVIOUS
<1>6. f[{}] = base
  <2>1. {} \in SUBSET (DOMAIN s)
    OBVIOUS
  <2> QED BY <1>4, <2>1
<1>7. ASSUME NEW k \in 1 .. n, f[1 .. (k - 1)] \in MarkStates PROVE f[1 .. k] = Applies[<<f[1 .. (k - 1)], s[k]>>]
  <2>1. 1 .. k \in SUBSET (1 .. n) /\ 1 .. k # {} /\ Max(1 .. k) = k /\ (1 .. k) \ {k} = 1 .. (k - 1)
    BY <1>1, TopOf
  <2>2. f[1 .. k] = ApplyMark(f[(1 .. k) \ {Max(1 .. k)}], s[Max(1 .. k)])
    BY <1>1, <1>4, <2>1
  <2>3. f[1 .. k] = ApplyMark(f[1 .. (k - 1)], s[k])
    BY <2>1, <2>2
  <2>4. s[k] \in Texts
    BY <1>1
  <2> HIDE DEF IsFold, n
  <2> QED BY <1>7, <2>3, <2>4, AppliesIs
<1>8. f[1 .. Len(s)] = Folded(Applies, base, s)
  <2>1. Applies \in [MarkStates \X Texts -> MarkStates]
    BY AppliesIs
  <2>2. Ladder(f, MarkStates, Texts, base, s, Applies)
    BY <1>6, <1>7, <2>1 DEF Ladder
  <2> HIDE DEF IsFold, n
  <2> QED BY <2>2, LadderIs
<1> QED BY <1>1, <1>5, <1>8

(* The markers of a chunk one after another, and of two chunks.            *)
LEMMA MarkedIs ==
  ASSUME NEW s \in MarkStates
  PROVE  /\ Marked(s, <<>>) = s
         /\ \A f \in Seq(Texts) : Marked(s, f) \in MarkStates
         /\ \A p \in Texts, f \in Seq(Texts) : Marked(s, <<p>> \o f) = Marked(ApplyMark(s, p), f)
<1>1. Folds(Applies, MarkStates, Texts)
  BY AppliesIs DEF Folds
<1>2. <<>> \in Seq(Texts)
  BY EmptySeq
<1>3. Marked(s, <<>>) = s
  <2>1. Folded(Applies, s, <<>>) = s
    BY <1>1, FoldedJoins
  <2>2. Marked(s, <<>>) = Folded(Applies, s, <<>>)
    BY <1>2, MarkedIsFolded
  <2> QED BY <2>1, <2>2
<1>4. ASSUME NEW f \in Seq(Texts) PROVE Marked(s, f) \in MarkStates
  BY <1>1, MarkedIsFolded, FoldedJoins
<1>5. ASSUME NEW p \in Texts, NEW f \in Seq(Texts) PROVE Marked(s, <<p>> \o f) = Marked(ApplyMark(s, p), f)
  <2> DEFINE o == <<p>>
             t == ApplyMark(s, p)
  <2>1. o \in Seq(Texts)
    OBVIOUS
  <2>2. Folded(Applies, s, o) = Applies[<<s, p>>]
    BY <1>1, FoldedJoins
  <2>3. Folded(Applies, s, o) = t /\ t \in MarkStates
    BY <2>2, AppliesIs, ApplyMarkIs
  <2> HIDE DEF o, t
  <2>4. Folded(Applies, s, o \o f) = Folded(Applies, Folded(Applies, s, o), f)
    BY <1>1, <2>1, FoldedJoins
  <2>5. o \o f \in Seq(Texts)
    BY <2>1, ConcatProperties
  <2>6. Marked(s, o \o f) = Folded(Applies, t, f)
    BY <2>3, <2>4, <2>5, MarkedIsFolded
  <2>7. Marked(t, f) = Folded(Applies, t, f)
    BY <2>3, MarkedIsFolded
  <2> QED BY <2>6, <2>7 DEF o, t
<1> QED BY <1>3, <1>4, <1>5

(* A marker counts one command at most.                                    *)
LEMMA MarkedCounts ==
  ASSUME NEW s \in MarkStates, NEW f \in Seq(Texts)
  PROVE  Marked(s, f).commands \in s.commands .. (s.commands + Len(f))
<1>1. PICK g \in [0 .. Len(f) -> MarkStates] : Steps(g, s, f, Applies)
  BY AppliesIs, StepsExist
<1>2. Marked(s, f) = g[Len(f)]
  BY <1>1, FoldedIs, MarkedIsFolded
<1> DEFINE c == s.commands
           P == {k \in Nat : k <= Len(f) => g[k].commands \in c .. (c + k)}
<1>3. c \in Nat /\ Len(f) \in Nat /\ \A k \in 1 .. Len(f) : f[k] \in Texts
  BY DEF MarkStates
<1>4. 0 \in P
  BY <1>1, <1>3 DEF Steps
<1>5. ASSUME NEW k \in Nat, k \in P PROVE k + 1 \in P
  <2> SUFFICES ASSUME k + 1 <= Len(f) PROVE g[k + 1].commands \in c .. (c + (k + 1))
    OBVIOUS
  <2> HIDE DEF c
  <2>1. k \in 0 .. Len(f) /\ k + 1 \in 1 .. Len(f) /\ (k + 1) - 1 = k /\ g[k] \in MarkStates
    BY <1>1, <1>3
  <2>2. g[k + 1] = Applies[<<g[(k + 1) - 1], f[k + 1]>>]
    BY <1>1, <2>1 DEF Steps
  <2>3. g[k + 1] = ApplyMark(g[k], f[k + 1]) /\ f[k + 1] \in Texts
    BY <1>3, <2>1, <2>2, AppliesIs
  <2>4. g[k + 1].commands \in g[k].commands .. (g[k].commands + 1)
    BY <2>1, <2>3, ApplyMarkIs
  <2>5. g[k].commands \in c .. (c + k)
    BY <1>5, <2>1
  <2> QED BY <1>3, <2>4, <2>5
<1>6. Nat \subseteq P
  <2> HIDE DEF P
  <2> QED BY <1>4, <1>5, NatInd
<1>7. Len(f) \in P
  BY <1>3, <1>6
<1>8. g[Len(f)].commands \in c .. (c + Len(f))
  BY <1>3, <1>7
<1> QED BY <1>2, <1>8

(* The rule, one character at a time.                                      *)
ReaderAt(m, p, s) == [mode |-> m, payload |-> p, state |-> s]
Readers ==
  {e \in [mode : {"text", "esc", "osc", "st"}, payload : Seq(Tokens), state : MarkStates] : e.mode = "st" => e.payload # <<>>}
Shows == [x \in Readers \X Tokens |-> ReadOne(x[1], x[2])]
Idle0(s) == ReaderAt("text", <<>>, s)

Turned(e, n, q) == [e EXCEPT !.mode = n, !.payload = q]

(* What changes a reader's mode and payload leaves a reader.               *)
LEMMA ReaderTurns ==
  ASSUME NEW p, NEW s, NEW m, NEW n, NEW q
  PROVE  Turned(ReaderAt(m, p, s), n, q) = ReaderAt(n, q, s)
<1> DEFINE R == [mode : {m, n}, payload : {p, q}, state : {s}]
<1> PICK e : e = ReaderAt(m, p, s)
  OBVIOUS
<1>1. e \in R
  BY DEF ReaderAt
<1> PICK r : r = Turned(e, n, q)
  OBVIOUS
<1>2. r \in R /\ r.mode = n /\ r.payload = q
  BY <1>1 DEF Turned
<1>3. r = ReaderAt(r.mode, r.payload, r.state) /\ r.state = s
  BY <1>2 DEF ReaderAt
<1>4. r = ReaderAt(n, q, s)
  BY <1>2, <1>3
<1> QED BY <1>4

(* One character, mode by mode.                                            *)
LEMMA ReadOneFrom ==
  ASSUME NEW p, NEW s, NEW c
  PROVE  /\ ReadOne(ReaderAt("text", p, s), c) = ReaderAt(IF c = "esc" THEN "esc" ELSE "text", <<>>, s)
         /\ ReadOne(ReaderAt("esc", p, s), c) =
              ReaderAt(IF c = "]" THEN "osc" ELSE IF c = "esc" THEN "esc" ELSE "text", <<>>, s)
         /\ \A m \in {"osc", "st"} :
              /\ c = "bel" => ReadOne(ReaderAt(m, p, s), c) = Idle0(ApplyMark(s, p))
              /\ c = "esc" => ReadOne(ReaderAt(m, p, s), c) = ReaderAt("st", Append(p, c), s)
              /\ c \notin {"bel", "esc"} /\ ~(m = "st" /\ c = "\\") =>
                   ReadOne(ReaderAt(m, p, s), c) = ReaderAt("osc", Append(p, c), s)
         /\ c = "\\" => ReadOne(ReaderAt("st", p, s), c) = Idle0(ApplyMark(s, Front(p)))
<1> DEFINE e(m) == ReaderAt(m, p, s)
<1>1. \A m : e(m).mode = m /\ e(m).payload = p /\ e(m).state = s
  BY DEF ReaderAt
<1>2. ReadOne(e("text"), c) = Turned(e("text"), IF c = "esc" THEN "esc" ELSE "text", <<>>)
  <2> HIDE DEF e
  <2> QED BY <1>1 DEF ReadOne, Turned
<1>3. ReadOne(e("esc"), c) = Turned(e("esc"), IF c = "]" THEN "osc" ELSE IF c = "esc" THEN "esc" ELSE "text", <<>>)
  <2> HIDE DEF e
  <2> QED BY <1>1 DEF ReadOne, Turned
<1>4. ASSUME NEW m \in {"osc", "st"}
      PROVE  /\ c = "bel" => ReadOne(e(m), c) = Idle0(ApplyMark(s, p))
             /\ c = "esc" => ReadOne(e(m), c) = Turned(e(m), "st", Append(p, c))
             /\ c \notin {"bel", "esc"} /\ ~(m = "st" /\ c = "\\") => ReadOne(e(m), c) = Turned(e(m), "osc", Append(p, c))
  <2>0. e(m).mode = m /\ e(m).payload = p /\ e(m).state = s
    BY <1>1
  <2> HIDE DEF e
  <2>1. ASSUME c = "bel" PROVE ReadOne(e(m), c) = Idle0(ApplyMark(s, p))
    BY <2>0, <2>1 DEF ReadOne, Idle0, ReaderAt
  <2>2. ASSUME c = "esc" PROVE ReadOne(e(m), c) = Turned(e(m), "st", Append(p, c))
    BY <2>0, <2>2 DEF ReadOne, Turned
  <2>3. ASSUME c \notin {"bel", "esc"}, ~(m = "st" /\ c = "\\") PROVE ReadOne(e(m), c) = Turned(e(m), "osc", Append(p, c))
    BY <2>0, <2>3 DEF ReadOne, Turned
  <2> QED BY <2>1, <2>2, <2>3
<1>5. c = "\\" => ReadOne(e("st"), c) = Idle0(ApplyMark(s, Front(p)))
  <2> HIDE DEF e
  <2> QED BY <1>1 DEF ReadOne, Idle0, ReaderAt
<1>6. \A m, n, q : Turned(e(m), n, q) = ReaderAt(n, q, s)
  BY ReaderTurns
<1> HIDE DEF e
<1> QED BY <1>2, <1>3, <1>4, <1>5, <1>6 DEF e

(* A character leads from reader to reader.                                *)
LEMMA ReadOneIs ==
  ASSUME NEW e \in Readers, NEW c \in Tokens
  PROVE  ReadOne(e, c) \in Readers
<1> PICK m \in {"text", "esc", "osc", "st"}, p \in Seq(Tokens), s \in MarkStates : e = ReaderAt(m, p, s) /\ (m = "st" => p # <<>>)
  BY DEF Readers, ReaderAt
<1>1. \A n \in {"text", "esc", "osc", "st"}, q \in Seq(Tokens), t \in MarkStates :
        (n = "st" => q # <<>>) => ReaderAt(n, q, t) \in Readers
  BY DEF Readers, ReaderAt
<1>2. <<>> \in Seq(Tokens) /\ Append(p, c) \in Seq(Tokens) /\ Append(p, c) # <<>>
  BY AppendProperties, EmptySeq
<1>3. ApplyMark(s, p) \in MarkStates
  BY ApplyMarkIs DEF Texts
<1>4. m = "st" => ApplyMark(s, Front(p)) \in MarkStates
  <2> SUFFICES ASSUME m = "st" PROVE Front(p) \in Texts
    BY ApplyMarkIs
  <2>1. Len(p) \in Nat /\ Len(p) # 0
    BY EmptySeq
  <2>2. PICK k \in Nat : Len(p) = k + 1 /\ Len(p) - 1 = k
    BY <2>1
  <2>3. Front(p) = SubSeq(p, 1, k)
    BY <2>2 DEF Front
  <2> QED BY <2>2, <2>3 DEF Texts
<1>5. CASE m = "text"
  <2> DEFINE n == IF c = "esc" THEN "esc" ELSE "text"
  <2>1. ReadOne(e, c) = ReaderAt(n, <<>>, s)
    BY <1>5, ReadOneFrom
  <2>2. n \in {"text", "esc"}
    OBVIOUS
  <2> HIDE DEF n
  <2> QED BY <1>1, <1>2, <2>1, <2>2
<1>6. CASE m = "esc"
  <2> DEFINE n == IF c = "]" THEN "osc" ELSE IF c = "esc" THEN "esc" ELSE "text"
  <2>1. ReadOne(e, c) = ReaderAt(n, <<>>, s)
    BY <1>6, ReadOneFrom
  <2>2. n \in {"text", "esc", "osc"}
    OBVIOUS
  <2> HIDE DEF n
  <2> QED BY <1>1, <1>2, <2>1, <2>2
<1>7. CASE m \in {"osc", "st"}
  <2>1. CASE c = "bel"
    <3>1. ReadOne(e, c) = Idle0(ApplyMark(s, p))
      BY <1>7, <2>1, ReadOneFrom
    <3> QED BY <1>1, <1>2, <1>3, <3>1 DEF Idle0
  <2>2. CASE c = "esc"
    <3>1. ReadOne(e, c) = ReaderAt("st", Append(p, c), s)
      BY <1>7, <2>2, ReadOneFrom
    <3> QED BY <1>1, <1>2, <3>1
  <2>3. CASE m = "st" /\ c = "\\"
    <3>1. ReadOne(e, c) = Idle0(ApplyMark(s, Front(p)))
      BY <2>3, ReadOneFrom
    <3> QED BY <1>1, <1>2, <1>4, <2>3, <3>1 DEF Idle0
  <2>4. CASE c \notin {"bel", "esc"} /\ ~(m = "st" /\ c = "\\")
    <3>1. ReadOne(e, c) = ReaderAt("osc", Append(p, c), s)
      BY <1>7, <2>4, ReadOneFrom
    <3> QED BY <1>1, <1>2, <3>1
  <2> QED BY <2>1, <2>2, <2>3, <2>4
<1> QED BY <1>5, <1>6, <1>7

LEMMA ShowsIs == Shows \in [Readers \X Tokens -> Readers] /\ \A e \in Readers, c \in Tokens : Shows[<<e, c>>] = ReadOne(e, c)
<1>1. ASSUME NEW x \in Readers \X Tokens PROVE ReadOne(x[1], x[2]) \in Readers
  BY ReadOneIs
<1>2. ASSUME NEW e \in Readers, NEW c \in Tokens PROVE Shows[<<e, c>>] = ReadOne(e, c)
  BY DEF Shows
<1> QED BY <1>1, <1>2 DEF Shows

LEMMA ReadAllIsFolded ==
  ASSUME NEW base \in Readers, NEW s \in Texts
  PROVE  ReadAll(base, s) = Folded(Shows, base, s)
<1> DEFINE n == Len(s)
           IsFold(f) == f = [t \in SUBSET (DOMAIN s) |-> IF t = {} THEN base ELSE LET x == Max(t) IN ReadOne(f[t \ {x}], s[x])]
           ladder == CHOOSE f : IsFold(f)
<1>1. n \in Nat /\ DOMAIN s = 1 .. n /\ \A j \in 1 .. n : s[j] \in Tokens
  BY DEF Texts
<1>2. PICK it \in [SUBSET (1 .. n) -> Readers] : FoldsBy(it, n, base, s, Shows)
  BY ShowsIs, FoldExists DEF Texts
<1>3. IsFold(it)
  <2>1. ASSUME NEW t \in SUBSET (1 .. n), t # {} PROVE it[t] = ReadOne(it[t \ {Max(t)}], s[Max(t)])
    <3>1. Max(t) \in t /\ t \ {Max(t)} \in SUBSET (1 .. n)
      BY <1>1, <2>1, MaxIs
    <3>2. it[t] = Shows[<<it[t \ {Max(t)}], s[Max(t)]>>]
      BY <1>2, <2>1 DEF FoldsBy
    <3> QED BY <1>1, <1>2, <3>1, <3>2, ShowsIs
  <2>2. it[{}] = base
    BY <1>2 DEF FoldsBy
  <2>3. \A t \in SUBSET (1 .. n) : it[t] = IF t = {} THEN base ELSE LET x == Max(t) IN ReadOne(it[t \ {x}], s[x])
    BY <2>1, <2>2
  <2> QED BY <1>1, <1>2, <2>3
<1>4. IsFold(ladder)
  <2> HIDE DEF IsFold
  <2> QED BY <1>3
<1>5. ReadAll(base, s) = ladder[DOMAIN s]
  BY DEF ReadAll, FoldLeft, MapThenFoldSet
<1> HIDE DEF ladder
<1> PICK f : f = ladder
  OBVIOUS
<1>6. f[{}] = base
  <2>1. {} \in SUBSET (DOMAIN s)
    OBVIOUS
  <2> QED BY <1>4, <2>1
<1>7. ASSUME NEW k \in 1 .. n, f[1 .. (k - 1)] \in Readers PROVE f[1 .. k] = Shows[<<f[1 .. (k - 1)], s[k]>>]
  <2>1. 1 .. k \in SUBSET (1 .. n) /\ 1 .. k # {} /\ Max(1 .. k) = k /\ (1 .. k) \ {k} = 1 .. (k - 1)
    BY <1>1, TopOf
  <2>2. f[1 .. k] = ReadOne(f[(1 .. k) \ {Max(1 .. k)}], s[Max(1 .. k)])
    BY <1>1, <1>4, <2>1
  <2>3. f[1 .. k] = ReadOne(f[1 .. (k - 1)], s[k])
    BY <2>1, <2>2
  <2>4. s[k] \in Tokens
    BY <1>1
  <2> HIDE DEF IsFold, n
  <2> QED BY <1>7, <2>3, <2>4, ShowsIs
<1>8. f[1 .. Len(s)] = Folded(Shows, base, s)
  <2>1. Shows \in [Readers \X Tokens -> Readers]
    BY ShowsIs
  <2>2. Ladder(f, Readers, Tokens, base, s, Shows)
    BY <1>6, <1>7, <2>1 DEF Ladder, Texts
  <2> HIDE DEF IsFold, n
  <2> QED BY <2>2, LadderIs
<1> QED BY <1>1, <1>5, <1>8

(* The characters of a chunk one after another, and of two chunks.         *)
LEMMA ReadAllIs ==
  ASSUME NEW e \in Readers
  PROVE  /\ ReadAll(e, <<>>) = e
         /\ \A c \in Tokens : ReadAll(e, <<c>>) = ReadOne(e, c)
         /\ \A s \in Texts : ReadAll(e, s) \in Readers
         /\ \A a, b \in Texts : ReadAll(e, a \o b) = ReadAll(ReadAll(e, a), b)
<1>1. Folds(Shows, Readers, Tokens)
  BY ShowsIs DEF Folds
<1>2. <<>> \in Texts
  BY EmptySeq DEF Texts
<1>3. ReadAll(e, <<>>) = e
  BY <1>1, <1>2, ReadAllIsFolded, FoldedJoins
<1>4. ASSUME NEW s \in Texts PROVE ReadAll(e, s) \in Readers
  BY <1>1, ReadAllIsFolded, FoldedJoins DEF Texts
<1>5. ASSUME NEW c \in Tokens PROVE ReadAll(e, <<c>>) = ReadOne(e, c)
  <2> DEFINE o == <<c>>
  <2>1. o \in Texts
    BY DEF Texts
  <2>2. Folded(Shows, e, o) = Shows[<<e, c>>]
    BY <1>1, FoldedJoins
  <2> HIDE DEF o
  <2>3. ReadAll(e, o) = Folded(Shows, e, o)
    BY <2>1, ReadAllIsFolded
  <2> QED BY <2>2, <2>3, ShowsIs DEF o
<1>6. ASSUME NEW a \in Texts, NEW b \in Texts PROVE ReadAll(e, a \o b) = ReadAll(ReadAll(e, a), b)
  <2>1. a \o b \in Texts
    BY ConcatProperties DEF Texts
  <2>2. Folded(Shows, e, a \o b) = Folded(Shows, Folded(Shows, e, a), b)
    BY <1>1, FoldedJoins DEF Texts
  <2>3. ReadAll(e, a) = Folded(Shows, e, a) /\ ReadAll(e, a) \in Readers
    BY <1>4, ReadAllIsFolded
  <2>4. ReadAll(ReadAll(e, a), b) = Folded(Shows, ReadAll(e, a), b)
    BY <2>3, ReadAllIsFolded
  <2>5. ReadAll(e, a \o b) = Folded(Shows, e, a \o b)
    BY <2>1, ReadAllIsFolded
  <2> QED BY <2>2, <2>3, <2>4, <2>5
<1> QED BY <1>3, <1>4, <1>5, <1>6

(* The terminal of the panel, beside the reader of the rule.               *)
ScreenAt(m, p, s, b, g) == [mode |-> m, payload |-> p, state |-> s, cut |-> b, good |-> g]
Modes == {"text", "esc", "osc", "st"}
Screens == [mode : Modes, payload : Texts, state : MarkStates, cut : BOOLEAN, good : SUBSET Facts]
Paints == [x \in Screens \X Tokens |-> ShowOne(x[1], x[2])]
Agree(g, s, t) == \A f \in g : s[f] = t[f]

(* A marker leaves two states agreeing on what they agreed on, and on what *)
(* it sets.                                                                *)
LEMMA MarkShares ==
  ASSUME NEW s \in MarkStates, NEW t \in MarkStates, NEW p \in Texts, NEW g \in SUBSET Facts, Agree(g, s, t)
  PROVE  Agree(g \cup Sets(p), ApplyMark(s, p), ApplyMark(t, p)) /\ g \cup Sets(p) \in SUBSET Facts
<1> DEFINE kind == IF p = <<>> THEN "" ELSE Head(p)
           Made(u) == CASE kind = "A" -> [u EXCEPT !.atPrompt = TRUE]
                        [] kind = "B" -> [u EXCEPT !.atPrompt = FALSE]
                        [] kind \in {"D0", "D"} ->
                             [u EXCEPT !.atPrompt = FALSE, !.commands = @ + 1,
                                       !.lastExitCode = IF kind = "D0" THEN "0" ELSE @]
                        [] kind = "Cwd" -> [u EXCEPT !.cwd = Tail(p)]
                        [] OTHER -> u
<1>1. ApplyMark(s, p) = Made(s) /\ ApplyMark(t, p) = Made(t)
  BY DEF ApplyMark
<1>2. Sets(p) = CASE kind \in {"A", "B", "D"} -> {"atPrompt"}
                  [] kind = "D0" -> {"atPrompt", "lastExitCode"}
                  [] kind = "Cwd" -> {"cwd"}
                  [] OTHER -> {}
  BY DEF Sets
<1>3. /\ s = [atPrompt |-> s.atPrompt, lastExitCode |-> s.lastExitCode, cwd |-> s.cwd, commands |-> s.commands]
      /\ t = [atPrompt |-> t.atPrompt, lastExitCode |-> t.lastExitCode, cwd |-> t.cwd, commands |-> t.commands]
  BY DEF MarkStates
<1>4. PICK e : e = Tail(p)
  OBVIOUS
<1> HIDE DEF kind
<1>5. CASE kind = "A"
  <2>1. Made(s) = [s EXCEPT !.atPrompt = TRUE] /\ Made(t) = [t EXCEPT !.atPrompt = TRUE] /\ Sets(p) = {"atPrompt"}
    BY <1>2, <1>5
  <2> HIDE DEF Made
  <2> QED BY <1>1, <1>3, <2>1 DEF Agree, Facts
<1>6. CASE kind = "B"
  <2>1. Made(s) = [s EXCEPT !.atPrompt = FALSE] /\ Made(t) = [t EXCEPT !.atPrompt = FALSE] /\ Sets(p) = {"atPrompt"}
    BY <1>2, <1>6
  <2> HIDE DEF Made
  <2> QED BY <1>1, <1>3, <2>1 DEF Agree, Facts
<1>7. CASE kind = "D0"
  <2>1. /\ \A u \in {s, t} : Made(u) = [u EXCEPT !.atPrompt = FALSE, !.commands = u.commands + 1, !.lastExitCode = "0"]
        /\ Sets(p) = {"atPrompt", "lastExitCode"}
    BY <1>2, <1>7
  <2> HIDE DEF Made
  <2> QED BY <1>1, <1>3, <2>1 DEF Agree, Facts
<1>8. CASE kind = "D"
  <2>1. /\ \A u \in {s, t} : Made(u) = [u EXCEPT !.atPrompt = FALSE, !.commands = u.commands + 1, !.lastExitCode = u.lastExitCode]
        /\ Sets(p) = {"atPrompt"}
    BY <1>2, <1>8
  <2> HIDE DEF Made
  <2> QED BY <1>1, <1>3, <2>1 DEF Agree, Facts
<1>9. CASE kind = "Cwd"
  <2>1. Made(s) = [s EXCEPT !.cwd = e] /\ Made(t) = [t EXCEPT !.cwd = e] /\ Sets(p) = {"cwd"}
    BY <1>2, <1>4, <1>9
  <2> HIDE DEF Made
  <2> QED BY <1>1, <1>3, <2>1 DEF Agree, Facts
<1>10. CASE kind \notin {"A", "B", "D0", "D", "Cwd"}
  <2>1. Made(s) = s /\ Made(t) = t /\ Sets(p) = {}
    BY <1>2, <1>10
  <2> HIDE DEF Made
  <2> QED BY <1>1, <2>1 DEF Agree
<1> QED BY <1>5, <1>6, <1>7, <1>8, <1>9, <1>10

Repaint(v, n, q) == [v EXCEPT !.mode = n, !.payload = q]
Doubt(v) == [v EXCEPT !.cut = TRUE, !.good = {}]

LEMMA ScreenTurns ==
  ASSUME NEW m, NEW p, NEW s, NEW b, NEW g, NEW n, NEW q
  PROVE  Repaint(ScreenAt(m, p, s, b, g), n, q) = ScreenAt(n, q, s, b, g)
<1> DEFINE R == [mode : {m, n}, payload : {p, q}, state : {s}, cut : {b}, good : {g}]
<1> PICK e : e = ScreenAt(m, p, s, b, g)
  OBVIOUS
<1>1. e \in R
  BY DEF ScreenAt
<1> PICK r : r = Repaint(e, n, q)
  OBVIOUS
<1>2. r \in R /\ r.mode = n /\ r.payload = q
  BY <1>1 DEF Repaint
<1>3. r = ScreenAt(r.mode, r.payload, r.state, r.cut, r.good) /\ r.state = s /\ r.cut = b /\ r.good = g
  BY <1>2 DEF ScreenAt
<1> QED BY <1>2, <1>3

LEMMA ScreenDoubts ==
  ASSUME NEW m, NEW p, NEW s, NEW b, NEW g
  PROVE  Doubt(ScreenAt(m, p, s, b, g)) = ScreenAt(m, p, s, TRUE, {})
<1> DEFINE R == [mode : {m}, payload : {p}, state : {s}, cut : {b, TRUE}, good : {g, {}}]
<1> PICK e : e = ScreenAt(m, p, s, b, g)
  OBVIOUS
<1>1. e \in R
  BY DEF ScreenAt
<1> PICK d : d = Doubt(e)
  OBVIOUS
<1>2. d \in R /\ d.cut = TRUE /\ d.good = {}
  BY <1>1 DEF Doubt
<1>3. d = ScreenAt(d.mode, d.payload, d.state, d.cut, d.good) /\ d.mode = m /\ d.payload = p /\ d.state = s
  BY <1>2 DEF ScreenAt
<1> QED BY <1>2, <1>3

(* One character on the screen, mode by mode.                              *)
ShowsFrom(p, s, b, g, c) ==
  /\ ShowOne(ScreenAt("text", p, s, b, g), c) = ScreenAt(IF c = "esc" THEN "esc" ELSE "text", <<>>, s, b, g)
  /\ c = "bel" => ShowOne(ScreenAt("esc", p, s, b, g), c) = ScreenAt("esc", p, s, TRUE, {})
  /\ c # "bel" => ShowOne(ScreenAt("esc", p, s, b, g), c) = ScreenAt(Begins(c), <<>>, s, b, g)
  /\ c = "bel" => ShowOne(ScreenAt("osc", p, s, b, g), c) =
                    ScreenAt("text", <<>>, ApplyMark(s, p), FALSE, IF b THEN {} ELSE g \cup Sets(p))
  /\ c = "esc" => ShowOne(ScreenAt("osc", p, s, b, g), c) = ScreenAt("st", p, s, b, g)
  /\ c \notin {"bel", "esc"} => ShowOne(ScreenAt("osc", p, s, b, g), c) = ScreenAt("osc", Append(p, c), s, b, g)
  /\ c = "\\" => ShowOne(ScreenAt("st", p, s, b, g), c) =
                   ScreenAt("text", <<>>, ApplyMark(s, p), FALSE, IF b THEN {} ELSE g \cup Sets(p))
  /\ c # "\\" => ShowOne(ScreenAt("st", p, s, b, g), c) = ScreenAt(Begins(c), <<>>, ApplyMark(s, p), TRUE, {})

LEMMA ShowOneFrom == ASSUME NEW p, NEW s, NEW b, NEW g, NEW c PROVE ShowsFrom(p, s, b, g, c)
<1> DEFINE v(m) == ScreenAt(m, p, s, b, g)
           to(m, n, q) == Repaint(v(m), n, q)
<1>1. \A m : v(m).mode = m /\ v(m).payload = p /\ v(m).state = s /\ v(m).cut = b /\ v(m).good = g
  BY DEF ScreenAt
<1>2. \A m, n, q : to(m, n, q) = ScreenAt(n, q, s, b, g)
  BY ScreenTurns
<1>3. Doubt(v("esc")) = ScreenAt("esc", p, s, TRUE, {})
  BY ScreenDoubts
<1>4. ShowOne(v("text"), c) = to("text", IF c = "esc" THEN "esc" ELSE "text", <<>>)
  <2> HIDE DEF v
  <2> QED BY <1>1 DEF ShowOne, Repaint
<1>5. ShowOne(v("esc"), c) = IF c = "bel" THEN Doubt(v("esc")) ELSE to("esc", Begins(c), <<>>)
  <2> HIDE DEF v
  <2> QED BY <1>1 DEF ShowOne, Repaint, Doubt
<1> DEFINE whole == ScreenAt("text", <<>>, ApplyMark(s, p), FALSE, IF b THEN {} ELSE g \cup Sets(p))
<1>6. /\ c = "bel" => ShowOne(v("osc"), c) = whole
      /\ c = "esc" => ShowOne(v("osc"), c) = to("osc", "st", p)
      /\ c \notin {"bel", "esc"} => ShowOne(v("osc"), c) = to("osc", "osc", Append(p, c))
  <2> HIDE DEF v
  <2>1. ASSUME c = "bel" PROVE ShowOne(v("osc"), c) = whole
    BY <1>1, <2>1 DEF ShowOne, ScreenAt
  <2>2. ASSUME c = "esc" PROVE ShowOne(v("osc"), c) = to("osc", "st", p)
    BY <1>1, <2>2 DEF ShowOne, Repaint
  <2>3. ASSUME c \notin {"bel", "esc"} PROVE ShowOne(v("osc"), c) = to("osc", "osc", Append(p, c))
    BY <1>1, <2>3 DEF ShowOne, Repaint
  <2> QED BY <2>1, <2>2, <2>3
<1>7. /\ c = "\\" => ShowOne(v("st"), c) = whole
      /\ c # "\\" => ShowOne(v("st"), c) = ScreenAt(Begins(c), <<>>, ApplyMark(s, p), TRUE, {})
  <2> HIDE DEF v
  <2>1. ASSUME c = "\\" PROVE ShowOne(v("st"), c) = whole
    <3>1. ShowOne(v("st"), c) = [mode |-> "text", payload |-> <<>>, state |-> ApplyMark(s, p), cut |-> FALSE,
                                 good |-> IF b THEN {} ELSE g \cup Sets(p)]
      <4> PICK e : e = v("st") /\ e.mode = "st" /\ e.payload = p /\ e.state = s /\ e.cut = b /\ e.good = g
        BY <1>1
      <4>1. ShowOne(e, c) = [mode |-> "text", payload |-> <<>>, state |-> ApplyMark(e.state, e.payload), cut |-> FALSE,
                             good |-> IF e.cut THEN {} ELSE e.good \cup Sets(e.payload)]
        BY <2>1 DEF ShowOne
      <4> QED BY <4>1
    <3> QED BY <3>1 DEF ScreenAt
  <2>2. ASSUME c # "\\" PROVE ShowOne(v("st"), c) = ScreenAt(Begins(c), <<>>, ApplyMark(s, p), TRUE, {})
    BY <1>1, <2>2 DEF ShowOne, ScreenAt
  <2> QED BY <2>1, <2>2
<1> HIDE DEF v, to, whole
<1>8. \A m : v(m) = ScreenAt(m, p, s, b, g)
  BY DEF v
<1> QED BY <1>2, <1>3, <1>4, <1>5, <1>6, <1>7, <1>8 DEF ShowsFrom, whole

(* What was put last is what the front leaves out.                         *)
LEMMA FrontOfAppend == ASSUME NEW p \in Texts, NEW c \in Tokens PROVE Front(Append(p, c)) = p
<1> DEFINE a == Append(p, c)
<1>1. a \in Texts /\ Len(a) = Len(p) + 1 /\ Len(p) \in Nat /\ \A i \in 1 .. Len(p) : a[i] = p[i]
  BY AppendProperties DEF Texts
<1> HIDE DEF a
<1>2. Front(a) = SubSeq(a, 1, Len(p))
  BY <1>1 DEF Front
<1>3. \A i \in 1 .. Len(p) : a[i] \in Tokens
  BY <1>1 DEF Texts
<1>4. /\ SubSeq(a, 1, Len(p)) \in Seq(Tokens)
      /\ Len(SubSeq(a, 1, Len(p))) = (IF 1 <= Len(p) THEN Len(p) - 1 + 1 ELSE 0)
      /\ \A i \in 1 .. (Len(p) - 1 + 1) : SubSeq(a, 1, Len(p))[i] = a[1 + i - 1]
  BY <1>1, <1>3, SubSeqProperties
<1>5. Len(SubSeq(a, 1, Len(p))) = Len(p) /\ \A i \in 1 .. Len(p) : SubSeq(a, 1, Len(p))[i] = p[i]
  BY <1>1, <1>4
<1>6. SubSeq(a, 1, Len(p)) = p
  BY <1>4, <1>5, SeqEqual DEF Texts
<1> QED BY <1>2, <1>6 DEF a

(* Every screen is one made of its fields.                                 *)
LEMMA ScreenIn ==
  /\ \A v \in Screens : \E m \in Modes, p \in Texts, s \in MarkStates, b \in BOOLEAN, g \in SUBSET Facts : v = ScreenAt(m, p, s, b, g)
  /\ \A m \in Modes, p \in Texts, s \in MarkStates, b \in BOOLEAN, g \in SUBSET Facts : ScreenAt(m, p, s, b, g) \in Screens
<1>1. ASSUME NEW v \in Screens
      PROVE  \E m \in Modes, p \in Texts, s \in MarkStates, b \in BOOLEAN, g \in SUBSET Facts : v = ScreenAt(m, p, s, b, g)
  <2>1. /\ v = ScreenAt(v.mode, v.payload, v.state, v.cut, v.good)
        /\ v.mode \in Modes /\ v.payload \in Texts /\ v.state \in MarkStates /\ v.cut \in BOOLEAN /\ v.good \in SUBSET Facts
    BY DEF Screens, ScreenAt
  <2> QED BY <2>1
<1>2. ASSUME NEW m \in Modes, NEW p \in Texts, NEW s \in MarkStates, NEW b \in BOOLEAN, NEW g \in SUBSET Facts
      PROVE  ScreenAt(m, p, s, b, g) \in Screens
  BY DEF Screens, ScreenAt
<1> QED BY <1>1, <1>2

LEMMA ScreenFields ==
  ASSUME NEW m, NEW p, NEW s, NEW b, NEW g
  PROVE  LET v == ScreenAt(m, p, s, b, g) IN v.mode = m /\ v.payload = p /\ v.state = s /\ v.cut = b /\ v.good = g
BY DEF ScreenAt

(* What the screen shows and what the rule reads: in step until a sequence *)
(* is cut, and agreeing on the good facts always.                          *)
Beside(r, v) ==
  /\ v.mode = "st" => r.mode \in {"esc", "st"}
  /\ v.cut => v.good = {}
  /\ Agree(v.good, r.state, v.state)
  /\ ~v.cut => /\ r.mode = v.mode
               /\ v.mode = "osc" => r.payload = v.payload
               /\ v.mode = "st" => r.payload = Append(v.payload, "esc")

LEMMA BesideOne ==
  ASSUME NEW r \in Readers, NEW v \in Screens, Beside(r, v), NEW c \in Tokens
  PROVE  ShowOne(v, c) \in Screens /\ Beside(ReadOne(r, c), ShowOne(v, c))
<1> PICK m \in Modes, p \in Texts, s \in MarkStates, b \in BOOLEAN, g \in SUBSET Facts : v = ScreenAt(m, p, s, b, g)
  BY ScreenIn
<1> PICK n \in Modes, q \in Texts, t \in MarkStates : r = ReaderAt(n, q, t) /\ (n = "st" => q # <<>>)
  BY DEF Readers, ReaderAt, Modes, Texts
<1>1. /\ v.mode = m /\ v.payload = p /\ v.state = s /\ v.cut = b /\ v.good = g
      /\ r.mode = n /\ r.payload = q /\ r.state = t
  BY ScreenFields DEF ReaderAt
<1>2. /\ m = "st" => n \in {"esc", "st"}
      /\ b => g = {}
      /\ Agree(g, t, s)
      /\ ~b => n = m /\ (m = "osc" => q = p) /\ (m = "st" => q = Append(p, "esc"))
  BY <1>1 DEF Beside
<1> DEFINE h == IF b THEN {} ELSE g \cup Sets(p)
           whole == ScreenAt("text", <<>>, ApplyMark(s, p), FALSE, h)
           rest == Idle0(ApplyMark(t, p))
<1>3. /\ <<>> \in Texts /\ Append(p, c) \in Texts /\ ApplyMark(s, p) \in MarkStates /\ ApplyMark(t, p) \in MarkStates
      /\ "text" \in Modes /\ "esc" \in Modes /\ "osc" \in Modes /\ "st" \in Modes /\ Begins(c) \in Modes
      /\ h \in SUBSET Facts /\ (~b => Agree(h, ApplyMark(t, p), ApplyMark(s, p))) /\ {} \in SUBSET Facts
  <2>1. <<>> \in Texts /\ Append(p, c) \in Texts
    BY EmptySeq, AppendProperties DEF Texts
  <2>2. ApplyMark(s, p) \in MarkStates /\ ApplyMark(t, p) \in MarkStates
    BY ApplyMarkIs
  <2>3. Agree(g \cup Sets(p), ApplyMark(t, p), ApplyMark(s, p)) /\ g \cup Sets(p) \in SUBSET Facts
    BY <1>2, MarkShares
  <2>4. Begins(c) \in Modes
    BY DEF Begins, Modes
  <2>5. h \in SUBSET Facts /\ (~b => h = g \cup Sets(p))
    BY <2>3
  <2> HIDE DEF h
  <2> QED BY <2>1, <2>2, <2>3, <2>4, <2>5 DEF Modes
<1> HIDE DEF h
<1>4. \A x \in Modes, z \in Texts, u \in MarkStates, e \in BOOLEAN, k \in SUBSET Facts : ScreenAt(x, z, u, e, k) \in Screens
  BY ScreenIn
(* The reader after the character.                                         *)
<1>5. /\ n = "text" => ReadOne(r, c) = ReaderAt(IF c = "esc" THEN "esc" ELSE "text", <<>>, t)
      /\ n = "esc" => ReadOne(r, c) = ReaderAt(IF c = "]" THEN "osc" ELSE IF c = "esc" THEN "esc" ELSE "text", <<>>, t)
      /\ n \in {"osc", "st"} => /\ c = "bel" => ReadOne(r, c) = Idle0(ApplyMark(t, q))
                                /\ c = "esc" => ReadOne(r, c) = ReaderAt("st", Append(q, c), t)
                                /\ c \notin {"bel", "esc"} /\ ~(n = "st" /\ c = "\\") =>
                                     ReadOne(r, c) = ReaderAt("osc", Append(q, c), t)
      /\ n = "st" /\ c = "\\" => ReadOne(r, c) = Idle0(ApplyMark(t, Front(q)))
  BY ReadOneFrom
<1>6. \E n2 \in Modes, q2 \in Texts, t2 \in MarkStates :
         /\ ReadOne(r, c) = ReaderAt(n2, q2, t2)
         /\ n \in {"text", "esc"} => t2 = t
         /\ c = "esc" => n2 \in {"esc", "st"}
         /\ c = "bel" => n2 = "text"
         /\ n \in {"esc", "st"} /\ c = "\\" => n2 = "text"
  <2> SUFFICES ASSUME NEW w, w = ReadOne(r, c)
               PROVE  \E n2 \in Modes, q2 \in Texts, t2 \in MarkStates :
                        /\ w = ReaderAt(n2, q2, t2) /\ (n \in {"text", "esc"} => t2 = t)
                        /\ (c = "esc" => n2 \in {"esc", "st"}) /\ (c = "bel" => n2 = "text")
                        /\ (n \in {"esc", "st"} /\ c = "\\" => n2 = "text")
    OBVIOUS
  <2>1. w \in Readers
    BY ReadOneIs
  <2>2. PICK n2 \in Modes, q2 \in Texts, t2 \in MarkStates : w = ReaderAt(n2, q2, t2)
    BY <2>1 DEF Readers, ReaderAt, Modes, Texts
  <2>3. w.mode = n2 /\ w.state = t2
    BY <2>2 DEF ReaderAt
  <2>4. \A x, y, u : ReaderAt(x, y, u).mode = x /\ ReaderAt(x, y, u).state = u /\ Idle0(u).mode = "text"
    BY DEF ReaderAt, Idle0
  <2>5. n \in {"text", "esc"} => t2 = t
    BY <1>5, <2>3, <2>4
  <2>6. c = "esc" => n2 \in {"esc", "st"}
    BY <1>5, <2>3, <2>4 DEF Modes
  <2>7. c = "bel" => n2 = "text"
    BY <1>5, <2>3, <2>4 DEF Modes
  <2>8. n \in {"esc", "st"} /\ c = "\\" => n2 = "text"
    BY <1>5, <2>3, <2>4
  <2> QED BY <2>2, <2>5, <2>6, <2>7, <2>8
<1> PICK n2 \in Modes, q2 \in Texts, t2 \in MarkStates :
         /\ ReadOne(r, c) = ReaderAt(n2, q2, t2)
         /\ n \in {"text", "esc"} => t2 = t
         /\ c = "esc" => n2 \in {"esc", "st"}
         /\ c = "bel" => n2 = "text"
         /\ n \in {"esc", "st"} /\ c = "\\" => n2 = "text"
  BY <1>6
(* One screen and one reader, by their fields.                             *)
<1>7. ASSUME NEW x \in Modes, NEW z \in Texts, NEW u \in MarkStates, NEW e \in BOOLEAN, NEW k \in SUBSET Facts,
             ShowOne(v, c) = ScreenAt(x, z, u, e, k), x = "st" => n2 \in {"esc", "st"}, e => k = {}, Agree(k, t2, u),
             ~e => n2 = x /\ (x = "osc" => q2 = z) /\ (x = "st" => q2 = Append(z, "esc"))
      PROVE  ShowOne(v, c) \in Screens /\ Beside(ReadOne(r, c), ShowOne(v, c))
  <2>1. ShowOne(v, c) \in Screens
    BY <1>4, <1>7
  <2> PICK w, y : w = ShowOne(v, c) /\ y = ReadOne(r, c)
    OBVIOUS
  <2>2. w.mode = x /\ w.payload = z /\ w.state = u /\ w.cut = e /\ w.good = k
    BY <1>7, ScreenFields
  <2>3. y.mode = n2 /\ y.payload = q2 /\ y.state = t2
    BY DEF ReaderAt
  <2>4. Beside(y, w)
    BY <1>7, <2>2, <2>3 DEF Beside
  <2> QED BY <2>1, <2>4
<1>8. \A u, w : Agree({}, u, w)
  BY DEF Agree
<1>a. /\ m = "text" => ShowOne(v, c) = ScreenAt(IF c = "esc" THEN "esc" ELSE "text", <<>>, s, b, g)
      /\ m = "esc" /\ c = "bel" => ShowOne(v, c) = ScreenAt("esc", p, s, TRUE, {})
      /\ m = "esc" /\ c # "bel" => ShowOne(v, c) = ScreenAt(Begins(c), <<>>, s, b, g)
      /\ m = "osc" /\ c = "bel" => ShowOne(v, c) = whole
      /\ m = "osc" /\ c = "esc" => ShowOne(v, c) = ScreenAt("st", p, s, b, g)
      /\ m = "osc" /\ c \notin {"bel", "esc"} => ShowOne(v, c) = ScreenAt("osc", Append(p, c), s, b, g)
      /\ m = "st" /\ c = "\\" => ShowOne(v, c) = whole
      /\ m = "st" /\ c # "\\" => ShowOne(v, c) = ScreenAt(Begins(c), <<>>, ApplyMark(s, p), TRUE, {})
  <2>1. ShowsFrom(p, s, b, g, c)
    BY ShowOneFrom
  <2> QED BY <2>1 DEF ShowsFrom, h
<1> HIDE DEF whole
<1>w. whole = ScreenAt("text", <<>>, ApplyMark(s, p), FALSE, h)
  BY DEF whole
(* In step.                                                                *)
<1>9. \A x, z, u : ReadOne(r, c) = ReaderAt(x, z, u) => x = n2 /\ z = q2 /\ u = t2
  BY DEF ReaderAt
<1>10. CASE m = "text"
  <2> DEFINE x == IF c = "esc" THEN "esc" ELSE "text"
  <2>1. ShowOne(v, c) = ScreenAt(x, <<>>, s, b, g)
    BY <1>10, <1>a
  <2>2. x \in Modes /\ x \in {"text", "esc"}
    BY DEF Modes
  <2>3. ~b => ReadOne(r, c) = ReaderAt(x, <<>>, t)
    BY <1>2, <1>5, <1>10
  <2> HIDE DEF x
  <2>4. ~b => n2 = x /\ t2 = t
    BY <1>9, <2>3
  <2>5. Agree(g, t2, s)
    BY <1>2, <1>8, <2>4
  <2> QED BY <1>2, <1>3, <1>7, <2>1, <2>2, <2>4, <2>5
<1>11. CASE m = "esc" /\ c = "bel"
  <2>1. ShowOne(v, c) = ScreenAt("esc", p, s, TRUE, {})
    BY <1>11, <1>a
  <2> QED BY <1>3, <1>7, <1>8, <2>1
<1>12. CASE m = "esc" /\ c # "bel"
  <2> DEFINE x == Begins(c)
  <2>1. ShowOne(v, c) = ScreenAt(x, <<>>, s, b, g)
    BY <1>12, <1>a
  <2>2. x = IF c = "]" THEN "osc" ELSE IF c = "esc" THEN "esc" ELSE "text"
    BY <1>12 DEF Begins
  <2>3. ~b => ReadOne(r, c) = ReaderAt(x, <<>>, t)
    BY <1>2, <1>5, <1>12, <2>2
  <2> HIDE DEF x
  <2>4. ~b => n2 = x /\ q2 = <<>> /\ t2 = t
    BY <1>9, <2>3
  <2>5. Agree(g, t2, s) /\ x # "st" /\ x \in Modes
    BY <1>2, <1>8, <2>2, <2>4 DEF Modes
  <2> QED BY <1>2, <1>3, <1>7, <2>1, <2>4, <2>5
<1>13. CASE m = "osc" /\ c = "bel"
  <2>1. ShowOne(v, c) = whole
    BY <1>13, <1>a, <1>w
  <2>2. n2 = "text"
    BY <1>13
  <2>3. ~b => t2 = ApplyMark(t, p)
    <3>1. ~b => ReadOne(r, c) = ReaderAt("text", <<>>, ApplyMark(t, p))
      BY <1>2, <1>5, <1>13 DEF Idle0
    <3> QED BY <1>9, <3>1
  <2>4. Agree(h, t2, ApplyMark(s, p))
    <3>1. b => h = {}
      BY DEF h
    <3> QED BY <1>3, <1>8, <2>3, <3>1
  <2> QED BY <1>3, <1>7, <1>w, <2>1, <2>2, <2>4
<1>14. CASE m = "osc" /\ c = "esc"
  <2>1. ShowOne(v, c) = ScreenAt("st", p, s, b, g)
    BY <1>14, <1>a
  <2> PICK x, y : x = "st" /\ y = Append(p, "esc")
    OBVIOUS
  <2>2. ~b => ReadOne(r, c) = ReaderAt(x, y, t)
    BY <1>2, <1>5, <1>14
  <2>3. ~b => n2 = x /\ q2 = y /\ t2 = t
    <3>1. ASSUME ~b PROVE x = n2 /\ y = q2 /\ t = t2
      <4>1. ReadOne(r, c) = ReaderAt(x, y, t)
        BY <2>2, <3>1
      <4>2. ReaderAt(x, y, t).mode = x /\ ReaderAt(x, y, t).payload = y /\ ReaderAt(x, y, t).state = t
        BY DEF ReaderAt
      <4>3. ReadOne(r, c).mode = n2 /\ ReadOne(r, c).payload = q2 /\ ReadOne(r, c).state = t2
        BY DEF ReaderAt
      <4> QED BY <4>1, <4>2, <4>3
    <3> QED BY <3>1
  <2>4. Agree(g, t2, s)
    BY <1>2, <1>8, <2>3
  <2> QED BY <1>2, <1>3, <1>7, <1>14, <2>1, <2>3, <2>4
<1>15. CASE m = "osc" /\ c \notin {"bel", "esc"}
  <2>1. ShowOne(v, c) = ScreenAt("osc", Append(p, c), s, b, g)
    BY <1>15, <1>a
  <2> PICK x, y : x = "osc" /\ y = Append(p, c)
    OBVIOUS
  <2>2. ~b => ReadOne(r, c) = ReaderAt(x, y, t)
    BY <1>2, <1>5, <1>15
  <2>3. ~b => n2 = x /\ q2 = y /\ t2 = t
    <3>1. ASSUME ~b PROVE x = n2 /\ y = q2 /\ t = t2
      <4>1. ReadOne(r, c) = ReaderAt(x, y, t)
        BY <2>2, <3>1
      <4>2. ReaderAt(x, y, t).mode = x /\ ReaderAt(x, y, t).payload = y /\ ReaderAt(x, y, t).state = t
        BY DEF ReaderAt
      <4>3. ReadOne(r, c).mode = n2 /\ ReadOne(r, c).payload = q2 /\ ReadOne(r, c).state = t2
        BY DEF ReaderAt
      <4> QED BY <4>1, <4>2, <4>3
    <3> QED BY <3>1
  <2>4. Agree(g, t2, s)
    BY <1>2, <1>8, <2>3
  <2> QED BY <1>2, <1>3, <1>7, <2>1, <2>3, <2>4
<1>16. CASE m = "st" /\ c = "\\"
  <2>1. ShowOne(v, c) = whole
    BY <1>16, <1>a, <1>w
  <2>2. n2 = "text"
    BY <1>2, <1>16
  <2>3. ~b => t2 = ApplyMark(t, p)
    <3>1. Front(Append(p, "esc")) = p
      <4>1. "esc" \in Tokens
        BY DEF Tokens
      <4> QED BY <4>1, FrontOfAppend
    <3>2. ~b => n = "st" /\ q = Append(p, "esc")
      BY <1>2, <1>16
    <3>3. ~b => ReadOne(r, c) = Idle0(ApplyMark(t, Front(q)))
      BY <1>5, <1>16, <3>2
    <3>4. ~b => ReadOne(r, c) = ReaderAt("text", <<>>, ApplyMark(t, p))
      BY <3>1, <3>2, <3>3 DEF Idle0
    <3> QED BY <1>9, <3>4
  <2>4. Agree(h, t2, ApplyMark(s, p))
    <3>1. b => h = {}
      BY DEF h
    <3> QED BY <1>3, <1>8, <2>3, <3>1
  <2> QED BY <1>3, <1>7, <1>w, <2>1, <2>2, <2>4
<1>17. CASE m = "st" /\ c # "\\"
  <2>1. ShowOne(v, c) = ScreenAt(Begins(c), <<>>, ApplyMark(s, p), TRUE, {})
    BY <1>17, <1>a
  <2>2. Begins(c) # "st"
    BY DEF Begins
  <2> QED BY <1>3, <1>7, <1>8, <2>1, <2>2
<1> QED BY <1>10, <1>11, <1>12, <1>13, <1>14, <1>15, <1>16, <1>17 DEF Modes

(* The characters of a chunk one after another on the screen.              *)
LEMMA PaintsIs ==
  Paints \in [Screens \X Tokens -> Screens] /\ \A v \in Screens, c \in Tokens : Paints[<<v, c>>] = ShowOne(v, c)
<1>1. ASSUME NEW v \in Screens, NEW c \in Tokens PROVE ShowOne(v, c) \in Screens
  <2> PICK m \in Modes, p \in Texts, s \in MarkStates, b \in BOOLEAN, g \in SUBSET Facts : v = ScreenAt(m, p, s, b, g)
    BY ScreenIn
  <2> DEFINE h == IF b THEN {} ELSE g \cup Sets(p)
  <2>1. /\ <<>> \in Texts /\ Append(p, c) \in Texts /\ ApplyMark(s, p) \in MarkStates
        /\ "text" \in Modes /\ "esc" \in Modes /\ "osc" \in Modes /\ "st" \in Modes /\ Begins(c) \in Modes
        /\ h \in SUBSET Facts /\ {} \in SUBSET Facts
    <3>1. <<>> \in Texts /\ Append(p, c) \in Texts /\ ApplyMark(s, p) \in MarkStates
      BY ApplyMarkIs, EmptySeq, AppendProperties DEF Texts
    <3>2. Agree({}, s, s) /\ Agree(g, s, s)
      BY DEF Agree
    <3>3. g \cup Sets(p) \in SUBSET Facts
      BY <3>2, MarkShares
    <3>4. h \in SUBSET Facts
      BY <3>3
    <3>5. Begins(c) \in Modes
      BY DEF Begins, Modes
    <3> HIDE DEF h
    <3> QED BY <3>1, <3>4, <3>5 DEF Modes
  <2>2. \A x \in Modes, z \in Texts, u \in MarkStates, e \in BOOLEAN, k \in SUBSET Facts : ScreenAt(x, z, u, e, k) \in Screens
    BY ScreenIn
  <2>3. ShowsFrom(p, s, b, g, c)
    BY ShowOneFrom
  <2>4. h = IF b THEN {} ELSE g \cup Sets(p)
    OBVIOUS
  <2> HIDE DEF h
  <2>5. CASE m = "text"
    <3>1. ShowOne(v, c) = ScreenAt(IF c = "esc" THEN "esc" ELSE "text", <<>>, s, b, g)
      BY <2>3, <2>5 DEF ShowsFrom
    <3> QED BY <2>1, <2>2, <3>1
  <2>6. CASE m = "esc"
    <3>1. ShowOne(v, c) = ScreenAt("esc", p, s, TRUE, {}) \/ ShowOne(v, c) = ScreenAt(Begins(c), <<>>, s, b, g)
      BY <2>3, <2>6 DEF ShowsFrom
    <3> QED BY <2>1, <2>2, <3>1
  <2>7. CASE m = "osc"
    <3>1. \/ ShowOne(v, c) = ScreenAt("text", <<>>, ApplyMark(s, p), FALSE, h)
          \/ ShowOne(v, c) = ScreenAt("st", p, s, b, g)
          \/ ShowOne(v, c) = ScreenAt("osc", Append(p, c), s, b, g)
      BY <2>3, <2>4, <2>7 DEF ShowsFrom
    <3> QED BY <2>1, <2>2, <3>1
  <2>8. CASE m = "st"
    <3>1. \/ ShowOne(v, c) = ScreenAt("text", <<>>, ApplyMark(s, p), FALSE, h)
          \/ ShowOne(v, c) = ScreenAt(Begins(c), <<>>, ApplyMark(s, p), TRUE, {})
      BY <2>3, <2>4, <2>8 DEF ShowsFrom
    <3> QED BY <2>1, <2>2, <3>1
  <2> QED BY <2>5, <2>6, <2>7, <2>8 DEF Modes
<1>2. ASSUME NEW v \in Screens, NEW c \in Tokens PROVE Paints[<<v, c>>] = ShowOne(v, c)
  BY DEF Paints
<1>3. ASSUME NEW x \in Screens \X Tokens PROVE ShowOne(x[1], x[2]) \in Screens
  BY <1>1
<1> QED BY <1>2, <1>3 DEF Paints

LEMMA ShowAllIsFolded ==
  ASSUME NEW base \in Screens, NEW s \in Texts
  PROVE  ShowAll(base, s) = Folded(Paints, base, s)
<1> DEFINE n == Len(s)
           IsFold(f) == f = [t \in SUBSET (DOMAIN s) |-> IF t = {} THEN base ELSE LET x == Max(t) IN ShowOne(f[t \ {x}], s[x])]
           ladder == CHOOSE f : IsFold(f)
<1>1. n \in Nat /\ DOMAIN s = 1 .. n /\ \A j \in 1 .. n : s[j] \in Tokens
  BY DEF Texts
<1>2. PICK it \in [SUBSET (1 .. n) -> Screens] : FoldsBy(it, n, base, s, Paints)
  BY PaintsIs, FoldExists DEF Texts
<1>3. IsFold(it)
  <2>1. ASSUME NEW t \in SUBSET (1 .. n), t # {} PROVE it[t] = ShowOne(it[t \ {Max(t)}], s[Max(t)])
    <3>1. Max(t) \in t /\ t \ {Max(t)} \in SUBSET (1 .. n)
      BY <1>1, <2>1, MaxIs
    <3>2. it[t] = Paints[<<it[t \ {Max(t)}], s[Max(t)]>>]
      BY <1>2, <2>1 DEF FoldsBy
    <3> QED BY <1>1, <1>2, <3>1, <3>2, PaintsIs
  <2>2. it[{}] = base
    BY <1>2 DEF FoldsBy
  <2>3. \A t \in SUBSET (1 .. n) : it[t] = IF t = {} THEN base ELSE LET x == Max(t) IN ShowOne(it[t \ {x}], s[x])
    BY <2>1, <2>2
  <2> QED BY <1>1, <1>2, <2>3
<1>4. IsFold(ladder)
  <2> HIDE DEF IsFold
  <2> QED BY <1>3
<1>5. ShowAll(base, s) = ladder[DOMAIN s]
  BY DEF ShowAll, FoldLeft, MapThenFoldSet
<1> HIDE DEF ladder
<1> PICK f : f = ladder
  OBVIOUS
<1>6. f[{}] = base
  <2>1. {} \in SUBSET (DOMAIN s)
    OBVIOUS
  <2> QED BY <1>4, <2>1
<1>7. ASSUME NEW k \in 1 .. n, f[1 .. (k - 1)] \in Screens PROVE f[1 .. k] = Paints[<<f[1 .. (k - 1)], s[k]>>]
  <2>1. 1 .. k \in SUBSET (1 .. n) /\ 1 .. k # {} /\ Max(1 .. k) = k /\ (1 .. k) \ {k} = 1 .. (k - 1)
    BY <1>1, TopOf
  <2>2. f[1 .. k] = ShowOne(f[(1 .. k) \ {Max(1 .. k)}], s[Max(1 .. k)])
    BY <1>1, <1>4, <2>1
  <2>3. f[1 .. k] = ShowOne(f[1 .. (k - 1)], s[k])
    BY <2>1, <2>2
  <2>4. s[k] \in Tokens
    BY <1>1
  <2> HIDE DEF IsFold, n
  <2> QED BY <1>7, <2>3, <2>4, PaintsIs
<1>8. f[1 .. Len(s)] = Folded(Paints, base, s)
  <2>1. Paints \in [Screens \X Tokens -> Screens]
    BY PaintsIs
  <2>2. Ladder(f, Screens, Tokens, base, s, Paints)
    BY <1>6, <1>7, <2>1 DEF Ladder, Texts
  <2> HIDE DEF IsFold, n
  <2> QED BY <2>2, LadderIs
<1> QED BY <1>1, <1>5, <1>8

(* Reader and screen stay beside each other through a chunk.               *)
LEMMA BesideAll ==
  ASSUME NEW r \in Readers, NEW v \in Screens, Beside(r, v), NEW w \in Texts
  PROVE  ShowAll(v, w) \in Screens /\ Beside(ReadAll(r, w), ShowAll(v, w))
<1>1. PICK g \in [0 .. Len(w) -> Readers] : Steps(g, r, w, Shows)
  BY ShowsIs, StepsExist DEF Texts
<1>2. PICK h \in [0 .. Len(w) -> Screens] : Steps(h, v, w, Paints)
  BY PaintsIs, StepsExist DEF Texts
<1>3. ReadAll(r, w) = g[Len(w)]
  BY <1>1, FoldedIs, ReadAllIsFolded DEF Texts
<1>4. ShowAll(v, w) = h[Len(w)]
  BY <1>2, FoldedIs, ShowAllIsFolded DEF Texts
<1> DEFINE P == {k \in Nat : k <= Len(w) => Beside(g[k], h[k])}
<1>5. Len(w) \in Nat /\ \A k \in 1 .. Len(w) : w[k] \in Tokens
  BY DEF Texts
<1>6. 0 \in P
  BY <1>1, <1>2, <1>5 DEF Steps
<1>7. ASSUME NEW k \in Nat, k \in P PROVE k + 1 \in P
  <2> SUFFICES ASSUME k + 1 <= Len(w) PROVE Beside(g[k + 1], h[k + 1])
    OBVIOUS
  <2>1. /\ k \in 0 .. Len(w) /\ k + 1 \in 1 .. Len(w) /\ (k + 1) - 1 = k
        /\ g[k] \in Readers /\ h[k] \in Screens /\ w[k + 1] \in Tokens
    BY <1>1, <1>2, <1>5
  <2>2. g[k + 1] = Shows[<<g[(k + 1) - 1], w[k + 1]>>] /\ h[k + 1] = Paints[<<h[(k + 1) - 1], w[k + 1]>>]
    BY <1>1, <1>2, <2>1 DEF Steps
  <2>3. g[k + 1] = ReadOne(g[k], w[k + 1]) /\ h[k + 1] = ShowOne(h[k], w[k + 1])
    BY <2>1, <2>2, ShowsIs, PaintsIs
  <2>4. Beside(g[k], h[k])
    BY <1>5, <1>7, <2>1
  <2> QED BY <2>1, <2>3, <2>4, BesideOne
<1>8. Nat \subseteq P
  <2> HIDE DEF P
  <2> QED BY <1>6, <1>7, NatInd
<1>9. Beside(g[Len(w)], h[Len(w)]) /\ h[Len(w)] \in Screens
  BY <1>2, <1>5, <1>8
<1> QED BY <1>3, <1>4, <1>9

(* Induction from the end of a buffer down.                                *)
LEMMA DownInd ==
  ASSUME NEW n \in Nat, NEW P, \A i \in 1 .. (n + 1) : (\A j \in (i + 1) .. (n + 1) : j \in P) => i \in P
  PROVE  1 .. (n + 1) \subseteq P
<1> SUFFICES ASSUME (1 .. (n + 1)) \ P # {} PROVE FALSE
  OBVIOUS
<1> DEFINE D == {n + 1 - i : i \in (1 .. (n + 1)) \ P}
<1>1. D \subseteq Nat /\ D # {}
  OBVIOUS
<1>2. PICK d \in D : \A e \in D : d <= e
  BY <1>1, NatMin
<1>3. PICK i \in (1 .. (n + 1)) \ P : d = n + 1 - i
  BY <1>2
<1>4. ASSUME NEW j \in (i + 1) .. (n + 1), j \notin P PROVE FALSE
  <2>1. n + 1 - j \in D /\ n + 1 - i \in D
    BY <1>4
  <2>2. n + 1 - i <= n + 1 - j
    BY <1>2, <1>3, <2>1
  <2> QED BY <2>2
<1>5. i \in 1 .. (n + 1) /\ i \notin P
  BY <1>3
<1> QED BY <1>4, <1>5

(* The first of some positions.                                            *)
LEMMA LeastIs ==
  ASSUME NEW T, T \subseteq Nat, T # {}
  PROVE  Least(T) \in T /\ \A y \in T : Least(T) <= y
<1>1. \E x \in T : \A y \in T : x <= y
  BY NatMin
<1> QED BY <1>1 DEF Least

(* What is left of a buffer from a position on.                            *)
From(buf, i) == SubSeq(buf, i, Len(buf))

(* Slices of a buffer, and how they begin.                                 *)
LEMMA SlicesAre ==
  ASSUME NEW S, NEW buf \in Seq(S), NEW i \in 1 .. (Len(buf) + 1), NEW k \in 0 .. Len(buf)
  PROVE  SubSeq(buf, i, k) \in Seq(S) /\ Len(SubSeq(buf, i, k)) = (IF k < i THEN 0 ELSE k - i + 1)
         /\ \A j \in 1 .. (k - i + 1) : SubSeq(buf, i, k)[j] = buf[i + j - 1]
<1>1. \A j \in i .. k : buf[j] \in S
  OBVIOUS
<1> QED BY <1>1, SubSeqProperties

(* A read that finds its terminator, and one that does not.                *)
Stop(buf, i) == Least(Terminators(buf, i))
Closed(buf, i, t, r) ==
  /\ r.found = "payload" /\ r.payload = SubSeq(buf, i + 2, t - 1) /\ r.payload \in Texts
  /\ t \in Terminators(buf, i) /\ (\A j \in Terminators(buf, i) : t <= j) /\ t \in (i + 2) .. Len(buf)
  /\ buf[t] = "bel" => r.next = t + 1
  /\ buf[t] # "bel" => buf[t] = "esc" /\ t < Len(buf) /\ buf[t + 1] = "\\" /\ r.next = t + 2
  /\ r.next \in (i + 1) .. (Len(buf) + 1) /\ Len(r.payload) + 3 <= r.next - i
Open(buf, i, r) ==
  r.found = (IF Len(buf) - i + 1 > MaxCarry THEN "skip" ELSE "incomplete") /\ r.next = i + 1

(* readSequence goes on behind the first terminator; without one it wants  *)
(* more, or gives up what is longer than the carry.                        *)
LEMMA ReadIs ==
  ASSUME NEW buf \in Texts, NEW i \in 1 .. Len(buf), i < Len(buf)
  PROVE  /\ Terminators(buf, i) \subseteq (i + 2) .. Len(buf)
         /\ Terminators(buf, i) # {} => Closed(buf, i, Stop(buf, i), ReadSequence(buf, i))
         /\ Terminators(buf, i) = {} => Open(buf, i, ReadSequence(buf, i))
<1> DEFINE T == Terminators(buf, i)
           r == ReadSequence(buf, i)
           n == Len(buf)
<1>1. n \in Nat /\ i \in Nat /\ i < n
  BY DEF Texts
<1>2. T \subseteq (i + 2) .. n /\ \A j \in T : buf[j] = "bel" \/ (buf[j] = "esc" /\ j < n /\ buf[j + 1] = "\\")
  BY DEF Terminators
<1>3. ASSUME T = {} PROVE Open(buf, i, r)
  <2>1. r = [found |-> IF n - i + 1 > MaxCarry THEN "skip" ELSE "incomplete", payload |-> <<>>, next |-> i + 1]
    BY <1>3 DEF ReadSequence
  <2> HIDE DEF r
  <2> QED BY <2>1 DEF Open
<1>4. ASSUME T # {} PROVE Closed(buf, i, Stop(buf, i), r)
  <2> DEFINE t == Stop(buf, i)
             next == t + IF buf[t] = "bel" THEN 1 ELSE 2
             p == SubSeq(buf, i + 2, t - 1)
  <2>1. T \subseteq Nat
    BY <1>1, <1>2
  <2>2. t \in T /\ \A j \in T : t <= j
    <3>1. Least(T) \in T /\ \A j \in T : Least(T) <= j
      <4> HIDE DEF T
      <4> QED BY <1>4, <2>1, LeastIs
    <3> QED BY <3>1 DEF Stop
  <2>3. r = [found |-> "payload", payload |-> p, next |-> next]
    BY <1>4 DEF ReadSequence, Stop
  <2>4. r.found = "payload" /\ r.payload = p /\ r.next = next
    <3> HIDE DEF r, p, next
    <3> QED BY <2>3
  <2>5. t \in (i + 2) .. n
    BY <1>2, <2>2
  <2> HIDE DEF r
  <2> HIDE DEF t
  <2>6. /\ buf[t] = "bel" => next = t + 1
        /\ buf[t] # "bel" => buf[t] = "esc" /\ t < n /\ buf[t + 1] = "\\" /\ next = t + 2
    <3> HIDE DEF T
    <3> QED BY <1>1, <1>2, <2>2, <2>5
  <2>7. next \in (i + 1) .. (n + 1) /\ t + 1 <= next /\ next \in Nat
    <3> HIDE DEF next
    <3> QED BY <1>1, <2>5, <2>6
  <2>8. p \in Texts /\ Len(p) + 3 <= next - i
    <3>1. i + 2 \in 1 .. (n + 1) /\ t - 1 \in 0 .. n /\ (t - 1) - (i + 2) + 1 = t - i - 2
      BY <1>1, <2>5
    <3>2. p \in Seq(Tokens) /\ Len(p) = IF t - 1 < i + 2 THEN 0 ELSE (t - 1) - (i + 2) + 1
      BY <3>1, SlicesAre DEF Texts
    <3> HIDE DEF p, next
    <3> QED BY <1>1, <2>5, <2>7, <3>1, <3>2 DEF Texts
  <2>9. t \in Terminators(buf, i) /\ (\A j \in Terminators(buf, i) : t <= j)
    BY <2>2
  <2>10. r.found = "payload" /\ r.payload = SubSeq(buf, i + 2, t - 1) /\ r.payload \in Texts
    BY <2>4, <2>8
  <2>11. Len(r.payload) + 3 <= r.next - i
    BY <2>4, <2>8
  <2> HIDE DEF p, next, T
  <2>12. Closed(buf, i, t, r)
    BY <2>4, <2>5, <2>6, <2>7, <2>9, <2>10, <2>11 DEF Closed
  <2> QED BY <2>12 DEF t
<1> HIDE DEF r
<1> QED BY <1>2, <1>3, <1>4 DEF r

ScanFrom(at, buf, i) ==
        CASE i > Len(buf) -> [found |-> <<>>, carry |-> <<>>]
          [] i <= Len(buf) /\ buf[i] # "esc" -> at[i + 1]
          [] i = Len(buf) /\ buf[i] = "esc" ->
               [found |-> <<>>, carry |-> Carried(SubSeq(buf, i, Len(buf)))]
          [] i < Len(buf) /\ buf[i] = "esc" /\ buf[i + 1] # "]" -> at[i + 1]
          [] OTHER ->
               LET seq == ReadSequence(buf, i) IN
               CASE seq.found = "incomplete" ->
                      [found |-> <<>>, carry |-> Carried(SubSeq(buf, i, Len(buf)))]
                 [] seq.found = "skip" -> at[seq.next]
                 [] OTHER -> [at[seq.next] EXCEPT !.found = <<seq.payload>> \o @]
Scans(at, buf) == at = [i \in 1 .. (Len(buf) + 1) |-> ScanFrom(at, buf, i)]

(* Scan is the first value of the function its LET chooses.                *)
LEMMA ScanIsAt == ASSUME NEW buf PROVE Scan(buf) = (CHOOSE at : Scans(at, buf))[1]
BY DEF Scan, Scans, ScanFrom

Nothing == [found |-> <<>>, carry |-> <<>>]
CarriedOver(buf, i) == [found |-> <<>>, carry |-> Carried(From(buf, i))]
Opens(buf, i) == i < Len(buf) /\ buf[i] = "esc" /\ buf[i + 1] = "]"
Before(p, r) == [r EXCEPT !.found = <<p>> \o @]

(* The scan, case by case.                                                 *)
LEMMA ScanFromIs ==
  ASSUME NEW buf \in Texts, NEW i \in 1 .. (Len(buf) + 1), NEW at
  PROVE  /\ i = Len(buf) + 1 => ScanFrom(at, buf, i) = Nothing
         /\ i <= Len(buf) /\ buf[i] # "esc" => ScanFrom(at, buf, i) = at[i + 1]
         /\ i = Len(buf) /\ buf[i] = "esc" => ScanFrom(at, buf, i) = CarriedOver(buf, i)
         /\ i < Len(buf) /\ buf[i] = "esc" /\ buf[i + 1] # "]" => ScanFrom(at, buf, i) = at[i + 1]
         /\ Opens(buf, i) /\ Terminators(buf, i) # {} =>
              ScanFrom(at, buf, i) = Before(SubSeq(buf, i + 2, Stop(buf, i) - 1), at[ReadSequence(buf, i).next])
         /\ Opens(buf, i) /\ Terminators(buf, i) = {} =>
              ScanFrom(at, buf, i) = IF Len(buf) - i + 1 > MaxCarry THEN at[i + 1] ELSE CarriedOver(buf, i)
<1> DEFINE n == Len(buf)
           seq == ReadSequence(buf, i)
           kept == [found |-> <<>>, carry |-> Carried(SubSeq(buf, i, Len(buf)))]
           last == CASE seq.found = "incomplete" -> kept
                     [] seq.found = "skip" -> at[seq.next]
                     [] OTHER -> [at[seq.next] EXCEPT !.found = <<seq.payload>> \o @]
<1>1. n \in Nat /\ i \in Nat /\ i <= n + 1
  BY DEF Texts
<1>2. ScanFrom(at, buf, i) =
        CASE i > n -> [found |-> <<>>, carry |-> <<>>]
          [] i <= n /\ buf[i] # "esc" -> at[i + 1]
          [] i = n /\ buf[i] = "esc" -> kept
          [] i < n /\ buf[i] = "esc" /\ buf[i + 1] # "]" -> at[i + 1]
          [] OTHER -> last
  BY DEF ScanFrom
<1>3. kept = CarriedOver(buf, i)
  BY DEF CarriedOver, From
<1>4. ASSUME Opens(buf, i) PROVE ScanFrom(at, buf, i) = last
  <2> HIDE DEF last, kept
  <2> QED BY <1>1, <1>2, <1>4 DEF Opens
<1>5. ASSUME Opens(buf, i), Terminators(buf, i) # {}
      PROVE  last = Before(SubSeq(buf, i + 2, Stop(buf, i) - 1), at[seq.next])
  <2>1. i \in 1 .. n /\ i < n
    BY <1>1, <1>5 DEF Opens
  <2>2. Closed(buf, i, Stop(buf, i), seq)
    BY <1>5, <2>1, ReadIs
  <2>3. seq.found = "payload" /\ seq.payload = SubSeq(buf, i + 2, Stop(buf, i) - 1)
    BY <2>2 DEF Closed
  <2> HIDE DEF seq, kept
  <2>4. last = [at[seq.next] EXCEPT !.found = <<seq.payload>> \o @]
    BY <2>3
  <2> HIDE DEF last
  <2> QED BY <2>3, <2>4 DEF Before
<1>6. ASSUME Opens(buf, i), Terminators(buf, i) = {}
      PROVE  last = IF n - i + 1 > MaxCarry THEN at[i + 1] ELSE CarriedOver(buf, i)
  <2>1. i \in 1 .. n /\ i < n
    BY <1>1, <1>6 DEF Opens
  <2>2. Open(buf, i, seq)
    BY <1>6, <2>1, ReadIs
  <2> HIDE DEF seq, kept
  <2> QED BY <1>3, <2>2 DEF Open
<1> HIDE DEF last, kept
<1>7. i = n + 1 => ScanFrom(at, buf, i) = Nothing
  BY <1>1, <1>2 DEF Nothing
<1>8. /\ i <= n /\ buf[i] # "esc" => ScanFrom(at, buf, i) = at[i + 1]
      /\ i = n /\ buf[i] = "esc" => ScanFrom(at, buf, i) = kept
      /\ i < n /\ buf[i] = "esc" /\ buf[i + 1] # "]" => ScanFrom(at, buf, i) = at[i + 1]
  BY <1>1, <1>2
<1> QED BY <1>3, <1>4, <1>5, <1>6, <1>7, <1>8

(* What the scan does from an offset depends on the offsets after it only, *)
(* so it exists.                                                           *)
AgreeFrom(f, g, n, i) == \A j \in (i + 1) .. (n + 1) : f[j] = g[j]

(* Two functions that satisfy the equation agree from the end down.        *)
LEMMA ScanAgrees ==
  ASSUME NEW buf \in Texts, NEW i \in 1 .. (Len(buf) + 1), NEW f, NEW g, AgreeFrom(f, g, Len(buf), i)
  PROVE  ScanFrom(f, buf, i) = ScanFrom(g, buf, i)
<1>1. Len(buf) \in Nat /\ i \in Nat /\ i <= Len(buf) + 1
  BY DEF Texts
<1>2. i <= Len(buf) => i + 1 \in (i + 1) .. (Len(buf) + 1)
  BY <1>1
<1>3. i <= Len(buf) => f[i + 1] = g[i + 1]
  BY <1>2 DEF AgreeFrom
<1>4. CASE i = Len(buf) + 1
  BY <1>4, ScanFromIs
<1>5. CASE i <= Len(buf) /\ buf[i] # "esc"
  BY <1>3, <1>5, ScanFromIs
<1>6. CASE i = Len(buf) /\ buf[i] = "esc"
  BY <1>6, ScanFromIs
<1>7. CASE i < Len(buf) /\ buf[i] = "esc" /\ buf[i + 1] # "]"
  <2>1. f[i + 1] = g[i + 1]
    BY <1>1, <1>3, <1>7
  <2> QED BY <1>7, <2>1, ScanFromIs
<1>8. CASE Opens(buf, i) /\ Terminators(buf, i) # {}
  <2>1. i \in 1 .. Len(buf) /\ i < Len(buf)
    BY <1>1, <1>8 DEF Opens
  <2>2. Closed(buf, i, Stop(buf, i), ReadSequence(buf, i))
    BY <1>8, <2>1, ReadIs
  <2>3. ReadSequence(buf, i).next \in (i + 1) .. (Len(buf) + 1)
    BY <2>2 DEF Closed
  <2>4. f[ReadSequence(buf, i).next] = g[ReadSequence(buf, i).next]
    BY <2>3 DEF AgreeFrom
  <2> QED BY <1>8, <2>4, ScanFromIs
<1>9. CASE Opens(buf, i) /\ Terminators(buf, i) = {}
  <2>1. f[i + 1] = g[i + 1]
    BY <1>1, <1>3, <1>9 DEF Opens
  <2> QED BY <1>9, <2>1, ScanFromIs
<1> QED BY <1>1, <1>4, <1>5, <1>6, <1>7, <1>8, <1>9 DEF Opens

(* A function that satisfies the equation exists, built from the end down. *)
LEMMA ScanExists ==
  ASSUME NEW buf \in Texts
  PROVE  \E at : Scans(at, buf)
<1> DEFINE n == Len(buf)
           Ok(m) == \E f : \A i \in (n + 1 - m) .. (n + 1) : f[i] = ScanFrom(f, buf, i)
           P == {m \in Nat : m <= n => Ok(m)}
<1>1. n \in Nat
  BY DEF Texts
<1>3. ASSUME NEW k \in 1 .. (n + 1), NEW f, \A i \in (k + 1) .. (n + 1) : f[i] = ScanFrom(f, buf, i)
      PROVE  \E g : \A i \in k .. (n + 1) : g[i] = ScanFrom(g, buf, i)
  <2> DEFINE g == [i \in 1 .. (n + 1) |-> IF i = k THEN ScanFrom(f, buf, k) ELSE f[i]]
  <2>1. \A i \in (k + 1) .. (n + 1) : i \in 1 .. (n + 1) /\ i # k
    BY <1>1
  <2>2. \A i \in (k + 1) .. (n + 1) : g[i] = f[i]
    BY <2>1
  <2>3. g[k] = ScanFrom(f, buf, k)
    OBVIOUS
  <2> HIDE DEF g
  <2>4. ASSUME NEW i \in k .. (n + 1) PROVE ScanFrom(f, buf, i) = ScanFrom(g, buf, i) /\ i \in 1 .. (n + 1)
    <3>1. i \in 1 .. (n + 1) /\ \A j \in (i + 1) .. (n + 1) : j \in (k + 1) .. (n + 1)
      BY <1>1
    <3>2. AgreeFrom(f, g, n, i)
      BY <2>2, <3>1 DEF AgreeFrom
    <3> QED BY <3>1, <3>2, ScanAgrees
  <2>5. ASSUME NEW i \in k .. (n + 1) PROVE g[i] = ScanFrom(g, buf, i)
    <3>1. CASE i = k
      BY <2>3, <2>4, <3>1
    <3>2. CASE i # k
      <4>1. i \in (k + 1) .. (n + 1)
        BY <1>1, <3>2
      <4>2. g[i] = f[i] /\ f[i] = ScanFrom(f, buf, i)
        BY <1>3, <2>2, <4>1
      <4> QED BY <2>4, <4>2
    <3> QED BY <3>1, <3>2
  <2> QED BY <2>5
<1>4. 0 \in P
  <2>1. n + 1 \in 1 .. (n + 1) /\ n + 1 - 0 = n + 1 /\ (n + 1 + 1) .. (n + 1) = {}
    BY <1>1
  <2> HIDE DEF n
  <2>2. \A i \in (n + 1 + 1) .. (n + 1) : [x \in {} |-> x][i] = ScanFrom([x \in {} |-> x], buf, i)
    BY <2>1
  <2>3. \E g : \A i \in (n + 1) .. (n + 1) : g[i] = ScanFrom(g, buf, i)
    BY <1>3, <2>1, <2>2
  <2> QED BY <2>1, <2>3
<1>5. ASSUME NEW m \in Nat, m \in P PROVE m + 1 \in P
  <2> HIDE DEF Ok
  <2> SUFFICES ASSUME m + 1 <= n PROVE Ok(m + 1)
    OBVIOUS
  <2>1. Ok(m)
    BY <1>1, <1>5
  <2>2. PICK f : \A i \in (n + 1 - m) .. (n + 1) : f[i] = ScanFrom(f, buf, i)
    BY <2>1 DEF Ok
  <2>3. n - m \in 1 .. (n + 1) /\ (n - m) + 1 = n + 1 - m /\ n + 1 - (m + 1) = n - m
    BY <1>1
  <2> HIDE DEF n
  <2>4. \E g : \A i \in (n - m) .. (n + 1) : g[i] = ScanFrom(g, buf, i)
    BY <1>3, <2>2, <2>3
  <2> QED BY <2>3, <2>4 DEF Ok
<1>6. Nat \subseteq P
  <2> HIDE DEF P
  <2> QED BY <1>4, <1>5, NatInd
<1>7. \E f : \A i \in 1 .. (n + 1) : f[i] = ScanFrom(f, buf, i)
  <2>1. CASE n = 0
    <3>1. Ok(0)
      BY <1>1, <1>6, <2>1
    <3> QED BY <2>1, <3>1
  <2>2. CASE n # 0
    <3>1. n - 1 \in Nat /\ n - 1 <= n /\ n + 1 - (n - 1) = 2
      BY <1>1, <2>2
    <3> HIDE DEF Ok
    <3>2. Ok(n - 1)
      BY <1>6, <3>1
    <3>3. PICK f : \A i \in 2 .. (n + 1) : f[i] = ScanFrom(f, buf, i)
      BY <3>1, <3>2 DEF Ok
    <3>4. 1 \in 1 .. (n + 1) /\ 1 + 1 = 2
      BY <1>1
    <3> HIDE DEF n
    <3> QED BY <1>3, <3>3, <3>4
  <2> QED BY <2>1, <2>2
<1>8. PICK f : \A i \in 1 .. (n + 1) : f[i] = ScanFrom(f, buf, i)
  BY <1>7
<1> DEFINE at == [i \in 1 .. (n + 1) |-> f[i]]
<1>9. ASSUME NEW i \in 1 .. (n + 1) PROVE at[i] = ScanFrom(at, buf, i)
  <2>1. at[i] = f[i]
    OBVIOUS
  <2>2. \A j \in (i + 1) .. (n + 1) : j \in 1 .. (n + 1)
    BY <1>1
  <2>3. \A j \in (i + 1) .. (n + 1) : f[j] = at[j]
    BY <2>2
  <2> HIDE DEF at
  <2>4. AgreeFrom(f, at, n, i)
    BY <2>3 DEF AgreeFrom
  <2>5. ScanFrom(f, buf, i) = ScanFrom(at, buf, i)
    BY <2>4, ScanAgrees
  <2> QED BY <1>8, <2>1, <2>5
<1>10. at = [i \in 1 .. (n + 1) |-> at[i]]
  OBVIOUS
<1> HIDE DEF at
<1>11. at = [i \in 1 .. (n + 1) |-> ScanFrom(at, buf, i)]
  BY <1>9, <1>10
<1> QED BY <1>11 DEF Scans

(* So the chosen function satisfies the equation.                          *)
LEMMA ScanIs ==
  ASSUME NEW buf \in Texts
  PROVE  \E at : Scan(buf) = at[1] /\ \A i \in 1 .. (Len(buf) + 1) : at[i] = ScanFrom(at, buf, i)
<1>1. Scans(CHOOSE at : Scans(at, buf), buf)
  BY ScanExists
<1>2. Scan(buf) = (CHOOSE at : Scans(at, buf))[1]
  BY ScanIsAt
<1>3. PICK at : at = CHOOSE x : Scans(x, buf)
  OBVIOUS
<1>4. at = [i \in 1 .. (Len(buf) + 1) |-> ScanFrom(at, buf, i)]
  BY <1>1, <1>3 DEF Scans
<1>5. \A i \in 1 .. (Len(buf) + 1) : at[i] = ScanFrom(at, buf, i)
  BY <1>4
<1> QED BY <1>2, <1>3, <1>5

(* Slices of a buffer, one after the other.                                *)
LEMMA SlicesJoin ==
  ASSUME NEW buf \in Texts, NEW i \in 1 .. (Len(buf) + 1), NEW j \in (i - 1) .. Len(buf), NEW k \in j .. Len(buf)
  PROVE  SubSeq(buf, i, j) \o SubSeq(buf, j + 1, k) = SubSeq(buf, i, k)
<1> DEFINE a == SubSeq(buf, i, j)
           b == SubSeq(buf, j + 1, k)
           c == SubSeq(buf, i, k)
<1>1. Len(buf) \in Nat /\ j \in 0 .. Len(buf) /\ k \in 0 .. Len(buf) /\ j + 1 \in 1 .. (Len(buf) + 1)
  BY DEF Texts
<1>2. a \in Seq(Tokens) /\ Len(a) = (IF j < i THEN 0 ELSE j - i + 1) /\ \A x \in 1 .. (j - i + 1) : a[x] = buf[i + x - 1]
  BY <1>1, SlicesAre DEF Texts
<1>3. b \in Seq(Tokens) /\ Len(b) = (IF k < j + 1 THEN 0 ELSE k - (j + 1) + 1) /\ \A x \in 1 .. (k - (j + 1) + 1) : b[x] = buf[(j + 1) + x - 1]
  BY <1>1, SlicesAre DEF Texts
<1>4. c \in Seq(Tokens) /\ Len(c) = (IF k < i THEN 0 ELSE k - i + 1) /\ \A x \in 1 .. (k - i + 1) : c[x] = buf[i + x - 1]
  BY <1>1, SlicesAre DEF Texts
<1>5. Len(a) = j - i + 1 /\ Len(b) = k - j /\ Len(c) = k - i + 1
  BY <1>1, <1>2, <1>3, <1>4
<1> HIDE DEF a, b, c
<1>6. a \o b \in Seq(Tokens) /\ Len(a \o b) = Len(a) + Len(b)
      /\ \A x \in 1 .. Len(a) + Len(b) : (a \o b)[x] = IF x <= Len(a) THEN a[x] ELSE b[x - Len(a)]
  BY <1>2, <1>3, ConcatProperties
<1>7. Len(a \o b) = Len(c)
  BY <1>1, <1>5, <1>6
<1>8. ASSUME NEW x \in 1 .. Len(c) PROVE (a \o b)[x] = c[x]
  <2>1. x \in 1 .. (k - i + 1) /\ x \in 1 .. Len(a) + Len(b)
    BY <1>1, <1>5
  <2>2. CASE x <= Len(a)
    <3>1. x \in 1 .. (j - i + 1)
      BY <1>1, <1>5, <2>1, <2>2
    <3> QED BY <1>2, <1>4, <1>6, <2>1, <2>2, <3>1
  <2>3. CASE ~(x <= Len(a))
    <3>1. x - Len(a) \in 1 .. (k - (j + 1) + 1) /\ (j + 1) + (x - Len(a)) - 1 = i + x - 1
      BY <1>1, <1>5, <2>1, <2>3
    <3> QED BY <1>3, <1>4, <1>6, <2>1, <2>3, <3>1
  <2> QED BY <2>2, <2>3
<1>9. a \o b = c
  BY <1>4, <1>6, <1>7, <1>8, SeqEqual
<1> QED BY <1>9 DEF a, b, c

LEMMA SliceOne ==
  ASSUME NEW buf \in Texts, NEW i \in 1 .. Len(buf)
  PROVE  SubSeq(buf, i, i) = <<buf[i]>> /\ buf[i] \in Tokens
<1> DEFINE a == SubSeq(buf, i, i)
<1>1. Len(buf) \in Nat /\ i \in 0 .. Len(buf) /\ i \in 1 .. (Len(buf) + 1) /\ buf[i] \in Tokens
  BY DEF Texts
<1>2. a \in Seq(Tokens) /\ Len(a) = (IF i < i THEN 0 ELSE i - i + 1) /\ \A x \in 1 .. (i - i + 1) : a[x] = buf[i + x - 1]
  BY <1>1, SlicesAre DEF Texts
<1>3. Len(a) = 1 /\ a[1] = buf[i]
  <2>1. i - i + 1 = 1 /\ ~(i < i) /\ i + 1 - 1 = i /\ 1 \in 1 .. 1
    BY <1>1
  <2> HIDE DEF a
  <2> QED BY <1>2, <2>1
<1> HIDE DEF a
<1>4. a = <<buf[i]>>
  BY <1>2, <1>3
<1> QED BY <1>1, <1>4 DEF a

LEMMA FromIs ==
  ASSUME NEW buf \in Texts, NEW i \in 1 .. (Len(buf) + 1)
  PROVE  /\ From(buf, i) \in Texts /\ Len(From(buf, i)) = Len(buf) - i + 1
         /\ i = Len(buf) + 1 => From(buf, i) = <<>>
         /\ From(buf, 1) = buf
         /\ i <= Len(buf) => From(buf, i) = <<buf[i]>> \o From(buf, i + 1)
         /\ \A k \in (i - 1) .. Len(buf) : SubSeq(buf, i, k) \in Texts /\ From(buf, i) = SubSeq(buf, i, k) \o From(buf, k + 1)
<1>1. Len(buf) \in Nat /\ i \in Nat /\ Len(buf) \in 0 .. Len(buf) /\ buf \in Seq(Tokens)
  BY DEF Texts
<1>2. SubSeq(buf, i, Len(buf)) \in Seq(Tokens) /\ Len(SubSeq(buf, i, Len(buf))) = (IF Len(buf) < i THEN 0 ELSE Len(buf) - i + 1)
  BY <1>1, SlicesAre
<1>3. From(buf, i) \in Texts /\ Len(From(buf, i)) = Len(buf) - i + 1
  BY <1>1, <1>2 DEF From, Texts
<1>4. i = Len(buf) + 1 => From(buf, i) = <<>>
  BY <1>1, <1>3, EmptySeq DEF Texts
<1>5. From(buf, 1) = buf
  BY <1>1, SubSeqFull DEF From
<1>6. ASSUME NEW k \in (i - 1) .. Len(buf)
      PROVE  SubSeq(buf, i, k) \in Texts /\ From(buf, i) = SubSeq(buf, i, k) \o From(buf, k + 1)
  <2>1. k \in 0 .. Len(buf) /\ Len(buf) \in k .. Len(buf)
    BY <1>1
  <2>2. SubSeq(buf, i, k) \in Seq(Tokens)
    BY <1>1, <2>1, SlicesAre
  <2>3. SubSeq(buf, i, k) \o SubSeq(buf, k + 1, Len(buf)) = SubSeq(buf, i, Len(buf))
    BY <2>1, SlicesJoin
  <2> QED BY <2>2, <2>3 DEF From, Texts
<1>7. ASSUME i <= Len(buf) PROVE From(buf, i) = <<buf[i]>> \o From(buf, i + 1)
  <2>1. i \in 1 .. Len(buf) /\ i \in (i - 1) .. Len(buf)
    BY <1>1, <1>7
  <2>2. SubSeq(buf, i, i) = <<buf[i]>>
    BY <2>1, SliceOne
  <2>3. From(buf, i) = SubSeq(buf, i, i) \o From(buf, i + 1)
    BY <1>6, <2>1
  <2> QED BY <2>2, <2>3
<1> QED BY <1>3, <1>4, <1>5, <1>6, <1>7

(* What is kept of an open sequence is all of it, or as much as the carry  *)
(* holds.                                                                  *)
LEMMA CarriedIs ==
  ASSUME NEW rest \in Texts
  PROVE  /\ Carried(rest) \in Texts /\ Len(Carried(rest)) <= MaxCarry /\ Len(Carried(rest)) <= Len(rest)
         /\ Len(rest) <= MaxCarry => Carried(rest) = rest
<1>1. Len(rest) \in Nat /\ MaxCarry \in Nat /\ rest \in Seq(Tokens)
  BY ShellMarksAssumption DEF Texts
<1> DEFINE k == IF Len(rest) < MaxCarry THEN Len(rest) ELSE MaxCarry
<1>2. k \in 0 .. Len(rest) /\ k <= MaxCarry /\ (Len(rest) <= MaxCarry => k = Len(rest))
  BY <1>1
<1>3. Carried(rest) = SubSeq(rest, 1, k)
  BY DEF Carried
<1> HIDE DEF k
<1>4. 1 \in 1 .. (Len(rest) + 1) /\ k - 1 + 1 = k /\ (k < 1 => k = 0)
  BY <1>1, <1>2
<1>5. SubSeq(rest, 1, k) \in Seq(Tokens) /\ Len(SubSeq(rest, 1, k)) = (IF k < 1 THEN 0 ELSE k - 1 + 1)
  BY <1>1, <1>2, <1>4, SlicesAre
<1>6. Len(SubSeq(rest, 1, k)) = k
  BY <1>4, <1>5
<1>7. k = Len(rest) => SubSeq(rest, 1, k) = rest
  BY <1>1, SubSeqFull
<1> QED BY <1>1, <1>2, <1>3, <1>5, <1>6, <1>7 DEF Texts

(* The shape of what a scan returns.                                       *)
Readings == [found : Seq(Texts), carry : Texts]
Shaped(r, k) == r \in Readings /\ Len(r.carry) <= MaxCarry /\ Len(r.found) + Len(r.carry) <= k

LEMMA SumWithin ==
  ASSUME NEW a, NEW b, NEW k, NEW m, a \in Nat, b \in Nat, k \in Int, m \in Int, a + b <= k, k <= m
  PROVE  a + b <= m
OBVIOUS

LEMMA ShapedMore ==
  ASSUME NEW r, NEW k \in Int, NEW m \in Int, k <= m, Shaped(r, k)
  PROVE  Shaped(r, m)
<1>1. Len(r.found) \in Nat /\ Len(r.carry) \in Nat
  BY DEF Shaped, Readings, Texts
<1> PICK a, b : a = Len(r.found) /\ b = Len(r.carry)
  OBVIOUS
<1>2. a \in Nat /\ b \in Nat
  BY <1>1
<1>3. a + b <= k
  BY DEF Shaped
<1>4. a + b <= m
  BY <1>2, <1>3, SumWithin
<1>5. Len(r.found) + Len(r.carry) <= m
  BY <1>4
<1> QED BY <1>5 DEF Shaped

LEMMA BeforeIs ==
  ASSUME NEW r \in Readings, NEW p \in Texts
  PROVE  /\ Before(p, r) \in Readings /\ Before(p, r).found = <<p>> \o r.found /\ Before(p, r).carry = r.carry
         /\ Len(<<p>> \o r.found) = Len(r.found) + 1
<1> DEFINE f == <<p>> \o r.found
           o == <<p>>
<1>1. r.found \in Seq(Texts) /\ o \in Seq(Texts) /\ Len(o) = 1
  BY DEF Readings
<1>2. o \o r.found \in Seq(Texts) /\ Len(o \o r.found) = Len(o) + Len(r.found)
  <2> HIDE DEF o
  <2> QED BY <1>1, ConcatProperties
<1>3. Len(r.found) \in Nat
  BY <1>1
<1>4. f \in Seq(Texts) /\ Len(f) = Len(r.found) + 1
  <2>1. f = o \o r.found
    OBVIOUS
  <2> HIDE DEF f, o
  <2> QED BY <1>1, <1>2, <1>3, <2>1
<1> DEFINE q == [r EXCEPT !.found = f]
<1>5. Before(p, r) = q
  BY DEF Before
<1>6. q \in Readings /\ q.found = f /\ q.carry = r.carry
  <2> HIDE DEF f
  <2> QED BY <1>4 DEF Readings
<1> HIDE DEF q
<1> QED BY <1>4, <1>5, <1>6

(* A scan finds no more than it has read; what it found and what it        *)
(* carries over share the buffer.                                          *)
LEMMA ScanShape ==
  ASSUME NEW buf \in Texts
  PROVE  Shaped(Scan(buf), Len(buf))
<1> DEFINE n == Len(buf)
<1>1. n \in Nat
  BY DEF Texts
<1>2. PICK at : Scan(buf) = at[1] /\ \A i \in 1 .. (n + 1) : at[i] = ScanFrom(at, buf, i)
  BY ScanIs
<1> DEFINE P == {i \in 1 .. (n + 1) : Shaped(at[i], n + 1 - i)}
<1>3. ASSUME NEW i \in 1 .. (n + 1), \A j \in (i + 1) .. (n + 1) : j \in P PROVE Shaped(at[i], n + 1 - i)
  <2>1. at[i] = ScanFrom(at, buf, i)
    BY <1>2
  <2>2. <<>> \in Texts /\ <<>> \in Seq(Texts) /\ Len(<<>>) = 0
    BY EmptySeq DEF Texts
  <2>3. From(buf, i) \in Texts /\ Len(From(buf, i)) = n + 1 - i
    <3>1. From(buf, i) \in Texts /\ Len(From(buf, i)) = n - i + 1
      BY FromIs
    <3> QED BY <1>1, <3>1
  <2>4. Shaped(CarriedOver(buf, i), n + 1 - i)
    <3> DEFINE c == Carried(From(buf, i))
    <3>1. c \in Texts /\ Len(c) <= MaxCarry /\ Len(c) <= n + 1 - i /\ Len(c) \in Nat
      <4>1. c \in Texts /\ Len(c) <= MaxCarry /\ Len(c) <= Len(From(buf, i))
        BY <2>3, CarriedIs
      <4> QED BY <2>3, <4>1 DEF Texts
    <3> HIDE DEF c
    <3>2. [found |-> <<>>, carry |-> c] \in Readings
      BY <2>2, <3>1 DEF Readings
    <3>3. Shaped([found |-> <<>>, carry |-> c], n + 1 - i)
      BY <2>2, <3>1, <3>2 DEF Shaped
    <3> QED BY <3>3 DEF CarriedOver, c
  <2>5. ASSUME i <= n PROVE Shaped(at[i + 1], n + 1 - i)
    <3>1. i + 1 \in (i + 1) .. (n + 1)
      BY <1>1, <2>5
    <3>2. Shaped(at[i + 1], n + 1 - (i + 1))
      BY <1>3, <3>1
    <3>3. Len(at[i + 1].carry) \in Nat /\ Len(at[i + 1].found) \in Nat
      BY <3>2 DEF Shaped, Readings, Texts
    <3>4. n + 1 - (i + 1) \in Int /\ n + 1 - i \in Int /\ n + 1 - (i + 1) <= n + 1 - i
      BY <1>1
    <3> QED BY <3>2, <3>4, ShapedMore
  <2>6. CASE i = n + 1
    <3>1. at[i] = Nothing
      BY <2>1, <2>6, ScanFromIs
    <3>2. Nothing \in Readings /\ Nothing.found = <<>> /\ Nothing.carry = <<>>
      BY <2>2 DEF Nothing, Readings
    <3>3. MaxCarry \in Nat /\ n + 1 - i \in Nat
      BY <1>1, ShellMarksAssumption
    <3> QED BY <2>2, <3>1, <3>2, <3>3 DEF Shaped
  <2>7. CASE i <= n /\ buf[i] # "esc"
    BY <2>1, <2>5, <2>7, ScanFromIs
  <2>8. CASE i = n /\ buf[i] = "esc"
    BY <2>1, <2>4, <2>8, ScanFromIs
  <2>9. CASE i < n /\ buf[i] = "esc" /\ buf[i + 1] # "]"
    BY <1>1, <2>1, <2>5, <2>9, ScanFromIs
  <2>10. CASE Opens(buf, i) /\ Terminators(buf, i) = {}
    <3>1. i <= n
      BY <1>1, <2>10 DEF Opens
    <3> QED BY <2>1, <2>4, <2>5, <2>10, <3>1, ScanFromIs
  <2>11. CASE Opens(buf, i) /\ Terminators(buf, i) # {}
    <3> DEFINE r == ReadSequence(buf, i)
               p == SubSeq(buf, i + 2, Stop(buf, i) - 1)
    <3>1. i \in 1 .. n /\ i < n
      BY <1>1, <2>11 DEF Opens
    <3>2. Closed(buf, i, Stop(buf, i), r)
      BY <2>11, <3>1, ReadIs
    <3>3. r.next \in (i + 1) .. (n + 1) /\ p \in Texts
      BY <3>2 DEF Closed
    <3>4. at[i] = Before(p, at[r.next])
      BY <2>1, <2>11, ScanFromIs
    <3> DEFINE x == at[r.next]
               next == r.next
    <3>5. Shaped(x, n + 1 - next)
      BY <1>3, <3>3
    <3> HIDE DEF p
    <3>6. x \in Readings
      BY <3>5 DEF Shaped
    <3>7. Before(p, x) \in Readings /\ Before(p, x).carry = x.carry /\ Before(p, x).found = <<p>> \o x.found
          /\ Len(<<p>> \o x.found) = Len(x.found) + 1
      <4> HIDE DEF x
      <4> QED BY <3>3, <3>6, BeforeIs
    <3>8. Len(Before(p, x).found) = Len(x.found) + 1 /\ at[i] = Before(p, x)
      BY <3>4, <3>7
    <3>9. Len(x.found) \in Nat /\ Len(x.carry) \in Nat /\ next \in (i + 1) .. (n + 1)
      BY <3>3, <3>6 DEF Readings, Texts
    <3> HIDE DEF x, next, r
    <3>10. Len(x.found) + Len(x.carry) <= n + 1 - next
      BY <3>5 DEF Shaped
    <3>11. Len(x.found) + 1 + Len(x.carry) <= n + 1 - i
      <4> DEFINE a == Len(x.found)
                 b == Len(x.carry)
      <4>1. a \in Nat /\ b \in Nat /\ a + b <= n + 1 - next /\ i \in Nat /\ next \in Nat /\ i + 1 <= next /\ n \in Nat
        <5>1. a \in Nat /\ b \in Nat /\ a + b <= n + 1 - next
          BY <3>9, <3>10
        <5>2. i \in Nat /\ next \in Nat /\ i + 1 <= next /\ n \in Nat
          <6> HIDE DEF n
          <6> QED BY <1>1, <3>9
        <5> QED BY <5>1, <5>2
      <4> HIDE DEF a, b, n
      <4>2. a + 1 + b <= n + 1 - i
        BY <4>1
      <4> QED BY <4>2 DEF a, b
    <3> QED BY <3>5, <3>7, <3>8, <3>11 DEF Shaped
  <2> QED BY <1>1, <2>6, <2>7, <2>8, <2>9, <2>10, <2>11 DEF Opens
<1>4. 1 .. (n + 1) \subseteq P
  <2> HIDE DEF n
  <2>1. ASSUME NEW i \in 1 .. (n + 1), \A j \in (i + 1) .. (n + 1) : j \in P PROVE i \in P
    BY <1>3, <2>1
  <2> HIDE DEF P
  <2> QED BY <1>1, <2>1, DownInd
<1>5. Shaped(at[1], n + 1 - 1)
  <2>1. 1 \in 1 .. (n + 1)
    BY <1>1
  <2> QED BY <1>4, <2>1
<1>6. n + 1 - 1 = n
  BY <1>1
<1> QED BY <1>2, <1>5, <1>6

(* No sequence is longer than the carry while w is read; what a reader in  *)
(* state e is in the middle of.                                            *)
Quiet(e, w) == ~TooLong(e, w)
CarryOf(e) == CASE e.mode = "text" -> <<>> [] e.mode = "esc" -> <<"esc">> [] OTHER -> <<"esc", "]">> \o e.payload
Room(e, w) == Len(ReadAll(e, w).payload) + 2 <= MaxCarry

(* Quiet, character by character.                                          *)
LEMMA QuietIs ==
  ASSUME NEW e \in Readers, NEW w \in Texts
  PROVE  Quiet(e, w) <=> \A n \in 1 .. Len(w) : Room(e, SubSeq(w, 1, n))
<1>1. ASSUME NEW n \in 1 .. Len(w)
      PROVE  Room(e, SubSeq(w, 1, n)) <=> ~(Len(ReadAll(e, SubSeq(w, 1, n)).payload) + 2 > MaxCarry)
  <2>1. Len(w) \in Nat /\ n \in 0 .. Len(w) /\ 1 \in 1 .. (Len(w) + 1)
    BY DEF Texts
  <2>2. SubSeq(w, 1, n) \in Texts
    BY <2>1, SlicesAre DEF Texts
  <2>3. ReadAll(e, SubSeq(w, 1, n)) \in Readers
    BY <2>2, ReadAllIs
  <2>4. Len(ReadAll(e, SubSeq(w, 1, n)).payload) \in Nat /\ MaxCarry \in Nat
    BY <2>3, ShellMarksAssumption DEF Readers
  <2> DEFINE x == Len(ReadAll(e, SubSeq(w, 1, n)).payload)
  <2> HIDE DEF x
  <2>5. x + 2 <= MaxCarry <=> ~(x + 2 > MaxCarry)
    BY <2>4 DEF x
  <2> QED BY <2>5 DEF Room, x
<1> QED BY <1>1 DEF Quiet, TooLong

(* A prefix of a join ends in the first part or runs into the second.      *)
LEMMA PrefixOfJoin ==
  ASSUME NEW a \in Texts, NEW b \in Texts
  PROVE  /\ \A n \in 0 .. Len(a) : SubSeq(a \o b, 1, n) = SubSeq(a, 1, n)
         /\ \A n \in 0 .. Len(b) : SubSeq(a \o b, 1, Len(a) + n) = a \o SubSeq(b, 1, n)
         /\ a \o b \in Texts /\ Len(a \o b) = Len(a) + Len(b)
<1> DEFINE c == a \o b
<1>1. c \in Texts /\ Len(c) = Len(a) + Len(b) /\ a \in Seq(Tokens) /\ b \in Seq(Tokens) /\ Len(a) \in Nat /\ Len(b) \in Nat
  BY ConcatProperties DEF Texts
<1>2. \A x \in 1 .. Len(a) + Len(b) : c[x] = IF x <= Len(a) THEN a[x] ELSE b[x - Len(a)]
  BY <1>1, ConcatProperties
<1> HIDE DEF c
<1>3. ASSUME NEW n \in 0 .. Len(a) PROVE SubSeq(c, 1, n) = SubSeq(a, 1, n)
  <2> DEFINE p == SubSeq(c, 1, n)
             q == SubSeq(a, 1, n)
  <2>1. n \in 0 .. Len(c) /\ 1 \in 1 .. (Len(c) + 1) /\ 1 \in 1 .. (Len(a) + 1) /\ n - 1 + 1 = n /\ (n < 1 => n = 0) /\ c \in Seq(Tokens)
    BY <1>1 DEF Texts
  <2>2. p \in Seq(Tokens) /\ Len(p) = (IF n < 1 THEN 0 ELSE n - 1 + 1) /\ \A x \in 1 .. (n - 1 + 1) : p[x] = c[1 + x - 1]
    BY <2>1, SlicesAre
  <2>3. q \in Seq(Tokens) /\ Len(q) = (IF n < 1 THEN 0 ELSE n - 1 + 1) /\ \A x \in 1 .. (n - 1 + 1) : q[x] = a[1 + x - 1]
    BY <1>1, <2>1, SlicesAre
  <2>4. Len(p) = n /\ Len(q) = n
    BY <2>1, <2>2, <2>3
  <2> HIDE DEF p, q
  <2>5. ASSUME NEW x \in 1 .. Len(p) PROVE p[x] = q[x]
    <3>1. x \in 1 .. (n - 1 + 1) /\ 1 + x - 1 = x /\ x \in 1 .. Len(a) + Len(b) /\ x <= Len(a)
      BY <1>1, <2>1, <2>4
    <3> QED BY <1>2, <2>2, <2>3, <3>1
  <2> QED BY <2>2, <2>3, <2>4, <2>5, SeqEqual DEF p, q
<1>4. ASSUME NEW n \in 0 .. Len(b) PROVE SubSeq(c, 1, Len(a) + n) = a \o SubSeq(b, 1, n)
  <2> DEFINE m == Len(a)
  <2>1. 1 \in 1 .. (Len(c) + 1) /\ m \in (1 - 1) .. Len(c) /\ m + n \in m .. Len(c) /\ m \in 0 .. Len(a) /\ m + n \in 0 .. Len(c)
        /\ m + 1 \in 1 .. (Len(c) + 1) /\ c \in Seq(Tokens) /\ n \in Nat /\ m \in Nat /\ n <= Len(b)
    BY <1>1 DEF Texts
  <2>2. SubSeq(c, 1, m) \o SubSeq(c, m + 1, m + n) = SubSeq(c, 1, m + n)
    <3> HIDE DEF m
    <3> QED BY <1>1, <2>1, SlicesJoin
  <2>3. SubSeq(c, 1, m) = a
    <3>1. SubSeq(c, 1, m) = SubSeq(a, 1, m)
      BY <1>3, <2>1
    <3> QED BY <1>1, <3>1, SubSeqFull
  <2> DEFINE p == SubSeq(c, m + 1, m + n)
             q == SubSeq(b, 1, n)
  <2>4. p \in Seq(Tokens) /\ Len(p) = (IF m + n < m + 1 THEN 0 ELSE m + n - (m + 1) + 1)
        /\ \A x \in 1 .. (m + n - (m + 1) + 1) : p[x] = c[m + 1 + x - 1]
    <3> HIDE DEF m
    <3> QED BY <2>1, SlicesAre
  <2>5. q \in Seq(Tokens) /\ Len(q) = (IF n < 1 THEN 0 ELSE n - 1 + 1) /\ \A x \in 1 .. (n - 1 + 1) : q[x] = b[1 + x - 1]
    <3>1. 1 \in 1 .. (Len(b) + 1)
      BY <1>1
    <3> QED BY <1>1, <3>1, SlicesAre
  <2> HIDE DEF p, q, m
  <2>6. Len(p) = n /\ Len(q) = n
    BY <2>1, <2>4, <2>5
  <2>7. ASSUME NEW x \in 1 .. Len(p) PROVE p[x] = q[x]
    <3>1. x \in 1 .. (n - 1 + 1) /\ 1 + x - 1 = x /\ x \in 1 .. (m + n - (m + 1) + 1) /\ m + 1 + x - 1 = m + x
          /\ m + x \in 1 .. m + Len(b) /\ ~(m + x <= m) /\ (m + x) - m = x
      BY <1>1, <2>1, <2>6
    <3>2. p[x] = c[m + x] /\ q[x] = b[x]
      BY <2>4, <2>5, <3>1
    <3> QED BY <1>2, <3>1, <3>2 DEF m
  <2>8. p = q
    BY <2>4, <2>5, <2>6, <2>7, SeqEqual
  <2> QED BY <2>2, <2>3, <2>8 DEF p, q, m
<1> QED BY <1>1, <1>3, <1>4 DEF c

(* A join is quiet when its first part is and the second is from there on. *)
LEMMA QuietJoins ==
  ASSUME NEW e \in Readers, NEW a \in Texts, NEW b \in Texts
  PROVE  Quiet(e, a \o b) <=> Quiet(e, a) /\ Quiet(ReadAll(e, a), b)
<1> DEFINE c == a \o b
           m == Len(a)
<1>1. c \in Texts /\ Len(c) = m + Len(b) /\ m \in Nat /\ Len(b) \in Nat
  BY PrefixOfJoin DEF Texts
<1>2. ReadAll(e, a) \in Readers
  BY ReadAllIs
<1>3. ASSUME NEW n \in 1 .. m PROVE SubSeq(c, 1, n) = SubSeq(a, 1, n) /\ n \in 1 .. Len(c)
  <2>1. n \in 0 .. Len(a) /\ n \in 1 .. Len(c)
    BY <1>1
  <2> QED BY <2>1, PrefixOfJoin
<1>4. ASSUME NEW n \in 1 .. Len(b) PROVE Room(e, SubSeq(c, 1, m + n)) <=> Room(ReadAll(e, a), SubSeq(b, 1, n))
  <2>1. n \in 0 .. Len(b) /\ 1 \in 1 .. (Len(b) + 1)
    BY <1>1
  <2>2. SubSeq(c, 1, m + n) = a \o SubSeq(b, 1, n) /\ SubSeq(b, 1, n) \in Texts
    BY <2>1, PrefixOfJoin, SlicesAre DEF Texts
  <2>3. ReadAll(e, a \o SubSeq(b, 1, n)) = ReadAll(ReadAll(e, a), SubSeq(b, 1, n))
    BY <2>2, ReadAllIs
  <2> QED BY <2>2, <2>3 DEF Room
<1> HIDE DEF c, m
<1>5. Quiet(e, c) <=> \A n \in 1 .. Len(c) : Room(e, SubSeq(c, 1, n))
  BY <1>1, QuietIs
<1>6. Quiet(e, a) <=> \A n \in 1 .. m : Room(e, SubSeq(a, 1, n))
  BY QuietIs DEF m
<1>7. Quiet(ReadAll(e, a), b) <=> \A n \in 1 .. Len(b) : Room(ReadAll(e, a), SubSeq(b, 1, n))
  BY <1>2, QuietIs
<1>8. ASSUME Quiet(e, c) PROVE Quiet(e, a) /\ Quiet(ReadAll(e, a), b)
  <2>1. ASSUME NEW n \in 1 .. m PROVE Room(e, SubSeq(a, 1, n))
    BY <1>3, <1>5, <1>8
  <2>2. ASSUME NEW n \in 1 .. Len(b) PROVE Room(ReadAll(e, a), SubSeq(b, 1, n))
    <3>1. m + n \in 1 .. Len(c)
      BY <1>1
    <3> QED BY <1>4, <1>5, <1>8, <3>1
  <2> QED BY <1>6, <1>7, <2>1, <2>2
<1>9. ASSUME Quiet(e, a), Quiet(ReadAll(e, a), b) PROVE Quiet(e, c)
  <2>1. ASSUME NEW n \in 1 .. Len(c) PROVE Room(e, SubSeq(c, 1, n))
    <3>1. CASE n <= m
      <4>1. n \in 1 .. m
        BY <1>1, <3>1
      <4>2. Room(e, SubSeq(a, 1, n))
        BY <1>6, <1>9, <4>1
      <4> QED BY <1>3, <4>1, <4>2
    <3>2. CASE ~(n <= m)
      <4>1. PICK k \in 1 .. Len(b) : n = m + k
        <5>1. n - m \in 1 .. Len(b) /\ n = m + (n - m)
          BY <1>1, <3>2
        <5> QED BY <5>1
      <4>2. Room(ReadAll(e, a), SubSeq(b, 1, k))
        BY <1>7, <1>9
      <4> QED BY <1>4, <4>1, <4>2
    <3> QED BY <3>1, <3>2
  <2> QED BY <1>5, <2>1
<1> QED BY <1>8, <1>9 DEF c

LEMMA ReaderIn ==
  ASSUME NEW s \in MarkStates, NEW p \in Texts
  PROVE  /\ \A m \in {"text", "esc", "osc"} : ReaderAt(m, p, s) \in Readers
         /\ p # <<>> => ReaderAt("st", p, s) \in Readers
         /\ \A m : ReaderAt(m, p, s).mode = m /\ ReaderAt(m, p, s).payload = p /\ ReaderAt(m, p, s).state = s
         /\ Idle0(s) \in Readers /\ ReaderAt("esc", <<>>, s) \in Readers
BY EmptySeq DEF Readers, ReaderAt, Texts, Idle0

(* The first characters of a sequence.                                     *)
LEMMA ShownFirst ==
  ASSUME NEW s \in MarkStates, NEW c \in Tokens
  PROVE  /\ c # "esc" => ReadAll(Idle0(s), <<c>>) = Idle0(s)
         /\ ReadAll(Idle0(s), <<"esc">>) = ReaderAt("esc", <<>>, s)
         /\ c # "]" => ReadAll(ReaderAt("esc", <<>>, s), <<c>>) = ReadAll(Idle0(s), <<c>>)
         /\ ReadAll(ReaderAt("esc", <<>>, s), <<"]">>) = ReaderAt("osc", <<>>, s)
<1>1. <<>> \in Texts /\ "esc" \in Tokens /\ "]" \in Tokens
  BY EmptySeq DEF Texts, Tokens
<1>2. Idle0(s) \in Readers /\ ReaderAt("esc", <<>>, s) \in Readers
  BY <1>1, ReaderIn
<1>3. \A d \in Tokens : ReadAll(Idle0(s), <<d>>) = ReadOne(ReaderAt("text", <<>>, s), d)
                        /\ ReadAll(ReaderAt("esc", <<>>, s), <<d>>) = ReadOne(ReaderAt("esc", <<>>, s), d)
  BY <1>2, ReadAllIs DEF Idle0
<1>4. \A d \in Tokens : /\ ReadOne(ReaderAt("text", <<>>, s), d) = ReaderAt(IF d = "esc" THEN "esc" ELSE "text", <<>>, s)
                        /\ ReadOne(ReaderAt("esc", <<>>, s), d) =
                             ReaderAt(IF d = "]" THEN "osc" ELSE IF d = "esc" THEN "esc" ELSE "text", <<>>, s)
  BY ReadOneFrom
<1>5. \A d \in Tokens : /\ ReadAll(Idle0(s), <<d>>) = ReaderAt(IF d = "esc" THEN "esc" ELSE "text", <<>>, s)
                        /\ ReadAll(ReaderAt("esc", <<>>, s), <<d>>) =
                             ReaderAt(IF d = "]" THEN "osc" ELSE IF d = "esc" THEN "esc" ELSE "text", <<>>, s)
  BY <1>3, <1>4
<1>6. ReadAll(Idle0(s), <<"esc">>) = ReaderAt("esc", <<>>, s)
  BY <1>1, <1>5
<1>7. ReadAll(ReaderAt("esc", <<>>, s), <<"]">>) = ReaderAt("osc", <<>>, s)
  BY <1>1, <1>5
<1>8. c # "esc" => ReadAll(Idle0(s), <<c>>) = Idle0(s)
  BY <1>5 DEF Idle0
<1>9. c # "]" => ReadAll(ReaderAt("esc", <<>>, s), <<c>>) = ReadAll(Idle0(s), <<c>>)
  BY <1>5
<1> QED BY <1>6, <1>7, <1>8, <1>9

(* Inside a sequence that has not ended the reader collects it.            *)
AtEnd(buf, i, k) == \E j \in Terminators(buf, i) : j <= k /\ (buf[j] = "bel" \/ j + 1 <= k)
RunMode(buf, i, k) == IF k > i + 1 /\ buf[k] = "esc" THEN "st" ELSE "osc"
Running(buf, i, k, s) == ReadAll(Idle0(s), SubSeq(buf, i, k)) = ReaderAt(RunMode(buf, i, k), SubSeq(buf, i + 2, k), s)

(* Behind ESC ] the reader is at the start of a payload.                   *)
LEMMA RunStarts ==
  ASSUME NEW buf \in Texts, NEW i \in 1 .. Len(buf), NEW s \in MarkStates, Opens(buf, i)
  PROVE  Running(buf, i, i + 1, s)
<1>1. Len(buf) \in Nat /\ i < Len(buf) /\ buf[i] = "esc" /\ buf[i + 1] = "]" /\ i + 1 \in 1 .. Len(buf) /\ buf \in Seq(Tokens)
  BY DEF Opens, Texts
<1>2. SubSeq(buf, i, i) = <<"esc">> /\ SubSeq(buf, i + 1, i + 1) = <<"]">>
  BY <1>1, SliceOne
<1>3. i \in 1 .. (Len(buf) + 1) /\ i \in (i - 1) .. Len(buf) /\ i + 1 \in i .. Len(buf)
  BY <1>1
<1>4. SubSeq(buf, i, i + 1) = <<"esc">> \o <<"]">>
  BY <1>2, <1>3, SlicesJoin
<1>5. <<"esc">> \in Texts /\ <<"]">> \in Texts /\ <<>> \in Texts /\ "esc" \in Tokens
  BY EmptySeq DEF Texts, Tokens
<1>6. Idle0(s) \in Readers
  BY <1>5, ReaderIn
<1>7. ReadAll(Idle0(s), SubSeq(buf, i, i + 1)) = ReadAll(ReadAll(Idle0(s), <<"esc">>), <<"]">>)
  <2> DEFINE a == <<"esc">>
             b == <<"]">>
  <2>1. a \in Texts /\ b \in Texts /\ SubSeq(buf, i, i + 1) = a \o b
    BY <1>4, <1>5
  <2> HIDE DEF a, b
  <2>2. ReadAll(Idle0(s), a \o b) = ReadAll(ReadAll(Idle0(s), a), b)
    BY <1>6, <2>1, ReadAllIs
  <2> QED BY <2>1, <2>2 DEF a, b
<1>8. ReadAll(Idle0(s), SubSeq(buf, i, i + 1)) = ReaderAt("osc", <<>>, s)
  BY <1>5, <1>7, ShownFirst
<1>9. RunMode(buf, i, i + 1) = "osc"
  <2>1. ~(i + 1 > i + 1)
    BY <1>1
  <2> QED BY <2>1 DEF RunMode
<1>10. SubSeq(buf, i + 2, i + 1) = <<>>
  <2>1. i + 1 \in 0 .. Len(buf) /\ i + 2 \in 1 .. (Len(buf) + 1) /\ i + 1 < i + 2
    BY <1>1
  <2>2. SubSeq(buf, i + 2, i + 1) \in Seq(Tokens) /\ Len(SubSeq(buf, i + 2, i + 1)) = (IF i + 1 < i + 2 THEN 0 ELSE (i + 1) - (i + 2) + 1)
    BY <1>1, <2>1, SlicesAre
  <2>3. Len(SubSeq(buf, i + 2, i + 1)) = 0
    BY <2>1, <2>2
  <2> QED BY <2>2, <2>3, EmptySeq
<1> QED BY <1>8, <1>9, <1>10 DEF Running

LEMMA SliceGrows ==
  ASSUME NEW buf \in Texts, NEW i \in 1 .. (Len(buf) + 1), NEW k \in (i - 1) .. Len(buf), k < Len(buf)
  PROVE  /\ SubSeq(buf, i, k + 1) = SubSeq(buf, i, k) \o <<buf[k + 1]>>
         /\ SubSeq(buf, i, k + 1) = Append(SubSeq(buf, i, k), buf[k + 1])
         /\ SubSeq(buf, i, k) \in Texts /\ buf[k + 1] \in Tokens
<1>1. Len(buf) \in Nat /\ k + 1 \in k .. Len(buf) /\ k + 1 \in 1 .. Len(buf) /\ k \in 0 .. Len(buf) /\ buf \in Seq(Tokens)
  BY DEF Texts
<1>2. SubSeq(buf, k + 1, k + 1) = <<buf[k + 1]>> /\ buf[k + 1] \in Tokens
  BY <1>1, SliceOne
<1>3. SubSeq(buf, i, k) \o SubSeq(buf, k + 1, k + 1) = SubSeq(buf, i, k + 1)
  BY <1>1, SlicesJoin
<1>4. SubSeq(buf, i, k) \in Seq(Tokens)
  BY <1>1, SlicesAre
<1>5. SubSeq(buf, i, k) \o <<buf[k + 1]>> = Append(SubSeq(buf, i, k), buf[k + 1])
  <2> DEFINE a == SubSeq(buf, i, k)
             c == buf[k + 1]
             o == <<c>>
  <2>0. a \in Seq(Tokens) /\ c \in Tokens
    BY <1>2, <1>4
  <2> HIDE DEF a, c
  <2>1. o \in Seq(Tokens) /\ Len(o) = 1 /\ o[1] = c
    BY <2>0
  <2> HIDE DEF o
  <2>2. a \o o \in Seq(Tokens) /\ Len(a \o o) = Len(a) + 1 /\ Len(a) \in Nat
        /\ \A x \in 1 .. Len(a) + Len(o) : (a \o o)[x] = IF x <= Len(a) THEN a[x] ELSE o[x - Len(a)]
    <3>1. a \o o \in Seq(Tokens) /\ Len(a \o o) = Len(a) + Len(o)
          /\ \A x \in 1 .. Len(a) + Len(o) : (a \o o)[x] = IF x <= Len(a) THEN a[x] ELSE o[x - Len(a)]
      <4>1. o \in Seq(Tokens)
        BY <2>1
      <4> QED BY <2>0, <4>1, ConcatProperties
    <3>2. Len(a \o o) = Len(a) + 1 /\ Len(a) \in Nat
      BY <2>0, <2>1, <3>1
    <3> QED BY <3>1, <3>2
  <2>3. Append(a, c) \in Seq(Tokens) /\ Len(Append(a, c)) = Len(a) + 1
    BY <2>0, AppendProperties
  <2>4. (\A x \in 1 .. Len(a) : Append(a, c)[x] = a[x]) /\ Append(a, c)[Len(a) + 1] = c
    BY <2>0, AppendProperties
  <2>5. ASSUME NEW x \in 1 .. Len(a \o o) PROVE (a \o o)[x] = Append(a, c)[x]
    <3>1. x \in 1 .. Len(a) + Len(o)
      BY <2>1, <2>2
    <3>2. CASE x <= Len(a)
      <4>1. x \in 1 .. Len(a)
        BY <2>2, <3>2
      <4> QED BY <2>2, <2>4, <3>1, <3>2, <4>1
    <3>3. CASE ~(x <= Len(a))
      <4>1. x = Len(a) + 1 /\ x - Len(a) = 1
        BY <2>2, <3>3
      <4> QED BY <2>1, <2>2, <2>4, <3>1, <3>3, <4>1
    <3> QED BY <3>2, <3>3
  <2>6. a \o o = Append(a, c)
    BY <2>2, <2>3, <2>5, SeqEqual
  <2> QED BY <2>6 DEF a, c, o
<1> QED BY <1>2, <1>3, <1>4, <1>5 DEF Texts

(* It collects one more character as long as no terminator has been read.  *)
LEMMA RunGoesOn ==
  ASSUME NEW buf \in Texts, NEW i \in 1 .. Len(buf), NEW s \in MarkStates, Opens(buf, i),
         NEW k \in (i + 1) .. Len(buf), k < Len(buf), Running(buf, i, k, s), ~AtEnd(buf, i, k + 1)
  PROVE  Running(buf, i, k + 1, s)
<1> DEFINE n == Len(buf)
           c == buf[k + 1]
           m == RunMode(buf, i, k)
           p == SubSeq(buf, i + 2, k)
           b == SubSeq(buf, i, k)
<1>1. n \in Nat /\ i \in Nat /\ k \in Nat /\ i + 1 <= k /\ k + 1 <= n
  BY DEF Texts
<1>2. i \in 1 .. (n + 1) /\ k \in (i - 1) .. n /\ i + 2 \in 1 .. (n + 1) /\ k \in (i + 2 - 1) .. n
  BY <1>1
<1>3. SubSeq(buf, i, k + 1) = b \o <<c>> /\ b \in Texts /\ c \in Tokens
  BY <1>2, SliceGrows
<1>4. SubSeq(buf, i + 2, k + 1) = Append(p, c) /\ p \in Texts
  <2> DEFINE y == i + 2
  <2>1. y \in 1 .. (Len(buf) + 1) /\ k \in (y - 1) .. Len(buf)
    BY <1>1
  <2> HIDE DEF y, n
  <2>2. SubSeq(buf, y, k + 1) = Append(SubSeq(buf, y, k), buf[k + 1]) /\ SubSeq(buf, y, k) \in Texts
    BY <2>1, SliceGrows
  <2> QED BY <2>2 DEF y
<1>5. \A j \in (i + 2) .. n : buf[j] = "bel" \/ (buf[j] = "esc" /\ j < n /\ buf[j + 1] = "\\") => j \in Terminators(buf, i)
  BY DEF Terminators
<1>6. c # "bel"
  <2> SUFFICES ASSUME c = "bel" PROVE FALSE
    OBVIOUS
  <2>1. k + 1 \in (i + 2) .. n /\ buf[k + 1] = "bel" /\ k + 1 <= k + 1
    BY <1>1
  <2>2. k + 1 \in Terminators(buf, i)
    BY <1>5, <2>1
  <2> QED BY <2>1, <2>2 DEF AtEnd
<1>7. m = "st" => c # "\\"
  <2> SUFFICES ASSUME m = "st", c = "\\" PROVE FALSE
    OBVIOUS
  <2>1. k > i + 1 /\ buf[k] = "esc"
    BY DEF RunMode
  <2>2. k \in (i + 2) .. n /\ k < n /\ k <= k + 1 /\ k + 1 <= k + 1
    BY <1>1, <2>1
  <2>3. k \in Terminators(buf, i)
    BY <1>5, <2>1, <2>2
  <2> QED BY <2>2, <2>3 DEF AtEnd
<1>8. m \in {"osc", "st"} /\ (m = "st" => p # <<>>)
  <2>1. ASSUME m = "st" PROVE p # <<>>
    <3>1. k > i + 1
      BY <2>1 DEF RunMode
    <3>2. k \in 0 .. n /\ ~(k < i + 2) /\ k - (i + 2) + 1 > 0
      BY <1>1, <3>1
    <3>3. Len(p) = IF k < i + 2 THEN 0 ELSE k - (i + 2) + 1
      BY <1>2, <3>2, SlicesAre DEF Texts
    <3>4. Len(p) > 0
      BY <3>2, <3>3
    <3> HIDE DEF p
    <3>5. Len(<<>>) = 0
      BY EmptySeq
    <3> QED BY <3>4, <3>5
  <2> QED BY <2>1 DEF RunMode
<1>9. ReadAll(Idle0(s), b) = ReaderAt(m, p, s)
  BY DEF Running
<1>10. ReaderAt(m, p, s) \in Readers
  <2> HIDE DEF m, p
  <2> QED BY <1>4, <1>8, ReaderIn
<1>11. RunMode(buf, i, k + 1) = IF c = "esc" THEN "st" ELSE "osc"
  <2>1. k + 1 > i + 1
    BY <1>1
  <2> QED BY <2>1 DEF RunMode
<1>12. Idle0(s) \in Readers /\ <<c>> \in Texts
  <2>1. <<>> \in Texts
    BY EmptySeq DEF Texts
  <2>2. <<c>> \in Texts
    <3> HIDE DEF c
    <3> QED BY <1>3 DEF Texts
  <2> QED BY <2>1, <2>2, ReaderIn
<1> HIDE DEF b, m, p, c
<1>13. ReadAll(Idle0(s), b \o <<c>>) = ReadAll(ReaderAt(m, p, s), <<c>>)
  BY <1>3, <1>9, <1>12, ReadAllIs
<1>14. ReadAll(ReaderAt(m, p, s), <<c>>) = ReadOne(ReaderAt(m, p, s), c)
  BY <1>3, <1>10, ReadAllIs
<1>15. ReadOne(ReaderAt(m, p, s), c) = ReaderAt(IF c = "esc" THEN "st" ELSE "osc", Append(p, c), s)
  <2>1. CASE c = "esc"
    BY <1>8, <2>1, ReadOneFrom
  <2>2. CASE c # "esc"
    <3>1. c \notin {"bel", "esc"} /\ ~(m = "st" /\ c = "\\")
      BY <1>6, <1>7, <2>2
    <3>2. ReadOne(ReaderAt(m, p, s), c) = ReaderAt("osc", Append(p, c), s)
      BY <1>8, <3>1, ReadOneFrom
    <3> QED BY <2>2, <3>2
  <2> QED BY <2>1, <2>2
<1> QED BY <1>3, <1>4, <1>11, <1>13, <1>14, <1>15 DEF Running

(* Up to its terminator a sequence is collected as it is.                  *)
LEMMA OscRun ==
  ASSUME NEW buf \in Texts, NEW i \in 1 .. Len(buf), NEW s \in MarkStates, Opens(buf, i),
         NEW k \in (i + 1) .. Len(buf), ~AtEnd(buf, i, k)
  PROVE  Running(buf, i, k, s)
<1> DEFINE Q == {d \in Nat : i + 1 + d <= k => Running(buf, i, i + 1 + d, s)}
<1>1. Len(buf) \in Nat /\ i \in Nat /\ k \in Nat /\ i + 1 <= k /\ k <= Len(buf) /\ i + 1 + 0 = i + 1
  BY DEF Texts
<1>2. 0 \in Q
  BY <1>1, RunStarts
<1>3. ASSUME NEW d \in Nat, d \in Q PROVE d + 1 \in Q
  <2> SUFFICES ASSUME i + 1 + (d + 1) <= k PROVE Running(buf, i, i + 1 + (d + 1), s)
    OBVIOUS
  <2> DEFINE h == i + 1 + d
  <2>1. h \in (i + 1) .. Len(buf) /\ h < Len(buf) /\ i + 1 + (d + 1) = h + 1 /\ h <= k /\ h + 1 <= k
    BY <1>1
  <2>2. Running(buf, i, h, s)
    BY <1>3, <2>1
  <2>3. ~AtEnd(buf, i, h + 1)
    <3> SUFFICES ASSUME AtEnd(buf, i, h + 1) PROVE FALSE
      OBVIOUS
    <3> HIDE DEF h
    <3>1. PICK j \in Terminators(buf, i) : j <= h + 1 /\ (buf[j] = "bel" \/ j + 1 <= h + 1)
      BY DEF AtEnd
    <3>2. j \in (i + 2) .. Len(buf)
      BY DEF Terminators
    <3>3. j <= k /\ (buf[j] = "bel" \/ j + 1 <= k)
      BY <1>1, <2>1, <3>1, <3>2
    <3> QED BY <3>3 DEF AtEnd
  <2> HIDE DEF h
  <2>4. Running(buf, i, h + 1, s)
    BY <2>1, <2>2, <2>3, RunGoesOn
  <2> QED BY <2>1, <2>4
<1>4. Nat \subseteq Q
  <2> HIDE DEF Q
  <2> QED BY <1>2, <1>3, NatInd
<1>5. k - (i + 1) \in Nat /\ i + 1 + (k - (i + 1)) = k /\ k <= k
  BY <1>1
<1>6. k - (i + 1) \in Q
  BY <1>4, <1>5
<1> QED BY <1>5, <1>6

(* A sequence that ends hands its payload over.                            *)
LEMMA ClosedRun ==
  ASSUME NEW buf \in Texts, NEW i \in 1 .. Len(buf), NEW s \in MarkStates, Opens(buf, i), Terminators(buf, i) # {}
  PROVE  ReadAll(Idle0(s), SubSeq(buf, i, ReadSequence(buf, i).next - 1)) = Idle0(ApplyMark(s, SubSeq(buf, i + 2, Stop(buf, i) - 1)))
<1> DEFINE n == Len(buf)
           t == Stop(buf, i)
           r == ReadSequence(buf, i)
           p == SubSeq(buf, i + 2, t - 1)
<1>1. n \in Nat /\ i \in Nat /\ i < n /\ i \in 1 .. n
  BY DEF Texts, Opens
<1>2. Closed(buf, i, t, r)
  BY <1>1, ReadIs
<1>3. /\ t \in Terminators(buf, i) /\ (\A j \in Terminators(buf, i) : t <= j) /\ t \in (i + 2) .. n
      /\ buf[t] = "bel" => r.next = t + 1
      /\ buf[t] # "bel" => buf[t] = "esc" /\ t < n /\ buf[t + 1] = "\\" /\ r.next = t + 2
      /\ p \in Texts
  BY <1>2 DEF Closed
<1>4. Idle0(s) \in Readers
  <2>1. <<>> \in Texts
    BY EmptySeq DEF Texts
  <2> QED BY <2>1, ReaderIn
<1> HIDE DEF r
<1> HIDE DEF t
<1>5. \A j \in Terminators(buf, i) : j \in Nat
  BY <1>1 DEF Terminators
<1>6. ASSUME buf[t] = "bel" PROVE ReadAll(Idle0(s), SubSeq(buf, i, r.next - 1)) = Idle0(ApplyMark(s, p))
  <2> DEFINE k == t - 1
             m == RunMode(buf, i, k)
             b == SubSeq(buf, i, k)
  <2>1. r.next - 1 = k + 1 /\ k \in (i + 1) .. n /\ k < n /\ k + 1 = t /\ k \in (i - 1) .. n /\ i \in 1 .. (n + 1)
    <3>1. r.next = t + 1
      BY <1>3, <1>6
    <3> QED BY <1>1, <1>3, <3>1
  <2>2. ~AtEnd(buf, i, k)
    <3> SUFFICES ASSUME AtEnd(buf, i, k) PROVE FALSE
      OBVIOUS
    <3> HIDE DEF k
    <3>1. PICK j \in Terminators(buf, i) : j <= k
      BY DEF AtEnd
    <3>2. t <= j /\ j \in Nat
      BY <1>3, <1>5
    <3> QED BY <1>1, <1>3, <2>1, <3>1, <3>2
  <2> HIDE DEF k
  <2>3. Running(buf, i, k, s)
    BY <2>1, <2>2, OscRun
  <2>4. ReadAll(Idle0(s), b) = ReaderAt(m, SubSeq(buf, i + 2, k), s)
    BY <2>3 DEF Running
  <2>5. SubSeq(buf, i + 2, k) = p
    BY <1>1, <1>3, <2>1 DEF k
  <2>6. SubSeq(buf, i, k + 1) = b \o <<buf[k + 1]>> /\ b \in Texts
    BY <2>1, SliceGrows
  <2>7. <<"bel">> \in Texts /\ "bel" \in Tokens
    BY DEF Texts, Tokens
  <2>8. ReaderAt(m, p, s) \in Readers
    <3>1. ReadAll(Idle0(s), b) \in Readers
      BY <1>4, <2>6, ReadAllIs
    <3> QED BY <2>4, <2>5, <3>1
  <2>9. m \in {"osc", "st"}
    BY DEF RunMode
  <2> DEFINE o == <<"bel">>
  <2>10. SubSeq(buf, i, r.next - 1) = b \o o /\ o \in Texts
    BY <1>6, <2>1, <2>6, <2>7
  <2>11. ReadAll(ReaderAt(m, p, s), o) = ReadOne(ReaderAt(m, p, s), "bel")
    <3> HIDE DEF m, p
    <3> QED BY <2>7, <2>8, ReadAllIs
  <2>12. ReadOne(ReaderAt(m, p, s), "bel") = Idle0(ApplyMark(s, p))
    <3> HIDE DEF m, p
    <3> QED BY <2>9, ReadOneFrom
  <2> HIDE DEF m, p, o, b
  <2>13. ReadAll(Idle0(s), b \o o) = ReadAll(ReadAll(Idle0(s), b), o)
    BY <1>4, <2>6, <2>10, ReadAllIs
  <2> QED BY <2>4, <2>5, <2>10, <2>11, <2>12, <2>13
<1>7. ASSUME buf[t] # "bel" PROVE ReadAll(Idle0(s), SubSeq(buf, i, r.next - 1)) = Idle0(ApplyMark(s, p))
  <2> DEFINE q == SubSeq(buf, i + 2, t)
             b == SubSeq(buf, i, t)
             o == <<"\\">>
  <2>1. /\ r.next - 1 = t + 1 /\ t \in (i + 1) .. n /\ t < n /\ t \in (i - 1) .. n /\ i \in 1 .. (n + 1)
        /\ t > i + 1 /\ buf[t] = "esc" /\ buf[t + 1] = "\\"
    <3>1. r.next = t + 2 /\ t < n
      BY <1>3, <1>7
    <3> QED BY <1>1, <1>3, <1>7, <3>1
  <2>2. ~AtEnd(buf, i, t)
    <3> SUFFICES ASSUME AtEnd(buf, i, t) PROVE FALSE
      OBVIOUS
    <3>1. PICK j \in Terminators(buf, i) : j <= t /\ (buf[j] = "bel" \/ j + 1 <= t)
      BY DEF AtEnd
    <3>2. t <= j /\ j \in Nat /\ t \in Nat
      BY <1>1, <1>3, <1>5
    <3>3. j = t
      BY <3>1, <3>2
    <3> QED BY <1>7, <3>1, <3>2, <3>3
  <2>3. Running(buf, i, t, s)
    BY <2>1, <2>2, OscRun
  <2>4. ReadAll(Idle0(s), b) = ReaderAt("st", q, s)
    BY <2>1, <2>3 DEF Running, RunMode
  <2>5. q = Append(p, "esc")
    <3> DEFINE y == i + 2
               k == t - 1
    <3>1. y \in 1 .. (n + 1) /\ k \in (y - 1) .. n /\ k < n /\ k + 1 = t
      BY <1>1, <1>3, <2>1
    <3> HIDE DEF y, k, n
    <3>2. SubSeq(buf, y, k + 1) = Append(SubSeq(buf, y, k), buf[k + 1])
      BY <3>1, SliceGrows DEF n
    <3> QED BY <2>1, <3>1, <3>2 DEF y, k
  <2>6. SubSeq(buf, i, t + 1) = b \o <<buf[t + 1]>> /\ b \in Texts
    BY <2>1, SliceGrows
  <2>7. o \in Texts /\ "\\" \in Tokens /\ "esc" \in Tokens
    BY DEF Texts, Tokens
  <2>8. SubSeq(buf, i, r.next - 1) = b \o o
    BY <2>1, <2>6
  <2>9. Front(q) = p
    <3> HIDE DEF p, q
    <3>0. p \in Seq(Tokens) /\ Len(p) \in Nat
      BY <1>3 DEF Texts
    <3>1. q \in Seq(Tokens) /\ Len(q) = Len(p) + 1
      BY <2>5, <2>7, <3>0, AppendProperties
    <3>2. SubSeq(q, 1, Len(p)) = p
      <4>1. 1 \in 1 .. (Len(q) + 1) /\ Len(p) \in 0 .. Len(q) /\ Len(p) - 1 + 1 = Len(p) /\ (Len(p) < 1 => Len(p) = 0)
        BY <3>0, <3>1
      <4> DEFINE f == SubSeq(q, 1, Len(p))
      <4>2. f \in Seq(Tokens) /\ Len(f) = (IF Len(p) < 1 THEN 0 ELSE Len(p) - 1 + 1) /\ \A x \in 1 .. (Len(p) - 1 + 1) : f[x] = q[1 + x - 1]
        BY <3>1, <4>1, SlicesAre
      <4> HIDE DEF f
      <4>3. Len(f) = Len(p)
        BY <4>1, <4>2
      <4>4. \A x \in 1 .. Len(p) : q[x] = p[x]
        BY <2>5, <2>7, <3>0, AppendProperties
      <4>5. ASSUME NEW x \in 1 .. Len(f) PROVE f[x] = p[x]
        <5>1. x \in 1 .. (Len(p) - 1 + 1) /\ 1 + x - 1 = x /\ x \in 1 .. Len(p)
          BY <3>0, <4>1, <4>3
        <5> QED BY <4>2, <4>4, <5>1
      <4> QED BY <3>0, <4>2, <4>3, <4>5, SeqEqual DEF f
    <3>3. Len(q) - 1 = Len(p)
      BY <3>0, <3>1
    <3> QED BY <3>2, <3>3 DEF Front
  <2>10. ReaderAt("st", q, s) \in Readers
    <3>1. ReadAll(Idle0(s), b) \in Readers
      BY <1>4, <2>6, ReadAllIs
    <3> QED BY <2>4, <3>1
  <2> HIDE DEF p, q
  <2>11. ReadAll(ReaderAt("st", q, s), o) = ReadOne(ReaderAt("st", q, s), "\\")
    BY <2>7, <2>10, ReadAllIs
  <2>12. ReadOne(ReaderAt("st", q, s), "\\") = Idle0(ApplyMark(s, Front(q)))
    BY ReadOneFrom
  <2> HIDE DEF o, b
  <2>13. ReadAll(Idle0(s), b \o o) = ReadAll(ReadAll(Idle0(s), b), o)
    BY <1>4, <2>6, <2>7, ReadAllIs
  <2> QED BY <2>4, <2>8, <2>9, <2>11, <2>12, <2>13
<1> QED BY <1>6, <1>7 DEF r, t

(* What the reader and the scan have to say of the rest of a buffer.       *)
Resumes(e, c) ==
  c = CarryOf(e) /\ ReadAll(Idle0(e.state), c) = e /\ Quiet(Idle0(e.state), c)
Follows(s, w, r) ==
  Quiet(Idle0(s), w) =>
    Resumes(ReadAll(Idle0(s), w), r.carry) /\ Marked(s, r.found) = ReadAll(Idle0(s), w).state

(* Nothing is left: the reader is idle and nothing is carried.             *)
LEMMA FollowsIdle == ASSUME NEW s \in MarkStates PROVE Follows(s, <<>>, Nothing)
<1> DEFINE e == Idle0(s)
<1>1. <<>> \in Texts
  BY EmptySeq DEF Texts
<1>2. e \in Readers /\ e.mode = "text" /\ e.state = s
  BY <1>1, ReaderIn DEF Idle0
<1> HIDE DEF e
<1>3. ReadAll(e, <<>>) = e
  BY <1>2, ReadAllIs
<1>4. CarryOf(e) = <<>>
  BY <1>2 DEF CarryOf
<1>5. Quiet(e, <<>>)
  <2>1. Len(<<>>) = 0 /\ 1 .. 0 = {}
    BY EmptySeq
  <2> QED BY <1>1, <1>2, <2>1, QuietIs
<1>6. Marked(s, <<>>) = s
  BY MarkedIs
<1>7. Resumes(e, <<>>)
  BY <1>2, <1>3, <1>4, <1>5 DEF Resumes, e
<1>8. Nothing.carry = <<>> /\ Nothing.found = <<>>
  BY DEF Nothing
<1> QED BY <1>2, <1>3, <1>6, <1>7, <1>8 DEF Follows, e

(* A reader that is idle between two parts goes on with the second as      *)
(* from the start.                                                         *)
LEMMA FollowsOn ==
  ASSUME NEW s \in MarkStates, NEW t \in MarkStates, NEW a \in Texts, NEW b \in Texts, NEW r,
         ReadAll(Idle0(s), a) = Idle0(t), Follows(t, b, r), Quiet(Idle0(s), a \o b)
  PROVE  /\ Resumes(ReadAll(Idle0(s), a \o b), r.carry)
         /\ Marked(t, r.found) = ReadAll(Idle0(s), a \o b).state
<1>1. Idle0(s) \in Readers
  BY EmptySeq, ReaderIn DEF Texts
<1>2. ReadAll(Idle0(s), a \o b) = ReadAll(Idle0(t), b)
  BY <1>1, ReadAllIs
<1>3. Quiet(Idle0(t), b)
  BY <1>1, QuietJoins
<1> QED BY <1>2, <1>3 DEF Follows

LEMMA OneIs ==
  ASSUME NEW c \in Tokens
  PROVE  <<c>> \in Texts /\ Len(<<c>>) = 1 /\ SubSeq(<<c>>, 1, 1) = <<c>>
<1>1. <<c>> \in Seq(Tokens) /\ Len(<<c>>) = 1
  OBVIOUS
<1>2. SubSeq(<<c>>, 1, Len(<<c>>)) = <<c>>
  <2> DEFINE o == <<c>>
  <2>1. o \in Seq(Tokens)
    BY <1>1
  <2> HIDE DEF o
  <2>2. SubSeq(o, 1, Len(o)) = o
    BY <2>1, SubSeqFull
  <2> QED BY <2>2 DEF o
<1> QED BY <1>1, <1>2 DEF Texts

(* A single character from idle is never too long.                         *)
LEMMA QuietOne ==
  ASSUME NEW e \in Readers, NEW c \in Tokens
  PROVE  Quiet(e, <<c>>) <=> Room(e, <<c>>)
<1> DEFINE o == <<c>>
<1>1. o \in Texts /\ Len(o) = 1 /\ SubSeq(o, 1, 1) = o
  BY OneIs
<1> HIDE DEF o
<1>2. Quiet(e, o) <=> \A n \in 1 .. 1 : Room(e, SubSeq(o, 1, n))
  BY <1>1, QuietIs
<1>3. \A n : n \in 1 .. 1 <=> n = 1
  OBVIOUS
<1>4. Quiet(e, o) <=> Room(e, o)
  BY <1>1, <1>2, <1>3
<1> QED BY <1>4 DEF o

LEMMA PairIs ==
  ASSUME NEW x, NEW y
  PROVE  <<x>> \o <<y>> = <<x, y>>
<1> DEFINE a == <<x>>
           b == <<y>>
           c == <<x, y>>
<1>1. /\ a \in Seq({x, y}) /\ b \in Seq({x, y}) /\ c \in Seq({x, y}) /\ Len(a) = 1 /\ Len(b) = 1 /\ Len(c) = 2
      /\ a[1] = x /\ b[1] = y /\ c[1] = x /\ c[2] = y
  OBVIOUS
<1> HIDE DEF a, b, c
<1>2. a \o b \in Seq({x, y}) /\ Len(a \o b) = Len(a) + Len(b)
      /\ \A k \in 1 .. Len(a) + Len(b) : (a \o b)[k] = IF k <= Len(a) THEN a[k] ELSE b[k - Len(a)]
  <2>1. a \in Seq({x, y}) /\ b \in Seq({x, y})
    BY <1>1
  <2> QED BY <2>1, ConcatProperties
<1>3. Len(a \o b) = 2 /\ (a \o b)[1] = x /\ (a \o b)[2] = y
  BY <1>1, <1>2
<1>4. \A k \in 1 .. Len(a \o b) : (a \o b)[k] = c[k]
  BY <1>1, <1>3
<1>5. a \o b = c
  BY <1>1, <1>2, <1>3, <1>4, SeqEqual
<1> QED BY <1>5 DEF a, b, c

(* An "esc" that introduces nothing is passed over.                        *)
LEMMA FollowsEsc ==
  ASSUME NEW s \in MarkStates, NEW c \in Tokens, c # "]", NEW w \in Texts, NEW r, Follows(s, <<c>> \o w, r)
  PROVE  Follows(s, <<"esc">> \o (<<c>> \o w), r)
<1> DEFINE h == <<"esc">>
           o == <<c>>
           e == ReaderAt("esc", <<>>, s)
<1>1. h \in Texts /\ o \in Texts /\ "esc" \in Tokens
  <2>1. "esc" \in Tokens
    BY DEF Tokens
  <2> QED BY <2>1, OneIs
<1>2. Idle0(s) \in Readers /\ e \in Readers
  BY EmptySeq, ReaderIn DEF Texts
<1>3. ReadAll(Idle0(s), h) = e /\ ReadAll(e, o) = ReadAll(Idle0(s), o)
  BY <1>1, ShownFirst
<1>4. Quiet(e, o) <=> Quiet(Idle0(s), o)
  <2>1. Quiet(e, o) <=> Room(e, o)
    <3> HIDE DEF e
    <3> QED BY <1>2, QuietOne
  <2>2. Quiet(Idle0(s), o) <=> Room(Idle0(s), o)
    BY <1>2, QuietOne
  <2>3. Room(e, o) <=> Room(Idle0(s), o)
    BY <1>3 DEF Room
  <2> QED BY <2>1, <2>2, <2>3
<1> HIDE DEF h, o, e
<1>5. o \o w \in Texts
  BY <1>1, PrefixOfJoin
<1>6. ReadAll(Idle0(s), h \o (o \o w)) = ReadAll(e, o \o w)
  BY <1>1, <1>2, <1>3, <1>5, ReadAllIs
<1>7. ReadAll(e, o \o w) = ReadAll(ReadAll(e, o), w) /\ ReadAll(Idle0(s), o \o w) = ReadAll(ReadAll(Idle0(s), o), w)
  BY <1>1, <1>2, ReadAllIs
<1>8. ReadAll(Idle0(s), h \o (o \o w)) = ReadAll(Idle0(s), o \o w)
  BY <1>3, <1>6, <1>7
<1>9. ASSUME Quiet(Idle0(s), h \o (o \o w)) PROVE Quiet(Idle0(s), o \o w)
  <2>1. Quiet(e, o \o w)
    BY <1>1, <1>2, <1>3, <1>5, <1>9, QuietJoins
  <2>2. Quiet(e, o) /\ Quiet(ReadAll(e, o), w)
    BY <1>1, <1>2, <2>1, QuietJoins
  <2> QED BY <1>1, <1>2, <1>3, <1>4, <2>2, QuietJoins
<1> QED BY <1>8, <1>9 DEF Follows, h, o

(* An ESC that ends the buffer is carried over.                            *)
LEMMA FollowsLastEsc ==
  ASSUME NEW s \in MarkStates, NEW buf \in Texts, Len(buf) \in Nat, Len(buf) >= 1, buf[Len(buf)] = "esc"
  PROVE  Follows(s, From(buf, Len(buf)), CarriedOver(buf, Len(buf)))
<1> DEFINE n == Len(buf)
           h == <<"esc">>
           e == ReaderAt("esc", <<>>, s)
<1>1. n \in 1 .. n /\ n \in 1 .. (n + 1) /\ n + 1 \in 1 .. (n + 1) /\ n <= n
  OBVIOUS
<1>2. From(buf, n) = h
  <2>1. SubSeq(buf, n, n) = <<buf[n]>>
    BY <1>1, SliceOne
  <2> QED BY <2>1 DEF From
<1>3. h \in Texts /\ Len(h) = 1
  <2>1. "esc" \in Tokens
    BY DEF Tokens
  <2> QED BY <2>1, OneIs
<1>4. Idle0(s) \in Readers /\ e \in Readers /\ e.mode = "esc" /\ e.state = s
  <2>1. <<>> \in Texts
    BY EmptySeq DEF Texts
  <2> DEFINE p == <<>>
  <2> HIDE DEF p
  <2>2. p \in Texts
    BY <2>1 DEF p
  <2>3. ReaderAt("esc", p, s) \in Readers /\ ReaderAt("esc", p, s).mode = "esc" /\ ReaderAt("esc", p, s).state = s
    BY <2>2, ReaderIn
  <2>4. Idle0(s) \in Readers
    BY <2>2, ReaderIn
  <2> QED BY <2>3, <2>4 DEF p
<1>5. ReadAll(Idle0(s), h) = e
  <2>1. "esc" \in Tokens
    BY DEF Tokens
  <2> QED BY <2>1, ShownFirst
<1>6. Carried(h) = h
  <2>1. Len(h) <= MaxCarry
    <3>1. MaxCarry \in Nat /\ MaxCarry # 0
      BY ShellMarksAssumption
    <3> HIDE DEF h
    <3> QED BY <1>3, <3>1
  <2> HIDE DEF h
  <2> QED BY <1>3, <2>1, CarriedIs
<1>7. CarryOf(e) = h
  <2> HIDE DEF e
  <2> QED BY <1>4 DEF CarryOf
<1>8. Marked(s, <<>>) = s
  BY MarkedIs
<1> HIDE DEF h, e
<1>9. Quiet(Idle0(s), h) => Resumes(e, h)
  BY <1>4, <1>5, <1>7 DEF Resumes
<1>10. CarriedOver(buf, n).carry = h /\ CarriedOver(buf, n).found = <<>>
  BY <1>2, <1>6 DEF CarriedOver
<1> QED BY <1>2, <1>4, <1>5, <1>8, <1>9, <1>10 DEF Follows

(* A sequence that has not ended is kept, all of it.                       *)
LEMMA FollowsOpen ==
  ASSUME NEW s \in MarkStates, NEW buf \in Texts, NEW i \in 1 .. Len(buf), Opens(buf, i), Terminators(buf, i) = {},
         NEW r, ~(Len(buf) - i + 1 > MaxCarry) => r = CarriedOver(buf, i)
  PROVE  Follows(s, From(buf, i), r)
<1> SUFFICES ASSUME Quiet(Idle0(s), From(buf, i))
             PROVE  Resumes(ReadAll(Idle0(s), From(buf, i)), r.carry) /\ Marked(s, r.found) = ReadAll(Idle0(s), From(buf, i)).state
  BY DEF Follows
<1> DEFINE n == Len(buf)
           w == From(buf, i)
           q == SubSeq(buf, i + 2, n)
           m == RunMode(buf, i, n)
           e == ReaderAt(m, q, s)
<1>1. n \in Nat /\ i \in Nat /\ i < n /\ n \in (i + 1) .. n /\ i \in 1 .. (n + 1) /\ i + 1 \in (i - 1) .. n
      /\ i + 2 \in 1 .. (n + 1) /\ n \in 0 .. n /\ buf[i] = "esc" /\ buf[i + 1] = "]" /\ i + 1 \in 1 .. n
  BY DEF Texts, Opens
<1>2. w \in Texts /\ Len(w) = n - i + 1
  BY <1>1, FromIs
<1>3. Running(buf, i, n, s)
  <2>1. ~AtEnd(buf, i, n)
    BY DEF AtEnd
  <2> QED BY <1>1, <2>1, OscRun
<1>4. ReadAll(Idle0(s), w) = e
  BY <1>3 DEF Running, From
<1>5. q \in Texts /\ Len(q) = n - i - 1
  <2>1. q \in Seq(Tokens) /\ Len(q) = IF n < i + 2 THEN 0 ELSE n - (i + 2) + 1
    BY <1>1, SlicesAre DEF Texts
  <2> HIDE DEF q
  <2>2. n < i + 2 => n - i - 1 = 0
    BY <1>1
  <2>3. n - (i + 2) + 1 = n - i - 1
    BY <1>1
  <2> QED BY <2>1, <2>2, <2>3 DEF Texts
<1>6. Idle0(s) \in Readers
  BY EmptySeq, ReaderIn DEF Texts
<1>7. e.mode = m /\ e.payload = q /\ e.state = s /\ m \in {"osc", "st"}
  BY DEF ReaderAt, RunMode
<1>8. Room(Idle0(s), w)
  <2>1. Len(w) \in 1 .. Len(w)
    <3> HIDE DEF w
    <3> QED BY <1>1, <1>2
  <2>2. SubSeq(w, 1, Len(w)) = w
    <3> HIDE DEF w
    <3> QED BY <1>2, SubSeqFull DEF Texts
  <2>3. \A k \in 1 .. Len(w) : Room(Idle0(s), SubSeq(w, 1, k))
    <3> HIDE DEF w
    <3> QED BY <1>2, <1>6, QuietIs DEF w
  <2> QED BY <2>1, <2>2, <2>3
<1> HIDE DEF e, q, m, w
<1>9. Len(q) + 2 <= MaxCarry
  BY <1>4, <1>7, <1>8 DEF Room
<1>10. n - i + 1 <= MaxCarry /\ MaxCarry \in Nat
  <2>1. MaxCarry \in Nat
    BY ShellMarksAssumption
  <2> QED BY <1>1, <1>5, <1>9, <2>1
<1>11. r = CarriedOver(buf, i)
  BY <1>1, <1>10
<1>12. Carried(w) = w
  BY <1>2, <1>10, CarriedIs
<1>13. w = <<"esc", "]">> \o q
  <2>1. From(buf, i) = SubSeq(buf, i, i + 1) \o From(buf, i + 1 + 1)
    BY <1>1, FromIs
  <2>2. i + 1 + 1 = i + 2
    BY <1>1
  <2>3. SubSeq(buf, i, i + 1) = SubSeq(buf, i, i) \o SubSeq(buf, i + 1, i + 1)
    <3>1. i \in (i - 1) .. n /\ i + 1 \in i .. n
      BY <1>1
    <3> QED BY <1>1, <3>1, SlicesJoin
  <2>4. SubSeq(buf, i, i) = <<"esc">> /\ SubSeq(buf, i + 1, i + 1) = <<"]">>
    BY <1>1, SliceOne
  <2>5. <<"esc">> \o <<"]">> = <<"esc", "]">>
    BY PairIs
  <2>6. SubSeq(buf, i, i + 1) = <<"esc", "]">>
    BY <2>3, <2>4, <2>5
  <2>7. From(buf, i + 2) = q
    BY DEF From, q, n
  <2> QED BY <2>1, <2>2, <2>6, <2>7 DEF w
<1>14. CarryOf(e) = w
  BY <1>7, <1>13 DEF CarryOf
<1>15. Marked(s, <<>>) = s
  BY MarkedIs
<1>16. r.carry = w /\ r.found = <<>>
  BY <1>11, <1>12 DEF CarriedOver, w
<1> QED BY <1>4, <1>7, <1>14, <1>15, <1>16 DEF Resumes, w

(* A sequence that ends in the buffer is a marker for both, or none for    *)
(* both.                                                                   *)
LEMMA FollowsClosed ==
  ASSUME NEW s \in MarkStates, NEW buf \in Texts, NEW i \in 1 .. Len(buf), Opens(buf, i), Terminators(buf, i) # {},
         NEW x \in Readings,
         \A t \in MarkStates : Follows(t, From(buf, ReadSequence(buf, i).next), x)
  PROVE  Follows(s, From(buf, i), Before(SubSeq(buf, i + 2, Stop(buf, i) - 1), x))
<1> DEFINE n == Len(buf)
           r == ReadSequence(buf, i)
           k == r.next - 1
           p == SubSeq(buf, i + 2, Stop(buf, i) - 1)
           t == ApplyMark(s, p)
           a == SubSeq(buf, i, k)
           b == From(buf, r.next)
<1>1. n \in Nat /\ i \in Nat /\ i < n /\ i \in 1 .. n /\ i \in 1 .. (n + 1)
  BY DEF Texts, Opens
<1>2. r.next \in (i + 1) .. (n + 1) /\ p \in Texts
  <2>1. Closed(buf, i, Stop(buf, i), r)
    BY <1>1, ReadIs
  <2> QED BY <2>1 DEF Closed
<1>3. k \in (i - 1) .. n /\ k + 1 = r.next /\ r.next \in 1 .. (n + 1)
  <2> HIDE DEF r
  <2> QED BY <1>1, <1>2
<1>4. ReadAll(Idle0(s), a) = Idle0(t)
  BY ClosedRun
<1>5. t \in MarkStates
  <2> HIDE DEF p
  <2> QED BY <1>2, ApplyMarkIs
<1>6. a \in Texts /\ From(buf, i) = a \o b
  <2> HIDE DEF k, r
  <2>1. SubSeq(buf, i, k) \in Texts /\ From(buf, i) = SubSeq(buf, i, k) \o From(buf, k + 1)
    BY <1>1, <1>3, FromIs
  <2> QED BY <1>3, <2>1
<1>7. b \in Texts
  <2> HIDE DEF r
  <2> QED BY <1>3, FromIs
<1>8. Follows(t, b, x)
  BY <1>5
<1>9. Before(p, x).carry = x.carry /\ Before(p, x).found = <<p>> \o x.found
  <2> HIDE DEF p
  <2> QED BY <1>2, BeforeIs
<1>10. Marked(s, <<p>> \o x.found) = Marked(t, x.found)
  <2>1. x.found \in Seq(Texts)
    BY DEF Readings
  <2> HIDE DEF p
  <2> QED BY <1>2, <2>1, MarkedIs
<1> HIDE DEF a, b, t, p, k
<1>11. ASSUME Quiet(Idle0(s), a \o b)
       PROVE  Resumes(ReadAll(Idle0(s), a \o b), x.carry) /\ Marked(t, x.found) = ReadAll(Idle0(s), a \o b).state
  BY <1>4, <1>5, <1>6, <1>7, <1>8, <1>11, FollowsOn
<1>12. Follows(s, a \o b, Before(p, x))
  BY <1>9, <1>10, <1>11 DEF Follows, t
<1> QED BY <1>6, <1>12 DEF p

(* The scan follows the reader.                                            *)
LEMMA ScanFollows ==
  ASSUME NEW buf \in Texts, NEW s \in MarkStates
  PROVE  Follows(s, buf, Scan(buf))
<1> DEFINE n == Len(buf)
           Fine(i, x) == x \in Readings /\ \A t \in MarkStates : Follows(t, From(buf, i), x)
<1>1. n \in Nat
  BY DEF Texts
<1>2. PICK at : Scan(buf) = at[1] /\ \A i \in 1 .. (n + 1) : at[i] = ScanFrom(at, buf, i)
  BY ScanIs
<1>3. <<>> \in Texts /\ <<>> \in Seq(Texts)
  BY EmptySeq DEF Texts
<1>4. ASSUME NEW i \in 1 .. (n + 1) PROVE CarriedOver(buf, i) \in Readings
  <2>1. From(buf, i) \in Texts
    BY FromIs
  <2>2. Carried(From(buf, i)) \in Texts
    BY <2>1, CarriedIs
  <2> QED BY <1>3, <2>2 DEF CarriedOver, Readings
<1> DEFINE P == {i \in 1 .. (n + 1) : Fine(i, at[i])}
<1>5. ASSUME NEW i \in 1 .. (n + 1), \A j \in (i + 1) .. (n + 1) : Fine(j, at[j]) PROVE Fine(i, at[i])
  <2>1. at[i] = ScanFrom(at, buf, i)
    BY <1>2
  <2>2. i <= n => i + 1 \in (i + 1) .. (n + 1) /\ i + 1 \in 1 .. (n + 1) /\ i \in 1 .. n
    BY <1>1
  <2>3. CASE i = n + 1
    <3>1. at[i] = Nothing
      BY <2>1, <2>3, ScanFromIs
    <3>2. From(buf, i) = <<>>
      BY <2>3, FromIs
    <3>3. Nothing \in Readings
      BY <1>3 DEF Nothing, Readings
    <3> QED BY <3>1, <3>2, <3>3, FollowsIdle
  <2>4. CASE i <= n /\ buf[i] # "esc"
    <3>1. at[i] = at[i + 1]
      BY <2>1, <2>4, ScanFromIs
    <3>2. Fine(i + 1, at[i + 1])
      BY <1>5, <2>2, <2>4
    <3>3. From(buf, i) = <<buf[i]>> \o From(buf, i + 1) /\ From(buf, i + 1) \in Texts /\ buf[i] \in Tokens
      <4>1. From(buf, i + 1) \in Texts
        BY <2>2, <2>4, FromIs
      <4>2. From(buf, i) = <<buf[i]>> \o From(buf, i + 1)
        BY <2>2, <2>4, FromIs
      <4> QED BY <2>2, <2>4, <4>1, <4>2, SliceOne
    <3>4. ASSUME NEW t \in MarkStates PROVE Follows(t, From(buf, i), at[i])
      <4> DEFINE c == buf[i]
                 a == <<c>>
                 b == From(buf, i + 1)
                 x == at[i + 1]
      <4>1. c \in Tokens /\ c # "esc" /\ b \in Texts /\ Follows(t, b, x)
        BY <2>4, <3>2, <3>3
      <4> HIDE DEF c, b, x
      <4>2. a \in Texts /\ ReadAll(Idle0(t), a) = Idle0(t)
        BY <4>1, OneIs, ShownFirst
      <4> HIDE DEF a
      <4>3. ASSUME Quiet(Idle0(t), a \o b)
            PROVE  Resumes(ReadAll(Idle0(t), a \o b), x.carry) /\ Marked(t, x.found) = ReadAll(Idle0(t), a \o b).state
        BY <4>1, <4>2, <4>3, FollowsOn
      <4>4. Follows(t, a \o b, x)
        BY <4>3 DEF Follows
      <4> QED BY <3>1, <3>3, <4>4 DEF a, b, c, x
    <3> QED BY <3>1, <3>2, <3>4
  <2>5. CASE i = n /\ buf[i] = "esc"
    <3>1. at[i] = CarriedOver(buf, i)
      BY <2>1, <2>5, ScanFromIs
    <3>2. n >= 1 /\ buf[n] = "esc"
      BY <2>5
    <3>3. \A t \in MarkStates : Follows(t, From(buf, i), at[i])
      BY <1>1, <2>5, <3>1, <3>2, FollowsLastEsc
    <3> QED BY <1>4, <3>1, <3>3
  <2>6. CASE i < n /\ buf[i] = "esc" /\ buf[i + 1] # "]"
    <3>1. at[i] = at[i + 1]
      BY <2>1, <2>6, ScanFromIs
    <3>0. i <= n /\ i + 1 <= n /\ i + 2 \in 1 .. (n + 1) /\ i + 1 \in 1 .. n
      BY <1>1, <2>6
    <3>2. Fine(i + 1, at[i + 1])
      BY <1>5, <2>2, <3>0
    <3> DEFINE c == buf[i + 1]
               w == From(buf, i + 2)
    <3>3. From(buf, i) = <<"esc">> \o From(buf, i + 1)
      <4>1. From(buf, i) = <<buf[i]>> \o From(buf, i + 1)
        BY <3>0, FromIs
      <4> QED BY <2>6, <4>1
    <3>4. From(buf, i + 1) = <<c>> \o w /\ w \in Texts /\ c \in Tokens
      <4>1. From(buf, i + 1) = <<buf[i + 1]>> \o From(buf, (i + 1) + 1)
        BY <2>2, <3>0, FromIs
      <4>2. (i + 1) + 1 = i + 2
        BY <1>1
      <4>3. w \in Texts
        BY <3>0, FromIs
      <4>4. c \in Tokens
        BY <3>0, SliceOne
      <4> QED BY <4>1, <4>2, <4>3, <4>4
    <3>5. ASSUME NEW t \in MarkStates PROVE Follows(t, From(buf, i), at[i])
      <4> DEFINE x == at[i + 1]
      <4>1. Follows(t, <<c>> \o w, x) /\ c # "]"
        BY <2>6, <3>2, <3>4
      <4> HIDE DEF c, w, x
      <4>2. Follows(t, <<"esc">> \o (<<c>> \o w), x)
        BY <3>4, <4>1, FollowsEsc
      <4> QED BY <3>1, <3>3, <3>4, <4>2 DEF x
    <3> QED BY <3>1, <3>2, <3>5
  <2>7. CASE Opens(buf, i) /\ Terminators(buf, i) = {}
    <3>0. i \in 1 .. n /\ i <= n
      BY <1>1, <2>7 DEF Opens
    <3>1. at[i] = IF n - i + 1 > MaxCarry THEN at[i + 1] ELSE CarriedOver(buf, i)
      BY <2>1, <2>7, ScanFromIs
    <3>2. at[i] \in Readings
      <4>1. at[i + 1] \in Readings
        BY <1>5, <2>2, <3>0
      <4> QED BY <1>4, <3>1, <4>1
    <3>3. ASSUME NEW t \in MarkStates PROVE Follows(t, From(buf, i), at[i])
      <4>1. ~(n - i + 1 > MaxCarry) => at[i] = CarriedOver(buf, i)
        BY <3>1
      <4> QED BY <2>7, <3>0, <4>1, FollowsOpen
    <3> QED BY <3>2, <3>3
  <2>8. CASE Opens(buf, i) /\ Terminators(buf, i) # {}
    <3>0. i \in 1 .. n /\ i < n
      BY <1>1, <2>8 DEF Opens
    <3> DEFINE r == ReadSequence(buf, i)
               p == SubSeq(buf, i + 2, Stop(buf, i) - 1)
               x == at[r.next]
    <3>1. at[i] = Before(p, x)
      BY <2>1, <2>8, ScanFromIs
    <3>2. r.next \in (i + 1) .. (n + 1) /\ p \in Texts
      <4>1. Closed(buf, i, Stop(buf, i), r)
        BY <2>8, <3>0, ReadIs
      <4> QED BY <4>1 DEF Closed
    <3>3. x \in Readings /\ \A t \in MarkStates : Follows(t, From(buf, r.next), x)
      BY <1>5, <3>2
    <3>4. ASSUME NEW t \in MarkStates PROVE Follows(t, From(buf, i), Before(p, x))
      <4> HIDE DEF x
      <4> QED BY <2>8, <3>0, <3>3, FollowsClosed
    <3>5. Before(p, x) \in Readings
      <4> HIDE DEF x, p
      <4> QED BY <3>2, <3>3, BeforeIs
    <3> HIDE DEF p, x
    <3> QED BY <3>1, <3>4, <3>5
  <2> QED BY <1>1, <2>3, <2>4, <2>5, <2>6, <2>7, <2>8 DEF Opens
<1>6. 1 .. (n + 1) \subseteq P
  <2> HIDE DEF n, Fine
  <2>1. ASSUME NEW i \in 1 .. (n + 1), \A j \in (i + 1) .. (n + 1) : j \in P PROVE i \in P
    BY <1>5, <2>1
  <2> HIDE DEF P
  <2> QED BY <1>1, <2>1, DownInd
<1>7. Fine(1, at[1])
  <2>1. 1 \in 1 .. (n + 1)
    BY <1>1
  <2> HIDE DEF Fine
  <2> QED BY <1>6, <2>1
<1>8. From(buf, 1) = buf
  <2>1. 1 \in 1 .. (n + 1)
    BY <1>1
  <2> QED BY <2>1, FromIs
<1> QED BY <1>2, <1>7, <1>8

(* The tracker, the reader of its rule and the screen beside it.  While no *)
(* sequence has been too long, the tracker's carry is what leads an idle   *)
(* reader to where the reader is.                                          *)
MarksInv ==
  /\ tracker \in [state : MarkStates, carry : Texts] /\ follower \in Readers
  /\ screen \in Screens /\ Beside(follower, screen)
  /\ fed \in 0 .. MaxFed /\ overlong \in BOOLEAN
  /\ Len(tracker.carry) <= MaxCarry /\ tracker.state.commands + Len(tracker.carry) <= fed
  /\ ~overlong => Resumes(follower, tracker.carry) /\ tracker.state = follower.state

(* At first both are idle and nothing was fed.                             *)
LEMMA MarksBegin == MarksInit => MarksInv
<1> SUFFICES ASSUME MarksInit PROVE MarksInv
  OBVIOUS
<1>1. Blank \in MarkStates /\ Blank.commands = 0 /\ <<>> \in Texts /\ Len(<<>>) = 0
  BY EmptySeq DEF Blank, MarkStates, Texts
<1>2. follower = Idle0(Blank) /\ tracker = [state |-> Blank, carry |-> <<>>] /\ fed = 0 /\ overlong = FALSE
  BY DEF MarksInit, Idle0, ReaderAt
<1>3. follower \in Readers /\ follower.state = Blank
  BY <1>1, <1>2, ReaderIn DEF Idle0
<1>4. tracker \in [state : MarkStates, carry : Texts] /\ tracker.state = Blank /\ tracker.carry = <<>>
  BY <1>1, <1>2
<1>5. Resumes(follower, <<>>)
  <2>1. Quiet(Idle0(Blank), <<>>)
    <3>1. Len(<<>>) = 0 /\ 1 .. 0 = {}
      BY <1>1
    <3> QED BY <1>1, <1>2, <1>3, <3>1, QuietIs
  <2>2. ReadAll(Idle0(Blank), <<>>) = Idle0(Blank)
    BY <1>2, <1>3, ReadAllIs
  <2>3. CarryOf(Idle0(Blank)) = <<>>
    <3>1. Idle0(Blank).mode = "text"
      BY DEF Idle0, ReaderAt
    <3> QED BY <3>1 DEF CarryOf
  <2> QED BY <1>2, <1>3, <2>1, <2>2, <2>3 DEF Resumes
<1>6. MaxCarry \in Nat /\ MaxFed \in Nat
  BY ShellMarksAssumption
<1>7. tracker.state.commands + Len(tracker.carry) <= fed
  BY <1>1, <1>2, <1>4
<1>8. fed \in 0 .. MaxFed /\ overlong \in BOOLEAN /\ Len(tracker.carry) <= MaxCarry
  <2>1. fed \in 0 .. MaxFed /\ overlong \in BOOLEAN
    <3>1. fed \in 0 .. MaxFed
      <4>1. fed = 0
        BY <1>2
      <4> QED BY <1>6, <4>1
    <3>2. overlong \in BOOLEAN
      BY <1>2, Zenon
    <3> QED BY <3>1, <3>2
  <2>2. Len(tracker.carry) = 0
    BY <1>1, <1>4
  <2> QED BY <1>6, <2>1, <2>2
<1>9. Resumes(follower, tracker.carry) /\ tracker.state = follower.state
  BY <1>3, <1>4, <1>5
<1>10. screen \in Screens /\ Beside(follower, screen)
  <2>1. screen = ScreenAt("text", <<>>, Blank, FALSE, Facts) /\ "text" \in Modes /\ FALSE \in BOOLEAN /\ Facts \in SUBSET Facts
    BY DEF MarksInit, ScreenAt, Modes
  <2>2. screen \in Screens
    BY <1>1, <2>1, ScreenIn
  <2>3. screen.mode = "text" /\ screen.state = Blank /\ screen.cut = FALSE
    BY DEF MarksInit
  <2>4. follower.mode = "text"
    BY <1>2 DEF Idle0, ReaderAt
  <2>5. Agree(screen.good, follower.state, screen.state)
    <3>1. follower.state = screen.state
      BY <1>3, <2>3
    <3> QED BY <3>1 DEF Agree
  <2> QED BY <2>2, <2>3, <2>4, <2>5 DEF Beside
<1> QED BY <1>3, <1>4, <1>7, <1>8, <1>9, <1>10 DEF MarksInv

LEMMA CountsWithin ==
  ASSUME NEW c, NEW d, NEW f, NEW g, NEW m, NEW n, NEW h,
         c \in Nat, f \in Nat, g \in Nat, m \in Nat, n \in Nat, h \in Nat,
         d \in c .. (c + f), f + g <= m + n, c + m <= h
  PROVE  d + g <= h + n
OBVIOUS

(* A chunk is appended to the carry and scanned; the reader, idle before   *)
(* the carry, follows it through both, and the screen stays beside it.     *)
LEMMA MarksStep == MarksInv /\ [MarksNext]_marksVars => MarksInv'
<1> SUFFICES ASSUME MarksInv, [MarksNext]_marksVars PROVE MarksInv'
  OBVIOUS
<1>1. CASE UNCHANGED marksVars
  BY <1>1 DEF MarksInv, marksVars, Resumes
<1>2. CASE MarksNext
  <2>1. PICK n \in 1 .. MaxChunk : \E chunk \in [1 .. n -> Tokens] :
          /\ fed + n <= MaxFed /\ fed' = fed + n
          /\ tracker' = Fed(tracker, chunk)
          /\ follower' = ReadAll(follower, chunk)
          /\ screen' = ShowAll(screen, chunk)
          /\ overlong' = (overlong \/ TooLong(follower, chunk))
    BY <1>2 DEF MarksNext, Feed
  <2>2. PICK chunk \in [1 .. n -> Tokens] :
          /\ fed + n <= MaxFed /\ fed' = fed + n
          /\ tracker' = Fed(tracker, chunk)
          /\ follower' = ReadAll(follower, chunk)
          /\ screen' = ShowAll(screen, chunk)
          /\ overlong' = (overlong \/ TooLong(follower, chunk))
    BY <2>1
  <2>3. n \in Nat /\ chunk \in Texts /\ Len(chunk) = n /\ MaxCarry \in Nat /\ MaxFed \in Nat
    BY ShellMarksAssumption DEF Texts
  <2> PICK t, k, s : t = tracker /\ k = tracker.carry /\ s = tracker.state
    OBVIOUS
  <2>4. t \in [state : MarkStates, carry : Texts] /\ t.carry = k /\ t.state = s /\ k \in Texts /\ s \in MarkStates
        /\ follower \in Readers /\ screen \in Screens /\ Beside(follower, screen) /\ fed \in 0 .. MaxFed /\ overlong \in BOOLEAN
        /\ Len(k) <= MaxCarry /\ s.commands + Len(k) <= fed
    BY DEF MarksInv
  <2>5. ~overlong => Resumes(follower, k) /\ s = follower.state
    BY DEF MarksInv
  <2> DEFINE buf == k \o chunk
             x == Scan(buf)
  <2>6. buf \in Texts /\ Len(buf) = Len(k) + n
    BY <2>3, <2>4, PrefixOfJoin
  <2> HIDE DEF buf
  <2>7. Shaped(x, Len(buf))
    BY <2>6, ScanShape
  <2>8. tracker' = [state |-> Marked(s, x.found), carry |-> x.carry]
    BY <2>2, <2>4 DEF Fed, Marked, buf
  <2> HIDE DEF x
  <2>9. x.found \in Seq(Texts) /\ x.carry \in Texts /\ Len(x.carry) <= MaxCarry
    BY <2>7 DEF Shaped, Readings
  <2>10. Marked(s, x.found) \in MarkStates
    BY <2>4, <2>9, MarkedIs
  <2>11. Marked(s, x.found).commands \in s.commands .. (s.commands + Len(x.found))
    BY <2>4, <2>9, MarkedCounts
  <2>12. tracker' \in [state : MarkStates, carry : Texts] /\ tracker'.state = Marked(s, x.found) /\ tracker'.carry = x.carry
    BY <2>8, <2>9, <2>10
  <2>13. Marked(s, x.found).commands + Len(x.carry) <= fed + n
    <3> PICK c, d, f, g, m : c = s.commands /\ d = Marked(s, x.found).commands /\ f = Len(x.found) /\ g = Len(x.carry) /\ m = Len(k)
      OBVIOUS
    <3>1. c \in Nat /\ f \in Nat /\ g \in Nat /\ m \in Nat /\ fed \in Nat
      BY <2>3, <2>4, <2>9 DEF MarkStates, Texts
    <3>2. d \in c .. (c + f)
      BY <2>11
    <3>3. f + g <= m + n
      BY <2>6, <2>7 DEF Shaped
    <3>4. c + m <= fed
      BY <2>4
    <3>5. d + g <= fed + n
      BY <2>3, <3>1, <3>2, <3>3, <3>4, CountsWithin
    <3> QED BY <3>5
  <2>14. follower' \in Readers
    BY <2>2, <2>3, <2>4, ReadAllIs
  <2>15. fed' \in 0 .. MaxFed /\ overlong' \in BOOLEAN
    <3>1. fed' \in 0 .. MaxFed
      BY <2>2, <2>3, <2>4
    <3>2. TooLong(follower, chunk) \in BOOLEAN
      BY DEF TooLong
    <3> QED BY <2>2, <2>4, <3>1, <3>2
  <2>16. ASSUME ~overlong' PROVE Resumes(follower', tracker'.carry) /\ tracker'.state = follower'.state
    <3>1. ~overlong /\ Quiet(follower, chunk)
      BY <2>2, <2>16 DEF Quiet
    <3>2. s = follower.state /\ ReadAll(Idle0(s), k) = follower /\ Quiet(Idle0(s), k)
      BY <2>5, <3>1 DEF Resumes
    <3>3. Idle0(s) \in Readers
      BY <2>4, EmptySeq, ReaderIn DEF Texts
    <3>4. Quiet(Idle0(s), buf)
      BY <2>3, <2>4, <3>1, <3>2, <3>3, QuietJoins DEF buf
    <3>5. ReadAll(Idle0(s), buf) = follower'
      BY <2>2, <2>3, <2>4, <3>2, <3>3, ReadAllIs DEF buf
    <3>6. Follows(s, buf, x)
      BY <2>4, <2>6, ScanFollows DEF x
    <3>7. Resumes(follower', x.carry) /\ Marked(s, x.found) = follower'.state
      BY <3>4, <3>5, <3>6 DEF Follows
    <3> QED BY <2>12, <3>7
  <2>17. screen' \in Screens /\ Beside(follower', screen')
    BY <2>2, <2>3, <2>4, BesideAll
  <2> QED BY <2>2, <2>9, <2>12, <2>13, <2>14, <2>15, <2>16, <2>17 DEF MarksInv
<1> QED BY <1>1, <1>2

LEMMA MarksInvGives == MarksInv => MarksTypeOK /\ MarksExact
<1> SUFFICES ASSUME MarksInv PROVE MarksTypeOK /\ MarksExact
  OBVIOUS
<1>1. tracker.state.commands \in Nat /\ Len(tracker.carry) \in Nat /\ fed \in Nat
  BY DEF MarksInv, MarkStates, Texts
<1>2. tracker.state.commands \in 0 .. fed
  <2> PICK c, l : c = tracker.state.commands /\ l = Len(tracker.carry)
    OBVIOUS
  <2>1. c + l <= fed
    BY DEF MarksInv
  <2> QED BY <1>1, <2>1
<1>3. MarksTypeOK
  BY <1>2 DEF MarksInv, MarksTypeOK, Screens
<1>4. MarksExact
  <2> SUFFICES ASSUME ~overlong PROVE MarksExact
    BY DEF MarksExact
  <2>1. tracker.state = follower.state /\ tracker.carry = CarryOf(follower)
    BY DEF MarksInv, Resumes
  <2>2. \A f \in screen.good : tracker.state[f] = screen.state[f]
    BY <2>1 DEF MarksInv, Beside, Agree
  <2> QED BY <2>1, <2>2 DEF MarksExact, CarryOf
<1> QED BY <1>3, <1>4

-----------------------------------------------------------------------------
(* What the agent reads (AgentRead).  What was captured is a window of     *)
(* what was printed; redaction is followed item by item, and two           *)
(* redactions of the same text that begin apart agree from where they      *)
(* first meet (InSync).                                                    *)
Looks == Pieces \union Masks
Items == [looks : Looks, at : SUBSET Nat]
Places == [at : Nat, kind : Pieces]
LastLooks(done) == IF done = <<>> THEN "nothing" ELSE Last(done).looks
Absorbs(done, p) == LastLooks(done) = "open key" \/ (LastLooks(done) = "label" /\ p.kind = "text")
Redacts == [x \in Seq(Items) \X Places |-> RedactStep(x[1], x[2])]
Masked(done, p) ==
  IF LastLooks(done) = "open key" THEN (IF p.kind = "end" THEN "key" ELSE "open key") ELSE "secret"
Fresh(p) == Item(IF p.kind = "begin" THEN "open key" ELSE p.kind, {p.at})

LEMMA LastAndFront ==
  ASSUME NEW S, NEW s \in Seq(S), s # <<>>
  PROVE  /\ Len(s) \in Nat /\ Len(s) >= 1 /\ Last(s) = s[Len(s)] /\ Last(s) \in S
         /\ Front(s) \in Seq(S) /\ Len(Front(s)) = Len(s) - 1
         /\ \A i \in 1 .. (Len(s) - 1) : Front(s)[i] = s[i]
<1>1. Len(s) \in Nat /\ Len(s) # 0
  BY EmptySeq
<1>2. PICK k \in Nat : Len(s) = k + 1 /\ Len(s) - 1 = k
  BY <1>1
<1>3. Last(s) = s[Len(s)] /\ s[Len(s)] \in S
  <2>1. Len(s) \in 1 .. Len(s)
    BY <1>1
  <2> QED BY <2>1 DEF Last
<1>4. Front(s) = SubSeq(s, 1, k)
  BY <1>2 DEF Front
<1>5. \A i \in 1 .. k : s[i] \in S
  BY <1>2
<1>6. SubSeq(s, 1, k) \in Seq(S) /\ Len(SubSeq(s, 1, k)) = (IF k < 1 THEN 0 ELSE k - 1 + 1) /\ \A i \in 1 .. (k - 1 + 1) : SubSeq(s, 1, k)[i] = s[1 + i - 1]
  BY <1>5, SubSeqProperties
<1>7. k - 1 + 1 = k /\ (k < 1 => k = 0) /\ \A i \in 1 .. k : 1 + i - 1 = i
  OBVIOUS
<1>8. Len(Front(s)) = k /\ Front(s) \in Seq(S) /\ \A i \in 1 .. k : Front(s)[i] = s[i]
  BY <1>4, <1>6, <1>7
<1> QED BY <1>1, <1>2, <1>3, <1>8

(* What one more place does to the items before it.                        *)
Merges(done, p, r) ==
  /\ Len(r) = Len(done) /\ Len(done) >= 1 /\ \A i \in 1 .. (Len(done) - 1) : r[i] = done[i]
  /\ r[Len(done)].at = done[Len(done)].at \union {p.at} /\ r[Len(done)].looks = Masked(done, p)
Adds(done, p, r) ==
  /\ Len(r) = Len(done) + 1 /\ \A i \in 1 .. Len(done) : r[i] = done[i]
  /\ r[Len(done) + 1].at = {p.at} /\ r[Len(done) + 1].looks = Fresh(p).looks

(* One more place is absorbed by the last item or becomes an item.         *)
LEMMA RedactStepIs ==
  ASSUME NEW done \in Seq(Items), NEW p \in Places
  PROVE  /\ RedactStep(done, p) \in Seq(Items)
         /\ Absorbs(done, p) => Merges(done, p, RedactStep(done, p))
         /\ ~Absorbs(done, p) => Adds(done, p, RedactStep(done, p))
<1> DEFINE last == IF done = <<>> THEN Item("nothing", {}) ELSE Last(done)
           merged(looks) == Append(Front(done), Item(looks, last.at \union {p.at}))
           r == RedactStep(done, p)
<1>1. p.at \in Nat /\ p.kind \in Pieces
  BY DEF Places
<1>2. last.looks = LastLooks(done)
  BY DEF LastLooks, Item
<1>3. r = CASE last.looks = "open key" -> merged(IF p.kind = "end" THEN "key" ELSE "open key")
            [] last.looks = "label" /\ p.kind = "text" -> merged("secret")
            [] OTHER -> Append(done, Item(IF p.kind = "begin" THEN "open key" ELSE p.kind, {p.at}))
  BY DEF RedactStep
<1>4. ASSUME Absorbs(done, p) PROVE r \in Seq(Items) /\ Merges(done, p, r)
  <2>1. done # <<>>
    BY <1>4 DEF Absorbs, LastLooks
  <2>2. last = Last(done)
    BY <2>1
  <2>3. r = merged(Masked(done, p))
    <3> HIDE DEF last, r, merged
    <3> QED BY <1>2, <1>3, <1>4 DEF Absorbs, Masked
  <2> DEFINE x == Item(Masked(done, p), last.at \union {p.at})
             f == Front(done)
  <2>4. r = Append(f, x)
    BY <2>3
  <2>5. /\ Len(done) \in Nat /\ Len(done) >= 1 /\ Last(done) = done[Len(done)] /\ Last(done) \in Items
        /\ f \in Seq(Items) /\ Len(f) = Len(done) - 1 /\ \A i \in 1 .. (Len(done) - 1) : f[i] = done[i]
    BY <2>1, LastAndFront
  <2>6. Masked(done, p) \in Looks
    BY DEF Masked, Looks, Masks
  <2>7. last.at \in SUBSET Nat
    <3> HIDE DEF last
    <3> QED BY <2>2, <2>5 DEF Items
  <2>8. x \in Items /\ x.at = done[Len(done)].at \union {p.at} /\ x.looks = Masked(done, p)
    <3> HIDE DEF last
    <3>1. x.at = last.at \union {p.at} /\ x.looks = Masked(done, p)
      BY DEF Item
    <3>2. last.at \union {p.at} \in SUBSET Nat
      BY <1>1, <2>7
    <3>3. x \in Items
      BY <2>6, <3>2 DEF Item, Items
    <3> QED BY <2>2, <2>5, <3>1, <3>3
  <2> HIDE DEF r, x, f, last
  <2>9. Append(f, x) \in Seq(Items) /\ Len(Append(f, x)) = Len(f) + 1
    BY <2>5, <2>8, AppendProperties
  <2>10. (\A i \in 1 .. Len(f) : Append(f, x)[i] = f[i]) /\ Append(f, x)[Len(f) + 1] = x
    BY <2>5, <2>8, AppendProperties
  <2>11. Len(f) + 1 = Len(done)
    BY <2>5
  <2>12. Len(r) = Len(done) /\ r[Len(done)] = x
    BY <2>4, <2>9, <2>10, <2>11
  <2>13. \A i \in 1 .. (Len(done) - 1) : r[i] = done[i]
    BY <2>4, <2>5, <2>10
  <2> QED BY <2>4, <2>5, <2>8, <2>9, <2>12, <2>13 DEF Merges
<1>5. ASSUME ~Absorbs(done, p) PROVE r \in Seq(Items) /\ Adds(done, p, r)
  <2> DEFINE x == Fresh(p)
  <2>1. r = Append(done, x)
    <3> HIDE DEF last, r, merged
    <3> QED BY <1>2, <1>3, <1>5 DEF Absorbs, Fresh
  <2>2. x.at = {p.at} /\ x \in Items
    <3> DEFINE l == IF p.kind = "begin" THEN "open key" ELSE p.kind
    <3>1. l \in Looks
      BY <1>1 DEF Looks, Masks
    <3> HIDE DEF l
    <3>2. Item(l, {p.at}) \in Items /\ Item(l, {p.at}).at = {p.at}
      BY <1>1, <3>1 DEF Item, Items
    <3> QED BY <3>2 DEF Fresh, l
  <2> HIDE DEF r, x
  <2>3. Append(done, x) \in Seq(Items) /\ Len(Append(done, x)) = Len(done) + 1
    BY <2>2, AppendProperties
  <2>4. (\A i \in 1 .. Len(done) : Append(done, x)[i] = done[i]) /\ Append(done, x)[Len(done) + 1] = x
    BY <2>2, AppendProperties
  <2> QED BY <2>1, <2>2, <2>3, <2>4 DEF Adds, x
<1> HIDE DEF r
<1> QED BY <1>4, <1>5 DEF r

LEMMA RedactsIs ==
  /\ Redacts \in [Seq(Items) \X Places -> Seq(Items)]
  /\ \A d \in Seq(Items), p \in Places : Redacts[<<d, p>>] = RedactStep(d, p)
<1>1. ASSUME NEW x \in Seq(Items) \X Places PROVE RedactStep(x[1], x[2]) \in Seq(Items)
  BY RedactStepIs
<1>2. ASSUME NEW d \in Seq(Items), NEW p \in Places PROVE Redacts[<<d, p>>] = RedactStep(d, p)
  BY DEF Redacts
<1> QED BY <1>1, <1>2 DEF Redacts

(* Redaction is the ladder's fold.                                         *)
LEMMA RedactIsFolded ==
  ASSUME NEW s \in Seq(Places)
  PROVE  Redact(s) = Folded(Redacts, <<>>, s)
<1> DEFINE n == Len(s)
           base == <<>>
           IsFold(f) == f = [t \in SUBSET (DOMAIN s) |-> IF t = {} THEN base ELSE LET x == Max(t) IN RedactStep(f[t \ {x}], s[x])]
           ladder == CHOOSE f : IsFold(f)
<1>1. n \in Nat /\ DOMAIN s = 1 .. n /\ \A j \in 1 .. n : s[j] \in Places
  OBVIOUS
<1>0. base \in Seq(Items)
  BY EmptySeq
<1>5. Redact(s) = ladder[DOMAIN s]
  BY DEF Redact, FoldLeft, MapThenFoldSet
<1> HIDE DEF base
<1>2. PICK it \in [SUBSET (1 .. n) -> Seq(Items)] : FoldsBy(it, n, base, s, Redacts)
  BY <1>0, RedactsIs, FoldExists
<1>3. IsFold(it)
  <2>1. ASSUME NEW t \in SUBSET (1 .. n), t # {} PROVE it[t] = RedactStep(it[t \ {Max(t)}], s[Max(t)])
    <3>1. Max(t) \in t /\ t \ {Max(t)} \in SUBSET (1 .. n)
      BY <1>1, <2>1, MaxIs
    <3>2. it[t] = Redacts[<<it[t \ {Max(t)}], s[Max(t)]>>]
      BY <1>2, <2>1 DEF FoldsBy
    <3> QED BY <1>1, <1>2, <3>1, <3>2, RedactsIs
  <2>2. it[{}] = base
    BY <1>2 DEF FoldsBy
  <2>3. \A t \in SUBSET (1 .. n) : it[t] = IF t = {} THEN base ELSE LET x == Max(t) IN RedactStep(it[t \ {x}], s[x])
    BY <2>1, <2>2
  <2> QED BY <1>1, <1>2, <2>3
<1>4. IsFold(ladder)
  <2> HIDE DEF IsFold
  <2> QED BY <1>3
<1> HIDE DEF ladder
<1> PICK f : f = ladder
  OBVIOUS
<1>6. f[{}] = base
  <2>1. {} \in SUBSET (DOMAIN s)
    OBVIOUS
  <2> QED BY <1>4, <2>1
<1>7. ASSUME NEW k \in 1 .. n, f[1 .. (k - 1)] \in Seq(Items) PROVE f[1 .. k] = Redacts[<<f[1 .. (k - 1)], s[k]>>]
  <2>1. 1 .. k \in SUBSET (1 .. n) /\ 1 .. k # {} /\ Max(1 .. k) = k /\ (1 .. k) \ {k} = 1 .. (k - 1)
    BY <1>1, TopOf
  <2>2. f[1 .. k] = RedactStep(f[(1 .. k) \ {Max(1 .. k)}], s[Max(1 .. k)])
    BY <1>1, <1>4, <2>1
  <2>3. f[1 .. k] = RedactStep(f[1 .. (k - 1)], s[k])
    BY <2>1, <2>2
  <2>4. s[k] \in Places
    BY <1>1
  <2> HIDE DEF IsFold, n
  <2> QED BY <1>7, <2>3, <2>4, RedactsIs
<1>8. f[1 .. Len(s)] = Folded(Redacts, base, s)
  <2>1. Redacts \in [Seq(Items) \X Places -> Seq(Items)]
    BY RedactsIs
  <2>2. Ladder(f, Seq(Items), Places, base, s, Redacts)
    BY <1>0, <1>6, <1>7, <2>1 DEF Ladder
  <2> HIDE DEF IsFold, n
  <2> QED BY <2>2, LadderIs
<1> QED BY <1>1, <1>5, <1>8 DEF base

(* What was printed between two positions.                                 *)
PlaceOf(pr, k) == [at |-> k, kind |-> pr[k]]
Win(pr, a, b) == [i \in 1 .. (b - a) |-> PlaceOf(pr, a + i)]
Within(pr, a, b) == pr \in Seq(Pieces) /\ a \in Nat /\ b \in Nat /\ a <= b /\ b <= Len(pr)

(* A window has the places behind its start.                               *)
LEMMA WinIs ==
  ASSUME NEW pr, NEW a, NEW b, Within(pr, a, b)
  PROVE  /\ Win(pr, a, b) \in Seq(Places) /\ Len(Win(pr, a, b)) = b - a
         /\ \A i \in 1 .. (b - a) : Win(pr, a, b)[i] = PlaceOf(pr, a + i) /\ PlaceOf(pr, a + i) \in Places
<1>1. pr \in Seq(Pieces) /\ a \in Nat /\ b \in Nat /\ a <= b /\ b <= Len(pr) /\ Len(pr) \in Nat
  BY DEF Within
<1>2. ASSUME NEW i \in 1 .. (b - a) PROVE PlaceOf(pr, a + i) \in Places
  <2>1. a + i \in 1 .. Len(pr) /\ a + i \in Nat
    BY <1>1
  <2>2. pr[a + i] \in Pieces
    BY <1>1, <2>1
  <2> QED BY <2>1, <2>2 DEF PlaceOf, Places
<1>3. b - a \in Nat
  BY <1>1
<1>4. Win(pr, a, b) \in [1 .. (b - a) -> Places]
  BY <1>2 DEF Win
<1>5. Win(pr, a, b) \in Seq(Places) /\ Len(Win(pr, a, b)) = b - a
  <2> PICK w, n : w = Win(pr, a, b) /\ n = b - a
    OBVIOUS
  <2>1. w \in [1 .. n -> Places] /\ n \in Nat
    BY <1>3, <1>4
  <2>2. w \in Seq(Places) /\ Len(w) = n
    BY <2>1
  <2> QED BY <2>2
<1> QED BY <1>2, <1>5 DEF Win

(* Windows that meet are joined, and cut.                                  *)
LEMMA WinJoins ==
  ASSUME NEW pr, NEW a, NEW b, NEW c, Within(pr, a, b), Within(pr, b, c)
  PROVE  Win(pr, a, b) \o Win(pr, b, c) = Win(pr, a, c) /\ Within(pr, a, c)
<1> DEFINE x == Win(pr, a, b)
           y == Win(pr, b, c)
           z == Win(pr, a, c)
<1>1. Within(pr, a, c) /\ a \in Nat /\ b \in Nat /\ c \in Nat /\ a <= b /\ b <= c
  BY DEF Within
<1>2. x \in Seq(Places) /\ Len(x) = b - a /\ \A i \in 1 .. (b - a) : x[i] = PlaceOf(pr, a + i)
  BY WinIs
<1>3. y \in Seq(Places) /\ Len(y) = c - b /\ \A i \in 1 .. (c - b) : y[i] = PlaceOf(pr, b + i)
  BY WinIs
<1>4. z \in Seq(Places) /\ Len(z) = c - a /\ \A i \in 1 .. (c - a) : z[i] = PlaceOf(pr, a + i)
  BY <1>1, WinIs
<1> HIDE DEF x, y, z
<1>5. x \o y \in Seq(Places) /\ Len(x \o y) = Len(x) + Len(y)
      /\ \A i \in 1 .. Len(x) + Len(y) : (x \o y)[i] = IF i <= Len(x) THEN x[i] ELSE y[i - Len(x)]
  BY <1>2, <1>3, ConcatProperties
<1>6. Len(x \o y) = Len(z)
  BY <1>1, <1>2, <1>3, <1>4, <1>5
<1>7. ASSUME NEW i \in 1 .. Len(z) PROVE (x \o y)[i] = z[i]
  <2>1. i \in 1 .. Len(x) + Len(y) /\ i \in 1 .. (c - a)
    BY <1>1, <1>2, <1>3, <1>4
  <2>2. CASE i <= b - a
    <3>1. i \in 1 .. (b - a) /\ i <= Len(x)
      BY <1>1, <1>2, <2>1, <2>2
    <3> QED BY <1>2, <1>4, <1>5, <2>1, <3>1
  <2>3. CASE ~(i <= b - a)
    <3>1. i - (b - a) \in 1 .. (c - b) /\ b + (i - (b - a)) = a + i /\ ~(i <= Len(x)) /\ i - Len(x) = i - (b - a)
      BY <1>1, <1>2, <2>1, <2>3
    <3>2. (x \o y)[i] = y[i - (b - a)]
      BY <1>5, <2>1, <3>1
    <3> QED BY <1>3, <1>4, <2>1, <3>1, <3>2
  <2> QED BY <2>2, <2>3
<1>8. x \o y = z
  BY <1>4, <1>5, <1>6, <1>7, SeqEqual
<1> QED BY <1>1, <1>8 DEF x, y, z

(* The capped tail of a window is a window.                                *)
LEMMA TailIsWin ==
  ASSUME NEW pr, NEW a, NEW b, Within(pr, a, b)
  PROVE  \E d \in a .. b : /\ TailCapped(Win(pr, a, b)) = Win(pr, d, b) /\ Within(pr, d, b) /\ b - d <= MaxCapture
                           /\ b - a <= MaxCapture => d = a
<1> DEFINE w == Win(pr, a, b)
           m == IF b - a > MaxCapture THEN MaxCapture ELSE b - a
           d == b - m
<1>1. a \in Nat /\ b \in Nat /\ a <= b /\ MaxCapture \in Nat /\ pr \in Seq(Pieces) /\ b <= Len(pr)
  BY AgentReadAssumption DEF Within
<1>2. w \in Seq(Places) /\ Len(w) = b - a /\ \A i \in 1 .. (b - a) : w[i] = PlaceOf(pr, a + i)
  BY WinIs
<1>3. d \in a .. b /\ b - d = m /\ m \in Nat /\ b - d <= MaxCapture /\ (b - a <= MaxCapture => d = a) /\ m <= b - a
  BY <1>1
<1>4. Within(pr, d, b)
  <2> HIDE DEF d
  <2> QED BY <1>1, <1>3 DEF Within
<1>5. TailCapped(w) = SubSeq(w, (b - a) - m + 1, b - a)
  <2> HIDE DEF w
  <2> QED BY <1>2 DEF TailCapped
<1> HIDE DEF m
<1> DEFINE k == (b - a) - m + 1
           s == SubSeq(w, k, b - a)
           v == Win(pr, d, b)
<1>6. k \in 1 .. (b - a + 1) /\ (b - a) - k + 1 = m /\ ((b - a) < k => m = 0)
  BY <1>1, <1>3
<1>7. s \in Seq(Places) /\ Len(s) = (IF (b - a) < k THEN 0 ELSE (b - a) - k + 1) /\ \A i \in 1 .. ((b - a) - k + 1) : s[i] = w[k + i - 1]
  <2>1. \A i \in k .. (b - a) : w[i] \in Places
    <3>1. \A i \in k .. (b - a) : i \in 1 .. Len(w)
      <4> HIDE DEF w, k
      <4> QED BY <1>1, <1>2, <1>6
    <3> HIDE DEF w, k
    <3> QED BY <1>2, <3>1
  <2>2. k \in Int /\ b - a \in Int
    BY <1>1, <1>3
  <2> HIDE DEF w, k
  <2> QED BY <2>1, <2>2, SubSeqProperties
<1>8. v \in Seq(Places) /\ Len(v) = b - d /\ \A i \in 1 .. (b - d) : v[i] = PlaceOf(pr, d + i)
  <2> HIDE DEF d
  <2> QED BY <1>4, WinIs
<1>10. d = a + k - 1
  BY <1>1, <1>3
<1> HIDE DEF s, v, w, k, d
<1>9. Len(s) = m /\ Len(v) = m
  BY <1>3, <1>6, <1>7, <1>8
<1>11. ASSUME NEW i \in 1 .. Len(s) PROVE s[i] = v[i]
  <2>1. i \in 1 .. m /\ i \in 1 .. ((b - a) - k + 1) /\ i \in 1 .. (b - d) /\ k + i - 1 \in 1 .. (b - a) /\ a + (k + i - 1) = d + i
    BY <1>1, <1>3, <1>6, <1>9, <1>10
  <2>2. s[i] = w[k + i - 1] /\ w[k + i - 1] = PlaceOf(pr, a + (k + i - 1))
    BY <1>2, <1>7, <2>1
  <2> QED BY <1>8, <2>1, <2>2
<1>12. s = v
  BY <1>7, <1>8, <1>9, <1>11, SeqEqual
<1> QED BY <1>3, <1>4, <1>5, <1>12 DEF s, v, w, k

(* The redaction of a window, place by place.                              *)
Redactions(pr, a, b, g) ==
  /\ g \in [0 .. (b - a) -> Seq(Items)] /\ g[0] = <<>>
  /\ \A k \in 1 .. (b - a) : g[k] = RedactStep(g[k - 1], PlaceOf(pr, a + k))

(* The values redaction goes through in a window.                          *)
LEMMA RedactionsExist ==
  ASSUME NEW pr, NEW a, NEW b, Within(pr, a, b)
  PROVE  \E g : Redactions(pr, a, b, g) /\ \A c \in a .. b : Redact(Win(pr, a, c)) = g[c - a]
<1> DEFINE w == Win(pr, a, b)
<1>1. a \in Nat /\ b \in Nat /\ a <= b /\ b - a \in Nat
  BY DEF Within
<1>2. w \in Seq(Places) /\ Len(w) = b - a /\ \A i \in 1 .. (b - a) : w[i] = PlaceOf(pr, a + i) /\ w[i] \in Places
  BY WinIs
<1>3. <<>> \in Seq(Items)
  BY EmptySeq
<1> DEFINE base == <<>>
<1> HIDE DEF w, base
<1>4. base \in Seq(Items)
  BY <1>3 DEF base
<1>5. PICK g \in [0 .. Len(w) -> Seq(Items)] : Steps(g, base, w, Redacts)
  BY <1>2, <1>4, RedactsIs, StepsExist
<1>6. Redactions(pr, a, b, g)
  <2>1. ASSUME NEW k \in 1 .. (b - a) PROVE g[k] = RedactStep(g[k - 1], PlaceOf(pr, a + k))
    <3>1. g[k] = Redacts[<<g[k - 1], w[k]>>]
      BY <1>2, <1>5 DEF Steps
    <3>2. k - 1 \in 0 .. Len(w)
      BY <1>1, <1>2
    <3>3. g[k - 1] \in Seq(Items)
      BY <1>5, <3>2
    <3> QED BY <1>2, <3>1, <3>3, RedactsIs
  <2>2. g[0] = <<>>
    BY <1>5 DEF Steps, base
  <2> QED BY <1>2, <1>5, <2>1, <2>2 DEF Redactions
<1>7. ASSUME NEW c \in a .. b PROVE Redact(Win(pr, a, c)) = g[c - a]
  <2> DEFINE v == Win(pr, a, c)
  <2>1. Within(pr, a, c) /\ c - a \in 0 .. (b - a)
    BY <1>1 DEF Within
  <2>2. v \in Seq(Places) /\ Len(v) = c - a /\ \A i \in 1 .. (c - a) : v[i] = PlaceOf(pr, a + i)
    BY <2>1, WinIs
  <2> HIDE DEF v
  <2>3. ASSUME NEW k \in 1 .. Len(v) PROVE g[k] = Redacts[<<g[k - 1], v[k]>>]
    <3>1. k \in 1 .. (b - a) /\ k \in 1 .. (c - a)
      BY <1>1, <2>1, <2>2
    <3>2. v[k] = w[k]
      BY <1>2, <2>2, <3>1
    <3>3. g[k] = Redacts[<<g[k - 1], w[k]>>]
      BY <1>2, <1>5, <3>1 DEF Steps
    <3> QED BY <3>2, <3>3
  <2>4. Steps(g, base, v, Redacts)
    BY <1>5, <2>3 DEF Steps
  <2>5. Folded(Redacts, base, v) = g[Len(v)]
    BY <2>2, <2>4, FoldedIs
  <2>6. Redact(v) = Folded(Redacts, base, v)
    BY <2>2, RedactIsFolded DEF base
  <2> QED BY <2>2, <2>5, <2>6 DEF v
<1> QED BY <1>6, <1>7

Absorbed(pr, a, g, k) == Absorbs(g[k - 1], PlaceOf(pr, a + k))
(* A redaction of a window, bundled.                                       *)
Redacting(pr, a, b, g) == Within(pr, a, b) /\ Redactions(pr, a, b, g)

(* One of them and the next.                                               *)
LEMMA RedactingStep ==
  ASSUME NEW pr, NEW a, NEW b, NEW g, Redacting(pr, a, b, g), NEW k \in 1 .. (b - a)
  PROVE  /\ g[k] \in Seq(Items) /\ g[k - 1] \in Seq(Items) /\ PlaceOf(pr, a + k) \in Places
         /\ Len(g[k]) \in Nat /\ Len(g[k - 1]) \in Nat
         /\ Absorbed(pr, a, g, k) => Merges(g[k - 1], PlaceOf(pr, a + k), g[k])
         /\ ~Absorbed(pr, a, g, k) => Adds(g[k - 1], PlaceOf(pr, a + k), g[k])
<1>1. a \in Nat /\ b \in Nat /\ a <= b /\ Within(pr, a, b)
  BY DEF Redacting, Within
<1>2. PlaceOf(pr, a + k) \in Places
  BY <1>1, WinIs
<1>3. k \in 0 .. (b - a) /\ k - 1 \in 0 .. (b - a)
  BY <1>1
<1>4. g[k] \in Seq(Items) /\ g[k - 1] \in Seq(Items) /\ g[k] = RedactStep(g[k - 1], PlaceOf(pr, a + k))
  BY <1>3 DEF Redacting, Redactions
<1> PICK d, p, r : d = g[k - 1] /\ p = PlaceOf(pr, a + k) /\ r = g[k]
  OBVIOUS
<1>5. d \in Seq(Items) /\ p \in Places /\ r = RedactStep(d, p)
  BY <1>2, <1>4
<1>6. (Absorbs(d, p) => Merges(d, p, r)) /\ (~Absorbs(d, p) => Adds(d, p, r))
  BY <1>5, RedactStepIs
<1>7. Len(g[k]) \in Nat /\ Len(g[k - 1]) \in Nat
  BY <1>4
<1> QED BY <1>2, <1>4, <1>6, <1>7 DEF Absorbed

(* Items are only added, and keep the places they stand for.               *)
Keeps(x, y) == Len(x) <= Len(y) /\ \A i \in 1 .. Len(x) : x[i].at \subseteq y[i].at

LEMMA KeepsOn ==
  ASSUME NEW x, NEW y, NEW z, Keeps(x, y), Keeps(y, z), Len(x) \in Nat, Len(y) \in Nat, Len(z) \in Nat
  PROVE  Keeps(x, z)
<1>1. \A i \in 1 .. Len(x) : i \in 1 .. Len(y)
  BY DEF Keeps
<1> QED BY <1>1 DEF Keeps

(* A step keeps the items before it and the places they stand for.         *)
LEMMA StepKeeps ==
  ASSUME NEW pr, NEW a, NEW b, NEW g, Redacting(pr, a, b, g), NEW k \in 1 .. (b - a)
  PROVE  Keeps(g[k - 1], g[k])
<1> PICK d, p, r : d = g[k - 1] /\ p = PlaceOf(pr, a + k) /\ r = g[k]
  OBVIOUS
<1>1. Len(d) \in Nat /\ Len(r) \in Nat /\ (Merges(d, p, r) \/ Adds(d, p, r))
  BY RedactingStep
<1>2. CASE Merges(d, p, r)
  <2>1. ASSUME NEW i \in 1 .. Len(d) PROVE d[i].at \subseteq r[i].at
    <3>1. CASE i = Len(d)
      BY <1>2, <3>1 DEF Merges
    <3>2. CASE i # Len(d)
      <4>1. i \in 1 .. (Len(d) - 1)
        BY <1>1, <3>2
      <4> QED BY <1>2, <4>1 DEF Merges
    <3> QED BY <3>1, <3>2
  <2> QED BY <1>1, <1>2, <2>1 DEF Keeps, Merges
<1>3. CASE Adds(d, p, r)
  BY <1>1, <1>3 DEF Keeps, Adds
<1> QED BY <1>1, <1>2, <1>3

(* So do any number of steps.                                              *)
LEMMA RedactingKeeps ==
  ASSUME NEW pr, NEW a, NEW b, NEW g, Redacting(pr, a, b, g), NEW m \in 0 .. (b - a), NEW k \in m .. (b - a)
  PROVE  Keeps(g[m], g[k])
<1> DEFINE P == {d \in Nat : m + d <= k => Keeps(g[m], g[m + d])}
<1>1. a \in Nat /\ b \in Nat /\ a <= b /\ \A j \in 0 .. (b - a) : g[j] \in Seq(Items)
  BY DEF Redacting, Redactions, Within
<1>2. 0 \in P
  <2>1. m + 0 = m /\ g[m] \in Seq(Items) /\ Len(g[m]) \in Nat
    BY <1>1
  <2>2. Keeps(g[m], g[m])
    BY <2>1 DEF Keeps
  <2> QED BY <2>1, <2>2
<1>3. ASSUME NEW d \in Nat, d \in P PROVE d + 1 \in P
  <2> SUFFICES ASSUME m + (d + 1) <= k PROVE Keeps(g[m], g[m + (d + 1)])
    OBVIOUS
  <2> DEFINE h == m + (d + 1)
  <2>1. h \in 1 .. (b - a) /\ h - 1 = m + d /\ m + d <= k /\ m + d \in 0 .. (b - a) /\ h \in 0 .. (b - a)
    BY <1>1
  <2>2. Keeps(g[m], g[m + d])
    BY <1>3, <2>1
  <2> HIDE DEF h
  <2>3. Keeps(g[h - 1], g[h])
    BY <2>1, StepKeeps
  <2>4. g[m] \in Seq(Items) /\ g[m + d] \in Seq(Items) /\ g[h] \in Seq(Items)
    BY <1>1, <2>1
  <2>5. Len(g[m]) \in Nat /\ Len(g[m + d]) \in Nat /\ Len(g[h]) \in Nat
    BY <2>4
  <2>6. Keeps(g[m], g[h])
    BY <2>1, <2>2, <2>3, <2>5, KeepsOn
  <2> QED BY <2>6 DEF h
<1>4. Nat \subseteq P
  <2> HIDE DEF P
  <2> QED BY <1>2, <1>3, NatInd
<1>5. k - m \in Nat /\ m + (k - m) = k /\ k <= k
  BY <1>1
<1>6. k - m \in P
  BY <1>4, <1>5
<1> QED BY <1>5, <1>6

(* A place that is not absorbed has an item of its own; every place is in  *)
(* some item.                                                              *)
LEMMA PlaceHasItem ==
  ASSUME NEW pr, NEW a, NEW b, NEW g, Redacting(pr, a, b, g), NEW k \in 1 .. (b - a), NEW m \in k .. (b - a)
  PROVE  /\ \E i \in 1 .. Len(g[m]) : a + k \in g[m][i].at
         /\ ~Absorbed(pr, a, g, k) => Len(g[k - 1]) + 1 \in 1 .. Len(g[m]) /\ a + k \in g[m][Len(g[k - 1]) + 1].at
<1>1. a \in Nat /\ b \in Nat /\ a <= b /\ k \in 0 .. (b - a) /\ m \in 0 .. (b - a)
  BY DEF Redacting, Within
<1> PICK d, p, r, z : d = g[k - 1] /\ p = PlaceOf(pr, a + k) /\ r = g[k] /\ z = g[m]
  OBVIOUS
<1>2. p.at = a + k
  BY DEF PlaceOf
<1>3. Len(d) \in Nat /\ Len(r) \in Nat /\ (Absorbed(pr, a, g, k) => Merges(d, p, r)) /\ (~Absorbed(pr, a, g, k) => Adds(d, p, r))
  BY RedactingStep
<1>4. Keeps(r, z)
  BY <1>1, RedactingKeeps
<1>5. Len(z) \in Nat
  <2>1. z \in Seq(Items)
    BY <1>1 DEF Redacting, Redactions
  <2> QED BY <2>1
<1>6. ASSUME ~Absorbed(pr, a, g, k) PROVE Len(d) + 1 \in 1 .. Len(z) /\ a + k \in z[Len(d) + 1].at
  <2>1. Len(r) = Len(d) + 1 /\ a + k \in r[Len(d) + 1].at
    BY <1>2, <1>3, <1>6 DEF Adds
  <2>2. Len(d) + 1 \in 1 .. Len(r)
    BY <1>3, <2>1
  <2>3. Len(d) + 1 \in 1 .. Len(z)
    BY <1>3, <1>4, <1>5, <2>2 DEF Keeps
  <2> QED BY <1>4, <2>1, <2>2, <2>3 DEF Keeps
<1>7. ASSUME Absorbed(pr, a, g, k) PROVE \E i \in 1 .. Len(z) : a + k \in z[i].at
  <2>1. Len(r) = Len(d) /\ Len(d) >= 1 /\ a + k \in r[Len(d)].at
    BY <1>2, <1>3, <1>7 DEF Merges
  <2>2. Len(d) \in 1 .. Len(r)
    BY <1>3, <2>1
  <2>3. Len(d) \in 1 .. Len(z)
    BY <1>3, <1>4, <1>5, <2>2 DEF Keeps
  <2>4. a + k \in z[Len(d)].at
    BY <1>4, <2>1, <2>2 DEF Keeps
  <2> QED BY <2>3, <2>4
<1> QED BY <1>6, <1>7

(* An item that is no mask stands for one place, which was not absorbed.   *)
PlainOf(pr, a, g, m, i, k) == g[m][i].at = {a + k} /\ i = Len(g[k - 1]) + 1 /\ ~Absorbed(pr, a, g, k)

(* Where an item that is no mask comes from.                               *)
LEMMA PlainIs ==
  ASSUME NEW pr, NEW a, NEW b, NEW g, Redacting(pr, a, b, g), NEW m \in 0 .. (b - a)
  PROVE  \A i \in 1 .. Len(g[m]) : g[m][i].looks \notin Masks => \E k \in 1 .. m : PlainOf(pr, a, g, m, i, k)
<1> DEFINE Ok(n) == \A i \in 1 .. Len(g[n]) : g[n][i].looks \notin Masks => \E k \in 1 .. n : PlainOf(pr, a, g, n, i, k)
           P == {n \in Nat : n <= b - a => Ok(n)}
<1>1. a \in Nat /\ b \in Nat /\ a <= b /\ b - a \in Nat
  BY DEF Redacting, Within
<1>2. 0 \in P
  <2>1. g[0] = <<>> /\ Len(<<>>) = 0
    BY EmptySeq DEF Redacting, Redactions
  <2> QED BY <2>1
<1>3. ASSUME NEW n \in Nat, n \in P PROVE n + 1 \in P
  <2> HIDE DEF Ok
  <2> SUFFICES ASSUME n + 1 <= b - a PROVE Ok(n + 1)
    OBVIOUS
  <2>1. Ok(n) /\ n + 1 \in 1 .. (b - a) /\ (n + 1) - 1 = n
    BY <1>1, <1>3
  <2> PICK q, p, d, r : q = n + 1 /\ p = PlaceOf(pr, a + q) /\ d = g[n] /\ r = g[n + 1]
    OBVIOUS
  <2>2. Len(d) \in Nat /\ Len(r) \in Nat /\ (Absorbed(pr, a, g, q) => Merges(d, p, r)) /\ (~Absorbed(pr, a, g, q) => Adds(d, p, r))
    BY <2>1, RedactingStep
  <2>3. ASSUME NEW i \in 1 .. Len(d), r[i] = d[i], d[i].looks \notin Masks
        PROVE  \E k \in 1 .. (n + 1) : PlainOf(pr, a, g, n + 1, i, k)
    <3>1. PICK k \in 1 .. n : PlainOf(pr, a, g, n, i, k)
      BY <2>1, <2>3 DEF Ok
    <3>2. PlainOf(pr, a, g, n + 1, i, k)
      BY <2>3, <3>1 DEF PlainOf
    <3>3. k \in 1 .. (n + 1)
      OBVIOUS
    <3> QED BY <3>2, <3>3
  <2>4. ASSUME NEW i \in 1 .. Len(r), r[i].looks \notin Masks
        PROVE  \E k \in 1 .. (n + 1) : PlainOf(pr, a, g, n + 1, i, k)
    <3>1. CASE Absorbed(pr, a, g, q)
      <4>1. Merges(d, p, r)
        BY <2>2, <3>1
      <4>2. r[Len(d)].looks \in Masks
        BY <4>1 DEF Merges, Masked, Masks
      <4>3. i # Len(d) /\ Len(r) = Len(d)
        BY <2>4, <4>1, <4>2 DEF Merges
      <4>4. i \in 1 .. (Len(d) - 1) /\ i \in 1 .. Len(d)
        BY <2>2, <4>3
      <4>5. r[i] = d[i]
        BY <4>1, <4>4 DEF Merges
      <4> QED BY <2>3, <2>4, <4>4, <4>5
    <3>2. CASE ~Absorbed(pr, a, g, q)
      <4>1. Adds(d, p, r)
        BY <2>2, <3>2
      <4>2. CASE i <= Len(d)
        <5>1. i \in 1 .. Len(d)
          BY <2>2, <4>2
        <5>2. r[i] = d[i]
          BY <4>1, <5>1 DEF Adds
        <5> QED BY <2>3, <2>4, <5>1, <5>2
      <4>3. CASE ~(i <= Len(d))
        <5>1. i = Len(d) + 1
          <6>1. Len(r) = Len(d) + 1
            BY <4>1 DEF Adds
          <6> QED BY <2>2, <4>3, <6>1
        <5>2. r[i].at = {p.at} /\ p.at = a + q
          BY <4>1, <5>1 DEF Adds, PlaceOf
        <5>3. PlainOf(pr, a, g, n + 1, i, n + 1)
          BY <2>1, <3>2, <5>1, <5>2 DEF PlainOf
        <5>4. n + 1 \in 1 .. (n + 1)
          OBVIOUS
        <5> QED BY <5>3, <5>4
      <4> QED BY <4>2, <4>3
    <3> QED BY <3>1, <3>2
  <2> QED BY <2>4 DEF Ok
<1>4. Nat \subseteq P
  <2> HIDE DEF P
  <2> QED BY <1>2, <1>3, NatInd
<1>5. Ok(m)
  <2>1. m \in Nat /\ m <= b - a
    BY <1>1
  <2> HIDE DEF Ok
  <2> QED BY <1>4, <2>1
<1> QED BY <1>5

(* The last item of a window and of all that was printed.                  *)
Synced(x, y) ==
  /\ LastLooks(x) = "open key" => LastLooks(y) = "open key"
  /\ LastLooks(x) = "label" => LastLooks(y) \in {"label", "open key"}

(* What the last item looks like after one more place.                     *)
LEMMA LastAfter ==
  ASSUME NEW d \in Seq(Items), NEW p \in Places, NEW r \in Seq(Items),
         (Absorbs(d, p) => Merges(d, p, r)) /\ (~Absorbs(d, p) => Adds(d, p, r))
  PROVE  LastLooks(r) = IF Absorbs(d, p) THEN Masked(d, p) ELSE IF p.kind = "begin" THEN "open key" ELSE p.kind
<1>1. Len(d) \in Nat /\ Len(r) \in Nat
  OBVIOUS
<1>2. Len(r) >= 1
  <2>1. CASE Absorbs(d, p)
    BY <1>1, <2>1 DEF Merges
  <2>2. CASE ~Absorbs(d, p)
    BY <1>1, <2>2 DEF Adds
  <2> QED BY <2>1, <2>2
<1>3. r # <<>>
  <2>1. Len(<<>>) = 0
    BY EmptySeq
  <2> QED BY <1>1, <1>2, <2>1
<1>4. LastLooks(r) = r[Len(r)].looks
  BY <1>3 DEF LastLooks, Last
<1>5. CASE Absorbs(d, p)
  BY <1>4, <1>5 DEF Merges
<1>6. CASE ~Absorbs(d, p)
  BY <1>4, <1>6 DEF Adds, Fresh, Item
<1> QED BY <1>5, <1>6

(* Two redactions that are in step before a place are in step behind it,   *)
(* and the longer one absorbs what the shorter does.                       *)
LEMMA SyncStep ==
  ASSUME NEW x, NEW y, NEW p \in Places, Synced(x, y), NEW u, NEW v,
         LastLooks(u) = IF Absorbs(x, p) THEN Masked(x, p) ELSE IF p.kind = "begin" THEN "open key" ELSE p.kind,
         LastLooks(v) = IF Absorbs(y, p) THEN Masked(y, p) ELSE IF p.kind = "begin" THEN "open key" ELSE p.kind
  PROVE  Synced(u, v) /\ (Absorbs(x, p) => Absorbs(y, p))
<1>1. p.kind \in {"text", "begin", "end", "label"}
  BY DEF Places, Pieces
<1> PICK l, m, k, a, b : l = LastLooks(x) /\ m = LastLooks(y) /\ k = p.kind /\ a = LastLooks(u) /\ b = LastLooks(v)
  OBVIOUS
<1>2. (Absorbs(x, p) <=> l = "open key" \/ (l = "label" /\ k = "text")) /\ (Absorbs(y, p) <=> m = "open key" \/ (m = "label" /\ k = "text"))
  BY DEF Absorbs
<1>3. /\ Masked(x, p) = IF l = "open key" THEN (IF k = "end" THEN "key" ELSE "open key") ELSE "secret"
      /\ Masked(y, p) = IF m = "open key" THEN (IF k = "end" THEN "key" ELSE "open key") ELSE "secret"
  BY DEF Masked
<1>4. (l = "open key" => m = "open key") /\ (l = "label" => m \in {"label", "open key"})
  BY DEF Synced
<1>5. Absorbs(x, p) => Absorbs(y, p)
  BY <1>2, <1>4
<1>6. a = "open key" => b = "open key"
  BY <1>1, <1>2, <1>3, <1>4
<1>7. a = "label" => b \in {"label", "open key"}
  BY <1>1, <1>2, <1>3, <1>4
<1> QED BY <1>5, <1>6, <1>7 DEF Synced

(* What a window absorbs, the redaction of the whole absorbs.              *)
LEMMA InSync ==
  ASSUME NEW pr, NEW a, NEW b, NEW g, NEW h, Redacting(pr, a, b, g), Redacting(pr, 0, b, h), NEW k \in 1 .. (b - a)
  PROVE  Absorbed(pr, a, g, k) => Absorbed(pr, 0, h, a + k)
<1> DEFINE P == {n \in Nat : n <= b - a => Synced(g[n], h[a + n])}
<1>1. a \in Nat /\ b \in Nat /\ a <= b /\ b - a \in Nat
  BY DEF Redacting, Within
<1>2. 0 \in P
  <2>1. LastLooks(g[0]) = "nothing"
    BY DEF LastLooks, Redacting, Redactions
  <2> QED BY <2>1 DEF Synced
<1>3. ASSUME NEW n \in 1 .. (b - a), Synced(g[n - 1], h[a + n - 1])
      PROVE  Synced(g[n], h[a + n]) /\ (Absorbed(pr, a, g, n) => Absorbed(pr, 0, h, a + n))
  <2>1. a + n \in 1 .. (b - 0) /\ 0 + (a + n) = a + n /\ (a + n) - 1 = a + n - 1
    BY <1>1
  <2> PICK x, y, u, v, p : x = g[n - 1] /\ y = h[a + n - 1] /\ u = g[n] /\ v = h[a + n] /\ p = PlaceOf(pr, a + n)
    OBVIOUS
  <2>2. x \in Seq(Items) /\ u \in Seq(Items) /\ p \in Places
        /\ (Absorbs(x, p) => Merges(x, p, u)) /\ (~Absorbs(x, p) => Adds(x, p, u))
    BY RedactingStep DEF Absorbed
  <2>3. y \in Seq(Items) /\ v \in Seq(Items) /\ (Absorbs(y, p) => Merges(y, p, v)) /\ (~Absorbs(y, p) => Adds(y, p, v))
    <3> PICK c : c = a + n
      OBVIOUS
    <3>1. c \in 1 .. (b - 0) /\ 0 + c = c
      BY <2>1
    <3>2. h[c] \in Seq(Items) /\ h[c - 1] \in Seq(Items)
          /\ (Absorbed(pr, 0, h, c) => Merges(h[c - 1], PlaceOf(pr, 0 + c), h[c]))
          /\ (~Absorbed(pr, 0, h, c) => Adds(h[c - 1], PlaceOf(pr, 0 + c), h[c]))
      BY <3>1, RedactingStep
    <3> QED BY <2>1, <3>1, <3>2 DEF Absorbed
  <2>4. LastLooks(u) = IF Absorbs(x, p) THEN Masked(x, p) ELSE IF p.kind = "begin" THEN "open key" ELSE p.kind
    BY <2>2, LastAfter
  <2>5. LastLooks(v) = IF Absorbs(y, p) THEN Masked(y, p) ELSE IF p.kind = "begin" THEN "open key" ELSE p.kind
    BY <2>2, <2>3, LastAfter
  <2>6. Synced(u, v) /\ (Absorbs(x, p) => Absorbs(y, p))
    BY <1>3, <2>2, <2>4, <2>5, SyncStep
  <2> QED BY <2>1, <2>6 DEF Absorbed
<1>4. ASSUME NEW n \in Nat, n \in P PROVE n + 1 \in P
  <2> SUFFICES ASSUME n + 1 <= b - a PROVE Synced(g[n + 1], h[a + (n + 1)])
    OBVIOUS
  <2> PICK q : q = n + 1
    OBVIOUS
  <2>1. q \in 1 .. (b - a) /\ q - 1 = n /\ a + q - 1 = a + n /\ n <= b - a
    BY <1>1
  <2>2. Synced(g[q - 1], h[a + q - 1])
    BY <1>4, <2>1
  <2>3. Synced(g[q], h[a + q])
    BY <1>3, <2>1, <2>2
  <2> QED BY <2>3
<1>5. Nat \subseteq P
  <2> HIDE DEF P
  <2> QED BY <1>2, <1>4, NatInd
<1>6. k - 1 \in Nat /\ k - 1 <= b - a /\ a + (k - 1) = a + k - 1
  BY <1>1
<1>7. Synced(g[k - 1], h[a + (k - 1)])
  BY <1>5, <1>6
<1> QED BY <1>3, <1>6, <1>7

Orderly(data) ==
  \A i, j \in PlainItems(data) : i < j => \A p \in data[i].at, q \in data[j].at : p < q
CoversNew(pr, u, b, data) ==
  \A i \in PlainItems(Redact(Win(pr, 0, b))) :
    Redact(Win(pr, 0, b))[i].at \subseteq (u + 1) .. b => Redact(Win(pr, 0, b))[i].at \subseteq Covered(data)
OnlyNew(u, b, data) == \A i \in PlainItems(data) : data[i].at \subseteq (u + 1) .. b

(* ReadsInFull in terms of windows.                                        *)
LEMMA ReadsInFullIs ==
  ASSUME told.upTo \in Nat
  PROVE  ReadsInFull <=> /\ ~told.truncated => CoversNew(printed, told.before, told.upTo, told.data)
                         /\ Orderly(told.data)
                         /\ ~told.again => OnlyNew(told.before, told.upTo, told.data)
<1> DEFINE w == [i \in 1 .. told.upTo |-> [at |-> i, kind |-> printed[i]]]
<1>1. w = Win(printed, 0, told.upTo)
  <2>1. told.upTo - 0 = told.upTo /\ \A i \in 1 .. told.upTo : 0 + i = i
    OBVIOUS
  <2> QED BY <2>1 DEF Win, PlaceOf
<1> HIDE DEF w
<1>2. ReadsInFull <=>
        LET new == (told.before + 1) .. told.upTo
            whole == Redact(w) IN
        /\ ~told.truncated =>
             \A i \in PlainItems(whole) : whole[i].at \subseteq new => whole[i].at \subseteq Covered(told.data)
        /\ \A i, j \in PlainItems(told.data) : i < j => \A p \in told.data[i].at, q \in told.data[j].at : p < q
        /\ ~told.again => \A i \in PlainItems(told.data) : told.data[i].at \subseteq new
  BY DEF ReadsInFull, w
<1> QED BY <1>1, <1>2, Zenon DEF CoversNew, Orderly, OnlyNew

(* The places of a redacted window.                                        *)
LEMMA WholeReads ==
  ASSUME NEW pr, NEW a, NEW b, Within(pr, a, b)
  PROVE  /\ Redact(Win(pr, a, b)) \in Seq(Items) /\ Orderly(Redact(Win(pr, a, b)))
         /\ (a + 1) .. b \subseteq Covered(Redact(Win(pr, a, b)))
         /\ \A i \in PlainItems(Redact(Win(pr, a, b))) : \E k \in (a + 1) .. b : Redact(Win(pr, a, b))[i].at = {k}
<1> DEFINE n == b - a
           z == Redact(Win(pr, a, b))
<1>1. a \in Nat /\ b \in Nat /\ a <= b /\ n \in Nat /\ b \in a .. b /\ n \in 0 .. n
  BY DEF Within
<1>2. PICK g : Redactions(pr, a, b, g) /\ \A c \in a .. b : Redact(Win(pr, a, c)) = g[c - a]
  BY RedactionsExist
<1>3. Redacting(pr, a, b, g) /\ z = g[n] /\ \A k \in 0 .. n : g[k] \in Seq(Items)
  BY <1>1, <1>2 DEF Redacting, Redactions
<1> HIDE DEF n, z
<1>4. z \in Seq(Items) /\ Len(z) \in Nat /\ DOMAIN z = 1 .. Len(z)
  <2>1. z \in Seq(Items)
    BY <1>1, <1>3
  <2> QED BY <2>1
<1>5. ASSUME NEW i \in PlainItems(z) PROVE \E k \in 1 .. n : PlainOf(pr, a, g, n, i, k)
  <2>1. i \in 1 .. Len(g[n]) /\ g[n][i].looks \notin Masks
    BY <1>3, <1>4 DEF PlainItems
  <2> QED BY <1>1, <1>3, <2>1, PlainIs DEF n
<1>6. Orderly(z)
  <2>1. ASSUME NEW i \in PlainItems(z), NEW j \in PlainItems(z), i < j, NEW p \in z[i].at, NEW q \in z[j].at PROVE p < q
    <3>1. PICK k \in 1 .. n : PlainOf(pr, a, g, n, i, k)
      BY <1>5
    <3>2. PICK m \in 1 .. n : PlainOf(pr, a, g, n, j, m)
      BY <1>5
    <3>3. p = a + k /\ q = a + m /\ i = Len(g[k - 1]) + 1 /\ j = Len(g[m - 1]) + 1
      BY <1>3, <2>1, <3>1, <3>2 DEF PlainOf
    <3>4. ASSUME m <= k PROVE FALSE
      <4>1. m - 1 \in 0 .. n /\ k - 1 \in (m - 1) .. n /\ k - 1 \in 0 .. n
        BY <1>1, <3>4
      <4>2. Keeps(g[m - 1], g[k - 1])
        BY <1>3, <4>1, RedactingKeeps DEF n
      <4>3. Len(g[m - 1]) <= Len(g[k - 1])
        BY <4>2 DEF Keeps
      <4>4. g[m - 1] \in Seq(Items) /\ g[k - 1] \in Seq(Items)
        BY <1>3, <4>1
      <4>5. Len(g[m - 1]) \in Nat /\ Len(g[k - 1]) \in Nat
        BY <4>4
      <4> QED BY <2>1, <3>3, <4>3, <4>5
    <3> QED BY <1>1, <3>3, <3>4
  <2> QED BY <2>1 DEF Orderly
<1>7. ASSUME NEW p \in (a + 1) .. b PROVE p \in Covered(z)
  <2>1. p - a \in 1 .. (b - a) /\ a + (p - a) = p /\ b - a \in (p - a) .. (b - a)
    BY <1>1 DEF n
  <2>2. \E i \in 1 .. Len(g[b - a]) : a + (p - a) \in g[b - a][i].at
    BY <1>3, <2>1, PlaceHasItem
  <2>3. \E i \in 1 .. Len(z) : p \in z[i].at
    BY <1>3, <2>1, <2>2 DEF n
  <2> QED BY <1>4, <2>3 DEF Covered
<1>8. ASSUME NEW i \in PlainItems(z) PROVE \E k \in (a + 1) .. b : z[i].at = {k}
  <2>1. PICK k \in 1 .. n : PlainOf(pr, a, g, n, i, k)
    BY <1>5
  <2>2. z[i].at = {a + k} /\ a + k \in (a + 1) .. b
    BY <1>1, <1>3, <2>1 DEF PlainOf, n
  <2> QED BY <2>2
<1> QED BY <1>4, <1>6, <1>7, <1>8 DEF z

(* What an answer that goes on from the previous one holds.                *)
LEMMA RestReads ==
  ASSUME NEW pr, NEW a, NEW u, NEW b, Within(pr, a, u), Within(pr, u, b), NEW data,
         data = SubSeq(Redact(Win(pr, a, b)), Len(Redact(Win(pr, a, u))) + 1, Len(Redact(Win(pr, a, b))))
  PROVE  Orderly(data) /\ OnlyNew(u, b, data) /\ CoversNew(pr, u, b, data)
<1> DEFINE n == b - a
           z == Redact(Win(pr, a, b))
           y == Redact(Win(pr, a, u))
           o == Len(y)
<1>1. a \in Nat /\ u \in Nat /\ b \in Nat /\ a <= u /\ u <= b /\ n \in Nat /\ b \in a .. b /\ u \in a .. b /\ n \in 0 .. n
      /\ u - a \in 0 .. n /\ Within(pr, a, b) /\ Within(pr, 0, b)
  BY DEF Within
<1>2. PICK g : Redactions(pr, a, b, g) /\ \A c \in a .. b : Redact(Win(pr, a, c)) = g[c - a]
  BY <1>1, RedactionsExist
<1>3. Redacting(pr, a, b, g) /\ z = g[n] /\ y = g[u - a] /\ \A k \in 0 .. n : g[k] \in Seq(Items)
  BY <1>1, <1>2 DEF Redacting, Redactions
<1> HIDE DEF n, z, y
<1>4. z \in Seq(Items) /\ Len(z) \in Nat /\ y \in Seq(Items) /\ o \in Nat
  <2>1. z \in Seq(Items) /\ y \in Seq(Items)
    BY <1>1, <1>3
  <2> QED BY <2>1
<1>5. o <= Len(z)
  <2>1. Keeps(g[u - a], g[n])
    <3>1. u - a \in 0 .. (b - a) /\ n \in (u - a) .. (b - a)
      BY <1>1 DEF n
    <3> QED BY <1>3, <3>1, RedactingKeeps
  <2> QED BY <1>3, <2>1 DEF Keeps
<1> HIDE DEF o
<1>6. data = SubSeq(z, o + 1, Len(z))
  BY DEF z, y, o
<1>7. /\ data \in Seq(Items) /\ Len(data) = Len(z) - o /\ DOMAIN data = 1 .. Len(data)
      /\ \A i \in 1 .. Len(data) : data[i] = z[o + i] /\ o + i \in 1 .. Len(z)
  <2>1. \A i \in (o + 1) .. Len(z) : z[i] \in Items
    BY <1>4
  <2>2. o + 1 \in Int /\ Len(z) \in Int
    BY <1>4
  <2>3. data \in Seq(Items) /\ Len(data) = (IF Len(z) < o + 1 THEN 0 ELSE Len(z) - (o + 1) + 1)
        /\ \A i \in 1 .. (Len(z) - (o + 1) + 1) : data[i] = z[(o + 1) + i - 1]
    <3> PICK k, l : k = o + 1 /\ l = Len(z)
      OBVIOUS
    <3>1. k \in Int /\ l \in Int /\ \A i \in k .. l : z[i] \in Items
      BY <2>1, <2>2
    <3>2. SubSeq(z, k, l) \in Seq(Items) /\ Len(SubSeq(z, k, l)) = (IF l < k THEN 0 ELSE l - k + 1)
          /\ \A i \in 1 .. (l - k + 1) : SubSeq(z, k, l)[i] = z[k + i - 1]
      BY <3>1, SubSeqProperties
    <3> QED BY <1>6, <3>2
  <2>4. Len(data) = Len(z) - o
    BY <1>4, <1>5, <2>3
  <2>5. ASSUME NEW i \in 1 .. Len(data) PROVE data[i] = z[o + i] /\ o + i \in 1 .. Len(z)
    <3>1. i \in 1 .. (Len(z) - (o + 1) + 1) /\ (o + 1) + i - 1 = o + i /\ o + i \in 1 .. Len(z)
      BY <1>4, <1>5, <2>4
    <3> QED BY <2>3, <3>1
  <2>6. DOMAIN data = 1 .. Len(data)
    BY <2>3
  <2> QED BY <2>3, <2>4, <2>5, <2>6
<1>8. ASSUME NEW i \in PlainItems(data) PROVE o + i \in PlainItems(z) /\ data[i] = z[o + i] /\ i \in 1 .. Len(data)
  <2>1. i \in 1 .. Len(data) /\ data[i].looks \notin Masks
    BY <1>7 DEF PlainItems
  <2>2. data[i] = z[o + i] /\ o + i \in DOMAIN z
    BY <1>4, <1>7, <2>1
  <2> QED BY <2>1, <2>2 DEF PlainItems
<1>9. Orderly(data)
  <2>1. Orderly(z)
    BY <1>1, WholeReads DEF z
  <2>2. ASSUME NEW i \in PlainItems(data), NEW j \in PlainItems(data), i < j, NEW p \in data[i].at, NEW q \in data[j].at PROVE p < q
    <3>1. o + i < o + j
      <4>1. i \in 1 .. Len(data) /\ j \in 1 .. Len(data)
        BY <1>8
      <4> QED BY <1>4, <2>2, <4>1
    <3>2. o + i \in PlainItems(z) /\ o + j \in PlainItems(z) /\ p \in z[o + i].at /\ q \in z[o + j].at
      BY <1>8
    <3> QED BY <2>1, <3>1, <3>2 DEF Orderly
  <2> QED BY <2>2 DEF Orderly
<1>10. OnlyNew(u, b, data)
  <2>1. ASSUME NEW i \in PlainItems(data) PROVE data[i].at \subseteq (u + 1) .. b
    <3> PICK e : e = o + i
      OBVIOUS
    <3>1. e \in PlainItems(z) /\ data[i] = z[e] /\ i \in 1 .. Len(data) /\ e \in 1 .. Len(z) /\ e > o
      <4>1. o + i \in PlainItems(z) /\ data[i] = z[o + i] /\ i \in 1 .. Len(data)
        BY <1>8
      <4>2. o + i \in 1 .. Len(z) /\ o + i > o
        BY <1>4, <1>7, <4>1
      <4> QED BY <4>1, <4>2
    <3>2. PICK k \in 1 .. n : PlainOf(pr, a, g, n, e, k)
      <4>1. e \in 1 .. Len(g[n]) /\ g[n][e].looks \notin Masks
        BY <1>3, <3>1 DEF PlainItems
      <4> QED BY <1>1, <1>3, <4>1, PlainIs DEF n
    <3>3. data[i].at = {a + k} /\ e = Len(g[k - 1]) + 1 /\ ~Absorbed(pr, a, g, k)
      BY <1>3, <3>1, <3>2 DEF PlainOf
    <3>4. ASSUME k <= u - a PROVE FALSE
      <4>1. k \in 1 .. (b - a) /\ u - a \in k .. (b - a)
        BY <1>1, <3>4 DEF n
      <4>2. Len(g[k - 1]) + 1 \in 1 .. Len(g[u - a])
        BY <1>3, <3>3, <4>1, PlaceHasItem
      <4>3. e \in 1 .. o
        BY <1>3, <3>3, <4>2 DEF o
      <4> QED BY <1>4, <3>1, <4>3
    <3>5. a + k \in (u + 1) .. b
      BY <1>1, <3>4 DEF n
    <3> QED BY <3>3, <3>5
  <2> QED BY <2>1 DEF OnlyNew
<1>11. CoversNew(pr, u, b, data)
  <2>1. PICK h : Redactions(pr, 0, b, h) /\ \A c \in 0 .. b : Redact(Win(pr, 0, c)) = h[c - 0]
    BY <1>1, RedactionsExist
  <2>2. Redacting(pr, 0, b, h) /\ Redact(Win(pr, 0, b)) = h[b] /\ b - 0 = b
    <3>1. b \in 0 .. b /\ b - 0 = b
      BY <1>1
    <3> QED BY <1>1, <2>1, <3>1 DEF Redacting
  <2>3. ASSUME NEW i \in PlainItems(h[b]), h[b][i].at \subseteq (u + 1) .. b PROVE h[b][i].at \subseteq Covered(data)
    <3>1. h[b] \in Seq(Items) /\ b \in 0 .. (b - 0)
      BY <1>1, <2>1, <2>2 DEF Redactions
    <3>2. i \in 1 .. Len(h[b]) /\ h[b][i].looks \notin Masks
      BY <3>1 DEF PlainItems
    <3>3. PICK k \in 1 .. b : PlainOf(pr, 0, h, b, i, k)
      BY <2>2, <3>1, <3>2, PlainIs
    <3>4. h[b][i].at = {k} /\ ~Absorbed(pr, 0, h, k) /\ k \in (u + 1) .. b
      <4>1. 0 + k = k
        OBVIOUS
      <4>2. h[b][i].at = {k} /\ ~Absorbed(pr, 0, h, k)
        BY <3>3, <4>1 DEF PlainOf
      <4> QED BY <2>3, <4>2
    <3> PICK m : m = k - a
      OBVIOUS
    <3>5. m \in 1 .. (b - a) /\ a + m = k /\ b - a \in m .. (b - a) /\ m - 1 \in (u - a) .. (b - a) /\ u - a \in 0 .. (b - a)
      BY <1>1, <3>4
    <3>6. ~Absorbed(pr, a, g, m)
      BY <1>3, <2>2, <3>4, <3>5, InSync
    <3> PICK e : e = Len(g[m - 1]) + 1
      OBVIOUS
    <3>7. e \in 1 .. Len(g[b - a]) /\ a + m \in g[b - a][e].at
      BY <1>3, <3>5, <3>6, PlaceHasItem
    <3>8. e \in 1 .. Len(z) /\ k \in z[e].at
      BY <1>3, <3>5, <3>7 DEF n
    <3>9. e > o
      <4>1. Keeps(g[u - a], g[m - 1])
        BY <1>3, <3>5, RedactingKeeps
      <4>2. o <= Len(g[m - 1])
        BY <1>3, <4>1 DEF Keeps, o
      <4>3. Len(g[m - 1]) \in Nat
        <5>1. m - 1 \in 0 .. n
          BY <1>1, <3>5 DEF n
        <5>2. g[m - 1] \in Seq(Items)
          BY <1>3, <5>1
        <5> QED BY <5>2
      <4> QED BY <1>4, <4>2, <4>3
    <3>10. e - o \in 1 .. Len(data) /\ o + (e - o) = e
      BY <1>4, <1>7, <3>8, <3>9
    <3>11. data[e - o] = z[e] /\ e - o \in DOMAIN data
      BY <1>7, <3>10
    <3>12. k \in Covered(data)
      BY <3>8, <3>11 DEF Covered
    <3> QED BY <3>4, <3>12
  <2> QED BY <2>2, <2>3 DEF CoversNew
<1> QED BY <1>9, <1>10, <1>11

(* The captures are windows of what was printed.                           *)
EndsIn(pr, buf, b) == \E d \in 0 .. b : buf = Win(pr, d, b) /\ b - d <= MaxCapture
ToldSound(pr, t) ==
  /\ t.upTo \in 0 .. Len(pr) /\ t.before \in 0 .. t.upTo
  /\ ~t.truncated => CoversNew(pr, t.before, t.upTo, t.data)
  /\ Orderly(t.data)
  /\ ~t.again => OnlyNew(t.before, t.upTo, t.data)
CapturedSound(pr, c) ==
  EndsIn(pr, c.buf, Len(pr)) /\ (~c.dropped => c.buf = Win(pr, 0, Len(pr)))
UnreadSound(pr, c, u) ==
  c.buf \in Seq(Places) /\ Len(c.buf) <= MaxCapture /\ (~c.dropped => c.buf = Win(pr, u, Len(pr)))
ReadInv ==
  /\ printed \in Seq(Pieces) /\ ToldSound(printed, told)
  /\ CapturedSound(printed, captured) /\ UnreadSound(printed, unread, told.upTo)
  /\ snapshot = NoSnapshot \/ EndsIn(printed, snapshot, told.upTo)

LEMMA WinEmpty ==
  ASSUME NEW pr, NEW a \in Nat
  PROVE  Win(pr, a, a) = <<>>
<1>1. a - a = 0 /\ 1 .. 0 = {}
  OBVIOUS
<1> QED BY <1>1 DEF Win

(* A capture holds places, and no more of them than its size.              *)
LEMMA EndsInIs ==
  ASSUME NEW pr, NEW buf, NEW b, pr \in Seq(Pieces), b \in 0 .. Len(pr), EndsIn(pr, buf, b)
  PROVE  buf \in Seq(Places) /\ Len(buf) \in Nat /\ Len(buf) <= MaxCapture
<1>1. PICK d \in 0 .. b : buf = Win(pr, d, b) /\ b - d <= MaxCapture
  BY DEF EndsIn
<1>2. Within(pr, d, b)
  <2>1. d \in Nat /\ b \in Nat /\ d <= b /\ b <= Len(pr)
    OBVIOUS
  <2> QED BY <2>1 DEF Within
<1>3. buf \in Seq(Places) /\ Len(buf) = b - d
  BY <1>1, <1>2, WinIs
<1> QED BY <1>1, <1>3

(* Nothing is printed and nothing was told.                                *)
LEMMA ReadBegins == AgentReadInit => ReadInv
<1> SUFFICES ASSUME AgentReadInit PROVE ReadInv
  OBVIOUS
<1>1. printed = <<>> /\ captured.buf = <<>> /\ unread.buf = <<>> /\ snapshot = NoSnapshot
      /\ told.data = <<>> /\ told.upTo = 0 /\ told.before = 0
  BY DEF AgentReadInit
<1>2. <<>> \in Seq(Pieces) /\ <<>> \in Seq(Places) /\ Len(<<>>) = 0 /\ MaxCapture \in Nat /\ 0 - 0 = 0
  BY EmptySeq, AgentReadAssumption
<1>3. \A pr : Win(pr, 0, 0) = <<>>
  BY WinEmpty
<1>4. EndsIn(printed, captured.buf, 0)
  BY <1>1, <1>2, <1>3 DEF EndsIn
<1>5. Redact(Win(printed, 0, 0)) = <<>>
  <2>1. Within(printed, 0, 0)
    BY <1>1, <1>2 DEF Within
  <2>2. PICK g : Redactions(printed, 0, 0, g) /\ \A c \in 0 .. 0 : Redact(Win(printed, 0, c)) = g[c - 0]
    BY <2>1, RedactionsExist
  <2>3. 0 \in 0 .. 0
    OBVIOUS
  <2> QED BY <1>2, <2>2, <2>3 DEF Redactions
<1>6. DOMAIN <<>> = {}
  OBVIOUS
<1>7. PlainItems(<<>>) = {}
  BY <1>6 DEF PlainItems
<1>8. ToldSound(printed, told)
  <2>1. CoversNew(printed, 0, 0, told.data)
    BY <1>5, <1>7 DEF CoversNew
  <2>2. Orderly(told.data) /\ OnlyNew(0, 0, told.data)
    BY <1>1, <1>7 DEF Orderly, OnlyNew
  <2> QED BY <1>1, <1>2, <2>1, <2>2 DEF ToldSound
<1>9. CapturedSound(printed, captured)
  BY <1>1, <1>2, <1>3, <1>4 DEF CapturedSound
<1>10. UnreadSound(printed, unread, told.upTo)
  BY <1>1, <1>2, <1>3 DEF UnreadSound
<1> QED BY <1>1, <1>2, <1>8, <1>9, <1>10 DEF ReadInv

LEMMA ReadInvGives == ReadInv => AgentReadTypeOK /\ ReadsInFull
<1> SUFFICES ASSUME ReadInv PROVE AgentReadTypeOK /\ ReadsInFull
  OBVIOUS
<1>1. printed \in Seq(Pieces) /\ Len(printed) \in Nat /\ Len(printed) \in 0 .. Len(printed) /\ told.upTo \in 0 .. Len(printed) /\ told.upTo \in Nat
  BY DEF ReadInv, ToldSound
<1>2. Len(captured.buf) <= MaxCapture
  <2>1. EndsIn(printed, captured.buf, Len(printed))
    BY DEF ReadInv, CapturedSound
  <2> QED BY <1>1, <2>1, EndsInIs
<1>3. Len(unread.buf) <= MaxCapture
  BY DEF ReadInv, UnreadSound
<1>4. snapshot = NoSnapshot \/ Len(snapshot) <= MaxCapture
  <2>1. EndsIn(printed, snapshot, told.upTo) => Len(snapshot) <= MaxCapture
    BY <1>1, EndsInIs
  <2> QED BY <2>1 DEF ReadInv
<1>5. ReadsInFull
  BY <1>1, ReadsInFullIs DEF ReadInv, ToldSound
<1> QED BY <1>2, <1>3, <1>4, <1>5 DEF AgentReadTypeOK

(* What was printed stays as it was.                                       *)
LEMMA WinStays ==
  ASSUME NEW pr, NEW q, pr \in Seq(Pieces), q \in Seq(Pieces), NEW a, NEW b, Within(pr, a, b)
  PROVE  Win(pr \o q, a, b) = Win(pr, a, b) /\ Within(pr \o q, a, b) /\ Len(pr \o q) = Len(pr) + Len(q)
<1> DEFINE r == pr \o q
<1>1. r \in Seq(Pieces) /\ Len(r) = Len(pr) + Len(q)
      /\ \A i \in 1 .. Len(pr) + Len(q) : r[i] = IF i <= Len(pr) THEN pr[i] ELSE q[i - Len(pr)]
  BY ConcatProperties
<1>2. a \in Nat /\ b \in Nat /\ a <= b /\ b <= Len(pr) /\ Len(pr) \in Nat /\ Len(q) \in Nat
  BY DEF Within
<1> HIDE DEF r
<1>3. Within(r, a, b)
  BY <1>1, <1>2 DEF Within
<1>4. ASSUME NEW i \in 1 .. (b - a) PROVE PlaceOf(r, a + i) = PlaceOf(pr, a + i)
  <2>1. a + i \in 1 .. Len(pr) + Len(q) /\ a + i <= Len(pr)
    BY <1>2
  <2>2. r[a + i] = pr[a + i]
    BY <1>1, <2>1
  <2> QED BY <2>2 DEF PlaceOf
<1>5. Win(r, a, b) = Win(pr, a, b)
  BY <1>4 DEF Win
<1> QED BY <1>1, <1>3, <1>5 DEF r

Continuing(pr, a, b, c, s) == Within(pr, a, b) /\ Within(pr, b, c) /\ s.buf = Win(pr, a, b)

(* appendSessionOutput takes a window on to the next end, cut to the       *)
(* capture's size.                                                         *)
LEMMA GrownIs ==
  ASSUME NEW pr, NEW a, NEW b, NEW c, NEW s, Continuing(pr, a, b, c, s)
  PROVE  /\ EndsIn(pr, Grown(s, Win(pr, b, c)).buf, c)
         /\ c - a <= MaxCapture => Grown(s, Win(pr, b, c)).buf = Win(pr, a, c)
         /\ ~Grown(s, Win(pr, b, c)).dropped => ~s.dropped /\ ~((b - a) + (c - b) > MaxCapture)
<1>0. Within(pr, a, b) /\ Within(pr, b, c) /\ s.buf = Win(pr, a, b)
  BY DEF Continuing
<1>1. Win(pr, a, b) \o Win(pr, b, c) = Win(pr, a, c) /\ Within(pr, a, c)
  BY <1>0, WinJoins
<1>2. PICK d \in a .. c : /\ TailCapped(Win(pr, a, c)) = Win(pr, d, c) /\ c - d <= MaxCapture
                          /\ c - a <= MaxCapture => d = a
  BY <1>1, TailIsWin
<1>3. d \in 0 .. c
  BY <1>0 DEF Within
<1>4. Grown(s, Win(pr, b, c)).buf = TailCapped(Win(pr, a, b) \o Win(pr, b, c))
      /\ Grown(s, Win(pr, b, c)).dropped = (s.dropped \/ Len(Win(pr, a, b)) + Len(Win(pr, b, c)) > MaxCapture)
  BY <1>0 DEF Grown
<1>5. Len(Win(pr, a, b)) = b - a /\ Len(Win(pr, b, c)) = c - b
  BY <1>0, WinIs
<1>6. Grown(s, Win(pr, b, c)).buf = Win(pr, d, c)
  BY <1>1, <1>2, <1>4
<1>7. EndsIn(pr, Grown(s, Win(pr, b, c)).buf, c)
  BY <1>2, <1>3, <1>6 DEF EndsIn
<1>8. ~Grown(s, Win(pr, b, c)).dropped => ~s.dropped /\ ~(Len(Win(pr, a, b)) + Len(Win(pr, b, c)) > MaxCapture)
  BY <1>4, Zenon
<1> QED BY <1>2, <1>5, <1>6, <1>7, <1>8

(* The capped tail of anything fits.                                       *)
LEMMA TailFits ==
  ASSUME NEW s \in Seq(Places)
  PROVE  TailCapped(s) \in Seq(Places) /\ Len(TailCapped(s)) <= MaxCapture
<1> DEFINE m == IF Len(s) > MaxCapture THEN MaxCapture ELSE Len(s)
<1>1. Len(s) \in Nat /\ MaxCapture \in Nat
  BY AgentReadAssumption
<1>2. m \in 0 .. Len(s) /\ m <= MaxCapture
  BY <1>1
<1>3. TailCapped(s) = SubSeq(s, Len(s) - m + 1, Len(s))
  BY DEF TailCapped
<1> HIDE DEF m
<1> PICK k, l : k = Len(s) - m + 1 /\ l = Len(s)
  OBVIOUS
<1>4. k \in Int /\ l \in Int /\ (l < k => m = 0) /\ l - k + 1 = m /\ \A i \in k .. l : i \in 1 .. Len(s)
  BY <1>1, <1>2
<1>5. \A i \in k .. l : s[i] \in Places
  BY <1>4
<1>6. SubSeq(s, k, l) \in Seq(Places) /\ Len(SubSeq(s, k, l)) = (IF l < k THEN 0 ELSE l - k + 1)
  BY <1>4, <1>5, SubSeqProperties
<1> QED BY <1>2, <1>3, <1>4, <1>6

(* What is printed stays behind every read that was told.                  *)
LEMMA AppendReads ==
  ASSUME ReadInv, NEW n \in 1 .. MaxBurst, NEW kinds \in [1 .. n -> Pieces], AppendSessionOutput(kinds)
  PROVE  ReadInv'
<1> PICK pr, qr, b, c, u : pr = printed /\ qr = printed' /\ b = Len(printed) /\ c = Len(printed) + n /\ u = told.upTo
  OBVIOUS
<1> DEFINE piece == [i \in DOMAIN kinds |-> [at |-> Len(printed) + i, kind |-> kinds[i]]]
<1>1. /\ printed' = printed \o kinds
      /\ captured' = Grown(captured, piece) /\ unread' = Grown(unread, piece)
      /\ UNCHANGED <<shellUp, snapshot, told>>
  BY DEF AppendSessionOutput
<1>2. n \in Nat /\ kinds \in Seq(Pieces) /\ Len(kinds) = n /\ DOMAIN kinds = 1 .. n /\ \A i \in 1 .. n : kinds[i] \in Pieces
  BY AgentReadAssumption
<1>3. pr \in Seq(Pieces) /\ b \in Nat /\ c \in Nat /\ b <= c /\ c - b = n /\ u \in 0 .. b /\ 0 \in Nat /\ u \in Nat
  BY <1>2 DEF ReadInv, ToldSound
<1>4. qr \in Seq(Pieces) /\ Len(qr) = c /\ \A i \in 1 .. Len(pr) + n : qr[i] = IF i <= Len(pr) THEN pr[i] ELSE kinds[i - Len(pr)]
  <2>1. pr \o kinds \in Seq(Pieces) /\ Len(pr \o kinds) = Len(pr) + Len(kinds)
        /\ \A i \in 1 .. Len(pr) + Len(kinds) : (pr \o kinds)[i] = IF i <= Len(pr) THEN pr[i] ELSE kinds[i - Len(pr)]
    BY <1>2, <1>3, ConcatProperties
  <2> QED BY <1>1, <1>2, <2>1
<1>5. piece = Win(qr, b, c)
  <2>1. ASSUME NEW i \in 1 .. n PROVE piece[i] = PlaceOf(qr, b + i)
    <3>1. b + i \in 1 .. Len(pr) + n /\ ~(b + i <= Len(pr)) /\ (b + i) - Len(pr) = i
      BY <1>2, <1>3
    <3>2. qr[b + i] = kinds[i]
      BY <1>4, <3>1
    <3>3. piece[i] = [at |-> b + i, kind |-> kinds[i]]
      BY <1>2
    <3> QED BY <3>2, <3>3 DEF PlaceOf
  <2>2. piece = [i \in 1 .. n |-> piece[i]]
    BY <1>2
  <2> HIDE DEF piece
  <2> QED BY <1>3, <2>1, <2>2 DEF Win
<1> HIDE DEF piece
<1>6. Within(qr, b, c)
  BY <1>3, <1>4 DEF Within
<1>7. ASSUME NEW d \in 0 .. b PROVE Within(pr, d, b) /\ Within(qr, d, b) /\ Win(qr, d, b) = Win(pr, d, b) /\ d \in Nat
  <2>1. Within(pr, d, b)
    <3>1. d \in Nat /\ d <= b /\ b <= Len(pr)
      BY <1>3
    <3> QED BY <1>3, <3>1 DEF Within
  <2>2. Win(pr \o kinds, d, b) = Win(pr, d, b) /\ Within(pr \o kinds, d, b)
    BY <1>2, <1>3, <2>1, WinStays
  <2> QED BY <1>1, <2>1, <2>2
<1>8. CapturedSound(qr, captured')
  <2>1. PICK d \in 0 .. b : captured.buf = Win(pr, d, b) /\ b - d <= MaxCapture
    BY DEF ReadInv, CapturedSound, EndsIn
  <2>2. captured.buf = Win(qr, d, b) /\ Within(qr, d, b)
    BY <1>7, <2>1
  <2>5. Continuing(qr, d, b, c, captured)
    BY <1>6, <2>2 DEF Continuing
  <2>3. EndsIn(qr, captured'.buf, c)
    BY <1>1, <1>5, <2>5, GrownIs
  <2>4. ASSUME ~captured'.dropped PROVE captured'.buf = Win(qr, 0, c)
    <3>2. ~captured.dropped
      BY <1>1, <1>5, <2>4, <2>5, GrownIs
    <3>3. 0 \in 0 .. b
      BY <1>3
    <3>4. captured.buf = Win(qr, 0, b) /\ Within(qr, 0, b)
      <4>1. captured.buf = Win(pr, 0, b)
        BY <3>2 DEF ReadInv, CapturedSound
      <4> QED BY <1>7, <3>3, <4>1
    <3>5. Continuing(qr, 0, b, c, captured)
      BY <1>6, <3>4 DEF Continuing
    <3>6. ~((b - 0) + (c - b) > MaxCapture)
      BY <1>1, <1>5, <2>4, <3>5, GrownIs
    <3>7. c - 0 <= MaxCapture
      BY <1>3, <3>6, AgentReadAssumption
    <3> QED BY <1>1, <1>5, <3>5, <3>7, GrownIs
  <2> QED BY <1>4, <2>3, <2>4 DEF CapturedSound
<1>9. UnreadSound(qr, unread', u)
  <2>1. unread.buf \in Seq(Places) /\ Len(unread.buf) <= MaxCapture /\ (~unread.dropped => unread.buf = Win(pr, u, b))
    BY DEF ReadInv, UnreadSound
  <2>2. unread'.buf \in Seq(Places) /\ Len(unread'.buf) <= MaxCapture
    <3> PICK x, y, z : x = unread.buf /\ y = Win(qr, b, c) /\ z = x \o y
      OBVIOUS
    <3>1. y \in Seq(Places) /\ x \in Seq(Places)
      BY <1>6, <2>1, WinIs
    <3>2. z \in Seq(Places)
      <4>1. x \o y \in Seq(Places)
        BY <3>1, ConcatProperties
      <4> QED BY <4>1
    <3>3. unread'.buf = TailCapped(z)
      BY <1>1, <1>5 DEF Grown
    <3> QED BY <3>2, <3>3, TailFits
  <2>3. ASSUME ~unread'.dropped PROVE unread'.buf = Win(qr, u, c)
    <3>1. ~unread.dropped
      <4>1. unread'.dropped = (unread.dropped \/ Len(unread.buf) + Len(Win(qr, b, c)) > MaxCapture)
        BY <1>1, <1>5 DEF Grown
      <4> QED BY <2>3, <4>1
    <3>2. unread.buf = Win(qr, u, b) /\ Within(qr, u, b)
      BY <1>3, <1>7, <2>1, <3>1
    <3>3. Continuing(qr, u, b, c, unread)
      BY <1>6, <3>2 DEF Continuing
    <3>4. ~((b - u) + (c - b) > MaxCapture)
      BY <1>1, <1>5, <2>3, <3>3, GrownIs
    <3>5. c - u <= MaxCapture
      BY <1>3, <3>4, AgentReadAssumption
    <3>6. Grown(unread, Win(qr, b, c)).buf = Win(qr, u, c)
      BY <3>3, <3>5, GrownIs
    <3> QED BY <1>1, <1>5, <3>6
  <2> QED BY <1>4, <2>2, <2>3 DEF UnreadSound
<1>10. ASSUME NEW d, NEW e \in 0 .. b, d \in 0 .. e PROVE Win(qr, d, e) = Win(pr, d, e)
  <2>1. Within(pr, d, e)
    <3>1. d \in Nat /\ e \in Nat /\ d <= e /\ e <= Len(pr)
      BY <1>3, <1>10
    <3> QED BY <1>3, <3>1 DEF Within
  <2>2. Win(pr \o kinds, d, e) = Win(pr, d, e)
    BY <1>2, <1>3, <2>1, WinStays
  <2> QED BY <1>1, <2>2
<1>11. ToldSound(qr, told)
  <2>1. Win(qr, 0, u) = Win(pr, 0, u)
    <3>1. 0 \in 0 .. u
      BY <1>3
    <3> QED BY <1>3, <1>10, <3>1
  <2>2. ToldSound(pr, told)
    BY DEF ReadInv
  <2>3. told.upTo \in 0 .. c
    BY <1>3
  <2> QED BY <1>4, <2>1, <2>2, <2>3 DEF ToldSound, CoversNew
<1>12. snapshot = NoSnapshot \/ EndsIn(qr, snapshot, u)
  <2>1. ASSUME EndsIn(pr, snapshot, u) PROVE EndsIn(qr, snapshot, u)
    <3>1. PICK d \in 0 .. u : snapshot = Win(pr, d, u) /\ u - d <= MaxCapture
      BY <2>1 DEF EndsIn
    <3>2. snapshot = Win(qr, d, u)
      BY <1>3, <1>10, <3>1
    <3> QED BY <3>1, <3>2 DEF EndsIn
  <2> QED BY <2>1 DEF ReadInv
<1> QED BY <1>1, <1>4, <1>8, <1>9, <1>11, <1>12 DEF ReadInv

(* A read of what is new.                                                  *)
LEMMA RereadNew ==
  ASSUME ReadInv, ReadNew
  PROVE  ReadInv'
<1> PICK pr, n, u : pr = printed /\ n = Len(printed) /\ u = told.upTo
  OBVIOUS
<1> DEFINE raw == IF Continues THEN snapshot \o unread.buf ELSE captured.buf
           complete == Redact(raw)
           previous == IF Continues THEN Redact(snapshot) ELSE <<>>
           extends == Continues /\ IsPrefix(Seen(previous), Seen(complete))
           data == IF extends THEN SubSeq(complete, Len(previous) + 1, Len(complete)) ELSE complete
           cut == ~Continues /\ (unread.dropped \/ captured.dropped)
<1>1. /\ told' = [data |-> data, upTo |-> Len(printed), before |-> told.upTo, again |-> ~extends, truncated |-> cut]
      /\ snapshot' = TailCapped(raw) /\ unread' = [buf |-> <<>>, dropped |-> FALSE]
      /\ UNCHANGED <<printed, shellUp, captured>>
  BY DEF ReadNew
<1>2. pr \in Seq(Pieces) /\ n \in Nat /\ n = Len(pr) /\ u \in 0 .. n /\ u \in Nat /\ n \in 0 .. n /\ MaxCapture \in Nat
  BY AgentReadAssumption DEF ReadInv, ToldSound
<1>3. told'.data = data /\ told'.upTo = n /\ told'.before = u /\ (~told'.again => extends) /\ (~told'.truncated => ~cut)
  <2> HIDE DEF data, extends, cut
  <2> QED BY <1>1
<1>4. Within(pr, 0, n)
  BY <1>2 DEF Within
<1>5. ASSUME Continues
      PROVE  \E a \in 0 .. u : snapshot = Win(pr, a, u) /\ raw = Win(pr, a, n) /\ Within(pr, a, u) /\ Within(pr, u, n) /\ Within(pr, a, n)
  <2>1. snapshot # NoSnapshot /\ ~unread.dropped
    BY <1>5 DEF Continues
  <2>2. PICK a \in 0 .. u : snapshot = Win(pr, a, u)
    BY <2>1 DEF ReadInv, EndsIn
  <2>3. unread.buf = Win(pr, u, n)
    BY <2>1 DEF ReadInv, UnreadSound
  <2>4. Within(pr, a, u) /\ Within(pr, u, n)
    <3>1. a \in Nat /\ a <= u /\ u <= n
      BY <1>2
    <3> QED BY <1>2, <3>1 DEF Within
  <2>5. Win(pr, a, u) \o Win(pr, u, n) = Win(pr, a, n) /\ Within(pr, a, n)
    BY <2>4, WinJoins
  <2> QED BY <1>5, <2>2, <2>3, <2>4, <2>5
<1>6. ASSUME ~Continues PROVE \E a \in 0 .. n : raw = Win(pr, a, n) /\ Within(pr, a, n) /\ (~captured.dropped => raw = Win(pr, 0, n))
  <2>1. PICK a \in 0 .. n : captured.buf = Win(pr, a, n)
    BY DEF ReadInv, CapturedSound, EndsIn
  <2>2. Within(pr, a, n)
    <3>1. a \in Nat /\ a <= n
      BY <1>2
    <3> QED BY <1>2, <3>1 DEF Within
  <2>3. ~captured.dropped => captured.buf = Win(pr, 0, n)
    BY DEF ReadInv, CapturedSound
  <2> QED BY <1>6, <2>1, <2>2, <2>3
<1>7. PICK a \in 0 .. n : raw = Win(pr, a, n) /\ Within(pr, a, n)
  <2>1. CASE Continues
    <3>1. PICK a \in 0 .. u : raw = Win(pr, a, n) /\ Within(pr, a, n)
      BY <1>5, <2>1
    <3>2. a \in 0 .. n
      BY <1>2
    <3> HIDE DEF raw
    <3> QED BY <3>1, <3>2
  <2>2. CASE ~Continues
    <3> HIDE DEF raw
    <3> QED BY <1>6, <2>2
  <2> QED BY <2>1, <2>2
<1>8. EndsIn(pr, snapshot', n)
  <2>1. PICK d \in a .. n : TailCapped(Win(pr, a, n)) = Win(pr, d, n) /\ n - d <= MaxCapture
    BY <1>7, TailIsWin
  <2>2. d \in 0 .. n
    BY <1>2
  <2>3. snapshot' = Win(pr, d, n)
    <3> HIDE DEF raw
    <3> QED BY <1>1, <1>7, <2>1
  <2> QED BY <2>1, <2>2, <2>3 DEF EndsIn
<1>9. ASSUME extends PROVE Orderly(data) /\ OnlyNew(u, n, data) /\ CoversNew(pr, u, n, data)
  <2>1. Continues
    BY <1>9
  <2>2. PICK e \in 0 .. u : snapshot = Win(pr, e, u) /\ raw = Win(pr, e, n) /\ Within(pr, e, u) /\ Within(pr, u, n)
    BY <1>5, <2>1
  <2>3. data = SubSeq(complete, Len(previous) + 1, Len(complete)) /\ previous = Redact(snapshot)
    <3> HIDE DEF complete
    <3> QED BY <1>9, <2>1
  <2>4. data = SubSeq(Redact(Win(pr, e, n)), Len(Redact(Win(pr, e, u))) + 1, Len(Redact(Win(pr, e, n))))
    <3> HIDE DEF raw, data, previous
    <3> QED BY <2>2, <2>3
  <2> HIDE DEF data
  <2> QED BY <2>2, <2>4, RestReads
<1>10. ASSUME ~extends PROVE data = complete /\ Orderly(data)
  <2>1. data = complete
    <3> HIDE DEF complete, extends
    <3> QED BY <1>10
  <2>2. Orderly(Redact(Win(pr, a, n)))
    BY <1>7, WholeReads
  <2>3. complete = Redact(Win(pr, a, n))
    <3> HIDE DEF raw
    <3> QED BY <1>7
  <2> HIDE DEF complete, data
  <2> QED BY <2>1, <2>2, <2>3
<1>11. ASSUME NEW e, Within(pr, e, n), e <= u, data = Redact(Win(pr, e, n)) PROVE CoversNew(pr, u, n, data)
  <2> HIDE DEF data
  <2>1. (e + 1) .. n \subseteq Covered(data)
    BY <1>11, WholeReads
  <2>2. ASSUME NEW i \in PlainItems(Redact(Win(pr, 0, n))), Redact(Win(pr, 0, n))[i].at \subseteq (u + 1) .. n
        PROVE  Redact(Win(pr, 0, n))[i].at \subseteq Covered(data)
    <3>1. (u + 1) .. n \subseteq (e + 1) .. n
      BY <1>2, <1>11 DEF Within
    <3> QED BY <2>1, <2>2, <3>1
  <2> QED BY <2>2 DEF CoversNew
<1>12. ASSUME ~cut, ~extends PROVE CoversNew(pr, u, n, data)
  <2>1. data = complete
    BY <1>10, <1>12
  <2>2. CASE Continues
    <3>1. PICK e \in 0 .. u : raw = Win(pr, e, n) /\ Within(pr, e, n)
      BY <1>5, <2>2
    <3>2. complete = Redact(Win(pr, e, n)) /\ e <= u
      <4> HIDE DEF raw
      <4> QED BY <1>2, <3>1
    <3>3. data = Redact(Win(pr, e, n))
      <4> HIDE DEF data, complete
      <4> QED BY <2>1, <3>2
    <3> HIDE DEF data, raw
    <3> QED BY <1>11, <3>1, <3>2, <3>3
  <2>3. CASE ~Continues
    <3>1. ~captured.dropped
      BY <1>12, <2>3
    <3>2. raw = Win(pr, 0, n)
      <4> HIDE DEF raw
      <4> QED BY <1>6, <2>3, <3>1
    <3>3. complete = Redact(Win(pr, 0, n)) /\ 0 <= u
      <4> HIDE DEF raw
      <4> QED BY <1>2, <3>2
    <3>4. data = Redact(Win(pr, 0, n))
      <4> HIDE DEF data, complete
      <4> QED BY <2>1, <3>3
    <3> HIDE DEF data, raw
    <3> QED BY <1>4, <1>11, <3>3, <3>4
  <2> QED BY <2>2, <2>3
<1> HIDE DEF raw, complete, previous, data, extends, cut
<1>13. ToldSound(pr, told')
  <2>1. Orderly(told'.data)
    BY <1>3, <1>9, <1>10
  <2>2. ASSUME ~told'.truncated PROVE CoversNew(pr, told'.before, told'.upTo, told'.data)
    <3>1. CoversNew(pr, u, n, data)
      BY <1>3, <1>9, <1>12, <2>2
    <3> QED BY <1>3, <3>1
  <2>3. ASSUME ~told'.again PROVE OnlyNew(told'.before, told'.upTo, told'.data)
    <3>1. OnlyNew(u, n, data)
      BY <1>3, <1>9, <2>3
    <3> QED BY <1>3, <3>1
  <2>4. told'.upTo \in 0 .. Len(pr) /\ told'.before \in 0 .. told'.upTo
    BY <1>2, <1>3
  <2> QED BY <2>1, <2>2, <2>3, <2>4 DEF ToldSound
<1>14. UnreadSound(pr, unread', n)
  <2>1. unread'.buf = <<>>
    BY <1>1
  <2>2. <<>> \in Seq(Places) /\ Len(<<>>) = 0 /\ Win(pr, n, n) = <<>>
    BY <1>2, EmptySeq, WinEmpty
  <2> QED BY <1>2, <2>1, <2>2 DEF UnreadSound
<1>15. CapturedSound(pr, captured') /\ printed' = pr
  BY <1>1 DEF ReadInv
<1> QED BY <1>2, <1>3, <1>8, <1>13, <1>14, <1>15 DEF ReadInv

(* A read of the tail.                                                     *)
LEMMA RereadTail ==
  ASSUME ReadInv, ReadTail
  PROVE  ReadInv'
<1> PICK pr, n, u : pr = printed /\ n = Len(printed) /\ u = told.upTo
  OBVIOUS
<1> DEFINE data == Redact(captured.buf)
<1>1. /\ told' = [data |-> data, upTo |-> told.upTo, before |-> told.upTo, truncated |-> captured.dropped, again |-> TRUE]
      /\ UNCHANGED <<printed, shellUp, captured, unread, snapshot>>
  BY DEF ReadTail
<1>2. pr \in Seq(Pieces) /\ n \in Nat /\ n = Len(pr) /\ u \in 0 .. n /\ u \in Nat
  BY DEF ReadInv, ToldSound
<1>3. told'.data = data /\ told'.upTo = u /\ told'.before = u /\ told'.again = TRUE
  BY <1>1
<1>4. PICK a \in 0 .. n : captured.buf = Win(pr, a, n)
  BY DEF ReadInv, CapturedSound, EndsIn
<1>5. Orderly(data)
  <2>1. Within(pr, a, n)
    <3>1. a \in Nat /\ a <= n
      BY <1>2
    <3> QED BY <1>2, <3>1 DEF Within
  <2> QED BY <1>4, <2>1, WholeReads
<1>6. CoversNew(pr, u, u, data)
  <2> DEFINE w == Redact(Win(pr, 0, u))
  <2>1. Within(pr, 0, u)
    <3>1. 0 <= u /\ u <= Len(pr)
      BY <1>2
    <3> QED BY <1>2, <3>1 DEF Within
  <2>2. \A i \in PlainItems(w) : \E k \in (0 + 1) .. u : w[i].at = {k}
    BY <2>1, WholeReads
  <2>3. (u + 1) .. u = {}
    BY <1>2
  <2> HIDE DEF w, data
  <2>4. ASSUME NEW i \in PlainItems(w), w[i].at \subseteq (u + 1) .. u PROVE FALSE
    BY <2>2, <2>3, <2>4
  <2> QED BY <2>4 DEF CoversNew, w
<1> HIDE DEF data
<1>7. ToldSound(pr, told')
  BY <1>2, <1>3, <1>5, <1>6 DEF ToldSound
<1> QED BY <1>1, <1>3, <1>7 DEF ReadInv

(* Every step of the readers keeps the invariant.                          *)
LEMMA ReadStep == ReadInv /\ [AgentReadNext]_readVars => ReadInv'
<1> SUFFICES ASSUME ReadInv, [AgentReadNext]_readVars PROVE ReadInv'
  OBVIOUS
<1>1. CASE UNCHANGED readVars
  BY <1>1 DEF readVars, ReadInv
<1>2. CASE \E n \in 1 .. MaxBurst : \E kinds \in [1 .. n -> Pieces] : AppendSessionOutput(kinds)
  BY <1>2, AppendReads
<1>3. CASE ReadNew
  BY <1>3, RereadNew
<1>4. CASE ReadTail
  BY <1>4, RereadTail
<1>5. CASE ShellExits
  BY <1>5 DEF ShellExits, ReadInv
<1> QED BY <1>1, <1>2, <1>3, <1>4, <1>5 DEF AgentReadNext

-----------------------------------------------------------------------------
(* The areas together: a step moves one of them and leaves the others as   *)
(* they are, so each of them behaves as it does alone.                     *)
worldVars == <<vars, streamVars, area>>

(* Every area begins as it does alone.                                     *)
LEMMA AreasBeginTogether ==
  MCServiceInit => /\ ServiceInit /\ InputInit /\ MarksInit /\ AgentReadInit
                   /\ LoginInit /\ BannerInit /\ SocksInit
BY DEF MCServiceInit

(* A step moves one area or none.                                          *)
LEMMA AreasMoveApart ==
  [MCServiceNext]_worldVars =>
    /\ [ServiceNext]_vars /\ [InputNext]_inputVars /\ [MarksNext]_marksVars /\ [AgentReadNext]_readVars
    /\ [LoginNext]_loginVars /\ [BannerNext]_bannerVars /\ [SocksNext]_socksVars
BY DEF MCServiceNext, worldVars, streamVars

(* What the reader of the banner and its socket are.                       *)
BannerStates ==
  /\ flowing \in BOOLEAN /\ sock \in {"open", "ended", "destroyed"}
  /\ reader \in {"connecting", "reading", "settled", "piped", "failed"}

(* No step leads the reader of the banner or its socket out of their       *)
(* states.                                                                 *)
LEMMA BannerStatesKept ==
  /\ BannerInit => BannerStates
  /\ BannerStates /\ [BannerNext]_bannerVars => BannerStates'
<1>1. BannerInit => BannerStates
  BY DEF BannerInit, BannerStates
<1>2. ASSUME BannerStates, [BannerNext]_bannerVars PROVE BannerStates'
  BY <1>2 DEF BannerStates, BannerNext, bannerVars, Connects, ConnectFails, PeerSends, PeerEnds, Emits, ReadFails,
              FlowsAfterBanner, Attach, Ssh2Reads, Ssh2Destroys
<1> QED BY <1>1, <1>2

(* The types of the streams from their invariants.                         *)
LEMMA SocksTypesFollow == SocksInv => SocksTypeOK
<1> SUFFICES ASSUME SocksInv PROVE SocksTypeOK
  OBVIOUS
<1>1. ParserAt(served, given)
  BY DEF SocksInv
<1>2. PICK st \in {"greeting", "request", "open", "piped", "refused"}, b \in Seq(SocksTokens), r \in Seq(SocksReplies) :
        served = [state |-> st, buffer |-> b, replies |-> r]
  BY <1>1 DEF ParserAt
<1>3. served.state = st
  BY <1>2
<1> QED BY <1>3 DEF SocksInv, SocksTypeOK

LEMMA LoginTypesFollow == LoginInv => LoginTypeOK
<1> SUFFICES ASSUME LoginInv PROVE LoginTypeOK
  OBVIOUS
<1>1. LoginTypes
  BY DEF LoginInv
<1>2. walk.offered \subseteq Methods /\ auth.attempts \in 0..2
  BY <1>1 DEF LoginTypes, AuthType, WalkType
<1> QED BY <1>1, <1>2 DEF LoginTypes, LoginTypeOK, Stages

LEMMA BannerTypesFollow == BannerInv /\ BannerStates => BannerTypeOK
BY DEF BannerInv, BannerStates, BannerTypeOK, InboxIsNext

(* However the output is cut into chunks, the tracker's state and carry    *)
(* are those of its rule taken character by character; and each fact of    *)
(* the state is the one the terminal has read, but for those an            *)
(* interrupted sequence hid until a later marker set them again; as long   *)
(* as no sequence outgrew the carry.                                       *)
THEOREM MarkersAreExact == MarksSpec => []MarksExact
BY MarksBegin, MarksStep, MarksInvGives, PTL DEF MarksSpec

(* However much comes between two reads and wherever a key or a label is   *)
(* cut by them, an answer that is not called truncated has the new plain   *)
(* output in it, in the order it was printed, and one that did not begin   *)
(* again has nothing else.                                                 *)
THEOREM ReadsAreInFull == AgentReadSpec => []ReadsInFull
BY ReadBegins, ReadStep, ReadInvGives, PTL DEF AgentReadSpec

(* The service and its streams, explored together, each behave as they do  *)
(* alone: what is proved of one of them holds in every behaviour of all.   *)
THEOREM EachAreaAlone ==
  MCServiceSpec => /\ ServiceSpec /\ InputSpec /\ MarksSpec /\ AgentReadSpec
                   /\ LoginSpec /\ BannerSpec /\ SocksSpec
BY AreasBeginTogether, AreasMoveApart, PTL
   DEF MCServiceSpec, worldVars, ServiceSpec, InputSpec, MarksSpec, AgentReadSpec, LoginSpec, BannerSpec, SocksSpec

(* In every behaviour of the service with its streams: no map keeps what   *)
(* is gone and none loses what is there, and a connection is begun with    *)
(* what the peer sent and the record holds.                                *)
THEOREM ServiceWorldIsSound == MCServiceSpec => [](MapsSound /\ ConnectingSound)
BY EachAreaAlone, MapsAreSound, ConnectingIsSound, PTL

(* In every behaviour of the service with its streams: once the server has *)
(* read every key, a line the mirror claims to know is the one in the      *)
(* shell, and behind a key it cannot follow no agent's Enter gets through; *)
(* the tracker says what the terminal has read of the markers; and the     *)
(* agent is given what was printed, in order, or told that some is         *)
(* missing; with the exceptions each of the three names.                   *)
THEOREM TerminalLinesAreSound == MCServiceSpec => []TerminalLineSound
<1>1. InputSound /\ MarksExact /\ ReadsInFull => TerminalLineSound
  BY DEF TerminalLineSound
<1> QED BY <1>1, EachAreaAlone, InputIsSound, MarkersAreExact, ReadsAreInFull, PTL

(* In every behaviour of the service every variable keeps its type: the    *)
(* records and their maps, the line and its bounds, the markers counted in *)
(* what was fed, what is captured and told, the stages of a login, of the  *)
(* banner's reader and of the SOCKS parser.                                *)
THEOREM ServiceWorldTypesCorrect == MCServiceSpec => []ServiceWorldTypeOK
<1> DEFINE Inv == /\ ServiceInv /\ InputInv /\ MarksInv /\ ReadInv
                  /\ LoginInv /\ BannerInv /\ BannerStates /\ SocksInv
<1>1. MCServiceInit => Inv
  BY AreasBeginTogether, ServiceBegins, InputBegins, MarksBegin, ReadBegins, LoginBegins, BannerBegins,
     BannerStatesKept, SocksBegins
<1>2. Inv /\ [MCServiceNext]_worldVars => Inv'
  BY AreasMoveApart, ServiceStep, InputStep, MarksStep, ReadStep, LoginStep, BannerStep,
     BannerStatesKept, SocksStep
<1>3. Inv => ServiceWorldTypeOK
  BY InputInvGives, MarksInvGives, ReadInvGives, LoginTypesFollow, BannerTypesFollow, SocksTypesFollow
     DEF ServiceInv, ServiceWorldTypeOK
<1> HIDE DEF Inv
<1> QED BY <1>1, <1>2, <1>3, PTL DEF MCServiceSpec, worldVars

=============================================================================
