---------------------------- MODULE SshTransport ----------------------------
(***************************************************************************)
(* The life of one SSH connection record of SshOpsService (src/index.js):  *)
(* connectInternal and connectClient establish it, attachTransportHandlers *)
(* and handleTransportLoss watch it, scheduleReconnect heals it, disconnect*)
(* and cancelProfileConnect end it, and ensureAlive makes every other      *)
(* operation wait for it.                                                  *)
(*                                                                         *)
(* Everything runs on one JavaScript thread: a step is the code between    *)
(* two awaits that really yield.  A step therefore runs a handler to its   *)
(* next such await, with everything it resolves on the way.                *)
(***************************************************************************)
EXTENDS FiniteSets, Naturals

CONSTANTS
  Conn,       \* connection ids; connectInternal never reuses one (randomUUID)
  Client,     \* identities of ssh2 Client objects, recycled once unreferenced
  NoClient,   \* the null a record's client starts with
  Caller,     \* concurrent calls of ensureAlive
  NoConn,     \* the target of a caller that is not calling
  Retries,    \* retries of a first connect (CONNECT_RETRIES); a reconnect has 0
  Jumped,     \* connections with a proxyJump chain
  FirstSeen,  \* connections whose server may present a key not yet recorded
  Fallbacks,  \* Conn -> the one-shot handshake fallbacks its server provokes
  EarlyCalls, \* connections on which ensureAlive is called while they first connect
  Throws      \* connections whose reconnect callback may meet an unexpected exception

AllFallbacks == {"banner", "legacy", "kbd"}

ASSUME TransportAssumption ==
  /\ NoClient \notin Client /\ NoConn \notin Conn
  /\ Retries \in Nat
  /\ Jumped \subseteq Conn /\ FirstSeen \subseteq Conn
  /\ Fallbacks \in [Conn -> SUBSET AllFallbacks]
  /\ EarlyCalls \subseteq Conn /\ Throws \subseteq Conn

VARIABLES
  connections, \* keys of the service's connections Map
  dead, closing, connecting, \* the record's flags
  timer,       \* reconnectTimer !== null
  phase,       \* which await connectClient is suspended at, "idle" when none
  tries,       \* retries - attempt of the connectClient in flight
  used,        \* bannerRepair, legacyAlgorithms, kbdFallbackTried that are set
  outcome,     \* what the last connectClient of the record returned
  client,      \* record.client
  link,        \* the transport of that client
  watched,     \* attachTransportHandlers ran on that client
  events,      \* clients with handlers whose error/close is not delivered yet
  call, callee \* ensureAlive calls: their state and the record they are on

recVars   == <<connections, dead, closing, connecting, timer>>
tryVars   == <<phase, tries, used, outcome>>
netVars   == <<client, link, watched, events>>
callVars  == <<call, callee>>
transportVars == <<recVars, tryVars, netVars, callVars>>

Phases    == {"fresh", "sock", "hand", "sleep", "persist", "idle"}
InFlight  == {"sock", "hand", "sleep", "persist"}
Outcomes  == {"none", "ok", "failed", "host-key", "threw"}
Links     == {"none", "hand", "up", "ending", "gone"}
CallStates == {"idle", "wait", "yes", "no"}

(* Types of the record's fields.                                           *)
TransportTypeOK ==
  /\ connections \subseteq Conn
  /\ dead \in [Conn -> BOOLEAN] /\ closing \in [Conn -> BOOLEAN]
  /\ connecting \in [Conn -> BOOLEAN] /\ timer \in [Conn -> BOOLEAN]
  /\ phase \in [Conn -> Phases] /\ tries \in [Conn -> 0 .. Retries]
  /\ used \in [Conn -> SUBSET AllFallbacks] /\ outcome \in [Conn -> Outcomes]
  /\ client \in [Conn -> Client \union {NoClient}] /\ link \in [Conn -> Links]
  /\ watched \in [Conn -> BOOLEAN] /\ events \in [Conn -> SUBSET Client]
  /\ call \in [Caller -> CallStates]
  /\ callee \in [Caller -> Conn \union {NoConn}]

TransportInit ==
  /\ connections = {}
  /\ dead = [c \in Conn |-> TRUE] /\ closing = [c \in Conn |-> FALSE]
  /\ connecting = [c \in Conn |-> FALSE] /\ timer = [c \in Conn |-> FALSE]
  /\ phase = [c \in Conn |-> "fresh"] /\ tries = [c \in Conn |-> 0]
  /\ used = [c \in Conn |-> {}] /\ outcome = [c \in Conn |-> "none"]
  /\ client = [c \in Conn |-> NoClient] /\ link = [c \in Conn |-> "none"]
  /\ watched = [c \in Conn |-> FALSE] /\ events = [c \in Conn |-> {}]
  /\ call = [k \in Caller |-> "idle"] /\ callee = [k \in Caller |-> NoConn]

-----------------------------------------------------------------------------
(* reconnectWaiters of a record, and settling a set of ensureAlive calls.  *)
Waiters(c) == {k \in Caller : call[k] = "wait" /\ callee[k] = c}

Settle(K, answer) ==
  call' = [k \in Caller |-> IF k \in K THEN answer ELSE call[k]]

(* A transport goes away: the client's error/close reaches the handlers    *)
(* only if attachTransportHandlers ran before.                             *)
EventsOnClose(c) ==
  IF watched[c] THEN [events EXCEPT ![c] = @ \union {client[c]}] ELSE events

(* client.end(): a pending handshake is broken off by the close event, an  *)
(* established transport still delivers what is in flight until it closes. *)
Ended(l) == IF l = "hand" THEN "gone" ELSE IF l = "up" THEN "ending" ELSE l

-----------------------------------------------------------------------------
(* connectClient, one iteration of its loop.  With a jump chain or a       *)
(* repaired banner the socket is awaited first; the new Client is created  *)
(* after that await, without looking at closing again.                     *)
NeedsSock(c, u) == c \in Jumped \/ "banner" \in u

NewClient(c) ==
  \E x \in Client \ (events[c] \union {client[c]}) :
    /\ client' = [client EXCEPT ![c] = x]
    /\ link' = [link EXCEPT ![c] = "hand"]
    /\ watched' = [watched EXCEPT ![c] = FALSE]
    /\ phase' = [phase EXCEPT ![c] = "hand"]

(* The body of the loop from its top, record.closing being false there;    *)
(* u is the fallbacks set at that point.                                   *)
Attempt(c, u) ==
  /\ used' = [used EXCEPT ![c] = u]
  /\ UNCHANGED <<events, outcome>>
  /\ \/ /\ NeedsSock(c, u)
        /\ phase' = [phase EXCEPT ![c] = "sock"]
        /\ link' = [link EXCEPT ![c] = Ended(@)]
        /\ UNCHANGED <<client, watched>>
     \/ /\ ~NeedsSock(c, u)
        /\ NewClient(c)

(* scheduleReconnect's early returns; d is record.dead at the call.        *)
\* Faulty variant: an attempt in flight counts as one already scheduled.
ReschedulesWhenIdle(c, d) == ~closing[c] /\ d /\ ~timer[c] /\ phase[c] = "idle"
Reschedules(c, d) == ~closing[c] /\ d /\ ~timer[c]

(* The codes after which the reconnect callback does not try again.        *)
StopsReconnect(code) == code = "host-key"

(* connectInternal deletes the record of a failed first connect.           *)
KeepFailed(c) == c \in Conn /\ UNCHANGED connections \* faulty variant
DeleteFailed(c) == connections' = connections \ {c}

(* connectClient returned an error with this code: connectInternal deletes *)
(* the record; the reconnect callback stops on a host-key code and tells   *)
(* the waiters, and schedules the next attempt otherwise.                  *)
ReturnError(c, code) ==
  /\ phase' = [phase EXCEPT ![c] = "idle"]
  /\ outcome' = [outcome EXCEPT ![c] = code]
  /\ connecting' = [connecting EXCEPT ![c] = FALSE]
  /\ UNCHANGED <<dead, closing, callee>>
  /\ \/ /\ connecting[c]
        /\ DeleteFailed(c)
        /\ UNCHANGED <<timer, call>>
     \/ /\ ~connecting[c] /\ StopsReconnect(code)
        /\ Settle(Waiters(c), "no")
        /\ UNCHANGED <<connections, timer>>
     \/ /\ ~connecting[c] /\ ~StopsReconnect(code)
        /\ timer' = [timer EXCEPT ![c] = @ \/ Reschedules(c, dead[c])]
        /\ UNCHANGED <<connections, call>>

(* Handlers are attached to the record's current client.                   *)
\* Faulty variant: only the first client of a record is watched.
AttachOnFirstConnect(c) ==
  watched' = [watched EXCEPT ![c] = connecting[c]]
AttachTransportHandlers(c) == watched' = [watched EXCEPT ![c] = TRUE]

(* A finished reconnect answers its waiters; a first connect does not.     *)
WakeWaiters(c) ==
  IF connecting[c] THEN UNCHANGED call ELSE Settle(Waiters(c), "yes")

(* connectClient returned ok: handlers are attached to the client, the     *)
(* first connect returns, a reconnect releases the waiters.                *)
ReturnOk(c) ==
  /\ phase' = [phase EXCEPT ![c] = "idle"]
  /\ outcome' = [outcome EXCEPT ![c] = "ok"]
  /\ connecting' = [connecting EXCEPT ![c] = FALSE]
  /\ AttachTransportHandlers(c)
  /\ WakeWaiters(c)
  /\ UNCHANGED <<connections, closing, timer, tries, used, client, events, callee>>

(* connectInternal puts the record into the map and starts connectClient;  *)
(* a request that names the legacy algorithms rules their fallback out.    *)
Connect(c) ==
  /\ phase[c] = "fresh"
  /\ connections' = connections \union {c}
  /\ connecting' = [connecting EXCEPT ![c] = TRUE]
  /\ tries' = [tries EXCEPT ![c] = Retries]
  /\ \E u \in SUBSET (Fallbacks[c] \intersect {"legacy"}) : Attempt(c, u)
  /\ UNCHANGED <<dead, closing, timer, callVars>>

(* The jump chain (and the banner repair) produced a socket.               *)
SockReady(c) ==
  /\ phase[c] = "sock"
  /\ NewClient(c)
  /\ UNCHANGED <<recVars, tries, used, outcome, events, callVars>>

(* connectChain or openRepairedSock threw.  A host-key code of a hop       *)
(* returns at once, anything else is retried while attempts are left.      *)
SockFails(c) ==
  /\ phase[c] = "sock"
  /\ \/ /\ c \in Jumped
        /\ ReturnError(c, "host-key")
        /\ UNCHANGED tries
     \/ /\ tries[c] = 0 \/ (closing[c] /\ "banner" \in used[c])
        /\ ReturnError(c, "failed")
        /\ UNCHANGED tries
     \/ /\ tries[c] > 0 /\ (c \in Jumped \/ ~closing[c])
        /\ tries' = [tries EXCEPT ![c] = @ - 1]
        /\ phase' = [phase EXCEPT ![c] = "sleep"]
        /\ UNCHANGED <<recVars, outcome, callVars>>
  /\ UNCHANGED <<used, netVars>>

(* "ready": the record is alive from here on; a first-seen host key is     *)
(* written to known_hosts before connectClient returns.                    *)
HandshakeReady(c) ==
  /\ phase[c] = "hand" /\ link[c] = "hand"
  /\ link' = [link EXCEPT ![c] = "up"]
  /\ dead' = [dead EXCEPT ![c] = FALSE]
  /\ \/ ReturnOk(c)
     \/ /\ c \in FirstSeen
        /\ phase' = [phase EXCEPT ![c] = "persist"]
        /\ UNCHANGED <<connections, closing, connecting, timer, tries, used,
                       outcome, client, watched, events, callVars>>

(* The error branch of connectClient after a failed handshake, in order: a *)
(* host-key verdict, a cancelled connect, a one-shot fallback, a transient *)
(* error with attempts left, giving up.                                    *)
HandshakeFails(c) ==
  /\ phase[c] = "hand" /\ link[c] \in {"hand", "gone"}
  /\ \/ /\ link[c] = "hand"
        /\ ReturnError(c, "host-key")
        /\ link' = [link EXCEPT ![c] = "gone"]
        /\ UNCHANGED <<tries, used, client, watched, events>>
     \/ /\ ReturnError(c, "failed")
        /\ link' = [link EXCEPT ![c] = "gone"]
        /\ UNCHANGED <<tries, used, client, watched, events>>
     \/ /\ ~closing[c]
        /\ \E f \in Fallbacks[c] \ used[c] : Attempt(c, used[c] \union {f})
        /\ tries' = [tries EXCEPT ![c] = IF @ = 0 THEN 0 ELSE @ - 1]
        /\ UNCHANGED <<recVars, callVars>>
     \/ /\ ~closing[c] /\ tries[c] > 0
        /\ tries' = [tries EXCEPT ![c] = @ - 1]
        /\ phase' = [phase EXCEPT ![c] = "sleep"]
        /\ link' = [link EXCEPT ![c] = "gone"]
        /\ UNCHANGED <<recVars, used, outcome, client, watched, events, callVars>>

(* The check of record.closing at the top of the loop.                     *)
NeverCancelled(c) == c \notin Conn \* faulty variant
CancelledAtTop(c) == closing[c]

(* The backoff sleep ended: the next iteration starts.                     *)
SleepEnds(c) ==
  /\ phase[c] = "sleep"
  /\ \/ /\ CancelledAtTop(c)
        /\ ReturnError(c, "failed")
        /\ UNCHANGED <<used, netVars>>
     \/ /\ ~CancelledAtTop(c)
        /\ Attempt(c, used[c])
        /\ UNCHANGED <<recVars, callVars>>
  /\ UNCHANGED tries

(* known_hosts was written, or the write threw into connectClient's catch. *)
PersistDone(c) ==
  /\ phase[c] = "persist"
  /\ ReturnOk(c)
  /\ UNCHANGED <<dead, link>>

PersistFails(c) ==
  /\ phase[c] = "persist"
  /\ ReturnError(c, "failed")
  /\ UNCHANGED <<tries, used, netVars>>

-----------------------------------------------------------------------------
(* The transport of an established client closes (peer, network, or the    *)
(* end() the service asked for).                                           *)
TransportCloses(c) ==
  /\ link[c] \in {"up", "ending"}
  /\ link' = [link EXCEPT ![c] = "gone"]
  /\ events' = EventsOnClose(c)
  /\ UNCHANGED <<recVars, tryVars, client, watched, callVars>>

(* handleTransportLoss(record, client): ignored for a closing record, for a*)
(* client the record no longer uses, and for a record already dead.        *)
LossAppliesToAny(c, x) == ~closing[c] /\ x \in Client /\ ~dead[c] \* faulty variant
LossApplies(c, x) == ~closing[c] /\ client[c] = x /\ ~dead[c]

HandleTransportLoss(c, x) ==
  \/ /\ LossApplies(c, x)
     /\ dead' = [dead EXCEPT ![c] = TRUE]
     /\ timer' = [timer EXCEPT ![c] = @ \/ Reschedules(c, TRUE)]
  \/ /\ ~LossApplies(c, x)
     /\ UNCHANGED <<dead, timer>>

(* One delivery of error or close; ssh2 may deliver more for this client.  *)
LossEvent(c, more) ==
  \E x \in events[c] :
    /\ HandleTransportLoss(c, x)
    /\ events' = IF more THEN events ELSE [events EXCEPT ![c] = @ \ {x}]
    /\ UNCHANGED <<connections, closing, connecting, tryVars, client, link, watched, callVars>>

(* The reconnect timer fires: one attempt without retries.                 *)
ReconnectRetriesPlusOne == Retries + 1 \* faulty variant
ReconnectRetries == 0

TimerFires(c) ==
  /\ timer[c]
  /\ timer' = [timer EXCEPT ![c] = FALSE]
  /\ \/ /\ closing[c] \/ ~dead[c]
        /\ UNCHANGED <<tryVars, netVars>>
     \/ /\ ~closing[c] /\ dead[c]
        /\ tries' = [tries EXCEPT ![c] = ReconnectRetries]
        /\ Attempt(c, used[c])
  /\ UNCHANGED <<connections, dead, closing, connecting, callVars>>

(* The catch of the reconnect callback: give up, tell the waiters.  What is*)
(* thrown after "ready", by the write to known_hosts, connectClient catches*)
(* itself (PersistFails).                                                  *)
ReconnectThrows(c) ==
  /\ c \in Throws /\ ~connecting[c] /\ phase[c] \in InFlight \ {"persist"}
  /\ phase' = [phase EXCEPT ![c] = "idle"]
  /\ outcome' = [outcome EXCEPT ![c] = "threw"]
  /\ dead' = [dead EXCEPT ![c] = TRUE]
  /\ link' = [link EXCEPT ![c] = Ended(@)]
  /\ Settle(Waiters(c), "no")
  /\ UNCHANGED <<connections, closing, connecting, timer, tries, used,
                 client, watched, events, callee>>

-----------------------------------------------------------------------------
(* disconnect: the record leaves the map and its client is ended.          *)

Disconnect(c) ==
  /\ c \in connections
  /\ closing' = [closing EXCEPT ![c] = TRUE]
  /\ timer' = [timer EXCEPT ![c] = FALSE]
  /\ connections' = connections \ {c}
  /\ link' = [link EXCEPT ![c] = Ended(@)]
  /\ UNCHANGED <<dead, connecting, tryVars, client, watched, events, callVars>>

(* cancelProfileConnect on the records of one profile: those still         *)
(* connecting are marked and their client is ended.                        *)
CancelConnect(P) ==
  LET S == {c \in P \intersect connections : connecting[c]}
  IN /\ S # {}
     /\ closing' = [c \in Conn |-> closing[c] \/ c \in S]
     /\ link' = [c \in Conn |-> IF c \in S THEN Ended(link[c]) ELSE link[c]]
     /\ UNCHANGED <<connections, dead, connecting, timer, tryVars,
                    client, watched, events, callVars>>

-----------------------------------------------------------------------------
(* ensureAlive(record): answered at once, or queued until the reconnect    *)
(* answers or the wait times out.                                          *)
\* Faulty variant: an attempt in flight is taken for a live transport.
AnswerOptimistic(c) ==
  IF closing[c] THEN "no" ELSE IF ~dead[c] \/ phase[c] \in InFlight THEN "yes" ELSE "wait"
Answer(c) ==
  IF closing[c] THEN "no" ELSE IF ~dead[c] THEN "yes" ELSE "wait"

EnsureAlive(k, c) ==
  /\ call[k] = "idle" /\ c \in connections
  /\ c \in EarlyCalls \/ ~connecting[c]
  /\ callee' = [callee EXCEPT ![k] = c]
  /\ call' = [call EXCEPT ![k] = Answer(c)]
  /\ UNCHANGED <<recVars, tryVars, netVars>>

\* Faulty variant: closing the record also drops the wait's own timer.
WaitTimesOutUnlessClosed(k) ==
  /\ call[k] = "wait" /\ callee[k] \in connections
  /\ call' = [call EXCEPT ![k] = "no"]
  /\ UNCHANGED <<recVars, tryVars, netVars, callee>>

WaitTimesOut(k) ==
  /\ call[k] = "wait"
  /\ call' = [call EXCEPT ![k] = "no"]
  /\ UNCHANGED <<recVars, tryVars, netVars, callee>>

(* The caller is done with the answer and may call again.                  *)
CallReturns(k) ==
  /\ call[k] \in {"yes", "no"}
  /\ call' = [call EXCEPT ![k] = "idle"]
  /\ callee' = [callee EXCEPT ![k] = NoConn]
  /\ UNCHANGED <<recVars, tryVars, netVars>>

-----------------------------------------------------------------------------
RecordStep(c) ==
  \/ Connect(c) \/ SockReady(c) \/ SockFails(c)
  \/ HandshakeReady(c) \/ HandshakeFails(c) \/ SleepEnds(c)
  \/ PersistDone(c) \/ PersistFails(c)
  \/ TransportCloses(c) \/ (\E more \in BOOLEAN : LossEvent(c, more))
  \/ TimerFires(c) \/ ReconnectThrows(c)
  \/ Disconnect(c)

CallStep(k) ==
  \/ \E c \in Conn : EnsureAlive(k, c)
  \/ WaitTimesOut(k) \/ CallReturns(k)

TransportNext ==
  \/ \E c \in Conn : RecordStep(c)
  \/ \E P \in SUBSET Conn : CancelConnect(P)
  \/ \E k \in Caller : CallStep(k)

TransportSpec == TransportInit /\ [][TransportNext]_transportVars

(* What Node and ssh2 guarantee: timers fire, a handshake ends one way or  *)
(* the other (readyTimeout), a storage write settles, events are delivered.*)
TransportFairness ==
  /\ \A c \in Conn :
       /\ WF_transportVars(SockReady(c) \/ SockFails(c))
       /\ WF_transportVars(HandshakeReady(c) \/ HandshakeFails(c))
       /\ WF_transportVars(SleepEnds(c))
       /\ WF_transportVars(PersistDone(c) \/ PersistFails(c))
       /\ WF_transportVars(TimerFires(c))
       /\ WF_transportVars(LossEvent(c, FALSE))
  /\ \A k \in Caller : WF_transportVars(WaitTimesOut(k))

(* The server is reachable often enough: an attempt that is made again and *)
(* again succeeds at last.                                                 *)
ServerComesBack ==
  \A c \in Conn :
    SF_transportVars(SockReady(c)) /\ SF_transportVars(HandshakeReady(c))

FairTransportSpec == TransportSpec /\ TransportFairness

HealingTransportSpec == FairTransportSpec /\ ServerComesBack

-----------------------------------------------------------------------------
(* At most one attempt to establish a record is scheduled or in flight:    *)
(* the timer of scheduleReconnect is never armed while a connectClient     *)
(* runs, so two attempts can never fight over record.client.               *)
SingleAttempt == \A c \in Conn : timer[c] => phase[c] = "idle"

(* A dead record that nobody closed is never forgotten: the next attempt is*)
(* scheduled or running, unless a host-key verdict or an exception stopped *)
(* it on purpose (scheduleReconnect, handleTransportLoss).                 *)
NoLimbo ==
  \A c \in connections :
    dead[c] /\ ~closing[c] /\ outcome[c] \notin {"host-key", "threw"}
      => timer[c] \/ phase[c] \in InFlight

(* A host-key rejection ends all attempts on the record: no retry, no      *)
(* reconnect storm against a re-provisioned or impersonated server; and a  *)
(* closed or cancelled record is never scheduled again.                    *)
StopIsFinal ==
  \A c \in Conn :
    /\ outcome[c] = "host-key" => ~timer[c] /\ phase[c] = "idle" /\ dead[c]
    /\ closing[c] => ~timer[c]

(* Reconnection is tended to exactly as long as it should be: never two    *)
(* attempts, never none while the record waits for one, none after a stop. *)
RecordsTended == SingleAttempt /\ NoLimbo /\ StopIsFinal

(* A record turns dead only when the transport of its current client is    *)
(* gone: a late event of a client it already replaced changes nothing.     *)
OnlyRealLossKills ==
  [][\A c \in Conn :
       ~dead[c] /\ dead'[c] => link[c] = "gone"]_transportVars

(* Connections whose connect has neither the await between "ready" and     *)
(* attachTransportHandlers nor the one between a socket and its Client: no *)
(* jump chain, no repaired banner, a recorded host key.                    *)
Plain == {c \in Conn : c \notin Jumped \union FirstSeen /\ "banner" \notin Fallbacks[c]}

(* A transport that closes under an established plain record is noticed:   *)
(* its event is still to be delivered or the record is already dead.       *)
NoMissedLoss ==
  \A c \in connections \intersect Plain :
    phase[c] = "idle" /\ ~closing[c] /\ link[c] = "gone"
      => dead[c] \/ client[c] \in events[c]

(* After disconnect or cancel no transport of the record comes up again.   *)
StaysDown(c) == closing[c] /\ link[c] # "up" => link'[c] # "up"
ClosingNeverComesUp == [][\A c \in Plain : StaysDown(c)]_transportVars

(* The same of every record, as the comment in disconnect has it: stop any *)
(* in-flight reconnect.                                                    *)
DisconnectIsFinal == [][\A c \in Conn : StaysDown(c)]_transportVars

(* A plain record outside the map holds no open transport once its         *)
(* connectClient has returned: nothing is left that nobody could close.    *)
NoLeakedTransport ==
  \A c \in Plain \ connections :
    phase[c] = "idle" => link[c] \notin {"hand", "up"}

(* A transport and its record agree once nothing is under way: no loss is  *)
(* overlooked in the map, no open transport is left outside it.            *)
LossesNoticed == NoMissedLoss /\ NoLeakedTransport

(* What ensureAlive answers is so for a plain record nobody calls early:   *)
(* yes only if it is alive and not closing, no only if it was explicitly   *)
(* closed or is still down, however the reconnect and the wait's own       *)
(* timeout race.                                                           *)
AnswersAreTrue ==
  [][\A k \in Caller : call'[k] # call[k] /\ callee'[k] \in Plain \ EarlyCalls =>
       LET c == callee'[k]
       IN /\ call'[k] = "yes" => ~dead'[c] /\ ~closing'[c]
          /\ call'[k] = "no" => dead'[c] \/ closing'[c]]_transportVars

(* What the other parts of the plugin see of a record.                     *)
statusBar ==
  [c \in Conn |->
     IF phase[c] = "fresh" THEN "new"
     ELSE IF closing[c] \/ c \notin connections THEN "closed"
     ELSE IF ~dead[c] THEN "up"
     ELSE IF connecting[c] THEN "connecting" ELSE "down"]

(* Every step on a record is a legal step of its lifecycle: a failed first *)
(* connect never leaves a record behind, a closed record never returns, and*)
(* only an established one heals by itself.                                *)
Lifecycle == INSTANCE ConnLifecycle WITH status <- statusBar
ImplementsLifecycle == Lifecycle!LifecycleSpec

(* Every ensureAlive call is answered, also on a record that is closed     *)
(* while the call waits.                                                   *)
EveryCallAnswered ==
  \A k \in Caller : call[k] = "wait" ~> call[k] # "wait"

(* A dropped record heals by itself once its server is reachable again,    *)
(* unless it is closed or stopped on purpose.                              *)
SelfHeals ==
  \A c \in Conn :
    (c \in connections /\ dead[c] /\ ~connecting[c])
      ~> (~dead[c] \/ closing[c] \/ outcome[c] \in {"host-key", "threw"})
=============================================================================
