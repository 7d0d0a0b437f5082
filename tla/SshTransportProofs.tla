------------------------- MODULE SshTransportProofs -------------------------
(***************************************************************************)
(* Proofs about SshTransport, for any number of connections, clients and   *)
(* callers.  TransportInv is the inductive strengthening of the properties *)
(* that hold in every environment; KnownInv the one of those that need     *)
(* recorded host keys and sockets opened by ssh2 itself.                   *)
(***************************************************************************)
EXTENDS SshTransport, TLAPS

-----------------------------------------------------------------------------
(* Type correctness.                                                       *)

LEMMA EndedType == \A l \in Links : Ended(l) \in Links
BY DEF Ended, Links

(* The helpers' assignments, each in the type of its variable.             *)
LEMMA SettleType ==
  ASSUME TransportTypeOK, NEW K, NEW answer \in CallStates, Settle(K, answer)
  PROVE  call' \in [Caller -> CallStates]
BY DEF TransportTypeOK, Settle

LEMMA AttemptType ==
  ASSUME TransportTypeOK, NEW c \in Conn, NEW u \in SUBSET AllFallbacks, Attempt(c, u)
  PROVE  /\ phase' \in [Conn -> Phases] /\ used' \in [Conn -> SUBSET AllFallbacks]
         /\ outcome' \in [Conn -> Outcomes] /\ link' \in [Conn -> Links]
         /\ client' \in [Conn -> Client \union {NoClient}]
         /\ watched' \in [Conn -> BOOLEAN] /\ events' \in [Conn -> SUBSET Client]
<1>1. used' \in [Conn -> SUBSET AllFallbacks]
  BY DEF Attempt, TransportTypeOK
<1>2. CASE NeedsSock(c, u)
  BY <1>1, <1>2, EndedType DEF Attempt, TransportTypeOK, Phases
<1>3. CASE ~NeedsSock(c, u)
  <2>1. PICK x \in Client :
          /\ client' = [client EXCEPT ![c] = x]
          /\ link' = [link EXCEPT ![c] = "hand"]
          /\ watched' = [watched EXCEPT ![c] = FALSE]
          /\ phase' = [phase EXCEPT ![c] = "hand"]
    BY <1>3 DEF Attempt, NewClient
  <2>2. QED
    BY <1>1, <2>1 DEF Attempt, TransportTypeOK, Phases, Links
<1>4. QED
  BY <1>2, <1>3

LEMMA ReturnErrorType ==
  ASSUME TransportTypeOK, NEW c \in Conn, NEW code \in Outcomes, ReturnError(c, code)
  PROVE  /\ connections' \subseteq Conn /\ dead' = dead /\ closing' = closing
         /\ connecting' \in [Conn -> BOOLEAN] /\ timer' \in [Conn -> BOOLEAN]
         /\ phase' \in [Conn -> Phases] /\ outcome' \in [Conn -> Outcomes]
         /\ call' \in [Caller -> CallStates] /\ callee' = callee
<1>1. call' \in [Caller -> CallStates]
  <2>1. CASE Settle(Waiters(c), "no")
    BY <2>1, SettleType DEF CallStates
  <2>2. CASE UNCHANGED call
    BY <2>2 DEF TransportTypeOK
  <2>3. QED
    BY <2>1, <2>2 DEF ReturnError, DeleteFailed
<1>2. timer' \in [Conn -> BOOLEAN]
  BY DEF ReturnError, DeleteFailed, TransportTypeOK, Reschedules
<1>3. QED
  BY <1>1, <1>2 DEF ReturnError, DeleteFailed, TransportTypeOK, Phases

LEMMA ReturnOkType ==
  ASSUME TransportTypeOK, NEW c \in Conn, ReturnOk(c)
  PROVE  /\ connecting' \in [Conn -> BOOLEAN] /\ phase' \in [Conn -> Phases]
         /\ outcome' \in [Conn -> Outcomes] /\ watched' \in [Conn -> BOOLEAN]
         /\ call' \in [Caller -> CallStates]
         /\ UNCHANGED <<connections, closing, timer, tries, used, client, events, callee>>
<1>1. call' \in [Caller -> CallStates]
  <2>1. CASE connecting[c]
    BY <2>1 DEF ReturnOk, WakeWaiters, TransportTypeOK
  <2>2. CASE ~connecting[c]
    BY <2>2, SettleType DEF ReturnOk, WakeWaiters, CallStates
  <2>3. QED
    BY <2>1, <2>2
<1>2. QED
  BY <1>1 DEF ReturnOk, AttachTransportHandlers, TransportTypeOK, Phases, Outcomes

(* A transport that is not closed belongs to a client.                     *)
LinkHasClient ==
  \A c \in Conn : link[c] \in {"hand", "up", "ending"} => client[c] \in Client

LEMMA AttemptLinks ==
  ASSUME TransportTypeOK, LinkHasClient, NEW c \in Conn, NEW u, Attempt(c, u)
  PROVE  LinkHasClient'
<1>1. CASE NeedsSock(c, u)
  BY <1>1 DEF Attempt, TransportTypeOK, LinkHasClient, Ended
<1>2. CASE ~NeedsSock(c, u)
  BY <1>2 DEF Attempt, NewClient, TransportTypeOK, LinkHasClient
<1>3. QED
  BY <1>1, <1>2

LEMMA LinkHasClientStep ==
  TransportTypeOK /\ LinkHasClient /\ [TransportNext]_transportVars => LinkHasClient'
<1> SUFFICES ASSUME TransportTypeOK, LinkHasClient, [TransportNext]_transportVars
             PROVE  LinkHasClient'
  OBVIOUS
<1> USE DEF recVars, tryVars, netVars, callVars
<1>1. ASSUME NEW c \in Conn, Connect(c) \/ TimerFires(c) \/ SleepEnds(c) PROVE LinkHasClient'
  <2>1. CASE \E u : Attempt(c, u)
    BY <2>1, AttemptLinks
  <2>2. CASE UNCHANGED <<client, link>>
    BY <2>2 DEF LinkHasClient
  <2>3. QED
    BY <1>1, <2>1, <2>2 DEF Connect, TimerFires, SleepEnds
<1>2. ASSUME NEW c \in Conn, SockReady(c) PROVE LinkHasClient'
  BY <1>2 DEF SockReady, NewClient, TransportTypeOK, LinkHasClient
<1>3. ASSUME NEW c \in Conn, HandshakeReady(c) PROVE LinkHasClient'
  BY <1>3 DEF HandshakeReady, ReturnOk, TransportTypeOK, LinkHasClient
<1>4. ASSUME NEW c \in Conn, HandshakeFails(c) PROVE LinkHasClient'
  <2>1. CASE \E u : Attempt(c, u)
    BY <2>1, AttemptLinks
  <2>2. CASE link' = [link EXCEPT ![c] = "gone"] /\ UNCHANGED client
    BY <2>2 DEF TransportTypeOK, LinkHasClient
  <2>3. QED
    BY <1>4, <2>1, <2>2 DEF HandshakeFails
<1>5. ASSUME NEW c \in Conn, SockFails(c) \/ PersistFails(c) \/ PersistDone(c) PROVE LinkHasClient'
  BY <1>5 DEF SockFails, PersistFails, PersistDone, ReturnOk, LinkHasClient
<1>6. ASSUME NEW c \in Conn, TransportCloses(c) PROVE LinkHasClient'
  BY <1>6 DEF TransportCloses, TransportTypeOK, LinkHasClient
<1>7. ASSUME NEW c \in Conn, ReconnectThrows(c) \/ Disconnect(c) PROVE LinkHasClient'
  BY <1>7 DEF ReconnectThrows, Disconnect, TransportTypeOK, LinkHasClient, Ended
<1>8. ASSUME NEW P \in SUBSET Conn, CancelConnect(P) PROVE LinkHasClient'
  BY <1>8 DEF CancelConnect, TransportTypeOK, LinkHasClient, Ended
<1>9. ASSUME NEW c \in Conn, NEW more \in BOOLEAN, LossEvent(c, more) PROVE LinkHasClient'
  BY <1>9 DEF LossEvent, LinkHasClient
<1>10. ASSUME NEW k \in Caller, CallStep(k) PROVE LinkHasClient'
  BY <1>10 DEF CallStep, EnsureAlive, WaitTimesOut, CallReturns, LinkHasClient
<1>11. CASE UNCHANGED transportVars
  BY <1>11 DEF transportVars, LinkHasClient
<1>12. QED
  BY <1>1, <1>2, <1>3, <1>4, <1>5, <1>6, <1>7, <1>8, <1>9, <1>10, <1>11
  DEF TransportNext, RecordStep

LEMMA TransportTypeStep ==
  TransportTypeOK /\ LinkHasClient /\ [TransportNext]_transportVars => TransportTypeOK'
<1> SUFFICES ASSUME TransportTypeOK, LinkHasClient, [TransportNext]_transportVars
             PROVE  TransportTypeOK'
  OBVIOUS
<1> USE TransportAssumption DEF recVars, tryVars, netVars, callVars
<1>1. ASSUME NEW c \in Conn, Connect(c) PROVE TransportTypeOK'
  <2>1. PICK u \in SUBSET (Fallbacks[c] \intersect {"legacy"}) : Attempt(c, u)
    BY <1>1 DEF Connect
  <2>2. u \in SUBSET AllFallbacks
    BY <2>1
  <2>3. QED
    BY <1>1, <2>1, <2>2, AttemptType DEF Connect, TransportTypeOK
<1>2. ASSUME NEW c \in Conn, SockReady(c) PROVE TransportTypeOK'
  BY <1>2 DEF SockReady, NewClient, TransportTypeOK, Phases, Links
<1>3. ASSUME NEW c \in Conn, SockFails(c) PROVE TransportTypeOK'
  <2>1. CASE \E code \in {"failed", "host-key"} :
               ReturnError(c, code) /\ UNCHANGED tries
    BY <1>3, <2>1, ReturnErrorType DEF SockFails, TransportTypeOK, Outcomes
  <2>2. CASE /\ tries[c] > 0
             /\ tries' = [tries EXCEPT ![c] = @ - 1]
             /\ phase' = [phase EXCEPT ![c] = "sleep"]
             /\ UNCHANGED <<recVars, outcome, callVars>>
    BY <1>3, <2>2 DEF SockFails, TransportTypeOK, Phases
  <2>3. QED
    BY <1>3, <2>1, <2>2 DEF SockFails
<1>4. ASSUME NEW c \in Conn, HandshakeReady(c) PROVE TransportTypeOK'
  <2>1. /\ link' \in [Conn -> Links] /\ dead' \in [Conn -> BOOLEAN]
    BY <1>4 DEF HandshakeReady, TransportTypeOK, Links
  <2>2. CASE ReturnOk(c)
    BY <2>1, <2>2, ReturnOkType DEF TransportTypeOK
  <2>3. CASE ~ReturnOk(c)
    BY <1>4, <2>1, <2>3 DEF HandshakeReady, TransportTypeOK, Phases
  <2>4. QED
    BY <2>2, <2>3
<1>5. ASSUME NEW c \in Conn, HandshakeFails(c) PROVE TransportTypeOK'
  <2>1. CASE \E code \in {"failed", "host-key"} :
               /\ ReturnError(c, code)
               /\ link' = [link EXCEPT ![c] = "gone"]
               /\ UNCHANGED <<tries, used, client, watched, events>>
    BY <2>1, ReturnErrorType DEF TransportTypeOK, Outcomes, Links
  <2>2. CASE /\ \E f \in Fallbacks[c] \ used[c] : Attempt(c, used[c] \union {f})
             /\ tries' = [tries EXCEPT ![c] = IF @ = 0 THEN 0 ELSE @ - 1]
             /\ UNCHANGED <<recVars, callVars>>
    <3>1. PICK f \in Fallbacks[c] \ used[c] : Attempt(c, used[c] \union {f})
      BY <2>2
    <3>2. used[c] \union {f} \in SUBSET AllFallbacks
      BY <3>1 DEF TransportTypeOK
    <3>3. tries' \in [Conn -> 0 .. Retries]
      BY <2>2 DEF TransportTypeOK
    <3>4. QED
      BY <2>2, <3>1, <3>2, <3>3, AttemptType DEF TransportTypeOK
  <2>3. CASE /\ ~closing[c] /\ tries[c] > 0
             /\ tries' = [tries EXCEPT ![c] = @ - 1]
             /\ phase' = [phase EXCEPT ![c] = "sleep"]
             /\ link' = [link EXCEPT ![c] = "gone"]
             /\ UNCHANGED <<recVars, used, outcome, client, watched, events, callVars>>
    BY <2>3 DEF TransportTypeOK, Phases, Links
  <2>4. QED
    BY <1>5, <2>1, <2>2, <2>3 DEF HandshakeFails
<1>6. ASSUME NEW c \in Conn, SleepEnds(c) PROVE TransportTypeOK'
  <2>1. CASE CancelledAtTop(c)
    BY <1>6, <2>1, ReturnErrorType DEF SleepEnds, TransportTypeOK, Outcomes
  <2>2. CASE ~CancelledAtTop(c)
    <3>1. used[c] \in SUBSET AllFallbacks
      BY DEF TransportTypeOK
    <3>2. QED
      BY <1>6, <2>2, <3>1, AttemptType DEF SleepEnds, TransportTypeOK
  <2>3. QED
    BY <2>1, <2>2
<1>7. ASSUME NEW c \in Conn, PersistDone(c) PROVE TransportTypeOK'
  BY <1>7, ReturnOkType DEF PersistDone, TransportTypeOK
<1>8. ASSUME NEW c \in Conn, PersistFails(c) PROVE TransportTypeOK'
  BY <1>8, ReturnErrorType DEF PersistFails, TransportTypeOK, Outcomes
<1>9. ASSUME NEW c \in Conn, TransportCloses(c) PROVE TransportTypeOK'
  <2>1. events' \in [Conn -> SUBSET Client]
    <3>1. client[c] \in Client
      BY <1>9 DEF TransportCloses, LinkHasClient
    <3>2. QED
      BY <1>9, <3>1 DEF TransportCloses, EventsOnClose, TransportTypeOK
  <2>2. QED
    BY <1>9, <2>1 DEF TransportCloses, TransportTypeOK, Links
<1>10. ASSUME NEW c \in Conn, NEW more \in BOOLEAN, LossEvent(c, more) PROVE TransportTypeOK'
  <2>1. PICK x \in events[c] :
          /\ HandleTransportLoss(c, x)
          /\ events' = IF more THEN events ELSE [events EXCEPT ![c] = @ \ {x}]
    BY <1>10 DEF LossEvent
  <2>2. dead' \in [Conn -> BOOLEAN] /\ timer' \in [Conn -> BOOLEAN]
    BY <2>1 DEF HandleTransportLoss, Reschedules, TransportTypeOK
  <2>3. events' \in [Conn -> SUBSET Client]
    BY <2>1 DEF TransportTypeOK
  <2>4. QED
    BY <1>10, <2>2, <2>3 DEF LossEvent, TransportTypeOK
<1>11. ASSUME NEW c \in Conn, TimerFires(c) PROVE TransportTypeOK'
  <2>1. timer' \in [Conn -> BOOLEAN]
    BY <1>11 DEF TimerFires, TransportTypeOK
  <2>2. CASE closing[c] \/ ~dead[c]
    BY <1>11, <2>1, <2>2 DEF TimerFires, TransportTypeOK
  <2>3. CASE ~closing[c] /\ dead[c]
    <3>1. used[c] \in SUBSET AllFallbacks
      BY DEF TransportTypeOK
    <3>2. tries' \in [Conn -> 0 .. Retries] /\ Attempt(c, used[c])
      BY <1>11, <2>3 DEF TimerFires, TransportTypeOK, ReconnectRetries
    <3>3. QED
      BY <1>11, <2>1, <3>1, <3>2, AttemptType DEF TimerFires, TransportTypeOK
  <2>4. QED
    BY <2>2, <2>3
<1>12. ASSUME NEW c \in Conn, ReconnectThrows(c) PROVE TransportTypeOK'
  <2>1. call' \in [Caller -> CallStates]
    BY <1>12, SettleType DEF ReconnectThrows, CallStates
  <2>2. QED
    BY <1>12, <2>1, EndedType DEF ReconnectThrows, TransportTypeOK, Phases, Outcomes
<1>13. ASSUME NEW c \in Conn, Disconnect(c) PROVE TransportTypeOK'
  BY <1>13, EndedType DEF Disconnect, TransportTypeOK
<1>14. ASSUME NEW P \in SUBSET Conn, CancelConnect(P) PROVE TransportTypeOK'
  BY <1>14, EndedType DEF CancelConnect, TransportTypeOK
<1>15. ASSUME NEW k \in Caller, CallStep(k) PROVE TransportTypeOK'
  BY <1>15 DEF CallStep, EnsureAlive, Answer, WaitTimesOut, CallReturns, TransportTypeOK, CallStates
<1>16. CASE UNCHANGED transportVars
  BY <1>16 DEF transportVars, TransportTypeOK
<1>17. QED
  BY <1>1, <1>2, <1>3, <1>4, <1>5, <1>6, <1>7, <1>8, <1>9, <1>10, <1>11,
     <1>12, <1>13, <1>14, <1>15, <1>16 DEF TransportNext, RecordStep

LEMMA TransportTypeInit == TransportInit => TransportTypeOK /\ LinkHasClient
BY TransportAssumption
DEF TransportInit, TransportTypeOK, LinkHasClient, Phases, Links, Outcomes, CallStates

(* Every step of every handler keeps the record's fields in their types:   *)
(* the retry budget of connectClient never leaves 0 .. Retries.            *)
THEOREM TransportTypeCorrect == TransportSpec => []TransportTypeOK
BY TransportTypeInit, TransportTypeStep, LinkHasClientStep, PTL DEF TransportSpec

-----------------------------------------------------------------------------
(* The inductive invariant of the reconnect machinery.  Its parts say, for *)
(* one record: an armed timer means a dead, open record with no attempt in *)
(* flight; an attempt that has not reached "ready" is on a dead record and *)
(* one that has is on a live one; the first connect is in flight while     *)
(* connecting is set; the client of an attempt in flight has no loss       *)
(* handlers yet; a pending event of the current client means its transport *)
(* is gone; a stopped record is at rest; and a dead open record is         *)
(* scheduled, in flight or stopped.                                        *)
TimerArmed(c)   == timer[c] => phase[c] = "idle" /\ dead[c] /\ ~closing[c]
NotReadyDead(c) == phase[c] \in {"fresh", "sock", "hand", "sleep"} => dead[c]
ReadyAlive(c)   == phase[c] = "persist" => ~dead[c]
FirstInFlight(c) == connecting[c] => phase[c] \in InFlight
FreshUnknown(c) == phase[c] = "fresh" => c \notin connections /\ ~closing[c]
AttemptUnwatched(c) == phase[c] \in {"hand", "persist"} => ~watched[c]
PendingIsGone(c) == client[c] \in events[c] => watched[c] /\ link[c] = "gone"
StoppedAtRest(c) ==
  outcome[c] \in {"host-key", "threw"} => ~timer[c] /\ phase[c] = "idle" /\ dead[c]
DeadIsTended(c) ==
  /\ c \in connections /\ dead[c] /\ ~closing[c]
  /\ outcome[c] \notin {"host-key", "threw"}
  => timer[c] \/ phase[c] \in InFlight

RecordInv(c) ==
  /\ TimerArmed(c) /\ NotReadyDead(c) /\ ReadyAlive(c) /\ FirstInFlight(c) /\ FreshUnknown(c)
  /\ AttemptUnwatched(c) /\ PendingIsGone(c) /\ StoppedAtRest(c) /\ DeadIsTended(c)

TransportInv == \A c \in Conn : RecordInv(c)

LEMMA TransportInvInit == TransportInit => TransportInv
BY TransportAssumption
DEF TransportInit, TransportInv, RecordInv, TimerArmed, NotReadyDead, ReadyAlive, FirstInFlight,
    FreshUnknown, AttemptUnwatched, PendingIsGone, StoppedAtRest, DeadIsTended, InFlight

(* A record that a step does not touch keeps its invariant.                *)
LEMMA UntouchedRecord ==
  ASSUME NEW d \in Conn, RecordInv(d),
         d \in connections' <=> d \in connections,
         dead'[d] = dead[d], closing'[d] = closing[d], connecting'[d] = connecting[d],
         timer'[d] = timer[d], phase'[d] = phase[d], outcome'[d] = outcome[d],
         client'[d] = client[d], link'[d] = link[d], watched'[d] = watched[d],
         events'[d] = events[d]
  PROVE  RecordInv(d)'
BY DEF RecordInv, TimerArmed, NotReadyDead, ReadyAlive, FirstInFlight, FreshUnknown,
       AttemptUnwatched, PendingIsGone, StoppedAtRest, DeadIsTended

(* A step on one record leaves every field of the others alone.            *)
LEMMA RecordStepIsLocal ==
  ASSUME TransportTypeOK, NEW c \in Conn, NEW d \in Conn, c # d, RecordStep(c)
  PROVE  /\ d \in connections' <=> d \in connections
         /\ dead'[d] = dead[d] /\ closing'[d] = closing[d]
         /\ connecting'[d] = connecting[d] /\ timer'[d] = timer[d]
         /\ phase'[d] = phase[d] /\ used'[d] = used[d] /\ outcome'[d] = outcome[d]
         /\ client'[d] = client[d] /\ link'[d] = link[d]
         /\ watched'[d] = watched[d] /\ events'[d] = events[d]
<1> USE DEF TransportTypeOK, recVars, tryVars, netVars, callVars
<1>1. CASE Connect(c) \/ SockReady(c) \/ TimerFires(c)
  BY <1>1 DEF Connect, SockReady, TimerFires, Attempt, NewClient
<1>2. CASE SockFails(c) \/ PersistFails(c)
  BY <1>2 DEF SockFails, PersistFails, ReturnError, DeleteFailed
<1>3. CASE HandshakeReady(c) \/ PersistDone(c)
  BY <1>3 DEF HandshakeReady, PersistDone, ReturnOk, AttachTransportHandlers
<1>4. CASE HandshakeFails(c)
  BY <1>4 DEF HandshakeFails, Attempt, NewClient, ReturnError, DeleteFailed
<1>5. CASE SleepEnds(c)
  BY <1>5 DEF SleepEnds, Attempt, NewClient, ReturnError, DeleteFailed
<1>6. CASE TransportCloses(c) \/ \E more \in BOOLEAN : LossEvent(c, more)
  BY <1>6 DEF TransportCloses, EventsOnClose, LossEvent, HandleTransportLoss
<1>7. CASE ReconnectThrows(c) \/ Disconnect(c)
  BY <1>7 DEF ReconnectThrows, Disconnect
<1>8. QED
  BY <1>1, <1>2, <1>3, <1>4, <1>5, <1>6, <1>7 DEF RecordStep

LEMMA TransportInvStep ==
  TransportTypeOK /\ TransportInv /\ [TransportNext]_transportVars => TransportInv'
<1> SUFFICES ASSUME TransportTypeOK, TransportInv, [TransportNext]_transportVars,
                    NEW d \in Conn
             PROVE  RecordInv(d)'
  BY DEF TransportInv
<1>0. RecordInv(d)
  BY DEF TransportInv
<1> USE DEF recVars, tryVars, netVars, callVars
<1>1. ASSUME NEW c \in Conn, c # d, RecordStep(c) PROVE RecordInv(d)'
  BY <1>0, <1>1, RecordStepIsLocal, UntouchedRecord
<1> USE DEF RecordInv, TimerArmed, NotReadyDead, ReadyAlive, FirstInFlight, FreshUnknown,
            AttemptUnwatched, PendingIsGone, StoppedAtRest, DeadIsTended, InFlight
<1>2. CASE Connect(d)
  BY <1>0, <1>2 DEF Connect, Attempt, NewClient, TransportTypeOK, Ended
<1>3. CASE SockReady(d)
  BY <1>0, <1>3 DEF SockReady, NewClient, TransportTypeOK
<1>4. CASE SockFails(d)
  BY <1>0, <1>4 DEF SockFails, ReturnError, DeleteFailed, StopsReconnect, Reschedules, TransportTypeOK
<1>5. CASE HandshakeReady(d)
  BY <1>0, <1>5 DEF HandshakeReady, ReturnOk, AttachTransportHandlers, TransportTypeOK
<1>6. CASE HandshakeFails(d)
  <2>1. CASE \E code \in {"failed", "host-key"} :
               /\ ReturnError(d, code)
               /\ link' = [link EXCEPT ![d] = "gone"]
               /\ UNCHANGED <<tries, used, client, watched, events>>
    BY <1>0, <1>6, <2>1
    DEF HandshakeFails, ReturnError, DeleteFailed, StopsReconnect, Reschedules, TransportTypeOK
  <2>2. CASE (\E u : Attempt(d, u)) /\ UNCHANGED <<recVars, callVars>>
    BY <1>0, <1>6, <2>2 DEF HandshakeFails, Attempt, NewClient, Ended, TransportTypeOK
  <2>3. CASE /\ phase' = [phase EXCEPT ![d] = "sleep"]
             /\ link' = [link EXCEPT ![d] = "gone"]
             /\ UNCHANGED <<recVars, used, outcome, client, watched, events, callVars>>
    BY <1>0, <1>6, <2>3 DEF HandshakeFails, TransportTypeOK
  <2>4. QED
    BY <1>6, <2>1, <2>2, <2>3 DEF HandshakeFails
<1>7. CASE SleepEnds(d)
  <2>1. CASE CancelledAtTop(d)
    BY <1>0, <1>7, <2>1
    DEF SleepEnds, CancelledAtTop, ReturnError, DeleteFailed, StopsReconnect, Reschedules, TransportTypeOK
  <2>2. CASE ~CancelledAtTop(d)
    BY <1>0, <1>7, <2>2 DEF SleepEnds, Attempt, NewClient, Ended, TransportTypeOK
  <2>3. QED
    BY <2>1, <2>2
<1>8. CASE PersistDone(d)
  BY <1>0, <1>8 DEF PersistDone, ReturnOk, AttachTransportHandlers, TransportTypeOK
<1>9. CASE PersistFails(d)
  BY <1>0, <1>9 DEF PersistFails, ReturnError, DeleteFailed, StopsReconnect, Reschedules, TransportTypeOK
<1>10. CASE TransportCloses(d)
  BY <1>0, <1>10 DEF TransportCloses, EventsOnClose, TransportTypeOK
<1>11. ASSUME NEW more \in BOOLEAN, LossEvent(d, more) PROVE RecordInv(d)'
  BY <1>0, <1>11 DEF LossEvent, HandleTransportLoss, LossApplies, Reschedules, TransportTypeOK, Phases
<1>12. CASE TimerFires(d)
  BY <1>0, <1>12 DEF TimerFires, Attempt, NewClient, Ended, TransportTypeOK
<1>13. CASE ReconnectThrows(d)
  BY <1>0, <1>13 DEF ReconnectThrows, Ended, TransportTypeOK
<1>14. CASE Disconnect(d)
  BY <1>0, <1>14 DEF Disconnect, Ended, TransportTypeOK
<1>15. ASSUME NEW P \in SUBSET Conn, CancelConnect(P) PROVE RecordInv(d)'
  BY <1>0, <1>15 DEF CancelConnect, Ended, TransportTypeOK
<1>16. ASSUME NEW k \in Caller, CallStep(k) PROVE RecordInv(d)'
  BY <1>0, <1>16 DEF CallStep, EnsureAlive, WaitTimesOut, CallReturns
<1>17. CASE UNCHANGED transportVars
  BY <1>0, <1>17 DEF transportVars
<1>18. QED
  BY <1>1, <1>2, <1>3, <1>4, <1>5, <1>6, <1>7, <1>8, <1>9, <1>10, <1>11, <1>12,
     <1>13, <1>14, <1>15, <1>16, <1>17 DEF TransportNext, RecordStep

THEOREM TransportInvariant == TransportSpec => [](TransportTypeOK /\ TransportInv)
BY TransportTypeCorrect, TransportInvInit, TransportInvStep, PTL DEF TransportSpec

(* The scheduler never arms its timer while an attempt is in flight, for   *)
(* any number of connections, whatever the environment does.               *)
THEOREM AttemptsNeverOverlap == TransportSpec => []SingleAttempt
<1>1. TransportInv => SingleAttempt
  BY DEF TransportInv, RecordInv, TimerArmed, SingleAttempt
<1>2. QED
  BY <1>1, TransportInvariant, PTL

(* A dead open record always has its next attempt scheduled or running.    *)
THEOREM DeadRecordsAreTended == TransportSpec => []NoLimbo
<1>1. TransportTypeOK /\ TransportInv => NoLimbo
  BY DEF TransportTypeOK, TransportInv, RecordInv, DeadIsTended, NoLimbo
<1>2. QED
  BY <1>1, TransportInvariant, PTL

(* A host-key verdict stops the record for good, and a closed record is    *)
(* never scheduled.                                                        *)
THEOREM StopsAreFinal == TransportSpec => []StopIsFinal
<1>1. TransportInv => StopIsFinal
  BY DEF TransportInv, RecordInv, StoppedAtRest, TimerArmed, StopIsFinal
<1>2. QED
  BY <1>1, TransportInvariant, PTL

(* Every record in need of a reconnect has exactly one under way, and one  *)
(* that was stopped has none.                                              *)
THEOREM ReconnectsAreTended == TransportSpec => []RecordsTended
BY AttemptsNeverOverlap, DeadRecordsAreTended, StopsAreFinal, PTL DEF RecordsTended

(* Only the loss of the transport in use kills a record: the events of a   *)
(* client that a reconnect replaced are ignored.                           *)
THEOREM StaleEventsAreHarmless == TransportSpec => OnlyRealLossKills
<1>1. /\ TransportTypeOK /\ TransportInv /\ [TransportNext]_transportVars
      => [\A c \in Conn : ~dead[c] /\ dead'[c]
             => link[c] = "gone"]_transportVars
  <2> SUFFICES ASSUME TransportTypeOK, TransportInv, TransportNext,
                      NEW d \in Conn, ~dead[d], dead'[d]
               PROVE  link[d] = "gone"
    OBVIOUS
  <2> USE DEF TransportTypeOK, recVars
  <2>1. ASSUME NEW c \in Conn, NEW more \in BOOLEAN, LossEvent(c, more)
        PROVE  link[d] = "gone"
    <3>1. PICK x \in events[c] : HandleTransportLoss(c, x)
      BY <2>1 DEF LossEvent
    <3>2. c = d /\ client[d] \in events[d]
      BY <3>1 DEF HandleTransportLoss, LossApplies
    <3>3. QED
      BY <3>2 DEF TransportInv, RecordInv, PendingIsGone
  <2>2. ASSUME NEW c \in Conn, ReconnectThrows(c) PROVE FALSE
    BY <2>2 DEF ReconnectThrows, InFlight, TransportInv, RecordInv, NotReadyDead
  <2>3. ASSUME NEW c \in Conn,
               \/ Connect(c) \/ SockReady(c) \/ SockFails(c)
               \/ HandshakeReady(c) \/ HandshakeFails(c) \/ SleepEnds(c)
               \/ PersistDone(c) \/ PersistFails(c) \/ TransportCloses(c)
               \/ TimerFires(c) \/ Disconnect(c)
        PROVE  FALSE
    BY <2>3 DEF Connect, SockReady, SockFails, HandshakeReady, HandshakeFails, SleepEnds,
         PersistDone, PersistFails, TransportCloses, TimerFires, Disconnect, ReturnError
  <2>4. ASSUME NEW P \in SUBSET Conn, CancelConnect(P) PROVE FALSE
    BY <2>4 DEF CancelConnect
  <2>5. ASSUME NEW k \in Caller, CallStep(k) PROVE FALSE
    BY <2>5 DEF CallStep, EnsureAlive, WaitTimesOut, CallReturns
  <2>6. QED
    BY <2>1, <2>2, <2>3, <2>4, <2>5 DEF TransportNext, RecordStep
<1>2. QED
  BY <1>1, TransportInvariant, PTL DEF TransportSpec, OnlyRealLossKills
-----------------------------------------------------------------------------
(* The inductive invariant of plain records: which transports each phase   *)
(* can see, and that a live record at rest is watched and its loss is      *)
(* still to come.                                                          *)
NoWindow(c)    == phase[c] \notin {"sock", "persist"} /\ "banner" \notin used[c]
HandLink(c)    == phase[c] = "hand" => link[c] \in {"hand", "gone"}
HandClosing(c) == phase[c] = "hand" /\ closing[c] => link[c] = "gone"
SleepLink(c)   == phase[c] = "sleep" => link[c] = "gone"
FlightListed(c) == phase[c] \in {"hand", "sleep"} => c \in connections \/ closing[c]
RestLink(c)    == phase[c] = "idle" => link[c] \in {"up", "ending", "gone"}
RestUp(c)      == phase[c] = "idle" /\ link[c] = "up" => c \in connections /\ ~closing[c]
RestListed(c) ==
  phase[c] = "idle" /\ ~closing[c] /\ (~dead[c] \/ timer[c]) => c \in connections
EndingClosed(c) == link[c] = "ending" => closing[c]
RestWatched(c) == phase[c] = "idle" /\ ~dead[c] => watched[c]
LossPending(c) ==
  phase[c] = "idle" /\ ~dead[c] /\ ~closing[c] /\ link[c] = "gone" => client[c] \in events[c]

RecordKnown(c) ==
  /\ NoWindow(c) /\ HandLink(c) /\ HandClosing(c) /\ SleepLink(c)
  /\ FlightListed(c) /\ RestLink(c) /\ RestUp(c) /\ RestListed(c) /\ EndingClosed(c)
  /\ RestWatched(c) /\ LossPending(c)

KnownInv == \A c \in Plain : RecordKnown(c)

LEMMA KnownInvInit == TransportInit => KnownInv
BY DEF TransportInit, KnownInv, Plain, RecordKnown, NoWindow, HandLink, HandClosing,
       SleepLink, FlightListed, RestLink, RestUp, RestListed, EndingClosed, RestWatched, LossPending

LEMMA UntouchedKnown ==
  ASSUME NEW d \in Conn, RecordKnown(d),
         d \in connections' <=> d \in connections,
         dead'[d] = dead[d], closing'[d] = closing[d], timer'[d] = timer[d],
         phase'[d] = phase[d], used'[d] = used[d],
         client'[d] = client[d], link'[d] = link[d], watched'[d] = watched[d],
         events'[d] = events[d]
  PROVE  RecordKnown(d)'
BY DEF RecordKnown, NoWindow, HandLink, HandClosing,
       SleepLink, FlightListed, RestLink, RestUp, RestListed, EndingClosed, RestWatched, LossPending

LEMMA KnownInvStep ==
  ASSUME TransportTypeOK, TransportInv, KnownInv,
         [TransportNext]_transportVars
  PROVE  KnownInv'
<1> SUFFICES ASSUME NEW d \in Plain PROVE RecordKnown(d)'
  BY DEF KnownInv
<1> d \in Conn
  BY DEF Plain
<1>0. RecordKnown(d) /\ RecordInv(d)
  BY DEF KnownInv, TransportInv
<1> USE DEF recVars, tryVars, netVars, callVars
<1>1. ASSUME NEW c \in Conn, c # d, RecordStep(c) PROVE RecordKnown(d)'
  BY <1>0, <1>1, RecordStepIsLocal, UntouchedKnown
<1> USE DEF Plain, RecordKnown, NoWindow, HandLink, HandClosing,
       SleepLink, FlightListed, RestLink, RestUp, RestListed, EndingClosed, RestWatched, LossPending
<1>2. CASE Connect(d)
  <2>1. PICK u \in SUBSET (Fallbacks[d] \intersect {"legacy"}) : Attempt(d, u)
    BY <1>2 DEF Connect
  <2>2. "banner" \notin u /\ ~NeedsSock(d, u)
    BY <2>1 DEF NeedsSock
  <2>3. QED
    BY <1>0, <1>2, <2>1, <2>2
    DEF Connect, Attempt, NewClient, TransportTypeOK, RecordInv, FreshUnknown
<1>3. CASE SockReady(d) \/ SockFails(d) \/ PersistDone(d) \/ PersistFails(d)
  BY <1>0, <1>3 DEF SockReady, SockFails, PersistDone, PersistFails
<1>4. CASE HandshakeReady(d)
  BY <1>0, <1>4 DEF HandshakeReady, ReturnOk, AttachTransportHandlers, TransportTypeOK
<1>5. CASE HandshakeFails(d)
  <2>0. NotReadyDead(d) /\ TimerArmed(d)
    BY <1>0 DEF RecordInv
  <2>1. CASE \E code \in {"failed", "host-key"} :
               /\ ReturnError(d, code)
               /\ link' = [link EXCEPT ![d] = "gone"]
               /\ UNCHANGED <<tries, used, client, watched, events>>
    BY <1>0, <1>5, <2>0, <2>1
    DEF HandshakeFails, ReturnError, DeleteFailed, TransportTypeOK, NotReadyDead, TimerArmed
  <2>2. CASE /\ ~closing[d] /\ UNCHANGED <<recVars, callVars>>
             /\ \E f \in Fallbacks[d] \ used[d] : Attempt(d, used[d] \union {f})
    <3>1. PICK f \in Fallbacks[d] \ used[d] : Attempt(d, used[d] \union {f})
      BY <2>2
    <3>2. "banner" \notin used[d] \union {f} /\ ~NeedsSock(d, used[d] \union {f})
      BY <1>0, <3>1 DEF NeedsSock
    <3>3. QED
      BY <1>0, <1>5, <2>2, <3>1, <3>2 DEF HandshakeFails, Attempt, NewClient, TransportTypeOK
  <2>3. CASE /\ phase' = [phase EXCEPT ![d] = "sleep"]
             /\ link' = [link EXCEPT ![d] = "gone"]
             /\ UNCHANGED <<recVars, used, outcome, client, watched, events, callVars>>
    BY <1>0, <1>5, <2>3 DEF HandshakeFails, TransportTypeOK
  <2>4. QED
    BY <1>5, <2>1, <2>2, <2>3 DEF HandshakeFails
<1>6. CASE SleepEnds(d)
  <2>1. CASE CancelledAtTop(d)
    BY <1>0, <1>6, <2>1
    DEF SleepEnds, CancelledAtTop, ReturnError, DeleteFailed, TransportTypeOK, RecordInv, NotReadyDead
  <2>2. CASE ~CancelledAtTop(d)
    BY <1>0, <1>6, <2>2
    DEF SleepEnds, CancelledAtTop, Attempt, NewClient, NeedsSock, TransportTypeOK
  <2>3. QED
    BY <2>1, <2>2
<1>7. CASE TransportCloses(d)
  BY <1>0, <1>7 DEF TransportCloses, EventsOnClose, TransportTypeOK
<1>8. ASSUME NEW more \in BOOLEAN, LossEvent(d, more) PROVE RecordKnown(d)'
  <2>1. PICK x \in events[d] :
          /\ HandleTransportLoss(d, x)
          /\ events' = IF more THEN events ELSE [events EXCEPT ![d] = @ \ {x}]
    BY <1>8 DEF LossEvent
  <2>2. /\ client' = client /\ link' = link /\ watched' = watched /\ phase' = phase
        /\ used' = used /\ connections' = connections /\ closing' = closing
    BY <1>8 DEF LossEvent
  <2>3. CASE LossApplies(d, x)
    BY <1>0, <2>1, <2>2, <2>3
    DEF HandleTransportLoss, LossApplies, Reschedules, TransportTypeOK
  <2>4. CASE ~LossApplies(d, x)
    <3>1. dead' = dead /\ timer' = timer
      BY <2>1, <2>4 DEF HandleTransportLoss
    <3>2. LossPending(d)'
      BY <1>0, <2>1, <2>2, <2>4, <3>1 DEF LossApplies, TransportTypeOK
    <3>3. QED
      BY <1>0, <2>2, <3>1, <3>2
  <2>5. QED
    BY <2>3, <2>4
<1>9. CASE TimerFires(d)
  <2>1. TimerArmed(d) /\ DeadIsTended(d)
    BY <1>0 DEF RecordInv
  <2>2. QED
    BY <1>0, <1>9, <2>1
    DEF TimerFires, Attempt, NewClient, NeedsSock, TransportTypeOK, TimerArmed
<1>10. CASE ReconnectThrows(d)
  BY <1>0, <1>10 DEF ReconnectThrows, Ended, InFlight, TransportTypeOK
<1>11. CASE Disconnect(d)
  BY <1>0, <1>11 DEF Disconnect, Ended, TransportTypeOK, RecordInv, FreshUnknown
<1>12. ASSUME NEW P \in SUBSET Conn, CancelConnect(P) PROVE RecordKnown(d)'
  BY <1>0, <1>12
  DEF CancelConnect, Ended, TransportTypeOK, RecordInv, FirstInFlight, InFlight
<1>13. ASSUME NEW k \in Caller, CallStep(k) PROVE RecordKnown(d)'
  BY <1>0, <1>13 DEF CallStep, EnsureAlive, WaitTimesOut, CallReturns
<1>14. CASE UNCHANGED transportVars
  BY <1>0, <1>14 DEF transportVars
<1>15. QED
  BY <1>1, <1>2, <1>3, <1>4, <1>5, <1>6, <1>7, <1>8, <1>9, <1>10, <1>11, <1>12,
     <1>13, <1>14 DEF TransportNext, RecordStep
LEMMA KnownInvariant ==
  TransportSpec => [](TransportTypeOK /\ TransportInv /\ KnownInv)
<1>1. TransportTypeOK /\ TransportInv /\ KnownInv /\ [TransportNext]_transportVars => KnownInv'
  BY KnownInvStep
<1>2. QED
  BY <1>1, KnownInvInit, TransportInvariant, PTL DEF TransportSpec

(* With recorded keys and sockets of ssh2's own making, no loss goes       *)
(* unnoticed and a removed record leaves no open transport behind.         *)
THEOREM LossesNoticedNothingLeaks ==
  TransportSpec => []LossesNoticed
<1>1. TransportTypeOK /\ TransportInv /\ KnownInv => LossesNoticed
  BY DEF TransportTypeOK, KnownInv, RecordKnown, RestLink, RestUp, LossPending,
         Plain, LossesNoticed, NoMissedLoss, NoLeakedTransport
<1>2. QED
  BY <1>1, KnownInvariant, PTL

(* There, disconnect and cancel are final: no handshake completes for a    *)
(* record after it was closed.                                             *)
THEOREM ClosedStaysDown == TransportSpec => ClosingNeverComesUp
<1>1. TransportTypeOK /\ TransportInv /\ KnownInv /\ [TransportNext]_transportVars
      => [\A c \in Plain : StaysDown(c)]_transportVars
  <2> SUFFICES ASSUME TransportTypeOK, KnownInv, TransportNext,
                      NEW d \in Plain, closing[d], link[d] # "up", link'[d] = "up"
               PROVE  FALSE
    BY DEF StaysDown
  <2> d \in Conn
    BY DEF Plain
  <2>0. RecordKnown(d)
    BY DEF KnownInv
  <2> USE DEF TransportTypeOK, recVars, tryVars, netVars, callVars
  <2>1. ASSUME NEW c \in Conn, HandshakeReady(c) PROVE FALSE
    BY <2>0, <2>1 DEF HandshakeReady, RecordKnown, HandClosing
  <2>2. ASSUME NEW c \in Conn, NEW u, Attempt(c, u) PROVE FALSE
    BY <2>2 DEF Attempt, NewClient, Ended
  <2>3. ASSUME NEW c \in Conn,
               \/ Connect(c) \/ HandshakeFails(c) \/ SleepEnds(c) \/ TimerFires(c)
        PROVE  FALSE
    BY <2>2, <2>3 DEF Connect, HandshakeFails, SleepEnds, TimerFires
  <2>4. ASSUME NEW c \in Conn,
               \/ SockReady(c) \/ SockFails(c) \/ PersistDone(c) \/ PersistFails(c)
               \/ TransportCloses(c) \/ ReconnectThrows(c) \/ Disconnect(c)
        PROVE  FALSE
    BY <2>4 DEF SockReady, SockFails, PersistDone, PersistFails, TransportCloses,
                ReconnectThrows, Disconnect, Ended, NewClient
  <2>5. ASSUME NEW c \in Conn, NEW more \in BOOLEAN, LossEvent(c, more) PROVE FALSE
    BY <2>5 DEF LossEvent
  <2>6. ASSUME NEW P \in SUBSET Conn, CancelConnect(P) PROVE FALSE
    BY <2>6 DEF CancelConnect, Ended
  <2>7. ASSUME NEW k \in Caller, CallStep(k) PROVE FALSE
    BY <2>7 DEF CallStep, EnsureAlive, WaitTimesOut, CallReturns
  <2>8. QED
    BY <2>1, <2>3, <2>4, <2>5, <2>6, <2>7 DEF TransportNext, RecordStep
<1>2. QED
  BY <1>1, KnownInvariant, PTL DEF TransportSpec, ClosingNeverComesUp
-----------------------------------------------------------------------------
(* A waiting ensureAlive call is on a record that is down or closing, and  *)
(* past its first connect: only a reconnect can answer it.                 *)
Trusted == Plain \ EarlyCalls

WaitsRightly(k) ==
  call[k] = "wait" /\ callee[k] \in Trusted =>
    /\ dead[callee[k]] \/ closing[callee[k]]
    /\ ~connecting[callee[k]] /\ phase[callee[k]] # "fresh"

WaitInv == \A k \in Caller : WaitsRightly(k)

ToldTheTruth(k) ==
  call'[k] # call[k] /\ callee'[k] \in Trusted =>
    /\ call'[k] = "yes" => ~dead'[callee'[k]] /\ ~closing'[callee'[k]]
    /\ call'[k] = "no" => dead'[callee'[k]] \/ closing'[callee'[k]]

(* A step on one record answers only its own waiters.                      *)
LEMMA RecordStepAnswers ==
  ASSUME TransportTypeOK, NEW d \in Conn, RecordStep(d), NEW k \in Caller
  PROVE  callee' = callee /\ (callee[k] # d => call'[k] = call[k])
<1> USE DEF recVars, tryVars, netVars, callVars, TransportTypeOK, Settle, Waiters
<1>1. CASE SockFails(d) \/ HandshakeFails(d) \/ SleepEnds(d) \/ PersistFails(d)
  BY <1>1 DEF SockFails, HandshakeFails, SleepEnds, PersistFails, ReturnError
<1>2. CASE HandshakeReady(d) \/ PersistDone(d)
  BY <1>2 DEF HandshakeReady, PersistDone, ReturnOk, WakeWaiters
<1>3. CASE \/ Connect(d) \/ SockReady(d) \/ TransportCloses(d) \/ TimerFires(d)
           \/ ReconnectThrows(d) \/ Disconnect(d)
  BY <1>3 DEF Connect, SockReady, TransportCloses, TimerFires, ReconnectThrows, Disconnect
<1>4. ASSUME NEW more \in BOOLEAN, LossEvent(d, more) PROVE callee' = callee /\ call' = call
  BY <1>4 DEF LossEvent
<1>5. QED
  BY <1>1, <1>2, <1>3, <1>4 DEF RecordStep

LEMMA RecordStepTruth ==
  ASSUME TransportTypeOK, TransportInv, KnownInv, WaitInv,
         NEW d \in Conn, RecordStep(d), NEW k \in Caller
  PROVE  WaitsRightly(k)' /\ ToldTheTruth(k)
<1> USE DEF recVars, tryVars, netVars, callVars, WaitsRightly, ToldTheTruth, Trusted
<1> callee' = callee /\ WaitsRightly(k)
  BY RecordStepAnswers DEF WaitInv
<1>1. CASE callee[k] # d /\ callee[k] \in Plain
  <2>1. callee[k] \in Conn
    BY <1>1 DEF Plain
  <2>2. QED
    BY <1>1, <2>1, RecordStepAnswers, RecordStepIsLocal
<1>2. CASE callee[k] = d /\ d \in Trusted
  <2>0. RecordKnown(d) /\ d \notin FirstSeen
    BY <1>2 DEF KnownInv, Plain
  <2> USE DEF TransportTypeOK, Settle, Waiters
  <2>1. CASE SockFails(d) \/ HandshakeFails(d) \/ SleepEnds(d) \/ PersistFails(d)
    BY <1>2, <2>1 DEF SockFails, HandshakeFails, SleepEnds, PersistFails, ReturnError, Attempt, NewClient
  <2>2. CASE HandshakeReady(d)
    BY <1>2, <2>0, <2>2 DEF HandshakeReady, ReturnOk, WakeWaiters, RecordKnown, HandClosing
  <2>3. CASE SockReady(d) \/ PersistDone(d)
    BY <2>0, <2>3 DEF SockReady, PersistDone, RecordKnown, NoWindow
  <2>4. CASE Connect(d) \/ TransportCloses(d) \/ TimerFires(d) \/ ReconnectThrows(d) \/ Disconnect(d)
    BY <1>2, <2>4 DEF Connect, TransportCloses, TimerFires, ReconnectThrows, Disconnect, Attempt, NewClient
  <2>5. ASSUME NEW more \in BOOLEAN, LossEvent(d, more) PROVE WaitsRightly(k)' /\ ToldTheTruth(k)
    BY <1>2, <2>5 DEF LossEvent, HandleTransportLoss
  <2>6. QED
    BY <2>1, <2>2, <2>3, <2>4, <2>5 DEF RecordStep
<1>3. QED
  BY <1>1, <1>2

LEMMA WaitStep ==
  ASSUME TransportTypeOK, TransportInv, KnownInv, WaitInv, TransportNext, NEW k \in Caller
  PROVE  WaitsRightly(k)' /\ ToldTheTruth(k)
<1>1. CASE \E d \in Conn : RecordStep(d)
  BY <1>1, RecordStepTruth
<1>2. ASSUME NEW P \in SUBSET Conn, CancelConnect(P) PROVE WaitsRightly(k)' /\ ToldTheTruth(k)
  BY <1>2 DEF CancelConnect, WaitInv, WaitsRightly, ToldTheTruth, tryVars, callVars, Trusted, Plain
<1>3. ASSUME NEW l \in Caller, NEW c \in Conn, EnsureAlive(l, c)
      PROVE  WaitsRightly(k)' /\ ToldTheTruth(k)
  <2>1. phase[c] # "fresh"
    BY <1>3 DEF EnsureAlive, TransportInv, RecordInv, FreshUnknown
  <2>2. QED
    BY <1>3, <2>1
    DEF EnsureAlive, Answer, WaitInv, WaitsRightly, ToldTheTruth, recVars, tryVars, TransportTypeOK, Trusted
<1>4. ASSUME NEW l \in Caller, WaitTimesOut(l) \/ CallReturns(l)
      PROVE  WaitsRightly(k)' /\ ToldTheTruth(k)
  BY <1>4 DEF WaitTimesOut, CallReturns, WaitInv, WaitsRightly, ToldTheTruth, recVars, tryVars, TransportTypeOK
<1>5. QED
  BY <1>1, <1>2, <1>3, <1>4 DEF TransportNext, CallStep

(* ensureAlive never lies about a plain record: what it answers holds at   *)
(* the moment it answers, whichever of the reconnect, the timeout and a    *)
(* disconnect comes first.                                                 *)
THEOREM EnsureAliveIsTruthful == TransportSpec => AnswersAreTrue
<1> DEFINE Inv == TransportTypeOK /\ TransportInv /\ KnownInv
<1>1. TransportInit => WaitInv
  BY DEF TransportInit, WaitInv, WaitsRightly
<1>2. Inv /\ WaitInv /\ [TransportNext]_transportVars => WaitInv'
  <2>1. ASSUME Inv, WaitInv, UNCHANGED transportVars PROVE WaitInv'
    BY <2>1 DEF transportVars, recVars, tryVars, callVars, WaitInv, WaitsRightly
  <2>2. QED
    BY <2>1, WaitStep DEF WaitInv
<1>3. Inv /\ WaitInv /\ [TransportNext]_transportVars
      => [\A k \in Caller : ToldTheTruth(k)]_transportVars
  BY WaitStep
<1>4. (\A k \in Caller : ToldTheTruth(k)) =>
        \A k \in Caller : call'[k] # call[k] /\ callee'[k] \in Plain \ EarlyCalls =>
          LET c == callee'[k]
          IN /\ call'[k] = "yes" => ~dead'[c] /\ ~closing'[c]
             /\ call'[k] = "no" => dead'[c] \/ closing'[c]
  BY DEF ToldTheTruth, Trusted
<1>5. QED
  BY <1>1, <1>2, <1>3, <1>4, KnownInvariant, PTL DEF TransportSpec, AnswersAreTrue

-----------------------------------------------------------------------------
(* Refinement: what the rest of the plugin may assume of a record.         *)

(* A step on one record moves its status along the lifecycle.              *)
LegalMove(a, b) ==
  \/ a = b
  \/ a = "new" /\ b = "connecting"
  \/ a \in {"connecting", "down"} /\ b = "up"
  \/ a = "up" /\ b = "down"
  \/ a \in {"connecting", "up", "down"} /\ b = "closed"

LEMMA RecordStepIsLegal ==
  ASSUME TransportTypeOK, TransportInv, NEW c \in Conn, RecordStep(c)
  PROVE  LegalMove(statusBar[c], statusBar'[c])
<1>0. RecordInv(c)
  BY DEF TransportInv
<1> USE DEF statusBar, LegalMove, TransportTypeOK, recVars, tryVars, netVars, callVars,
            RecordInv, NotReadyDead, ReadyAlive, FirstInFlight, FreshUnknown, InFlight
<1>1. CASE Connect(c)
  BY <1>0, <1>1 DEF Connect, Attempt, NewClient
<1>2. CASE SockReady(c) \/ TimerFires(c)
  BY <1>0, <1>2 DEF SockReady, TimerFires, TimerArmed, Attempt, NewClient
<1>3. CASE SockFails(c) \/ PersistFails(c)
  BY <1>0, <1>3 DEF SockFails, PersistFails, ReturnError, DeleteFailed
<1>4. CASE HandshakeReady(c) \/ PersistDone(c)
  BY <1>0, <1>4 DEF HandshakeReady, PersistDone, ReturnOk
<1>5. CASE HandshakeFails(c)
  BY <1>0, <1>5 DEF HandshakeFails, Attempt, NewClient, ReturnError, DeleteFailed
<1>6. CASE SleepEnds(c)
  BY <1>0, <1>6 DEF SleepEnds, Attempt, NewClient, ReturnError, DeleteFailed
<1>7. CASE TransportCloses(c) \/ Disconnect(c)
  BY <1>0, <1>7 DEF TransportCloses, Disconnect
<1>8. CASE ReconnectThrows(c)
  BY <1>0, <1>8 DEF ReconnectThrows
<1>9. ASSUME NEW more \in BOOLEAN, LossEvent(c, more)
      PROVE  LegalMove(statusBar[c], statusBar'[c])
  BY <1>0, <1>9 DEF LossEvent, HandleTransportLoss, LossApplies, AttemptUnwatched,
                    PendingIsGone, Phases
<1>10. QED
  BY <1>1, <1>2, <1>3, <1>4, <1>5, <1>6, <1>7, <1>8, <1>9 DEF RecordStep

(* SshTransport implements the lifecycle: with every retry, fallback, late *)
(* event, cancel and exception, the other parts see only legal moves.      *)
THEOREM TransportImplementsLifecycle == TransportSpec => ImplementsLifecycle
<1>1. TransportInit => Lifecycle!LifecycleInit
  BY DEF TransportInit, statusBar, Lifecycle!LifecycleInit
<1>2. TransportTypeOK /\ TransportInv /\ [TransportNext]_transportVars
      => [Lifecycle!LifecycleNext]_statusBar
  <2> SUFFICES ASSUME TransportTypeOK, TransportInv, [TransportNext]_transportVars
               PROVE  Lifecycle!LifecycleNext \/ UNCHANGED statusBar
    OBVIOUS
  <2>1. ASSUME NEW c \in Conn, RecordStep(c)
        PROVE  Lifecycle!LifecycleNext \/ UNCHANGED statusBar
    <3>1. \A d \in Conn \ {c} : statusBar'[d] = statusBar[d]
      BY <2>1, RecordStepIsLocal DEF statusBar
    <3>2. LegalMove(statusBar[c], statusBar'[c])
      BY <2>1, RecordStepIsLegal
    <3>3. /\ statusBar = [d \in Conn |-> statusBar[d]]
          /\ statusBar' = [d \in Conn |-> statusBar'[d]]
      BY DEF statusBar
    <3>4. statusBar' = [statusBar EXCEPT ![c] = statusBar'[c]]
      BY <3>1, <3>3
    <3>5. CASE statusBar'[c] = "closed" /\ statusBar[c] # "closed"
      <4>1. Lifecycle!CloseAll({c})
        BY <3>1, <3>2, <3>3, <3>5 DEF Lifecycle!CloseAll, LegalMove
      <4>2. QED
        BY <4>1 DEF Lifecycle!LifecycleNext
    <3>6. CASE statusBar'[c] = statusBar[c]
      BY <3>1, <3>3, <3>6
    <3>7. CASE statusBar'[c] # "closed" /\ statusBar'[c] # statusBar[c]
      BY <3>2, <3>4, <3>7
      DEF LegalMove, Lifecycle!LifecycleNext, Lifecycle!Opens, Lifecycle!ComesUp, Lifecycle!Drops
    <3>8. QED
      BY <3>5, <3>6, <3>7
  <2>2. ASSUME NEW P \in SUBSET Conn, CancelConnect(P)
        PROVE  Lifecycle!LifecycleNext \/ UNCHANGED statusBar
    <3> DEFINE S == {c \in P \intersect connections : connecting[c] /\ ~closing[c]}
    <3>1. statusBar' = [c \in Conn |-> IF c \in S THEN "closed" ELSE statusBar[c]]
      BY <2>2 DEF CancelConnect, statusBar, TransportTypeOK, TransportInv, RecordInv,
                  FreshUnknown, tryVars
    <3>2. \A c \in S : statusBar[c] \in {"connecting", "up", "down"}
      BY DEF statusBar, TransportTypeOK, TransportInv, RecordInv, FreshUnknown
    <3>3. CASE S = {}
      BY <3>1, <3>3 DEF statusBar
    <3>4. CASE S # {}
      <4>1. S \in SUBSET Conn /\ Lifecycle!CloseAll(S)
        BY <3>1, <3>2, <3>4 DEF Lifecycle!CloseAll
      <4>2. QED
        BY <4>1 DEF Lifecycle!LifecycleNext
    <3>5. QED
      BY <3>3, <3>4
  <2>3. ASSUME NEW k \in Caller, CallStep(k) PROVE UNCHANGED statusBar
    BY <2>3 DEF CallStep, EnsureAlive, WaitTimesOut, CallReturns, recVars, tryVars, statusBar
  <2>4. CASE UNCHANGED transportVars
    BY <2>4 DEF transportVars, recVars, tryVars, statusBar
  <2>5. QED
    BY <2>1, <2>2, <2>3, <2>4 DEF TransportNext
<1>3. QED
  BY <1>1, <1>2, TransportInvariant, PTL
  DEF TransportSpec, ImplementsLifecycle, Lifecycle!LifecycleSpec
=============================================================================
