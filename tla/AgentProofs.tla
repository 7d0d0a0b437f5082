---------------------------- MODULE AgentProofs -----------------------------
(***************************************************************************)
(* Proofs about what an agent works with: host keys, the connection a call *)
(* or a batch is given, the saved resources and settings, the recording of *)
(* a session.  For every number of hosts' keys, dialers, connections,      *)
(* calls, resources and chunks of output.                                  *)
(***************************************************************************)
EXTENDS MCAgent, FiniteSetTheorems, SequenceTheorems, TLAPS

(***************************************************************************)
(* Host keys.  The inductive invariant: while no two first contacts        *)
(* overlapped, one dialer at most has noted a key, and none is stored then;*)
(* a verdict that was formed is about the stored key or the noted one.     *)
(***************************************************************************)
TrustSpec == TrustInit /\ [][TrustNext]_trustVars
Verifies(d) == dialer[d].mode # "off" /\ d \notin excused

TrustInv ==
  /\ TrustTypeOK
  /\ \A d \in Dialer : dialer[d].at = "up" => dialer[d].toRecord = NoKey
  /\ ~raced =>
       /\ \A d, e \in Dialer : dialer[d].toRecord # NoKey /\ dialer[e].toRecord # NoKey => d = e
       /\ \A d \in Dialer : dialer[d].toRecord # NoKey => known = NoKey
       /\ \A d \in Dialer : dialer[d].at = "up" /\ Verifies(d) => dialer[d].key = known /\ known # NoKey
       /\ \A d \in Dialer : dialer[d].at = "accepted" /\ Verifies(d) =>
            IF dialer[d].toRecord = NoKey THEN dialer[d].key = known /\ known # NoKey
            ELSE dialer[d].key = dialer[d].toRecord

DialerType == [at : {"idle", "shake", "accepted", "up", "retry", "stopped"}, mode : Modes, key : Key \union {NoKey},
               toRecord : Key \union {NoKey}, born : BOOLEAN]

LEMMA TrustBegins == TrustInit => TrustInv
<1> SUFFICES ASSUME TrustInit PROVE TrustInv
  OBVIOUS
<1>1. NewDialer \in DialerType /\ NewDialer.at = "idle" /\ NewDialer.toRecord = NoKey
  BY DEF DialerType, NewDialer, Modes
<1>2. \A d \in Dialer : dialer[d] = NewDialer
  BY DEF TrustInit
<1>3. TrustTypeOK
  BY <1>1 DEF TrustInit, TrustTypeOK, DialerType
<1> QED BY <1>1, <1>2, <1>3 DEF TrustInv

(* A step that leaves one dialer with nothing new: it is not up and not    *)
(* accepted, and has noted what it had noted or nothing.                   *)
LEMMA DialerRetires ==
  ASSUME TrustInv, NEW d \in Dialer, NEW r \in DialerType, dialer' = [dialer EXCEPT ![d] = r],
         r.at \notin {"up", "accepted"}, r.toRecord \in {NoKey, dialer[d].toRecord},
         excused' \in {excused, excused \ {d}}, UNCHANGED <<known, server>>, raced' = raced
  PROVE  TrustInv'
<1>1. TrustTypeOK'
  BY DEF TrustInv, TrustTypeOK, DialerType
<1>2. \A e \in Dialer : dialer'[e] = IF e = d THEN r ELSE dialer[e]
  BY DEF TrustInv, TrustTypeOK
<1> QED BY <1>1, <1>2 DEF TrustInv, Verifies

LEMMA TrustStep == TrustInv /\ [TrustNext]_trustVars => TrustInv'
<1> SUFFICES ASSUME TrustInv, [TrustNext]_trustVars PROVE TrustInv'
  OBVIOUS
<1>0. \A d \in Dialer : dialer[d] \in DialerType
  BY DEF TrustInv, TrustTypeOK, DialerType
<1>1. CASE UNCHANGED trustVars
  BY <1>1 DEF trustVars, TrustInv, TrustTypeOK, Verifies
<1>2. ASSUME NEW d \in Dialer, NEW m \in Modes, Handshake(d, m) PROVE TrustInv'
  <2> DEFINE r == [NewDialer EXCEPT !.at = "shake", !.mode = m]
  <2>1. r \in DialerType /\ r.at = "shake" /\ r.toRecord = NoKey
    BY DEF NewDialer, DialerType
  <2>2. dialer' = [dialer EXCEPT ![d] = r] /\ UNCHANGED <<known, server, raced, excused>>
    BY <1>2 DEF Handshake
  <2> QED BY <2>1, <2>2, DialerRetires
<1>3. ASSUME NEW d \in Dialer, HostVerifier(d) PROVE TrustInv'
  <2> DEFINE v == DecideHostKey(dialer[d].mode, known, server)
             r == [dialer[d] EXCEPT !.at = "accepted", !.key = server, !.toRecord = IF v.record THEN server ELSE @]
             q == [dialer[d] EXCEPT !.at = IF dialer[d].born THEN "idle" ELSE "stopped"]
  <2>1. server \in Key /\ server # NoKey /\ dialer[d] \in DialerType
    BY <1>0, TrustAssumption DEF TrustInv, TrustTypeOK
  <2>2. CASE ~v.accept
    <3>1. q \in DialerType /\ q.at \notin {"up", "accepted"} /\ q.toRecord = dialer[d].toRecord
      BY <2>1 DEF DialerType
    <3>2. dialer' = [dialer EXCEPT ![d] = q] /\ excused' = excused \ {d} /\ raced' = raced /\ UNCHANGED <<known, server>>
      BY <1>3, <2>1, <2>2 DEF HostVerifier, DialerType
    <3> QED BY <3>1, <3>2, DialerRetires
  <2>3. CASE v.accept
    <3>1. /\ r \in DialerType /\ r.at = "accepted" /\ r.key = server /\ r.mode = dialer[d].mode
          /\ r.toRecord = IF v.record THEN server ELSE dialer[d].toRecord
      BY <2>1 DEF DialerType, DecideHostKey
    <3>2. /\ dialer' = [dialer EXCEPT ![d] = r] /\ excused' = excused \ {d} /\ UNCHANGED <<known, server>>
          /\ raced' = (raced \/ (v.record /\ \E e \in Dialer \ {d} : dialer[e].toRecord # NoKey))
      BY <1>3, <2>1, <2>3 DEF HostVerifier, DialerType
    <3>3. v.record => dialer[d].mode = "accept-new" /\ known = NoKey
      BY DEF DecideHostKey
    <3>4. dialer[d].mode # "off" /\ ~v.record => known = server
      BY <2>3 DEF DecideHostKey
    <3>5. v.record \in BOOLEAN
      BY DEF DecideHostKey
    <3>6. TrustTypeOK'
      BY <3>1, <3>2, <3>5 DEF TrustInv, TrustTypeOK, DialerType
    <3>7. \A e \in Dialer : dialer'[e] = IF e = d THEN r ELSE dialer[e]
      BY <3>2 DEF TrustInv, TrustTypeOK
    <3>8. CASE v.record
      <4>1. r.toRecord = server /\ known = NoKey
        BY <3>1, <3>3, <3>8
      <4>2. raced' = (raced \/ \E e \in Dialer \ {d} : dialer[e].toRecord # NoKey)
        BY <3>2, <3>8
      <4> HIDE DEF r, q, v
      <4>3. ~raced' => ~raced /\ \A e \in Dialer : e # d => dialer'[e].toRecord = NoKey
        BY <3>7, <4>2
      <4>4. ASSUME ~raced', NEW e \in Dialer, e # d, dialer'[e].at \in {"up", "accepted"}
            PROVE  ~Verifies(e)'
        BY <3>2, <3>7, <4>1, <4>3, <4>4 DEF TrustInv, Verifies
      <4>5. \A e \in Dialer : dialer'[e].at = "up" => dialer'[e].toRecord = NoKey
        BY <3>1, <3>7 DEF TrustInv
      <4> QED BY <2>1, <3>1, <3>2, <3>6, <3>7, <4>1, <4>3, <4>4, <4>5 DEF TrustInv
    <3>9. CASE ~v.record
      <4>1. r.toRecord = dialer[d].toRecord
        BY <3>1, <3>9
      <4>2. raced' = raced /\ (dialer[d].mode # "off" => known = server)
        BY <3>2, <3>4, <3>9 DEF TrustInv, TrustTypeOK
      <4> HIDE DEF r, q, v
      <4>3. \A e \in Dialer : e # d => (Verifies(e)' <=> Verifies(e))
        BY <3>2, <3>7 DEF Verifies
      <4>4. \A e \in Dialer : dialer'[e].at = "up" => dialer'[e].toRecord = NoKey
        BY <3>1, <3>7 DEF TrustInv
      <4>5. ~raced /\ dialer[d].toRecord # NoKey => known = NoKey
        BY DEF TrustInv
      <4>6. Verifies(d)' => dialer[d].mode # "off"
        BY <3>1, <3>7 DEF Verifies
      <4> QED BY <2>1, <3>1, <3>2, <3>6, <3>7, <4>1, <4>2, <4>3, <4>4, <4>5, <4>6 DEF TrustInv
    <3> QED BY <3>8, <3>9
  <2> QED BY <2>2, <2>3
<1>4. ASSUME NEW d \in Dialer, Ready(d) PROVE TrustInv'
  <2> DEFINE pending == dialer[d].toRecord
             r == [dialer[d] EXCEPT !.at = "up", !.toRecord = NoKey, !.born = FALSE]
             q == [dialer[d] EXCEPT !.toRecord = NoKey, !.at = IF dialer[d].born THEN "idle" ELSE "retry"]
  <2>1. dialer[d].at = "accepted" /\ UNCHANGED <<server, raced, excused>> /\ dialer[d] \in DialerType
    BY <1>0, <1>4 DEF Ready
  <2>2. CASE known' = (IF pending = NoKey THEN known ELSE pending) /\ dialer' = [dialer EXCEPT ![d] = r]
    <3>1. r \in DialerType /\ r.at = "up" /\ r.toRecord = NoKey /\ r.mode = dialer[d].mode /\ r.key = dialer[d].key
      BY <2>1 DEF DialerType
    <3>2. TrustTypeOK'
      BY <2>1, <2>2, <3>1 DEF TrustInv, TrustTypeOK, DialerType
    <3>3. \A e \in Dialer : dialer'[e] = IF e = d THEN r ELSE dialer[e]
      BY <2>2 DEF TrustInv, TrustTypeOK
    <3> HIDE DEF r, q
    <3> QED BY <2>1, <2>2, <3>1, <3>2, <3>3 DEF TrustInv, Verifies
  <2>3. CASE known' = known /\ dialer' = [dialer EXCEPT ![d] = q]
    <3>1. q \in DialerType /\ q.at \notin {"up", "accepted"} /\ q.toRecord = NoKey
      BY <2>1 DEF DialerType
    <3> QED BY <2>1, <2>3, <3>1, DialerRetires
  <2> QED
    <3>1. \/ known' = (IF pending = NoKey THEN known ELSE pending) /\ dialer' = [dialer EXCEPT ![d] = r]
          \/ known' = known /\ dialer' = [dialer EXCEPT ![d] = q]
      BY <1>4, <2>1 DEF Ready, DialerType
    <3> QED BY <2>2, <2>3, <3>1
<1>5. ASSUME NEW d \in Dialer, HandshakeFails(d) \/ LoseTransport(d) PROVE TrustInv'
  <2> DEFINE r == [dialer[d] EXCEPT !.at = "retry"]
  <2>1. r \in DialerType /\ r.at = "retry" /\ r.toRecord = dialer[d].toRecord
    BY <1>0 DEF DialerType
  <2>2. dialer' = [dialer EXCEPT ![d] = r] /\ UNCHANGED <<known, server, raced, excused>>
    BY <1>5 DEF HandshakeFails, LoseTransport
  <2> QED BY <2>1, <2>2, DialerRetires
<1>6. ASSUME NEW d \in Dialer, Retry(d) \/ HangUp(d) PROVE TrustInv'
  <2> DEFINE r == [dialer[d] EXCEPT !.at = "shake"]
  <2>1. r \in DialerType /\ r.at = "shake" /\ r.toRecord = dialer[d].toRecord
    BY <1>0 DEF DialerType
  <2>2. NewDialer \in DialerType /\ NewDialer.at = "idle" /\ NewDialer.toRecord = NoKey
    BY DEF DialerType, NewDialer, Modes
  <2>3. /\ dialer' = [dialer EXCEPT ![d] = r] \/ dialer' = [dialer EXCEPT ![d] = NewDialer]
        /\ excused' \in {excused, excused \ {d}} /\ UNCHANGED <<known, server, raced>>
    BY <1>6 DEF Retry, HangUp
  <2> QED BY <2>1, <2>2, <2>3, DialerRetires
<1>7. CASE ForgetHostKey
  <2>1. TrustTypeOK'
    BY <1>7 DEF ForgetHostKey, TrustInv, TrustTypeOK
  <2> QED BY <1>7, <2>1 DEF ForgetHostKey, TrustInv, Verifies
<1>8. CASE ServerChanges
  <2>1. TrustTypeOK'
    BY <1>8 DEF ServerChanges, TrustInv, TrustTypeOK
  <2> QED BY <1>8, <2>1 DEF ServerChanges, TrustInv, Verifies
<1> QED BY <1>1, <1>2, <1>3, <1>4, <1>5, <1>6, <1>7, <1>8 DEF TrustNext

(* Connections that verify agree on the stored key, for any number of      *)
(* them and any way the server's key changes: one that is up under another *)
(* key was up when the operator forgot the key, or two first contacts      *)
(* overlapped.                                                             *)
THEOREM KeysAgree == TrustSpec => []OneKeyPerHost
<1>1. TrustInv => OneKeyPerHost
  BY DEF TrustInv, OneKeyPerHost, Verifies
<1> QED BY <1>1, TrustBegins, TrustStep, PTL DEF TrustSpec

-----------------------------------------------------------------------------
(***************************************************************************)
(* The agent's target.  The inductive invariant: a connection that is      *)
(* being dialled belongs to one call or one target of the batch; a call    *)
(* that is over, and a target that is over, left no connection of theirs.  *)
(***************************************************************************)
AgentSpec == AgentInit /\ [][AgentNext]_agentVars

ConnType == [st : {"free", "connecting", "live", "dead", "gone"}, prof : Prof \union {NoConn},
             term : {NoTerm, "pending", "open", "exited"}]
AskType == [at : {"idle", "auth", "dial", "opening", "end"}, kind : {"none", "profile", "workspace"},
            prof : Prof \union {NoConn}, conn : Conn \union {NoConn}, prev : Conn \union {NoConn},
            reused : BOOLEAN, reply : {"none", "failed", NoTerm, "pending", "open", "exited"}]
SlotType == [at : {"wait", "dial", "exec", "end"}, conn : Conn \union {NoConn}, results : 0..1]

AgentTypes ==
  /\ conn \in [Conn -> ConnType]
  /\ active \in Conn \union {NoConn} /\ auto \in BOOLEAN
  /\ task \in {"none", "planned", "running", "done", "cancelled"}
  /\ ask \in [Asks -> AskType] /\ slot \in [DOMAIN Targets -> SlotType]

NoTermUnlessLive == \A c \in Conn : conn[c].st # "live" => conn[c].term = NoTerm

(* What one call, or one target, says of its connection.                   *)
AskBooks(a) ==
  /\ ask[a].at \in {"auth", "dial"} => ~ask[a].reused /\ ask[a].prof \in Prof
  /\ ask[a].at = "auth" => ask[a].conn = NoConn
  /\ ask[a].at = "dial" => ask[a].conn \in Conn /\ conn[ask[a].conn].st = "connecting"
  /\ ask[a].at = "opening" => ask[a].conn \in Conn /\ conn[ask[a].conn].st \in {"live", "dead", "gone"}
  /\ ask[a].at = "end" =>
       /\ ask[a].reply = "failed" /\ ~ask[a].reused /\ ask[a].conn # NoConn => conn[ask[a].conn].st = "gone"
       /\ ask[a].kind = "workspace" => ask[a].reply \in {"failed", "open"}
SlotBooks(i) ==
  /\ slot[i].at = "wait" => slot[i] = Waiting
  /\ slot[i].at = "dial" => slot[i].conn \in Conn /\ conn[slot[i].conn].st = "connecting"
  /\ slot[i].at = "exec" => slot[i].conn \in Conn /\ conn[slot[i].conn].st \in {"live", "dead", "gone"}
  /\ slot[i].at \in {"dial", "exec"} => slot[i].results = 0
  /\ slot[i].at = "end" => slot[i].results = 1 /\ (slot[i].conn # NoConn => conn[slot[i].conn].st = "gone")

DialsApart ==
  /\ \A a, b \in Asks : ask[a].at = "dial" /\ ask[b].at = "dial" /\ ask[a].conn = ask[b].conn => a = b
  /\ \A i, j \in DOMAIN Targets : slot[i].at = "dial" /\ slot[j].at = "dial" /\ slot[i].conn = slot[j].conn => i = j
  /\ \A a \in Asks, i \in DOMAIN Targets : ask[a].at = "dial" /\ slot[i].at = "dial" => ask[a].conn # slot[i].conn

TaskBooks ==
  /\ task \in {"none", "planned", "cancelled"} => \A i \in DOMAIN Targets : slot[i].at = "wait"
  /\ task = "done" => \A i \in DOMAIN Targets : slot[i].at = "end"
WorkersBound == Cardinality(Running) <= Workers

AgentInv ==
  /\ AgentTypes /\ NoTermUnlessLive /\ DialsApart /\ TaskBooks /\ WorkersBound
  /\ \A a \in Asks : AskBooks(a)
  /\ \A i \in DOMAIN Targets : SlotBooks(i)

LEMMA AgentBegins == AgentInit => AgentInv
<1> SUFFICES ASSUME AgentInit PROVE AgentInv
  OBVIOUS
<1>1. Idle \in AskType /\ Waiting \in SlotType /\ Idle.at = "idle" /\ Waiting.at = "wait" /\ NoConn \notin Conn
  BY AgentAssumption DEF AskType, SlotType, Idle, Waiting
<1>2. AgentTypes
  BY <1>1 DEF AgentInit, AgentTypes, ConnType, NoTerm
<1>3. (\A a \in Asks : ask[a] = Idle) /\ (\A i \in DOMAIN Targets : slot[i] = Waiting)
  BY DEF AgentInit
<1>4. NoTermUnlessLive /\ DialsApart /\ TaskBooks
  BY <1>1, <1>3 DEF AgentInit, NoTermUnlessLive, DialsApart, TaskBooks, NoTerm
<1>5. WorkersBound
  <2>1. Running = {}
    BY <1>1, <1>3 DEF Running, AgentInit
  <2> QED BY <2>1, FS_EmptySet, AgentAssumption DEF WorkersBound
<1>6. (\A a \in Asks : AskBooks(a)) /\ (\A i \in DOMAIN Targets : SlotBooks(i))
  BY <1>1, <1>3 DEF AskBooks, SlotBooks
<1> QED BY <1>2, <1>4, <1>5, <1>6 DEF AgentInv

(* What may happen to a connection: it is dialled, comes up, is given up   *)
(* while connecting, or lives on, dies and goes; what is gone stays gone.  *)
Moves(c) ==
  /\ conn'[c].st # conn[c].st =>
       \/ conn[c].st = "free" /\ conn'[c].st = "connecting"
       \/ conn[c].st = "connecting" /\ conn'[c].st \in {"live", "gone"}
       \/ conn[c].st \in {"live", "dead"} /\ conn'[c].st \in {"live", "dead", "gone"}

(* Connections move, but for those being dialled; calls and targets stay.  *)
LEMMA OthersMove ==
  ASSUME AgentInv, AgentTypes', NoTermUnlessLive', UNCHANGED <<ask, slot>>, TaskBooks',
         \A c \in Conn : Moves(c),
         \A c \in Conn : conn[c].st = "connecting" /\ conn'[c].st # "connecting" =>
           /\ \A a \in Asks : ask[a].conn # c
           /\ \A i \in DOMAIN Targets : slot[i].conn # c
  PROVE  AgentInv'
<1>1. DialsApart' /\ WorkersBound'
  BY DEF AgentInv, DialsApart, WorkersBound, Running
<1>2. ASSUME NEW a \in Asks PROVE AskBooks(a)'
  <2>1. ask[a] \in AskType /\ AskBooks(a)
    BY DEF AgentInv, AgentTypes
  <2>2. ask[a].conn \in Conn => Moves(ask[a].conn)
    OBVIOUS
  <2>3. ask[a].conn \in Conn \/ ask[a].conn = NoConn
    BY <2>1 DEF AskType
  <2> QED BY <2>1, <2>2, <2>3 DEF AskBooks, Moves
<1>3. ASSUME NEW i \in DOMAIN Targets PROVE SlotBooks(i)'
  <2>1. slot[i] \in SlotType /\ SlotBooks(i)
    BY DEF AgentInv, AgentTypes
  <2>2. slot[i].conn \in Conn => Moves(slot[i].conn)
    OBVIOUS
  <2>3. slot[i].conn \in Conn \/ slot[i].conn = NoConn
    BY <2>1 DEF SlotType
  <2> QED BY <2>1, <2>2, <2>3 DEF SlotBooks, Moves, Waiting
<1> QED BY <1>1, <1>2, <1>3 DEF AgentInv

(* One call goes on; what it may do to a connection is to its own.         *)
LEMMA AskMoves ==
  ASSUME AgentInv, AgentTypes', NoTermUnlessLive', UNCHANGED <<slot, task>>,
         NEW a \in Asks, \A b \in Asks : b # a => ask'[b] = ask[b], AskBooks(a)',
         \A c \in Conn : Moves(c),
         \A c \in Conn : conn[c].st = "connecting" /\ conn'[c].st # "connecting" => ask[a].at = "dial" /\ ask[a].conn = c,
         ask'[a].at = "dial" =>
           \/ ask[a].at = "dial" /\ ask'[a].conn = ask[a].conn
           \/ conn[ask'[a].conn].st = "free"
  PROVE  AgentInv'
<1>1. WorkersBound' /\ TaskBooks'
  BY DEF AgentInv, WorkersBound, TaskBooks, Running
<1>2. ASSUME NEW b \in Asks PROVE AskBooks(b)'
  <2>1. CASE b = a
    BY <2>1
  <2>2. CASE b # a
    <3>1. ask[b] \in AskType /\ AskBooks(b) /\ ask'[b] = ask[b]
      BY <2>2 DEF AgentInv, AgentTypes
    <3>2. ask[b].conn \in Conn => Moves(ask[b].conn)
      OBVIOUS
    <3>3. ask[b].conn \in Conn \/ ask[b].conn = NoConn
      BY <3>1 DEF AskType
    <3>4. ask[b].at = "dial" => ~(ask[a].at = "dial" /\ ask[a].conn = ask[b].conn)
      BY <2>2 DEF AgentInv, DialsApart
    <3> QED BY <3>1, <3>2, <3>3, <3>4 DEF AskBooks, Moves
  <2> QED BY <2>1, <2>2
<1>3. ASSUME NEW i \in DOMAIN Targets PROVE SlotBooks(i)'
  <2>1. slot[i] \in SlotType /\ SlotBooks(i)
    BY DEF AgentInv, AgentTypes
  <2>2. slot[i].conn \in Conn => Moves(slot[i].conn)
    OBVIOUS
  <2>3. slot[i].conn \in Conn \/ slot[i].conn = NoConn
    BY <2>1 DEF SlotType
  <2>4. slot[i].at = "dial" => ~(ask[a].at = "dial" /\ ask[a].conn = slot[i].conn)
    BY DEF AgentInv, DialsApart
  <2> QED BY <2>1, <2>2, <2>3, <2>4 DEF SlotBooks, Moves, Waiting
<1>4. DialsApart'
  <2>1. \A b \in Asks : ask[b].at = "dial" => conn[ask[b].conn].st = "connecting"
    BY DEF AgentInv, AskBooks
  <2>2. \A i \in DOMAIN Targets : slot[i].at = "dial" => conn[slot[i].conn].st = "connecting"
    BY DEF AgentInv, SlotBooks
  <2>3. DialsApart
    BY DEF AgentInv
  <2> QED BY <2>1, <2>2, <2>3 DEF DialsApart
<1> QED BY <1>1, <1>2, <1>3, <1>4 DEF AgentInv

(* One target of the batch goes on, and its connection with it.            *)
LEMMA SlotMoves ==
  ASSUME AgentInv, AgentTypes', NoTermUnlessLive', UNCHANGED <<ask, task>>, WorkersBound',
         NEW i \in DOMAIN Targets, \A j \in DOMAIN Targets : j # i => slot'[j] = slot[j], SlotBooks(i)',
         slot'[i].at # "wait", slot[i].at # "end", task = "running" \/ slot[i].at # "wait",
         \A c \in Conn : Moves(c),
         \A c \in Conn : conn[c].st = "connecting" /\ conn'[c].st # "connecting" => slot[i].at = "dial" /\ slot[i].conn = c,
         slot'[i].at = "dial" => conn[slot'[i].conn].st = "free"
  PROVE  AgentInv'
<1>1. TaskBooks'
  BY DEF AgentInv, TaskBooks
<1>2. ASSUME NEW b \in Asks PROVE AskBooks(b)'
  <2>1. ask[b] \in AskType /\ AskBooks(b)
    BY DEF AgentInv, AgentTypes
  <2>2. ask[b].conn \in Conn => Moves(ask[b].conn)
    OBVIOUS
  <2>3. ask[b].conn \in Conn \/ ask[b].conn = NoConn
    BY <2>1 DEF AskType
  <2>4. ask[b].at = "dial" => ~(slot[i].at = "dial" /\ slot[i].conn = ask[b].conn)
    BY DEF AgentInv, DialsApart
  <2> QED BY <2>1, <2>2, <2>3, <2>4 DEF AskBooks, Moves
<1>3. ASSUME NEW j \in DOMAIN Targets PROVE SlotBooks(j)'
  <2>1. CASE j = i
    BY <2>1
  <2>2. CASE j # i
    <3>1. slot[j] \in SlotType /\ SlotBooks(j) /\ slot'[j] = slot[j]
      BY <2>2 DEF AgentInv, AgentTypes
    <3>2. slot[j].conn \in Conn => Moves(slot[j].conn)
      OBVIOUS
    <3>3. slot[j].conn \in Conn \/ slot[j].conn = NoConn
      BY <3>1 DEF SlotType
    <3>4. slot[j].at = "dial" => ~(slot[i].at = "dial" /\ slot[i].conn = slot[j].conn)
      BY <2>2 DEF AgentInv, DialsApart
    <3> QED BY <3>1, <3>2, <3>3, <3>4 DEF SlotBooks, Moves, Waiting
  <2> QED BY <2>1, <2>2
<1>4. DialsApart'
  <2>1. \A b \in Asks : ask[b].at = "dial" => conn[ask[b].conn].st = "connecting"
    BY DEF AgentInv, AskBooks
  <2>2. \A j \in DOMAIN Targets : slot[j].at = "dial" => conn[slot[j].conn].st = "connecting"
    BY DEF AgentInv, SlotBooks
  <2>3. DialsApart
    BY DEF AgentInv
  <2> QED BY <2>1, <2>2, <2>3 DEF DialsApart
<1> QED BY <1>1, <1>2, <1>3, <1>4 DEF AgentInv

-----------------------------------------------------------------------------
(* One connection is given the record r.                                   *)
LEMMA OneMoves ==
  ASSUME AgentTypes, NoTermUnlessLive, NEW c \in Conn, NEW r \in ConnType,
         conn' = [conn EXCEPT ![c] = r], r.st # "live" => r.term = NoTerm
  PROVE  /\ conn' \in [Conn -> ConnType] /\ NoTermUnlessLive'
         /\ conn'[c] = r /\ \A d \in Conn : d # c => conn'[d] = conn[d]
BY DEF AgentTypes, NoTermUnlessLive

(* The records the handlers write.                                         *)
Given(c, st, term) == [conn[c] EXCEPT !.st = st, !.term = term]
LEMMA GivenIs ==
  ASSUME AgentTypes, NEW c \in Conn, NEW st \in {"free", "connecting", "live", "dead", "gone"},
         NEW term \in {NoTerm, "pending", "open", "exited"}
  PROVE  /\ Given(c, st, term) \in ConnType /\ Given(c, st, term).st = st /\ Given(c, st, term).term = term
         /\ [conn EXCEPT ![c].st = st, ![c].term = term] = [conn EXCEPT ![c] = Given(c, st, term)]
         /\ conn[c].term = term => [conn EXCEPT ![c].st = st] = [conn EXCEPT ![c] = Given(c, st, term)]
         /\ conn[c].st = st => [conn EXCEPT ![c].term = term] = [conn EXCEPT ![c] = Given(c, st, term)]
BY DEF AgentTypes, ConnType, Given

LEMMA DialIs ==
  ASSUME AgentTypes, NEW c \in Conn, NEW p \in Prof, Dial(c, p)
  PROVE  /\ conn[c].st = "free"
         /\ \E r \in ConnType : r.st = "connecting" /\ r.term = NoTerm /\ conn' = [conn EXCEPT ![c] = r]
BY DEF Dial, Fresh, ConnType, NoTerm

(* The operator's steps, and what befalls a transport.                     *)
LEMMA PanelKeeps ==
  ASSUME AgentInv, NEW c \in Conn,
         \/ \E p \in Prof : PanelConnect(c, p)
         \/ PanelConnected(c) \/ PanelTerminal(c) \/ SelectConnection(c) \/ Disconnect(c)
         \/ ShellExits(c) \/ TransportLost(c) \/ Reconnected(c)
  PROVE  AgentInv'
<1>1. AgentTypes /\ NoTermUnlessLive /\ conn[c] \in ConnType
  BY DEF AgentInv, AgentTypes
<1>2. UNCHANGED <<auto, ask, task, slot>>
  BY DEF PanelConnect, PanelConnected, PanelTerminal, SelectConnection, Disconnect, ShellExits, TransportLost, Reconnected
<1>3. active' \in Conn \union {NoConn}
  BY <1>1 DEF AgentTypes, PanelConnect, PanelConnected, PanelTerminal, SelectConnection, Disconnect, ShellExits,
        TransportLost, Reconnected, Up, DropConnection
<1>4. TaskBooks'
  BY <1>2 DEF AgentInv, TaskBooks
<1>5. ASSUME NEW r \in ConnType, conn' = [conn EXCEPT ![c] = r], r.st # "live" => r.term = NoTerm,
             \/ conn[c].st = "free" /\ r.st = "connecting"
             \/ /\ conn[c].st = "connecting" /\ r.st \in {"live", "gone"}
                /\ \A a \in Asks : ask[a].conn # c
                /\ \A i \in DOMAIN Targets : slot[i].conn # c
             \/ conn[c].st \in {"live", "dead"} /\ r.st \in {"live", "dead", "gone"}
      PROVE  AgentInv'
  <2>1. /\ conn' \in [Conn -> ConnType] /\ NoTermUnlessLive'
        /\ conn'[c] = r /\ \A d \in Conn : d # c => conn'[d] = conn[d]
    BY <1>1, <1>5, OneMoves
  <2>2. AgentTypes'
    BY <1>1, <1>2, <1>3, <2>1 DEF AgentTypes
  <2>3. \A d \in Conn : Moves(d)
    BY <1>5, <2>1 DEF Moves
  <2>4. \A d \in Conn : conn[d].st = "connecting" /\ conn'[d].st # "connecting" =>
           (\A a \in Asks : ask[a].conn # d) /\ (\A i \in DOMAIN Targets : slot[i].conn # d)
    BY <1>5, <2>1
  <2> QED BY <1>2, <1>4, <2>1, <2>2, <2>3, <2>4, OthersMove
<1>6. ASSUME NEW st \in {"live", "dead", "gone"}, NEW term \in {NoTerm, "pending", "open", "exited"},
             \/ conn' = [conn EXCEPT ![c].st = st, ![c].term = term]
             \/ conn[c].term = term /\ conn' = [conn EXCEPT ![c].st = st]
             \/ conn[c].st = st /\ conn' = [conn EXCEPT ![c].term = term],
             st # "live" => term = NoTerm,
             \/ /\ conn[c].st = "connecting" /\ st \in {"live", "gone"}
                /\ \A a \in Asks : ask[a].conn # c
                /\ \A i \in DOMAIN Targets : slot[i].conn # c
             \/ conn[c].st \in {"live", "dead"}
      PROVE  AgentInv'
  <2>1. /\ Given(c, st, term) \in ConnType /\ Given(c, st, term).st = st /\ Given(c, st, term).term = term
        /\ conn' = [conn EXCEPT ![c] = Given(c, st, term)]
    <3>1. st \in {"free", "connecting", "live", "dead", "gone"}
      OBVIOUS
    <3>2. /\ Given(c, st, term) \in ConnType /\ Given(c, st, term).st = st /\ Given(c, st, term).term = term
          /\ [conn EXCEPT ![c].st = st, ![c].term = term] = [conn EXCEPT ![c] = Given(c, st, term)]
          /\ conn[c].term = term => [conn EXCEPT ![c].st = st] = [conn EXCEPT ![c] = Given(c, st, term)]
          /\ conn[c].st = st => [conn EXCEPT ![c].term = term] = [conn EXCEPT ![c] = Given(c, st, term)]
      BY <1>1, <3>1 DEF AgentTypes, ConnType, Given
    <3> QED BY <1>6, <3>2
  <2> QED BY <1>5, <1>6, <2>1
<1>7. ASSUME NEW p \in Prof, PanelConnect(c, p) PROVE AgentInv'
  BY <1>1, <1>5, <1>7, DialIs DEF PanelConnect
<1>8. DOMAIN slot = DOMAIN Targets
  BY <1>1 DEF AgentTypes
<1>9. CASE PanelConnected(c)
  <2>1. /\ conn[c].st = "connecting" /\ conn[c].term = NoTerm
        /\ \A a \in Asks : ask[a].conn # c
        /\ \A i \in DOMAIN Targets : slot[i].conn # c
    BY <1>1, <1>8, <1>9 DEF PanelConnected, NoTermUnlessLive
  <2>2. CASE conn' = [conn EXCEPT ![c].st = "live"]
    BY <1>6, <2>1, <2>2
  <2>3. CASE conn' = [conn EXCEPT ![c].st = "gone", ![c].term = NoTerm]
    BY <1>6, <2>1, <2>3
  <2> QED BY <1>9, <2>2, <2>3 DEF PanelConnected, Up, Down
<1>10. CASE PanelTerminal(c)
  <2>1. conn[c].st = "live" /\ conn' = [conn EXCEPT ![c].term = "open"]
    BY <1>10 DEF PanelTerminal
  <2> QED BY <1>6, <2>1
<1>11. CASE SelectConnection(c)
  <2>1. conn[c].st = "live" /\ conn' = [conn EXCEPT ![c] = conn[c]]
    BY <1>1, <1>11 DEF SelectConnection, AgentTypes
  <2> QED BY <1>1, <1>5, <2>1
<1>12. CASE Disconnect(c)
  <2>1. conn[c].st \in {"live", "dead"} /\ conn' = [conn EXCEPT ![c].st = "gone", ![c].term = NoTerm]
    BY <1>12 DEF Disconnect, DropConnection, Down
  <2> QED BY <1>6, <2>1
<1>13. CASE ShellExits(c)
  <2>1. conn[c].st = "live" /\ conn' = [conn EXCEPT ![c].term = "exited"]
    BY <1>1, <1>13 DEF ShellExits, NoTermUnlessLive, NoTerm
  <2> QED BY <1>6, <2>1
<1>14. CASE TransportLost(c)
  <2>1. conn[c].st = "live" /\ conn' = [conn EXCEPT ![c].st = "dead", ![c].term = NoTerm]
    BY <1>14 DEF TransportLost
  <2> QED BY <1>6, <2>1
<1>15. CASE Reconnected(c)
  <2>1. conn[c].st = "dead" /\ conn[c].term = NoTerm /\ conn' = [conn EXCEPT ![c].st = "live"]
    BY <1>1, <1>15 DEF Reconnected, NoTermUnlessLive
  <2> QED BY <1>6, <2>1
<1> QED BY <1>7, <1>9, <1>10, <1>11, <1>12, <1>13, <1>14, <1>15

(* The batch.                                                              *)
LEMMA BatchTaskKeeps ==
  ASSUME AgentInv, BatchPlan \/ BatchCancel \/ BatchRun \/ BatchAnswers
  PROVE  AgentInv'
<1>1. UNCHANGED <<conn, active, auto, ask, slot>>
  BY DEF BatchPlan, BatchCancel, BatchRun, BatchAnswers
<1>2. AgentTypes'
  BY <1>1 DEF AgentInv, AgentTypes, BatchPlan, BatchCancel, BatchRun, BatchAnswers
<1>3. DOMAIN slot = DOMAIN Targets
  BY DEF AgentInv, AgentTypes
<1>4. TaskBooks'
  BY <1>1, <1>3 DEF AgentInv, TaskBooks, BatchPlan, BatchCancel, BatchRun, BatchAnswers
<1>5. \A c \in Conn : Moves(c) /\ conn'[c] = conn[c]
  BY <1>1 DEF Moves
<1>6. NoTermUnlessLive'
  BY <1>1 DEF AgentInv, NoTermUnlessLive
<1> QED BY <1>1, <1>2, <1>4, <1>5, <1>6, OthersMove

(* The settings of a slot.                                                 *)
SlotNow(i, at) == [slot[i] EXCEPT !.at = at]
LEMMA SlotNowIs ==
  ASSUME AgentTypes, NEW i \in DOMAIN Targets, NEW at \in {"wait", "dial", "exec", "end"}
  PROVE  /\ slot[i] \in SlotType
         /\ slot[i].results = 0 => [slot[i] EXCEPT !.at = "end", !.results = @ + 1] \in SlotType
         /\ SlotNow(i, at) \in SlotType /\ SlotNow(i, at).at = at /\ SlotNow(i, at).conn = slot[i].conn
         /\ SlotNow(i, at).results = slot[i].results
         /\ \A r : [slot EXCEPT ![i] = r][i] = r /\ \A j \in DOMAIN Targets : j # i => [slot EXCEPT ![i] = r][j] = slot[j]
         /\ \A r \in SlotType : [slot EXCEPT ![i] = r] \in [DOMAIN Targets -> SlotType]
<1>1. slot[i] \in SlotType
  BY DEF AgentTypes
<1>2. slot[i].results = 0 => slot[i].results + 1 \in 0..1
  OBVIOUS
<1> QED BY <1>1, <1>2 DEF AgentTypes, SlotType, SlotNow

LEMMA RunningIsFinite ==
  ASSUME AgentTypes, NEW S \in SUBSET DOMAIN slot PROVE IsFiniteSet(S)
<1>1. DOMAIN slot = 1..Len(Targets) /\ Len(Targets) \in Nat
  BY AgentAssumption DEF AgentTypes
<1>2. IsFiniteSet(1..Len(Targets))
  BY <1>1, FS_Interval
<1> QED BY <1>1, <1>2, FS_Subset

(* No more targets run when one that ran goes on.                          *)
LEMMA NoMoreRun ==
  ASSUME AgentInv, NEW i \in DOMAIN Targets, slot[i].at \notin {"wait", "end"}, DOMAIN slot' = DOMAIN slot,
         \A j \in DOMAIN Targets : j # i => slot'[j] = slot[j]
  PROVE  WorkersBound'
<1>1. Running' \subseteq Running /\ IsFiniteSet(Running)
  BY RunningIsFinite DEF AgentInv, AgentTypes, Running
<1>2. Cardinality(Running') <= Cardinality(Running) /\ Cardinality(Running') \in Nat /\ Cardinality(Running) \in Nat
  BY <1>1, FS_Subset, FS_CardinalityType
<1> QED BY <1>2, AgentAssumption DEF AgentInv, WorkersBound

LEMMA OneMoreRuns ==
  ASSUME AgentInv, NEW i \in DOMAIN Targets, FreeWorker, DOMAIN slot' = DOMAIN slot,
         \A j \in DOMAIN Targets : j # i => slot'[j] = slot[j]
  PROVE  WorkersBound'
<1>1. Running' \subseteq Running \union {i} /\ IsFiniteSet(Running)
  BY RunningIsFinite DEF AgentInv, AgentTypes, Running
<1>2. Cardinality(Running) \in Nat /\ IsFiniteSet(Running \union {i}) /\ Cardinality(Running \union {i}) <= Cardinality(Running) + 1
  BY <1>1, FS_AddElement, FS_CardinalityType
<1>3. Cardinality(Running') <= Cardinality(Running \union {i}) /\ Cardinality(Running') \in Nat /\ Cardinality(Running \union {i}) \in Nat
  BY <1>1, <1>2, FS_Subset, FS_CardinalityType
<1> QED BY <1>2, <1>3, AgentAssumption DEF FreeWorker, WorkersBound

(* The connection c of a target or a call is given up, or is closed.       *)
LEMMA GivenUp ==
  ASSUME AgentTypes, NEW c \in Conn, Down(c)
  PROVE  conn' = [conn EXCEPT ![c] = Given(c, "gone", NoTerm)]
<1>1. "gone" \in {"free", "connecting", "live", "dead", "gone"} /\ NoTerm \in {NoTerm, "pending", "open", "exited"}
  OBVIOUS
<1>2. [conn EXCEPT ![c].st = "gone", ![c].term = NoTerm] = [conn EXCEPT ![c] = Given(c, "gone", NoTerm)]
  BY <1>1, GivenIs
<1> QED BY <1>2 DEF Down

LEMMA SettledSlot ==
  ASSUME AgentTypes, NEW i \in DOMAIN Targets, NEW n \in 0..1
  PROVE  LET r == [slot[i] EXCEPT !.at = "end", !.results = n]
         IN  r \in SlotType /\ r.at = "end" /\ r.conn = slot[i].conn /\ r.results = n
BY DEF AgentTypes, SlotType

LEMMA BatchKeeps ==
  ASSUME AgentInv, NEW i \in DOMAIN Targets, TakeTarget(i) \/ BatchDialEnds(i) \/ BatchExecEnds(i)
  PROVE  AgentInv'
<1>1. AgentTypes /\ NoTermUnlessLive /\ slot[i] \in SlotType /\ SlotBooks(i) /\ TaskBooks
  BY DEF AgentInv, AgentTypes
<1>2. UNCHANGED <<auto, ask, task>>
  BY DEF TakeTarget, BatchDialEnds, BatchExecEnds
<1>3. slot[i].at # "end" /\ slot[i].results = 0
  BY <1>1 DEF TakeTarget, BatchDialEnds, BatchExecEnds, SlotBooks, Waiting
<1> DEFINE over == [slot[i] EXCEPT !.at = "end", !.results = 1]
<1>4. over \in SlotType /\ over.at = "end" /\ over.conn = slot[i].conn /\ over.results = 1
  <2>1. 1 \in 0..1
    OBVIOUS
  <2> QED BY <1>1, <2>1, SettledSlot
<1>5. Settle(i) => slot' = [slot EXCEPT ![i] = over]
  <2>1. slot[i].results + 1 = 1
    BY <1>3
  <2> QED BY <1>1, <2>1 DEF Settle, AgentTypes
<1> HIDE DEF over
<1>6. ASSUME NEW c \in Conn, NEW r \in ConnType, NEW s \in SlotType,
             conn' = [conn EXCEPT ![c] = r], r.st # "live" => r.term = NoTerm,
             slot' = [slot EXCEPT ![i] = s], active' \in Conn \union {NoConn}, WorkersBound',
             s.at # "wait", task = "running" \/ slot[i].at # "wait",
             \/ conn[c].st = "free" /\ r.st = "connecting" /\ s.at = "dial" /\ s.conn = c /\ s.results = 0
             \/ /\ conn[c].st = "connecting" /\ slot[i].at = "dial" /\ s.conn = c /\ slot[i].conn = c
                /\ \/ r.st = "live" /\ s.at = "exec" /\ s.results = 0
                   \/ r.st = "gone" /\ s.at = "end" /\ s.results = 1
             \/ /\ conn[c].st \in {"live", "dead", "gone"} /\ r.st = "gone" /\ s.at = "end" /\ s.conn = c /\ s.results = 1
      PROVE  AgentInv'
    <2>1. /\ conn' \in [Conn -> ConnType] /\ NoTermUnlessLive'
          /\ conn'[c] = r /\ \A d \in Conn : d # c => conn'[d] = conn[d]
      BY <1>1, <1>6, OneMoves
    <2>2. /\ slot' \in [DOMAIN Targets -> SlotType] /\ slot'[i] = s
          /\ \A j \in DOMAIN Targets : j # i => slot'[j] = slot[j]
      BY <1>1, <1>6 DEF AgentTypes
    <2>3. AgentTypes'
      BY <1>1, <1>2, <1>6, <2>1, <2>2 DEF AgentTypes
    <2>4. \A d \in Conn : Moves(d)
      BY <1>6, <2>1 DEF Moves
    <2>5. \A d \in Conn : conn[d].st = "connecting" /\ conn'[d].st # "connecting" => slot[i].at = "dial" /\ slot[i].conn = d
      BY <1>6, <2>1
    <2>6. SlotBooks(i)'
      BY <1>6, <2>1, <2>2 DEF SlotBooks
    <2>7. slot'[i].at = "dial" => conn[slot'[i].conn].st = "free"
      BY <1>6, <2>2
    <2>8. UNCHANGED <<ask, task>> /\ slot'[i].at # "wait" /\ WorkersBound'
      BY <1>2, <1>6, <2>2
    <2> QED BY <1>3, <1>6, <2>1, <2>2, <2>3, <2>4, <2>5, <2>6, <2>7, <2>8, SlotMoves
<1>7. ASSUME slot' = [slot EXCEPT ![i] = over], UNCHANGED <<conn, active>>, WorkersBound',
             task = "running" \/ slot[i].at # "wait",
             slot[i].conn # NoConn => conn[slot[i].conn].st = "gone"
      PROVE  AgentInv'
    <2>2. /\ slot' \in [DOMAIN Targets -> SlotType] /\ slot'[i] = over
          /\ \A j \in DOMAIN Targets : j # i => slot'[j] = slot[j]
      BY <1>1, <1>4, <1>7 DEF AgentTypes
    <2>3. AgentTypes' /\ NoTermUnlessLive'
      BY <1>1, <1>2, <1>7, <2>2 DEF AgentTypes, NoTermUnlessLive
    <2>4. \A d \in Conn : Moves(d) /\ conn'[d] = conn[d]
      BY <1>7 DEF Moves
    <2>6. SlotBooks(i)'
      BY <1>4, <1>7, <2>2 DEF SlotBooks
    <2>8. UNCHANGED <<ask, task>> /\ slot'[i].at = "end"
      BY <1>2, <1>4, <2>2
    <2> QED BY <1>3, <1>7, <2>2, <2>3, <2>4, <2>6, <2>8, SlotMoves
<1>8. /\ \A c \in Conn : Given(c, "live", conn[c].term) \in ConnType /\ Given(c, "gone", NoTerm) \in ConnType
      /\ \A c \in Conn : Given(c, "live", conn[c].term).st = "live" /\ Given(c, "gone", NoTerm).st = "gone"
      /\ \A c \in Conn : Given(c, "gone", NoTerm).term = NoTerm
      /\ \A c \in Conn : [conn EXCEPT ![c].st = "live"] = [conn EXCEPT ![c] = Given(c, "live", conn[c].term)]
  BY <1>1 DEF AgentTypes, ConnType, Given, NoTerm
<1>9. DOMAIN slot = DOMAIN Targets /\ \A s : DOMAIN [slot EXCEPT ![i] = s] = DOMAIN slot /\ \A j \in DOMAIN Targets : j # i => [slot EXCEPT ![i] = s][j] = slot[j]
  BY <1>1 DEF AgentTypes
<1>10. CASE TakeTarget(i)
  <2>1. task = "running" /\ slot[i] = Waiting /\ FreeWorker /\ active' = active /\ active \in Conn \union {NoConn}
    BY <1>1, <1>10 DEF TakeTarget, SlotBooks, AgentTypes
  <2>2. CASE Settle(i) /\ conn' = conn
    <3>1. slot' = [slot EXCEPT ![i] = over] /\ DOMAIN slot' = DOMAIN slot /\ \A j \in DOMAIN Targets : j # i => slot'[j] = slot[j]
      BY <1>5, <1>9, <2>2
    <3>2. slot[i].conn = NoConn
      BY <2>1 DEF Waiting
    <3>3. WorkersBound'
      BY <2>1, <3>1, OneMoreRuns
    <3> QED BY <1>7, <2>1, <2>2, <3>1, <3>2, <3>3
  <2>3. ASSUME NEW c \in Fresh, Dial(c, Targets[i]), slot' = [slot EXCEPT ![i].at = "dial", ![i].conn = c] PROVE AgentInv'
    <3>1. c \in Conn /\ Targets[i] \in Prof
      BY AgentAssumption DEF Fresh
    <3>2. PICK r \in ConnType : r.st = "connecting" /\ r.term = NoTerm /\ conn' = [conn EXCEPT ![c] = r]
      BY <1>1, <2>3, <3>1, DialIs
    <3>3. conn[c].st = "free"
      BY DEF Fresh
    <3> DEFINE s == [slot[i] EXCEPT !.at = "dial", !.conn = c]
    <3>4. s \in SlotType /\ s.at = "dial" /\ s.conn = c /\ s.results = 0
      BY <1>1, <1>3, <3>1 DEF SlotType
    <3>5. slot' = [slot EXCEPT ![i] = s]
      BY <1>1, <2>3 DEF AgentTypes
    <3> HIDE DEF s
    <3>6. WorkersBound'
      BY <1>9, <2>1, <3>5, OneMoreRuns
    <3> QED BY <1>6, <2>1, <3>1, <3>2, <3>3, <3>4, <3>5, <3>6
  <2> QED BY <1>10, <2>2, <2>3 DEF TakeTarget
<1>11. CASE BatchDialEnds(i)
  <2> DEFINE c == slot[i].conn
  <2>1. slot[i].at = "dial" /\ c \in Conn /\ conn[c].st = "connecting" /\ conn[c].term = NoTerm /\ active \in Conn \union {NoConn}
    BY <1>1, <1>11 DEF BatchDialEnds, SlotBooks, NoTermUnlessLive, AgentTypes
  <2>2. CASE Up(c) /\ slot' = [slot EXCEPT ![i].at = "exec"]
    <3>1. /\ SlotNow(i, "exec") \in SlotType /\ SlotNow(i, "exec").at = "exec" /\ SlotNow(i, "exec").conn = c
          /\ SlotNow(i, "exec").results = 0 /\ slot' = [slot EXCEPT ![i] = SlotNow(i, "exec")]
      BY <1>1, <1>3, <2>2 DEF SlotType, SlotNow, AgentTypes
    <3>2. conn' = [conn EXCEPT ![c] = Given(c, "live", conn[c].term)] /\ active' = c
      BY <1>8, <2>1, <2>2 DEF Up
    <3>3. WorkersBound'
      BY <1>9, <2>1, <3>1, NoMoreRun
    <3>4. Given(c, "live", conn[c].term) \in ConnType /\ Given(c, "live", conn[c].term).st = "live"
      BY <1>8, <2>1
    <3> DEFINE r == Given(c, "live", conn[c].term)
               s == SlotNow(i, "exec")
    <3>5. r \in ConnType /\ r.st = "live" /\ s \in SlotType /\ s.at = "exec" /\ s.conn = c /\ s.results = 0
      BY <3>1, <3>4
    <3>6. conn' = [conn EXCEPT ![c] = r] /\ slot' = [slot EXCEPT ![i] = s]
      BY <3>1, <3>2
    <3>7. active' \in Conn \union {NoConn}
      BY <2>1, <3>2
    <3> HIDE DEF r, s
    <3> QED BY <1>6, <2>1, <3>3, <3>5, <3>6, <3>7
  <2>3. CASE Down(c) /\ active' = active /\ Settle(i)
    <3>1. slot' = [slot EXCEPT ![i] = over] /\ conn' = [conn EXCEPT ![c] = Given(c, "gone", NoTerm)]
      BY <1>1, <1>5, <2>1, <2>3, GivenUp
    <3>3. WorkersBound'
      BY <1>9, <2>1, <3>1, NoMoreRun
    <3> QED BY <1>4, <1>6, <1>8, <2>1, <2>3, <3>1, <3>3
  <2> QED BY <1>11, <2>2, <2>3 DEF BatchDialEnds
<1>12. CASE BatchExecEnds(i)
  <2> DEFINE c == slot[i].conn
  <2>1. /\ slot[i].at = "exec" /\ c \in Conn /\ conn[c].st \in {"live", "dead", "gone"} /\ active \in Conn \union {NoConn}
        /\ slot' = [slot EXCEPT ![i] = over]
    BY <1>1, <1>5, <1>12 DEF BatchExecEnds, SlotBooks, AgentTypes
  <2>2. WorkersBound'
    BY <1>9, <2>1, NoMoreRun
  <2>3. CASE InMap(c)
    <3>1. Down(c) /\ active' \in Conn \union {NoConn}
      BY <1>12, <2>1, <2>3 DEF BatchExecEnds, CloseAfter, DropConnection
    <3>2. conn' = [conn EXCEPT ![c] = Given(c, "gone", NoTerm)]
      BY <1>1, <2>1, <3>1, GivenUp
    <3> QED BY <1>4, <1>6, <1>8, <2>1, <2>2, <3>1, <3>2
  <2>4. CASE ~InMap(c)
    <3>1. UNCHANGED <<conn, active>> /\ conn[c].st = "gone"
      BY <1>12, <2>1, <2>4 DEF BatchExecEnds, CloseAfter, InMap
    <3> QED BY <1>7, <2>1, <2>2, <3>1
  <2> QED BY <2>3, <2>4
<1> QED BY <1>10, <1>11, <1>12

-----------------------------------------------------------------------------
(* The agent's calls.                                                      *)
AskRecord(a, at, p, kind, c) ==
  [at |-> at, kind |-> kind, prof |-> p, conn |-> c, prev |-> active, reused |-> c # NoConn,
   reply |-> IF at = "end" THEN conn[c].term ELSE "none"]

(* A call that goes on with the record r, and writes t to connection c.    *)
LEMMA AskGoes ==
  ASSUME AgentInv, NEW a \in Asks, NEW r \in AskType, ask' = [ask EXCEPT ![a] = r],
         UNCHANGED <<auto, task, slot>>, active' \in Conn \union {NoConn},
         NEW c \in Conn, NEW t \in ConnType, conn' = [conn EXCEPT ![c] = t], t.st # "live" => t.term = NoTerm,
         \/ conn[c].st = t.st
         \/ conn[c].st = "free" /\ t.st = "connecting"
         \/ conn[c].st = "connecting" /\ t.st \in {"live", "gone"} /\ ask[a].at = "dial" /\ ask[a].conn = c
         \/ conn[c].st \in {"live", "dead"} /\ t.st \in {"live", "dead", "gone"},
         r.at = "dial" => r.conn = c /\ conn[c].st = "free" /\ t.st = "connecting",
         r.at \in {"auth", "dial"} => ~r.reused /\ r.prof \in Prof,
         r.at = "auth" => r.conn = NoConn,
         r.at = "opening" => r.conn = c /\ t.st \in {"live", "dead", "gone"},
         r.at = "end" =>
           /\ r.reply = "failed" /\ ~r.reused /\ r.conn # NoConn => r.conn = c /\ t.st = "gone"
           /\ r.kind = "workspace" => r.reply \in {"failed", "open"}
  PROVE  AgentInv'
<1>1. AgentTypes /\ NoTermUnlessLive
  BY DEF AgentInv
<1>2. /\ conn' \in [Conn -> ConnType] /\ NoTermUnlessLive'
      /\ conn'[c] = t /\ \A d \in Conn : d # c => conn'[d] = conn[d]
  BY <1>1, OneMoves
<1>3. ask' \in [Asks -> AskType] /\ ask'[a] = r /\ \A b \in Asks : b # a => ask'[b] = ask[b]
  BY <1>1 DEF AgentTypes
<1>4. AgentTypes'
  BY <1>1, <1>2, <1>3 DEF AgentTypes
<1>5. \A d \in Conn : Moves(d)
  BY <1>2 DEF Moves
<1>6. \A d \in Conn : conn[d].st = "connecting" /\ conn'[d].st # "connecting" => ask[a].at = "dial" /\ ask[a].conn = d
  BY <1>2
<1>7. AskBooks(a)'
  BY <1>2, <1>3 DEF AskBooks
<1>8. ask'[a].at = "dial" => conn[ask'[a].conn].st = "free"
  BY <1>3
<1> QED BY <1>2, <1>3, <1>4, <1>5, <1>6, <1>7, <1>8, AskMoves

(* The same when no connection is touched.                                 *)
LEMMA AskGoesAlone ==
  ASSUME AgentInv, NEW a \in Asks, NEW r \in AskType, ask' = [ask EXCEPT ![a] = r],
         UNCHANGED <<auto, task, slot, conn>>, active' \in Conn \union {NoConn},
         r.at \in {"idle", "auth", "end"},
         r.at = "auth" => ~r.reused /\ r.prof \in Prof /\ r.conn = NoConn,
         r.at = "end" =>
           /\ r.reply = "failed" /\ ~r.reused /\ r.conn # NoConn => conn[r.conn].st = "gone"
           /\ r.kind = "workspace" => r.reply \in {"failed", "open"}
  PROVE  AgentInv'
<1>1. AgentTypes /\ NoTermUnlessLive
  BY DEF AgentInv
<1>3. ask' \in [Asks -> AskType] /\ ask'[a] = r /\ \A b \in Asks : b # a => ask'[b] = ask[b]
  BY <1>1 DEF AgentTypes
<1>4. AgentTypes' /\ NoTermUnlessLive'
  BY <1>1, <1>3 DEF AgentTypes, NoTermUnlessLive
<1>5. \A d \in Conn : Moves(d) /\ conn'[d] = conn[d]
  BY DEF Moves
<1>7. AskBooks(a)'
  BY <1>3 DEF AskBooks
<1> QED BY <1>3, <1>4, <1>5, <1>7, AskMoves

LEMMA ReuseKeeps ==
  ASSUME AgentInv, NEW a \in Asks, NEW p \in Prof, NEW kind \in {"profile", "workspace"}, Reuse(a, p, kind),
         UNCHANGED <<auto, task, slot>>
  PROVE  AgentInv'
<1>1. AgentTypes /\ NoTermUnlessLive
  BY DEF AgentInv
<1>2. PICK c \in Reusable(p) :
        IF HasTerminal(kind, c) THEN Record(a, "end", p, kind, c) /\ conn' = conn /\ active' = c
        ELSE Record(a, "opening", p, kind, c) /\ conn' = Requested(c) /\ active' = active
  BY DEF Reuse
<1>3. c \in Conn /\ conn[c].st = "live" /\ conn[c] \in ConnType /\ active \in Conn \union {NoConn} /\ c # NoConn
  BY <1>1, AgentAssumption DEF Reusable, AgentTypes
<1>4. CASE HasTerminal(kind, c)
  <2> DEFINE r == AskRecord(a, "end", p, kind, c)
  <2>1. /\ r \in AskType /\ r.at = "end" /\ r.reused /\ r.kind = kind /\ r.reply = conn[c].term
    BY <1>3 DEF AskRecord, AskType, ConnType, NoTerm
  <2>2. ask' = [ask EXCEPT ![a] = r] /\ conn' = conn /\ active' = c
    BY <1>2, <1>4 DEF Record, AskRecord
  <2>3. kind = "workspace" => r.reply = "open"
    BY <1>4, <2>1 DEF HasTerminal
  <2> HIDE DEF r
  <2> QED BY <1>3, <2>1, <2>2, <2>3, AskGoesAlone
<1>5. CASE ~HasTerminal(kind, c)
  <2> DEFINE r == AskRecord(a, "opening", p, kind, c)
             t == [conn[c] EXCEPT !.term = IF @ = "open" THEN @ ELSE "pending"]
  <2>1. /\ r \in AskType /\ r.at = "opening" /\ r.conn = c
    BY <1>3 DEF AskRecord, AskType
  <2>2. t \in ConnType /\ t.st = "live"
    BY <1>3 DEF ConnType
  <2>3. ask' = [ask EXCEPT ![a] = r] /\ active' = active
    BY <1>2, <1>5 DEF Record, AskRecord
  <2>4. conn' = [conn EXCEPT ![c] = t]
    BY <1>1, <1>2, <1>3, <1>5 DEF Requested, AgentTypes, ConnType
  <2> HIDE DEF r, t
  <2> QED BY <1>3, <2>1, <2>2, <2>3, <2>4, AskGoes
<1> QED BY <1>4, <1>5

LEMMA AuthKeeps ==
  ASSUME AgentInv, NEW a \in Asks, NEW p \in Prof, NEW kind \in {"profile", "workspace"},
         Record(a, "auth", p, kind, NoConn), UNCHANGED <<conn, active, auto, task, slot>>
  PROVE  AgentInv'
<1> DEFINE r == AskRecord(a, "auth", p, kind, NoConn)
<1>1. active \in Conn \union {NoConn}
  BY DEF AgentInv, AgentTypes
<1>2. r \in AskType /\ r.at = "auth" /\ ~r.reused /\ r.prof = p /\ r.conn = NoConn
  BY <1>1 DEF AskRecord, AskType
<1>3. ask' = [ask EXCEPT ![a] = r]
  BY DEF Record, AskRecord
<1> HIDE DEF r
<1> QED BY <1>1, <1>2, <1>3, AskGoesAlone

LEMMA NamesAreProfiles == \A q \in Queries : ResolveProfileRef(q) \subseteq Prof
BY DEF ResolveProfileRef, Exact, Partial

LEMMA AskKeeps ==
  ASSUME AgentInv, NEW a \in Asks,
         \/ \E q \in Queries : AgentConnectProfile(a, q)
         \/ \E p \in Prof : RequireWorkspaceConnection(a, p)
         \/ AgentDials(a) \/ AgentDialEnds(a) \/ ShellAnswers(a) \/ AgentAgain(a)
  PROVE  AgentInv'
<1>1. AgentTypes /\ NoTermUnlessLive /\ ask[a] \in AskType /\ AskBooks(a) /\ active \in Conn \union {NoConn}
  BY DEF AgentInv, AgentTypes
<1>2. ASSUME NEW q \in Queries, AgentConnectProfile(a, q) PROVE AgentInv'
  <2>1. PICK p \in ResolveProfileRef(q) :
          \/ Reuse(a, p, "profile")
          \/ Reusable(p) = {} /\ Record(a, "auth", p, "profile", NoConn) /\ UNCHANGED <<conn, active>>
    BY <1>2 DEF AgentConnectProfile
  <2>2. p \in Prof /\ UNCHANGED <<auto, task, slot>>
    BY <1>2, NamesAreProfiles DEF AgentConnectProfile
  <2> QED BY <2>1, <2>2, ReuseKeeps, AuthKeeps
<1>3. ASSUME NEW p \in Prof, RequireWorkspaceConnection(a, p) PROVE AgentInv'
  <2>1. UNCHANGED <<auto, task, slot>>
    BY <1>3 DEF RequireWorkspaceConnection
  <2>2. \/ Reuse(a, p, "workspace")
        \/ Record(a, "auth", p, "workspace", NoConn) /\ UNCHANGED <<conn, active>>
    BY <1>3 DEF RequireWorkspaceConnection
  <2> QED BY <2>1, <2>2, ReuseKeeps, AuthKeeps
<1> DEFINE failed == [ask[a] EXCEPT !.at = "end", !.reply = "failed"]
<1>4. /\ failed \in AskType /\ failed.at = "end" /\ failed.reply = "failed" /\ failed.conn = ask[a].conn
      /\ failed.reused = ask[a].reused
      /\ AgentFails(a) => ask' = [ask EXCEPT ![a] = failed]
  BY <1>1 DEF AskType, AgentFails, AgentTypes
<1> HIDE DEF failed
<1>6. ASSUME NEW c \in Conn PROVE Given(c, "gone", NoTerm) \in ConnType /\ Given(c, "gone", NoTerm).st = "gone" /\ Given(c, "gone", NoTerm).term = NoTerm
  BY <1>1 DEF AgentTypes, ConnType, Given, NoTerm
<1>7. CASE AgentDials(a)
  <2>1. ask[a].at = "auth" /\ ask[a].conn = NoConn /\ ~ask[a].reused /\ ask[a].prof \in Prof /\ UNCHANGED <<active, auto, task, slot>>
    BY <1>1, <1>7 DEF AgentDials, AskBooks
  <2>2. CASE AgentFails(a) /\ conn' = conn
    BY <1>1, <1>4, <2>1, <2>2, AskGoesAlone
  <2>3. ASSUME NEW c \in Fresh, Dial(c, ask[a].prof), ask' = [ask EXCEPT ![a].at = "dial", ![a].conn = c] PROVE AgentInv'
    <3>1. c \in Conn /\ conn[c].st = "free"
      BY DEF Fresh
    <3>2. PICK t \in ConnType : t.st = "connecting" /\ t.term = NoTerm /\ conn' = [conn EXCEPT ![c] = t]
      BY <1>1, <2>1, <2>3, <3>1, DialIs
    <3> DEFINE r == [ask[a] EXCEPT !.at = "dial", !.conn = c]
    <3>3. r \in AskType /\ r.at = "dial" /\ r.conn = c /\ ~r.reused /\ r.prof \in Prof /\ ask' = [ask EXCEPT ![a] = r]
      BY <1>1, <2>1, <2>3, <3>1 DEF AskType, AgentTypes
    <3> HIDE DEF r
    <3> QED BY <1>1, <2>1, <3>1, <3>2, <3>3, AskGoes
  <2> QED BY <1>7, <2>2, <2>3 DEF AgentDials
<1>8. CASE AgentDialEnds(a)
  <2> DEFINE c == ask[a].conn
  <2>1. ask[a].at = "dial" /\ c \in Conn /\ conn[c].st = "connecting" /\ ~ask[a].reused /\ UNCHANGED <<auto, task, slot>>
    BY <1>1, <1>8 DEF AgentDialEnds, AskBooks
  <2>2. CASE /\ conn' = [conn EXCEPT ![c].st = "live", ![c].term = "pending"] /\ active' = c
             /\ ask' = [ask EXCEPT ![a].at = "opening"]
    <3> DEFINE t == Given(c, "live", "pending")
    <3>1. t \in ConnType /\ t.st = "live" /\ conn' = [conn EXCEPT ![c] = t]
      BY <1>1, <2>1, <2>2 DEF AgentTypes, ConnType, Given
    <3> DEFINE r == [ask[a] EXCEPT !.at = "opening"]
    <3>2. r \in AskType /\ r.at = "opening" /\ r.conn = c /\ ask' = [ask EXCEPT ![a] = r]
      BY <1>1, <2>2 DEF AskType, AgentTypes
    <3>3. ask[a].conn = c /\ active' \in Conn \union {NoConn}
      BY <2>1, <2>2
    <3> HIDE DEF t, c, r
    <3> QED BY <2>1, <3>1, <3>2, <3>3, AskGoes
  <2>3. CASE AgentFails(a) /\ Down(c) /\ active' = active
    <3> DEFINE t == Given(c, "gone", NoTerm)
    <3>1. t \in ConnType /\ t.st = "gone" /\ t.term = NoTerm /\ conn' = [conn EXCEPT ![c] = t]
      BY <1>1, <1>6, <2>1, <2>3, GivenUp
    <3>2. failed.kind = "workspace" => failed.reply \in {"failed", "open"}
      BY <1>4
    <3> HIDE DEF t
    <3> QED BY <1>1, <1>4, <2>1, <2>3, <3>1, <3>2, AskGoes
  <2> QED BY <1>8, <2>2, <2>3 DEF AgentDialEnds
<1>9. CASE ShellAnswers(a)
  <2> DEFINE c == ask[a].conn
  <2>1. /\ ask[a].at = "opening" /\ c \in Conn /\ conn[c].st \in {"live", "dead", "gone"} /\ conn[c] \in ConnType
        /\ UNCHANGED <<auto, task, slot>>
    BY <1>1, <1>9 DEF ShellAnswers, AskBooks, AgentTypes
  <2>2. CASE /\ conn[c].st = "live" /\ conn' = [conn EXCEPT ![c].term = "open"] /\ active' = c
             /\ ask' = [ask EXCEPT ![a].at = "end", ![a].reply = "open"]
    <3> DEFINE t == Given(c, "live", "open")
               r == [ask[a] EXCEPT !.at = "end", !.reply = "open"]
    <3>1. t \in ConnType /\ t.st = "live" /\ conn' = [conn EXCEPT ![c] = t]
      BY <1>1, <2>1, <2>2 DEF AgentTypes, ConnType, Given
    <3>2. r \in AskType /\ r.at = "end" /\ r.reply = "open" /\ ask' = [ask EXCEPT ![a] = r]
      BY <1>1, <2>2 DEF AgentTypes, AskType
    <3>3. conn[c].st = t.st /\ active' \in Conn \union {NoConn}
      BY <2>1, <2>2, <3>1
    <3> HIDE DEF t, r, c
    <3> QED BY <2>1, <3>1, <3>2, <3>3, AskGoes
  <2>3. CASE AgentFails(a) /\ conn' = Undone(a) /\ active' = ask[a].prev
    <3>1. active' \in Conn \union {NoConn}
      BY <1>1, <2>3 DEF AskType
    <3>2. failed.kind = "workspace" => failed.reply \in {"failed", "open"}
      BY <1>4
    <3>3. CASE ~InMap(c)
      BY <1>4, <2>1, <2>3, <3>1, <3>2, <3>3, AskGoesAlone DEF InMap, Undone
    <3>4. CASE InMap(c) /\ ~ask[a].reused
      <4> DEFINE t == Given(c, "gone", NoTerm)
      <4>1. t \in ConnType /\ t.st = "gone" /\ t.term = NoTerm
        BY <1>6, <2>1
      <4>2. conn' = [conn EXCEPT ![c] = t]
        BY <1>1, <2>1, <2>3, <3>4, GivenUp DEF Undone, Down, Given, AgentTypes, ConnType
      <4>3. conn[c].st \in {"live", "dead"}
        BY <2>1, <3>4 DEF InMap
      <4>4. failed.conn = c /\ ask' = [ask EXCEPT ![a] = failed]
        BY <1>4, <2>3
      <4> HIDE DEF t, c
      <4> QED BY <1>4, <2>1, <3>1, <3>2, <4>1, <4>2, <4>3, <4>4, AskGoes
    <3>5. CASE InMap(c) /\ ask[a].reused
      <4> DEFINE t == IF conn[c].term = "pending" THEN [conn[c] EXCEPT !.term = NoTerm] ELSE conn[c]
      <4>1. t \in ConnType /\ t.st = conn[c].st /\ (t.st # "live" => t.term = NoTerm)
        BY <1>1, <2>1 DEF ConnType, NoTermUnlessLive, NoTerm
      <4>2. conn' = [conn EXCEPT ![c] = t]
        BY <1>1, <2>1, <2>3, <3>5 DEF Undone, AgentTypes, ConnType
      <4>3. ask' = [ask EXCEPT ![a] = failed] /\ failed.reused
        BY <1>4, <2>3, <3>5
      <4> HIDE DEF t, c
      <4> QED BY <1>4, <2>1, <3>1, <3>2, <4>1, <4>2, <4>3, AskGoes
    <3> QED BY <3>3, <3>4, <3>5
  <2> QED BY <1>9, <2>2, <2>3 DEF ShellAnswers
<1>10. CASE AgentAgain(a)
  <2>1. Idle \in AskType /\ Idle.at = "idle"
    BY DEF Idle, AskType
  <2>2. ask' = [ask EXCEPT ![a] = Idle] /\ UNCHANGED <<auto, task, slot, conn>> /\ active' = active
    BY <1>10 DEF AgentAgain
  <2> QED BY <1>1, <2>1, <2>2, AskGoesAlone
<1> QED BY <1>2, <1>3, <1>7, <1>8, <1>9, <1>10

LEMMA AgentStep == AgentInv /\ [AgentNext]_agentVars => AgentInv'
<1> SUFFICES ASSUME AgentInv, [AgentNext]_agentVars PROVE AgentInv'
  OBVIOUS
<1>1. CASE UNCHANGED agentVars
  <2>1. UNCHANGED <<ask, slot, task, conn, active, auto>>
    BY <1>1 DEF agentVars
  <2>2. AgentTypes' /\ NoTermUnlessLive' /\ TaskBooks'
    BY <2>1 DEF AgentInv, AgentTypes, NoTermUnlessLive, TaskBooks
  <2>3. \A c \in Conn : Moves(c) /\ conn'[c] = conn[c]
    BY <2>1 DEF Moves
  <2> QED BY <2>1, <2>2, <2>3, OthersMove
<1>2. DOMAIN slot = DOMAIN Targets
  BY DEF AgentInv, AgentTypes
<1> QED BY <1>1, <1>2, AskKeeps, PanelKeeps, BatchTaskKeeps, BatchKeeps DEF AgentNext

(* The resource named is the one meant.                                    *)
LEMMA NamesAreResolved == NamesResolve
<1> SUFFICES ASSUME NEW q \in Queries, NEW p \in ResolveProfileRef(q), q # p, NEW r \in Prof \ {p}
             PROVE  /\ Lower(NameOf[r]) # Lower(q)
                    /\ Lower(NameOf[p]) # Lower(q) => r \notin Partial(q)
  BY DEF NamesResolve
<1>1. q \notin Prof
  BY DEF ResolveProfileRef
<1>2. ASSUME NEW S \in SUBSET Prof, Cardinality(S) = 1 PROVE \E x : S = {x}
  BY <1>2, FS_Subset, FS_Singleton, AgentAssumption
<1>3. Exact(q) \in SUBSET Prof /\ Partial(q) \in SUBSET Prof
  BY DEF Exact, Partial
<1>4. CASE Exact(q) # {}
  <2>1. Cardinality(Exact(q)) = 1 /\ p \in Exact(q)
    BY <1>1, <1>4 DEF ResolveProfileRef
  <2>2. Exact(q) = {p}
    BY <1>2, <1>3, <2>1
  <2> QED BY <2>2 DEF Exact
<1>5. CASE Exact(q) = {}
  <2>1. Cardinality(Partial(q)) = 1 /\ p \in Partial(q)
    BY <1>1, <1>5 DEF ResolveProfileRef
  <2>2. Partial(q) = {p}
    BY <1>2, <1>3, <2>1
  <2> QED BY <1>5, <2>2 DEF Exact
<1> QED BY <1>4, <1>5

LEMMA BooksGiveAgentSound == AgentInv => AgentSound
<1> SUFFICES ASSUME AgentInv PROVE AgentSound
  OBVIOUS
<1>1. DOMAIN slot = DOMAIN Targets
  BY DEF AgentInv, AgentTypes
<1>2. BatchLeavesNothing
  BY <1>1 DEF AgentInv, SlotBooks, TaskBooks, WorkersBound, BatchLeavesNothing
<1>3. AgentIsSeen
  BY DEF AgentInv, AskBooks, AgentIsSeen, InMap
<1> QED BY <1>2, <1>3, NamesAreResolved DEF AgentSound

(* For any resources, connections, calls and batches: what a batch opened  *)
(* is closed when its command is over, every ticked machine has exactly    *)
(* one result, no more machines are worked on than there are workers, a    *)
(* call that failed leaves no connection of its own, a file operation in a *)
(* bound workspace has a terminal in front of the operator, and a name is  *)
(* resolved to the one it means or to none.                                *)
THEOREM AgentActsOnItsTarget == AgentSpec => []AgentSound
BY BooksGiveAgentSound, AgentBegins, AgentStep, PTL DEF AgentSpec

-----------------------------------------------------------------------------
(***************************************************************************)
(* Saved resources.  The inductive invariant has two halves.  The tables:  *)
(* two calls share an id only if it is in met, so what a call has found of *)
(* an id it has in hand still holds when it goes on; secrets and names     *)
(* refer to what is saved.  The settings: the row is what the last write   *)
(* that has not answered will put in force.                                *)
(***************************************************************************)
ResSpec == ResInit /\ [][ResNext]_resVars

IsCall(r) == r = [kind |-> r.kind, at |-> r.at, id |-> r.id, touch |-> r.touch, todo |-> r.todo, val |-> r.val]
Asked == [auto : BOOLEAN, tier : Tiers, user : Users]

TableTypes ==
  /\ profiles \in [Profile -> ProfileRec \union {None}]
  /\ creds \subseteq Cred /\ groups \subseteq Group /\ dbs \subseteq Db
  /\ secrets \subseteq Profile \union Cred \union Db /\ bound \subseteq Profile /\ met \subseteq Ids
  /\ DOMAIN calls = Call /\ \A c \in Call : IsCall(calls[c]) /\ calls[c].touch \subseteq Ids

Apart == \A c, d \in Call : c # d => calls[c].touch \intersect calls[d].touch \subseteq met
SecretsKept == secrets \subseteq Saved \union creds \union dbs \union met
RefsKept ==
  \A p \in Saved :
    /\ profiles[p].cred \in creds \union met \union {None}
    /\ profiles[p].group \in groups \union met \union {None}
    /\ profiles[p].jump \in Cred => profiles[p].jump \in creds \union met

(* What a call may rely on, where it is.                                   *)
SaverBooks(r) ==
  /\ r.at \in {"settings", "editor"} => r.kind \in {"profileSave", "credentialSave", "dbProfileSave"}
  /\ r.kind = "profileSave" /\ r.at \in {"settings", "editor"} =>
       r.val \in r.touch /\ r.val \in Profile \union Cred /\ r.val \in Saved \union creds \union met
  /\ r.kind \in {"credentialSave", "dbProfileSave"} /\ r.at = "editor" =>
       r.id \in r.touch /\ r.id \in Cred \union Db /\ r.id \in creds \union dbs \union met
DeleterBooks(r) ==
  /\ r.at \in {"unset", "delete", "bindings"} =>
       /\ r.id \in r.touch
       /\ \/ r.kind = "profileDelete" /\ r.id \in Profile
          \/ r.kind = "credentialDelete" /\ r.id \in Cred /\ (r.id \in met \/ Unused(r.id))
          \/ r.kind = "dbProfileDelete" /\ r.id \in Db
  /\ r.at = "delete" /\ r.id \in secrets => r.id \in met
MoverBooks(r) ==
  r.at = "move" =>
    /\ r.kind = "groupDelete" /\ r.id \in Group /\ r.id \in r.touch
    /\ r.touch \intersect (Cred \union Group) \subseteq creds \union groups \union met
    /\ \A p \in r.todo : p \in Profile /\ r.val[p] \in ProfileRec /\ Named(r.val[p]) \subseteq r.touch
    /\ ~live => r.id \in met \/ Members(r.id) \subseteq r.todo
RestBooks(r) ==
  /\ r.at \in {"idle", "settings", "editor", "unset", "delete", "bindings", "move", "apply", "applyLanguage"}
  /\ r.at = "idle" => r = Rest
  /\ r.at = "apply" => r.kind \in {"toggle", "policy"}
  /\ r.at = "applyLanguage" => r.kind = "language"
Books(r) == SaverBooks(r) /\ DeleterBooks(r) /\ MoverBooks(r) /\ RestBooks(r)

TablesInv ==
  /\ TableTypes /\ Apart /\ SecretsKept /\ RefsKept
  /\ \A c \in Call : Books(calls[c])

(* What call c has done to the tables leaves the others' books alone: it   *)
(* took away, and wrote secrets of, only what it has in hand, and named    *)
(* only that in a resource, unless it took a resource out of its group.    *)
Minds(hand) ==
  /\ (Saved \ Saved') \union (creds \ creds') \union (groups \ groups') \union (dbs \ dbs') \subseteq hand
  /\ secrets' \ secrets \subseteq hand
  /\ \A p \in Saved' : \/ profiles'[p] = profiles[p]
                       \/ Named(profiles'[p]) \subseteq hand
                       \/ p \in Saved /\ profiles'[p] = [profiles[p] EXCEPT !.group = None]

LEMMA SavedAre == TableTypes => \A p \in Saved : p \in Profile /\ profiles[p] \in ProfileRec
BY DEF TableTypes, Saved

LEMMA OthersBooks ==
  ASSUME TablesInv, TableTypes', live' = live, met \subseteq met', NEW hand, Minds(hand),
         NEW d \in Call, calls'[d] = calls[d], calls[d].touch \intersect hand \subseteq met'
  PROVE  Books(calls[d])'
<1> DEFINE r == calls[d]
<1>1. Books(r) /\ TableTypes /\ r.touch \intersect hand \subseteq met'
  BY DEF TablesInv
<1>2. \A p \in Saved' : \/ p \in Saved /\ profiles'[p] = profiles[p]
                        \/ Named(profiles'[p]) \subseteq hand
                        \/ p \in Saved /\ profiles'[p] = [profiles[p] EXCEPT !.group = None]
  BY DEF Minds, Saved
<1>3. (\A p \in Saved : profiles[p] \in ProfileRec) /\ (\A p \in Saved' : profiles'[p] \in ProfileRec)
  BY <1>1, SavedAre DEF TableTypes, Saved
<1> HIDE DEF r
<1>4. SaverBooks(r)'
  BY <1>1 DEF Books, SaverBooks, Minds, r
<1>5. \A x \in r.touch : x \in secrets' => x \in met' \/ x \in secrets
  BY <1>1 DEF Minds
<1>6. ASSUME NEW x \in r.touch, x \in Cred, x \in met \/ Unused(x) PROVE x \in met' \/ Unused(x)'
  <2> SUFFICES ASSUME x \notin met', NEW p \in Saved' PROVE profiles'[p].cred # x /\ profiles'[p].jump # x
    BY DEF Unused
  <2>1. x \notin hand /\ Unused(x) /\ x # None
    BY <1>1, <1>6, ResAssumption DEF Ids
  <2>2. CASE Named(profiles'[p]) \subseteq hand
    BY <2>1, <2>2 DEF Named
  <2>3. CASE p \in Saved /\ profiles'[p] = profiles[p]
    BY <2>1, <2>3 DEF Unused
  <2>4. CASE p \in Saved /\ profiles'[p] = [profiles[p] EXCEPT !.group = None]
    BY <1>3, <2>1, <2>4 DEF Unused, ProfileRec
  <2> QED BY <1>2, <2>2, <2>3, <2>4
<1>7. DeleterBooks(r)'
  <2>1. r' = r
    BY DEF r
  <2> QED BY <1>1, <1>5, <1>6, <2>1 DEF Books, DeleterBooks
<1>8. ASSUME r.id \in Group, r.id \in r.touch, r.id \notin met'
      PROVE  Members(r.id)' \subseteq Members(r.id)
  <2> SUFFICES ASSUME NEW p \in Saved', profiles'[p].group = r.id PROVE p \in Saved /\ profiles[p].group = r.id
    BY DEF Members, r
  <2>1. r.id \notin hand /\ r.id # None
    BY <1>1, <1>8, ResAssumption DEF Ids
  <2>2. ~(Named(profiles'[p]) \subseteq hand)
    BY <2>1 DEF Named
  <2>3. CASE p \in Saved /\ profiles'[p] = [profiles[p] EXCEPT !.group = None]
    BY <1>3, <2>1, <2>3 DEF ProfileRec
  <2> QED BY <1>2, <2>2, <2>3
<1>9. MoverBooks(r)'
  <2>1. r' = r /\ live' = live
    BY DEF r
  <2>2. SUFFICES ASSUME r.at = "move" PROVE MoverBooks(r)'
    BY <2>1 DEF MoverBooks
  <2>3. MoverBooks(r)
    BY <1>1 DEF Books
  <2>4. r.touch \intersect (Cred \union Group) \subseteq creds' \union groups' \union met'
    BY <1>1, <2>2, <2>3 DEF MoverBooks, Minds
  <2>5. ~live => r.id \in met' \/ Members(r.id)' \subseteq r.todo
    BY <1>8, <2>2, <2>3 DEF MoverBooks
  <2> QED BY <2>1, <2>2, <2>3, <2>4, <2>5 DEF MoverBooks
<1>10. RestBooks(r)'
  BY <1>1 DEF Books, RestBooks, Rest, r
<1> QED BY <1>4, <1>7, <1>9, <1>10 DEF Books, r

(* The step of a call that goes on with the record r.                      *)
LEMMA CallGoes ==
  ASSUME TablesInv, live' = live, met' = met, NEW c \in Call, NEW r, IsCall(r), calls' = [calls EXCEPT ![c] = r],
         r.touch \subseteq calls[c].touch, Minds(calls[c].touch), Books(r)',
         profiles' \in [Profile -> ProfileRec \union {None}],
         creds' \subseteq Cred, groups' \subseteq Group, dbs' \subseteq Db,
         secrets' \subseteq Profile \union Cred \union Db, bound' \subseteq Profile,
         SecretsKept', RefsKept'
  PROVE  TablesInv'
<1>1. TableTypes /\ Apart
  BY DEF TablesInv
<1>2. calls'[c] = r /\ DOMAIN calls' = Call /\ \A d \in Call : d # c => calls'[d] = calls[d]
  BY <1>1 DEF TableTypes
<1>3. TableTypes'
  BY <1>1, <1>2 DEF TableTypes
<1>4. Apart'
  BY <1>1, <1>2 DEF Apart
<1>5. ASSUME NEW d \in Call PROVE Books(calls[d])'
  <2>1. CASE d = c
    BY <1>2, <2>1
  <2>2. CASE d # c
    <3>1. calls'[d] = calls[d] /\ calls[d].touch \intersect calls[c].touch \subseteq met'
      BY <1>1, <1>2, <2>2 DEF Apart
    <3> DEFINE hand == calls[c].touch
    <3>2. Minds(hand) /\ met \subseteq met' /\ calls[d].touch \intersect hand \subseteq met'
      BY <3>1
    <3> HIDE DEF hand
    <3> QED BY <1>3, <3>1, <3>2, OthersBooks
  <2> QED BY <2>1, <2>2
<1> QED BY <1>3, <1>4, <1>5 DEF TablesInv

(* A call that begins with the ids of r.touch in hand.                     *)
LEMMA CallEnters ==
  ASSUME TablesInv, live' = live, NEW c \in Call, NEW r, IsCall(r), calls' = [calls EXCEPT ![c] = r],
         r.touch \subseteq Ids, calls[c].at = "idle",
         met' = met \union (r.touch \intersect UNION {calls[d].touch : d \in Call \ {c}}),
         Minds(r.touch), Books(r)',
         profiles' \in [Profile -> ProfileRec \union {None}],
         creds' \subseteq Cred, groups' \subseteq Group, dbs' \subseteq Db,
         secrets' = secrets, bound' \subseteq Profile, SecretsKept', RefsKept'
  PROVE  TablesInv'
<1>1. TableTypes /\ Apart
  BY DEF TablesInv
<1>2. calls'[c] = r /\ DOMAIN calls' = Call /\ \A d \in Call : d # c => calls'[d] = calls[d]
  BY <1>1 DEF TableTypes
<1>3. met \subseteq met' /\ \A d \in Call : d # c => calls[d].touch \intersect r.touch \subseteq met'
  OBVIOUS
<1>4. TableTypes'
  BY <1>1, <1>2 DEF TableTypes
<1>5. Apart'
  BY <1>1, <1>2, <1>3 DEF Apart
<1>6. ASSUME NEW d \in Call PROVE Books(calls[d])'
  <2>1. CASE d = c
    BY <1>2, <2>1
  <2>2. CASE d # c
    <3> DEFINE hand == r.touch
    <3>1. calls'[d] = calls[d] /\ Minds(hand) /\ met \subseteq met' /\ calls[d].touch \intersect hand \subseteq met'
      BY <1>2, <1>3, <2>2
    <3> HIDE DEF hand
    <3> QED BY <1>4, <3>1, OthersBooks
  <2> QED BY <2>1, <2>2
<1> QED BY <1>4, <1>5, <1>6 DEF TablesInv

-----------------------------------------------------------------------------
LEMMA ResBegins == ResInit => TablesInv
<1> SUFFICES ASSUME ResInit PROVE TablesInv
  OBVIOUS
<1>1. IsCall(Rest) /\ Rest.touch = {} /\ Rest.at = "idle" /\ Rest.kind = "none"
  BY DEF IsCall, Rest
<1>2. \A c \in Call : calls[c] = Rest
  BY DEF ResInit
<1>3. TableTypes
  BY <1>1, <1>2 DEF ResInit, TableTypes
<1>4. SecretsKept /\ RefsKept /\ Apart
  BY <1>1, <1>2 DEF ResInit, SecretsKept, RefsKept, Apart, Saved
<1>5. Books(Rest)
  BY <1>1 DEF Books, SaverBooks, DeleterBooks, MoverBooks, RestBooks
<1> QED BY <1>2, <1>3, <1>4, <1>5 DEF TablesInv

LEMMA TablesStay ==
  ASSUME TablesInv, UNCHANGED <<tables, met, live>>
  PROVE  /\ \A hand : Minds(hand)
         /\ SecretsKept' /\ RefsKept' /\ \A r : Books(r) => Books(r)'
         /\ profiles' \in [Profile -> ProfileRec \union {None}]
         /\ creds' \subseteq Cred /\ groups' \subseteq Group /\ dbs' \subseteq Db
         /\ secrets' \subseteq Profile \union Cred \union Db /\ bound' \subseteq Profile
<1>1. UNCHANGED <<profiles, creds, groups, dbs, secrets, bound, met, live>>
  BY DEF tables
<1>2. SecretsKept' /\ RefsKept' /\ \A hand : Minds(hand)
  BY <1>1 DEF TablesInv, SecretsKept, RefsKept, Minds, Saved
<1>3. ASSUME NEW r, Books(r) PROVE Books(r)'
  <2>1. SaverBooks(r)' /\ RestBooks(r)'
    BY <1>1, <1>3 DEF Books, SaverBooks, RestBooks, Saved, Rest
  <2>2. DeleterBooks(r)'
    BY <1>1, <1>3 DEF Books, DeleterBooks, Unused, Saved
  <2>3. MoverBooks(r)'
    BY <1>1, <1>3 DEF Books, MoverBooks, Members, Saved
  <2> QED BY <2>1, <2>2, <2>3 DEF Books
<1> QED BY <1>1, <1>2, <1>3 DEF TablesInv, TableTypes

(* A call between two steps of its own.                                    *)
LEMMA GoOnIs ==
  ASSUME TablesInv, NEW c \in Call, NEW at
  PROVE  \E r : /\ IsCall(r) /\ r.kind = calls[c].kind /\ r.at = at /\ r.id = calls[c].id
                /\ r.touch = calls[c].touch /\ r.todo = calls[c].todo /\ r.val = calls[c].val
                /\ GoOn(c, at) => calls' = [calls EXCEPT ![c] = r]
<1> DEFINE r == [calls[c] EXCEPT !.at = at]
<1>1. IsCall(calls[c]) /\ DOMAIN calls = Call
  BY DEF TablesInv, TableTypes
<1>2. /\ IsCall(r) /\ r.kind = calls[c].kind /\ r.at = at /\ r.id = calls[c].id
      /\ r.touch = calls[c].touch /\ r.todo = calls[c].todo /\ r.val = calls[c].val
  BY <1>1 DEF IsCall
<1>3. GoOn(c, at) => calls' = [calls EXCEPT ![c] = r]
  BY <1>1 DEF GoOn
<1> HIDE DEF r
<1> QED BY <1>2, <1>3

LEMMA RestIs == IsCall(Rest) /\ Rest.touch = {} /\ Rest.at = "idle" /\ Rest.kind = "none"
BY DEF IsCall, Rest

LEMMA RestHasBooks == Books(Rest) /\ Books(Rest)'
BY RestIs DEF Books, SaverBooks, DeleterBooks, MoverBooks, RestBooks

LEMMA EnterIs ==
  ASSUME NEW c \in Call, NEW kind, NEW at, NEW id, NEW touch, NEW todo, NEW val, Enter(c, kind, at, id, touch, todo, val)
  PROVE  \E r : /\ IsCall(r) /\ r.kind = kind /\ r.at = at /\ r.id = id /\ r.touch = touch /\ r.todo = todo /\ r.val = val
                /\ calls' = [calls EXCEPT ![c] = r] /\ calls[c].at = "idle"
                /\ met' = met \union (r.touch \intersect UNION {calls[d].touch : d \in Call \ {c}})
<1> DEFINE r == [kind |-> kind, at |-> at, id |-> id, touch |-> touch, todo |-> todo, val |-> val]
<1>1. /\ IsCall(r) /\ r.kind = kind /\ r.at = at /\ r.id = id /\ r.touch = touch /\ r.todo = todo /\ r.val = val
  BY DEF IsCall
<1>2. /\ calls' = [calls EXCEPT ![c] = r] /\ calls[c].at = "idle"
      /\ met' = met \union (r.touch \intersect UNION {calls[d].touch : d \in Call \ {c}})
  BY DEF Enter
<1> HIDE DEF r
<1> QED BY <1>1, <1>2

(* Steps that leave the tables alone.                                      *)
LEMMA RememberKeeps == ASSUME TablesInv, NEW c \in Call, RememberUser(c) PROVE TablesInv'
<1>1. At(c, "profileSave", "settings") /\ GoOn(c, "editor") /\ UNCHANGED <<tables, met, live>>
  BY DEF RememberUser
<1>2. PICK r : /\ IsCall(r) /\ r.kind = calls[c].kind /\ r.at = "editor" /\ r.id = calls[c].id
               /\ r.touch = calls[c].touch /\ r.val = calls[c].val /\ calls' = [calls EXCEPT ![c] = r]
  BY <1>1, GoOnIs
<1>3. Books(r)
  <2>1. Books(calls[c])
    BY DEF TablesInv
  <2> QED BY <1>1, <1>2, <2>1 DEF Books, SaverBooks, DeleterBooks, MoverBooks, RestBooks, At
<1> QED BY <1>1, <1>2, <1>3, TablesStay, CallGoes

LEMMA LeaveKeeps ==
  ASSUME TablesInv, NEW c \in Call, Leave(c), UNCHANGED <<tables, met, live>> PROVE TablesInv'
<1>1. calls' = [calls EXCEPT ![c] = Rest]
  BY DEF Leave
<1> QED BY <1>1, RestIs, RestHasBooks, TablesStay, CallGoes

LEMMA AnswerKeeps == ASSUME TablesInv, NEW c \in Call, ApplySettings(c) \/ ApplyLanguage(c) PROVE TablesInv'
BY LeaveKeeps DEF ApplySettings, ApplyLanguage

(* Calls that begin and change no table.                                   *)
LEMMA EnterKeeps ==
  ASSUME TablesInv, UNCHANGED <<tables, live>>, NEW c \in Call, NEW r, IsCall(r), calls' = [calls EXCEPT ![c] = r],
         calls[c].at = "idle", r.touch \subseteq Ids, Books(r),
         met' = met \union (r.touch \intersect UNION {calls[d].touch : d \in Call \ {c}})
  PROVE  TablesInv'
<1>1. UNCHANGED <<profiles, creds, groups, dbs, secrets, bound, live>> /\ met \subseteq met'
  BY DEF tables
<1>2. SecretsKept' /\ RefsKept' /\ Minds(r.touch)
  BY <1>1 DEF TablesInv, SecretsKept, RefsKept, Minds, Saved
<1>3. Books(r)'
  <2>1. SaverBooks(r)' /\ RestBooks(r)'
    BY <1>1 DEF Books, SaverBooks, RestBooks, Saved, Rest
  <2>2. DeleterBooks(r)'
    BY <1>1 DEF Books, DeleterBooks, Unused, Saved
  <2>3. MoverBooks(r)'
    BY <1>1 DEF Books, MoverBooks, Members, Saved
  <2> QED BY <2>1, <2>2, <2>3 DEF Books
<1>4. TableTypes
  BY DEF TablesInv
<1> QED BY <1>1, <1>2, <1>3, <1>4, CallEnters DEF TableTypes

LEMMA SettingsKeep ==
  ASSUME TablesInv, NEW c \in Call,
         \/ ToggleAgentAutoConnect(c) \/ (\E t \in Tiers : SaveExecPolicy(c, t))
         \/ (\E l \in {"zh", "en"} : LanguageSave(c, l))
  PROVE  TablesInv'
<1>1. ASSUME NEW kind \in {"toggle", "policy"}, NEW val, SaveSettings(c, kind, val) PROVE TablesInv'
  <2>1. Enter(c, kind, "apply", None, {}, {}, val) /\ UNCHANGED <<tables, live>>
    BY <1>1 DEF SaveSettings
  <2>2. PICK r : /\ IsCall(r) /\ r.kind = kind /\ r.at = "apply" /\ r.touch = {}
                 /\ calls' = [calls EXCEPT ![c] = r] /\ calls[c].at = "idle"
                 /\ met' = met \union (r.touch \intersect UNION {calls[d].touch : d \in Call \ {c}})
    BY <2>1, EnterIs
  <2>3. Books(r)
    BY <2>2 DEF Books, SaverBooks, DeleterBooks, MoverBooks, RestBooks
  <2> QED BY <2>1, <2>2, <2>3, EnterKeeps
<1>2. ASSUME NEW l \in {"zh", "en"}, LanguageSave(c, l) PROVE TablesInv'
  <2>1. Enter(c, "language", "applyLanguage", None, {}, {}, l) /\ UNCHANGED <<tables, live>>
    BY <1>2 DEF LanguageSave
  <2>2. PICK r : /\ IsCall(r) /\ r.kind = "language" /\ r.at = "applyLanguage" /\ r.touch = {}
                 /\ calls' = [calls EXCEPT ![c] = r] /\ calls[c].at = "idle"
                 /\ met' = met \union (r.touch \intersect UNION {calls[d].touch : d \in Call \ {c}})
    BY <2>1, EnterIs
  <2>3. Books(r)
    BY <2>2 DEF Books, SaverBooks, DeleterBooks, MoverBooks, RestBooks
  <2> QED BY <2>1, <2>2, <2>3, EnterKeeps
<1>3. CASE ToggleAgentAutoConnect(c)
  BY <1>1, <1>3 DEF ToggleAgentAutoConnect
<1>4. ASSUME NEW t \in Tiers, SaveExecPolicy(c, t) PROVE TablesInv'
  BY <1>1, <1>4 DEF SaveExecPolicy
<1> QED BY <1>2, <1>3, <1>4

LEMMA DeletesBegin ==
  ASSUME TablesInv, NEW c \in Call,
         \/ \E p \in Profile : ProfileDelete(c, p)
         \/ \E k \in Cred : CredentialDelete(c, k)
         \/ \E d \in Db : DbProfileDelete(c, d)
  PROVE  TablesInv'
<1>1. ASSUME NEW kind, NEW x \in Ids, Enter(c, kind, "unset", x, {x}, {}, None), UNCHANGED <<tables, live>>,
             \/ kind = "profileDelete" /\ x \in Profile
             \/ kind = "credentialDelete" /\ x \in Cred /\ Unused(x)
             \/ kind = "dbProfileDelete" /\ x \in Db
      PROVE  TablesInv'
  <2>1. PICK r : /\ IsCall(r) /\ r.kind = kind /\ r.at = "unset" /\ r.id = x /\ r.touch = {x}
                 /\ calls' = [calls EXCEPT ![c] = r] /\ calls[c].at = "idle"
                 /\ met' = met \union (r.touch \intersect UNION {calls[d].touch : d \in Call \ {c}})
    BY <1>1, EnterIs
  <2>2. Books(r)
    BY <1>1, <2>1 DEF Books, SaverBooks, DeleterBooks, MoverBooks, RestBooks
  <2> QED BY <1>1, <2>1, <2>2, EnterKeeps
<1>2. ASSUME NEW p \in Profile, ProfileDelete(c, p) PROVE TablesInv'
  BY <1>1, <1>2 DEF ProfileDelete, Ids
<1>3. ASSUME NEW k \in Cred, CredentialDelete(c, k) PROVE TablesInv'
  BY <1>1, <1>3 DEF CredentialDelete, Ids
<1>4. ASSUME NEW d \in Db, DbProfileDelete(c, d) PROVE TablesInv'
  BY <1>1, <1>4 DEF DbProfileDelete, Ids
<1> QED BY <1>2, <1>3, <1>4

(* A step of no call: it takes nothing away and names nothing.             *)
LEMMA NoCallKeeps ==
  ASSUME TablesInv, UNCHANGED <<calls, met, live>>, Minds({}),
         profiles' \in [Profile -> ProfileRec \union {None}],
         creds' \subseteq Cred, groups' \subseteq Group, dbs' \subseteq Db,
         secrets' \subseteq Profile \union Cred \union Db, bound' \subseteq Profile,
         SecretsKept', RefsKept'
  PROVE  TablesInv'
<1>1. TableTypes /\ Apart
  BY DEF TablesInv
<1>2. TableTypes' /\ Apart'
  BY <1>1 DEF TableTypes, Apart
<1>3. ASSUME NEW d \in Call PROVE Books(calls[d])'
  <2> DEFINE hand == {}
  <2>1. Minds(hand) /\ met \subseteq met' /\ calls[d].touch \intersect hand \subseteq met' /\ calls'[d] = calls[d]
    OBVIOUS
  <2> HIDE DEF hand
  <2> QED BY <1>2, <2>1, OthersBooks
<1> QED BY <1>2, <1>3 DEF TablesInv

LEMMA NoCallSteps ==
  ASSUME TablesInv, (\E p \in Profile : BindWorkspace(p)) \/ (\E g \in Group : GroupSave(g))
  PROVE  TablesInv'
<1>1. UNCHANGED <<profiles, creds, dbs, secrets, calls, met, live>> /\ groups \subseteq groups'
  BY DEF BindWorkspace, GroupSave
<1>2. TableTypes /\ bound' \subseteq Profile /\ groups' \subseteq Group
  BY DEF BindWorkspace, GroupSave, TablesInv, TableTypes
<1>3. Minds({}) /\ SecretsKept' /\ RefsKept'
  BY <1>1 DEF TablesInv, SecretsKept, RefsKept, Minds, Saved
<1> QED BY <1>1, <1>2, <1>3, NoCallKeeps DEF TableTypes

(* A resource is saved: it names what is there.                            *)
LEMMA ProfileSaveKeeps ==
  ASSUME TablesInv, NEW c \in Call, NEW p \in Profile, NEW n \in ProfileRec, ProfileSave(c, p, n) PROVE TablesInv'
<1>1. /\ TableTypes /\ SecretsKept /\ RefsKept
      /\ n.cred \in Cred \union {None} /\ n.group \in Group \union {None} /\ n.jump \in Profile \union Cred \union {None}
      /\ n # None /\ p # None
  BY ResAssumption DEF TablesInv, ProfileRec, Ids
<1>2. /\ profiles' = [profiles EXCEPT ![p] = n] /\ UNCHANGED <<creds, groups, dbs, secrets, bound, live>>
      /\ Acceptable(p, n)
  BY DEF ProfileSave
<1> DEFINE hand == {p} \union Named(n)
           kept == IF n.cred = None THEN p ELSE n.cred
<1>3. /\ hand \subseteq Ids /\ Named(n) \subseteq hand /\ p \in hand
      /\ kept \in hand /\ kept \in Profile \union Cred /\ (kept = p \/ kept \in creds)
  BY <1>1, <1>2 DEF Named, Ids, Acceptable
<1>4. Enter(c, "profileSave", "settings", p, hand, {}, kept)
  BY DEF ProfileSave
<1> HIDE DEF hand, kept
<1>5. PICK r : /\ IsCall(r) /\ r.kind = "profileSave" /\ r.at = "settings" /\ r.touch = hand /\ r.val = kept
               /\ calls' = [calls EXCEPT ![c] = r] /\ calls[c].at = "idle"
               /\ met' = met \union (r.touch \intersect UNION {calls[d].touch : d \in Call \ {c}})
  BY <1>4, EnterIs
<1>6. /\ Saved' = Saved \union {p} /\ profiles'[p] = n /\ \A q \in Profile : q # p => profiles'[q] = profiles[q]
      /\ profiles' \in [Profile -> ProfileRec \union {None}] /\ met \subseteq met'
  BY <1>1, <1>2, <1>5 DEF TableTypes, Saved
<1>7. Minds(r.touch)
  BY <1>2, <1>3, <1>5, <1>6 DEF Minds, Saved
<1>8. SecretsKept'
  BY <1>1, <1>2, <1>6 DEF SecretsKept
<1>9. RefsKept'
  <2> SUFFICES ASSUME NEW q \in Saved'
               PROVE  /\ profiles'[q].cred \in creds' \union met' \union {None}
                      /\ profiles'[q].group \in groups' \union met' \union {None}
                      /\ profiles'[q].jump \in Cred => profiles'[q].jump \in creds' \union met'
    BY DEF RefsKept
  <2>1. CASE q = p
    BY <1>1, <1>2, <1>6, <2>1 DEF Acceptable
  <2>2. CASE q # p
    BY <1>1, <1>2, <1>6, <2>2 DEF RefsKept, Saved
  <2> QED BY <2>1, <2>2
<1>10. Books(r)'
  <2>1. r.val \in Saved' \union creds' \union met' /\ r.val \in r.touch /\ r.val \in Profile \union Cred
    BY <1>2, <1>3, <1>5, <1>6
  <2> QED BY <1>5, <2>1 DEF Books, SaverBooks, DeleterBooks, MoverBooks, RestBooks
<1> QED BY <1>1, <1>2, <1>3, <1>5, <1>6, <1>7, <1>8, <1>9, <1>10, CallEnters DEF TableTypes

(* A secret is stored under what the call has in hand.                     *)
LEMMA SecretKeeps ==
  ASSUME TablesInv, NEW c \in Call, NEW x, x \in calls[c].touch, x \in Profile \union Cred \union Db,
         x \in Saved \union creds \union dbs \union met, Leave(c),
         secrets' \in {secrets, secrets \union {x}, secrets \ {x}},
         UNCHANGED <<profiles, creds, groups, dbs, bound, met, live>>
  PROVE  TablesInv'
<1>1. TableTypes /\ calls' = [calls EXCEPT ![c] = Rest]
  BY DEF TablesInv, Leave
<1>2. secrets' \subseteq secrets \union {x}
  OBVIOUS
<1>3. SecretsKept' /\ RefsKept' /\ Minds(calls[c].touch)
  BY <1>2 DEF TablesInv, SecretsKept, RefsKept, Minds, Saved
<1>4. secrets' \subseteq Profile \union Cred \union Db
  BY <1>1, <1>2 DEF TableTypes
<1> QED BY <1>1, <1>3, <1>4, RestIs, RestHasBooks, CallGoes DEF TableTypes

LEMMA SecretsFollow == ASSUME TablesInv, NEW c \in Call, EditorWrites(c) \/ SecretFollows(c) PROVE TablesInv'
<1>1. SaverBooks(calls[c])
  BY DEF TablesInv, Books
<1>2. CASE EditorWrites(c)
  <2> DEFINE x == calls[c].val
  <2>1. x \in calls[c].touch /\ x \in Profile \union Cred \union Db /\ x \in Saved \union creds \union dbs \union met
    BY <1>1, <1>2 DEF SaverBooks, EditorWrites, At
  <2>2. /\ Leave(c) /\ secrets' \in {secrets, secrets \union {x}, secrets \ {x}}
        /\ UNCHANGED <<profiles, creds, groups, dbs, bound, met, live>>
    BY <1>2 DEF EditorWrites
  <2> HIDE DEF x
  <2> QED BY <2>1, <2>2, SecretKeeps
<1>3. CASE SecretFollows(c)
  <2> DEFINE x == calls[c].id
  <2>1. x \in calls[c].touch /\ x \in Profile \union Cred \union Db /\ x \in Saved \union creds \union dbs \union met
    BY <1>1, <1>3 DEF SaverBooks, SecretFollows
  <2>2. /\ Leave(c) /\ secrets' \in {secrets, secrets \union {x}, secrets \ {x}}
        /\ UNCHANGED <<profiles, creds, groups, dbs, bound, met, live>>
    BY <1>3 DEF SecretFollows
  <2> HIDE DEF x
  <2> QED BY <2>1, <2>2, SecretKeeps
<1> QED BY <1>2, <1>3

(* A credential or a database profile is saved.                            *)
LEMMA RowSaved == ASSUME TablesInv, NEW c \in Call,
         (\E k \in Cred : CredentialSave(c, k)) \/ (\E d \in Db : DbProfileSave(c, d))
  PROVE  TablesInv'
<1>1. ASSUME NEW kind \in {"credentialSave", "dbProfileSave"}, NEW x \in Cred \union Db,
             Enter(c, kind, "editor", x, {x}, {}, None), UNCHANGED <<profiles, groups, secrets, bound, live>>,
             creds' \subseteq Cred, dbs' \subseteq Db, creds \subseteq creds', dbs \subseteq dbs', x \in creds' \union dbs'
      PROVE  TablesInv'
  <2>1. PICK r : /\ IsCall(r) /\ r.kind = kind /\ r.at = "editor" /\ r.id = x /\ r.touch = {x}
                 /\ calls' = [calls EXCEPT ![c] = r] /\ calls[c].at = "idle"
                 /\ met' = met \union (r.touch \intersect UNION {calls[d].touch : d \in Call \ {c}})
    BY <1>1, EnterIs
  <2>2. met \subseteq met' /\ TableTypes /\ r.touch \subseteq Ids
    BY <2>1 DEF TablesInv, Ids
  <2>3. SecretsKept' /\ RefsKept' /\ Minds(r.touch)
    BY <1>1, <2>1, <2>2 DEF TablesInv, SecretsKept, RefsKept, Minds, Saved
  <2>4. Books(r)'
    BY <1>1, <2>1 DEF Books, SaverBooks, DeleterBooks, MoverBooks, RestBooks
  <2> QED BY <1>1, <2>1, <2>2, <2>3, <2>4, CallEnters DEF TableTypes
<1>2. TableTypes
  BY DEF TablesInv
<1>3. ASSUME NEW k \in Cred, CredentialSave(c, k) PROVE TablesInv'
  BY <1>1, <1>2, <1>3 DEF CredentialSave, TableTypes
<1>4. ASSUME NEW d \in Db, DbProfileSave(c, d) PROVE TablesInv'
  BY <1>1, <1>2, <1>4 DEF DbProfileSave, TableTypes
<1> QED BY <1>3, <1>4
(* The steps of a delete.                                                  *)
LEMMA UnsetKeeps == ASSUME TablesInv, NEW c \in Call, UnsetSecrets(c) PROVE TablesInv'
<1>1. calls[c].at = "unset" /\ UNCHANGED <<profiles, creds, groups, dbs, bound, met, live>>
  BY DEF UnsetSecrets
<1>2. CASE secrets' = secrets /\ Leave(c)
  BY <1>1, <1>2, LeaveKeeps DEF tables
<1>3. CASE secrets' = secrets \ {calls[c].id} /\ GoOn(c, "delete")
  <2>1. PICK r : /\ IsCall(r) /\ r.kind = calls[c].kind /\ r.at = "delete" /\ r.id = calls[c].id
                 /\ r.touch = calls[c].touch /\ calls' = [calls EXCEPT ![c] = r]
    BY <1>3, GoOnIs
  <2>2. /\ r.id \in r.touch /\ r.id \notin secrets'
        /\ \/ r.kind = "profileDelete" /\ r.id \in Profile
           \/ r.kind = "credentialDelete" /\ r.id \in Cred /\ (r.id \in met \/ Unused(r.id))
           \/ r.kind = "dbProfileDelete" /\ r.id \in Db
    BY <1>1, <1>3, <2>1 DEF TablesInv, Books, DeleterBooks
  <2>3. Books(r)'
    <3>1. SaverBooks(r)' /\ RestBooks(r)' /\ MoverBooks(r)'
      BY <2>1 DEF SaverBooks, RestBooks, MoverBooks
    <3>2. DeleterBooks(r)'
      BY <1>1, <2>1, <2>2 DEF DeleterBooks, Unused, Saved
    <3> QED BY <3>1, <3>2 DEF Books
  <2>4. SecretsKept' /\ RefsKept' /\ Minds(calls[c].touch)
    BY <1>1, <1>3 DEF TablesInv, SecretsKept, RefsKept, Minds, Saved
  <2> QED BY <1>1, <1>3, <2>1, <2>3, <2>4, CallGoes DEF TablesInv, TableTypes
<1> QED BY <1>2, <1>3 DEF UnsetSecrets

LEMMA ProfileRowGoes == ASSUME TablesInv, NEW c \in Call, DeleteProfileRow(c) PROVE TablesInv'
<1>1. /\ calls[c].kind = "profileDelete" /\ calls[c].at = "delete"
      /\ UNCHANGED <<creds, groups, dbs, secrets, bound, met, live>>
  BY DEF DeleteProfileRow, At
<1>2. CASE profiles' = profiles /\ Leave(c)
  BY <1>1, <1>2, LeaveKeeps DEF tables
<1>3. CASE profiles' = [profiles EXCEPT ![calls[c].id] = None] /\ GoOn(c, "bindings")
  <2>1. PICK r : /\ IsCall(r) /\ r.kind = calls[c].kind /\ r.at = "bindings" /\ r.id = calls[c].id
                 /\ r.touch = calls[c].touch /\ calls' = [calls EXCEPT ![c] = r]
    BY <1>3, GoOnIs
  <2>2. TableTypes /\ r.id \in r.touch /\ r.id \in Profile /\ (r.id \in secrets => r.id \in met)
    BY <1>1, <2>1, ResAssumption DEF TablesInv, Books, DeleterBooks
  <2>3. /\ Saved' = Saved \ {r.id} /\ \A q \in Saved' : profiles'[q] = profiles[q]
        /\ profiles' \in [Profile -> ProfileRec \union {None}]
    BY <1>3, <2>1, <2>2 DEF TableTypes, Saved
  <2>4. SecretsKept' /\ RefsKept'
    BY <1>1, <2>2, <2>3 DEF TablesInv, SecretsKept, RefsKept
  <2>5. Minds(calls[c].touch)
    BY <1>1, <2>1, <2>2, <2>3 DEF Minds
  <2>6. Books(r)'
    BY <1>1, <2>1, <2>2 DEF Books, SaverBooks, RestBooks, MoverBooks, DeleterBooks
  <2> QED BY <1>1, <2>1, <2>2, <2>3, <2>4, <2>5, <2>6, CallGoes DEF TableTypes
<1> QED BY <1>2, <1>3 DEF DeleteProfileRow

LEMMA BindingsGo == ASSUME TablesInv, NEW c \in Call, DeleteBindings(c) PROVE TablesInv'
<1>1. Leave(c) /\ UNCHANGED <<profiles, creds, groups, dbs, secrets, met, live>> /\ bound' \subseteq bound
  BY DEF DeleteBindings
<1>2. SecretsKept' /\ RefsKept' /\ Minds(calls[c].touch)
  BY <1>1 DEF TablesInv, SecretsKept, RefsKept, Minds, Saved
<1>3. TableTypes /\ calls' = [calls EXCEPT ![c] = Rest]
  BY <1>1 DEF Leave, TablesInv
<1> QED BY <1>1, <1>2, <1>3, RestIs, RestHasBooks, CallGoes DEF TableTypes

(* A credential is deleted: nothing names it, or another call had it too.  *)
LEMMA RowGoes == ASSUME TablesInv, NEW c \in Call, DeleteRow(c) PROVE TablesInv'
<1> DEFINE x == calls[c].id
<1>1. /\ calls[c].at = "delete" /\ calls[c].kind \in {"credentialDelete", "dbProfileDelete"} /\ Leave(c)
      /\ UNCHANGED <<profiles, groups, secrets, bound, met, live>>
      /\ creds \ {x} \subseteq creds' /\ creds' \subseteq creds /\ dbs \ {x} \subseteq dbs' /\ dbs' \subseteq dbs
  BY DEF DeleteRow
<1>2. /\ x \in calls[c].touch /\ (x \in secrets => x \in met)
      /\ x \in Cred => x \in met \/ Unused(x)
  BY <1>1, ResAssumption DEF TablesInv, Books, DeleterBooks
<1>3. TableTypes /\ calls' = [calls EXCEPT ![c] = Rest] /\ Saved' = Saved /\ SecretsKept /\ RefsKept
  BY <1>1 DEF Leave, TablesInv, Saved
<1> HIDE DEF x
<1>4. SecretsKept' /\ Minds(calls[c].touch)
  BY <1>1, <1>2, <1>3 DEF SecretsKept, Minds
<1>5. RefsKept'
  BY <1>1, <1>2, <1>3 DEF RefsKept, Unused, TableTypes
<1> QED BY <1>1, <1>3, <1>4, <1>5, RestIs, RestHasBooks, CallGoes DEF TableTypes

-----------------------------------------------------------------------------
LEMMA GroupDeleteKeeps ==
  ASSUME TablesInv, NEW c \in Call, NEW g \in Group, GroupDelete(c, g) PROVE TablesInv'
<1> DEFINE hand == {g} \union Members(g) \union UNION {Named(profiles[p]) : p \in Members(g)}
           val == [p \in Members(g) |-> profiles[p]]
           members == Members(g)
<1>1. TableTypes /\ RefsKept /\ g \in groups /\ UNCHANGED <<tables, live>>
  BY DEF TablesInv, GroupDelete
<1>2. \A p \in members : p \in Profile /\ p \in Saved /\ profiles[p] \in ProfileRec /\ val[p] = profiles[p]
  BY <1>1, SavedAre DEF Members
<1>3. \A p \in members : /\ profiles[p].cred \in Cred \union {None} /\ profiles[p].group \in Group \union {None}
                         /\ profiles[p].jump \in Profile \union Cred \union {None}
  BY <1>2 DEF ProfileRec
<1>4. \A p \in members : /\ Named(profiles[p]) \subseteq Ids
                         /\ Named(profiles[p]) \intersect (Cred \union Group) \subseteq creds \union groups \union met
  <2> SUFFICES ASSUME NEW p \in members
               PROVE  /\ Named(profiles[p]) \subseteq Ids
                      /\ Named(profiles[p]) \intersect (Cred \union Group) \subseteq creds \union groups \union met
    OBVIOUS
  <2> HIDE DEF members, val, hand
  <2> QED BY <1>1, <1>2, <1>3, ResAssumption DEF RefsKept, Named, Ids
<1>5. /\ hand \subseteq Ids /\ hand \intersect (Cred \union Group) \subseteq creds \union groups \union met /\ g \in hand
      /\ \A p \in members : Named(profiles[p]) \subseteq hand
  <2>1. \A y \in hand : y = g \/ y \in members \/ \E p \in members : y \in Named(profiles[p])
    OBVIOUS
  <2>2. g \in hand /\ \A p \in members : Named(profiles[p]) \subseteq hand
    OBVIOUS
  <2> HIDE DEF members, hand, val
  <2> QED BY <1>1, <1>2, <1>4, <2>1, <2>2, ResAssumption DEF Ids
<1>6. Enter(c, "groupDelete", "move", g, hand, members, val)
  BY DEF GroupDelete
<1>7. members = Members(g)
  OBVIOUS
<1> HIDE DEF hand, val, members
<1>8. PICK r : /\ IsCall(r) /\ r.kind = "groupDelete" /\ r.at = "move" /\ r.id = g /\ r.touch = hand
               /\ r.todo = members /\ r.val = val /\ calls' = [calls EXCEPT ![c] = r] /\ calls[c].at = "idle"
               /\ met' = met \union (r.touch \intersect UNION {calls[d].touch : d \in Call \ {c}})
  BY <1>6, EnterIs
<1>9. Books(r)
  <2>1. MoverBooks(r)
    BY <1>2, <1>5, <1>7, <1>8 DEF MoverBooks
  <2> QED BY <1>8, <2>1 DEF Books, SaverBooks, DeleterBooks, RestBooks
<1> QED BY <1>1, <1>5, <1>8, <1>9, EnterKeeps

(* Over a live table the member is put back as it is; over a copy as it    *)
(* was, and then it names only what the call has in hand.                  *)
LEMMA MoveKeeps == ASSUME TablesInv, NEW c \in Call, NEW p \in Profile, MoveMember(c, p) PROVE TablesInv'
<1> DEFINE left == calls[c].todo \ {p}
           rec == [calls[c] EXCEPT !.todo = left]
           was == IF live THEN profiles[p] ELSE calls[c].val[p]
<1>1. /\ calls[c].kind = "groupDelete" /\ calls[c].at = "move"
      /\ IF live THEN p \in Members(calls[c].id) ELSE p \in calls[c].todo
      /\ UNCHANGED <<creds, groups, dbs, secrets, bound, met, live>>
  BY DEF MoveMember, At
<1>2. TableTypes /\ SecretsKept /\ RefsKept /\ Books(calls[c]) /\ MoverBooks(calls[c]) /\ IsCall(calls[c]) /\ DOMAIN calls = Call
  BY DEF TablesInv, TableTypes, Books
<1>3. CASE profiles' = profiles /\ Leave(c)
  BY <1>1, <1>3, LeaveKeeps DEF tables
<1>4. CASE /\ profiles' = [profiles EXCEPT ![p] = [was EXCEPT !.group = None]]
           /\ calls' = [calls EXCEPT ![c].todo = @ \ {p}]
  <2>1. PICK todo : todo = left
    OBVIOUS
  <2>2. PICK r : /\ IsCall(r) /\ r.kind = calls[c].kind /\ r.at = "move" /\ r.id = calls[c].id
                 /\ r.touch = calls[c].touch /\ r.todo = todo /\ r.val = calls[c].val
                 /\ calls' = [calls EXCEPT ![c] = r]
    <3>1. calls' = [calls EXCEPT ![c] = rec]
      BY <1>2, <1>4
    <3>2. /\ IsCall(rec) /\ rec.kind = calls[c].kind /\ rec.at = "move" /\ rec.id = calls[c].id
          /\ rec.touch = calls[c].touch /\ rec.todo = left /\ rec.val = calls[c].val
      <4> HIDE DEF left
      <4> QED BY <1>1, <1>2 DEF IsCall
    <3> HIDE DEF rec, left
    <3> QED BY <2>1, <3>1, <3>2
  <2>3. /\ was \in ProfileRec
        /\ live => p \in Saved /\ was = profiles[p]
        /\ ~live => Named(was) \subseteq calls[c].touch
    <3>1. CASE live
      BY <1>1, <1>2, <3>1, SavedAre DEF Members
    <3>2. CASE ~live
      BY <1>1, <1>2, <3>2 DEF MoverBooks
    <3> QED BY <3>1, <3>2
  <2>4. was \in ProfileRec /\ calls[c].id \in Group /\ calls[c].id # None /\ calls[c].id \in calls[c].touch
        /\ calls[c].touch \intersect (Cred \union Group) \subseteq creds \union groups \union met
    BY <1>1, <1>2, <2>3, ResAssumption DEF MoverBooks, Ids
  <2> HIDE DEF rec, was
  <2>5. PICK now : now = [was EXCEPT !.group = None]
    OBVIOUS
  <2>6. /\ now \in ProfileRec /\ now.cred = was.cred /\ now.jump = was.jump /\ now.group = None
        /\ was.cred \in Cred \union {None} /\ was.jump \in Profile \union Cred \union {None}
    BY <2>3, <2>5 DEF ProfileRec
  <2>7. Named(now) \subseteq Named(was)
    BY <2>6 DEF Named
  <2>8. /\ Saved' = Saved \union {p} /\ profiles'[p] = now /\ \A q \in Profile : q # p => profiles'[q] = profiles[q]
        /\ profiles' \in [Profile -> ProfileRec \union {None}]
    BY <1>2, <1>4, <2>5, <2>6, ResAssumption DEF TableTypes, Saved
  <2>9. Minds(calls[c].touch)
    BY <1>1, <2>3, <2>5, <2>7, <2>8 DEF Minds, Saved
  <2>10. SecretsKept'
    BY <1>1, <1>2, <2>8 DEF SecretsKept
  <2>11. now.cred \in creds \union met \union {None} /\ (now.jump \in Cred => now.jump \in creds \union met)
    <3>1. CASE live
      BY <1>2, <2>3, <2>6, <3>1 DEF RefsKept
    <3>2. CASE ~live
      <4>1. now.cred # None => now.cred \in calls[c].touch
        BY <2>3, <2>6, <3>2 DEF Named
      <4>2. now.jump # None => now.jump \in calls[c].touch
        BY <2>3, <2>6, <3>2 DEF Named
      <4> QED BY <1>2, <2>4, <2>6, <4>1, <4>2, ResAssumption DEF TableTypes, Ids
    <3> QED BY <3>1, <3>2
  <2>12. RefsKept'
    <3> SUFFICES ASSUME NEW q \in Saved'
                 PROVE  /\ profiles'[q].cred \in creds' \union met' \union {None}
                        /\ profiles'[q].group \in groups' \union met' \union {None}
                        /\ profiles'[q].jump \in Cred => profiles'[q].jump \in creds' \union met'
      BY DEF RefsKept
    <3>1. CASE q = p
      BY <1>1, <2>6, <2>8, <2>11, <3>1
    <3>2. CASE q # p
      BY <1>1, <1>2, <2>8, <3>2 DEF RefsKept, Saved
    <3> QED BY <3>1, <3>2
  <2>13. MoverBooks(r)'
    <3>1. \A q \in r.todo : q \in Profile /\ r.val[q] \in ProfileRec /\ Named(r.val[q]) \subseteq r.touch
      BY <1>1, <1>2, <2>1, <2>2 DEF MoverBooks
    <3>2. ~live => r.id \in met \/ Members(r.id)' \subseteq r.todo
      <4> SUFFICES ASSUME ~live, r.id \notin met, NEW q \in Saved', profiles'[q].group = r.id PROVE q \in todo
        BY <2>2 DEF Members
      <4>1. q # p
        BY <2>2, <2>4, <2>6, <2>8
      <4>2. q \in Members(r.id)
        BY <2>8, <4>1 DEF Members, Saved
      <4> QED BY <1>1, <1>2, <2>1, <2>2, <4>1, <4>2 DEF MoverBooks
    <3> QED BY <1>1, <1>2, <2>2, <2>4, <3>1, <3>2 DEF MoverBooks
  <2>14. Books(r)'
    BY <1>1, <2>2, <2>13 DEF Books, SaverBooks, DeleterBooks, RestBooks
  <2> QED BY <1>1, <1>2, <2>2, <2>8, <2>9, <2>10, <2>12, <2>14, CallGoes DEF TableTypes
<1> QED BY <1>3, <1>4 DEF MoveMember

LEMMA GroupRowGoes == ASSUME TablesInv, NEW c \in Call, DeleteGroupRow(c) PROVE TablesInv'
<1> DEFINE g == calls[c].id
<1>1. /\ calls[c].kind = "groupDelete" /\ calls[c].at = "move" /\ Leave(c)
      /\ UNCHANGED <<profiles, creds, dbs, secrets, bound, met, live>>
      /\ IF live THEN Members(g) = {} ELSE calls[c].todo = {}
      /\ groups \ {g} \subseteq groups' /\ groups' \subseteq groups
  BY DEF DeleteGroupRow, At
<1>2. /\ TableTypes /\ SecretsKept /\ RefsKept /\ calls' = [calls EXCEPT ![c] = Rest]
      /\ g \in calls[c].touch /\ (~live => g \in met \/ Members(g) \subseteq calls[c].todo)
  BY <1>1 DEF TablesInv, Books, MoverBooks, Leave
<1> HIDE DEF g
<1>3. g \in met \/ Members(g) = {}
  BY <1>1, <1>2
<1>4. SecretsKept' /\ Minds(calls[c].touch)
  BY <1>1, <1>2 DEF SecretsKept, Minds, Saved
<1>5. RefsKept'
  BY <1>1, <1>2, <1>3 DEF RefsKept, Members, Saved
<1> QED BY <1>1, <1>2, <1>4, <1>5, RestIs, RestHasBooks, CallGoes DEF TableTypes

LEMMA TablesStep == TablesInv /\ [ResNext]_resVars => TablesInv'
<1> SUFFICES ASSUME TablesInv, [ResNext]_resVars PROVE TablesInv'
  OBVIOUS
<1>1. CASE UNCHANGED resVars
  <2>1. UNCHANGED <<tables, met, live>> /\ UNCHANGED calls
    BY <1>1 DEF resVars, tables
  <2>2. Minds({})
    BY <2>1, TablesStay
  <2> QED BY <2>1, <2>2, TablesStay, NoCallKeeps
<1>2. ASSUME NEW c \in Call, NEW p \in Profile,
             ProfileDelete(c, p) \/ MoveMember(c, p) \/ \E r \in ProfileRec : ProfileSave(c, p, r)
      PROVE  TablesInv'
  BY <1>2, DeletesBegin, MoveKeeps, ProfileSaveKeeps
<1>3. ASSUME NEW c \in Call, NEW k \in Cred, CredentialSave(c, k) \/ CredentialDelete(c, k) PROVE TablesInv'
  BY <1>3, RowSaved, DeletesBegin
<1>4. ASSUME NEW c \in Call, NEW g \in Group, GroupDelete(c, g) PROVE TablesInv'
  BY <1>4, GroupDeleteKeeps
<1>5. ASSUME NEW c \in Call, NEW d \in Db, DbProfileSave(c, d) \/ DbProfileDelete(c, d) PROVE TablesInv'
  BY <1>5, RowSaved, DeletesBegin
<1>6. ASSUME NEW c \in Call, \/ RememberUser(c) \/ EditorWrites(c) \/ UnsetSecrets(c) \/ DeleteProfileRow(c) \/ DeleteBindings(c)
                             \/ SecretFollows(c) \/ DeleteRow(c) \/ DeleteGroupRow(c)
      PROVE  TablesInv'
  BY <1>6, RememberKeeps, SecretsFollow, UnsetKeeps, ProfileRowGoes, BindingsGo, RowGoes, GroupRowGoes
<1>7. ASSUME NEW c \in Call, \/ ToggleAgentAutoConnect(c) \/ ApplySettings(c) \/ ApplyLanguage(c)
                             \/ (\E t \in Tiers : SaveExecPolicy(c, t)) \/ (\E l \in {"zh", "en"} : LanguageSave(c, l))
      PROVE  TablesInv'
  BY <1>7, SettingsKeep, AnswerKeeps
<1>8. CASE (\E p \in Profile : BindWorkspace(p)) \/ (\E g \in Group : GroupSave(g))
  BY <1>8, NoCallSteps
<1> QED BY <1>1, <1>2, <1>3, <1>4, <1>5, <1>6, <1>7, <1>8 DEF ResNext
-----------------------------------------------------------------------------
(* The calls in line are those whose write has not answered, each once;    *)
(* the row is what the last of them will put in force.                     *)
Waits(c) == calls[c].at \in {"apply", "applyLanguage"}
Place == 1 .. Len(line)
LineTypes ==
  /\ row \in Settings /\ mem \in Settings /\ page \in [auto : BOOLEAN, tier : Tiers] /\ line \in Seq(Call)
  /\ DOMAIN calls = Call
  /\ \A c \in Call : /\ calls[c].at = "apply" => calls[c].val \in Asked
                     /\ calls[c].at = "applyLanguage" => calls[c].val \in {"zh", "en"}
LineOrder ==
  /\ \A i \in Place : line[i] \in Call /\ Waits(line[i])
  /\ \A c \in Call : Waits(c) => \E i \in Place : line[i] = c
  /\ \A i, j \in Place : line[i] = line[j] => i = j
SettingsFollow ==
  /\ \A i \in Place : calls[line[i]].at = "apply" =>
       \/ calls[line[i]].val.auto = row.auto /\ calls[line[i]].val.tier = row.tier
       \/ \E j \in Place : j > i /\ calls[line[j]].at = "apply"
  /\ (\A i \in Place : calls[line[i]].at # "apply") => mem.auto = row.auto /\ mem.tier = row.tier
LanguageFollows ==
  /\ \A i \in Place : calls[line[i]].at = "applyLanguage" =>
       \/ calls[line[i]].val = row.lang
       \/ \E j \in Place : j > i /\ calls[line[j]].at = "applyLanguage"
  /\ (\A i \in Place : calls[line[i]].at # "applyLanguage") => mem.lang = row.lang
LineInv == LineTypes /\ LineOrder /\ SettingsFollow /\ LanguageFollows

LEMMA LineBegins == ResInit => LineInv
<1> SUFFICES ASSUME ResInit PROVE LineInv
  OBVIOUS
<1>1. row \in Settings /\ mem \in Settings /\ page \in [auto : BOOLEAN, tier : Tiers] /\ mem = row
  BY DEF ResInit, Settings, Tiers, Users
<1>2. line = <<>> /\ line \in Seq(Call) /\ Place = {}
  BY DEF ResInit, Place
<1>3. DOMAIN calls = Call /\ \A c \in Call : calls[c].at = "idle"
  BY RestIs DEF ResInit
<1> QED BY <1>1, <1>2, <1>3 DEF LineInv, LineTypes, LineOrder, SettingsFollow, LanguageFollows, Waits

(* A step of the tables is no step of the settings.                        *)
LEMMA LineStays ==
  ASSUME LineInv, NEW c \in Call, NEW r, calls' = [calls EXCEPT ![c] = r],
         ~Waits(c), r.at \notin {"apply", "applyLanguage"}, UNCHANGED <<line, page>>,
         row' \in Settings, mem' \in Settings, row'.auto = row.auto, row'.tier = row.tier, row'.lang = row.lang,
         mem'.auto = mem.auto, mem'.tier = mem.tier, mem'.lang = mem.lang
  PROVE  LineInv'
<1>1. DOMAIN calls' = Call /\ calls'[c] = r /\ \A d \in Call : d # c => calls'[d] = calls[d]
  BY DEF LineInv, LineTypes
<1>2. Place' = Place /\ \A i \in Place : line[i] \in Call /\ line[i] # c /\ calls'[line[i]] = calls[line[i]] /\ line'[i] = line[i]
  BY <1>1 DEF LineInv, LineOrder, Waits, Place
<1>3. LineTypes'
  BY <1>1 DEF LineInv, LineTypes
<1>4. LineOrder'
  BY <1>1, <1>2 DEF LineInv, LineOrder, Waits
<1>5. SettingsFollow' /\ LanguageFollows'
  BY <1>1, <1>2 DEF LineInv, SettingsFollow, LanguageFollows
<1> QED BY <1>3, <1>4, <1>5 DEF LineInv

LEMMA LineSame == ASSUME LineInv, UNCHANGED <<line, page, row, mem, calls>> PROVE LineInv'
BY DEF LineInv, LineTypes, LineOrder, SettingsFollow, LanguageFollows, Waits, Place

(* The head answers and the rest moves up.                                 *)
LEMMA TailIs ==
  ASSUME LineInv, NEW c \in Call, Waits(c), Head(line) = c, line' = Tail(line), line # <<>>
  PROVE  /\ line' \in Seq(Call) /\ 1 \in Place /\ line[1] = c /\ \A i \in Place' : i + 1 \in Place /\ line'[i] = line[i + 1] /\ line'[i] # c
         /\ \A i \in Place : i = 1 \/ (i - 1 \in Place' /\ line'[i - 1] = line[i])
<1>1. line \in Seq(Call) /\ \A i, j \in Place : line[i] = line[j] => i = j
  BY DEF LineInv, LineTypes, LineOrder
<1>2. Len(line) \in Nat /\ Len(line) >= 1 /\ 1 \in Place /\ line[1] = c /\ Len(Tail(line)) = Len(line) - 1
  BY <1>1, HeadTailProperties, LenProperties DEF Place
<1>3. Tail(line) \in Seq(Call) /\ \A i \in 1 .. Len(line) - 1 : Tail(line)[i] = line[i + 1]
  BY <1>1, HeadTailProperties
<1>4. Place' = 1 .. Len(line) - 1
  BY <1>2 DEF Place
<1> QED BY <1>1, <1>2, <1>3, <1>4 DEF Place
LEMMA HeadAnswers ==
  ASSUME LineInv, NEW c \in Call, Waits(c), Head(line) = c, line' = Tail(line), calls' = [calls EXCEPT ![c] = Rest],
         row' = row, mem' \in Settings, page' \in [auto : BOOLEAN, tier : Tiers],
         calls[c].at = "apply" =>
           mem'.auto = calls[c].val.auto /\ mem'.tier = calls[c].val.tier /\ mem'.lang = mem.lang,
         calls[c].at = "applyLanguage" =>
           mem'.lang = calls[c].val /\ mem'.auto = mem.auto /\ mem'.tier = mem.tier
  PROVE  LineInv'
<1>0. (\A i \in Place : line[i] \in Call) /\ \A i, j \in Place : line[i] = line[j] => i = j
  BY DEF LineInv, LineOrder
<1>1. line # <<>>
  BY DEF LineInv, LineOrder, Place
<1>2. /\ line' \in Seq(Call) /\ 1 \in Place /\ line[1] = c /\ \A i \in Place' : i + 1 \in Place /\ line'[i] = line[i + 1] /\ line'[i] # c
      /\ \A i \in Place : i = 1 \/ (i - 1 \in Place' /\ line'[i - 1] = line[i])
  BY <1>1, TailIs
<1>3. Place \subseteq Int /\ Place' \subseteq Int /\ \A i \in Place : i = 1 \/ i > 1
  BY DEF Place
<1>4. calls'[c] = Rest /\ DOMAIN calls' = Call /\ \A d \in Call : d # c => calls'[d] = calls[d]
  BY DEF LineInv, LineTypes
<1>5. ASSUME NEW i \in Place'
      PROVE  line'[i] \in Call /\ calls'[line'[i]] = calls[line[i + 1]] /\ i + 1 \in Place /\ line'[i] = line[i + 1]
  <2>1. i + 1 \in Place /\ line'[i] = line[i + 1] /\ line'[i] # c
    BY <1>2
  <2>2. line[i + 1] \in Call
    BY <1>0, <2>1
  <2> QED BY <1>4, <2>1, <2>2
<1>6. \A i \in Place' : calls'[line'[i]].at \in {"apply", "applyLanguage"}
  BY <1>5 DEF LineInv, LineOrder, Waits
<1>7. ASSUME NEW d \in Call, calls'[d].at \in {"apply", "applyLanguage"} PROVE \E i \in Place' : line'[i] = d
  <2>1. d # c /\ Waits(d)
    BY <1>4, <1>7, RestIs DEF Waits
  <2>2. PICK i \in Place : line[i] = d
    BY <2>1 DEF LineInv, LineOrder
  <2> QED BY <1>2, <2>1, <2>2
<1>8. \A i, j \in Place' : line'[i] = line'[j] => i = j
  <2> SUFFICES ASSUME NEW i \in Place', NEW j \in Place', line'[i] = line'[j] PROVE i = j
    OBVIOUS
  <2>1. i + 1 \in Place /\ j + 1 \in Place /\ line[i + 1] = line[j + 1]
    BY <1>5
  <2>2. i + 1 = j + 1
    BY <1>0, <2>1
  <2> QED BY <1>3, <2>2
<1>9. ASSUME NEW i \in Place', calls'[line'[i]].at = "apply"
       PROVE  \/ calls'[line'[i]].val.auto = row'.auto /\ calls'[line'[i]].val.tier = row'.tier
              \/ \E j \in Place' : j > i /\ calls'[line'[j]].at = "apply"
  <2>1. CASE calls[line[i + 1]].val.auto = row.auto /\ calls[line[i + 1]].val.tier = row.tier
    BY <1>5, <2>1
  <2>2. CASE \E j \in Place : j > i + 1 /\ calls[line[j]].at = "apply"
    <3>1. PICK j \in Place : j > i + 1 /\ calls[line[j]].at = "apply"
      BY <2>2
    <3>2. j # 1 /\ j - 1 \in Place' /\ j - 1 > i /\ line'[j - 1] = line[j]
      BY <1>2, <1>3, <3>1 DEF Place
    <3>3. calls'[line'[j - 1]] = calls[line[j]]
      BY <1>2, <1>4, <3>2 DEF LineInv, LineOrder
    <3> QED BY <3>1, <3>2, <3>3
  <2> QED BY <1>5, <1>9, <2>1, <2>2 DEF LineInv, SettingsFollow
<1>10. ASSUME NEW i \in Place', calls'[line'[i]].at = "applyLanguage"
       PROVE  \/ calls'[line'[i]].val = row'.lang
              \/ \E j \in Place' : j > i /\ calls'[line'[j]].at = "applyLanguage"
  <2>1. CASE calls[line[i + 1]].val = row.lang
    BY <1>5, <2>1
  <2>2. CASE \E j \in Place : j > i + 1 /\ calls[line[j]].at = "applyLanguage"
    <3>1. PICK j \in Place : j > i + 1 /\ calls[line[j]].at = "applyLanguage"
      BY <2>2
    <3>2. j # 1 /\ j - 1 \in Place' /\ j - 1 > i /\ line'[j - 1] = line[j]
      BY <1>2, <1>3, <3>1 DEF Place
    <3>3. calls'[line'[j - 1]] = calls[line[j]]
      BY <1>2, <1>4, <3>2 DEF LineInv, LineOrder
    <3> QED BY <3>1, <3>2, <3>3
  <2> QED BY <1>5, <1>10, <2>1, <2>2 DEF LineInv, LanguageFollows
<1>11. ASSUME \A i \in Place' : calls'[line'[i]].at # "apply" PROVE mem'.auto = row'.auto /\ mem'.tier = row'.tier
  <2>1. ASSUME NEW j \in Place, j > 1, calls[line[j]].at = "apply" PROVE FALSE
    <3>0. j # 1
      BY <1>3, <2>1
    <3>1. j - 1 \in Place' /\ line'[j - 1] = line[j] /\ line[j] \in Call
      BY <1>0, <1>2, <3>0
    <3>2. line[j] # c
      BY <1>0, <1>2, <3>0
    <3>3. calls'[line'[j - 1]] = calls[line[j]]
      BY <1>4, <3>1, <3>2
    <3> QED BY <1>11, <2>1, <3>1, <3>3
  <2>2. CASE calls[c].at = "apply"
    BY <1>2, <1>3, <2>1, <2>2 DEF LineInv, SettingsFollow
  <2>3. CASE calls[c].at = "applyLanguage"
    BY <1>2, <1>3, <2>1, <2>3 DEF LineInv, SettingsFollow
  <2> QED BY <2>2, <2>3 DEF Waits
<1>12. ASSUME \A i \in Place' : calls'[line'[i]].at # "applyLanguage" PROVE mem'.lang = row'.lang
  <2>1. ASSUME NEW j \in Place, j > 1, calls[line[j]].at = "applyLanguage" PROVE FALSE
    <3>0. j # 1
      BY <1>3, <2>1
    <3>1. j - 1 \in Place' /\ line'[j - 1] = line[j] /\ line[j] \in Call
      BY <1>0, <1>2, <3>0
    <3>2. line[j] # c
      BY <1>0, <1>2, <3>0
    <3>3. calls'[line'[j - 1]] = calls[line[j]]
      BY <1>4, <3>1, <3>2
    <3> QED BY <1>12, <2>1, <3>1, <3>3
  <2>2. CASE calls[c].at = "applyLanguage"
    BY <1>2, <1>3, <2>1, <2>2 DEF LineInv, LanguageFollows
  <2>3. CASE calls[c].at = "apply"
    BY <1>2, <1>3, <2>1, <2>3 DEF LineInv, LanguageFollows
  <2> QED BY <2>2, <2>3 DEF Waits
<1>13. \A d \in Call : /\ calls'[d].at = "apply" => calls'[d].val \in Asked
                       /\ calls'[d].at = "applyLanguage" => calls'[d].val \in {"zh", "en"}
  BY <1>4, RestIs DEF LineInv, LineTypes
<1>14. LineTypes'
  BY <1>2, <1>4, <1>13 DEF LineInv, LineTypes
<1>15. LineOrder'
  BY <1>5, <1>6, <1>7, <1>8 DEF LineOrder, Waits
<1>16. SettingsFollow'
  BY <1>9, <1>11 DEF SettingsFollow
<1>17. LanguageFollows'
  BY <1>10, <1>12 DEF LanguageFollows
<1> QED BY <1>14, <1>15, <1>16, <1>17 DEF LineInv

LEMMA ApplySettingsKeeps == ASSUME LineInv, NEW c \in Call, ApplySettings(c) PROVE LineInv'
<1> DEFINE val == calls[c].val
<1>1. /\ calls[c].at = "apply" /\ Waits(c) /\ Head(line) = c /\ line' = Tail(line) /\ calls' = [calls EXCEPT ![c] = Rest]
      /\ mem' = [mem EXCEPT !.auto = val.auto, !.tier = val.tier, !.user = val.user] /\ row' = row
      /\ page' = IF calls[c].kind = "toggle" THEN [page EXCEPT !.auto = val.auto] ELSE [page EXCEPT !.tier = val.tier]
  BY DEF ApplySettings, TierAfter, Waits, Leave
<1>2. val.auto \in BOOLEAN /\ val.tier \in Tiers /\ val.user \in Users /\ mem \in Settings /\ page \in [auto : BOOLEAN, tier : Tiers]
  BY <1>1 DEF LineInv, LineTypes, Asked
<1> HIDE DEF val
<1>3. mem' \in Settings /\ mem'.auto = val.auto /\ mem'.tier = val.tier /\ mem'.lang = mem.lang
  <2> DEFINE x == val.auto
             y == val.tier
             z == val.user
  <2>1. x \in BOOLEAN /\ y \in Tiers /\ z \in Users /\ mem' = [mem EXCEPT !.auto = x, !.tier = y, !.user = z]
    BY <1>1, <1>2
  <2> HIDE DEF x, y, z
  <2>2. mem' \in Settings /\ mem'.auto = x /\ mem'.tier = y /\ mem'.lang = mem.lang
    BY <1>2, <2>1 DEF Settings
  <2> QED BY <2>2 DEF x, y
<1>4. page' \in [auto : BOOLEAN, tier : Tiers]
  <2> DEFINE x == val.auto
             y == val.tier
  <2>1. x \in BOOLEAN /\ y \in Tiers /\ page' \in {[page EXCEPT !.auto = x], [page EXCEPT !.tier = y]}
    BY <1>1, <1>2
  <2> HIDE DEF x, y
  <2> QED BY <1>2, <2>1
<1> QED BY <1>1, <1>3, <1>4, HeadAnswers DEF val

LEMMA ApplyLanguageKeeps == ASSUME LineInv, NEW c \in Call, ApplyLanguage(c) PROVE LineInv'
<1> DEFINE l == calls[c].val
<1>1. /\ calls[c].at = "applyLanguage" /\ Waits(c) /\ Head(line) = c /\ line' = Tail(line)
      /\ calls' = [calls EXCEPT ![c] = Rest] /\ mem' = [mem EXCEPT !.lang = l] /\ row' = row /\ page' = page
  BY DEF ApplyLanguage, Waits, Leave
<1>2. l \in {"zh", "en"} /\ mem \in Settings /\ page \in [auto : BOOLEAN, tier : Tiers]
  BY <1>1 DEF LineInv, LineTypes
<1> HIDE DEF l
<1>3. mem' \in Settings /\ mem'.lang = l /\ mem'.auto = mem.auto /\ mem'.tier = mem.tier
  BY <1>1, <1>2 DEF Settings
<1> QED BY <1>1, <1>2, <1>3, HeadAnswers DEF l

(* A write begins: it is the last in line, and the row is what it asks.    *)
LEMMA LineGrows ==
  ASSUME LineInv, NEW c \in Call, ~Waits(c), NEW r, calls' = [calls EXCEPT ![c] = r], line' = Append(line, c),
         mem' = mem, page' = page, row' \in Settings, r.at \in {"apply", "applyLanguage"},
         r.at = "apply" => r.val \in Asked /\ row'.auto = r.val.auto /\ row'.tier = r.val.tier /\ row'.lang = row.lang,
         r.at = "applyLanguage" => r.val \in {"zh", "en"} /\ row'.lang = r.val /\ row'.auto = row.auto /\ row'.tier = row.tier
  PROVE  LineInv'
<1> DEFINE n == Len(line) + 1
<1>1. line \in Seq(Call) /\ Len(line) \in Nat
  BY LenProperties DEF LineInv, LineTypes
<1>2. /\ line' \in Seq(Call) /\ Place' = Place \union {n} /\ line'[n] = c /\ n \in Nat
      /\ \A i \in Place : line'[i] = line[i] /\ i # n /\ i < n /\ i \in Int
  <2>1. line' \in Seq(Call) /\ Len(line') = Len(line) + 1 /\ line'[n] = c /\ \A i \in 1 .. Len(line) : line'[i] = line[i]
    BY <1>1, AppendProperties
  <2> QED BY <1>1, <2>1 DEF Place
<1> HIDE DEF n
<1>3. calls'[c] = r /\ DOMAIN calls' = Call /\ \A d \in Call : d # c => calls'[d] = calls[d]
  BY DEF LineInv, LineTypes
<1>4. (\A i \in Place : line[i] \in Call /\ Waits(line[i])) /\ \A i, j \in Place : line[i] = line[j] => i = j
  BY DEF LineInv, LineOrder
<1>5. ASSUME NEW i \in Place PROVE line'[i] = line[i] /\ line[i] # c /\ calls'[line'[i]] = calls[line[i]]
  <2>1. line[i] # c
    BY <1>4
  <2> QED BY <1>2, <1>3, <1>4, <2>1
<1>6. LineTypes'
  <2>1. mem \in Settings /\ page \in [auto : BOOLEAN, tier : Tiers]
    BY DEF LineInv, LineTypes
  <2>2. \A d \in Call : /\ calls'[d].at = "apply" => calls'[d].val \in Asked
                        /\ calls'[d].at = "applyLanguage" => calls'[d].val \in {"zh", "en"}
    BY <1>3 DEF LineInv, LineTypes
  <2> QED BY <1>2, <1>3, <2>1, <2>2 DEF LineTypes
<1>7. LineOrder'
  <2>1. ASSUME NEW i \in Place' PROVE line'[i] \in Call /\ calls'[line'[i]].at \in {"apply", "applyLanguage"}
    <3>1. CASE i = n
      BY <1>2, <1>3, <3>1
    <3>2. CASE i \in Place
      BY <1>4, <1>5, <3>2 DEF Waits
    <3> QED BY <1>2, <3>1, <3>2
  <2>2. ASSUME NEW d \in Call, calls'[d].at \in {"apply", "applyLanguage"} PROVE \E i \in Place' : line'[i] = d
    <3>1. CASE d = c
      BY <1>2, <3>1
    <3>2. CASE d # c
      <4>1. Waits(d)
        BY <1>3, <2>2, <3>2 DEF Waits
      <4>2. PICK i \in Place : line[i] = d
        BY <4>1 DEF LineInv, LineOrder
      <4> QED BY <1>2, <4>2
    <3> QED BY <3>1, <3>2
  <2>3. ASSUME NEW i \in Place', NEW j \in Place', line'[i] = line'[j] PROVE i = j
    <3>1. CASE i \in Place /\ j \in Place
      <4>1. line[i] = line[j]
        BY <1>5, <2>3, <3>1
      <4> QED BY <1>4, <3>1, <4>1
    <3>2. CASE i = n \/ j = n
      BY <1>2, <1>5, <2>3, <3>2
    <3> QED BY <1>2, <3>1, <3>2
  <2> QED BY <2>1, <2>2, <2>3 DEF LineOrder, Waits
<1>8. SettingsFollow'
  <2>1. ASSUME NEW i \in Place', calls'[line'[i]].at = "apply"
        PROVE  \/ calls'[line'[i]].val.auto = row'.auto /\ calls'[line'[i]].val.tier = row'.tier
               \/ \E j \in Place' : j > i /\ calls'[line'[j]].at = "apply"
    <3>1. CASE i = n
      BY <1>2, <1>3, <2>1, <3>1
    <3>2. CASE i \in Place /\ r.at = "apply"
      <4>1. n \in Place' /\ n > i /\ calls'[line'[n]].at = "apply"
        BY <1>2, <1>3, <3>2
      <4> QED BY <4>1
    <3>3. CASE i \in Place /\ r.at # "apply"
      <4>1. \/ calls[line[i]].val.auto = row.auto /\ calls[line[i]].val.tier = row.tier
            \/ \E j \in Place : j > i /\ calls[line[j]].at = "apply"
        BY <1>5, <2>1, <3>3 DEF LineInv, SettingsFollow
      <4> QED BY <1>2, <1>5, <3>3, <4>1
    <3> QED BY <1>2, <3>1, <3>2, <3>3
  <2>2. ASSUME \A i \in Place' : calls'[line'[i]].at # "apply" PROVE mem'.auto = row'.auto /\ mem'.tier = row'.tier
    <3>1. r.at = "applyLanguage" /\ \A i \in Place : calls[line[i]].at # "apply"
      BY <1>2, <1>3, <1>5, <2>2
    <3> QED BY <3>1 DEF LineInv, SettingsFollow
  <2> QED BY <2>1, <2>2 DEF SettingsFollow
<1>9. LanguageFollows'
  <2>1. ASSUME NEW i \in Place', calls'[line'[i]].at = "applyLanguage"
        PROVE  \/ calls'[line'[i]].val = row'.lang
               \/ \E j \in Place' : j > i /\ calls'[line'[j]].at = "applyLanguage"
    <3>1. CASE i = n
      BY <1>2, <1>3, <2>1, <3>1
    <3>2. CASE i \in Place /\ r.at = "applyLanguage"
      <4>1. n \in Place' /\ n > i /\ calls'[line'[n]].at = "applyLanguage"
        BY <1>2, <1>3, <3>2
      <4> QED BY <4>1
    <3>3. CASE i \in Place /\ r.at # "applyLanguage"
      <4>1. \/ calls[line[i]].val = row.lang
            \/ \E j \in Place : j > i /\ calls[line[j]].at = "applyLanguage"
        BY <1>5, <2>1, <3>3 DEF LineInv, LanguageFollows
      <4> QED BY <1>2, <1>5, <3>3, <4>1
    <3> QED BY <1>2, <3>1, <3>2, <3>3
  <2>2. ASSUME \A i \in Place' : calls'[line'[i]].at # "applyLanguage" PROVE mem'.lang = row'.lang
    <3>1. r.at = "apply" /\ \A i \in Place : calls[line[i]].at # "applyLanguage"
      BY <1>2, <1>3, <1>5, <2>2
    <3> QED BY <3>1 DEF LineInv, LanguageFollows
  <2> QED BY <2>1, <2>2 DEF LanguageFollows
<1> QED BY <1>6, <1>7, <1>8, <1>9 DEF LineInv

LEMMA SaveSettingsKeeps ==
  ASSUME LineInv, NEW c \in Call, \/ ToggleAgentAutoConnect(c) \/ (\E t \in Tiers : SaveExecPolicy(c, t))
  PROVE  LineInv'
<1>1. ASSUME NEW kind, NEW a \in BOOLEAN, NEW t \in Tiers, NEW u \in Users,
             SaveSettings(c, kind, [auto |-> a, tier |-> t, user |-> u])
      PROVE  LineInv'
  <2> DEFINE val == [auto |-> a, tier |-> t, user |-> u]
  <2>1. val \in Asked /\ val.auto = a /\ val.tier = t /\ val.user = u
    BY DEF Asked
  <2>2. /\ Enter(c, kind, "apply", None, {}, {}, val) /\ line' = Append(line, c) /\ UNCHANGED <<mem, page>>
        /\ row' = [row EXCEPT !.auto = val.auto, !.tier = val.tier, !.user = val.user]
    BY <1>1 DEF SaveSettings
  <2> HIDE DEF val
  <2>3. PICK r : r.at = "apply" /\ r.val = val /\ calls' = [calls EXCEPT ![c] = r] /\ calls[c].at = "idle"
    BY <2>2, EnterIs
  <2>4. row \in Settings /\ row' = [row EXCEPT !.auto = a, !.tier = t, !.user = u]
    BY <2>1, <2>2 DEF LineInv, LineTypes
  <2>5. row' \in Settings /\ row'.auto = a /\ row'.tier = t /\ row'.lang = row.lang
    BY <2>4 DEF Settings
  <2> QED BY <2>1, <2>2, <2>3, <2>5, LineGrows DEF Waits
<1>2. mem \in Settings /\ page \in [auto : BOOLEAN, tier : Tiers]
  BY DEF LineInv, LineTypes
<1>3. mem.tier \in Tiers /\ mem.user \in Users /\ page.auto \in BOOLEAN /\ (~page.auto) \in BOOLEAN
  BY <1>2 DEF Settings
<1>4. CASE ToggleAgentAutoConnect(c)
  BY <1>1, <1>3, <1>4 DEF ToggleAgentAutoConnect
<1>5. ASSUME NEW t \in Tiers, SaveExecPolicy(c, t) PROVE LineInv'
  BY <1>1, <1>3, <1>5 DEF SaveExecPolicy
<1> QED BY <1>4, <1>5

LEMMA LanguageSaveKeeps == ASSUME LineInv, NEW c \in Call, NEW l \in {"zh", "en"}, LanguageSave(c, l) PROVE LineInv'
<1>1. /\ Enter(c, "language", "applyLanguage", None, {}, {}, l) /\ line' = Append(line, c) /\ UNCHANGED <<mem, page>>
      /\ row' = [row EXCEPT !.lang = l] /\ row \in Settings
  BY DEF LanguageSave, LineInv, LineTypes
<1>2. PICK r : r.at = "applyLanguage" /\ r.val = l /\ calls' = [calls EXCEPT ![c] = r] /\ calls[c].at = "idle"
  BY <1>1, EnterIs
<1>3. row' \in Settings /\ row'.lang = l /\ row'.auto = row.auto /\ row'.tier = row.tier
  BY <1>1 DEF Settings
<1> QED BY <1>1, <1>2, <1>3, LineGrows DEF Waits

(* The other calls are not in line.                                        *)
LEMMA LineEnters ==
  ASSUME LineInv, NEW c \in Call, NEW kind, NEW at, NEW id, NEW touch, NEW todo, NEW val,
         Enter(c, kind, at, id, touch, todo, val), at \notin {"apply", "applyLanguage"}, UNCHANGED settings
  PROVE  LineInv'
<1>1. UNCHANGED <<row, mem, page, line>> /\ row \in Settings /\ mem \in Settings
  BY DEF settings, LineInv, LineTypes
<1>2. PICK r : r.at = at /\ calls' = [calls EXCEPT ![c] = r] /\ calls[c].at = "idle"
  BY EnterIs
<1> QED BY <1>1, <1>2, LineStays DEF Waits

LEMMA LineLeaves ==
  ASSUME LineInv, NEW c \in Call, ~Waits(c), Leave(c), UNCHANGED settings PROVE LineInv'
<1>1. UNCHANGED <<row, mem, page, line>> /\ row \in Settings /\ mem \in Settings
  BY DEF settings, LineInv, LineTypes
<1>2. calls' = [calls EXCEPT ![c] = Rest]
  BY DEF Leave
<1> QED BY <1>1, <1>2, RestIs, LineStays

LEMMA LineGoesOn ==
  ASSUME TablesInv, LineInv, NEW c \in Call, ~Waits(c), NEW at, at \notin {"apply", "applyLanguage"}, GoOn(c, at),
         UNCHANGED settings
  PROVE  LineInv'
<1>1. UNCHANGED <<row, mem, page, line>> /\ row \in Settings /\ mem \in Settings
  BY DEF settings, LineInv, LineTypes
<1>2. PICK r : r.at = at /\ calls' = [calls EXCEPT ![c] = r]
  BY GoOnIs
<1> QED BY <1>1, <1>2, LineStays

LEMMA LineRemembers == ASSUME TablesInv, LineInv, NEW c \in Call, RememberUser(c) PROVE LineInv'
<1>1. /\ GoOn(c, "editor") /\ ~Waits(c) /\ UNCHANGED <<line, page>> /\ row \in Settings /\ mem \in Settings
  BY DEF RememberUser, At, Waits, LineInv, LineTypes
<1>2. PICK u \in Users : mem' = [mem EXCEPT !.user = u] /\ row' \in {row, [row EXCEPT !.user = u]}
  BY DEF RememberUser
<1>3. PICK r : r.at = "editor" /\ calls' = [calls EXCEPT ![c] = r]
  BY <1>1, GoOnIs
<1>4. mem' \in Settings /\ mem'.auto = mem.auto /\ mem'.tier = mem.tier /\ mem'.lang = mem.lang
  BY <1>1, <1>2 DEF Settings
<1>5. row' \in Settings /\ row'.auto = row.auto /\ row'.tier = row.tier /\ row'.lang = row.lang
  BY <1>1, <1>2 DEF Settings
<1> QED BY <1>1, <1>3, <1>4, <1>5, LineStays

LEMMA LineMoves == ASSUME TablesInv, LineInv, NEW c \in Call, NEW p \in Profile, MoveMember(c, p) PROVE LineInv'
<1>1. /\ calls[c].at = "move" /\ ~Waits(c) /\ UNCHANGED settings
      /\ Leave(c) \/ calls' = [calls EXCEPT ![c].todo = @ \ {p}]
  BY DEF MoveMember, At, Waits
<1>2. CASE calls' = [calls EXCEPT ![c].todo = @ \ {p}]
  <2> DEFINE todo == calls[c].todo \ {p}
             rec == [calls[c] EXCEPT !.todo = todo]
  <2>1. calls' = [calls EXCEPT ![c] = rec]
    BY <1>2 DEF LineInv, LineTypes
  <2>2. rec.at = "move"
    <3>1. IsCall(calls[c])
      BY DEF TablesInv, TableTypes
    <3> HIDE DEF todo
    <3> QED BY <1>1, <3>1 DEF IsCall
  <2> HIDE DEF rec
  <2>3. PICK r : r.at = "move" /\ calls' = [calls EXCEPT ![c] = r]
    BY <2>1, <2>2
  <2>4. UNCHANGED <<row, mem, page, line>> /\ row \in Settings /\ mem \in Settings
    BY <1>1 DEF settings, LineInv, LineTypes
  <2> QED BY <1>1, <2>3, <2>4, LineStays
<1> QED BY <1>1, <1>2, LineLeaves

LEMMA LineStep == TablesInv /\ LineInv /\ [ResNext]_resVars => LineInv'
<1> SUFFICES ASSUME TablesInv, LineInv, [ResNext]_resVars PROVE LineInv'
  OBVIOUS
<1>1. CASE UNCHANGED resVars
  BY <1>1, LineSame DEF resVars, settings
<1>2. ASSUME NEW c \in Call, NEW p \in Profile, ProfileDelete(c, p) PROVE LineInv'
  BY <1>2, LineEnters DEF ProfileDelete
<1>3. ASSUME NEW c \in Call, NEW p \in Profile, NEW n \in ProfileRec, ProfileSave(c, p, n) PROVE LineInv'
  <2> DEFINE hand == {p} \union Named(n)
             kept == IF n.cred = None THEN p ELSE n.cred
  <2>1. Enter(c, "profileSave", "settings", p, hand, {}, kept) /\ UNCHANGED settings
    BY <1>3 DEF ProfileSave
  <2> HIDE DEF hand, kept
  <2> QED BY <2>1, LineEnters
<1>4. ASSUME NEW c \in Call, NEW k \in Cred, CredentialSave(c, k) \/ CredentialDelete(c, k) PROVE LineInv'
  BY <1>4, LineEnters DEF CredentialSave, CredentialDelete
<1>5. ASSUME NEW c \in Call, NEW g \in Group, GroupDelete(c, g) PROVE LineInv'
  <2> DEFINE hand == {g} \union Members(g) \union UNION {Named(profiles[p]) : p \in Members(g)}
             val == [p \in Members(g) |-> profiles[p]]
             members == Members(g)
  <2>1. Enter(c, "groupDelete", "move", g, hand, members, val) /\ UNCHANGED settings
    BY <1>5 DEF GroupDelete
  <2> HIDE DEF hand, val, members
  <2> QED BY <2>1, LineEnters
<1>6. ASSUME NEW c \in Call, NEW d \in Db, DbProfileSave(c, d) \/ DbProfileDelete(c, d) PROVE LineInv'
  BY <1>6, LineEnters DEF DbProfileSave, DbProfileDelete
<1>7. ASSUME NEW c \in Call, EditorWrites(c) \/ DeleteBindings(c) \/ SecretFollows(c) \/ DeleteRow(c) \/ DeleteGroupRow(c)
      PROVE  LineInv'
  BY <1>7, LineLeaves DEF EditorWrites, DeleteBindings, SecretFollows, DeleteRow, DeleteGroupRow, At, Waits
<1>8. ASSUME NEW c \in Call, UnsetSecrets(c) \/ DeleteProfileRow(c) PROVE LineInv'
  <2>1. ~Waits(c) /\ UNCHANGED settings /\ (Leave(c) \/ GoOn(c, "delete") \/ GoOn(c, "bindings"))
    BY <1>8 DEF UnsetSecrets, DeleteProfileRow, At, Waits
  <2> QED BY <2>1, LineLeaves, LineGoesOn
<1>9. ASSUME NEW c \in Call, NEW p \in Profile, MoveMember(c, p) PROVE LineInv'
  BY <1>9, LineMoves
<1>10. ASSUME NEW c \in Call, RememberUser(c) \/ ApplySettings(c) \/ ApplyLanguage(c) PROVE LineInv'
  BY <1>10, LineRemembers, ApplySettingsKeeps, ApplyLanguageKeeps
<1>11. ASSUME NEW c \in Call, \/ ToggleAgentAutoConnect(c) \/ (\E t \in Tiers : SaveExecPolicy(c, t))
                              \/ (\E l \in {"zh", "en"} : LanguageSave(c, l))
       PROVE  LineInv'
  BY <1>11, SaveSettingsKeeps, LanguageSaveKeeps
<1>12. CASE (\E p \in Profile : BindWorkspace(p)) \/ (\E g \in Group : GroupSave(g))
  BY <1>12, LineSame DEF BindWorkspace, GroupSave, settings
<1> QED BY <1>1, <1>2, <1>3, <1>4, <1>5, <1>6, <1>7, <1>8, <1>9, <1>10, <1>11, <1>12 DEF ResNext

LEMMA BooksGiveSound == TablesInv /\ LineInv => ResourcesSound
<1> SUFFICES ASSUME TablesInv, LineInv PROVE ResourcesSound
  OBVIOUS
<1>1. NoDanglingReference
  <2>1. SecretsKept /\ RefsKept
    BY DEF TablesInv
  <2> QED BY <2>1 DEF SecretsKept, RefsKept, NoDanglingReference, Existing
<1>2. InForceIsStored
  <2> SUFFICES ASSUME AtRest PROVE mem.auto = row.auto /\ mem.tier = row.tier /\ mem.lang = row.lang
    BY DEF InForceIsStored
  <2>1. \A i \in Place : calls[line[i]].at # "apply" /\ calls[line[i]].at # "applyLanguage"
    BY DEF LineInv, LineOrder, AtRest
  <2> QED BY <2>1 DEF LineInv, SettingsFollow, LanguageFollows
<1> QED BY <1>1, <1>2 DEF ResourcesSound

(* Calls that never had the same id in hand leave no stored secret without *)
(* its owner and no name without what it names, whichever of their writes  *)
(* fail (profileSave and the deletes of index.js); and whenever no save is *)
(* under way the tier, the switch and the language in force are the stored *)
(* ones, although every write of the row is answered later.                *)
THEOREM ResourcesStaySound == ResSpec => []ResourcesSound
<1>1. ResInit => TablesInv /\ LineInv
  BY ResBegins, LineBegins
<1>2. TablesInv /\ LineInv /\ [ResNext]_resVars => TablesInv' /\ LineInv'
  BY TablesStep, LineStep
<1> QED BY <1>1, <1>2, BooksGiveSound, PTL DEF ResSpec

-----------------------------------------------------------------------------
(***************************************************************************)
(* Recordings.  As long as nobody deletes the recording, and closes the    *)
(* tab after the shell has exited if at all, there is one recording; what  *)
(* is in the file, in its stream and held back are consecutive pieces of   *)
(* what was shown.                                                         *)
(***************************************************************************)
Kept == IF shown > Cap THEN Cap ELSE shown
Run(a, b) == [j \in 1 .. (b - a) |-> a + j]    \* the chunks after a up to b
Enders == {"close", "exit"}
Final == [ended |-> TRUE, bytes |-> Kept]
Metas == [ended : BOOLEAN, bytes : Nat]
Whole == remover = "idle" /\ (ender["close"].at = "idle" \/ ender["exit"].at # "idle")

IsEnd(r) == r = [at |-> r.at, rec |-> r.rec, stream |-> r.stream, early |-> r.early]
EntryType == [at : {"none", "preparing", "begun"}, bytes : Nat, truncated : BOOLEAN, pending : Seq(Nat), ended : BOOLEAN]
StreamType == [at : {"none", "opening", "open", "unlinked", "closed"}, queue : Seq(Nat), ending : BOOLEAN, written : Nat]
IsRead(r) == r = [at |-> r.at, need |-> r.need, wait |-> r.wait, got |-> r.got]

EndBooks ==
  /\ DOMAIN ender = Enders /\ \A e \in Enders : IsEnd(ender[e]) /\ ender[e].at \in {"idle", "draining", "done"}
  /\ shell \in {"open", "closing", "closed"}
  /\ shell = "open" => ender["close"].at = "idle" /\ ender["exit"].at = "idle"
  /\ shell = "closing" => ender["close"].at # "idle" /\ ender["exit"].at = "idle"
  /\ shell = "closed" => ender["close"].at # "idle" \/ ender["exit"].at # "idle"

LogShapes ==
  /\ shown \in Nat /\ entry \in [Rec -> EntryType] /\ write \in [Rec -> StreamType]
  /\ \A i \in Rec : i # 1 => entry[i].at = "none" /\ write[i].at = "none"
  /\ inMap \in [entry : {0, 1}, stream : {0, 1}]
  /\ metaQueue \in Seq(Metas) /\ IsRead(reader)
  /\ \A e \in Enders : ender[e].rec \in {0, 1} /\ ender[e].stream \in {0, 1}
  /\ entry[1].at = "none" => inMap.entry = 0 /\ inMap.stream = 0 /\ shown = 0
  /\ shell = "open" /\ entry[1].at # "none" => inMap.entry = 1
  /\ \A e \in Enders : /\ ender[e].rec = 1 => entry[1].at # "none"
                       /\ ender[e].at = "draining" => inMap.entry \in {0, ender[e].rec}

(* The entry and the stream of the recording, and the file.                *)
Held1(e) ==
  /\ e.at # "none" => e.bytes = Kept /\ (e.truncated <=> shown >= Cap)
  /\ e.at = "preparing" => e.pending = Run(0, Kept)
  /\ e.at = "begun" => e.pending = <<>>
Streamed(e, w) ==
  /\ e.at # "begun" => w.at = "none" /\ w.queue = <<>> /\ file = NoFile /\ inMap.stream = 0
  /\ e.at = "begun" =>
       /\ w.at \in {"opening", "open", "closed"} /\ w.written \in 0 .. Kept /\ w.queue = Run(w.written, Kept)
       /\ w.at = "opening" => file = NoFile /\ w.written = 0
       /\ w.at # "opening" => file = Run(0, w.written)
       /\ w.at = "closed" => w.written = Kept
       /\ shell = "open" => inMap.stream = 1 /\ w.at # "closed" /\ ~w.ending
       /\ inMap.entry = 1 /\ Kept > 0 => flushed.rec = 1 /\ flushed.upTo = Kept
FileBooks == Held1(entry[1]) /\ Streamed(entry[1], write[1])

(* An end() that found the recording begun and its sidecar written.        *)
FinalBooks ==
  ender["exit"].at # "idle" /\ ~ender["exit"].early =>
    /\ entry[1].at = "begun" /\ ender["exit"].rec = 1 /\ ender["exit"].stream = 1
    /\ inMap.stream = 0 /\ ender["close"].at # "draining"
    /\ \A k \in DOMAIN metaQueue : metaQueue[k] = Final
    /\ ender["exit"].at = "done" => write[1].at = "closed" /\ (metaQueue # <<>> \/ meta = Final)

ReaderBooks ==
  ender["close"].at = "idle" =>
    /\ reader.at = "flush" =>
         /\ reader.need \in 0 .. Kept
         /\ reader.need > 0 => entry[1].at = "begun" /\ reader.wait.rec = 1 /\ reader.wait.upTo = reader.need
    /\ reader.at \in {"done", "failed"} => Len(reader.got) >= reader.need

LogInv == EndBooks /\ (Whole => LogShapes /\ FileBooks /\ FinalBooks /\ ReaderBooks)

LEMMA RunIs ==
  ASSUME NEW a \in Nat, NEW b \in Nat, a <= b
  PROVE  /\ Run(a, b) \in Seq(Nat) /\ Len(Run(a, b)) = b - a /\ \A j \in 1 .. (b - a) : Run(a, b)[j] = a + j
         /\ (Run(a, b) = <<>> <=> a = b) /\ Append(Run(a, b), b + 1) = Run(a, b + 1)
         /\ Run(0, a) \o Run(a, b) = Run(0, b)
         /\ a < b => Head(Run(a, b)) = a + 1 /\ Tail(Run(a, b)) = Run(a + 1, b)
<1>1. \A x, y \in Nat : x <= y => /\ Run(x, y) \in Seq(Nat) /\ Len(Run(x, y)) = y - x
                                  /\ \A j \in 1 .. (y - x) : Run(x, y)[j] = x + j
  BY DEF Run
<1>2. Run(a, b) \in Seq(Nat) /\ Len(Run(a, b)) = b - a /\ \A j \in 1 .. (b - a) : Run(a, b)[j] = a + j
  BY <1>1
<1>3. Run(a, b) = <<>> <=> a = b
  BY <1>2, EmptySeq
<1>4. Append(Run(a, b), b + 1) = Run(a, b + 1)
  <2>1. Run(a, b + 1) \in Seq(Nat) /\ Len(Run(a, b + 1)) = b + 1 - a /\ \A j \in 1 .. (b + 1 - a) : Run(a, b + 1)[j] = a + j
    BY <1>1
  <2>2. /\ Append(Run(a, b), b + 1) \in Seq(Nat) /\ Len(Append(Run(a, b), b + 1)) = b - a + 1
        /\ Append(Run(a, b), b + 1)[b - a + 1] = b + 1
        /\ \A j \in 1 .. (b - a) : Append(Run(a, b), b + 1)[j] = a + j
    BY <1>2, AppendProperties
  <2>3. \A j \in 1 .. (b - a + 1) : Append(Run(a, b), b + 1)[j] = Run(a, b + 1)[j]
    BY <2>1, <2>2
  <2> QED BY <2>1, <2>2, <2>3, SeqEqual
<1>5. Run(0, a) \o Run(a, b) = Run(0, b)
  <2>1. /\ Run(0, a) \in Seq(Nat) /\ Len(Run(0, a)) = a /\ \A j \in 1 .. a : Run(0, a)[j] = j
        /\ Run(0, b) \in Seq(Nat) /\ Len(Run(0, b)) = b /\ \A j \in 1 .. b : Run(0, b)[j] = j
    <3>1. ASSUME NEW y \in Nat PROVE Run(0, y) \in Seq(Nat) /\ Len(Run(0, y)) = y /\ \A j \in 1 .. y : Run(0, y)[j] = j
      <4>1. y - 0 = y /\ 0 \in Nat /\ 0 <= y
        OBVIOUS
      <4>2. Run(0, y) \in Seq(Nat) /\ Len(Run(0, y)) = y - 0
        BY <1>1, <4>1
      <4>3. \A j \in 1 .. (y - 0) : Run(0, y)[j] = 0 + j
        BY <1>1, <4>1
      <4>4. 1 .. (y - 0) = 1 .. y /\ \A j \in 1 .. y : 0 + j = j
        BY <4>1
      <4> QED BY <4>1, <4>2, <4>3, <4>4
    <3> QED BY <3>1
  <2> DEFINE s == Run(0, a)
             t == Run(a, b)
             u == s \o t
  <2>2. u \in Seq(Nat) /\ Len(u) = b /\ \A j \in 1 .. b : u[j] = IF j <= a THEN s[j] ELSE t[j - a]
    <3> HIDE DEF s, t
    <3>1. Len(s) = a /\ Len(t) = b - a /\ s \in Seq(Nat) /\ t \in Seq(Nat)
      BY <1>2, <2>1 DEF s, t
    <3>2. u \in Seq(Nat) /\ Len(u) = Len(s) + Len(t)
      BY <3>1, ConcatProperties
    <3>3. \A j \in 1 .. Len(s) + Len(t) : u[j] = IF j <= Len(s) THEN s[j] ELSE t[j - Len(s)]
      BY <3>1, ConcatProperties
    <3>4. Len(s) + Len(t) = b
      BY <3>1
    <3> HIDE DEF u
    <3> QED BY <3>1, <3>2, <3>3, <3>4
  <2>3. ASSUME NEW j \in 1 .. b PROVE u[j] = Run(0, b)[j]
    <3>1. CASE j <= a
      <4>1. j \in 1 .. a
        BY <3>1
      <4> HIDE DEF u
      <4> QED BY <2>1, <2>2, <3>1, <4>1
    <3>2. CASE j > a
      <4>1. j - a \in 1 .. (b - a) /\ ~(j <= a) /\ a + (j - a) = j
        BY <3>2
      <4>2. t[j - a] = a + (j - a)
        BY <1>2, <4>1
      <4> HIDE DEF u, t
      <4> QED BY <2>1, <2>2, <4>1, <4>2
    <3>3. j <= a \/ j > a
      OBVIOUS
    <3> HIDE DEF u, s, t
    <3> QED BY <3>1, <3>2, <3>3
  <2> QED BY <2>1, <2>2, <2>3, SeqEqual
<1>6. ASSUME a < b PROVE Head(Run(a, b)) = a + 1 /\ Tail(Run(a, b)) = Run(a + 1, b)
  <2>1. Run(a + 1, b) \in Seq(Nat) /\ Len(Run(a + 1, b)) = b - a - 1 /\ \A j \in 1 .. (b - a - 1) : Run(a + 1, b)[j] = a + 1 + j
    BY <1>1, <1>6
  <2>2. Run(a, b) # <<>>
    BY <1>3, <1>6
  <2>3. /\ Head(Run(a, b)) = a + 1 /\ Tail(Run(a, b)) \in Seq(Nat) /\ Len(Tail(Run(a, b))) = b - a - 1
        /\ \A j \in 1 .. (b - a - 1) : Tail(Run(a, b))[j] = a + 1 + j
    <3>1. \A j \in 1 .. (b - a - 1) : Tail(Run(a, b))[j] = Run(a, b)[j + 1]
      BY <1>2, <2>2, HeadTailProperties
    <3>2. Tail(Run(a, b)) \in Seq(Nat) /\ Len(Tail(Run(a, b))) = b - a - 1
      BY <1>2, <2>2, HeadTailProperties
    <3>3. Head(Run(a, b)) = Run(a, b)[1]
      OBVIOUS
    <3> QED BY <1>2, <1>6, <3>1, <3>2, <3>3
  <2>4. \A j \in 1 .. (b - a - 1) : Tail(Run(a, b))[j] = Run(a + 1, b)[j]
    BY <2>1, <2>3
  <2> QED BY <2>1, <2>3, <2>4, SeqEqual
<1> QED BY <1>2, <1>3, <1>4, <1>5, <1>6

(* Nothing makes whole again what was deleted, or closed before its exit.  *)
LEMMA EndBooksStep == EndBooks /\ [LogNext]_storeVars => EndBooks' /\ (Whole' => Whole)
<1> SUFFICES ASSUME EndBooks, [LogNext]_storeVars PROVE EndBooks' /\ (Whole' => Whole)
  OBVIOUS
<1>1. ASSUME UNCHANGED <<shell, ender>>, remover' = "idle" => remover = "idle" PROVE EndBooks' /\ (Whole' => Whole)
  BY <1>1 DEF EndBooks, Whole
<1>2. CASE UNCHANGED storeVars
  BY <1>1, <1>2 DEF storeVars
<1>3. CASE \/ Output \/ MetaLands \/ (\E i \in Rec : Prepared(i) \/ Drain(i))
           \/ RemoveRecording \/ RemoveLog \/ RemoveSidecar \/ ReadStart \/ ReadFlushed
  BY <1>1, <1>3 DEF Output, MetaLands, Prepared, Drain, RemoveRecording, RemoveLog, RemoveSidecar, ReadStart, ReadFlushed
<1>4. ASSUME NEW e \in Enders, EndLog(e)
      PROVE  \E r : /\ IsEnd(r) /\ r.at \in {"draining", "done"} /\ ender' = [ender EXCEPT ![e] = r]
  <2> DEFINE wait == inMap.stream # 0
             at == IF wait THEN "draining" ELSE "done"
             early == ~Settled(inMap.entry)
             r == [at |-> at, rec |-> inMap.entry, stream |-> inMap.stream, early |-> early]
  <2>1. ender' = [ender EXCEPT ![e] = r] /\ at \in {"draining", "done"}
    BY <1>4 DEF EndLog
  <2> HIDE DEF at, early
  <2>2. IsEnd(r) /\ r.at = at
    BY DEF IsEnd
  <2> HIDE DEF r
  <2> QED BY <2>1, <2>2
<1>5. CASE CloseSession
  <2>1. PICK r : IsEnd(r) /\ r.at \in {"draining", "done"} /\ ender' = [ender EXCEPT !["close"] = r]
    BY <1>4, <1>5 DEF CloseSession, Enders
  <2>2. shell = "open" /\ shell' = "closing" /\ remover' = remover
    BY <1>5 DEF CloseSession
  <2> QED BY <2>1, <2>2 DEF EndBooks, Whole, Enders
<1>6. CASE ShellClosed
  <2>1. shell # "closed" /\ shell' = "closed" /\ remover' = remover
    BY <1>6 DEF ShellClosed
  <2>2. CASE shell = "open"
    <3>1. PICK r : IsEnd(r) /\ r.at \in {"draining", "done"} /\ ender' = [ender EXCEPT !["exit"] = r]
      BY <1>4, <1>6, <2>2 DEF ShellClosed, Enders
    <3> QED BY <2>1, <2>2, <3>1 DEF EndBooks, Whole, Enders
  <2>3. CASE shell # "open"
    BY <1>6, <2>1, <2>3 DEF ShellClosed, EndBooks, Whole
  <2> QED BY <2>2, <2>3
<1>7. CASE CloseExited
  <2>1. PICK r : IsEnd(r) /\ r.at \in {"draining", "done"} /\ ender' = [ender EXCEPT !["close"] = r]
    BY <1>4, <1>7 DEF CloseExited, Enders
  <2>2. shell = "closed" /\ shell' = "closed" /\ remover' = remover /\ ender["exit"].at # "idle"
    BY <1>7 DEF CloseExited
  <2> QED BY <2>1, <2>2 DEF EndBooks, Whole, Enders
<1>8. ASSUME NEW e \in Enders, EndDrained(e) PROVE EndBooks' /\ (Whole' => Whole)
  <2>1. ender[e].at = "draining" /\ ender' = [ender EXCEPT ![e].at = "done"] /\ UNCHANGED <<shell, remover>>
    BY <1>8 DEF EndDrained
  <2>2. /\ DOMAIN ender' = Enders /\ \A d \in Enders : IsEnd(ender'[d]) /\ d # e => ender'[d] = ender[d]
        /\ IsEnd(ender'[e]) /\ ender'[e].at = "done"
    BY <2>1 DEF EndBooks, IsEnd
  <2> QED BY <2>1, <2>2 DEF EndBooks, Whole, Enders
<1> QED BY <1>2, <1>3, <1>5, <1>6, <1>7, <1>8 DEF LogNext, Enders

LEMMA LogBegins == LogInit => LogInv
<1> SUFFICES ASSUME LogInit PROVE LogInv
  OBVIOUS
<1>1. /\ 1 \in Rec /\ shown = 0 /\ shown \in Nat /\ Kept = 0 /\ shell = "open" /\ file = NoFile /\ metaQueue = <<>>
      /\ inMap.entry = 0 /\ inMap.stream = 0 /\ inMap \in [entry : {0, 1}, stream : {0, 1}]
  BY LogAssumption DEF LogInit, Rec, Kept
<1>2. /\ DOMAIN ender = Enders
      /\ \A e \in Enders : IsEnd(ender[e]) /\ ender[e].at = "idle" /\ ender[e].rec = 0 /\ ender[e].stream = 0
  BY DEF LogInit, Enders, NoEnd, IsEnd
<1>3. entry \in [Rec -> EntryType] /\ \A i \in Rec : entry[i].at = "none"
  BY EmptySeq DEF LogInit, NewEntry, EntryType
<1>4. write \in [Rec -> StreamType] /\ \A i \in Rec : write[i].at = "none" /\ write[i].queue = <<>>
  BY EmptySeq DEF LogInit, NewStream, StreamType
<1>5. IsRead(reader) /\ reader.at = "idle"
  BY DEF LogInit, IsRead
<1>6. EndBooks
  BY <1>1, <1>2 DEF EndBooks, Enders
<1>7. LogShapes
  BY <1>1, <1>2, <1>3, <1>4, <1>5 DEF LogShapes
<1>8. FileBooks /\ FinalBooks /\ ReaderBooks
  BY <1>1, <1>2, <1>3, <1>4, <1>5 DEF FileBooks, Held1, Streamed, FinalBooks, ReaderBooks, Enders
<1> QED BY <1>6, <1>7, <1>8 DEF LogInv

-----------------------------------------------------------------------------
LogBooks == EndBooks /\ Whole /\ LogShapes /\ FileBooks /\ FinalBooks /\ ReaderBooks

(* A chunk goes to the entry e, which is there or is new.                  *)
LEMMA PutIs ==
  ASSUME LogBooks, NEW e \in EntryType, e.bytes = Kept, (e.truncated \/ e.bytes >= Cap) <=> shown >= Cap,
         Put(1, e, shown + 1)
  PROVE  \E r \in EntryType : /\ r.at = e.at /\ r.ended = e.ended /\ entry' = [entry EXCEPT ![1] = r]
                             /\ r.bytes = (IF shown >= Cap THEN Kept ELSE Kept + 1) /\ (r.truncated <=> shown + 1 >= Cap)
                             /\ r.pending = IF shown >= Cap \/ inMap.stream # 0 THEN e.pending ELSE Append(e.pending, shown + 1)
<1> DEFINE over == e.truncated \/ e.bytes >= Cap
           t == e.bytes + 1 >= Cap
           b == IF over THEN e.bytes ELSE e.bytes + 1
           p == IF over \/ inMap.stream # 0 THEN e.pending ELSE Append(e.pending, shown + 1)
<1>1. entry' = [entry EXCEPT ![1] = [e EXCEPT !.truncated = t, !.bytes = b, !.pending = p]]
  BY DEF Put
<1>2. b = (IF shown >= Cap THEN Kept ELSE Kept + 1) /\ (t <=> shown + 1 >= Cap)
      /\ p = IF shown >= Cap \/ inMap.stream # 0 THEN e.pending ELSE Append(e.pending, shown + 1)
  BY LogAssumption DEF Kept, LogBooks, LogShapes
<1>3. t = TRUE \/ t = FALSE
  OBVIOUS
<1>7. b \in Nat /\ p \in Seq(Nat)
  <2>1. e.bytes \in Nat /\ e.pending \in Seq(Nat) /\ shown + 1 \in Nat
    BY DEF EntryType, LogBooks, LogShapes
  <2>2. Append(e.pending, shown + 1) \in Seq(Nat)
    BY <2>1, AppendProperties
  <2> QED BY <2>1, <2>2
<1> HIDE DEF t, b, p, over
<1>4. ASSUME NEW x \in {TRUE, FALSE}, t = x
      PROVE  \E r \in EntryType : /\ r.at = e.at /\ r.ended = e.ended /\ entry' = [entry EXCEPT ![1] = r]
                                  /\ r.bytes = b /\ r.truncated = x /\ r.pending = p
  <2> DEFINE r == [e EXCEPT !.truncated = x, !.bytes = b, !.pending = p]
  <2>1. r \in EntryType /\ r.at = e.at /\ r.ended = e.ended /\ r.bytes = b /\ r.truncated = x /\ r.pending = p
    BY <1>7 DEF EntryType
  <2>2. entry' = [entry EXCEPT ![1] = r]
    BY <1>1, <1>4
  <2> HIDE DEF r
  <2> QED BY <2>1, <2>2
<1>5. CASE t = TRUE
  BY <1>2, <1>4, <1>5
<1>6. CASE t = FALSE
  BY <1>2, <1>4, <1>6
<1> QED BY <1>3, <1>5, <1>6

LEMMA BooksAre ==
  ASSUME LogBooks
  PROVE  /\ 1 \in Rec /\ shown \in Nat /\ Kept \in Nat /\ Kept <= shown /\ entry[1] \in EntryType /\ write[1] \in StreamType
         /\ inMap.entry \in {0, 1} /\ inMap.stream \in {0, 1}
         /\ inMap.entry = 1 => entry[1].at # "none"
         /\ inMap.stream = 1 => entry[1].at = "begun"
         /\ shell \in {"open", "closed"} /\ (shell = "open" <=> ender["exit"].at = "idle")
         /\ shell = "open" => ender["close"].at = "idle"
<1>1. 1 \in Rec
  BY LogAssumption DEF Rec
<1>2. Kept \in Nat /\ Kept <= shown
  BY LogAssumption DEF Kept, LogBooks, LogShapes
<1>3. inMap.stream = 1 => entry[1].at = "begun"
  BY DEF LogBooks, FileBooks, Streamed
<1>4. shell \in {"open", "closed"} /\ (shell = "open" <=> ender["exit"].at = "idle") /\ (shell = "open" => ender["close"].at = "idle")
  BY DEF LogBooks, EndBooks, Whole
<1> QED BY <1>1, <1>2, <1>3, <1>4 DEF LogBooks, LogShapes

LEMMA OutputKeeps == ASSUME LogBooks, Output PROVE LogShapes' /\ FileBooks' /\ FinalBooks' /\ ReaderBooks'
<1>1. /\ shell = "open" /\ ender["exit"].at = "idle" /\ ender["close"].at = "idle" /\ shown' = shown + 1
      /\ UNCHANGED <<shell, file, meta, metaQueue, ender, remover, reader>>
  BY BooksAre DEF Output
<1>2. /\ shown \in Nat /\ Kept \in Nat /\ Kept' = (IF shown >= Cap THEN Kept ELSE Kept + 1) /\ Kept <= Kept'
      /\ (shown < Cap => Kept = shown) /\ Kept' \in Nat /\ Kept' >= 0
  BY <1>1, BooksAre, LogAssumption DEF Kept
<1>3. PICK e \in EntryType :
         /\ Put(1, e, shown + 1) /\ e.bytes = Kept /\ ((e.truncated \/ e.bytes >= Cap) <=> shown >= Cap)
         /\ e.at \in {"preparing", "begun"} /\ (e.at = "begun" <=> entry[1].at = "begun")
         /\ e.pending = IF e.at = "begun" THEN <<>> ELSE Run(0, Kept)
         /\ inMap'.entry = 1 /\ inMap'.stream = inMap.stream /\ inMap' \in [entry : {0, 1}, stream : {0, 1}]
  <2>1. CASE inMap.entry # 0
    <3>1. inMap.entry = 1 /\ Put(1, entry[1], shown + 1) /\ inMap' = inMap
      BY <2>1, BooksAre DEF Output
    <3>2. entry[1] \in EntryType /\ entry[1].at \in {"preparing", "begun"}
      BY <3>1, BooksAre DEF EntryType
    <3>3. entry[1].bytes = Kept /\ (entry[1].truncated <=> shown >= Cap)
      BY <3>2 DEF LogBooks, FileBooks, Held1
    <3>4. (entry[1].truncated \/ entry[1].bytes >= Cap) <=> shown >= Cap
      BY <3>3, <1>2, LogAssumption DEF Kept
    <3>5. entry[1].pending = IF entry[1].at = "begun" THEN <<>> ELSE Run(0, Kept)
      BY <3>2 DEF LogBooks, FileBooks, Held1
    <3> QED BY <3>1, <3>2, <3>3, <3>4, <3>5 DEF LogBooks, LogShapes
  <2>2. CASE inMap.entry = 0
    <3>1. PICK i \in Rec : /\ entry[i].at = "none" /\ (\A j \in 1 .. (i - 1) : entry[j].at # "none")
                           /\ inMap' = [inMap EXCEPT !.entry = i] /\ Put(i, NewEntry, shown + 1)
      BY <2>2 DEF Output
    <3>2. entry[1].at = "none" /\ shown = 0
      BY <1>1, <2>2 DEF LogBooks, LogShapes
    <3>3. i = 1
      BY <3>1, <3>2, LogAssumption DEF Rec
    <3>4. NewEntry \in EntryType /\ NewEntry.at = "preparing" /\ NewEntry.bytes = 0 /\ NewEntry.pending = <<>> /\ ~NewEntry.truncated
      BY EmptySeq DEF NewEntry, EntryType
    <3>5. Kept = 0 /\ Run(0, Kept) = <<>>
      <4>1. Kept = 0 /\ 0 \in Nat /\ 0 <= 0
        BY <3>2, BooksAre
      <4>2. Run(0, 0) = <<>>
        BY <4>1, RunIs
      <4> QED BY <4>1, <4>2
    <3>6. (NewEntry.truncated \/ NewEntry.bytes >= Cap) <=> shown >= Cap
      BY <3>2, <3>4
    <3>7. inMap'.entry = 1 /\ inMap'.stream = inMap.stream /\ inMap' \in [entry : {0, 1}, stream : {0, 1}]
      BY <3>1, <3>3 DEF LogBooks, LogShapes
    <3> QED BY <3>1, <3>2, <3>3, <3>4, <3>5, <3>6, <3>7
  <2> QED BY <2>1, <2>2
<1>4. PICK r \in EntryType :
         /\ r.at = e.at /\ entry' = [entry EXCEPT ![1] = r] /\ r.bytes = Kept' /\ (r.truncated <=> shown' >= Cap)
         /\ r.pending = IF shown >= Cap \/ inMap.stream # 0 THEN e.pending ELSE Append(e.pending, shown + 1)
  <2>1. PICK r \in EntryType : /\ r.at = e.at /\ r.ended = e.ended /\ entry' = [entry EXCEPT ![1] = r]
                               /\ r.bytes = (IF shown >= Cap THEN Kept ELSE Kept + 1) /\ (r.truncated <=> shown + 1 >= Cap)
                               /\ r.pending = IF shown >= Cap \/ inMap.stream # 0 THEN e.pending ELSE Append(e.pending, shown + 1)
    BY <1>3, PutIs
  <2> QED BY <1>1, <1>2, <2>1
<1>5. inMap.stream = 1 <=> e.at = "begun"
  BY <1>1, <1>3, BooksAre DEF LogBooks, FileBooks, Streamed
<1>6. PICK w \in StreamType :
         /\ w.at = write[1].at /\ w.ending = write[1].ending /\ w.written = write[1].written /\ write' = [write EXCEPT ![1] = w]
         /\ w.queue = IF shown >= Cap \/ inMap.stream = 0 THEN write[1].queue ELSE Append(write[1].queue, shown + 1)
  <2>1. write[1] \in StreamType /\ write \in [Rec -> StreamType]
    BY BooksAre DEF LogBooks, LogShapes
  <2>2. CASE shown >= Cap \/ inMap.stream = 0
    <3>1. write' = write
      BY <1>3, <2>2 DEF Put
    <3>2. write' = [write EXCEPT ![1] = write[1]]
      BY <2>1, <3>1
    <3> QED BY <2>1, <2>2, <3>2
  <2>3. CASE shown < Cap /\ inMap.stream = 1
    <3> DEFINE q == Append(write[1].queue, shown + 1)
               w == [write[1] EXCEPT !.queue = q]
    <3>1. q \in Seq(Nat)
      BY <1>2, <2>1, AppendProperties DEF StreamType
    <3>2. write' = [write EXCEPT ![1] = w]
      <4>0. ~(e.truncated \/ e.bytes >= Cap) /\ inMap.stream # 0
        <5>1. ~(shown >= Cap)
          BY <1>2, <2>3, LogAssumption
        <5> QED BY <1>3, <2>3, <5>1
      <4>1. write' = [write EXCEPT ![inMap.stream].queue = Append(@, shown + 1)]
        BY <1>3, <4>0 DEF Put
      <4> QED BY <2>1, <2>3, <4>1
    <3> HIDE DEF q
    <3>3. w \in StreamType /\ w.at = write[1].at /\ w.ending = write[1].ending /\ w.written = write[1].written /\ w.queue = q
      BY <2>1, <3>1 DEF StreamType
    <3>4. w.queue = IF shown >= Cap \/ inMap.stream = 0 THEN write[1].queue ELSE Append(write[1].queue, shown + 1)
      BY <1>2, <2>3, <3>3, LogAssumption DEF q
    <3> HIDE DEF w
    <3> QED BY <3>2, <3>3, <3>4
  <2> QED BY <1>2, <2>2, <2>3, BooksAre, LogAssumption
<1>7. /\ entry'[1] = r /\ write'[1] = w /\ entry' \in [Rec -> EntryType] /\ write' \in [Rec -> StreamType]
      /\ \A i \in Rec : i # 1 => entry'[i] = entry[i] /\ write'[i] = write[i]
  BY <1>4, <1>6, BooksAre DEF LogBooks, LogShapes
<1>8. LogShapes'
  <2>1. r.at # "none"
    BY <1>3, <1>4
  <2> QED BY <1>1, <1>2, <1>3, <1>7, <2>1 DEF LogBooks, LogShapes, Enders
<1>9. Held1(r)'
  <2>1. CASE e.at = "begun"
    BY <1>3, <1>4, <1>5, <2>1 DEF Held1
  <2>2. CASE e.at = "preparing"
    <3>1. inMap.stream = 0
      BY <1>5, <2>2, BooksAre
    <3>2. r.pending = Run(0, Kept')
      <4>1. CASE shown >= Cap
        BY <1>2, <1>3, <1>4, <2>2, <4>1
      <4>2. CASE shown < Cap
        <5>0. Kept \in Nat /\ 0 \in Nat /\ 0 <= Kept
          BY <1>2
        <5>1. Append(Run(0, Kept), Kept + 1) = Run(0, Kept + 1)
          BY <5>0, RunIs
        <5> QED BY <1>2, <1>3, <1>4, <2>2, <3>1, <4>2, <5>1, LogAssumption
      <4> QED BY <1>2, <4>1, <4>2, LogAssumption
    <3> QED BY <1>4, <2>2, <3>2 DEF Held1
  <2> QED BY <1>3, <2>1, <2>2
<1>10. Streamed(r, w)'
  <2>1. CASE e.at # "begun"
    <3>1. entry[1].at # "begun" /\ inMap.stream = 0
      BY <1>3, <1>5, <2>1, BooksAre
    <3> QED BY <1>1, <1>3, <1>4, <1>6, <2>1, <3>1 DEF LogBooks, FileBooks, Streamed
  <2>2. CASE e.at = "begun"
    <3>1. /\ entry[1].at = "begun" /\ inMap.stream = 1
          /\ write[1].at \in {"opening", "open"} /\ write[1].written \in 0 .. Kept /\ write[1].queue = Run(write[1].written, Kept)
          /\ (write[1].at = "opening" => file = NoFile /\ write[1].written = 0)
          /\ (write[1].at # "opening" => file = Run(0, write[1].written)) /\ ~write[1].ending
      BY <1>1, <1>3, <1>5, <2>2 DEF LogBooks, FileBooks, Streamed
    <3>2. w.queue = Run(w.written, Kept') /\ w.written \in 0 .. Kept'
      <4>1. CASE shown >= Cap
        BY <1>2, <1>6, <3>1, <4>1
      <4>2. CASE shown < Cap
        <5>0. Kept \in Nat /\ write[1].written \in Nat /\ write[1].written <= Kept
          BY <1>2, <3>1
        <5>1. Append(Run(write[1].written, Kept), Kept + 1) = Run(write[1].written, Kept + 1)
          BY <5>0, RunIs
        <5>2. ~(shown >= Cap \/ inMap.stream = 0) /\ Kept' = Kept + 1 /\ Kept = shown
          BY <1>2, <3>1, <4>2, LogAssumption
        <5>3. w.queue = Append(write[1].queue, shown + 1)
          BY <1>6, <5>2
        <5>4. w.queue = Run(w.written, Kept')
          BY <1>6, <3>1, <5>1, <5>2, <5>3
        <5> QED BY <1>2, <1>6, <3>1, <5>4
      <4> QED BY <1>2, <4>1, <4>2, LogAssumption
    <3>3. Kept' > 0 => flushed'.rec = 1 /\ flushed'.upTo = Kept'
      <4>1. CASE shown >= Cap
        <5>1. flushed' = flushed /\ Kept' = Kept
          BY <1>2, <1>3, <4>1 DEF Put
        <5>2. Kept > 0 => inMap.entry = 1
          BY <1>1, <3>1 DEF LogBooks, LogShapes
        <5> QED BY <3>1, <5>1, <5>2 DEF LogBooks, FileBooks, Streamed
      <4>2. CASE shown < Cap
        <5>1. flushed' = [rec |-> inMap.stream, upTo |-> shown + 1]
          BY <1>2, <1>3, <3>1, <4>2, LogAssumption DEF Put
        <5> QED BY <1>2, <3>1, <4>2, <5>1, LogAssumption
      <4> QED BY <1>2, <4>1, <4>2, LogAssumption
    <3> QED BY <1>1, <1>3, <1>4, <1>6, <2>2, <3>1, <3>2, <3>3 DEF Streamed
  <2> QED BY <2>1, <2>2
<1>11. ReaderBooks'
  <2>1. entry[1].at = "begun" => r.at = "begun"
    BY <1>3, <1>4
  <2> QED BY <1>1, <1>2, <1>7, <2>1 DEF LogBooks, ReaderBooks
<1> QED BY <1>1, <1>7, <1>8, <1>9, <1>10, <1>11 DEF FileBooks, FinalBooks, Held1, Streamed

LEMMA RemoveAtIn ==
  ASSUME NEW S, NEW s \in Seq(S), NEW k \in DOMAIN s
  PROVE  RemoveAt(s, k) \in Seq(S) /\ Len(RemoveAt(s, k)) = Len(s) - 1
<1>1. k \in 1 .. Len(s) /\ Len(s) \in Nat /\ \A j \in 1 .. Len(s) : s[j] \in S
  OBVIOUS
<1>2. SubSeq(s, 1, k - 1) \in Seq(S) /\ Len(SubSeq(s, 1, k - 1)) = k - 1
  <2>1. \A j \in 1 .. (k - 1) : s[j] \in S
    BY <1>1
  <2> QED BY <1>1, <2>1, SubSeqProperties
<1>3. SubSeq(s, k + 1, Len(s)) \in Seq(S) /\ Len(SubSeq(s, k + 1, Len(s))) = Len(s) - k
  <2>1. \A j \in (k + 1) .. Len(s) : s[j] \in S
    BY <1>1
  <2> QED BY <1>1, <2>1, SubSeqProperties
<1> DEFINE a == SubSeq(s, 1, k - 1)
           b == SubSeq(s, k + 1, Len(s))
<1>4. RemoveAt(s, k) = a \o b
  BY DEF RemoveAt
<1> HIDE DEF a, b
<1>5. a \in Seq(S) /\ b \in Seq(S) /\ Len(a) = k - 1 /\ Len(b) = Len(s) - k
  BY <1>2, <1>3 DEF a, b
<1>6. a \o b \in Seq(S) /\ Len(a \o b) = Len(a) + Len(b)
  BY <1>5, ConcatProperties
<1> QED BY <1>1, <1>4, <1>5, <1>6

LEMMA PreparedKeeps ==
  ASSUME LogBooks, NEW i \in Rec, Prepared(i) PROVE LogShapes' /\ FileBooks' /\ FinalBooks' /\ ReaderBooks'
<1>1. /\ i = 1 /\ entry[1].at = "preparing" /\ UNCHANGED <<shell, shown, file, meta, ender, remover, reader>> /\ Kept' = Kept
      /\ entry[1].bytes = Kept /\ (entry[1].truncated <=> shown >= Cap) /\ entry[1].pending = Run(0, Kept)
      /\ file = NoFile /\ inMap.stream = 0
  BY DEF Prepared, LogBooks, LogShapes, FileBooks, Held1, Streamed, Kept
<1>2. /\ entry[1] \in EntryType /\ Kept \in Nat /\ 1 \in Rec /\ 0 \in Nat /\ 0 <= Kept
  BY BooksAre
<1>3. PICK r \in EntryType :
        /\ r.at = "begun" /\ r.bytes = Kept /\ (r.truncated <=> shown >= Cap) /\ r.pending = <<>> /\ entry' = [entry EXCEPT ![1] = r]
  <2> DEFINE r == [entry[1] EXCEPT !.at = "begun", !.pending = <<>>]
  <2>1. entry' = [entry EXCEPT ![1].at = "begun", ![1].pending = <<>>]
    BY <1>1 DEF Prepared
  <2>2. entry' = [entry EXCEPT ![1] = r]
    BY <1>2, <2>1 DEF LogBooks, LogShapes
  <2>3. <<>> \in Seq(Nat)
    BY EmptySeq
  <2>4. r \in EntryType /\ r.at = "begun" /\ r.bytes = entry[1].bytes /\ r.truncated = entry[1].truncated /\ r.pending = <<>>
    BY <1>2, <2>3 DEF EntryType
  <2> HIDE DEF r
  <2> QED BY <1>1, <2>2, <2>4
<1>4. PICK w \in StreamType :
        /\ w.at = "opening" /\ w.queue = Run(0, Kept) /\ w.written = 0 /\ ~w.ending /\ write' = [write EXCEPT ![1] = w]
  <2>0. Kept \in Nat /\ 0 \in Nat /\ 0 <= Kept
    BY <1>2
  <2>1. Run(0, Kept) \in Seq(Nat)
    BY <2>0, RunIs
  <2>2. NewStream(Run(0, Kept)) \in StreamType
    BY <2>1 DEF NewStream, StreamType
  <2>3. write' = [write EXCEPT ![1] = NewStream(Run(0, Kept))]
    BY <1>1 DEF Prepared
  <2> QED BY <2>2, <2>3 DEF NewStream
<1>5. inMap' \in [entry : {0, 1}, stream : {0, 1}] /\ inMap'.entry = inMap.entry /\ inMap'.stream = 1
  BY <1>1 DEF Prepared, LogBooks, LogShapes
<1>6. metaQueue' \in Seq(Metas)
  <2>1. entry[1].ended \in BOOLEAN /\ entry[1].bytes \in Nat
    BY <1>2 DEF EntryType
  <2>2. MetaOf(1, entry[1].ended) \in Metas
    BY <2>1 DEF MetaOf, Metas
  <2> QED BY <1>1, <2>2, AppendProperties DEF Prepared, LogBooks, LogShapes
<1>7. Kept > 0 => flushed'.rec = 1 /\ flushed'.upTo = Kept
  <2> SUFFICES ASSUME Kept > 0 PROVE flushed'.rec = 1 /\ flushed'.upTo = Kept
    OBVIOUS
  <2>0. Kept \in Nat /\ 0 \in Nat /\ 0 <= Kept /\ 0 # Kept
    BY <1>2
  <2>1. Run(0, Kept) # <<>> /\ Len(Run(0, Kept)) = Kept - 0 /\ \A j \in 1 .. (Kept - 0) : Run(0, Kept)[j] = 0 + j
    BY <2>0, RunIs
  <2>2. Last(Run(0, Kept)) = Kept
    BY <1>2, <2>1 DEF Last
  <2>3. flushed' = [rec |-> 1, upTo |-> Kept]
    BY <1>1, <2>1, <2>2 DEF Prepared
  <2> QED BY <2>3
<1>8. /\ entry'[1] = r /\ write'[1] = w /\ entry' \in [Rec -> EntryType] /\ write' \in [Rec -> StreamType]
      /\ \A j \in Rec : j # 1 => entry'[j] = entry[j] /\ write'[j] = write[j]
  BY <1>2, <1>3, <1>4 DEF LogBooks, LogShapes
<1>9. LogShapes'
  BY <1>1, <1>3, <1>5, <1>6, <1>8 DEF LogBooks, LogShapes, Enders
<1>10. Held1(r)'
  BY <1>1, <1>3 DEF Held1
<1>11. Streamed(r, w)'
  BY <1>1, <1>2, <1>3, <1>4, <1>5, <1>7 DEF Streamed
<1>12. FinalBooks'
  <2>1. ender["exit"].at # "idle" => ender["exit"].early
    BY <1>1 DEF LogBooks, FinalBooks
  <2> QED BY <1>1, <2>1 DEF FinalBooks
<1>13. ReaderBooks'
  BY <1>1, <1>3, <1>8 DEF LogBooks, ReaderBooks
<1> QED BY <1>8, <1>9, <1>10, <1>11, <1>12, <1>13 DEF FileBooks, Held1, Streamed

LEMMA MetaKeeps == ASSUME LogBooks, MetaLands PROVE LogShapes' /\ FileBooks' /\ FinalBooks' /\ ReaderBooks'
<1>1. /\ UNCHANGED <<shell, shown, entry, write, inMap, flushed, file, ender, remover, reader>> /\ Kept' = Kept
  BY DEF MetaLands, Kept
<1>2. PICK k \in DOMAIN metaQueue : meta' = metaQueue[k] /\ metaQueue' = RemoveAt(metaQueue, k)
  BY DEF MetaLands
<1>3. metaQueue \in Seq(Metas) /\ metaQueue' \in Seq(Metas)
  BY <1>2, RemoveAtIn DEF LogBooks, LogShapes
<1>4. ASSUME \A j \in DOMAIN metaQueue : metaQueue[j] = Final
      PROVE  meta' = Final /\ \A j \in DOMAIN metaQueue' : metaQueue'[j] = Final
  <2> DEFINE S == {Final}
  <2> HIDE DEF S
  <2>1. \A j \in 1 .. Len(metaQueue) : metaQueue[j] \in S
    BY <1>3, <1>4 DEF S
  <2>2. metaQueue \in Seq(S)
    BY <1>3, <2>1
  <2>3. metaQueue' \in Seq(S)
    BY <1>2, <2>2, RemoveAtIn
  <2>4. \A j \in DOMAIN metaQueue' : metaQueue'[j] \in S
    BY <2>3
  <2> QED BY <1>2, <1>4, <2>4 DEF S
<1>5. Final' = Final
  BY <1>1 DEF Final
<1>6. LogShapes' /\ FileBooks' /\ ReaderBooks'
  BY <1>1, <1>3 DEF LogBooks, LogShapes, FileBooks, Held1, Streamed, ReaderBooks
<1>7. FinalBooks'
  BY <1>1, <1>4, <1>5 DEF LogBooks, FinalBooks
<1> QED BY <1>6, <1>7

(* Finish leaves what was recorded; the sidecar it writes is the last one. *)
FinishKeeps(rec) ==
  /\ entry' \in [Rec -> EntryType] /\ metaQueue' \in Seq(Metas)
  /\ \A i \in Rec : i # 1 => entry'[i] = entry[i]
  /\ entry'[1].at = entry[1].at /\ entry'[1].bytes = entry[1].bytes /\ entry'[1].pending = entry[1].pending
  /\ (entry'[1].truncated <=> entry[1].truncated)
  /\ metaQueue # <<>> \/ rec = 1 => metaQueue' # <<>>
  /\ entry[1].at = "begun" /\ (\A k \in DOMAIN metaQueue : metaQueue[k] = Final)
       => \A k \in DOMAIN metaQueue' : metaQueue'[k] = Final

LEMMA FinishIs == ASSUME LogBooks, NEW rec \in {0, 1}, Finish(rec) PROVE FinishKeeps(rec)
<1>1. entry \in [Rec -> EntryType] /\ entry[1] \in EntryType /\ 1 \in Rec /\ metaQueue \in Seq(Metas)
  BY BooksAre DEF LogBooks, LogShapes
<1>2. CASE rec = 0
  BY <1>1, <1>2 DEF Finish, FinishKeeps
<1>3. CASE rec = 1
  <2>0. entry' = [entry EXCEPT ![1].ended = TRUE] /\ metaQueue' = Append(metaQueue, MetaOf(1, TRUE))
    <3>1. rec # 0
      BY <1>3
    <3> QED BY <1>3, <3>1, Zenon DEF Finish
  <2> DEFINE r == [entry[1] EXCEPT !.ended = TRUE]
             m == MetaOf(1, TRUE)
  <2>1. entry' = [entry EXCEPT ![1] = r] /\ metaQueue' = Append(metaQueue, m)
    <3>2. [entry EXCEPT ![1].ended = TRUE] = [entry EXCEPT ![1] = r]
      BY <1>1
    <3> QED BY <2>0, <3>2
  <2>2. /\ r \in EntryType /\ r.at = entry[1].at /\ r.bytes = entry[1].bytes /\ r.pending = entry[1].pending
        /\ r.truncated = entry[1].truncated
    BY <1>1 DEF EntryType
  <2>3. m \in Metas /\ (entry[1].at = "begun" => m = Final)
    <3>1. entry[1].at = "begun" => entry[1].bytes = Kept
      BY DEF LogBooks, FileBooks, Held1
    <3>2. entry[1].bytes \in Nat
      BY <1>1 DEF EntryType
    <3> QED BY <3>1, <3>2 DEF MetaOf, Metas, Final
  <2> HIDE DEF r, m
  <2>4. /\ metaQueue' \in Seq(Metas) /\ metaQueue' # <<>> /\ Len(metaQueue') = Len(metaQueue) + 1
        /\ metaQueue'[Len(metaQueue) + 1] = m /\ \A k \in 1 .. Len(metaQueue) : metaQueue'[k] = metaQueue[k]
    BY <1>1, <2>1, <2>3, AppendProperties
  <2>5. /\ entry' \in [Rec -> EntryType] /\ entry'[1] = r /\ \A i \in Rec : i # 1 => entry'[i] = entry[i]
    BY <1>1, <2>1, <2>2
  <2>6. ASSUME entry[1].at = "begun", \A k \in DOMAIN metaQueue : metaQueue[k] = Final, NEW k \in DOMAIN metaQueue'
        PROVE  metaQueue'[k] = Final
    <3>1. k \in 1 .. (Len(metaQueue) + 1) /\ Len(metaQueue) \in Nat
      BY <1>1, <2>4
    <3>2. k \in 1 .. Len(metaQueue) \/ k = Len(metaQueue) + 1
      BY <3>1
    <3>3. \A j \in 1 .. Len(metaQueue) : metaQueue[j] = Final
      BY <1>1, <2>6
    <3> QED BY <2>3, <2>4, <2>6, <3>2, <3>3
  <2> QED BY <2>2, <2>4, <2>5, <2>6 DEF FinishKeeps
<1> QED BY <1>2, <1>3

LEMMA DrainKeeps ==
  ASSUME LogBooks, NEW i \in Rec, Drain(i) PROVE LogShapes' /\ FileBooks' /\ FinalBooks' /\ ReaderBooks'
<1>1. /\ i = 1 /\ write[1].at \in {"opening", "open"} /\ entry[1].at = "begun" /\ Kept' = Kept
      /\ UNCHANGED <<shell, shown, entry, inMap, flushed, meta, metaQueue, ender, remover, reader>>
  BY DEF Drain, LogBooks, LogShapes, FileBooks, Streamed, Kept
<1>2. /\ 1 \in Rec /\ Kept \in Nat /\ write[1] \in StreamType /\ write \in [Rec -> StreamType]
      /\ write[1].written \in 0 .. Kept /\ write[1].queue = Run(write[1].written, Kept)
      /\ (write[1].at = "opening" => file = NoFile /\ write[1].written = 0)
      /\ (write[1].at # "opening" => file = Run(0, write[1].written))
      /\ (shell = "open" => inMap.stream = 1 /\ ~write[1].ending)
      /\ (inMap.entry = 1 /\ Kept > 0 => flushed.rec = 1 /\ flushed.upTo = Kept)
  BY <1>1, BooksAre DEF LogBooks, LogShapes, FileBooks, Streamed
<1>3. ASSUME NEW w \in StreamType, write' = [write EXCEPT ![1] = w], Streamed(entry[1], w)'
      PROVE  LogShapes' /\ FileBooks' /\ FinalBooks' /\ ReaderBooks'
  <2>1. write'[1] = w /\ write' \in [Rec -> StreamType] /\ \A j \in Rec : j # 1 => write'[j] = write[j]
    BY <1>2, <1>3
  <2>2. LogShapes'
    BY <1>1, <2>1 DEF LogBooks, LogShapes
  <2>3. FileBooks'
    BY <1>1, <1>3, <2>1 DEF LogBooks, FileBooks, Held1, Streamed
  <2>4. FinalBooks' /\ ReaderBooks'
    BY <1>1 DEF LogBooks, FinalBooks, ReaderBooks, Final
  <2> QED BY <2>2, <2>3, <2>4
<1>4. CASE write[1].at = "opening"
  <2>1. write' = [write EXCEPT ![1].at = "open"] /\ file' = <<>>
    BY <1>1, <1>2, <1>4 DEF Drain, Exists
  <2>2. PICK w \in StreamType : /\ write' = [write EXCEPT ![1] = w] /\ w.at = "open" /\ w.queue = Run(0, Kept)
                                /\ w.written = 0 /\ w.ending = write[1].ending
    <3> DEFINE w == [write[1] EXCEPT !.at = "open"]
    <3>1. w \in StreamType /\ w.at = "open" /\ w.queue = write[1].queue /\ w.written = write[1].written /\ w.ending = write[1].ending
      BY <1>2 DEF StreamType
    <3>2. write' = [write EXCEPT ![1] = w]
      BY <1>2, <2>1
    <3> HIDE DEF w
    <3> QED BY <1>2, <1>4, <3>1, <3>2
  <2>3. Run(0, 0) = <<>>
    <3>1. 0 \in Nat /\ 0 <= 0
      OBVIOUS
    <3> QED BY <3>1, RunIs
  <2>4. Streamed(entry[1], w)'
    BY <1>1, <1>2, <2>1, <2>2, <2>3 DEF Streamed
  <2> QED BY <1>3, <2>1, <2>2, <2>4
<1>5. CASE write[1].at = "open" /\ write[1].queue # <<>>
  <2> DEFINE a == write[1].written
             q == Tail(write[1].queue)
             h == Head(write[1].queue)
  <2>1. write' = [write EXCEPT ![1].queue = q, ![1].written = h] /\ file' = Append(file, h)
    BY <1>1, <1>5 DEF Drain
  <2>3. a \in Nat /\ a <= Kept /\ Kept \in Nat /\ 0 \in Nat /\ 0 <= a
    BY <1>2
  <2>4. a # Kept
    <3>1. a \in Nat /\ Kept \in Nat /\ a <= Kept
      BY <2>3
    <3>2. Run(a, Kept) # <<>>
      BY <1>2, <1>5
    <3> QED BY <3>1, <3>2, RunIs
  <2>5. a < Kept /\ a + 1 \in Nat /\ a + 1 <= Kept
    BY <2>3, <2>4
  <2>6. h = a + 1 /\ q = Run(a + 1, Kept)
    <3>1. a \in Nat /\ Kept \in Nat /\ a <= Kept /\ a < Kept
      BY <2>3, <2>5
    <3>2. Head(Run(a, Kept)) = a + 1 /\ Tail(Run(a, Kept)) = Run(a + 1, Kept)
      BY <3>1, RunIs
    <3> QED BY <1>2, <3>2
  <2>7. Append(Run(0, a), a + 1) = Run(0, a + 1)
    BY <2>3, RunIs
  <2>8. Run(a + 1, Kept) \in Seq(Nat)
    BY <2>3, <2>5, RunIs
  <2>9. PICK w \in StreamType : /\ write' = [write EXCEPT ![1] = w] /\ w.at = "open" /\ w.queue = Run(a + 1, Kept)
                                /\ w.written = a + 1 /\ w.ending = write[1].ending
    <3>1. h \in Nat /\ q \in Seq(Nat)
      BY <2>5, <2>6, <2>8
    <3> HIDE DEF h, q
    <3> DEFINE w == [write[1] EXCEPT !.queue = q, !.written = h]
    <3>2. w \in StreamType /\ w.at = write[1].at /\ w.queue = q /\ w.written = h /\ w.ending = write[1].ending
      BY <1>2, <3>1 DEF StreamType
    <3>3. write' = [write EXCEPT ![1] = w]
      BY <1>2, <2>1
    <3> HIDE DEF w
    <3> QED BY <1>5, <2>6, <3>2, <3>3
  <2>10. file' = Run(0, a + 1)
    BY <1>2, <1>5, <2>1, <2>6, <2>7
  <2>11. PICK n \in Nat : n = a
    BY <2>3
  <2>12. w.written = n + 1 /\ w.queue = Run(n + 1, Kept) /\ file' = Run(0, n + 1) /\ n + 1 \in 0 .. Kept
    BY <2>3, <2>5, <2>9, <2>10, <2>11
  <2> HIDE DEF h, q, a
  <2>13. Streamed(entry[1], w)'
    BY <1>1, <1>2, <2>9, <2>12 DEF Streamed
  <2> QED BY <1>3, <2>9, <2>13
<1>6. CASE write[1].at = "open" /\ write[1].queue = <<>>
  <2>1. write' = [write EXCEPT ![1].at = "closed"] /\ file' = file /\ write[1].ending
    BY <1>1, <1>6 DEF Drain
  <2>3. write[1].written \in Nat /\ write[1].written <= Kept /\ Kept \in Nat
    BY <1>2
  <2>4. write[1].written = Kept
    <3>1. Run(write[1].written, Kept) = <<>>
      BY <1>2, <1>6
    <3> QED BY <2>3, <3>1, RunIs
  <2>2. PICK w \in StreamType : /\ write' = [write EXCEPT ![1] = w] /\ w.at = "closed"
                                /\ w.queue = write[1].queue /\ w.written = write[1].written
    <3> DEFINE w == [write[1] EXCEPT !.at = "closed"]
    <3>1. w \in StreamType /\ w.at = "closed" /\ w.queue = write[1].queue /\ w.written = write[1].written
      BY <1>2 DEF StreamType
    <3>2. write' = [write EXCEPT ![1] = w]
      BY <1>2, <2>1
    <3> HIDE DEF w
    <3> QED BY <3>1, <3>2
  <2>6. w.written = Kept /\ w.queue = Run(Kept, Kept) /\ file' = Run(0, Kept) /\ Kept \in 0 .. Kept
    BY <1>2, <1>6, <2>1, <2>2, <2>3, <2>4
  <2>5. Streamed(entry[1], w)'
    BY <1>1, <1>2, <2>1, <2>2, <2>6 DEF Streamed
  <2> QED BY <1>3, <2>1, <2>2, <2>5
<1> QED BY <1>1, <1>4, <1>5, <1>6

(* end(), of an exit that nobody preceded or of a close behind an exit.    *)
LEMMA EndKeeps ==
  ASSUME LogBooks, NEW e \in Enders, EndLog(e), ender[e].at = "idle", shell' = "closed",
         e = "exit" => shell = "open", e = "close" => shell = "closed", UNCHANGED <<shown, file, meta, remover, reader>>
  PROVE  LogShapes' /\ FileBooks' /\ FinalBooks' /\ ReaderBooks'
<1>1. /\ Kept' = Kept /\ inMap.entry \in {0, 1} /\ inMap.stream \in {0, 1} /\ 1 \in Rec /\ Kept \in Nat
      /\ entry[1] \in EntryType /\ write[1] \in StreamType /\ Final' = Final
      /\ (inMap.entry = 1 => entry[1].at # "none") /\ (inMap.stream = 1 => entry[1].at = "begun")
  <2>1. Kept' = Kept
    BY DEF Kept
  <2> QED BY <2>1, BooksAre DEF Final
<1>2. PICK r : /\ ender' = [ender EXCEPT ![e] = r] /\ r.at = (IF inMap.stream = 1 THEN "draining" ELSE "done")
               /\ r.rec = inMap.entry /\ r.stream = inMap.stream
               /\ (~r.early => inMap.entry = 1 /\ entry[1].at = "begun" /\ metaQueue = <<>>)
  <2> DEFINE wait == inMap.stream # 0
             at == IF wait THEN "draining" ELSE "done"
             early == ~Settled(inMap.entry)
             r == [at |-> at, rec |-> inMap.entry, stream |-> inMap.stream, early |-> early]
  <2>1. ender' = [ender EXCEPT ![e] = r] /\ at = (IF inMap.stream = 1 THEN "draining" ELSE "done")
    BY <1>1 DEF EndLog
  <2>2. ~early => inMap.entry = 1 /\ entry[1].at = "begun" /\ metaQueue = <<>>
    BY <1>1 DEF Settled
  <2> HIDE DEF at, early
  <2>3. r.at = at /\ r.rec = inMap.entry /\ r.stream = inMap.stream /\ r.early = early
    OBVIOUS
  <2> HIDE DEF r
  <2> QED BY <2>1, <2>2, <2>3
<1>3. /\ ender'[e] = r /\ \A d \in Enders : d # e => ender'[d] = ender[d]
  BY <1>2 DEF LogBooks, EndBooks
<1>4. CASE inMap.stream = 1
  <2>1. /\ UNCHANGED <<entry, metaQueue, flushed>> /\ inMap' = [entry |-> inMap.entry, stream |-> 0]
        /\ write' = [write EXCEPT ![1].ending = TRUE] /\ r.at = "draining"
    BY <1>2, <1>4 DEF EndLog
  <2>2. PICK w \in StreamType : /\ write' = [write EXCEPT ![1] = w] /\ w.at = write[1].at /\ w.queue = write[1].queue
                                /\ w.written = write[1].written
    <3> DEFINE w == [write[1] EXCEPT !.ending = TRUE]
    <3>1. write' = [write EXCEPT ![1] = w]
      BY <1>1, <2>1 DEF LogBooks, LogShapes
    <3>2. w \in StreamType /\ w.at = write[1].at /\ w.queue = write[1].queue /\ w.written = write[1].written
      BY <1>1 DEF StreamType
    <3> HIDE DEF w
    <3> QED BY <3>1, <3>2
  <2>3. write'[1] = w /\ write' \in [Rec -> StreamType] /\ \A j \in Rec : j # 1 => write'[j] = write[j]
    BY <1>1, <2>2 DEF LogBooks, LogShapes
  <2>4. inMap' \in [entry : {0, 1}, stream : {0, 1}] /\ inMap'.entry = inMap.entry /\ inMap'.stream = 0
    BY <1>1, <2>1
  <2>5. LogShapes'
    BY <1>1, <1>2, <1>3, <1>4, <2>1, <2>3, <2>4 DEF LogBooks, LogShapes, Enders
  <2>6. FileBooks'
    BY <1>1, <1>4, <2>1, <2>2, <2>3, <2>4 DEF LogBooks, FileBooks, Held1, Streamed
  <2>7. FinalBooks'
    <3>1. CASE e = "exit"
      <4>1. ender'["close"].at = "idle"
        BY <1>3, <3>1 DEF LogBooks, EndBooks, Enders
      <4> QED BY <1>1, <1>2, <1>3, <1>4, <2>1, <2>4, <3>1, <4>1 DEF FinalBooks, Enders
    <3>2. CASE e = "close"
      <4>1. ender'["exit"] = ender["exit"]
        BY <1>3, <3>2 DEF Enders
      <4>2. ender["exit"].at # "idle" => ender["exit"].early
        BY <1>4 DEF LogBooks, FinalBooks
      <4> QED BY <4>1, <4>2 DEF FinalBooks
    <3> QED BY <3>1, <3>2 DEF Enders
  <2>8. ReaderBooks'
    <3>1. ender'["close"].at = "idle" => ender["close"].at = "idle"
      BY <1>3, <1>2 DEF Enders
    <3> QED BY <1>1, <2>1, <3>1 DEF LogBooks, ReaderBooks
  <2> QED BY <2>5, <2>6, <2>7, <2>8
<1>5. CASE inMap.stream = 0
  <2>1. inMap' = [entry |-> 0, stream |-> 0] /\ Finish(inMap.entry) /\ write' = write /\ r.at = "done"
    BY <1>2, <1>5 DEF EndLog
  <2>2. FinishKeeps(inMap.entry)
    BY <1>1, <2>1, FinishIs
  <2>3. inMap' \in [entry : {0, 1}, stream : {0, 1}] /\ inMap'.entry = 0 /\ inMap'.stream = 0
    BY <2>1
  <2>4. LogShapes'
    BY <1>1, <1>2, <1>3, <2>1, <2>2, <2>3 DEF LogBooks, LogShapes, Enders, FinishKeeps
  <2>5. FileBooks'
    BY <1>1, <1>5, <2>1, <2>2, <2>3 DEF LogBooks, FileBooks, Held1, Streamed, FinishKeeps
  <2>6. FinalBooks'
    <3>1. CASE e = "exit"
      <4>1. entry[1].at # "begun"
        BY <1>5, <3>1 DEF LogBooks, FileBooks, Streamed
      <4> QED BY <1>2, <1>3, <3>1, <4>1 DEF FinalBooks
    <3>2. CASE e = "close"
      <4>1. ender'["exit"] = ender["exit"] /\ ender'["close"].at = "done"
        BY <1>3, <2>1, <3>2 DEF Enders
      <4> SUFFICES ASSUME ender["exit"].at # "idle", ~ender["exit"].early PROVE FinalBooks'
        BY <4>1 DEF FinalBooks
      <4>2. /\ entry[1].at = "begun" /\ ender["exit"].rec = 1 /\ ender["exit"].stream = 1
            /\ (\A k \in DOMAIN metaQueue : metaQueue[k] = Final)
            /\ (ender["exit"].at = "done" => write[1].at = "closed" /\ (metaQueue # <<>> \/ meta = Final))
        BY DEF LogBooks, FinalBooks
      <4>3. (\A k \in DOMAIN metaQueue' : metaQueue'[k] = Final) /\ (metaQueue # <<>> => metaQueue' # <<>>)
        BY <2>2, <4>2 DEF FinishKeeps
      <4> QED BY <1>1, <2>1, <2>2, <2>3, <4>1, <4>2, <4>3 DEF FinalBooks, FinishKeeps
    <3> QED BY <3>1, <3>2 DEF Enders
  <2>7. ReaderBooks'
    <3>1. ender'["close"].at = "idle" => ender["close"].at = "idle"
      BY <1>3, <1>2 DEF Enders
    <3> QED BY <1>1, <2>1, <2>2, <3>1 DEF LogBooks, ReaderBooks, FinishKeeps
  <2> QED BY <2>4, <2>5, <2>6, <2>7
<1> QED BY <1>1, <1>4, <1>5

LEMMA DrainedKeeps ==
  ASSUME LogBooks, NEW e \in Enders, EndDrained(e) PROVE LogShapes' /\ FileBooks' /\ FinalBooks' /\ ReaderBooks'
<1>1. /\ ender[e].at = "draining" /\ write[ender[e].stream].at = "closed"
      /\ inMap' = (IF ender[e].rec = 0 THEN inMap ELSE [inMap EXCEPT !.entry = 0])
      /\ Finish(ender[e].rec) /\ UNCHANGED <<shell, shown, write, file, meta, remover, reader>> /\ Kept' = Kept /\ Final' = Final
  BY DEF EndDrained, Kept, Final
<1>2. /\ shell = "closed" /\ ender[e].rec \in {0, 1} /\ inMap.entry \in {0, 1} /\ inMap.stream \in {0, 1}
      /\ (ender[e].rec = 1 => entry[1].at # "none") /\ inMap.entry \in {0, ender[e].rec}
  <2>1. shell = "closed"
    BY <1>1, BooksAre DEF Enders
  <2>2. /\ \A d \in Enders : ender[d].rec \in {0, 1} /\ ender[d].stream \in {0, 1}
        /\ \A d \in Enders : /\ ender[d].rec = 1 => entry[1].at # "none"
                             /\ ender[d].at = "draining" => inMap.entry \in {0, ender[d].rec}
    BY DEF LogBooks, LogShapes
  <2> QED BY <1>1, <2>1, <2>2, BooksAre
<1>3. FinishKeeps(ender[e].rec)
  BY <1>1, <1>2, FinishIs
<1>4. inMap' \in [entry : {0, 1}, stream : {0, 1}] /\ inMap'.entry = 0 /\ inMap'.stream = inMap.stream
  BY <1>1, <1>2 DEF LogBooks, LogShapes
<1>5. /\ ender'[e].at = "done" /\ ender'[e].rec = ender[e].rec /\ ender'[e].stream = ender[e].stream /\ ender'[e].early = ender[e].early
      /\ \A d \in Enders : d # e => ender'[d] = ender[d]
  <2>1. ender' = [ender EXCEPT ![e].at = "done"]
    BY DEF EndDrained
  <2>2. IsEnd(ender[e]) /\ DOMAIN ender = Enders
    BY DEF LogBooks, EndBooks
  <2> QED BY <2>1, <2>2 DEF IsEnd
<1>6. LogShapes'
  BY <1>1, <1>2, <1>3, <1>4, <1>5 DEF LogBooks, LogShapes, Enders, FinishKeeps
<1>7. FileBooks'
  BY <1>1, <1>2, <1>3, <1>4 DEF LogBooks, FileBooks, Held1, Streamed, FinishKeeps
<1>8. FinalBooks'
  <2> SUFFICES ASSUME ender'["exit"].at # "idle", ~ender'["exit"].early PROVE FinalBooks'
    BY DEF FinalBooks
  <2>1. ender["exit"].at # "idle" /\ ~ender["exit"].early /\ ender'["exit"].rec = ender["exit"].rec /\ ender'["exit"].stream = ender["exit"].stream
    BY <1>1, <1>5 DEF Enders
  <2>2. /\ entry[1].at = "begun" /\ ender["exit"].rec = 1 /\ ender["exit"].stream = 1
        /\ inMap.stream = 0 /\ ender["close"].at # "draining" /\ (\A k \in DOMAIN metaQueue : metaQueue[k] = Final)
    BY <2>1 DEF LogBooks, FinalBooks
  <2>3. e = "exit"
    BY <1>1, <2>2 DEF Enders
  <2>4. metaQueue' # <<>> /\ \A k \in DOMAIN metaQueue' : metaQueue'[k] = Final
    BY <1>3, <2>2, <2>3 DEF FinishKeeps
  <2>5. write'[1].at = "closed" /\ entry'[1].at = "begun"
    BY <1>1, <1>3, <2>2, <2>3 DEF FinishKeeps
  <2>6. ender'["close"].at # "draining" /\ inMap'.stream = 0
    BY <1>4, <1>5, <2>2, <2>3 DEF Enders
  <2> QED BY <1>1, <2>1, <2>2, <2>4, <2>5, <2>6 DEF FinalBooks
<1>9. ReaderBooks'
  <2>1. ender'["close"].at = "idle" => ender["close"].at = "idle"
    BY <1>5 DEF Enders
  <2> QED BY <1>1, <1>3, <2>1 DEF LogBooks, ReaderBooks, FinishKeeps
<1> QED BY <1>6, <1>7, <1>8, <1>9

LEMMA FileIs == ASSUME LogBooks PROVE (Exists => \E n \in Nat : file = Run(0, n)) /\ (file = Run(0, Kept) /\ Kept > 0 => Exists)
<1>1. Kept \in Nat /\ entry[1] \in EntryType /\ write[1] \in StreamType
  BY BooksAre
<1>2. Exists => \E n \in Nat : file = Run(0, n)
  BY <1>1 DEF LogBooks, FileBooks, Streamed, Exists
<1>3. ASSUME NEW n \in Nat, n > 0 PROVE Run(0, n) # NoFile
  <2>1. 0 \in Nat /\ 0 <= n /\ 1 \in 1 .. (n - 0)
    BY <1>3
  <2>2. Run(0, n)[1] = 0 + 1
    BY <2>1, RunIs
  <2>3. NoFile[1] = 0
    BY DEF NoFile
  <2> QED BY <2>2, <2>3
<1> QED BY <1>1, <1>2, <1>3 DEF Exists

LEMMA ReadsKeep == ASSUME LogBooks, ReadStart \/ ReadFlushed PROVE LogShapes' /\ FileBooks' /\ FinalBooks' /\ ReaderBooks'
<1>1. UNCHANGED <<shell, shown, entry, write, inMap, flushed, file, meta, metaQueue, ender, remover>> /\ Kept' = Kept
  BY DEF ReadStart, ReadFlushed, Kept
<1>2. /\ entry[1] \in EntryType /\ write[1] \in StreamType /\ Kept \in Nat /\ inMap.entry \in {0, 1} /\ 0 \in Nat
  BY BooksAre
<1>3. FileBooks' /\ FinalBooks'
  BY <1>1 DEF LogBooks, FileBooks, Held1, Streamed, FinalBooks, Final
<1>4. ASSUME IsRead(reader') PROVE LogShapes'
  BY <1>1, <1>4 DEF LogBooks, LogShapes, IsRead
<1>5. CASE ReadStart
  <2> DEFINE need == IF Settled(inMap.entry) THEN entry[inMap.entry].bytes ELSE 0
  <2>1. reader' = [at |-> "flush", wait |-> flushed, got |-> <<>>, need |-> need]
    BY <1>5 DEF ReadStart
  <2>2. need \in 0 .. Kept /\ (need > 0 => entry[1].at = "begun" /\ flushed.rec = 1 /\ flushed.upTo = need)
    <3>1. CASE Settled(inMap.entry)
      <4>1. inMap.entry = 1 /\ entry[1].at = "begun" /\ entry[1].bytes = Kept
        BY <1>2, <3>1 DEF Settled, LogBooks, FileBooks, Held1
      <4>2. need = Kept
        BY <3>1, <4>1
      <4>3. Kept > 0 => flushed.rec = 1 /\ flushed.upTo = Kept
        BY <4>1 DEF LogBooks, FileBooks, Streamed
      <4> HIDE DEF need
      <4> QED BY <1>2, <4>1, <4>2, <4>3
    <3>2. CASE ~Settled(inMap.entry)
      BY <1>2, <3>2
    <3> QED BY <3>1, <3>2
  <2> HIDE DEF need
  <2>3. IsRead(reader') /\ reader'.at = "flush" /\ reader'.wait = flushed /\ reader'.need = need
    BY <2>1 DEF IsRead
  <2>4. ReaderBooks'
    BY <1>1, <2>2, <2>3 DEF ReaderBooks
  <2> QED BY <1>3, <1>4, <2>3, <2>4
<1>6. CASE ReadFlushed
  <2>0. IsRead(reader)
    BY DEF LogBooks, LogShapes
  <2> DEFINE got == IF Exists THEN file ELSE <<>>
             at == IF Exists THEN "done" ELSE "failed"
  <2>1. reader.at = "flush" /\ Reached(reader.wait) /\ reader' = [reader EXCEPT !.at = at, !.got = got]
    BY <1>6 DEF ReadFlushed
  <2>2. at # "flush"
    OBVIOUS
  <2>3. Len(got) \in Nat
    <3>1. CASE Exists
      <4>1. PICK n \in Nat : file = Run(0, n)
        BY <3>1, FileIs
      <4>2. 0 \in Nat /\ 0 <= n
        BY <4>1
      <4>3. Run(0, n) \in Seq(Nat)
        BY <4>2, RunIs
      <4> QED BY <3>1, <4>1, <4>3
    <3>2. CASE ~Exists
      BY <3>2
    <3> QED BY <3>1, <3>2
  <2> HIDE DEF at
  <2>4. ASSUME ender["close"].at = "idle" PROVE Len(got) >= reader.need
    <3>1. reader.need \in 0 .. Kept /\ (reader.need > 0 => entry[1].at = "begun" /\ reader.wait.rec = 1 /\ reader.wait.upTo = reader.need)
      BY <2>1, <2>4 DEF LogBooks, ReaderBooks
    <3>2. CASE reader.need = 0
      <4> HIDE DEF got
      <4> QED BY <2>3, <3>2
    <3>3. CASE reader.need > 0
      <4>1. /\ entry[1].at = "begun" /\ write[1].written \in 0 .. Kept
            /\ (write[1].at = "opening" => write[1].written = 0) /\ (write[1].at # "opening" => file = Run(0, write[1].written))
            /\ (write[1].at = "closed" => write[1].written = Kept)
        BY <3>1, <3>3 DEF LogBooks, FileBooks, Streamed
      <4>2. write[1].written >= reader.need \/ write[1].at = "closed"
        BY <2>1, <3>1, <3>3 DEF Reached
      <4>3. write[1].written >= reader.need /\ write[1].written > 0 /\ write[1].written \in Nat
        BY <1>2, <3>1, <3>3, <4>1, <4>2
      <4>4. file = Run(0, write[1].written)
        BY <4>1, <4>3
      <4>5. 0 \in Nat /\ 0 <= write[1].written
        BY <4>3
      <4>6. Len(file) = write[1].written - 0
        BY <4>3, <4>4, <4>5, RunIs
      <4>7. Exists
        <5>1. 1 \in 1 .. (write[1].written - 0)
          BY <4>3
        <5>2. file[1] = 0 + 1
          BY <4>3, <4>4, <4>5, <5>1, RunIs
        <5>3. NoFile[1] = 0
          BY DEF NoFile
        <5> QED BY <5>2, <5>3 DEF Exists
      <4>8. got = file
        BY <4>7
      <4> HIDE DEF got
      <4> QED BY <3>1, <4>3, <4>6, <4>8
    <3> QED BY <3>1, <3>2, <3>3
  <2> HIDE DEF got
  <2>5. IsRead(reader') /\ reader'.at = at /\ reader'.got = got /\ reader'.need = reader.need
    BY <2>0, <2>1 DEF IsRead
  <2>6. ReaderBooks'
    BY <1>1, <2>2, <2>4, <2>5 DEF ReaderBooks
  <2> QED BY <1>3, <1>4, <2>5, <2>6
<1> QED BY <1>5, <1>6

LEMMA LogStep == LogInv /\ [LogNext]_storeVars => LogInv'
<1> SUFFICES ASSUME LogInv, [LogNext]_storeVars PROVE LogInv'
  OBVIOUS
<1>1. EndBooks /\ EndBooks' /\ (Whole' => Whole)
  BY EndBooksStep DEF LogInv
<1> SUFFICES ASSUME Whole' PROVE LogShapes' /\ FileBooks' /\ FinalBooks' /\ ReaderBooks'
  BY <1>1 DEF LogInv
<1>2. LogBooks /\ Whole
  BY <1>1 DEF LogBooks, LogInv
<1>3. CASE UNCHANGED storeVars
  BY <1>2, <1>3 DEF storeVars, LogBooks, LogShapes, FileBooks, Held1, Streamed, FinalBooks, ReaderBooks, Kept, Final, IsRead
<1>4. CASE Output
  BY <1>2, <1>4, OutputKeeps
<1>5. CASE MetaLands
  BY <1>2, <1>5, MetaKeeps
<1>6. ASSUME NEW i \in Rec, Prepared(i) \/ Drain(i) PROVE LogShapes' /\ FileBooks' /\ FinalBooks' /\ ReaderBooks'
  BY <1>2, <1>6, PreparedKeeps, DrainKeeps
<1>7. CASE CloseSession \/ RemoveRecording \/ RemoveLog \/ RemoveSidecar
  <2>1. remover' # "idle" \/ (shell = "open" /\ shell' = "closing")
    BY <1>7 DEF CloseSession, RemoveRecording, RemoveLog, RemoveSidecar
  <2> QED BY <1>1, <2>1 DEF EndBooks, Whole
<1>8. CASE ShellClosed
  <2>1. shell = "open" /\ shell' = "closed" /\ EndLog("exit") /\ UNCHANGED <<shown, file, meta, remover, reader>>
    BY <1>2, <1>8, BooksAre DEF ShellClosed
  <2>2. ender["exit"].at = "idle" /\ "exit" \in Enders
    BY <1>2, <2>1, BooksAre DEF Enders
  <2> QED BY <1>2, <2>1, <2>2, EndKeeps
<1>9. CASE CloseExited
  <2>1. /\ shell = "closed" /\ shell' = "closed" /\ EndLog("close") /\ UNCHANGED <<shown, file, meta, remover, reader>>
        /\ ender["close"].at = "idle" /\ "close" \in Enders
    BY <1>9 DEF CloseExited, Enders
  <2> QED BY <1>2, <2>1, EndKeeps
<1>10. ASSUME NEW e \in Enders, EndDrained(e) PROVE LogShapes' /\ FileBooks' /\ FinalBooks' /\ ReaderBooks'
  BY <1>2, <1>10, DrainedKeeps
<1>11. CASE ReadStart \/ ReadFlushed
  BY <1>2, <1>11, ReadsKeep
<1> QED BY <1>3, <1>4, <1>5, <1>6, <1>7, <1>8, <1>9, <1>10, <1>11 DEF LogNext, Enders

LEMMA LogSound == LogInv => LogIsWhatWasShown /\ EndedLogIsFinal
<1> SUFFICES ASSUME LogInv PROVE LogIsWhatWasShown /\ EndedLogIsFinal
  OBVIOUS
<1>1. ASSUME Whole PROVE LogBooks
  BY <1>1 DEF LogBooks, LogInv
<1>2. ASSUME LogBooks
      PROVE  /\ Kept \in Nat /\ 0 \in Nat /\ 0 <= Kept /\ Recorded(shown) = Run(0, Kept) /\ Run(0, Kept) \in Seq(Nat)
             /\ entry[1] \in EntryType /\ write[1] \in StreamType /\ inMap.entry \in {0, 1}
             /\ (inMap.entry = 1 => entry[1].at # "none") /\ Len(Run(0, Kept)) = Kept
  <2>1. Kept \in Nat /\ 0 \in Nat /\ 0 <= Kept
    BY <1>2, BooksAre
  <2>2. Run(0, Kept) \in Seq(Nat) /\ Len(Run(0, Kept)) = Kept - 0
    BY <2>1, RunIs
  <2>3. Recorded(shown) = Run(0, Kept)
    <3> DEFINE n == Kept
    <3>1. Recorded(shown) = [k \in 1 .. n |-> k]
      BY DEF Recorded, Kept
    <3>2. Run(0, Kept) = [k \in 1 .. (n - 0) |-> 0 + k]
      BY DEF Run
    <3>3. n \in Nat
      BY <2>1
    <3> HIDE DEF n
    <3>4. 1 .. (n - 0) = 1 .. n /\ \A k \in 1 .. n : 0 + k = k
      BY <3>3
    <3> QED BY <3>1, <3>2, <3>4
  <2> QED BY <1>2, <2>1, <2>2, <2>3, BooksAre
<1>3. ASSUME Undisturbed, inMap.entry # 0
      PROVE  /\ (IF Exists THEN file ELSE <<>>) \o write[inMap.entry].queue \o entry[inMap.entry].pending = Recorded(shown)
             /\ entry[inMap.entry].truncated <=> shown >= Cap
  <2>1. LogBooks
    BY <1>1, <1>3 DEF Undisturbed, Whole
  <2>2. inMap.entry = 1 /\ entry[1].at \in {"preparing", "begun"}
    BY <1>2, <1>3, <2>1 DEF EntryType
  <2> DEFINE f == IF Exists THEN file ELSE <<>>
             all == Run(0, Kept)
  <2>3. all \in Seq(Nat) /\ Recorded(shown) = all
    BY <1>2, <2>1
  <2>4. f \o write[1].queue \o entry[1].pending = all
    <3>1. CASE entry[1].at = "preparing"
      <4>1. f = <<>> /\ write[1].queue = <<>> /\ entry[1].pending = all
        BY <2>1, <3>1 DEF LogBooks, FileBooks, Held1, Streamed, Exists
      <4> HIDE DEF f, all
      <4> QED BY <2>3, <4>1
    <3>2. CASE entry[1].at = "begun"
      <4>1. /\ entry[1].pending = <<>> /\ write[1].written \in 0 .. Kept /\ write[1].queue = Run(write[1].written, Kept)
            /\ (write[1].at = "opening" => file = NoFile /\ write[1].written = 0)
            /\ (write[1].at # "opening" => file = Run(0, write[1].written))
        BY <2>1, <3>2 DEF LogBooks, FileBooks, Held1, Streamed
      <4>2. PICK n \in Nat : n = write[1].written /\ n <= Kept
        BY <1>2, <2>1, <4>1
      <4>3. Kept \in Nat /\ 0 \in Nat /\ 0 <= n
        BY <1>2, <2>1, <4>2
      <4>4. f = Run(0, n)
        <5>1. CASE write[1].at = "opening"
          <6>1. 0 \in Nat /\ 0 <= 0 /\ 0 = 0
            OBVIOUS
          <6>2. Run(0, 0) = <<>>
            BY <6>1, RunIs
          <6> QED BY <4>1, <4>2, <5>1, <6>2 DEF Exists
        <5>2. CASE write[1].at # "opening"
          <6>1. file = Run(0, n)
            BY <4>1, <4>2, <5>2
          <6>2. CASE Exists
            BY <6>1, <6>2
          <6>3. CASE ~Exists
            <7>1. Run(0, n) = NoFile
              BY <6>1, <6>3 DEF Exists
            <7>2. Len(Run(0, n)) = n - 0 /\ \A j \in 1 .. (n - 0) : Run(0, n)[j] = 0 + j
              BY <4>3, RunIs
            <7>3. Len(NoFile) = 1 /\ NoFile[1] = 0
              BY DEF NoFile
            <7> HIDE DEF f
            <7> QED BY <4>3, <7>1, <7>2, <7>3
          <6> QED BY <6>2, <6>3
        <5> QED BY <5>1, <5>2
      <4>5. Run(0, n) \o Run(n, Kept) = all
        BY <4>2, <4>3, RunIs
      <4> HIDE DEF f, all
      <4>6. f \o write[1].queue = all
        BY <4>1, <4>2, <4>4, <4>5
      <4> QED BY <2>3, <4>1, <4>6
    <3> QED BY <2>2, <3>1, <3>2
  <2>5. entry[1].truncated <=> shown >= Cap
    BY <2>1, <2>2 DEF LogBooks, FileBooks, Held1
  <2> HIDE DEF f, all
  <2> QED BY <2>2, <2>3, <2>4, <2>5 DEF f
<1>4. ASSUME reader.at \in {"done", "failed"}, Undisturbed PROVE Len(reader.got) >= reader.need
  <2>1. LogBooks
    BY <1>1, <1>4 DEF Undisturbed, Whole
  <2> QED BY <1>4, <2>1 DEF LogBooks, ReaderBooks, Undisturbed
<1>5. ASSUME remover = "idle", ender["exit"].at = "done", ~ender["exit"].early, metaQueue = <<>>
      PROVE  /\ file = Recorded(shown) /\ meta.ended /\ meta.bytes = Len(file)
             /\ \A i \in Rec : write[i].at \in {"none", "closed"}
  <2>1. LogBooks
    BY <1>1, <1>5 DEF Whole
  <2>2. write[1].at = "closed" /\ meta = Final /\ entry[1].at = "begun"
    BY <1>5, <2>1 DEF LogBooks, FinalBooks
  <2>3. file = Run(0, Kept)
    BY <2>1, <2>2 DEF LogBooks, FileBooks, Streamed
  <2>4. meta.ended /\ meta.bytes = Kept
    BY <2>2 DEF Final
  <2>5. \A i \in Rec : write[i].at \in {"none", "closed"}
    BY <2>1, <2>2 DEF LogBooks, LogShapes
  <2> QED BY <1>2, <2>1, <2>3, <2>4, <2>5
<1>6. LogIsWhatWasShown
  BY <1>3, <1>4 DEF LogIsWhatWasShown
<1>7. EndedLogIsFinal
  BY <1>5 DEF EndedLogIsFinal
<1> QED BY <1>6, <1>7

-----------------------------------------------------------------------------
(***************************************************************************)
(* Remote workspaces.  The walk along a path is taken in strides, each to  *)
(* the first link or gap on its way; a stride has a closed form, so the    *)
(* walk the server takes component by component exists and ends, whatever  *)
(* the tree.  Where a path leads is then where its prefix leads and the    *)
(* rest from there, so the canonical form that was checked is the place an *)
(* open for writing lands in.  First the smallest and the largest of some  *)
(* numbers, and a fold as a function of the positions folded.              *)
(***************************************************************************)
LEMMA NatMin ==
  ASSUME NEW T, T \subseteq Nat, T # {}
  PROVE  \E x \in T : \A y \in T : x <= y
<1> DEFINE R == OpToRel(<, Nat)
<1>1. \E x \in T : \A y \in T : ~(<<y, x>> \in R)
  <2>1. IsWellFoundedOn(R, Nat)
    BY NatLessThanWellFounded
  <2> HIDE DEF R
  <2> QED BY <2>1, WFMin
<1>2. \A x, y \in T : y < x => <<y, x>> \in R
  BY DEF OpToRel
<1> HIDE DEF R
<1>3. PICK x \in T : \A y \in T : ~(<<y, x>> \in R)
  BY <1>1
<1>4. \A y \in T : ~(y < x)
  BY <1>2, <1>3
<1>5. \A y \in T : x <= y
  BY <1>4
<1> QED BY <1>5

LEMMA NatInd ==
  ASSUME NEW P, 0 \in P, \A n \in Nat : n \in P => n + 1 \in P
  PROVE  Nat \subseteq P
<1> SUFFICES ASSUME Nat \ P # {} PROVE FALSE
  OBVIOUS
<1>1. PICK x \in Nat \ P : \A y \in Nat \ P : x <= y
  BY NatMin
<1>2. x # 0 /\ x - 1 \in Nat /\ ~(x <= x - 1)
  BY <1>1
<1>3. x - 1 \in P
  BY <1>1, <1>2
<1>4. (x - 1) + 1 \in P
  BY <1>2, <1>3
<1> QED BY <1>1, <1>2, <1>4

LEMMA MaxIs ==
  ASSUME NEW n \in Nat, NEW t \in SUBSET (1 .. n), t # {}
  PROVE  Max(t) \in t /\ \A y \in t : Max(t) >= y
<1> DEFINE R == {n - y : y \in t}
<1>1. R \subseteq Nat /\ R # {}
  <2>1. ASSUME NEW y \in t PROVE n - y \in Nat
    OBVIOUS
  <2>2. PICK y \in t : TRUE
    OBVIOUS
  <2>3. n - y \in R
    BY <2>2
  <2> QED BY <2>1, <2>3
<1>2. PICK r \in R : \A q \in R : r <= q
  BY <1>1, NatMin
<1>3. PICK x \in t : r = n - x
  BY <1>2
<1>4. ASSUME NEW y \in t PROVE x >= y
  <2>1. n - y \in R /\ n - x <= n - y /\ x \in 1 .. n /\ y \in 1 .. n
    BY <1>2, <1>3
  <2> QED BY <2>1
<1> QED BY <1>3, <1>4 DEF Max

LEMMA TopOf ==
  ASSUME NEW n \in Nat, NEW k \in 1 .. n
  PROVE  /\ 1 .. k \in SUBSET (1 .. n) /\ 1 .. k # {} /\ Max(1 .. k) = k /\ (1 .. k) \ {k} = 1 .. (k - 1)
<1>1. 1 .. k \in SUBSET (1 .. n) /\ 1 .. k # {} /\ k \in 1 .. k /\ (1 .. k) \ {k} = 1 .. (k - 1)
  <2>1. k \in Nat /\ 1 <= k /\ k <= n
    OBVIOUS
  <2>2. k \in 1 .. k /\ 1 .. k \in SUBSET (1 .. n)
    BY <2>1
  <2>3. \A x : x \in (1 .. k) \ {k} <=> x \in 1 .. (k - 1)
    BY <2>1
  <2>4. (1 .. k) \ {k} = 1 .. (k - 1)
    BY <2>3, Zenon
  <2> QED BY <2>2, <2>4
<1>2. Max(1 .. k) \in 1 .. k /\ \A y \in 1 .. k : Max(1 .. k) >= y
  BY <1>1, MaxIs
<1>3. Max(1 .. k) = k
  BY <1>1, <1>2
<1> QED BY <1>1, <1>3

(* A fold by a function h is a function on the sets of positions.          *)
FoldsBy(it, n, base, s, h) ==
  \A t \in SUBSET (1 .. n) : it[t] = IF t = {} THEN base ELSE h[<<it[t \ {Max(t)}], s[Max(t)]>>]

LEMMA FoldExists ==
  ASSUME NEW T, NEW E, NEW base \in T, NEW s \in Seq(E), NEW h \in [T \X E -> T]
  PROVE  \E it \in [SUBSET (1 .. Len(s)) -> T] : FoldsBy(it, Len(s), base, s, h)
<1> DEFINE Ok(n) == \E it \in [SUBSET (1 .. n) -> T] : FoldsBy(it, n, base, s, h)
           P == {n \in Nat : n <= Len(s) => Ok(n)}
<1>1. 0 \in P
  <2> DEFINE it == [t \in SUBSET (1 .. 0) |-> base]
  <2>1. it \in [SUBSET (1 .. 0) -> T] /\ \A t \in SUBSET (1 .. 0) : t = {}
    OBVIOUS
  <2>2. FoldsBy(it, 0, base, s, h)
    BY <2>1 DEF FoldsBy
  <2> HIDE DEF it
  <2> QED BY <2>1, <2>2
<1>2. ASSUME NEW n \in Nat, n \in P PROVE n + 1 \in P
  <2> HIDE DEF Ok
  <2> SUFFICES ASSUME n + 1 <= Len(s) PROVE Ok(n + 1)
    OBVIOUS
  <2> USE DEF Ok
  <2>1. Len(s) \in Nat /\ n <= Len(s) /\ n + 1 \in 1 .. Len(s) /\ s[n + 1] \in E
    <3>1. Len(s) \in Nat /\ \A j \in 1 .. Len(s) : s[j] \in E
      OBVIOUS
    <3> QED BY <3>1
  <2>2. PICK g \in [SUBSET (1 .. n) -> T] : FoldsBy(g, n, base, s, h)
    BY <1>2, <2>1
  <2> DEFINE it == [t \in SUBSET (1 .. (n + 1)) |-> IF n + 1 \in t THEN h[<<g[t \ {n + 1}], s[n + 1]>>] ELSE g[t]]
  <2>3. ASSUME NEW t \in SUBSET (1 .. (n + 1)), n + 1 \in t
        PROVE  t \ {n + 1} \in SUBSET (1 .. n) /\ Max(t) = n + 1 /\ t # {} /\ n + 1 \notin t \ {n + 1}
    <3>1. n + 1 \in Nat /\ t # {}
      BY <2>3
    <3>2. Max(t) \in t /\ \A y \in t : Max(t) >= y
      BY <3>1, MaxIs
    <3>3. Max(t) = n + 1
      <4>1. Max(t) \in 1 .. (n + 1) /\ Max(t) >= n + 1
        BY <2>3, <3>2
      <4> QED BY <4>1
    <3>4. t \ {n + 1} \in SUBSET (1 .. n)
      OBVIOUS
    <3> QED BY <3>1, <3>3, <3>4
  <2>4. ASSUME NEW t \in SUBSET (1 .. (n + 1)), n + 1 \notin t
        PROVE  t \in SUBSET (1 .. n) /\ (t # {} => Max(t) \in t /\ t \ {Max(t)} \in SUBSET (1 .. n) /\ n + 1 \notin t \ {Max(t)})
    <3>1. t \in SUBSET (1 .. n)
      BY <2>4
    <3> QED BY <2>4, <3>1, MaxIs
  <2>5. ASSUME NEW t \in SUBSET (1 .. (n + 1)) PROVE it[t] \in T
    <3>1. CASE n + 1 \in t
      <4>1. it[t] = h[<<g[t \ {n + 1}], s[n + 1]>>] /\ g[t \ {n + 1}] \in T
        BY <2>2, <2>3, <3>1
      <4> QED BY <2>1, <4>1
    <3>2. CASE n + 1 \notin t
      BY <2>2, <2>4, <3>2
    <3> QED BY <3>1, <3>2
  <2>6. ASSUME NEW t \in SUBSET (1 .. (n + 1)) PROVE it[t] = IF t = {} THEN base ELSE h[<<it[t \ {Max(t)}], s[Max(t)]>>]
    <3>1. CASE n + 1 \in t
      <4>1. t \ {n + 1} \in SUBSET (1 .. (n + 1))
        OBVIOUS
      <4>2. it[t \ {n + 1}] = g[t \ {n + 1}]
        BY <2>3, <3>1, <4>1
      <4>3. it[t] = h[<<g[t \ {n + 1}], s[n + 1]>>]
        BY <3>1
      <4> HIDE DEF it
      <4> QED BY <2>3, <3>1, <4>2, <4>3
    <3>2. CASE n + 1 \notin t
      <4>1. it[t] = g[t] /\ t \in SUBSET (1 .. n)
        BY <2>4, <3>2
      <4>2. t # {} => it[t \ {Max(t)}] = g[t \ {Max(t)}]
        <5> SUFFICES ASSUME t # {} PROVE it[t \ {Max(t)}] = g[t \ {Max(t)}]
          OBVIOUS
        <5>1. n + 1 \notin t \ {Max(t)} /\ t \ {Max(t)} \in SUBSET (1 .. (n + 1))
          BY <2>4, <3>2
        <5> QED BY <5>1
      <4> HIDE DEF it
      <4> QED BY <2>2, <4>1, <4>2 DEF FoldsBy
    <3> QED BY <3>1, <3>2
  <2>7. it \in [SUBSET (1 .. (n + 1)) -> T]
    <3>1. it = [t \in SUBSET (1 .. (n + 1)) |-> it[t]]
      OBVIOUS
    <3> HIDE DEF it
    <3> QED BY <2>5, <3>1
  <2> HIDE DEF it
  <2>8. FoldsBy(it, n + 1, base, s, h)
    BY <2>6 DEF FoldsBy
  <2> QED BY <2>7, <2>8
<1>3. Nat \subseteq P
  <2> HIDE DEF P
  <2> QED BY <1>1, <1>2, NatInd
<1>4. Len(s) \in Nat /\ Len(s) <= Len(s)
  OBVIOUS
<1> QED BY <1>3, <1>4

----------------------------------------------------------------------------
Places == Seq(STRING)
Halts(p) == Node(p) = Absent \/ IsLink(Node(p))
Halting(w) == {j \in 1 .. Len(w.rest) : Halts(w.real \o SubSeq(w.rest, 1, j))}
First(w) == CHOOSE j \in Halting(w) : \A i \in Halting(w) : j <= i
Stop(w) == w.real \o SubSeq(w.rest, 1, First(w))
Beyond(w) == SubSeq(w.rest, First(w) + 1, Len(w.rest))
(* A walk in one stride: to the first link or gap on its way.              *)
Stride(g, w) ==
  IF Halting(w) = {} THEN <<"found", w.real \o w.rest, <<>>>>
  ELSE IF Node(Stop(w)) = Absent THEN <<"missing", Stop(w), Beyond(w)>>
  ELSE IF w.fuel = 0 THEN <<"loop", Stop(w), Beyond(w)>>
  ELSE g[Walk(<<>>, Node(Stop(w))[2] \o Beyond(w), w.fuel - 1)]
(* The same walk by one component, as Follow takes it.                     *)
Pace(g, w) ==
  IF w.rest = <<>> THEN <<"found", w.real, <<>>>>
  ELSE LET here == Append(w.real, Head(w.rest)) IN
    IF Node(here) = Absent THEN <<"missing", here, Tail(w.rest)>>
    ELSE IF ~IsLink(Node(here)) THEN g[Walk(here, Tail(w.rest), w.fuel)]
    ELSE IF w.fuel = 0 THEN <<"loop", here, Tail(w.rest)>>
    ELSE g[Walk(<<>>, Node(here)[2] \o Tail(w.rest), w.fuel - 1)]

LEMMA WalkIs ==
  ASSUME NEW real \in Places, NEW rest \in Places, NEW k \in 0 .. MaxLinks
  PROVE  /\ Walk(real, rest, k) \in Walks
         /\ Walk(real, rest, k).real = real /\ Walk(real, rest, k).rest = rest /\ Walk(real, rest, k).fuel = k
BY DEF Walk, Walks, Places

LEMMA NodeIs ==
  ASSUME tree \in Tree, NEW p, IsLink(Node(p))
  PROVE  Node(p)[2] \in Places /\ Node(p) # Absent
BY WsAssumption DEF Node, IsLink, Dir, Absent, Places

LEMMA FirstIs ==
  ASSUME NEW w \in Walks, Halting(w) # {}
  PROVE  First(w) \in Halting(w) /\ (\A i \in Halting(w) : First(w) <= i)
<1>1. Halting(w) \subseteq Nat
  BY DEF Halting
<1>2. \E j \in Halting(w) : \A i \in Halting(w) : j <= i
  BY <1>1, NatMin
<1> QED BY <1>2 DEF First

LEMMA StopIs ==
  ASSUME tree \in Tree, NEW w \in Walks, Halting(w) # {}
  PROVE  /\ Stop(w) \in Places /\ Beyond(w) \in Places /\ Halts(Stop(w))
         /\ Node(Stop(w)) # Absent => Node(Stop(w))[2] \o Beyond(w) \in Places
<1>1. w.real \in Places /\ w.rest \in Places /\ First(w) \in 1 .. Len(w.rest) /\ Halts(Stop(w))
  BY FirstIs DEF Walks, Places, Halting, Stop
<1>2. Len(w.rest) \in Nat
  BY <1>1 DEF Places
<1>3. Stop(w) \in Places
  BY <1>1, <1>2 DEF Stop, Places
<1>4. Beyond(w) \in Places
  BY <1>1, <1>2 DEF Beyond, Places
<1>5. Node(Stop(w)) # Absent => Node(Stop(w))[2] \in Places
  BY <1>1, NodeIs DEF Halts
<1> QED BY <1>1, <1>3, <1>4, <1>5 DEF Places

(* A walk in strides is a walk by components.                              *)
LEMMA StrideIsPace ==
  ASSUME tree \in Tree, NEW g, \A w \in Walks : g[w] = Stride(g, w)
  PROVE  \A w \in Walks : g[w] = Pace(g, w)
<1> SUFFICES ASSUME NEW w \in Walks PROVE Stride(g, w) = Pace(g, w)
  OBVIOUS
<1> DEFINE real == w.real
           rest == w.rest
           here == Append(real, Head(rest))
           v == Walk(here, Tail(rest), w.fuel)
           n == Len(rest)
<1>1. real \in Places /\ rest \in Places /\ w.fuel \in 0 .. MaxLinks /\ n \in Nat
  BY DEF Walks, Places
<1>2. CASE rest = <<>>
  <2>1. Halting(w) = {}
    BY <1>1, <1>2 DEF Halting
  <2>2. real \o rest = real
    BY <1>1, <1>2 DEF Places
  <2> QED BY <1>2, <2>1, <2>2 DEF Stride, Pace
<1>3. CASE rest # <<>>
  <2>1. /\ n >= 1 /\ Head(rest) \in STRING /\ Tail(rest) \in Places /\ Len(Tail(rest)) = n - 1 /\ here \in Places
        /\ Tail(rest) = SubSeq(rest, 2, n) /\ here = real \o SubSeq(rest, 1, 1)
    <3>1. n >= 1 /\ Head(rest) \in STRING /\ Tail(rest) \in Places /\ Len(Tail(rest)) = n - 1 /\ Head(rest) = rest[1]
      <4> HIDE DEF rest
      <4>1. rest \in Seq(STRING) /\ rest # <<>>
        BY <1>1, <1>3 DEF Places
      <4>2. Len(rest) \in Nat /\ Len(rest) # 0
        BY <4>1, EmptySeq
      <4> QED BY <4>1, <4>2, HeadTailProperties DEF Places, n
    <3>2. Tail(rest) = SubSeq(rest, 2, n)
      <4> HIDE DEF rest
      <4> QED BY <1>1, <1>3, TailIsSubSeq DEF Places
    <3>3. SubSeq(rest, 1, 1) = <<Head(rest)>>
      <4> DEFINE x == SubSeq(rest, 1, 1)
      <4> HIDE DEF rest
      <4>1. rest \in Seq(STRING) /\ 1 <= Len(rest) /\ Len(rest) \in Nat
        BY <1>1, <3>1 DEF Places, n
      <4>2. 1 \in 1 .. (Len(rest) + 1) /\ 1 \in 0 .. Len(rest)
        BY <4>1
      <4>3. x \in Seq(STRING) /\ Len(x) = 1 /\ x[1] = rest[1]
        BY <4>1, <4>2, SubSeqProperties
      <4> HIDE DEF x
      <4>4. x = <<x[1]>>
        BY <4>3
      <4> QED BY <3>1, <4>3, <4>4 DEF x
    <3>4. here = real \o <<Head(rest)>> /\ here \in Places
      <4> HIDE DEF rest, real
      <4> QED BY <1>1, <3>1, AppendIsConcat, AppendProperties DEF Places
    <3> QED BY <3>1, <3>2, <3>3, <3>4
  <2>2. v \in Walks /\ v.real = here /\ v.rest = Tail(rest) /\ v.fuel = w.fuel
    <3> DEFINE k == w.fuel
    <3>0. w.fuel = k
      OBVIOUS
    <3> DEFINE left == Tail(rest)
    <3> HIDE DEF here, k
    <3>1. here \in Places /\ left \in Places /\ k \in 0 .. MaxLinks
      BY <1>1, <2>1 DEF k
    <3>2. v = Walk(here, left, k)
      BY DEF k
    <3> HIDE DEF v, left
    <3>3. v \in Walks /\ v.real = here /\ v.rest = left /\ v.fuel = k
      BY <3>1, <3>2, WalkIs
    <3> QED BY <3>0, <3>3 DEF left
  <2>3. CASE Halts(here)
    <3>1. 1 \in Halting(w) /\ \A i \in Halting(w) : i >= 1
      <4>1. Halts(real \o SubSeq(rest, 1, 1))
        BY <2>1, <2>3
      <4> HIDE DEF here
      <4> QED BY <1>1, <2>1, <4>1 DEF Halting
    <3>2. First(w) = 1
      <4>1. First(w) \in Halting(w) /\ First(w) <= 1
        BY <3>1, FirstIs
      <4>2. First(w) \in Nat /\ First(w) >= 1
        BY <3>1, <4>1 DEF Halting
      <4> QED BY <4>1, <4>2
    <3>3. Stop(w) = here /\ Beyond(w) = Tail(rest)
      BY <2>1, <3>2 DEF Stop, Beyond
    <3> HIDE DEF here
    <3> QED BY <1>3, <2>3, <3>1, <3>3 DEF Stride, Pace, Halts, here
  <2>4. CASE ~Halts(here)
    <3>1. Pace(g, w) = Stride(g, v)
      BY <1>3, <2>2, <2>4 DEF Pace, Halts
    <3>2. ASSUME NEW j \in 1 .. (n - 1)
          PROVE  here \o SubSeq(Tail(rest), 1, j) = real \o SubSeq(rest, 1, j + 1)
      <4>1. /\ SubSeq(Tail(rest), 1, j) = SubSeq(rest, 2, j + 1) /\ SubSeq(rest, 1, 1) \in Seq(STRING)
            /\ SubSeq(rest, 2, j + 1) \in Seq(STRING)
            /\ SubSeq(rest, 1, 1) \o SubSeq(rest, 2, j + 1) = SubSeq(rest, 1, j + 1)
        BY <1>1, <2>1 DEF Places
      <4>2. (real \o SubSeq(rest, 1, 1)) \o SubSeq(rest, 2, j + 1) = real \o (SubSeq(rest, 1, 1) \o SubSeq(rest, 2, j + 1))
        <5> HIDE DEF real, rest, here
        <5>1. real \in Seq(STRING)
          BY <1>1 DEF Places
        <5> QED BY <4>1, <5>1, ConcatAssociative
      <4> HIDE DEF here, real, rest
      <4> QED BY <2>1, <4>1, <4>2
    <3>3. ASSUME NEW j \in Nat PROVE j \in Halting(v) <=> j + 1 \in Halting(w)
      <4>1. CASE j \in 1 .. (n - 1)
        <5>1. j + 1 \in 1 .. n
          BY <1>1, <4>1
        <5> HIDE DEF v, n, here, real, rest
        <5> QED BY <2>1, <2>2, <3>2, <4>1, <5>1 DEF Halting, n, real, rest
      <4>2. CASE j = 0
        <5>1. j + 1 = 1 /\ 0 \notin Halting(v)
          BY <4>2 DEF Halting
        <5>2. 1 \notin Halting(w)
          <6> HIDE DEF here
          <6> QED BY <2>1, <2>4 DEF Halting
        <5> QED BY <4>2, <5>1, <5>2
      <4>3. CASE j > n - 1
        <5>1. j \notin 1 .. (n - 1) /\ j + 1 \notin 1 .. n
          BY <1>1, <4>3
        <5> HIDE DEF v, n, here
        <5> QED BY <2>1, <2>2, <5>1 DEF Halting, n
      <4> QED BY <1>1, <4>1, <4>2, <4>3
    <3>4. CASE Halting(w) = {}
      <4>1. Halting(v) = {}
        <5>1. Halting(v) \subseteq Nat
          BY DEF Halting
        <5> QED BY <3>3, <3>4, <5>1
      <4>2. here \o Tail(rest) = real \o rest
        <5>1. rest = SubSeq(rest, 1, 1) \o Tail(rest) /\ SubSeq(rest, 1, 1) \in Seq(STRING)
          BY <1>1, <2>1 DEF Places
        <5>2. (real \o SubSeq(rest, 1, 1)) \o Tail(rest) = real \o (SubSeq(rest, 1, 1) \o Tail(rest))
          <6> HIDE DEF real, rest, here
          <6>1. real \in Seq(STRING) /\ Tail(rest) \in Seq(STRING)
            BY <1>1, <2>1 DEF Places
          <6> QED BY <5>1, <6>1, ConcatAssociative
        <5> HIDE DEF here, real, rest
        <5> QED BY <2>1, <5>1, <5>2
      <4> HIDE DEF v, here
      <4> QED BY <2>2, <3>1, <3>4, <4>1, <4>2 DEF Stride
    <3>5. CASE Halting(w) # {}
      <4>1. First(w) \in Halting(w) /\ (\A i \in Halting(w) : First(w) <= i) /\ First(w) \in 1 .. n
        BY <3>5, FirstIs DEF Halting
      <4>2. First(w) - 1 \in Nat /\ (First(w) - 1) + 1 = First(w)
        BY <4>1
      <4>3. First(w) - 1 \in Halting(v)
        BY <3>3, <4>1, <4>2
      <4>4. First(v) \in Halting(v) /\ (\A i \in Halting(v) : First(v) <= i) /\ First(v) \in Nat
        <5>1. Halting(v) # {} /\ Halting(v) \subseteq Nat
          BY <4>3 DEF Halting
        <5> HIDE DEF v
        <5> QED BY <2>2, <5>1, FirstIs
      <4>5. First(v) + 1 \in Halting(w)
        BY <3>3, <4>4
      <4>6. First(v) = First(w) - 1
        <5>1. First(v) <= First(w) - 1 /\ First(w) <= First(v) + 1
          BY <4>1, <4>3, <4>4, <4>5
        <5> HIDE DEF v
        <5> QED BY <4>1, <4>4, <5>1
      <4>7. First(v) \in 1 .. (n - 1)
        BY <2>1, <2>2, <4>4 DEF Halting
      <4>8. Stop(v) = Stop(w)
        <5>1. here \o SubSeq(Tail(rest), 1, First(v)) = real \o SubSeq(rest, 1, First(v) + 1)
          BY <3>2, <4>7
        <5>2. First(v) + 1 = First(w)
          BY <4>1, <4>6
        <5> HIDE DEF v, here
        <5> QED BY <2>2, <5>1, <5>2 DEF Stop
      <4>9. Beyond(v) = Beyond(w)
        <5>1. SubSeq(Tail(rest), First(v) + 1, n - 1) = SubSeq(rest, First(w) + 1, n)
          <6>1. PICK a \in Nat : a = First(w)
            BY <4>1
          <6>2. First(v) + 1 = a /\ a \in 1 .. n
            BY <4>1, <4>6, <6>1
          <6>3. SubSeq(Tail(rest), a, n - 1) = SubSeq(rest, a + 1, n)
            <7> HIDE DEF rest
            <7> QED BY <1>1, <2>1, <6>2 DEF Places, n
          <6> QED BY <6>1, <6>2, <6>3
        <5> HIDE DEF v, here
        <5> QED BY <2>1, <2>2, <5>1 DEF Beyond
      <4> HIDE DEF v, here
      <4> QED BY <2>2, <3>1, <3>5, <4>3, <4>8, <4>9 DEF Stride
    <3> QED BY <3>4, <3>5
  <2> QED BY <2>3, <2>4
<1> QED BY <1>2, <1>3

(* Such a walk exists, whatever the tree.                                  *)
LEMMA StridesExist ==
  ASSUME tree \in Tree
  PROVE  \E g : g = [w \in Walks |-> Pace(g, w)]
<1> DEFINE Ok(k) == \E g : \A w \in Walks : w.fuel <= k => g[w] = Stride(g, w)
           P == {k \in Nat : Ok(k)}
<1>1. 0 \in P
  <2> DEFINE g == [w \in Walks |-> Stride(<<>>, w)]
  <2>1. ASSUME NEW w \in Walks, w.fuel <= 0 PROVE g[w] = Stride(g, w)
    <3>1. w.fuel = 0 /\ g[w] = Stride(<<>>, w)
      BY <2>1 DEF Walks, MaxLinks
    <3> HIDE DEF g
    <3> QED BY <3>1 DEF Stride
  <2> HIDE DEF g
  <2> QED BY <2>1
<1>2. ASSUME NEW k \in Nat, k \in P PROVE k + 1 \in P
  <2>1. PICK g : \A w \in Walks : w.fuel <= k => g[w] = Stride(g, w)
    BY <1>2
  <2> DEFINE f == [w \in Walks |-> IF w.fuel <= k THEN g[w] ELSE Stride(g, w)]
  <2>2. \A w \in Walks : w.fuel <= k => f[w] = g[w]
    OBVIOUS
  <2>3. ASSUME NEW w \in Walks, w.fuel <= k + 1 PROVE f[w] = Stride(f, w)
    <3>1. f[w] = Stride(g, w)
      BY <2>1
    <3> HIDE DEF f
    <3>2. CASE Halting(w) = {} \/ Node(Stop(w)) = Absent \/ w.fuel = 0
      BY <3>1, <3>2 DEF Stride
    <3>3. CASE Halting(w) # {} /\ Node(Stop(w)) # Absent /\ w.fuel # 0
      <4> DEFINE v == Walk(<<>>, Node(Stop(w))[2] \o Beyond(w), w.fuel - 1)
      <4>1. w.fuel \in 0 .. MaxLinks /\ MaxLinks \in Nat
        BY DEF Walks, MaxLinks
      <4>2. w.fuel - 1 \in 0 .. MaxLinks /\ w.fuel - 1 <= k
        BY <2>3, <3>3, <4>1
      <4>3. <<>> \in Places /\ Node(Stop(w))[2] \o Beyond(w) \in Places
        BY <3>3, StopIs, EmptySeq DEF Places
      <4>4. v \in Walks /\ v.fuel <= k
        BY <4>2, <4>3, WalkIs
      <4>5. f[v] = g[v]
        <5> HIDE DEF v
        <5> QED BY <2>2, <4>4
      <4>6. Stride(f, w) = f[v] /\ Stride(g, w) = g[v]
        BY <3>3 DEF Stride
      <4> QED BY <3>1, <4>5, <4>6
    <3> QED BY <3>2, <3>3
  <2> HIDE DEF f
  <2> QED BY <2>3
<1>3. Nat \subseteq P
  <2> HIDE DEF P
  <2> QED BY <1>1, <1>2, NatInd
<1>4. MaxLinks \in Nat /\ \A w \in Walks : w.fuel <= MaxLinks
  BY DEF MaxLinks, Walks
<1>5. PICK g : \A w \in Walks : g[w] = Stride(g, w)
  BY <1>3, <1>4
<1> DEFINE f == [w \in Walks |-> Stride(g, w)]
<1>6. \A w \in Walks : f[w] = g[w]
  BY <1>5
<1>7. ASSUME NEW w \in Walks PROVE f[w] = Stride(f, w)
  <2>1. f[w] = Stride(g, w)
    OBVIOUS
  <2> HIDE DEF f
  <2>2. CASE Halting(w) = {} \/ Node(Stop(w)) = Absent \/ w.fuel = 0
    BY <2>1, <2>2 DEF Stride
  <2>3. CASE Halting(w) # {} /\ Node(Stop(w)) # Absent /\ w.fuel # 0
    <3> DEFINE v == Walk(<<>>, Node(Stop(w))[2] \o Beyond(w), w.fuel - 1)
    <3>1. w.fuel \in 0 .. MaxLinks /\ w.fuel - 1 \in 0 .. MaxLinks
      BY <2>3 DEF Walks, MaxLinks
    <3>2. <<>> \in Places /\ Node(Stop(w))[2] \o Beyond(w) \in Places
      BY <2>3, StopIs, EmptySeq DEF Places
    <3>3. v \in Walks
      BY <3>1, <3>2, WalkIs
    <3>4. f[v] = g[v]
      <4> HIDE DEF v
      <4> QED BY <1>6, <3>3
    <3>5. Stride(f, w) = f[v] /\ Stride(g, w) = g[v]
      BY <2>3 DEF Stride
    <3> QED BY <2>1, <3>4, <3>5
  <2> QED BY <2>2, <2>3
<1>8. f = [w \in Walks |-> f[w]]
  OBVIOUS
<1> HIDE DEF f
<1>9. \A w \in Walks : f[w] = Pace(f, w)
  BY <1>7, StrideIsPace
<1>10. f = [w \in Walks |-> Pace(f, w)]
  BY <1>8, <1>9
<1> QED BY <1>10

LEMMA FollowPaces ==
  ASSUME tree \in Tree
  PROVE  \A w \in Walks : Follow[w] = Pace(Follow, w)
<1> DEFINE IsFollow(g) == g = [w \in Walks |-> Pace(g, w)]
<1>1. \E g : IsFollow(g)
  BY StridesExist
<1>2. Follow = CHOOSE g : IsFollow(g)
  BY DEF Follow, Pace
<1>3. IsFollow(Follow)
  <2> HIDE DEF IsFollow
  <2> QED BY <1>1, <1>2
<1> QED BY <1>3

(* One step of a walk.                                                     *)
Goes(real, rest, k) == Follow[Walk(real, rest, k)]

LEMMA GoesIs ==
  ASSUME tree \in Tree, NEW real \in Places, NEW rest \in Places, NEW k \in 0 .. MaxLinks
  PROVE  rest = <<>> => Goes(real, rest, k) = <<"found", real, <<>>>>
<1>1. Walk(real, rest, k) \in Walks /\ Walk(real, rest, k).real = real /\ Walk(real, rest, k).rest = rest
  BY WalkIs
<1> QED BY <1>1, FollowPaces DEF Goes, Pace

Enters(real, rest, here, left) == rest # <<>> /\ here = Append(real, Head(rest)) /\ left = Tail(rest)

LEMMA GoesOn ==
  ASSUME tree \in Tree, NEW real \in Places, NEW rest \in Places, NEW k \in 0 .. MaxLinks,
         NEW here, NEW left, Enters(real, rest, here, left)
  PROVE  /\ here \in Places /\ left \in Places
         /\ Node(here) = Absent => Goes(real, rest, k) = <<"missing", here, left>>
         /\ Node(here) # Absent /\ ~IsLink(Node(here)) => Goes(real, rest, k) = Goes(here, left, k)
         /\ IsLink(Node(here)) /\ k = 0 => Goes(real, rest, k) = <<"loop", here, left>>
         /\ IsLink(Node(here)) /\ k # 0 =>
              /\ Node(here)[2] \in Places /\ Node(here)[2] \o left \in Places /\ k - 1 \in 0 .. MaxLinks
              /\ Goes(real, rest, k) = Goes(<<>>, Node(here)[2] \o left, k - 1)
<1>0. rest # <<>> /\ here = Append(real, Head(rest)) /\ left = Tail(rest)
  BY DEF Enters
<1> DEFINE w == Walk(real, rest, k)
<1>1. w \in Walks /\ w.real = real /\ w.rest = rest /\ w.fuel = k
  BY WalkIs
<1>2. Goes(real, rest, k) = Pace(Follow, w)
  BY <1>1, FollowPaces DEF Goes
<1> HIDE DEF w
<1>3. here \in Places /\ left \in Places
  <2>1. real \in Seq(STRING) /\ rest \in Seq(STRING)
    BY DEF Places
  <2>2. Head(rest) \in STRING /\ Tail(rest) \in Seq(STRING)
    BY <1>0, <2>1, HeadTailProperties
  <2> QED BY <1>0, <2>1, <2>2, AppendProperties DEF Places
<1>4. ASSUME IsLink(Node(here)), k # 0
      PROVE  Node(here)[2] \in Places /\ Node(here)[2] \o left \in Places /\ k - 1 \in 0 .. MaxLinks
  <2>1. Node(here)[2] \in Places /\ left \in Places
    BY <1>3, <1>4, NodeIs
  <2>2. k - 1 \in 0 .. MaxLinks
    BY <1>4 DEF MaxLinks
  <2> QED BY <2>1, <2>2 DEF Places
<1>5. IsLink(Node(here)) => Node(here) # Absent
  BY NodeIs
<1>6. /\ Node(here) = Absent => Goes(real, rest, k) = <<"missing", here, left>>
      /\ Node(here) # Absent /\ ~IsLink(Node(here)) => Goes(real, rest, k) = Goes(here, left, k)
      /\ IsLink(Node(here)) /\ k = 0 => Goes(real, rest, k) = <<"loop", here, left>>
      /\ IsLink(Node(here)) /\ k # 0 => Goes(real, rest, k) = Goes(<<>>, Node(here)[2] \o left, k - 1)
  BY <1>0, <1>1, <1>2, <1>5 DEF Pace, Goes
<1> QED BY <1>3, <1>4, <1>6

(* A longer path is followed as far as the shorter one leads, and from     *)
(* there on.                                                               *)
Outcome(r) ==
  /\ r[1] \in {"found", "missing", "loop"} /\ r[2] \in Places /\ r[3] \in Places
  /\ r = <<r[1], r[2], r[3]>> /\ (r[1] = "found" => r[3] = <<>>)
Joins(real, a, b, k) ==
  /\ Outcome(Goes(real, a, k))
  /\ Goes(real, a, k)[1] = "found" =>
       \E j \in 0 .. k : Goes(real, a \o b, k) = Goes(Goes(real, a, k)[2], b, j)
  /\ Goes(real, a, k)[1] # "found" =>
       Goes(real, a \o b, k) = <<Goes(real, a, k)[1], Goes(real, a, k)[2], Goes(real, a, k)[3] \o b>>

LEMMA AllJoin ==
  ASSUME tree \in Tree
  PROVE  \A k \in 0 .. MaxLinks : \A real, a, b \in Places : Joins(real, a, b, k)
<1> DEFINE Of(k) == \A real, a, b \in Places : Joins(real, a, b, k)
           P == {k \in Nat : k <= MaxLinks => Of(k)}
<1>0. MaxLinks \in Nat /\ <<>> \in Places
  BY EmptySeq DEF MaxLinks, Places
<1>1. ASSUME NEW k \in 0 .. MaxLinks, k # 0 => Of(k - 1) PROVE Of(k)
  <2> DEFINE Upto(n) == \A real, a, b \in Places : Len(a) = n => Joins(real, a, b, k)
             Q == {n \in Nat : Upto(n)}
  <2>1. 0 \in Q
    <3>1. ASSUME NEW real \in Places, NEW a \in Places, NEW b \in Places, Len(a) = 0 PROVE Joins(real, a, b, k)
      <4>1. a = <<>> /\ a \o b = b
        BY <3>1, EmptySeq, ConcatEmptySeq DEF Places
      <4>2. Goes(real, a, k) = <<"found", real, <<>>>>
        BY <4>1, GoesIs
      <4>3. k \in 0 .. k
        BY <1>0
      <4> QED BY <1>0, <4>1, <4>2, <4>3 DEF Joins, Outcome
    <3> QED BY <3>1
  <2>2. ASSUME NEW n \in Nat, n \in Q PROVE n + 1 \in Q
    <3>0. Upto(n)
      BY <2>2
    <3>1. ASSUME NEW real \in Places, NEW a \in Places, NEW b \in Places, Len(a) = n + 1 PROVE Joins(real, a, b, k)
      <4> DEFINE here == Append(real, Head(a))
                 ta == Tail(a)
                 ab == a \o b
                 at == ta \o b
                 whole == Goes(real, a, k)
      <4>1. a # <<>> /\ ta \in Places /\ Len(ta) = n
        <5>1. a \in Seq(STRING) /\ Len(a) # 0
          BY <3>1 DEF Places
        <5>2. a # <<>>
          BY <5>1, EmptySeq
        <5> QED BY <3>1, <5>1, <5>2, HeadTailProperties DEF Places
      <4>2. ab \in Places /\ ab # <<>> /\ Head(ab) = Head(a) /\ Tail(ab) = at /\ at \in Places
        <5>1. /\ a = <<Head(a)>> \o ta /\ <<Head(a)>> \in Seq(STRING) /\ a \in Seq(STRING) /\ b \in Seq(STRING)
              /\ ta \in Seq(STRING)
          BY <4>1 DEF Places
        <5> DEFINE x == <<Head(a)>>
        <5>2. ab = x \o at
          <6>1. x \in Seq(STRING) /\ ta \in Seq(STRING) /\ b \in Seq(STRING) /\ a = x \o ta
            BY <5>1
          <6> HIDE DEF x, ta
          <6>2. (x \o ta) \o b = x \o (ta \o b)
            BY <6>1, ConcatAssociative
          <6> QED BY <6>1, <6>2
        <5>3. at \in Seq(STRING) /\ ab \in Seq(STRING)
          BY <5>1, ConcatProperties
        <5> HIDE DEF at, ab, ta
        <5>4. Head(a) \in STRING
          BY <4>1, HeadTailProperties DEF Places
        <5>5. ab # <<>> /\ Head(ab) = Head(a) /\ Tail(ab) = at
          BY <5>2, <5>3, <5>4
        <5> QED BY <5>3, <5>5 DEF Places
      <4>3. /\ here \in Places
            /\ Node(here) = Absent => whole = <<"missing", here, ta>>
            /\ Node(here) # Absent /\ ~IsLink(Node(here)) => whole = Goes(here, ta, k)
            /\ IsLink(Node(here)) /\ k = 0 => whole = <<"loop", here, ta>>
            /\ IsLink(Node(here)) /\ k # 0 =>
                 /\ Node(here)[2] \o ta \in Places /\ k - 1 \in 0 .. MaxLinks
                 /\ whole = Goes(<<>>, Node(here)[2] \o ta, k - 1)
        <5>1. Enters(real, a, here, ta)
          BY <4>1 DEF Enters
        <5>2. whole = Goes(real, a, k)
          OBVIOUS
        <5> HIDE DEF here, ta, whole
        <5> QED BY <4>1, <5>1, <5>2, GoesOn
      <4>4. /\ Node(here) = Absent => Goes(real, ab, k) = <<"missing", here, at>>
            /\ Node(here) # Absent /\ ~IsLink(Node(here)) => Goes(real, ab, k) = Goes(here, at, k)
            /\ IsLink(Node(here)) /\ k = 0 => Goes(real, ab, k) = <<"loop", here, at>>
            /\ IsLink(Node(here)) /\ k # 0 => Goes(real, ab, k) = Goes(<<>>, Node(here)[2] \o at, k - 1)
        <5>1. Enters(real, ab, here, at)
          BY <4>2 DEF Enters
        <5> HIDE DEF ab, at, here
        <5> QED BY <4>2, <5>1, GoesOn
      <4> HIDE DEF here, ta, ab
      <4>5. CASE Node(here) = Absent
        BY <3>1, <4>1, <4>3, <4>4, <4>5 DEF Joins, Outcome, ab
      <4>6. CASE Node(here) # Absent /\ ~IsLink(Node(here))
        <5>1. Joins(here, ta, b, k)
          BY <3>0, <3>1, <4>1, <4>3
        <5>2. whole = Goes(here, ta, k) /\ Goes(real, ab, k) = Goes(here, ta \o b, k)
          BY <4>3, <4>4, <4>6
        <5> HIDE DEF whole, at
        <5> QED BY <5>1, <5>2 DEF Joins, ab, whole
      <4>7. CASE IsLink(Node(here)) /\ k = 0
        <5>1. Node(here) # Absent
          BY <4>7, NodeIs
        <5> QED BY <3>1, <4>1, <4>3, <4>4, <4>7, <5>1 DEF Joins, Outcome, ab
      <4>8. CASE IsLink(Node(here)) /\ k # 0
        <5> DEFINE to == Node(here)[2]
        <5>1. to \in Places
          BY <4>8, NodeIs
        <5>2. /\ to \o ta \in Places /\ k - 1 \in 0 .. MaxLinks /\ whole = Goes(<<>>, to \o ta, k - 1)
              /\ Goes(real, ab, k) = Goes(<<>>, to \o at, k - 1)
          BY <4>3, <4>4, <4>8
        <5>3. to \o at = (to \o ta) \o b
          <6>1. to \in Seq(STRING) /\ ta \in Seq(STRING) /\ b \in Seq(STRING)
            BY <4>1, <5>1 DEF Places
          <6> HIDE DEF to
          <6>2. (to \o ta) \o b = to \o (ta \o b)
            BY <6>1, ConcatAssociative
          <6> QED BY <6>2
        <5>4. Joins(<<>>, to \o ta, b, k - 1)
          BY <1>0, <1>1, <4>8, <5>2
        <5>5. \A j \in 0 .. (k - 1) : j \in 0 .. k
          BY <5>2
        <5> HIDE DEF whole, at, to
        <5>6. Goes(real, a \o b, k) = Goes(<<>>, (to \o ta) \o b, k - 1)
          BY <5>2, <5>3 DEF ab
        <5>7. Goes(real, a, k) = Goes(<<>>, to \o ta, k - 1)
          BY <5>2 DEF whole
        <5> QED BY <5>4, <5>5, <5>6, <5>7 DEF Joins
      <4> QED BY <4>5, <4>6, <4>7, <4>8
    <3> QED BY <3>1
  <2>3. Nat \subseteq Q
    <3> HIDE DEF Q
    <3> QED BY <2>1, <2>2, NatInd
  <2>4. ASSUME NEW real \in Places, NEW a \in Places, NEW b \in Places PROVE Joins(real, a, b, k)
    <3>1. Len(a) \in Nat
      BY DEF Places
    <3> QED BY <2>3, <3>1
  <2> QED BY <2>4
<1>2. 0 \in P
  <2> HIDE DEF Of
  <2> QED BY <1>0, <1>1
<1>3. ASSUME NEW k \in Nat, k \in P PROVE k + 1 \in P
  <2> HIDE DEF Of
  <2> SUFFICES ASSUME k + 1 <= MaxLinks PROVE Of(k + 1)
    OBVIOUS
  <2>1. k + 1 \in 0 .. MaxLinks /\ (k + 1) - 1 = k /\ Of(k)
    BY <1>0, <1>3
  <2> QED BY <1>1, <2>1
<1>4. Nat \subseteq P
  <2> HIDE DEF P
  <2> QED BY <1>2, <1>3, NatInd
<1> HIDE DEF Of
<1>5. \A k \in 0 .. MaxLinks : Of(k)
  BY <1>0, <1>4
<1> QED BY <1>5 DEF Of

LEMMA OneIs == ASSUME NEW S, NEW x \in S PROVE <<x>> \in Seq(S)
OBVIOUS

(* What Reach finds.                                                       *)
LEMMA ReachIs ==
  ASSUME tree \in Tree, NEW p \in Places
  PROVE  /\ Outcome(Reach(p)) /\ Reach(<<>>) = <<"found", <<>>, <<>>>>
         /\ p # <<>> =>
              /\ Front(p) \in Places /\ Front(p) = SubSeq(p, 1, Len(p) - 1) /\ Last(p) \in STRING
              /\ p = Front(p) \o <<Last(p)>>
<1>0. 0 \in 0 .. MaxLinks /\ MaxLinks \in 0 .. MaxLinks /\ <<>> \in Places
  BY EmptySeq DEF MaxLinks, Places
<1>1. Outcome(Reach(p))
  BY <1>0, AllJoin DEF Joins, Reach, Goes
<1>2. Reach(<<>>) = <<"found", <<>>, <<>>>>
  BY <1>0, GoesIs DEF Reach, Goes
<1>3. ASSUME p # <<>>
      PROVE  /\ Front(p) \in Places /\ Front(p) = SubSeq(p, 1, Len(p) - 1) /\ Last(p) \in STRING
             /\ p = Front(p) \o <<Last(p)>>
  <2>1. p \in Seq(STRING) /\ Len(p) \in Nat /\ Len(p) # 0 /\ Len(p) - 1 \in Nat
    BY <1>3, EmptySeq DEF Places
  <2>2. Last(p) \in STRING /\ Front(p) = SubSeq(p, 1, Len(p) - 1)
    BY <2>1 DEF Last, Front
  <2>3. Front(p) \in Seq(STRING)
    BY <2>1, <2>2
  <2>4. p = Front(p) \o <<Last(p)>>
    <3> DEFINE m == Len(p) - 1
               f == Front(p)
               x == Last(p)
    <3>1. m \in Nat /\ Len(p) = m + 1 /\ f = SubSeq(p, 1, m) /\ x = p[m + 1] /\ x \in STRING
      BY <2>1, <2>2 DEF Last
    <3> HIDE DEF f, x, m
    <3>2. Len(f) = m /\ \A i \in 1 .. m : f[i] = p[i]
      BY <2>1, <3>1
    <3>3. f \in Seq(STRING)
      BY <2>3 DEF f
    <3>4. f \o <<x>> = Append(f, x) /\ Append(f, x) \in Seq(STRING)
      BY <3>1, <3>3, AppendIsConcat
    <3>5. Len(Append(f, x)) = m + 1 /\ (\A i \in 1 .. m : Append(f, x)[i] = f[i]) /\ Append(f, x)[m + 1] = x
      BY <3>1, <3>2, <3>3, AppendProperties
    <3>6. \A i \in 1 .. (m + 1) : Append(f, x)[i] = p[i]
      BY <3>1, <3>2, <3>5
    <3>7. Append(f, x) = p
      BY <2>1, <3>1, <3>4, <3>5, <3>6, SeqEqual
    <3> QED BY <3>4, <3>7 DEF f, x
  <2> QED BY <2>2, <2>3, <2>4 DEF Places
<1> QED BY <1>1, <1>2, <1>3

LEMMA TopIs ==
  ASSUME NEW n \in Nat, NEW t \in SUBSET (0 .. n), NEW x \in t, \A y \in t : y <= x
  PROVE  Max(t) = x
<1>1. Max(t) \in t /\ \A y \in t : Max(t) >= y
  <2>1. \E z \in t : \A y \in t : z >= y
    <3>1. \A y \in t : y \in 0 .. n /\ y <= x
      OBVIOUS
    <3>2. x \in 0 .. n
      OBVIOUS
    <3>3. \A y \in t : x >= y
      BY <3>1, <3>2
    <3> QED BY <3>3
  <2> QED BY <2>1 DEF Max
<1>2. Max(t) \in 0 .. n /\ x \in 0 .. n /\ Max(t) >= x /\ Max(t) <= x
  BY <1>1
<1> QED BY <1>2

(* The canonical form of a path is the place an open for writing lands in, *)
(* wherever it lands.                                                      *)
LEMMA CanonicalIsLanding ==
  ASSUME tree \in Tree, lenient \in BOOLEAN, NEW p \in Places,
         NEW c \in CanonicalRemotePath(p), NEW l \in Lands(p)
  PROVE  c = l
<1> DEFINE n == Len(p)
           Good == {i \in 0 .. n : RealPathOk(SubSeq(p, 1, i))}
<1>1. n \in Nat /\ p \in Seq(STRING) /\ SubSeq(p, 1, n) = p /\ Outcome(Reach(p)) /\ l = Reach(p)[2]
  <2>1. n \in Nat /\ p \in Seq(STRING)
    BY DEF Places
  <2>2. SubSeq(p, 1, n) = p
    BY <2>1, SubSeqFull
  <2>3. l = Reach(p)[2]
    BY DEF Lands
  <2> QED BY <2>1, <2>2, <2>3, ReachIs
<1>2. /\ ~(~RealPathOk(p) /\ UnresolvedLink(p)) /\ Nearest(p) = Max(Good)
      /\ c = Reach(SubSeq(p, 1, Nearest(p)))[2] \o SubSeq(p, Nearest(p) + 1, n)
  <2>1. Nearest(p) = Max(Good)
    BY DEF Nearest
  <2> QED BY <2>1 DEF CanonicalRemotePath
<1>3. CASE RealPathOk(p)
  <2>1. n \in Good /\ \A y \in Good : y <= n
    <3>1. n \in 0 .. n /\ \A y \in 0 .. n : y <= n
      BY <1>1
    <3> HIDE DEF n
    <3> QED BY <1>1, <1>3, <3>1
  <2>2. Nearest(p) = n
    <3> HIDE DEF n
    <3>1. Good \in SUBSET (0 .. n)
      OBVIOUS
    <3> HIDE DEF Good
    <3> QED BY <1>1, <1>2, <2>1, <3>1, TopIs
  <2>3. SubSeq(p, n + 1, n) = <<>>
    BY <1>1
  <2>4. Reach(p)[2] \o <<>> = Reach(p)[2]
    BY <1>1, ConcatEmptySeq DEF Outcome, Places
  <2> QED BY <1>1, <1>2, <2>2, <2>3, <2>4
<1>4. CASE ~RealPathOk(p)
  <2> DEFINE f == Front(p)
             x == Last(p)
             d == Reach(f)[2]
             here == Append(d, x)
  <2>1. Reach(p)[1] = "missing" /\ Reach(p)[3] = <<>>
    BY <1>4 DEF Lands, RealPathOk
  <2>2. p # <<>>
    <3>0. <<>> \in Places
      BY EmptySeq DEF Places
    <3>1. Reach(<<>>) = <<"found", <<>>, <<>>>>
      BY <3>0, ReachIs
    <3> QED BY <2>1, <3>1
  <2>3. f \in Places /\ f = SubSeq(p, 1, n - 1) /\ x \in STRING /\ p = f \o <<x>> /\ <<x>> \in Places /\ n - 1 \in Nat
    <3>1. f \in Places /\ f = SubSeq(p, 1, n - 1) /\ x \in STRING /\ p = f \o <<x>>
      BY <2>2, ReachIs
    <3>2. n # 0
      BY <1>1, <2>2, EmptySeq
    <3> HIDE DEF x, f, n
    <3>3. n - 1 \in Nat
      BY <1>1, <3>2
    <3>4. <<x>> \in Seq(STRING)
      BY <3>1, OneIs
    <3> QED BY <3>1, <3>3, <3>4 DEF Places
  <2>4. Joins(<<>>, f, <<x>>, MaxLinks) /\ Outcome(Reach(f))
    <3>1. MaxLinks \in 0 .. MaxLinks /\ <<>> \in Places
      BY EmptySeq DEF MaxLinks, Places
    <3> HIDE DEF f, x
    <3> QED BY <2>3, <3>1, AllJoin, ReachIs
  <2>5. Goes(<<>>, f, MaxLinks) = Reach(f) /\ Goes(<<>>, f \o <<x>>, MaxLinks) = Reach(p)
    BY <2>3 DEF Goes, Reach
  <2> HIDE DEF f, x
  <2>6. Reach(f)[1] = "found"
    <3> SUFFICES ASSUME Reach(f)[1] # "found" PROVE FALSE
      OBVIOUS
    <3>1. Reach(p) = <<Reach(f)[1], Reach(f)[2], Reach(f)[3] \o <<x>>>>
      BY <2>4, <2>5 DEF Joins
    <3>2. Reach(f)[3] \o <<x>> = <<>>
      BY <2>1, <3>1
    <3>3. Reach(f)[3] \in Seq(STRING) /\ <<x>> \in Seq(STRING)
      BY <2>3, <2>4 DEF Outcome, Places
    <3>4. <<x>> = <<>>
      BY <3>2, <3>3, ConcatEqualIffEmpty
    <3> QED BY <3>4
  <2>7. PICK j \in 0 .. MaxLinks : Reach(p) = Goes(d, <<x>>, j)
    <3>1. PICK j \in 0 .. MaxLinks : Goes(<<>>, f \o <<x>>, MaxLinks) = Goes(Goes(<<>>, f, MaxLinks)[2], <<x>>, j)
      BY <2>4, <2>5, <2>6 DEF Joins
    <3> QED BY <2>5, <3>1
  <2>8. d \in Places
    BY <2>4 DEF Outcome
  <2>9. ~IsLink(Node(here))
    BY <1>2, <1>4, <2>2, <2>6 DEF UnresolvedLink, LinkItself, f, x
  <2> HIDE DEF d
  <2>10. Enters(d, <<x>>, here, <<>>)
    BY DEF Enters
  <2> HIDE DEF here
  <2>11. /\ here \in Places
         /\ Node(here) = Absent => Goes(d, <<x>>, j) = <<"missing", here, <<>>>>
         /\ Node(here) # Absent /\ ~IsLink(Node(here)) => Goes(d, <<x>>, j) = Goes(here, <<>>, j)
    BY <2>3, <2>8, <2>10, GoesOn
  <2>12. Goes(here, <<>>, j) = <<"found", here, <<>>>>
    <3>1. <<>> \in Places
      BY EmptySeq DEF Places
    <3> QED BY <2>11, <3>1, GoesIs
  <2>13. l = here
    BY <1>1, <2>1, <2>7, <2>9, <2>11, <2>12
  <2>14. Nearest(p) = n - 1
    <3>1. n - 1 \in Good
      <4>1. RealPathOk(SubSeq(p, 1, n - 1))
        BY <2>3, <2>6 DEF RealPathOk
      <4>2. n - 1 \in 0 .. n
        BY <1>1, <2>3
      <4> HIDE DEF n
      <4> QED BY <4>1, <4>2
    <3>2. n \notin Good
      <4> HIDE DEF n
      <4> QED BY <1>1, <1>4
    <3>3. Good \in SUBSET (0 .. n)
      OBVIOUS
    <3>4. \A y \in 0 .. n : y # n => y <= n - 1
      <4> HIDE DEF n
      <4> QED BY <1>1
    <3> HIDE DEF Good, n
    <3>5. \A y \in Good : y <= n - 1
      BY <3>2, <3>3, <3>4
    <3> QED BY <1>1, <1>2, <3>1, <3>3, <3>5, TopIs
  <2>15. SubSeq(p, n, n) = <<x>>
    <3>1. x = p[n] /\ n \in 1 .. n
      <4>1. x = p[n]
        BY DEF x, Last
      <4> HIDE DEF n
      <4>2. n \in 1 .. n
        BY <1>1, <2>3
      <4> QED BY <4>1, <4>2
    <3> DEFINE y == SubSeq(p, n, n)
    <3>2. n \in 1 .. (Len(p) + 1) /\ n \in (n - 1) .. Len(p)
      BY <1>1, <3>1
    <3>3. y \in Seq(STRING) /\ Len(y) = n - n + 1 /\ \A i \in 1 .. (n - n + 1) : y[i] = p[n + i - 1]
      <4> HIDE DEF n
      <4> QED BY <1>1, <3>2, SubSeqProperties DEF n
    <3> HIDE DEF y
    <3>4. Len(y) = 1 /\ y[1] = x
      <4> HIDE DEF n
      <4> QED BY <1>1, <3>1, <3>3
    <3>5. y = <<y[1]>>
      BY <3>3, <3>4
    <3> QED BY <3>4, <3>5 DEF y
  <2>16. c = d \o <<x>>
    <3>1. (n - 1) + 1 = n
      BY <1>1
    <3> HIDE DEF n
    <3> QED BY <1>2, <2>3, <2>14, <2>15, <3>1 DEF d
  <2>17. d \o <<x>> = here
    BY <2>3, <2>8, AppendIsConcat DEF here, Places
  <2> QED BY <2>13, <2>16, <2>17
<1> QED BY <1>3, <1>4

-----------------------------------------------------------------------------
(* A normalised path names no parent.                                      *)
Clean(p) == p \in Places /\ \A i \in 1 .. Len(p) : p[i] # ".."

LEMMA StepIsClean ==
  ASSUME NEW p, Clean(p), NEW x \in STRING
  PROVE  Clean(NormalizeStep(p, x))
<1>1. p \in Seq(STRING) /\ Len(p) \in Nat
  BY DEF Clean, Places
<1>2. CASE x # ".."
  <2>1. /\ Append(p, x) \in Seq(STRING) /\ Len(Append(p, x)) = Len(p) + 1 /\ Append(p, x)[Len(p) + 1] = x
        /\ \A i \in 1 .. Len(p) : Append(p, x)[i] = p[i]
    <3>1. p \in Seq(STRING) /\ x \in STRING
      BY <1>1
    <3>2. Append(p, x) \in Seq(STRING) /\ Len(Append(p, x)) = Len(p) + 1 /\ Append(p, x)[Len(p) + 1] = x
      BY <3>1, AppendProperties
    <3>3. \A i \in 1 .. Len(p) : Append(p, x)[i] = p[i]
      BY <3>1, AppendProperties
    <3> QED BY <3>2, <3>3
  <2>2. \A i \in 1 .. (Len(p) + 1) : i \in 1 .. Len(p) \/ i = Len(p) + 1
    BY <1>1
  <2> QED BY <1>2, <2>1, <2>2 DEF Clean, NormalizeStep, Places
<1>3. CASE x = ".." /\ p = <<>>
  BY <1>3 DEF NormalizeStep
<1>4. CASE x = ".." /\ p # <<>>
  <2> DEFINE f == Front(p)
  <2>1. Len(p) # 0
    BY <1>1, <1>4, EmptySeq
  <2>2. f \in Seq(STRING) /\ Len(f) = Len(p) - 1 /\ \A i \in 1 .. (Len(p) - 1) : f[i] = p[i] /\ i \in 1 .. Len(p)
    <3>1. PICK m \in Nat : Len(p) = m + 1 /\ Len(p) - 1 = m
      BY <1>1, <2>1
    <3>2. f = SubSeq(p, 1, m)
      BY <3>1 DEF Front
    <3> HIDE DEF f
    <3>3. f \in Seq(STRING) /\ Len(f) = m /\ \A i \in 1 .. m : f[i] = p[i]
      BY <1>1, <3>1, <3>2
    <3> QED BY <3>1, <3>3
  <2>3. NormalizeStep(p, x) = f
    BY <1>4 DEF NormalizeStep
  <2> HIDE DEF f
  <2> QED BY <2>2, <2>3 DEF Clean, Places
<1> QED BY <1>2, <1>3, <1>4

LEMMA NormalizedIsClean ==
  ASSUME NEW s \in Places
  PROVE  Clean(Normalize(s))
<1> DEFINE n == Len(s)
           T == {p \in Places : Clean(p)}
           h == [x \in T \X STRING |-> NormalizeStep(x[1], x[2])]
           IsFold(f) == f = [t \in SUBSET (DOMAIN s) |-> IF t = {} THEN <<>> ELSE LET x == Max(t) IN NormalizeStep(f[t \ {x}], s[x])]
           f == CHOOSE f : IsFold(f)
<1>1. n \in Nat /\ DOMAIN s = 1 .. n /\ s \in Seq(STRING) /\ \A j \in 1 .. n : s[j] \in STRING
  BY DEF Places
<1>2. h \in [T \X STRING -> T]
  <2>1. ASSUME NEW x \in T \X STRING PROVE NormalizeStep(x[1], x[2]) \in T
    BY StepIsClean DEF Clean
  <2> QED BY <2>1
<1>3. <<>> \in T
  BY EmptySeq DEF Clean, Places
<1>4. PICK it \in [SUBSET (1 .. n) -> T] : FoldsBy(it, n, <<>>, s, h)
  <2> HIDE DEF T, h
  <2> QED BY <1>1, <1>2, <1>3, FoldExists
<1>5. ASSUME NEW t \in SUBSET (1 .. n), t # {}
      PROVE  Max(t) \in t /\ t \ {Max(t)} \in SUBSET (1 .. n)
  BY <1>1, <1>5, MaxIs
<1>6. IsFold(it)
  <2>1. ASSUME NEW t \in SUBSET (1 .. n), t # {}
        PROVE  h[<<it[t \ {Max(t)}], s[Max(t)]>>] = NormalizeStep(it[t \ {Max(t)}], s[Max(t)])
    <3>1. it[t \ {Max(t)}] \in T /\ s[Max(t)] \in STRING
      BY <1>1, <1>4, <1>5, <2>1
    <3> QED BY <3>1
  <2>2. \A t \in SUBSET (1 .. n) : it[t] = IF t = {} THEN <<>> ELSE NormalizeStep(it[t \ {Max(t)}], s[Max(t)])
    BY <1>4, <2>1 DEF FoldsBy
  <2> HIDE DEF h, n, T
  <2> QED BY <1>1, <1>4, <2>2
<1>7. IsFold(f)
  <2> HIDE DEF IsFold
  <2> QED BY <1>6
<1>8. Normalize(s) = f[1 .. n]
  <2>1. Normalize(s) = f[DOMAIN s]
    BY DEF Normalize, FoldLeft, MapThenFoldSet
  <2> HIDE DEF f, n
  <2> QED BY <1>1, <2>1
<1> HIDE DEF f
<1>9. f[{}] = <<>> /\ \A t \in SUBSET (1 .. n) : t # {} => f[t] = NormalizeStep(f[t \ {Max(t)}], s[Max(t)])
  <2> HIDE DEF n
  <2>1. {} \in SUBSET (1 .. n)
    OBVIOUS
  <2> QED BY <1>1, <1>7, <2>1
<1> DEFINE P == {k \in Nat : k <= n => Clean(f[1 .. k])}
<1>10. 0 \in P
  <2>1. 1 .. 0 = {} /\ Clean(<<>>)
    BY <1>3
  <2> QED BY <1>9, <2>1
<1>11. ASSUME NEW k \in Nat, k \in P PROVE k + 1 \in P
  <2> SUFFICES ASSUME k + 1 <= n PROVE Clean(f[1 .. (k + 1)])
    OBVIOUS
  <2>1. k + 1 \in 1 .. n /\ Clean(f[1 .. k]) /\ (k + 1) - 1 = k
    BY <1>1, <1>11
  <2>2. 1 .. (k + 1) \in SUBSET (1 .. n) /\ 1 .. (k + 1) # {} /\ Max(1 .. (k + 1)) = k + 1 /\ (1 .. (k + 1)) \ {k + 1} = 1 .. k
    <3> HIDE DEF n
    <3>1. (1 .. (k + 1)) \ {k + 1} = 1 .. ((k + 1) - 1)
      BY <1>1, <2>1, TopOf
    <3> QED BY <1>1, <2>1, <3>1, TopOf
  <2>3. f[1 .. (k + 1)] = NormalizeStep(f[1 .. k], s[k + 1])
    <3> HIDE DEF n
    <3> QED BY <1>9, <2>2
  <2>4. s[k + 1] \in STRING
    BY <1>1, <2>1
  <2> QED BY <2>1, <2>3, <2>4, StepIsClean
<1>12. Nat \subseteq P
  <2> HIDE DEF P
  <2> QED BY <1>10, <1>11, NatInd
<1>13. Clean(f[1 .. n])
  BY <1>1, <1>12
<1> QED BY <1>8, <1>13

(* Prefixes.                                                               *)
LEMMA PrefixIs ==
  ASSUME NEW S, NEW s \in Seq(S), NEW t \in Seq(S)
  PROVE  IsPrefix(s, t) <=> Len(s) <= Len(t) /\ \A i \in 1 .. Len(s) : s[i] = t[i]
<1>1. Len(s) \in Nat /\ Len(t) \in Nat /\ SubSeq(s, 1, Len(s)) = s
  BY SubSeqFull
<1>2. ASSUME Len(s) <= Len(t)
      PROVE  (SubSeq(t, 1, Len(s)) = s) <=> \A i \in 1 .. Len(s) : s[i] = t[i]
  <2> DEFINE x == SubSeq(t, 1, Len(s))
  <2>1. x \in Seq(S) /\ Len(x) = Len(s) /\ \A i \in 1 .. Len(s) : x[i] = t[i]
    BY <1>1, <1>2
  <2> HIDE DEF x
  <2>2. (\A i \in 1 .. Len(s) : s[i] = x[i]) => x = s
    BY <2>1, SeqEqual
  <2> QED BY <2>1, <2>2 DEF x
<1> QED BY <1>1, <1>2 DEF IsPrefix

LEMMA PrefixesNest ==
  ASSUME NEW S, NEW a \in Seq(S), NEW b \in Seq(S), NEW c \in Seq(S), IsPrefix(a, c), IsPrefix(b, c), Len(a) <= Len(b)
  PROVE  IsPrefix(a, b)
<1>1. \A i \in 1 .. Len(a) : i \in 1 .. Len(b)
  OBVIOUS
<1> QED BY <1>1, PrefixIs

-----------------------------------------------------------------------------
(* The inductive invariant: a path is let through with the binding that    *)
(* governs it, and stays where it was checked.                             *)
WsGranted ==
  granted # Unbound =>
    /\ granted.root \in Roots /\ Clean(granted.path)
    /\ AssertRemoteWorkspaceTarget(granted.root, granted.path)
    /\ granted.cwd \in Cwd /\ granted.ws \in FindForPath(granted.cwd)
WsInv ==
  /\ tree \in Tree /\ lenient \in BOOLEAN /\ bindings \in [Local -> Roots \union {Unbound}]
  /\ WsGranted

WsSpec == WsInit /\ [][WsNext]_wsVars

LEMMA WsBegins == WsInit => WsInv
BY DEF WsInit, WsInv, WsGranted

LEMMA WsStep == WsInv /\ [WsNext]_wsVars => WsInv'
<1> SUFFICES ASSUME WsInv, [WsNext]_wsVars PROVE WsInv'
  OBVIOUS
<1>1. tree \in Tree /\ lenient \in BOOLEAN /\ bindings \in [Local -> Roots \union {Unbound}]
  BY DEF WsInv
<1>2. ASSUME NEW w \in Local, NEW r \in Roots, RemoteWorkspaceSave(w, r) PROVE WsInv'
  BY <1>1, <1>2 DEF WsInv, WsGranted, RemoteWorkspaceSave
<1>3. ASSUME NEW w \in Local, RemoteWorkspaceDelete(w) PROVE WsInv'
  BY <1>1, <1>3 DEF WsInv, WsGranted, RemoteWorkspaceDelete
<1>4. ASSUME NEW c \in Cwd, NEW i \in Inputs, ResolveRemoteToolPath(c, i) PROVE WsInv'
  <2>1. PICK w \in FindForPath(c) : \E p \in ResolveRemotePath(bindings[w] \o WorkspaceRelativePart(w, c), i, bindings[w]) :
           /\ AssertRemoteWorkspaceTarget(bindings[w], p)
           /\ granted' = [root |-> bindings[w], path |-> p, cwd |-> c, ws |-> w]
    BY <1>4 DEF ResolveRemoteToolPath
  <2>2. PICK p \in ResolveRemotePath(bindings[w] \o WorkspaceRelativePart(w, c), i, bindings[w]) :
           /\ AssertRemoteWorkspaceTarget(bindings[w], p)
           /\ granted' = [root |-> bindings[w], path |-> p, cwd |-> c, ws |-> w]
    BY <2>1
  <2>3. UNCHANGED <<bindings, tree, lenient>>
    BY <1>4 DEF ResolveRemoteToolPath
  <2>4. w \in Local /\ bindings[w] \in Roots /\ IsPrefix(w, c)
    BY <1>1, <2>1 DEF FindForPath, Around
  <2>5. Clean(p)
    <3> DEFINE rel == WorkspaceRelativePart(w, c)
               base == bindings[w] \o rel
    <3>1. i.segs \in Places /\ bindings[w] \in Places /\ w \in Places /\ c \in Places
      BY <2>4, WsAssumption DEF Places
    <3>2. rel \in Places
      <4>1. Len(w) \in Nat /\ Len(c) \in Nat /\ Len(w) <= Len(c)
        BY <2>4, <3>1 DEF Places, IsPrefix
      <4> QED BY <3>1, <4>1 DEF WorkspaceRelativePart, Places
    <3> HIDE DEF rel
    <3>3. base \in Places /\ base \o i.segs \in Places
      BY <3>1, <3>2 DEF Places
    <3>4. p = Normalize(IF i.abs THEN i.segs ELSE base \o i.segs)
      <4> HIDE DEF base
      <4>1. p \in ResolveRemotePath(base, i, bindings[w])
        BY <2>2 DEF rel, base
      <4> QED BY <4>1 DEF ResolveRemotePath
    <3> HIDE DEF base
    <3> QED BY <3>1, <3>3, <3>4, NormalizedIsClean
  <2>6. /\ AssertRemoteWorkspaceTarget(bindings[w], p)' = AssertRemoteWorkspaceTarget(bindings[w], p)
        /\ FindForPath(c)' = FindForPath(c)
    BY <2>3
    DEF AssertRemoteWorkspaceTarget, CanonicalRemotePath, UnresolvedLink, LinkItself, Nearest, RealPathOk, Reach, Follow,
        Node, FindForPath, Around
  <2> QED BY <1>1, <2>1, <2>2, <2>3, <2>4, <2>5, <2>6 DEF WsInv, WsGranted
<1>5. CASE UNCHANGED wsVars
  <2>1. UNCHANGED <<bindings, tree, lenient, granted>>
    BY <1>5 DEF wsVars
  <2> DEFINE g == granted
  <2>2. /\ AssertRemoteWorkspaceTarget(g.root, g.path)' = AssertRemoteWorkspaceTarget(g.root, g.path)
        /\ FindForPath(g.cwd)' = FindForPath(g.cwd)
    BY <2>1
    DEF AssertRemoteWorkspaceTarget, CanonicalRemotePath, UnresolvedLink, LinkItself, Nearest, RealPathOk, Reach, Follow,
        Node, FindForPath, Around
  <2>3. WsGranted' = WsGranted
    BY <2>1, <2>2 DEF WsGranted
  <2> QED BY <2>1, <2>3 DEF WsInv
<1> QED BY <1>2, <1>3, <1>4, <1>5 DEF WsNext

LEMMA WsIsSound == WsInv => WsTypeOK /\ WorkspaceContained
<1> SUFFICES ASSUME WsInv PROVE WsTypeOK /\ WorkspaceContained
  OBVIOUS
<1>1. tree \in Tree /\ lenient \in BOOLEAN /\ bindings \in [Local -> Roots \union {Unbound}] /\ WsGranted
  BY DEF WsInv
<1>2. WsTypeOK
  <2>1. ASSUME granted # Unbound PROVE granted.root \in Roots /\ \A i \in DOMAIN granted.path : granted.path[i] # ".."
    BY <1>1, <2>1 DEF WsGranted, Clean, Places
  <2> QED BY <1>1, <2>1 DEF WsTypeOK
<1>3. ASSUME granted # Unbound, NEW real \in Lands(granted.path), NEW root \in CanonicalRemotePath(granted.root)
      PROVE  IsPrefix(root, real)
  <2>1. AssertRemoteWorkspaceTarget(granted.root, granted.path) /\ granted.path \in Places
    BY <1>1, <1>3 DEF WsGranted, Clean
  <2>2. PICK r \in CanonicalRemotePath(granted.root), p \in CanonicalRemotePath(granted.path) : IsPrefix(r, p)
    BY <2>1 DEF AssertRemoteWorkspaceTarget, IsRemotePathInside
  <2>3. p = real
    BY <1>1, <1>3, <2>1, CanonicalIsLanding
  <2>4. r = root
    BY <1>3 DEF CanonicalRemotePath
  <2> QED BY <2>2, <2>3, <2>4
<1>4. ASSUME granted # Unbound, NEW v \in Local, bindings[v] # Unbound, IsPrefix(v, granted.cwd)
      PROVE  IsPrefix(v, granted.ws)
  <2>1. granted.cwd \in Cwd /\ granted.ws \in FindForPath(granted.cwd)
    BY <1>1, <1>4 DEF WsGranted
  <2>2. granted.ws \in Local /\ IsPrefix(granted.ws, granted.cwd) /\ Len(v) <= Len(granted.ws)
    BY <1>4, <2>1 DEF FindForPath, Around
  <2>3. granted.cwd \in Seq(STRING) /\ granted.ws \in Seq(STRING) /\ v \in Seq(STRING)
    BY <2>1, <2>2, WsAssumption
  <2> QED BY <1>4, <2>2, <2>3, PrefixesNest
<1> QED BY <1>2, <1>3, <1>4 DEF WorkspaceContained

(* In every behaviour: a path that is let through leads, with every link of*)
(* the server's tree followed, to a place under the bound root's real      *)
(* directory, whatever the tree and the realpath of the server.            *)
THEOREM PathsAreContained == WsSpec => []WorkspaceContained
<1>1. WsInv => WorkspaceContained
  BY WsIsSound
<1> QED BY <1>1, WsBegins, WsStep, PTL DEF WsSpec

-----------------------------------------------------------------------------
(***************************************************************************)
(* The types of a recording, also of one that was deleted or closed early: *)
(* every sidecar write in flight is one of a recording that was begun or   *)
(* of an end() that is done.                                               *)
(***************************************************************************)
LogEntry == [at : {"none", "preparing", "begun"}, bytes : 0 .. Cap, truncated : BOOLEAN, pending : Seq(0 .. MaxOut), ended : BOOLEAN]
Begun == {i \in Rec : entry[i].at = "begun"}
Over == {e \in Enders : ender[e].at = "done"}
QueueFits == metaQueue \in Seq(Metas) /\ Len(metaQueue) <= Cardinality(Begun) + Cardinality(Over)
LogTypes ==
  /\ shown \in 0 .. MaxOut /\ entry \in [Rec -> LogEntry] /\ write \in [Rec -> StreamType]
  /\ inMap \in [entry : 0 .. MaxRec, stream : 0 .. MaxRec] /\ flushed \in [rec : 0 .. MaxRec, upTo : 0 .. MaxOut]
  /\ \A e \in Enders : ender[e].rec \in 0 .. MaxRec
  /\ remover \in {"idle", "log", "sidecar", "done"}
  /\ IsRead(reader) /\ reader.at \in {"idle", "flush", "stat", "done", "failed"}
  /\ QueueFits

LEMMA BegunFits ==
  ASSUME NEW b \in SUBSET Rec, NEW o \in SUBSET Enders
  PROVE  /\ IsFiniteSet(b) /\ Cardinality(b) \in Nat /\ Cardinality(b) <= MaxRec
         /\ IsFiniteSet(o) /\ Cardinality(o) \in Nat /\ Cardinality(o) <= 2
<1>1. IsFiniteSet(Rec) /\ Cardinality(Rec) = MaxRec
  <2>1. MaxRec \in Nat /\ 1 \in Int /\ MaxRec \in Int /\ MaxRec >= 1
    BY LogAssumption
  <2>2. IsFiniteSet(1 .. MaxRec) /\ Cardinality(1 .. MaxRec) = IF 1 > MaxRec THEN 0 ELSE MaxRec - 1 + 1
    BY <2>1, FS_Interval
  <2> QED BY <2>1, <2>2 DEF Rec
<1>2. IsFiniteSet(b) /\ Cardinality(b) \in Nat /\ Cardinality(b) <= MaxRec
  BY <1>1, FS_Subset, FS_CardinalityType
<1>3. IsFiniteSet(Enders) /\ Cardinality(Enders) <= 2
  <2>1. IsFiniteSet({"close"}) /\ Cardinality({"close"}) = 1
    BY FS_Singleton
  <2>2. Enders = {"close"} \union {"exit"}
    BY DEF Enders
  <2>3. IsFiniteSet({"close"} \union {"exit"})
        /\ Cardinality({"close"} \union {"exit"}) = IF "exit" \in {"close"} THEN Cardinality({"close"}) ELSE Cardinality({"close"}) + 1
    BY <2>1, FS_AddElement
  <2> QED BY <2>1, <2>2, <2>3
<1>4. IsFiniteSet(o) /\ Cardinality(o) \in Nat /\ Cardinality(o) <= Cardinality(Enders) /\ Cardinality(Enders) \in Nat
  BY <1>3, FS_Subset, FS_CardinalityType
<1> QED BY <1>2, <1>3, <1>4

LEMMA LastIn == ASSUME NEW S, NEW s \in Seq(S), s # <<>> PROVE Last(s) \in S
<1>1. Len(s) \in 1 .. Len(s)
  BY EmptySeq
<1> QED BY <1>1 DEF Last

(* Recordings that were begun and ends that are done only add up.          *)
LEMMA BooksGrow ==
  ASSUME QueueFits, Begun \subseteq Begun', Over \subseteq Over', metaQueue' \in Seq(Metas),
         \/ Len(metaQueue') <= Len(metaQueue)
         \/ Len(metaQueue') = Len(metaQueue) + 1 /\ (Begun' # Begun \/ Over' # Over)
  PROVE  QueueFits'
<1>1. Begun \in SUBSET Rec /\ Over \in SUBSET Enders /\ Begun' \in SUBSET Rec /\ Over' \in SUBSET Enders
  BY DEF Begun, Over, Rec, Enders
<1>2. /\ IsFiniteSet(Begun) /\ Cardinality(Begun) \in Nat /\ IsFiniteSet(Over) /\ Cardinality(Over) \in Nat
      /\ IsFiniteSet(Begun') /\ Cardinality(Begun') \in Nat /\ IsFiniteSet(Over') /\ Cardinality(Over') \in Nat
  BY <1>1, BegunFits
<1>3. Cardinality(Begun) <= Cardinality(Begun') /\ Cardinality(Over) <= Cardinality(Over')
  BY <1>2, FS_Subset
<1>4. /\ Begun' # Begun => Cardinality(Begun) # Cardinality(Begun')
      /\ Over' # Over => Cardinality(Over) # Cardinality(Over')
  BY <1>2, FS_Subset
<1>5. Len(metaQueue) \in Nat /\ Len(metaQueue') \in Nat
  BY DEF QueueFits
<1> QED BY <1>2, <1>3, <1>4, <1>5 DEF QueueFits

LEMMA LogTypesBegin == LogInit => LogTypes
<1> SUFFICES ASSUME LogInit PROVE LogTypes
  OBVIOUS
<1>1. NewEntry.pending = <<>> /\ <<>> \in Seq(0 .. MaxOut) /\ <<>> \in Seq(Nat) /\ 0 \in 0 .. Cap /\ 0 \in 0 .. MaxOut /\ 0 \in 0 .. MaxRec
  BY LogAssumption, EmptySeq DEF NewEntry
<1>2. entry \in [Rec -> LogEntry]
  BY <1>1 DEF LogInit, NewEntry, LogEntry
<1>3. write \in [Rec -> StreamType]
  BY <1>1 DEF LogInit, NewStream, StreamType
<1>4. inMap \in [entry : 0 .. MaxRec, stream : 0 .. MaxRec] /\ flushed \in [rec : 0 .. MaxRec, upTo : 0 .. MaxOut]
      /\ \A e \in Enders : ender[e].rec \in 0 .. MaxRec
  BY <1>1 DEF LogInit, Enders, NoEnd
<1>5. IsRead(reader) /\ reader.at = "idle" /\ remover = "idle" /\ shown = 0
  BY DEF LogInit, IsRead
<1>6. QueueFits
  <2>1. metaQueue \in Seq(Metas) /\ Len(metaQueue) = 0
    BY EmptySeq DEF LogInit
  <2>2. Begun \in SUBSET Rec /\ Over \in SUBSET Enders
    BY DEF Begun, Over
  <2>3. Cardinality(Begun) \in Nat /\ Cardinality(Over) \in Nat
    BY <2>2, BegunFits
  <2> QED BY <2>1, <2>3 DEF QueueFits
<1> QED BY <1>1, <1>2, <1>3, <1>4, <1>5, <1>6 DEF LogTypes

(* A chunk goes to a typed entry and its stream.                           *)
LEMMA PutFits ==
  ASSUME LogTypes, NEW i \in Rec, NEW e \in LogEntry, NEW c \in 1 .. MaxOut, Put(i, e, c)
  PROVE  /\ entry' \in [Rec -> LogEntry] /\ write' \in [Rec -> StreamType] /\ flushed' \in [rec : 0 .. MaxRec, upTo : 0 .. MaxOut]
         /\ \A j \in Rec : entry'[j].at = IF j = i THEN e.at ELSE entry[j].at
<1> DEFINE over == e.truncated \/ e.bytes >= Cap
           t == e.bytes + 1 >= Cap
           b == IF over THEN e.bytes ELSE e.bytes + 1
           p == IF over \/ inMap.stream # 0 THEN e.pending ELSE Append(e.pending, c)
           r == [e EXCEPT !.truncated = t, !.bytes = b, !.pending = p]
<1>1. entry' = [entry EXCEPT ![i] = r]
  BY DEF Put
<1>2. b \in 0 .. Cap /\ t \in BOOLEAN
  BY LogAssumption DEF LogEntry
<1>3. p \in Seq(0 .. MaxOut)
  <2>1. e.pending \in Seq(0 .. MaxOut) /\ c \in 0 .. MaxOut
    BY DEF LogEntry
  <2>2. Append(e.pending, c) \in Seq(0 .. MaxOut)
    BY <2>1, AppendProperties
  <2> QED BY <2>1, <2>2
<1>4. r \in LogEntry /\ r.at = e.at
  <2> HIDE DEF t, b, p
  <2> QED BY <1>2, <1>3 DEF LogEntry
<1>5. entry' \in [Rec -> LogEntry] /\ \A j \in Rec : entry'[j].at = IF j = i THEN e.at ELSE entry[j].at
  <2> HIDE DEF r
  <2> QED BY <1>1, <1>4 DEF LogTypes
<1>6. flushed' \in [rec : 0 .. MaxRec, upTo : 0 .. MaxOut]
  BY DEF Put, LogTypes
<1>7. write' \in [Rec -> StreamType]
  <2>1. CASE over \/ inMap.stream = 0
    BY <2>1 DEF Put, LogTypes
  <2>2. CASE ~over /\ inMap.stream # 0
    <3>1. inMap.stream \in Rec /\ write[inMap.stream] \in StreamType
      BY <2>2 DEF LogTypes, Rec
    <3> DEFINE q == Append(write[inMap.stream].queue, c)
               w == [write[inMap.stream] EXCEPT !.queue = q]
    <3>2. q \in Seq(Nat)
      <4>1. write[inMap.stream].queue \in Seq(Nat) /\ c \in Nat
        BY <3>1 DEF StreamType
      <4> QED BY <4>1, AppendProperties
    <3>3. write' = [write EXCEPT ![inMap.stream] = w]
      <4>1. write' = [write EXCEPT ![inMap.stream].queue = Append(@, c)]
        BY <2>2 DEF Put
      <4> QED BY <3>1, <4>1 DEF LogTypes
    <3>4. w \in StreamType
      <4> HIDE DEF q
      <4> QED BY <3>1, <3>2 DEF StreamType
    <3> HIDE DEF w
    <3> QED BY <3>1, <3>3, <3>4 DEF LogTypes
  <2> QED BY <2>1, <2>2
<1> QED BY <1>5, <1>6, <1>7

(* An end closes the books of an entry and of its sidecar.                 *)
LEMMA FinishFits ==
  ASSUME LogTypes, NEW rec \in 0 .. MaxRec, Finish(rec)
  PROVE  /\ entry' \in [Rec -> LogEntry] /\ flushed' \in [rec : 0 .. MaxRec, upTo : 0 .. MaxOut]
         /\ metaQueue' \in Seq(Metas) /\ (Len(metaQueue') = Len(metaQueue) \/ Len(metaQueue') = Len(metaQueue) + 1)
         /\ \A j \in Rec : entry'[j].at = entry[j].at
<1>1. flushed' \in [rec : 0 .. MaxRec, upTo : 0 .. MaxOut]
  <2>1. 0 \in 0 .. MaxRec /\ 0 \in 0 .. MaxOut
    BY LogAssumption
  <2> QED BY <2>1 DEF Finish
<1>2. CASE rec = 0
  BY <1>1, <1>2 DEF Finish, LogTypes, QueueFits
<1>3. CASE rec # 0
  <2>1. rec \in Rec /\ entry[rec] \in LogEntry
    BY <1>3 DEF LogTypes, Rec
  <2> DEFINE r == [entry[rec] EXCEPT !.ended = TRUE]
  <2>2. entry' = [entry EXCEPT ![rec] = r]
    BY <1>3, <2>1 DEF Finish, LogTypes
  <2>3. r \in LogEntry /\ r.at = entry[rec].at
    BY <2>1 DEF LogEntry
  <2>4. entry' \in [Rec -> LogEntry] /\ \A j \in Rec : entry'[j].at = entry[j].at
    <3> HIDE DEF r
    <3> QED BY <2>1, <2>2, <2>3 DEF LogTypes
  <2>5. metaQueue' = Append(metaQueue, MetaOf(rec, TRUE))
    BY <1>3 DEF Finish
  <2>6. MetaOf(rec, TRUE) \in Metas
    <3>1. entry[rec].bytes \in Nat
      BY <2>1, LogAssumption DEF LogEntry
    <3> QED BY <3>1 DEF MetaOf, Metas
  <2>7. metaQueue' \in Seq(Metas) /\ Len(metaQueue') = Len(metaQueue) + 1
    <3> DEFINE m == MetaOf(rec, TRUE)
    <3>1. metaQueue \in Seq(Metas) /\ m \in Metas /\ metaQueue' = Append(metaQueue, m)
      BY <2>5, <2>6 DEF LogTypes, QueueFits
    <3> HIDE DEF m
    <3> QED BY <3>1, AppendProperties
  <2> QED BY <1>1, <2>4, <2>7
<1> QED BY <1>2, <1>3

EndTypes ==
  /\ entry \in [Rec -> LogEntry] /\ write \in [Rec -> StreamType]
  /\ inMap \in [entry : 0 .. MaxRec, stream : 0 .. MaxRec] /\ flushed \in [rec : 0 .. MaxRec, upTo : 0 .. MaxOut]
  /\ \A e \in Enders : ender[e].rec \in 0 .. MaxRec
  /\ QueueFits

LEMMA EndLogFits ==
  ASSUME LogTypes, EndBooks, NEW e \in Enders, ender[e].at = "idle", EndLog(e)
  PROVE  EndTypes'
<1> DEFINE wait == inMap.stream # 0
           at == IF wait THEN "draining" ELSE "done"
           early == ~Settled(inMap.entry)
           r == [at |-> at, rec |-> inMap.entry, stream |-> inMap.stream, early |-> early]
<1>1. ender' = [ender EXCEPT ![e] = r]
  BY DEF EndLog
<1>2. r.at = at /\ r.rec \in 0 .. MaxRec
  BY DEF LogTypes
<1>3. DOMAIN ender = Enders
  BY DEF EndBooks
<1>4. \A d \in Enders : ender'[d] = IF d = e THEN r ELSE ender[d]
  <2> HIDE DEF r
  <2> QED BY <1>1, <1>3
<1>5. \A d \in Enders : ender'[d].rec \in 0 .. MaxRec
  <2> HIDE DEF r
  <2> QED BY <1>2, <1>4 DEF LogTypes
<1>6. inMap' \in [entry : 0 .. MaxRec, stream : 0 .. MaxRec]
  BY LogAssumption DEF EndLog, LogTypes
<1>7. Over' = IF wait THEN Over ELSE Over \union {e}
  <2> HIDE DEF r
  <2>1. wait => at = "draining"
    OBVIOUS
  <2>2. ~wait => at = "done"
    OBVIOUS
  <2> HIDE DEF at, wait
  <2> QED BY <1>2, <1>4, <2>1, <2>2 DEF Over
<1>8. e \notin Over
  BY DEF Over
<1>9. CASE wait
  <2>1. inMap.stream \in Rec /\ write[inMap.stream] \in StreamType
    BY <1>9 DEF LogTypes, Rec
  <2> DEFINE w == [write[inMap.stream] EXCEPT !.ending = TRUE]
  <2>2. write' = [write EXCEPT ![inMap.stream] = w]
    BY <1>9, <2>1 DEF EndLog, LogTypes
  <2>3. w \in StreamType
    BY <2>1 DEF StreamType
  <2>4. write' \in [Rec -> StreamType]
    <3> HIDE DEF w
    <3> QED BY <2>1, <2>2, <2>3 DEF LogTypes
  <2>5. UNCHANGED <<entry, metaQueue, flushed>>
    BY <1>9 DEF EndLog
  <2>6. QueueFits'
    <3>1. Begun' = Begun /\ Over' = Over
      BY <1>7, <1>9, <2>5 DEF Begun
    <3> QED BY <2>5, <3>1 DEF QueueFits, LogTypes
  <2> QED BY <1>5, <1>6, <2>4, <2>5, <2>6 DEF EndTypes, LogTypes
<1>10. CASE ~wait
  <2>1. Finish(inMap.entry) /\ write' = write /\ inMap.entry \in 0 .. MaxRec
    BY <1>10 DEF EndLog, LogTypes
  <2>2. /\ entry' \in [Rec -> LogEntry] /\ flushed' \in [rec : 0 .. MaxRec, upTo : 0 .. MaxOut]
        /\ metaQueue' \in Seq(Metas) /\ (Len(metaQueue') = Len(metaQueue) \/ Len(metaQueue') = Len(metaQueue) + 1)
        /\ \A j \in Rec : entry'[j].at = entry[j].at
    BY <2>1, FinishFits
  <2>3. QueueFits'
    <3>1. Begun' = Begun
      BY <2>2 DEF Begun
    <3>2. Over \subseteq Over' /\ Over' # Over
      BY <1>7, <1>8, <1>10
    <3>3. Len(metaQueue) \in Nat /\ QueueFits
      BY DEF LogTypes, QueueFits
    <3>4. Begun \subseteq Begun' /\ (Len(metaQueue') <= Len(metaQueue) \/ Len(metaQueue') = Len(metaQueue) + 1)
      BY <2>2, <3>1, <3>3
    <3> HIDE DEF wait
    <3> QED BY <2>2, <3>2, <3>3, <3>4, BooksGrow
  <2> QED BY <1>5, <1>6, <2>1, <2>2, <2>3 DEF EndTypes, LogTypes
<1> QED BY <1>9, <1>10

LEMMA LogTypesStep == LogTypes /\ EndBooks /\ [LogNext]_storeVars => LogTypes'
<1> SUFFICES ASSUME LogTypes, EndBooks, [LogNext]_storeVars PROVE LogTypes'
  OBVIOUS
<1>1. ASSUME UNCHANGED <<shown, remover, reader>>, EndTypes' PROVE LogTypes'
  BY <1>1 DEF LogTypes, EndTypes
<1>2. ASSUME UNCHANGED <<entry, ender, metaQueue>> PROVE QueueFits'
  <2>1. Begun' = Begun /\ Over' = Over
    BY <1>2 DEF Begun, Over
  <2> QED BY <1>2, <2>1 DEF QueueFits, LogTypes
<1>3. CASE UNCHANGED storeVars
  <2>1. UNCHANGED <<shown, entry, write, inMap, flushed, metaQueue, ender, remover, reader>>
    BY <1>3 DEF storeVars
  <2> QED BY <1>2, <2>1 DEF LogTypes
<1>4. CASE Output
  <2>1. shown + 1 \in 1 .. MaxOut /\ shown' = shown + 1 /\ shown' \in 0 .. MaxOut /\ UNCHANGED <<metaQueue, ender, remover, reader>>
    BY <1>4, LogAssumption DEF Output, LogTypes
  <2>2. PICK i \in Rec, e \in LogEntry :
          /\ Put(i, e, shown + 1) /\ inMap' \in [entry : 0 .. MaxRec, stream : 0 .. MaxRec]
          /\ e.at = entry[i].at \/ entry[i].at = "none"
    <3>1. CASE inMap.entry # 0
      <4>1. inMap.entry \in Rec /\ entry[inMap.entry] \in LogEntry /\ inMap' \in [entry : 0 .. MaxRec, stream : 0 .. MaxRec]
        BY <1>4, <3>1 DEF Output, LogTypes, Rec
      <4>2. Put(inMap.entry, entry[inMap.entry], shown + 1)
        BY <1>4, <3>1 DEF Output
      <4> QED BY <4>1, <4>2
    <3>2. CASE inMap.entry = 0
      <4>1. PICK i \in Rec : entry[i].at = "none" /\ inMap' = [inMap EXCEPT !.entry = i] /\ Put(i, NewEntry, shown + 1)
        BY <1>4, <3>2 DEF Output
      <4>2. NewEntry \in LogEntry
        <5>1. <<>> \in Seq(0 .. MaxOut) /\ 0 \in 0 .. Cap
          BY LogAssumption, EmptySeq
        <5> QED BY <5>1 DEF NewEntry, LogEntry
      <4>3. inMap' \in [entry : 0 .. MaxRec, stream : 0 .. MaxRec]
        BY <4>1 DEF LogTypes, Rec
      <4> QED BY <4>1, <4>2, <4>3
    <3> QED BY <3>1, <3>2
  <2>3. /\ entry' \in [Rec -> LogEntry] /\ write' \in [Rec -> StreamType] /\ flushed' \in [rec : 0 .. MaxRec, upTo : 0 .. MaxOut]
        /\ \A j \in Rec : entry'[j].at = IF j = i THEN e.at ELSE entry[j].at
    BY <2>1, <2>2, PutFits
  <2>4. QueueFits'
    <3>1. Begun \subseteq Begun' /\ Over' = Over
      BY <2>1, <2>2, <2>3 DEF Begun, Over
    <3>2. Len(metaQueue') <= Len(metaQueue) /\ metaQueue' \in Seq(Metas) /\ QueueFits
      BY <2>1 DEF LogTypes, QueueFits
    <3> QED BY <3>1, <3>2, BooksGrow
  <2> QED BY <2>1, <2>2, <2>3, <2>4 DEF LogTypes
<1>5. ASSUME NEW i \in Rec, Prepared(i) PROVE LogTypes'
  <2>1. entry[i].at = "preparing" /\ UNCHANGED <<shown, ender, remover, reader>> /\ entry[i] \in LogEntry
    BY <1>5 DEF Prepared, LogTypes
  <2> DEFINE r == [entry[i] EXCEPT !.at = "begun", !.pending = <<>>]
             m == MetaOf(i, entry[i].ended)
  <2>2. entry' = [entry EXCEPT ![i] = r]
    <3>1. entry' = [entry EXCEPT ![i].at = "begun", ![i].pending = <<>>]
      BY <1>5 DEF Prepared
    <3> QED BY <3>1 DEF LogTypes
  <2>3. r \in LogEntry /\ r.at = "begun"
    <3>1. <<>> \in Seq(0 .. MaxOut)
      BY EmptySeq
    <3> QED BY <2>1, <3>1 DEF LogEntry
  <2>4. entry' \in [Rec -> LogEntry] /\ \A j \in Rec : entry'[j].at = IF j = i THEN "begun" ELSE entry[j].at
    <3> HIDE DEF r
    <3> QED BY <2>2, <2>3 DEF LogTypes
  <2>5. write' \in [Rec -> StreamType]
    <3>1. entry[i].pending \in Seq(Nat)
      BY <2>1, LogAssumption DEF LogEntry
    <3>2. NewStream(entry[i].pending) \in StreamType
      BY <3>1 DEF NewStream, StreamType
    <3>3. write' = [write EXCEPT ![i] = NewStream(entry[i].pending)]
      BY <1>5 DEF Prepared
    <3> QED BY <3>2, <3>3 DEF LogTypes
  <2>6. inMap' \in [entry : 0 .. MaxRec, stream : 0 .. MaxRec]
    BY <1>5 DEF Prepared, LogTypes, Rec
  <2>7. flushed' \in [rec : 0 .. MaxRec, upTo : 0 .. MaxOut]
    <3>1. CASE entry[i].pending = <<>>
      BY <1>5, <3>1 DEF Prepared, LogTypes
    <3>2. CASE entry[i].pending # <<>>
      <4> DEFINE q == entry[i].pending
      <4>1. flushed' = [rec |-> i, upTo |-> Last(q)]
        BY <1>5, <3>2 DEF Prepared
      <4>2. q \in Seq(0 .. MaxOut) /\ q # <<>>
        BY <2>1, <3>2 DEF LogEntry
      <4> HIDE DEF q
      <4>3. Last(q) \in 0 .. MaxOut
        BY <4>2, LastIn
      <4> QED BY <4>1, <4>3 DEF Rec
    <3> QED BY <3>1, <3>2
  <2>8. metaQueue' \in Seq(Metas) /\ Len(metaQueue') = Len(metaQueue) + 1
    <3>1. m \in Metas
      <4>1. entry[i].ended \in BOOLEAN /\ entry[i].bytes \in Nat
        BY <2>1, LogAssumption DEF LogEntry
      <4> QED BY <4>1 DEF MetaOf, Metas
    <3>2. metaQueue' = Append(metaQueue, m) /\ metaQueue \in Seq(Metas)
      BY <1>5 DEF Prepared, LogTypes, QueueFits
    <3> HIDE DEF m
    <3> QED BY <3>1, <3>2, AppendProperties
  <2>9. QueueFits'
    <3>1. Begun \subseteq Begun' /\ Begun' # Begun /\ Over \subseteq Over'
      BY <2>1, <2>4 DEF Begun, Over
    <3>2. QueueFits
      BY DEF LogTypes
    <3> QED BY <2>8, <3>1, <3>2, BooksGrow
  <2> QED BY <2>1, <2>4, <2>5, <2>6, <2>7, <2>9 DEF LogTypes
<1>6. ASSUME NEW i \in Rec, Drain(i) PROVE LogTypes'
  <2>1. UNCHANGED <<shown, entry, inMap, flushed, metaQueue, ender, remover, reader>> /\ write[i] \in StreamType
    BY <1>6 DEF Drain, LogTypes
  <2>2. PICK w \in StreamType : write' = [write EXCEPT ![i] = w]
    <3> DEFINE q == write[i].queue
    <3>1. CASE write' = [write EXCEPT ![i].at = "open"]
      <4> DEFINE w == [write[i] EXCEPT !.at = "open"]
      <4>1. w \in StreamType /\ write' = [write EXCEPT ![i] = w]
        BY <2>1, <3>1 DEF StreamType
      <4> QED BY <4>1
    <3>2. CASE write' = [write EXCEPT ![i].at = "closed"]
      <4> DEFINE w == [write[i] EXCEPT !.at = "closed"]
      <4>1. w \in StreamType /\ write' = [write EXCEPT ![i] = w]
        BY <2>1, <3>2 DEF StreamType
      <4> QED BY <4>1
    <3>3. CASE q # <<>> /\ write' = [write EXCEPT ![i].queue = Tail(@), ![i].written = Head(q)]
      <4> DEFINE w == [write[i] EXCEPT !.queue = Tail(q), !.written = Head(q)]
      <4>1. q \in Seq(Nat)
        BY <2>1 DEF StreamType
      <4>2. Tail(q) \in Seq(Nat) /\ Head(q) \in Nat
        <5> HIDE DEF q
        <5> QED BY <3>3, <4>1, HeadTailProperties
      <4>3. write' = [write EXCEPT ![i] = w]
        BY <2>1, <3>3 DEF LogTypes
      <4>4. w \in StreamType
        <5> HIDE DEF q
        <5> QED BY <2>1, <4>2 DEF StreamType
      <4> QED BY <4>3, <4>4
    <3> QED BY <1>6, <3>1, <3>2, <3>3 DEF Drain
  <2>3. write' \in [Rec -> StreamType]
    BY <2>2 DEF LogTypes
  <2> QED BY <1>2, <2>1, <2>3 DEF LogTypes
<1>7. CASE MetaLands
  <2>1. PICK k \in DOMAIN metaQueue : metaQueue' = RemoveAt(metaQueue, k)
    BY <1>7 DEF MetaLands
  <2>2. metaQueue \in Seq(Metas) /\ QueueFits /\ Len(metaQueue) \in Nat
    BY DEF LogTypes, QueueFits
  <2>3. metaQueue' \in Seq(Metas) /\ Len(metaQueue') = Len(metaQueue) - 1
    BY <2>1, <2>2, RemoveAtIn
  <2>4. UNCHANGED <<shown, entry, write, inMap, flushed, ender, remover, reader>>
    BY <1>7 DEF MetaLands
  <2>5. Begun' = Begun /\ Over' = Over
    BY <2>4 DEF Begun, Over
  <2>6. Len(metaQueue') <= Len(metaQueue) /\ Begun \subseteq Begun' /\ Over \subseteq Over'
    BY <2>2, <2>3, <2>5
  <2>7. QueueFits'
    BY <2>2, <2>3, <2>6, BooksGrow
  <2> QED BY <2>4, <2>7 DEF LogTypes
<1>8. CASE CloseSession
  <2>1. ender["close"].at = "idle" /\ EndLog("close") /\ UNCHANGED <<shown, remover, reader>> /\ "close" \in Enders
    BY <1>8 DEF CloseSession, EndBooks, Enders
  <2>2. EndTypes'
    BY <2>1, EndLogFits
  <2> QED BY <1>1, <2>1, <2>2
<1>9. CASE CloseExited
  <2>1. ender["close"].at = "idle" /\ EndLog("close") /\ UNCHANGED <<shown, remover, reader>> /\ "close" \in Enders
    BY <1>9 DEF CloseExited, EndBooks, Enders
  <2>2. EndTypes'
    BY <2>1, EndLogFits
  <2> QED BY <1>1, <2>1, <2>2
<1>10. CASE ShellClosed
  <2>1. UNCHANGED <<shown, remover, reader>>
    BY <1>10 DEF ShellClosed
  <2>2. CASE shell = "open"
    <3>1. ender["exit"].at = "idle" /\ EndLog("exit") /\ "exit" \in Enders
      BY <1>10, <2>2 DEF ShellClosed, EndBooks, Enders
    <3>2. EndTypes'
      BY <3>1, EndLogFits
    <3> QED BY <1>1, <2>1, <3>2
  <2>3. CASE shell # "open"
    <3>1. UNCHANGED <<ender, inMap, write, entry, metaQueue, flushed>>
      BY <1>10, <2>3 DEF ShellClosed
    <3> QED BY <1>2, <2>1, <3>1 DEF LogTypes
  <2> QED BY <2>2, <2>3
<1>11. ASSUME NEW e \in Enders, EndDrained(e) PROVE LogTypes'
  <2>1. /\ ender[e].at = "draining" /\ ender' = [ender EXCEPT ![e].at = "done"] /\ UNCHANGED <<shown, write, remover, reader>>
        /\ Finish(ender[e].rec) /\ ender[e].rec \in 0 .. MaxRec
    BY <1>11 DEF EndDrained, LogTypes
  <2>2. \A d \in Enders : /\ ender'[d].rec = ender[d].rec
                          /\ ender'[d].at = IF d = e THEN "done" ELSE ender[d].at
    <3>1. DOMAIN ender = Enders /\ IsEnd(ender[e])
      BY DEF EndBooks
    <3> QED BY <2>1, <3>1 DEF IsEnd
  <2>3. /\ entry' \in [Rec -> LogEntry] /\ flushed' \in [rec : 0 .. MaxRec, upTo : 0 .. MaxOut]
        /\ metaQueue' \in Seq(Metas) /\ (Len(metaQueue') = Len(metaQueue) \/ Len(metaQueue') = Len(metaQueue) + 1)
        /\ \A j \in Rec : entry'[j].at = entry[j].at
    BY <2>1, FinishFits
  <2>4. inMap' \in [entry : 0 .. MaxRec, stream : 0 .. MaxRec]
    BY <1>11, LogAssumption DEF EndDrained, LogTypes
  <2>5. QueueFits'
    <3>1. Begun' = Begun
      BY <2>3 DEF Begun
    <3>2. Over \subseteq Over' /\ Over' # Over
      BY <2>1, <2>2 DEF Over
    <3>3. Len(metaQueue) \in Nat /\ QueueFits
      BY DEF LogTypes, QueueFits
    <3>4. Begun \subseteq Begun' /\ (Len(metaQueue') <= Len(metaQueue) \/ Len(metaQueue') = Len(metaQueue) + 1)
      BY <2>3, <3>1, <3>3
    <3> QED BY <2>3, <3>2, <3>3, <3>4, BooksGrow
  <2> QED BY <2>1, <2>2, <2>3, <2>4, <2>5 DEF LogTypes
<1>12. CASE RemoveRecording
  <2>1. UNCHANGED <<shown, entry, flushed, metaQueue, ender, reader>> /\ remover' = "log"
        /\ inMap' \in [entry : 0 .. MaxRec, stream : 0 .. MaxRec]
    BY <1>12, LogAssumption DEF RemoveRecording
  <2>2. write' \in [Rec -> StreamType]
    <3>1. CASE inMap.stream = 0
      BY <1>12, <3>1 DEF RemoveRecording, LogTypes
    <3>2. CASE inMap.stream # 0
      <4>1. inMap.stream \in Rec /\ write[inMap.stream] \in StreamType
        BY <3>2 DEF LogTypes, Rec
      <4> DEFINE w == [write[inMap.stream] EXCEPT !.at = "closed", !.queue = <<>>]
      <4>2. write' = [write EXCEPT ![inMap.stream] = w]
        BY <1>12, <3>2, <4>1 DEF RemoveRecording, LogTypes
      <4>3. w \in StreamType
        <5>1. <<>> \in Seq(Nat)
          BY EmptySeq
        <5> QED BY <4>1, <5>1 DEF StreamType
      <4> HIDE DEF w
      <4> QED BY <4>1, <4>2, <4>3 DEF LogTypes
    <3> QED BY <3>1, <3>2
  <2> QED BY <1>2, <2>1, <2>2 DEF LogTypes
<1>13. CASE RemoveLog
  <2>1. UNCHANGED <<shown, entry, inMap, flushed, metaQueue, ender, reader>> /\ remover' = "sidecar"
    BY <1>13 DEF RemoveLog
  <2>2. write' \in [Rec -> StreamType]
    <3>1. \A i \in Rec : [write[i] EXCEPT !.at = "unlinked"] \in StreamType
      BY DEF LogTypes, StreamType
    <3> QED BY <1>13, <3>1 DEF RemoveLog, LogTypes
  <2> QED BY <1>2, <2>1, <2>2 DEF LogTypes
<1>14. CASE RemoveSidecar
  <2>1. UNCHANGED <<shown, entry, write, inMap, flushed, metaQueue, ender, reader>> /\ remover' = "done"
    BY <1>14 DEF RemoveSidecar
  <2> QED BY <1>2, <2>1 DEF LogTypes
<1>15. CASE ReadStart \/ ReadFlushed
  <2>1. UNCHANGED <<shown, entry, write, inMap, flushed, metaQueue, ender, remover>>
    BY <1>15 DEF ReadStart, ReadFlushed
  <2>2. IsRead(reader') /\ reader'.at \in {"flush", "done", "failed"}
    <3>1. CASE ReadStart
      BY <3>1 DEF ReadStart, IsRead
    <3>2. CASE ReadFlushed
      <4> DEFINE at == IF Exists THEN "done" ELSE "failed"
                 got == IF Exists THEN file ELSE <<>>
      <4>1. reader' = [reader EXCEPT !.at = at, !.got = got] /\ at \in {"done", "failed"}
        BY <3>2 DEF ReadFlushed
      <4> HIDE DEF at, got
      <4> QED BY <4>1 DEF LogTypes, IsRead
    <3> QED BY <1>15, <3>1, <3>2
  <2> QED BY <1>2, <2>1, <2>2 DEF LogTypes
<1> QED BY <1>3, <1>4, <1>5, <1>6, <1>7, <1>8, <1>9, <1>10, <1>11, <1>12, <1>13, <1>14, <1>15 DEF LogNext, Enders

LEMMA LogTypesGive == LogTypes /\ EndBooks => LogTypeOK
<1> SUFFICES ASSUME LogTypes, EndBooks PROVE LogTypeOK
  OBVIOUS
<1>1. Begun \in SUBSET Rec /\ Over \in SUBSET Enders
  BY DEF Begun, Over
<1>2. /\ Cardinality(Begun) \in Nat /\ Cardinality(Begun) <= MaxRec
      /\ Cardinality(Over) \in Nat /\ Cardinality(Over) <= 2
  BY <1>1, BegunFits
<1>3. Len(metaQueue) \in Nat /\ Len(metaQueue) <= Cardinality(Begun) + Cardinality(Over)
  BY DEF LogTypes, QueueFits
<1>4. Len(metaQueue) <= MaxRec + 2
  BY <1>2, <1>3, LogAssumption
<1>5. \A i \in Rec : entry[i] \in LogEntry /\ write[i] \in StreamType
  BY DEF LogTypes
<1> QED BY <1>4, <1>5 DEF LogTypes, EndBooks, LogTypeOK, LogEntry, StreamType

-----------------------------------------------------------------------------
(***************************************************************************)
(* The areas together: a step moves one of them and leaves the others as   *)
(* they are, so each of them behaves as it does alone.                     *)
(***************************************************************************)
LEMMA AreasMoveApart ==
  /\ MCAgentInit => ResInit /\ AgentInit /\ TrustInit /\ WsInit /\ LogInit
  /\ [MCAgentNext]_allVars => /\ [ResNext]_resVars /\ [AgentNext]_agentVars
                              /\ [TrustNext]_trustVars /\ [WsNext]_wsVars /\ [LogNext]_storeVars
<1>1. MCAgentInit => ResInit /\ AgentInit /\ TrustInit /\ WsInit /\ LogInit
  BY DEF MCAgentInit
<1>2. ASSUME [MCAgentNext]_allVars PROVE /\ [ResNext]_resVars /\ [AgentNext]_agentVars
                                           /\ [TrustNext]_trustVars /\ [WsNext]_wsVars /\ [LogNext]_storeVars
  BY <1>2 DEF MCAgentNext, allVars
<1> QED BY <1>1, <1>2

(* In every behaviour of the agent's world: what is stored refers to what  *)
(* is stored, what is in force was saved, what a batch opened is closed,   *)
(* a call acts on the resource and connection it named.                    *)
THEOREM AgentWorldIsSound == MCAgentSpec => []AgentWorldSound
<1>1. MCAgentInit => TablesInv /\ LineInv /\ AgentInv
  BY AreasMoveApart, ResBegins, LineBegins, AgentBegins
<1>2. TablesInv /\ LineInv /\ AgentInv /\ [MCAgentNext]_allVars => TablesInv' /\ LineInv' /\ AgentInv'
  BY AreasMoveApart, TablesStep, LineStep, AgentStep
<1>3. TablesInv /\ LineInv /\ AgentInv => AgentWorldSound
  BY BooksGiveSound, BooksGiveAgentSound DEF AgentWorldSound
<1> QED BY <1>1, <1>2, <1>3, PTL DEF MCAgentSpec

(* The recording holds what the panel showed, in order and up to the cap,  *)
(* a read returns what was appended before it, and an exit behind a begun  *)
(* recording leaves a complete file and a final sidecar.                   *)
THEOREM RecordingsAreSound == MCAgentSpec => []RecordingSound
<1>1. MCAgentInit => LogInv
  BY AreasMoveApart, LogBegins
<1>2. LogInv /\ [MCAgentNext]_allVars => LogInv'
  BY AreasMoveApart, LogStep
<1>3. LogInv => RecordingSound
  BY LogSound DEF RecordingSound
<1> QED BY <1>1, <1>2, <1>3, PTL DEF MCAgentSpec

(* In every behaviour of the agent's world: without overlapping first      *)
(* contacts every host is reached with the one key that is stored for it,  *)
(* and a path that is let through leads under the bound root's real        *)
(* directory, with the binding of the nearest workspace.                   *)
THEOREM AgentIsHeldInPlace == MCAgentSpec => []AgentHeldInPlace
<1>1. MCAgentInit => TrustInv /\ WsInv
  BY AreasMoveApart, TrustBegins, WsBegins
<1>2. TrustInv /\ WsInv /\ [MCAgentNext]_allVars => TrustInv' /\ WsInv'
  BY AreasMoveApart, TrustStep, WsStep
<1>3. TrustInv /\ WsInv => AgentHeldInPlace
  <2>1. TrustInv => OneKeyPerHost
    BY DEF TrustInv, OneKeyPerHost, Verifies
  <2> QED BY <2>1, WsIsSound DEF AgentHeldInPlace
<1> QED BY <1>1, <1>2, <1>3, PTL DEF MCAgentSpec

(* In every behaviour of the agent's world every variable keeps its type:  *)
(* no connection that is not live has a terminal, no granted path names a  *)
(* parent, no recording grows past the cap, and sidecar writes in flight   *)
(* are bounded by the begun recordings and the ends.                       *)
THEOREM AgentWorldTypesCorrect == MCAgentSpec => []AgentWorldTypeOK
<1> DEFINE Inv == TablesInv /\ LineInv /\ AgentInv /\ TrustInv /\ WsInv /\ LogInv /\ LogTypes
<1>1. MCAgentInit => Inv
  BY AreasMoveApart, ResBegins, LineBegins, AgentBegins, TrustBegins, WsBegins, LogBegins, LogTypesBegin
<1>2. Inv /\ [MCAgentNext]_allVars => Inv'
  <2> SUFFICES ASSUME Inv, [MCAgentNext]_allVars PROVE Inv'
    OBVIOUS
  <2>1. TablesInv' /\ LineInv' /\ AgentInv' /\ TrustInv' /\ WsInv'
    BY AreasMoveApart, TablesStep, LineStep, AgentStep, TrustStep, WsStep
  <2>2. EndBooks
    BY DEF LogInv
  <2>3. LogInv' /\ LogTypes'
    BY <2>2, AreasMoveApart, LogStep, LogTypesStep
  <2> QED BY <2>1, <2>3
<1>3. Inv => AgentWorldTypeOK
  <2> SUFFICES ASSUME Inv PROVE AgentWorldTypeOK
    OBVIOUS
  <2>1. ResTypeOK
    BY DEF TablesInv, TableTypes, LineInv, LineTypes, ResTypeOK, Ids
  <2>2. AgentTypeOK
    <3>1. \A c \in Conn : conn[c].st \in {"free", "connecting", "dead", "gone"} => conn[c].st # "live"
      OBVIOUS
    <3>2. \A i \in DOMAIN Targets : slot[i].results \in 0 .. 1
      BY DEF AgentInv, AgentTypes, SlotType
    <3> QED BY <3>1, <3>2 DEF AgentInv, AgentTypes, NoTermUnlessLive, AgentTypeOK, ConnType
  <2>3. TrustTypeOK
    BY DEF TrustInv
  <2>4. WsTypeOK
    BY WsIsSound
  <2>5. LogTypeOK
    BY LogTypesGive DEF LogInv
  <2> QED BY <2>1, <2>2, <2>3, <2>4, <2>5 DEF AgentWorldTypeOK
<1> HIDE DEF Inv
<1> QED BY <1>1, <1>2, <1>3, PTL DEF MCAgentSpec

=============================================================================
