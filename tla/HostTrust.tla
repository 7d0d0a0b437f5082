----------------------------- MODULE HostTrust -----------------------------
(***************************************************************************)
(* Host keys: trust on first use (hostkey.js, makeHostVerifier,            *)
(* attachHostVerifier and persistFirstSeenHostKey of index.js) for one     *)
(* host:port.  A verdict is formed inside the handshake, a first-seen key  *)
(* is stored after it, and a connection verifies anew when it reconnects.  *)
(* A jump host of a chain verifies and stores in the same way.             *)
(***************************************************************************)
EXTENDS FiniteSets

CONSTANTS Dialer, Key, NoKey

ASSUME TrustAssumption == NoKey \notin Key

VARIABLES
  known,    \* the stored fingerprint
  server,   \* the key the server has now
  dialer,   \* Dialer -> [at, mode, key, toRecord, born]: born until it has been up once
  raced,    \* history: two first contacts overlapped
  excused   \* history: connections up when the key was forgotten

trustVars == <<known, server, dialer, raced, excused>>

Modes == {"accept-new", "verify", "off"}
NewDialer == [at |-> "idle", mode |-> "off", key |-> NoKey, toRecord |-> NoKey, born |-> TRUE]

TrustTypeOK ==
  /\ known \in Key \union {NoKey} /\ server \in Key /\ raced \in BOOLEAN
  /\ dialer \in [Dialer -> [at : {"idle", "shake", "accepted", "up", "retry", "stopped"}, mode : Modes, key : Key \union {NoKey}, toRecord : Key \union {NoKey}, born : BOOLEAN]]

TrustInit ==
  /\ known = NoKey /\ server \in Key /\ raced = FALSE /\ excused = {}
  /\ dialer = [d \in Dialer |-> NewDialer]

(* decideHostKey: whether the key is accepted and whether it is to be      *)
(* stored.                                                                 *)
TrustsAnyFirst(mode, stored, presented) == \* faulty variant: strict mode takes a key nobody stored
  [accept |-> mode = "off" \/ stored \in {NoKey, presented}, record |-> mode = "accept-new" /\ stored = NoKey]
DecideHostKey(mode, stored, presented) ==
  [accept |-> mode = "off" \/ stored = presented \/ (stored = NoKey /\ mode = "accept-new"),
   record |-> mode = "accept-new" /\ stored = NoKey]

Handshake(d, mode) ==
  /\ dialer[d].at = "idle" /\ dialer' = [dialer EXCEPT ![d] = [NewDialer EXCEPT !.at = "shake", !.mode = mode]]
  /\ UNCHANGED <<known, server, raced, excused>>

(* The verifier runs on the key the server presents.  What an earlier      *)
(* attempt noted for storing stays noted unless this one notes another.    *)
HostVerifier(d) ==
  LET v == DecideHostKey(dialer[d].mode, known, server)
  IN /\ dialer[d].at = "shake"
     /\ IF v.accept
        THEN /\ dialer' = [dialer EXCEPT ![d].at = "accepted", ![d].key = server,
                                         ![d].toRecord = IF v.record THEN server ELSE @]
             /\ raced' = (raced \/ (v.record /\ \E e \in Dialer \ {d} : dialer[e].toRecord # NoKey))
        ELSE dialer' = [dialer EXCEPT ![d].at = IF dialer[d].born THEN "idle" ELSE "stopped"] /\ raced' = raced
     /\ excused' = excused \ {d}
     /\ UNCHANGED <<known, server>>

(* ready, then persistFirstSeenHostKey; storing may fail, which fails the  *)
(* connect.                                                                *)
Ready(d) ==
  LET pending == dialer[d].toRecord
  IN /\ dialer[d].at = "accepted"
     /\ \/ /\ known' = IF pending = NoKey THEN known ELSE pending
           /\ dialer' = [dialer EXCEPT ![d].at = "up", ![d].toRecord = NoKey, ![d].born = FALSE]
        \/ /\ pending # NoKey /\ known' = known
           /\ dialer' = [dialer EXCEPT ![d].toRecord = NoKey, ![d].at = IF dialer[d].born THEN "idle" ELSE "retry"]
     /\ UNCHANGED <<server, raced, excused>>

(* Authentication or the network fails, before or after the verdict.       *)
HandshakeFails(d) ==
  /\ dialer[d].at \in {"shake", "accepted"}
  /\ dialer' = [dialer EXCEPT ![d].at = "retry"]
  /\ UNCHANGED <<known, server, raced, excused>>

(* The attempts of one connect, and scheduleReconnect.                     *)
Retry(d) ==
  /\ dialer[d].at = "retry"
  /\ \/ dialer' = [dialer EXCEPT ![d].at = "shake"]
     \/ dialer[d].born /\ dialer' = [dialer EXCEPT ![d] = NewDialer]
  /\ UNCHANGED <<known, server, raced, excused>>

LoseTransport(d) ==
  /\ dialer[d].at = "up" /\ dialer' = [dialer EXCEPT ![d].at = "retry"]
  /\ UNCHANGED <<known, server, raced, excused>>

HangUp(d) ==
  /\ dialer[d].at \in {"up", "retry", "stopped"} /\ dialer' = [dialer EXCEPT ![d] = NewDialer] /\ excused' = excused \ {d}
  /\ UNCHANGED <<known, server, raced>>

(* forgetHostKey, the operator's.                                          *)
ForgetHostKey ==
  /\ known # NoKey /\ known' = NoKey /\ excused' = {d \in Dialer : dialer[d].at \in {"accepted", "up"}}
  /\ UNCHANGED <<server, dialer, raced>>

(* The server is replaced, or another one answers under its name.          *)
ServerChanges ==
  /\ server' \in Key \ {server} /\ UNCHANGED <<known, dialer, raced, excused>>

TrustNext ==
  \/ \E d \in Dialer :
       \/ \E m \in Modes : Handshake(d, m)
       \/ HostVerifier(d) \/ Ready(d) \/ HandshakeFails(d) \/ Retry(d) \/ LoseTransport(d) \/ HangUp(d)
  \/ ForgetHostKey \/ ServerChanges

-----------------------------------------------------------------------------
(* Connections that verify agree on one key: one that is up under a key    *)
(* other than the stored one was up when the operator forgot the key, or   *)
(* two first contacts overlapped.  A record that met a changed key on      *)
(* reconnecting stays down.                                                *)
OneKeyPerHost ==
  \A d \in Dialer :
    /\ dialer[d].at = "up" /\ dialer[d].mode # "off" /\ ~raced /\ d \notin excused => dialer[d].key = known
    /\ dialer[d].at = "up" => dialer[d].toRecord = NoKey
=============================================================================
