-------------------------------- MODULE Login -------------------------------
(* Logging in (src/ssh-auth.js; the handshake part of connectClient in     *)
(* src/index.js; src/net-errors.js): which methods are offered and in      *)
(* which order, what the server's answers do to the walk, when the         *)
(* keyboard is given up for good, what is retried and how a failure is     *)
(* diagnosed.  The record, with its tracker, lives through reconnects.     *)
EXTENDS Integers, Sequences, FiniteSets, SequencesExt

CONSTANTS Devices,   \* servers: [honest, factors]
          Holdings,  \* sets of methods the record has a credential for, with
                     \* "badkey" when the private key cannot be parsed
          FirstTries, \* CONNECT_RETRIES; a reconnect has none
          MaxDials   \* bound: connectClient calls

(* An honest device asks for at least one factor, and none of them is      *)
(* "none", which is the probe for the others (RFC 4252 5.2).               *)
ASSUME LoginAssumption ==
  /\ FirstTries \in Nat /\ MaxDials \in Nat
  /\ \A d \in Devices : d.honest => d.factors \in Seq(STRING \ {"none"}) /\ d.factors # <<>>

VARIABLES device,    \* the server
          holds,     \* credentials of connectConfig
          auth,      \* record.authTracker
          kbdOff,    \* record.kbdFallbackTried
          stage,     \* where connectClient is
          walk,      \* the handler's walk on this transport
          budget,    \* retries left to this connectClient
          failure,   \* lastError
          dials      \* connectClient calls so far

loginVars == <<device, holds, auth, kbdOff, stage, walk, budget, failure, dials>>

Keyboard == "keyboard-interactive"
AuthMethodOrder == <<"none", "password", "publickey", "agent", Keyboard>>
Methods == ToSet(AuthMethodOrder)
Failures == {"rejected", "cut", "disconnect", "timeout", "refused", "protocol", "badkey"}

NoWalk == [next |-> 0, steps |-> 0, offered |-> {}, done |-> 0]

(* createAuthTracker: once per record.  attempts matters up to "more than  *)
(* one".                                                                   *)
LoginInit ==
  /\ device \in Devices /\ holds \in Holdings
  /\ auth = [attempts |-> 0, left |-> {}, sawFailure |-> FALSE, kbdSeen |-> FALSE, partials |-> 0]
  /\ kbdOff = FALSE /\ stage = "new" /\ walk = NoWalk /\ budget = 0 /\ failure = "none" /\ dials = 0

(* The methods makeAuthHandler keeps; the keyboard is answered with the    *)
(* saved password.                                                         *)
Kept(i) ==
  LET m == AuthMethodOrder[i] IN
  IF m = "none" \/ m \in holds \/ (m = Keyboard /\ "password" \in holds /\ ~kbdOff) THEN <<m>> ELSE <<>>
Available == Kept(1) \o Kept(2) \o Kept(3) \o Kept(4) \o Kept(5)

Dial ==
  /\ stage \in {"new", "down"} /\ dials < MaxDials
  /\ dials' = dials + 1 /\ budget' = (IF dials = 0 THEN FirstTries ELSE 0) /\ stage' = "hand" /\ walk' = NoWalk
  /\ UNCHANGED <<device, holds, auth, kbdOff, failure>>

Fails(e) ==
  /\ stage' = "error" /\ failure' = e
  /\ UNCHANGED <<device, holds, auth, kbdOff, walk, budget, dials>>

(* The transport fails, or the key cannot be parsed, before anything was   *)
(* offered.                                                                *)
HandshakeCut ==
  /\ stage = "hand"
  /\ \E e \in IF "badkey" \in holds THEN {"badkey"} ELSE {"cut", "timeout", "refused", "protocol"} :
       Fails(e)

(* The authHandler is asked: it moves on to the next method or gives up.   *)
Offers(a, next) ==
  IF next > Len(Available)
  THEN /\ stage' = "error" /\ failure' = "rejected" /\ auth' = a
       /\ UNCHANGED <<device, holds, kbdOff, budget, dials>>
  ELSE /\ stage' = "walk"
       /\ auth' = [a EXCEPT !.attempts = IF @ < 2 THEN @ + 1 ELSE 2]
       /\ UNCHANGED <<device, holds, kbdOff, budget, failure, dials>>

Walked(next, done) ==
  [next |-> next, done |-> done, steps |-> walk.steps + 1,
   offered |-> IF next <= Len(Available) THEN walk.offered \union {Available[next]} ELSE walk.offered]

HandshakeDone ==
  /\ stage = "hand" /\ "badkey" \notin holds /\ Offers(auth, 1)
  /\ walk' = [NoWalk EXCEPT !.next = 1, !.offered = {Available[1]}]

(* After a partial success the walk starts over behind "none", as often as *)
(* the record has methods.                                                 *)
RunsOut(partial, partials) == walk.next + 1   \* faulty variant: a second factor is not offered
Restarted(partial, partials) ==
  IF partial /\ partials <= Len(Available) THEN 2 ELSE walk.next + 1

(* USERAUTH_FAILURE; left is what the server still accepts.                *)
Refused(left, partial, done) ==
  LET partials == auth.partials + IF partial THEN 1 ELSE 0
      next == Restarted(partial, partials)
      a == IF left = {} THEN [auth EXCEPT !.partials = partials]
           ELSE [auth EXCEPT !.left = left, !.sawFailure = TRUE, !.partials = partials] IN
  Offers(a, next) /\ walk' = Walked(next, done)

Offered == Available[walk.next]
Factor(m) == IF m = "agent" THEN "publickey" ELSE m
Wanted == device.factors[walk.done + 1]

(* An honest server takes its factors in order.                            *)
Accepts == stage = "walk" /\ IF device.honest THEN Factor(Offered) = Wanted ELSE TRUE
ServerRefuses ==
  /\ stage = "walk"
  /\ IF device.honest
     THEN Factor(Offered) # Wanted /\ Refused({Wanted}, FALSE, walk.done)
     ELSE \E left \in {{}, {"password"}} : \E partial \in BOOLEAN : Refused(left, partial, 0)
ServerTakesFactor ==
  /\ Accepts /\ device.honest /\ walk.done + 1 < Len(device.factors)
  /\ Refused({device.factors[walk.done + 2]}, TRUE, walk.done + 1)
LogsIn ==
  /\ Accepts /\ walk.done + 1 >= Len(device.factors)
  /\ stage' = "up" /\ UNCHANGED <<device, holds, auth, kbdOff, walk, budget, failure, dials>>

(* The keyboard-interactive listener answers each prompt.                  *)
Prompts ==
  /\ stage = "walk" /\ Offered = Keyboard
  /\ auth' = [auth EXCEPT !.kbdSeen = TRUE]
  /\ UNCHANGED <<device, holds, kbdOff, stage, walk, budget, failure, dials>>

(* The device or the network ends the transport while it is being walked.  *)
TransportEnds ==
  /\ stage = "walk" /\ \E e \in {"cut", "disconnect", "timeout", "protocol"} : Fails(e)

(* wasAuthCut.                                                             *)
WasAuthCut ==
  /\ auth.sawFailure \/ auth.kbdSeen \/ auth.attempts > 1
  /\ failure = "cut" \/ (failure \in {"protocol", "disconnect"} /\ auth.kbdSeen)

(* isTransientConnectError: a rejection names authentication, a server's   *)
(* disconnect has a code that is not a socket's.                           *)
Transient == failure \in {"cut", "timeout", "refused", "protocol"}

Falls == stage = "error" /\ ~kbdOff /\ WasAuthCut

(* One retry with the plain password; it widens the budget when that is    *)
(* used up.                                                                *)
KbdFallback ==
  /\ Falls /\ kbdOff' = TRUE /\ stage' = "hand" /\ walk' = NoWalk
  /\ budget' = IF budget = 0 THEN 0 ELSE budget - 1
  /\ UNCHANGED <<device, holds, auth, failure, dials>>

Retry ==
  /\ stage = "error" /\ ~Falls /\ Transient /\ budget > 0
  /\ budget' = budget - 1 /\ stage' = "hand" /\ walk' = NoWalk
  /\ UNCHANGED <<device, holds, auth, kbdOff, failure, dials>>

(* classifyConnectFailure.                                                 *)
Stage(e) ==
  CASE e = "badkey" -> "credential" [] e = "rejected" -> "auth"
    [] e \in {"disconnect", "cut"} -> "transport" [] e = "protocol" -> "protocol" [] OTHER -> "unknown"
(* What authHints says the server still accepts.                           *)
Hint == auth.left

GiveUp ==
  /\ stage = "error" /\ ~Falls /\ (~Transient \/ budget = 0)
  /\ stage' = Stage(failure)
  /\ UNCHANGED <<device, holds, auth, kbdOff, walk, budget, failure, dials>>

(* The transport is lost, or a reconnect failed: the record tries again.   *)
(* The record of a first connect that failed is dropped.                   *)
GoesDown ==
  /\ stage = "up" \/ (dials > 1 /\ stage \in {"auth", "transport", "protocol", "unknown"})
  /\ stage' = "down"
  /\ UNCHANGED <<device, holds, auth, kbdOff, walk, budget, failure, dials>>

LoginNext ==
  \/ Dial \/ HandshakeCut \/ HandshakeDone \/ ServerRefuses \/ ServerTakesFactor \/ LogsIn
  \/ Prompts \/ TransportEnds \/ KbdFallback \/ Retry \/ GiveUp \/ GoesDown
LoginSpec == LoginInit /\ [][LoginNext]_loginVars
-----------------------------------------------------------------------------
LoginTypeOK ==
  /\ stage \in {"new", "hand", "walk", "error", "up", "down",
                "auth", "transport", "protocol", "credential", "unknown"}
  /\ walk.offered \subseteq Methods /\ failure \in Failures \union {"none"}
  /\ auth.attempts \in 0..2 /\ budget \in 0..FirstTries

HasFactors == ToSet(device.factors) \subseteq {Factor(m) : m \in ToSet(Available)}

(* A rejection comes after every method was offered on this transport, and *)
(* when an honest server rejects a record that holds all of its factors,   *)
(* the restarts have been used up over the life of the record; what the    *)
(* diagnosis says the server still accepts is what it wants.  No server    *)
(* can keep the walk going.                                                *)
LoginSound ==
  /\ stage = "auth" => /\ ToSet(Available) \subseteq walk.offered
                       /\ device.honest /\ HasFactors => auth.partials > Len(Available)
                       /\ device.honest => Hint = {Wanted}
  /\ walk.steps <= Len(Available) * (Len(Available) + 1)
=============================================================================
