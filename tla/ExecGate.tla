------------------------------ MODULE ExecGate ------------------------------
(***************************************************************************)
(* ssh_exec from the agent's call to the command on the server: the policy *)
(* tiers (resolveExecPolicy, assessShellCommand), the operator's approval  *)
(* voucher (tools/pre-execute, recordOperatorApproval,                     *)
(* consumeOperatorApproval), the exec channel with its one retry           *)
(* (runPreparedExec, collectExecOutput), the login-shell probe             *)
(* (resolveLoginShell) and the terminal route for devices without an exec  *)
(* channel (cliExecOnSession).  Connections are those of ConnLifecycle.    *)
(*                                                                         *)
(* A call names no connection: it resolves the agent's current target when *)
(* the gate runs and again when the tool body runs.                        *)
(***************************************************************************)
EXTENDS ConnLifecycle, FiniteSets, Naturals

CONSTANTS
  NoConn,    \* no target, no voucher
  Call,      \* ssh_exec calls, each with its own execution id
  Kind,      \* Call -> what assessShellCommand makes of its command
  Tiers,     \* the policy tiers the operator switches between
  Allows,    \* the checklists the operator saves for the custom tier
  Posix      \* connections whose login shell is POSIX

Kinds    == {"safe", "delete", "destroy"}
AllTiers == {"standard", "custom", "allowAll"}

ASSUME ExecAssumption ==
  /\ NoConn \notin Conn
  /\ Kind \in [Call -> Kinds]
  /\ Tiers \subseteq AllTiers /\ "standard" \in Tiers
  /\ Allows \subseteq SUBSET Kinds /\ {} \in Allows
  /\ Posix \subseteq Conn

VARIABLES
  active,                     \* activeConnectionId
  override, resource,         \* execPolicyOverride and the profile's execPolicy
  global, allow,              \* execPolicy and execPolicyAllow
  pc, target,                 \* where each call is, and on which connection
  released,                   \* calls the policy let through as they are
  retried,                    \* calls in their retry after a transport loss
  voucher,                    \* operatorApprovals: the connection it is for
  allowed,                    \* the connection the operator said yes for
  shell, probing, stalled,    \* loginShell, loginShellProbe, execStalled
  term, busy,                 \* a live terminal, cliBusy
  held,                       \* the stream of the session a CLI query types into
  ranExec, ranCli             \* how often a call's command reached the server

policyVars == <<override, resource, global, allow>>
grantVars  == <<voucher, allowed>>
shellVars  == <<shell, probing, stalled>>
cliVars    == <<term, busy, held>>
ranVars    == <<ranExec, ranCli>>
execVars   == <<status, active, policyVars, pc, target, released, retried, grantVars,
                shellVars, cliVars, ranVars>>

Pending == {"body", "wait", "probe", "exec", "started", "running", "cli"}
Ended   == {"done", "error", "blocked", "denied"}

(* Types; a command is sent over the exec channel twice at most, and typed *)
(* into a terminal once.                                                   *)
ExecTypeOK ==
  /\ status \in [Conn -> Statuses] /\ active \in Conn \union {NoConn}
  /\ override \in [Conn -> Tiers \union {"none"}]
  /\ resource \in [Conn -> Tiers \union {"none"}]
  /\ global \in Tiers /\ allow \in Allows
  /\ pc \in [Call -> {"idle", "asked"} \union Pending \union Ended]
  /\ target \in [Call -> Conn \union {NoConn}]
  /\ released \subseteq Call /\ retried \subseteq Call
  /\ voucher \in [Call -> Conn \union {NoConn}] /\ allowed \in [Call -> Conn \union {NoConn}]
  /\ shell \in [Conn -> {"unknown", "posix", "null"}]
  /\ probing \subseteq Conn /\ stalled \subseteq Conn
  /\ term \subseteq Conn /\ busy \subseteq Conn
  /\ held \in [Call -> {"none", "live", "left", "null"}]
  /\ ranExec \in [Call -> 0 .. 2] /\ ranCli \in [Call -> 0 .. 1]

ExecInit ==
  /\ LifecycleInit /\ active = NoConn
  /\ override = [c \in Conn |-> "none"] /\ resource = [c \in Conn |-> "none"]
  /\ global = "standard" /\ allow = {}
  /\ pc = [k \in Call |-> "idle"] /\ target = [k \in Call |-> NoConn]
  /\ released = {} /\ retried = {}
  /\ voucher = [k \in Call |-> NoConn] /\ allowed = [k \in Call |-> NoConn]
  /\ shell = [c \in Conn |-> "unknown"] /\ probing = {} /\ stalled = {}
  /\ term = {} /\ busy = {} /\ held = [k \in Call |-> "none"]
  /\ ranExec = [k \in Call |-> 0] /\ ranCli = [k \in Call |-> 0]

-----------------------------------------------------------------------------
(* The connections map, and resolveConnection without an id.               *)
Known == {c \in Conn : status[c] \in {"connecting", "up", "down"}}

Resolved ==
  IF active \in Known THEN active
  ELSE IF Cardinality(Known) = 1 THEN CHOOSE c \in Known : TRUE ELSE NoConn

(* session switch > resource field > global setting                        *)
ResolveExecPolicy(c) ==
  IF override[c] # "none" THEN override[c]
  ELSE IF resource[c] # "none" THEN resource[c] ELSE global

(* assessShellCommand                                                      *)
Passes(kind, tier) ==
  \/ kind = "safe" \/ tier = "allowAll"
  \/ tier = "custom" /\ kind \in allow

CallsOn(c, S) == {k \in Call : target[k] = c /\ pc[k] \in S}

(* consumeOperatorApproval: a voucher counts only on its own connection.   *)
HasGrant(k, c) == c \in Conn /\ voucher[k] # NoConn \* faulty variant
Granted(k, c) == voucher[k] = c

(* runPreparedExec up to its next await: the reconnect, the probe of the   *)
(* login shell, or the answer to the exec request.                         *)
AfterAlive(c) == IF shell[c] = "unknown" THEN "probe" ELSE "exec"
AtStart(c) == IF status[c] = "up" THEN AfterAlive(c) ELSE "wait"

StartProbe(c, next) == probing' = IF next = "probe" THEN probing \union {c} ELSE probing

(* cliExecOnConnection and cliExecOnSession: no terminal, a query already  *)
(* running, a refused command or an unrecognised prompt end the call; else *)
(* the command is typed and the prompt awaited.                            *)
CliFreeAnyway(c) == c \in term \* faulty variant
CliFree(c) == c \in term /\ c \notin busy

CliStart(k, c) ==
  \/ /\ pc' = [pc EXCEPT ![k] = "error"]
     /\ UNCHANGED <<busy, held, ranCli>>
  \/ /\ CliFree(c)
     /\ pc' = [pc EXCEPT ![k] = "cli"]
     /\ busy' = busy \union {c}
     /\ held' = [held EXCEPT ![k] = "live"]
     /\ ranCli' = [ranCli EXCEPT ![k] = @ + 1]

-----------------------------------------------------------------------------
(* tools/pre-execute: a call the policy blocks is suspended on the host's  *)
(* approval channel; everything else goes on to the tool body.             *)
Gate(k) ==
  /\ pc[k] = "idle"
  /\ target' = [target EXCEPT ![k] = Resolved]
  /\ pc' = [pc EXCEPT ![k] =
       IF Resolved # NoConn /\ ~Passes(Kind[k], ResolveExecPolicy(Resolved))
       THEN "asked" ELSE "body"]
  /\ UNCHANGED <<status, active, policyVars, released, retried, grantVars, shellVars, cliVars, ranVars>>

(* The operator answers; a yes records the voucher for what was shown.     *)
Approve(k) ==
  /\ pc[k] = "asked"
  /\ voucher' = [voucher EXCEPT ![k] = target[k]]
  /\ allowed' = [allowed EXCEPT ![k] = target[k]]
  /\ pc' = [pc EXCEPT ![k] = "body"]
  /\ UNCHANGED <<status, active, policyVars, target, released, retried, shellVars, cliVars, ranVars>>

Deny(k) ==
  /\ pc[k] = "asked"
  /\ pc' = [pc EXCEPT ![k] = "denied"]
  /\ UNCHANGED <<status, active, policyVars, target, released, retried, grantVars,
                 shellVars, cliVars, ranVars>>

VoucherExpires(k) ==
  /\ voucher[k] # NoConn
  /\ voucher' = [voucher EXCEPT ![k] = NoConn]
  /\ UNCHANGED <<status, active, policyVars, pc, target, released, retried, allowed,
                 shellVars, cliVars, ranVars>>

(* executeCommand and execOnConnection: the target and the policy are read *)
(* again, and a blocked call needs its voucher, used up whether it fits or *)
(* not.  An approved simple delete runs as a trash move, which never takes *)
(* the terminal route.                                                     *)
Body(k) ==
  LET c == Resolved
      open == Passes(Kind[k], ResolveExecPolicy(c))
      trash == ~open /\ Kind[k] = "delete"
  IN /\ pc[k] = "body"
     /\ target' = [target EXCEPT ![k] = c]
     /\ \/ /\ c = NoConn
           /\ pc' = [pc EXCEPT ![k] = "error"]
           /\ UNCHANGED <<released, voucher, probing, busy, held, ranCli>>
        \/ /\ c # NoConn /\ ~open /\ ~Granted(k, c)
           /\ pc' = [pc EXCEPT ![k] = "blocked"]
           /\ voucher' = [voucher EXCEPT ![k] = NoConn]
           /\ UNCHANGED <<released, probing, busy, held, ranCli>>
        \/ /\ c # NoConn /\ (open \/ Granted(k, c))
           /\ released' = IF open THEN released \union {k} ELSE released
           /\ voucher' = IF open THEN voucher ELSE [voucher EXCEPT ![k] = NoConn]
           /\ IF ~trash /\ c \in stalled /\ shell[c] # "posix"
              THEN CliStart(k, c) /\ UNCHANGED probing
              ELSE /\ pc' = [pc EXCEPT ![k] = AtStart(c)]
                   /\ StartProbe(c, AtStart(c))
                   /\ UNCHANGED <<busy, held, ranCli>>
     /\ UNCHANGED <<status, active, policyVars, retried, allowed, shell, stalled, term, ranExec>>

IsTrash(k) == Kind[k] = "delete" /\ k \notin released

(* ensureAlive gave up.                                                    *)
WaitTimesOut(k) ==
  /\ pc[k] = "wait"
  /\ pc' = [pc EXCEPT ![k] = "error"]
  /\ UNCHANGED <<status, active, policyVars, target, released, retried, grantVars,
                 shellVars, cliVars, ranVars>>

(* resolveLoginShell: the probe answered a POSIX shell, answered nothing,  *)
(* timed out without a byte, or was refused; every call waiting for it     *)
(* sends its own exec request.                                             *)
ProbeEnds(c) ==
  /\ c \in probing /\ status[c] = "up"
  /\ probing' = probing \ {c}
  /\ \/ /\ c \in Posix
        /\ shell' = [shell EXCEPT ![c] = "posix"] /\ stalled' = stalled \ {c}
     \/ /\ c \notin Posix
        /\ shell' = [shell EXCEPT ![c] = "null"] /\ stalled' \in {stalled, stalled \union {c}}
     \/ UNCHANGED <<shell, stalled>>
  /\ pc' = [k \in Call |-> IF k \in CallsOn(c, {"probe"}) THEN "exec" ELSE pc[k]]
  /\ UNCHANGED <<status, active, policyVars, target, released, retried, grantVars, cliVars, ranVars>>

-----------------------------------------------------------------------------
(* collectExecOutput.  The server starts the command when the request      *)
(* reaches it, before the reply that opens the channel for the caller.     *)
ServerStarts(k) ==
  /\ pc[k] = "exec" /\ status[target[k]] = "up"
  /\ pc' = [pc EXCEPT ![k] = "started"]
  /\ ranExec' = [ranExec EXCEPT ![k] = @ + 1]
  /\ UNCHANGED <<status, active, policyVars, target, released, retried, grantVars,
                 shellVars, cliVars, ranCli>>

ExecRefused(k) ==
  /\ pc[k] = "exec" /\ status[target[k]] = "up"
  /\ pc' = [pc EXCEPT ![k] = "error"]
  /\ UNCHANGED <<status, active, policyVars, target, released, retried, grantVars,
                 shellVars, cliVars, ranVars>>

ChannelOpens(k) ==
  /\ pc[k] = "started" /\ status[target[k]] = "up"
  /\ pc' = [pc EXCEPT ![k] = "running"]
  /\ UNCHANGED <<status, active, policyVars, target, released, retried, grantVars,
                 shellVars, cliVars, ranVars>>

(* The channel closes by itself: proof that the host has an exec channel.  *)
Finishes(k) ==
  /\ pc[k] = "running"
  /\ pc' = [pc EXCEPT ![k] = "done"]
  /\ stalled' = IF IsTrash(k) THEN stalled ELSE stalled \ {target[k]}
  /\ UNCHANGED <<status, active, policyVars, target, released, retried, grantVars,
                 shell, probing, cliVars, ranVars>>

(* The timeout settles the call locally.  A silent one on a host whose     *)
(* probe came back empty marks the host and types the command instead.     *)
\* Faulty variant: the timeout waits for the channel to close.
TimesOutOnClose(k) ==
  /\ pc[k] = "running" /\ status[target[k]] = "closed"
  /\ pc' = [pc EXCEPT ![k] = "done"]
  /\ UNCHANGED <<status, active, policyVars, target, released, retried, grantVars,
                 shellVars, cliVars, ranVars>>
TimesOut(k) ==
  LET c == target[k]
  IN /\ pc[k] = "running"
     /\ \/ /\ pc' = [pc EXCEPT ![k] = "done"]
           /\ UNCHANGED <<stalled, busy, held, ranCli>>
        \/ /\ ~IsTrash(k) /\ shell[c] = "null"
           /\ stalled' = stalled \union {c}
           /\ CliStart(k, c)
     /\ UNCHANGED <<status, active, policyVars, target, released, retried, grantVars,
                    shell, probing, term, ranExec>>

(* The prompt returned or the deadline passed.  The finally block first    *)
(* takes its listener off session.stream: when the transport loss has set  *)
(* that to null this throws, and cliBusy is not reset.                     *)
CliEnds(k) ==
  /\ pc[k] = "cli"
  /\ \/ held[k] = "null" /\ pc' = [pc EXCEPT ![k] = "error"] /\ UNCHANGED busy
     \/ held[k] # "null" /\ pc' = [pc EXCEPT ![k] = "done"] /\ busy' = busy \ {target[k]}
  /\ held' = [held EXCEPT ![k] = "none"]
  /\ UNCHANGED <<status, active, policyVars, target, released, retried, grantVars,
                 shellVars, term, ranVars>>

-----------------------------------------------------------------------------
(* The connection under the calls.                                         *)
Connect(c) ==
  /\ Opens(c)
  /\ UNCHANGED <<active, policyVars, pc, target, released, retried, grantVars,
                 shellVars, cliVars, ranVars>>

(* A first connect makes its connection the target; a reconnect releases   *)
(* the calls that wait for it.                                             *)
Up(c) ==
  /\ ComesUp(c)
  /\ \/ /\ status[c] = "connecting" /\ active' = c
        /\ UNCHANGED <<pc, probing>>
     \/ /\ status[c] = "down" /\ UNCHANGED active
        /\ pc' = [k \in Call |-> IF k \in CallsOn(c, {"wait"}) THEN AfterAlive(c) ELSE pc[k]]
        /\ probing' = IF CallsOn(c, {"wait"}) = {} THEN probing
                      ELSE IF shell[c] = "unknown" THEN probing \union {c} ELSE probing
  /\ UNCHANGED <<policyVars, target, released, retried, grantVars, shell, stalled, cliVars, ranVars>>

(* Whether runPreparedExec may send again: only commands that the standard *)
(* tier lets through, and only once.                                       *)
RetriesForever(k) == Kind[k] = "safe" \* faulty variant
RetriesAll(k) == k \notin retried \* faulty variant
Retryable(k) == Kind[k] = "safe" /\ k \notin retried

(* handleTransportLoss, with what the closing channels tell their calls:   *)
(* one that is running settles without an exit code, one whose request is  *)
(* open is sent again or fails.  A probe whose channel was open ends with  *)
(* empty output.                                                           *)
Down(c) ==
  LET cut == CallsOn(c, {"probe", "exec", "started"})
      again == {k \in cut : Retryable(k)}
      cutRunning == CallsOn(c, {"running"})
  IN /\ Drops(c)
     /\ override' = [override EXCEPT ![c] = "none"]
     /\ pc' = [k \in Call |-> IF k \in again THEN "wait" ELSE IF k \in cut THEN "error"
                              ELSE IF k \in cutRunning THEN "done" ELSE pc[k]]
     /\ retried' = retried \union again
     /\ \/ c \in probing /\ shell' = [shell EXCEPT ![c] = "null"]
        \/ UNCHANGED shell
     /\ probing' = probing \ {c}
     /\ stalled' = IF \E k \in cutRunning : ~IsTrash(k) THEN stalled \ {c} ELSE stalled
     /\ term' = term \ {c}
     /\ held' = [k \in Call |-> IF target[k] = c /\ held[k] = "live" THEN "null" ELSE held[k]]
     /\ UNCHANGED <<active, resource, global, allow, target, released, grantVars, busy, ranVars>>

(* disconnect, or a first connect that fails.                              *)
Closed(c) ==
  /\ CloseAll({c})
  /\ active' = IF active = c THEN NoConn ELSE active
  /\ pc' = [k \in Call |-> IF k \in CallsOn(c, {"probe", "exec", "started"}) THEN "error"
                           ELSE IF k \in CallsOn(c, {"running"}) THEN "done" ELSE pc[k]]
  /\ probing' = probing \ {c}
  /\ term' = term \ {c}
  /\ UNCHANGED <<policyVars, target, released, retried, grantVars, shell, stalled, busy, held, ranVars>>

(* The operator: terminals, the target, the three policy layers.           *)
TermOpens(c) ==
  /\ status[c] = "up" /\ term' = term \union {c} /\ active' = c
  /\ UNCHANGED <<status, policyVars, pc, target, released, retried, grantVars,
                 shellVars, busy, held, ranVars>>

TermCloses(c) ==
  /\ c \in term /\ term' = term \ {c}
  /\ held' = [k \in Call |-> IF target[k] = c /\ held[k] = "live" THEN "left" ELSE held[k]]
  /\ UNCHANGED <<status, active, policyVars, pc, target, released, retried, grantVars,
                 shellVars, busy, ranVars>>

SelectConnection(c) ==
  /\ status[c] = "up" /\ active' = c
  /\ UNCHANGED <<status, policyVars, pc, target, released, retried, grantVars,
                 shellVars, cliVars, ranVars>>

SetPolicy ==
  /\ \/ \E c \in Known, t \in Tiers :
          override' = [override EXCEPT ![c] = t] /\ UNCHANGED <<resource, global, allow>>
     \/ \E c \in Conn, t \in Tiers \union {"none"} :
          resource' = [resource EXCEPT ![c] = t] /\ UNCHANGED <<override, global, allow>>
     \/ \E t \in Tiers, a \in Allows :
          global' = t /\ allow' = a /\ UNCHANGED <<override, resource>>
  /\ UNCHANGED <<status, active, pc, target, released, retried, grantVars,
                 shellVars, cliVars, ranVars>>

-----------------------------------------------------------------------------
CallStep(k) ==
  \/ Gate(k) \/ Approve(k) \/ Deny(k) \/ VoucherExpires(k) \/ Body(k) \/ WaitTimesOut(k)
  \/ ServerStarts(k) \/ ExecRefused(k) \/ ChannelOpens(k) \/ Finishes(k) \/ TimesOut(k)
  \/ CliEnds(k)

ConnStep(c) ==
  \/ Connect(c) \/ Up(c) \/ Down(c) \/ Closed(c) \/ ProbeEnds(c)
  \/ TermOpens(c) \/ TermCloses(c) \/ SelectConnection(c)

ExecNext ==
  \/ \E k \in Call : CallStep(k)
  \/ \E c \in Conn : ConnStep(c)
  \/ SetPolicy

ExecSpec == ExecInit /\ [][ExecNext]_execVars

(* Timers fire, the tool body runs, and servers answer exec requests; how  *)
(* long the operator thinks is nobody's promise.                           *)
FairExecSpec ==
  /\ ExecSpec
  /\ \A c \in Conn : WF_execVars(ProbeEnds(c))
  /\ \A k \in Call :
       /\ WF_execVars(Body(k)) /\ WF_execVars(WaitTimesOut(k))
       /\ WF_execVars(ServerStarts(k) \/ ExecRefused(k)) /\ WF_execVars(ChannelOpens(k))
       /\ WF_execVars(TimesOut(k)) /\ WF_execVars(CliEnds(k))

-----------------------------------------------------------------------------
(* A blocked command reaches a server only if the operator said yes to this*)
(* call on this very connection, although target and policy may change     *)
(* while the operator decides and the reconnect is awaited.                *)
OnlyWhereAllowed ==
  \A k \in Call : Kind[k] # "safe" /\ ranExec[k] + ranCli[k] > 0 =>
    k \in released \/ allowed[k] = target[k]

(* A command that could do harm is sent over the exec channel once, however*)
(* its transport dies; a harmless one is sent once more.                   *)
HarmIsNotReplayed ==
  \A k \in Call : Kind[k] # "safe" => ranExec[k] <= 1

(* One CLI query per connection at a time: the echo and the prompt of two  *)
(* queries would be taken for each other's output.                         *)
SingleQuery ==
  \A k, l \in Call : pc[k] = "cli" /\ pc[l] = "cli" /\ target[k] = target[l] => k = l

(* A call that reached the tool body ends, on every path through           *)
(* reconnect, probe, channel and terminal.                                 *)
ExecEnds(k) == pc[k] \in Pending ~> pc[k] \in Ended

(* One grant dispatches a dangerous command once (runPreparedExec).        *)
GrantDispatchesOnce ==
  \A k \in Call : Kind[k] # "safe" => ranExec[k] + ranCli[k] <= 1
=============================================================================
