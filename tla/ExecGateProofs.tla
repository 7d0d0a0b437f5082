--------------------------- MODULE ExecGateProofs ---------------------------
(***************************************************************************)
(* Proofs about ExecGate, for any number of connections and calls, any     *)
(* mixture of commands and any policy: a dangerous command runs only where *)
(* the operator allowed it, is never replayed over the exec channel, and   *)
(* CLI queries never overlap.                                              *)
(***************************************************************************)
EXTENDS ExecGate, FiniteSetTheorems, TLAPS

-----------------------------------------------------------------------------
(* The inductive invariant, per call.  Before the body has run nothing was *)
(* sent and nothing released; a call that sends has its release or its     *)
(* yes; a voucher stands for a yes; and the number of sends is bounded by  *)
(* where the call is and whether it is in its retry.                       *)
Before   == {"idle", "asked", "body"}
Sending  == {"wait", "probe", "exec", "started", "running", "cli"}

Unsent(k)   == pc[k] \in Before => ranExec[k] = 0 /\ ranCli[k] = 0 /\ k \notin retried
Entitled(k) == Kind[k] = "safe" \/ k \in released \/ allowed[k] = target[k]
SendsWithRight(k) == pc[k] \in Sending \/ ranExec[k] + ranCli[k] > 0 => Entitled(k)
VoucherIsYes(k)   == voucher[k] # NoConn => voucher[k] = allowed[k]
RetriesAreSafe(k) == k \in retried => Kind[k] = "safe"
Sends(k)          == IF k \in retried THEN 2 ELSE 1
Budget(k) ==
  /\ pc[k] \in {"wait", "probe", "exec"} => ranCli[k] = 0 /\ ranExec[k] + 1 <= Sends(k)
  /\ pc[k] \in {"started", "running"} => ranCli[k] = 0
  /\ ranExec[k] <= Sends(k)

CallInv(k) ==
  /\ Unsent(k) /\ SendsWithRight(k) /\ VoucherIsYes(k) /\ RetriesAreSafe(k) /\ Budget(k)
  /\ pc[k] \in Sending => target[k] \in Conn
  /\ pc[k] = "asked" => target[k] \in Conn

(* A call that types into a terminal has marked it busy, alone.            *)
QueryInv ==
  /\ SingleQuery
  /\ \A k \in Call : pc[k] = "cli" => target[k] \in busy

ExecInv == ExecTypeOK /\ (\A k \in Call : CallInv(k)) /\ QueryInv

(* resolveConnection answers a record of the plugin or nothing.            *)
LEMMA ResolvedType == Resolved \in Conn \union {NoConn}
<1>1. CASE active \in Known
  BY <1>1 DEF Resolved, Known
<1>2. CASE active \notin Known /\ Cardinality(Known) = 1 /\ Known # {}
  BY <1>2 DEF Resolved, Known
<1>3. CASE active \notin Known /\ Known = {}
  BY <1>3, FS_EmptySet DEF Resolved
<1>4. CASE active \notin Known /\ Cardinality(Known) # 1
  BY <1>4 DEF Resolved
<1>5. QED
  BY <1>1, <1>2, <1>3, <1>4

-----------------------------------------------------------------------------
(* One step of a call.                                                     *)
LEMMA CallStepType ==
  ASSUME ExecInv, NEW k \in Call, CallStep(k)
  PROVE  ExecTypeOK'
<1> USE ExecAssumption DEF ExecTypeOK, Pending, Ended, Statuses, policyVars, grantVars, shellVars, cliVars, ranVars
<1> ExecTypeOK /\ CallInv(k)
  BY DEF ExecInv
<1>1. CASE Gate(k)
  BY <1>1, ResolvedType DEF Gate
<1>2. CASE Approve(k)
  BY <1>2 DEF Approve
<1>3. CASE Deny(k)
  BY <1>3 DEF Deny
<1>4. CASE VoucherExpires(k)
  BY <1>4 DEF VoucherExpires
<1>5. CASE Body(k)
  BY <1>5, ResolvedType DEF Body, CliStart, CliFree, StartProbe, AtStart, AfterAlive, CallInv, Unsent, Before
<1>6. CASE WaitTimesOut(k)
  BY <1>6 DEF WaitTimesOut
<1>7. CASE ServerStarts(k)
  BY <1>7 DEF ServerStarts, CallInv, Budget, Sends
<1>8. CASE ExecRefused(k)
  BY <1>8 DEF ExecRefused
<1>9. CASE ChannelOpens(k)
  BY <1>9 DEF ChannelOpens
<1>10. CASE Finishes(k)
  BY <1>10 DEF Finishes
<1>11. CASE TimesOut(k)
  BY <1>11 DEF TimesOut, CliStart, CliFree, CallInv, Budget, Sending
<1>12. CASE CliEnds(k)
  BY <1>12 DEF CliEnds
<1>13. QED
  BY <1>1, <1>2, <1>3, <1>4, <1>5, <1>6, <1>7, <1>8, <1>9, <1>10, <1>11, <1>12 DEF CallStep
LEMMA CallStepCalls ==
  ASSUME ExecInv, NEW k \in Call, CallStep(k), NEW l \in Call
  PROVE  CallInv(l)'
<1> USE ExecAssumption DEF CallInv, Unsent, Entitled, SendsWithRight, VoucherIsYes, RetriesAreSafe, Sends,
        Budget, Before, Sending, policyVars, grantVars, shellVars, cliVars, ranVars
<1> /\ CallInv(l) /\ CallInv(k)
    /\ ranExec \in [Call -> 0 .. 2] /\ ranCli \in [Call -> 0 .. 1]
    /\ pc \in [Call -> {"idle", "asked"} \union Pending \union Ended]
    /\ target \in [Call -> Conn \union {NoConn}]
    /\ voucher \in [Call -> Conn \union {NoConn}] /\ allowed \in [Call -> Conn \union {NoConn}]
  BY DEF ExecInv, ExecTypeOK
<1>1. CASE Gate(k)
  BY <1>1, ResolvedType DEF Gate
<1>2. CASE Approve(k)
  BY <1>2 DEF Approve
<1>3. CASE Deny(k)
  BY <1>3 DEF Deny
<1>4. CASE VoucherExpires(k)
  BY <1>4 DEF VoucherExpires
<1>5. CASE Body(k)
  BY <1>5, ResolvedType DEF Body, CliStart, CliFree, Granted, StartProbe, AtStart, AfterAlive
<1>6. CASE WaitTimesOut(k)
  BY <1>6 DEF WaitTimesOut
<1>7. CASE ServerStarts(k)
  BY <1>7 DEF ServerStarts
<1>8. CASE ExecRefused(k)
  BY <1>8 DEF ExecRefused
<1>9. CASE ChannelOpens(k)
  BY <1>9 DEF ChannelOpens
<1>10. CASE Finishes(k)
  BY <1>10 DEF Finishes
<1>11. CASE TimesOut(k)
  BY <1>11 DEF TimesOut, CliStart, CliFree
<1>12. CASE CliEnds(k)
  BY <1>12 DEF CliEnds
<1>13. QED
  BY <1>1, <1>2, <1>3, <1>4, <1>5, <1>6, <1>7, <1>8, <1>9, <1>10, <1>11, <1>12 DEF CallStep

LEMMA CallStepQueries ==
  ASSUME ExecInv, NEW k \in Call, CallStep(k)
  PROVE  QueryInv'
<1> USE DEF QueryInv, SingleQuery, policyVars, grantVars, shellVars, cliVars, ranVars
<1> /\ QueryInv
    /\ pc \in [Call -> {"idle", "asked"} \union Pending \union Ended]
    /\ target \in [Call -> Conn \union {NoConn}]
  BY DEF ExecInv, ExecTypeOK
<1>1. CASE Gate(k)
  BY <1>1, ResolvedType DEF Gate
<1>2. CASE Approve(k)
  BY <1>2 DEF Approve
<1>3. CASE Deny(k)
  BY <1>3 DEF Deny
<1>4. CASE VoucherExpires(k)
  BY <1>4 DEF VoucherExpires
<1>5. CASE Body(k)
  BY <1>5, ResolvedType DEF Body, CliStart, CliFree, Granted, StartProbe, AtStart, AfterAlive
<1>6. CASE WaitTimesOut(k)
  BY <1>6 DEF WaitTimesOut
<1>7. CASE ServerStarts(k)
  BY <1>7 DEF ServerStarts
<1>8. CASE ExecRefused(k)
  BY <1>8 DEF ExecRefused
<1>9. CASE ChannelOpens(k)
  BY <1>9 DEF ChannelOpens
<1>10. CASE Finishes(k)
  BY <1>10 DEF Finishes
<1>11. CASE TimesOut(k)
  BY <1>11 DEF TimesOut, CliStart, CliFree
<1>12. CASE CliEnds(k)
  BY <1>12 DEF CliEnds
<1>13. QED
  BY <1>1, <1>2, <1>3, <1>4, <1>5, <1>6, <1>7, <1>8, <1>9, <1>10, <1>11, <1>12 DEF CallStep

-----------------------------------------------------------------------------
(* One step of a connection.                                               *)
LEMMA ConnStepType ==
  ASSUME ExecInv, NEW c \in Conn, ConnStep(c)
  PROVE  ExecTypeOK'
<1> USE ExecAssumption DEF ExecTypeOK, Pending, Ended, Statuses, policyVars, grantVars, shellVars, cliVars, ranVars
<1> ExecTypeOK
  BY DEF ExecInv
<1>1. CASE Connect(c)
  BY <1>1 DEF Connect, Opens
<1>2. CASE Up(c)
  BY <1>2 DEF Up, ComesUp, AfterAlive, CallsOn
<1>3. CASE Down(c)
  BY <1>3 DEF Down, Drops, CallsOn, Retryable
<1>4. CASE Closed(c)
  BY <1>4 DEF Closed, CloseAll, CallsOn
<1>5. CASE ProbeEnds(c)
  BY <1>5 DEF ProbeEnds, CallsOn
<1>6. CASE TermOpens(c)
  BY <1>6 DEF TermOpens
<1>7. CASE TermCloses(c)
  BY <1>7 DEF TermCloses
<1>8. CASE SelectConnection(c)
  BY <1>8 DEF SelectConnection
<1>9. QED
  BY <1>1, <1>2, <1>3, <1>4, <1>5, <1>6, <1>7, <1>8 DEF ConnStep

LEMMA ConnStepCalls ==
  ASSUME ExecInv, NEW c \in Conn, ConnStep(c), NEW l \in Call
  PROVE  CallInv(l)'
<1> USE DEF CallInv, Unsent, Entitled, SendsWithRight, VoucherIsYes, RetriesAreSafe, Sends,
        Budget, Before, Sending, policyVars, grantVars, shellVars, cliVars, ranVars
<1> /\ CallInv(l)
    /\ ranExec \in [Call -> 0 .. 2] /\ ranCli \in [Call -> 0 .. 1]
    /\ pc \in [Call -> {"idle", "asked"} \union Pending \union Ended]
    /\ retried \subseteq Call
  BY DEF ExecInv, ExecTypeOK
<1>1. CASE Connect(c)
  BY <1>1 DEF Connect, Opens
<1>2. CASE Up(c)
  BY <1>2 DEF Up, ComesUp, AfterAlive, CallsOn
<1>3. CASE Down(c)
  BY <1>3 DEF Down, Drops, CallsOn, Retryable
<1>4. CASE Closed(c)
  BY <1>4 DEF Closed, CloseAll, CallsOn
<1>5. CASE ProbeEnds(c)
  BY <1>5 DEF ProbeEnds, CallsOn
<1>6. CASE TermOpens(c)
  BY <1>6 DEF TermOpens
<1>7. CASE TermCloses(c)
  BY <1>7 DEF TermCloses
<1>8. CASE SelectConnection(c)
  BY <1>8 DEF SelectConnection
<1>9. QED
  BY <1>1, <1>2, <1>3, <1>4, <1>5, <1>6, <1>7, <1>8 DEF ConnStep

LEMMA ConnStepQueries ==
  ASSUME ExecInv, NEW c \in Conn, ConnStep(c)
  PROVE  QueryInv'
<1> USE DEF QueryInv, SingleQuery, policyVars, grantVars, shellVars, cliVars, ranVars
<1> /\ QueryInv
    /\ pc \in [Call -> {"idle", "asked"} \union Pending \union Ended]
  BY DEF ExecInv, ExecTypeOK
<1>1. CASE Connect(c)
  BY <1>1 DEF Connect, Opens
<1>2. CASE Up(c)
  BY <1>2 DEF Up, ComesUp, AfterAlive, CallsOn
<1>3. CASE Down(c)
  BY <1>3 DEF Down, Drops, CallsOn, Retryable
<1>4. CASE Closed(c)
  BY <1>4 DEF Closed, CloseAll, CallsOn
<1>5. CASE ProbeEnds(c)
  BY <1>5 DEF ProbeEnds, CallsOn
<1>6. CASE TermOpens(c)
  BY <1>6 DEF TermOpens
<1>7. CASE TermCloses(c)
  BY <1>7 DEF TermCloses
<1>8. CASE SelectConnection(c)
  BY <1>8 DEF SelectConnection
<1>9. QED
  BY <1>1, <1>2, <1>3, <1>4, <1>5, <1>6, <1>7, <1>8 DEF ConnStep

-----------------------------------------------------------------------------
(* The three parts together are inductive: no interleaving of calls,       *)
(* connection losses, reconnects, policy switches and expiring vouchers    *)
(* leaves them.                                                            *)
THEOREM ExecInvariant == ExecSpec => []ExecInv
<1>1. ExecInit => ExecInv
  BY ExecAssumption DEF ExecInit, LifecycleInit, ExecInv, ExecTypeOK, QueryInv, SingleQuery, CallInv, Unsent,
     Entitled, SendsWithRight, VoucherIsYes, RetriesAreSafe, Sends, Budget, Before, Sending, Statuses
<1>2. ExecInv /\ [ExecNext]_execVars => ExecInv'
  <2> SUFFICES ASSUME ExecInv, [ExecNext]_execVars PROVE ExecInv'
    OBVIOUS
  <2>1. CASE \E k \in Call : CallStep(k)
    BY <2>1, CallStepType, CallStepCalls, CallStepQueries DEF ExecInv
  <2>2. CASE \E c \in Conn : ConnStep(c)
    BY <2>2, ConnStepType, ConnStepCalls, ConnStepQueries DEF ExecInv
  <2>3. CASE SetPolicy
    BY <2>3 DEF SetPolicy, grantVars, shellVars, cliVars, ranVars, ExecInv, ExecTypeOK, QueryInv,
       SingleQuery, CallInv, Unsent, Entitled, SendsWithRight, VoucherIsYes, RetriesAreSafe, Sends, Budget
  <2>4. CASE UNCHANGED execVars
    BY <2>4 DEF execVars, policyVars, grantVars, shellVars, cliVars, ranVars, ExecInv, ExecTypeOK, QueryInv,
       SingleQuery, CallInv, Unsent, Entitled, SendsWithRight, VoucherIsYes, RetriesAreSafe, Sends, Budget
  <2>5. QED
    BY <2>1, <2>2, <2>3, <2>4 DEF ExecNext
<1>3. QED
  BY <1>1, <1>2, PTL DEF ExecSpec

(* Every variable keeps its type and every command its send budget.        *)
THEOREM ExecTypeCorrect == ExecSpec => []ExecTypeOK
<1>1. ExecInv => ExecTypeOK
  BY DEF ExecInv
<1>2. QED
  BY <1>1, ExecInvariant, PTL

(* A blocked command runs only on the connection the operator approved,    *)
(* whatever the agent's target and the policy did in between               *)
(* (consumeOperatorApproval, runPreparedExec).                             *)
THEOREM BlockedRunsOnlyWhereAllowed == ExecSpec => []OnlyWhereAllowed
<1>1. ExecInv => OnlyWhereAllowed
  BY DEF ExecInv, CallInv, SendsWithRight, Entitled, OnlyWhereAllowed
<1>2. QED
  BY <1>1, ExecInvariant, PTL

(* A command the standard tier would block is never replayed after a       *)
(* transport loss (runPreparedExec).                                       *)
THEOREM DangerIsNotReplayed == ExecSpec => []HarmIsNotReplayed
<1>1. ExecInv => HarmIsNotReplayed
  BY DEF ExecInv, CallInv, RetriesAreSafe, Budget, Sends, HarmIsNotReplayed
<1>2. QED
  BY <1>1, ExecInvariant, PTL

(* cliBusy keeps the queries of a connection apart, however reconnects and *)
(* failing cleanups interleave (cliExecOnConnection, cliExecOnSession).    *)
THEOREM QueriesNeverOverlap == ExecSpec => []SingleQuery
<1>1. ExecInv => SingleQuery
  BY DEF ExecInv, QueryInv
<1>2. QED
  BY <1>1, ExecInvariant, PTL
=============================================================================
