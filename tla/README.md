# A TLA+ verification of dsh-ssh-ops

dsh-ssh-ops is a plugin that gives a desktop shell and its agent SSH terminals,
command execution, SFTP, port forwards and database access. Nearly all of its
behaviour lives in one service class (`src/index.js`, `SshOpsService`) that runs
on a single JavaScript thread: what makes it hard is not parallel code but the
many `await`s at which another request, a timer, an ssh2 event or a loss of the
transport can come in between. The models therefore take as one step the code
between two suspension points, and let everything else interleave there.

## 1. Inventory

| Part | State it keeps | Operations | What is hard | What must hold |
|---|---|---|---|---|
| SSH transport (`index.js` 1140-1800, 2080-2100, 2952) | `connections` map; per record `dead`, `closing`, `connecting`, `reconnectTimer`, `client`, one-shot fallbacks, `reconnectWaiters` | connect, jump chain, handshake fallbacks, loss, reconnect with backoff, disconnect, cancel, `ensureAlive` | events of replaced clients, disconnect during any await, waiters racing their 30 s limit | one attempt at a time; a dead record is always tended; stale events are harmless; a closed record stays down; answers of `ensureAlive` are true and always come |
| Login and banner (`ssh-auth.js`, `ssh-banner.js`) | the walk over methods, its evidence per record; a paused socket | offer, restart after a partial success, diagnose; read, repair and replay the identification line | servers that want several factors or cut the transport; bytes that come with the banner | every held method is offered, the walk ends, the diagnosis is the server's last word; ssh2 gets all bytes in order |
| Sessions, forwards, SFTP channel, active connection (2460-2575, 2940-2985, 3714-3761, 5040-5340, 5498-5520; `socks5.js`) | `sessions`, `conn.sessions`, `exitedSessions`, `conn.tunnels`, `conn.sftp`, `activeConnectionId` | open/close terminal, start/stop tunnel, SOCKS front, `requireSftp`, select and resolve the target | requests pending when the transport drops; exit, close, loss and disconnect of one session in any order | the two session maps agree; nothing outlives its transport; an exit is remembered; a listener has an owner |
| Command execution and approval (2202-2268, 2832-2846, 3204-3572, `tools/`) | policy per resource and per record, vouchers, `loginShell`, `cliBusy` | gate, approval, tool body, probe, exec with one retry, timeout, CLI route | target, policy and transport change between the gate and the body; was a lost request executed? | a blocked command runs only where it was approved; a harmful one is not replayed; two queries never share a prompt |
| Terminal input (`terminal-input.js`, `shell-integration.js`, 2580-2676, 3605-3707) | input mirror and revision, OSC 133 tracker, capture of `ssh_read` | write gate, `changeDirectory`, `enableShellIntegration`, read new output | the prompt state is a guess; output is cut anywhere; the operator types meanwhile | no agent line lands in a program or on another line; markers are the terminal's; reads are complete or say so |
| Terminal output (`terminal-output.js`, 2678-2821, 5445-5545, `SshPanel.jsx`) | bounded journal, destructive buffer, waiters, stream listeners | append, read, stream, wake | output or exit arriving while a stream is suspended | no sleep over output; an end comes after all output |
| Streaming uploads (3940-4043, 4116-4275) | `streamUploads`, handler flags, a partial file | PUT, cancel, sweep | client, write stream and SSH connection end in any order while a stat or rename is awaited | partials are removed or reported; ok means committed; no handler outlives its connection |
| Downloads, archives, SCP (`client/stream-download.js`, `download-checkpoints.js`, `scp.js`, 4277-4491) | checkpoint and its lock, digest, channel and response | begin, resume, verify, write; pipe; source and sink | the file changes between resumes; channels close in the middle | one whole content or none; an answer of success is true |
| Resumable uploads (`transfer-tasks.js`, 4718-4862) | tasks, `ownedIds`, `removedIds`, `writeQueue`; journal and lock file shared by processes | start, resume, claim, transfer, commit, discard, load, persist, unload | processes contend, crash with the lock or a claim, tasks move while the journal is written | one writer per partial; no partial without a journal entry; nobody waits forever |
| Block pipeline (`sftp-pipeline.js`), directories (`sftp-dir.js`) | launched, acknowledged and committed blocks; lanes of files | open, read, write, acknowledge, abort, close; check, move, commit, clean | acknowledgements out of order, replies after the end; links that move | the checkpoint is on the server; success is complete; nothing is sent after the close; counts are true |
| Editor save and trash (`sftp-editor-save.js`, `client/file-editor.js`, `trash.js`), file panel (`client/SshFiles.jsx`) | version read, backups; trash and manifest; listing, search | open, save; move, restore, purge; navigate, search, switch | several remote steps, one fails or another runs beside it; answers out of order | the version replaced is the one read, and backed up; what is trashed can come back; the panel shows what was asked last |
| Panes (`client/pane-selection.js`, `agent-connection-poll.js`, `store.js`, `SshPanel.jsx`) | views, references, queue of opens, list mirrored from the host | open, select, close, reconcile, adopt, announce, claim | lists answer late and out of order while panes mount, hide and vanish | references are what the views show; a close stays closed; every live connection has a pane that can close it |
| Databases (`db-ops.js`, `db-drivers.js`, `db-safety.js`) | connections, pool slots, transactions, tunnels | connect, query, transaction, guard, disconnect | half-open transports, late checkouts, several finishers | slots come back clean, reports are true, everything ends, nothing is dropped unasked |
| Host keys (`hostkey.js`, 1264-1326) | known_hosts store | decide, record, forget | two first connects to one host | connections that verify agree on one key |
| Profiles, credentials, settings (1771-2307), agent connect, batches | tables, secrets, values in force; batch state | save, delete, move; connect, run, cancel | calls overlap, any of their writes fails; operator and agent interleave | no dangling reference; the agent acts on the host it named and leaves nothing behind |
| Remote workspace (`remote-workspace.js`, 624-813) | bindings | bind, resolve, check | links | no path leaves the bound root |
| Session log (`session-log.js`) | entries, streams, sidecars | begin, append, end, read, remove | streams that open and close beside output | the recording is what was shown |
| Redaction tables, schemas, messages, rendering | none or per call | | | section 5 |

The parts call each other in one process: every operation goes through
`resolveConnection` and `ensureAlive`; the loss handler of the transport tears
down sessions, tunnels, the SFTP channel and the policy override; the file
operations obtain their channel from `requireSftp`.

## 2. Modules

| Module | Models | Uses |
|---|---|---|
| `ConnLifecycle` | what the rest may assume of a connection: new, up, down, closed | |
| `SshTransport` | connection records, connect attempts, clients and their events, `ensureAlive` | shown to implement `ConnLifecycle` |
| `SshService` | sessions, tunnels, SFTP channel, agent target | composes every action of `SshTransport` |
| `TermInput` | input mirror, write gate, `changeDirectory`, `enableShellIntegration`, against a shell and its programs | |
| `ShellMarks` | the OSC tracker against its own rule read one character at a time, and against the panel's terminal | |
| `AgentRead` | capture, redaction and "new" reads of `ssh_read` | |
| `Login`, `BannerRepair`, `SocksFront` | authentication walk, repaired identification line, SOCKS5 front | |
| `ExecGate` | `ssh_exec` from the approval gate to the server | records follow `ConnLifecycle`'s states |
| `StreamUpload` | `streamUploadFile` | |
| `TransferTasks` | `TransferTasks`, `sftpUploadLocalFile`, `sftpTransferDiscard` | abstracts the pipeline to "writes, reports progress" |
| `SftpPipeline` | `uploadPipeline` | |
| `DirTransfer` | directory uploads and downloads | abstracts each file to its moves |
| `Download` | verified downloads of the client, with checkpoints | |
| `ExecPipes` | archive pipe and SCP over exec channels | |
| `EditorSave`, `TrashCan`, `FilePanel` | `saveEditorFile` and the editor; trash scripts; the file panel | |
| `PaneViews` | which pane shows which connection, and how connections reach a pane | |
| `TerminalStream` | the output of a session: journal, buffer, stream, poll, pane, pooled terminal | |
| `DbPool` | connections, slots, calls, transactions of one database connection | |
| `DbGuard`, `SqlGate` | the guard of DROP/TRUNCATE; the read-only and destructive gates over SQL text | |
| `Resources`, `AgentTarget` | saved resources and settings; agent connects, workspaces' connections and batches | |
| `HostTrust`, `WorkspacePath`, `SessionLog` | host keys; paths of bound workspaces; recordings | |
| `MC*` | instances for TLC; each joins the modules of one run | |
| `*Proofs` | theorems | |

How state and actions correspond to the code:

* **SshTransport.** `phase` is the await at which `connectClient` is suspended
  (socket, handshake, retry sleep, known_hosts write); `used` are the one-shot
  fallbacks (banner repair, legacy algorithms, keyboard-interactive); `client`,
  `link`, `watched` and `events` are the record's ssh2 client, its transport,
  whether `attachTransportHandlers` ran on it, and the clients whose
  error/close has not been delivered. A step runs a handler to its next real
  suspension, including what it resolves on the way (waiters, reschedules).
  Client identities are recycled when nothing refers to them.
* **SshService.** Every action is a transport step joined with what the same
  handler does to sessions, tunnels and channels (`Loss`, `Close`, `Establish`),
  or a step of an operation (`op`) waiting for `ensureAlive` or a channel.
* **TermInput.** `mirror` is `inputLine`/`inputKnown`/`inputRevision`, `wire` the
  keys on their way, `tty` the line the shell really has and what is in front of
  it (external: modelled from how the probes read it). The two probes run at the
  server at a moment of their own. `strays` are commands that were read anywhere
  but on an empty prompt. `tty.off` says why the line may differ from the mirror:
  an escape or a completion (`esc`, which the mirror must notice), or something it
  cannot notice (`lost`, section 6).
* **ShellMarks, AgentRead.** Bytes and characters are small alphabets: what opens,
  closes or interrupts a sequence; text, key and label. A chunk is any cut.
  `follower` reads by the tracker's rule without a buffer; `screen` is xterm.js
  (external), for which any escape ends the sequence it is in, with the facts the
  tracker still shares with it.
* **Login.** `device` is a server (external): an honest one wants its factors in
  order, the other answers at will. `auth` is `authTracker`, which the code keeps
  per record and not per transport.
* **ExecGate.** A call goes gate, approval, body, alive, probe, exec, running,
  or the CLI route. `Kind` is the verdict of the classifier: safe, delete
  (moved to trash unless released), destroy. `sent` records what reached the server.
* **StreamUpload.** `stage` is the await or event the handler is at, `sweep` the
  cleanup `discard` runs beside it. Destroying the request while the body is
  incomplete also closes the client's socket (Node), hence `peer` in `WriteFails`.
* **TransferTasks.** `queue` is `writeQueue` with the continuation of each
  caller; `snap` is the merged journal between its computation and the rename
  that publishes it; the bookkeeping after the rename looks at the tasks of that
  later moment, as the code does. `Crash` kills a process, its files stay.
  Status `failed` also stands for `cancelled`.
* **SftpPipeline.** One model block is one chunk; `landed` is the server's file.
* **DirTransfer.** Big files and small files are two lanes with their own pools;
  `Redirect` moves a link of the server's tree at any time. `owed` are renames
  the server still has to carry out although their answer was lost.
* **Download.** A tab is one download of a window; `stage` and `holder` are the
  staged checkpoint and the lock the windows share.
* **TrashCan.** A script is a shell process on the server; its steps are the
  commands between which another script can run; each may fail while the script
  goes on (`spoilt` remembers the names concerned), and `Cut` ends it anywhere.
* **FilePanel.** Listings and searches answer in any order. `panel.foreign` says
  that the last listing was asked for by the end of a change begun on another
  connection.
* **PaneViews.** `page` is the module state of the page, which a reload wipes; an
  operator over it is an operation of `pane-selection.js`. `dock` are the
  sidebar's tabs (external), of which only the shown ones have their body
  mounted. React runs the effects of the mounted panes after the step that
  changed the list or the queue and before the next one, pane after pane. A list
  under way is the host's state at the moment it was answered. `fate` is a ghost.
* **EditorSave.** Versions are numbers; other programs write at any time.
* **TerminalStream.** Output is counted in characters; position k is the k-th
  printed. `gen` is where the generator of `terminalStream` is suspended, `queue`
  and `waiting` are the waiters of the destructive buffer and of the journal,
  `chan` what is on its way through the gateway, `pane` the loop of `XtermView`.
  A pane is one mount; the pooled terminal outlives it. The gateway ends the
  generator of a broken stream at once; an answer is lost only after the host
  gave it.
* **DbPool.** A call is the sequence of statements its operation sends to an
  engine (`Script`); `dpc` is the await it is at, `holder` and `cond` are the
  slots of the pool and the state of their protocol. The drivers are external,
  modelled from how `db-ops.js` uses them. Every await may lose against its
  deadline or an abort; a connection may fall silent. What a statement does to
  its transaction is the server's choice: in PostgreSQL a failed one spoils it, in
  MySQL a deadlock undoes it and a DDL statement or a COMMIT commits it (`work` is
  then `loose`). Statements that open a transaction outside `dbTxBegin` are left
  out.
* **SqlGate.** A text is typed element by element and read by three lexers at
  once: the gates' under its two string conventions, and that of a PostgreSQL or a
  MySQL server (external, default modes) with its own comments, dollar quotes and
  quoted identifiers; every prefix of at most `MaxText` elements is judged.
  `shared` are the gates' readings that have not met a mark the server takes for
  something else. A server may execute every statement of a text, also where its
  driver sends one only. SQLite and ClickHouse are not modelled.
* **Resources.** A call is a handler with its awaited writes, each of which may
  fail; `met` are the ids two calls had in hand at once. `mem`, `row`, `page` are
  the settings in force, stored and shown.
* **AgentTarget.** `ask` are agent calls, `slot` the machines of a batch, `conn`
  the connections with their terminals, `active` the active connection.
* **HostTrust, WorkspacePath, SessionLog.** Keys, trees and chunks are model
  values; `WorkspacePath` decides every input in every tree of its instance.

Names of definitions follow the source where TLA+ allows. An operator marked
*faulty variant* is a plausible bug of the definition that follows it; it is not
used by the specifications and serves to show that a property can fail.

## 3. Runs

| Run | Shows |
|---|---|
| `transport` | a record through connect, jump chain, fallbacks, first-seen keys, losses, reconnects, cancel and disconnect, with two `ensureAlive` calls: `RecordsTended` (one attempt at a time, never none that is due, none after a stop), `LossesNoticed`, `OnlyRealLossKills`, `ClosingNeverComesUp`, `AnswersAreTrue`, the refinement `ImplementsLifecycle`, and `AnsweredAndHealed`: every call is answered and a dropped record heals when the server comes back |
| `service` | on the whole transport `MapsSound`: session maps agree, exits are remembered, nothing outlives its transport, a listener belongs to a live record that is in service unless it started when its record was not. Beside it the streams of a connection: `TerminalLineSound` (the mirror is the line or says that it is not, after an escape or a completion it fails closed, commands land on an empty prompt, markers are exact however output is cut and resume after an interruption, reads are complete or say that they are not) and `ConnectingSound` (login walk, banner, SOCKS) |
| `exec` | `OnlyWhereAllowed`, `HarmIsNotReplayed`, `SingleQuery` while target, policy, vouchers and transports change; `HarmlessExecEnds`: a harmless call that reached the tool body ends |
| `files` | `TransfersSound` (partials are removed, reported or journaled, one writer, ok means committed), `FilesSettle` (no handler outlives its connection, no claim waits forever), `PipelineSound` |
| `terminal` | streams, polls and panes of one session: `ReadersSound` (every character once, in order, to the end; no reader sleeps over output), `FirstPaneSettles` |
| `db` | `PoolSound`, `ReportsHonest` (what a caller is told of a transaction happened, `TxHonest`, and where commands meet on one, `MeetingHonest`), `GatesHold` (no statement the server executes slips through a gate as long as one of its readings is the server's; the guard takes the table the server means), `NothingDropped` (a table the guard takes is moved aside and goes only when asked), `DbCallsEnd` |
| `agent` | `AgentWorldSound` (no dangling reference, settings in force are stored, batches and failed calls leave nothing, names resolve), `AgentHeldInPlace` (one key per host, no path out of the workspace), `RecordingSound` |
| `remote` | `TrashReversible` (entries and manifest agree, but for names a failed command spoilt), `ReplacesWhatWasRead`, `DownloadExact`, `TransfersHonest`, `PanesSound` (the file panel shows what was asked last; references agree with views, a close is not undone, no live connection loses its pane but for the reasons listed in section 6) |
| `transport_closed`, `exec_twice`, `db_commit`, `integration_gate` | disagreements between the code and its own comments, section 6 |

Each run also checks the type invariant of its modules, which relates the
bookkeeping of each (counters stay within their limits, a snapshot is held under
the lock).

`NoMissedLoss`, `NoLeakedTransport` and `ClosingNeverComesUp` speak of `Plain`
records: no jump chain or banner repair, a host key already recorded and no call
while first connecting. Section 6 says what happens on the others. In the same
way `OneKeyPerHost` excepts overlapping first contacts, `NoDanglingReference`
ids that two calls had in hand at once, `TrashReversible` overlapping scripts and
names of which an `rm` or a write of the manifest failed, `SlotsAccounted`,
`FreeIsClean` and `TxHonest` transactions two commands met on, `TxHonest` also
failed PostgreSQL statements and statements that ended the transaction by
themselves, `FreeIsClean` the PostgreSQL connection whose given-up ROLLBACK is
still in flight, `DirHonest` the file under check when a link moves and the rename
whose answer was lost, `PipesFailClosed` archives whose channel closed without a
status, `SocksExact` clients that left while their channel opened, `ShowsTheLatest`
the refresh of a change begun on another connection, `ListenersAreOwned` listeners
that started when their record was not in service, `InputSound` what changes the
line unnoticed by the mirror, `GatesHold` marks that only the server's dialect
reads so: each is what the code does and section 6 or the definition's comment
says so.

**Bounds and why they are enough.** Transport records share no state, so
`OneRecord` explores one at a time, a plain and a hard one side by side; three
clients leave room for one in use and two replaced ones with undelivered events;
one retry is enough to tell first connects (retries) from reconnects (none).
`service` and `exec` use `OneScenario` to explore several small casts instead of
their product: each holds every pair of operations that touch common state;
`MaxSessions = 1` makes the limit bite.

Modules that share no state with each other are joined in one run but never
multiplied: `area` (in `service` and `agent`), `focus` (in `remote`) or the first
move (in `files` and `db`) picks the module a behaviour is about, so a run is the
union of its modules' state spaces. Within them:

* `service`: three keys typed (`MaxKeys`) against a line of one character, enough
  for text, Enter and one more key during a probe; nine bytes of output in chunks
  of one or two against a carry of five, enough for a whole sequence, one cut and
  one too long; four pieces of output in bursts of up to three against a capture
  of two; six servers, five sets of credentials, three dials; every
  identification line of `MCLines`; a SOCKS opening and three bytes of payload.
* `files`: two uploads to one target (one strict, one that keeps its partial);
  one task shared by two processes or by two instances of a process, or two tasks
  of one instance, with at most `MaxQueue = 1` call accepted while another waits
  for the journal (ends of running calls still queue); four blocks, starting at
  the second, window two, so that two blocks can be acknowledged in either order
  and a third waits.
* `terminal` prints three characters, in chunks of one or two, into a journal of
  two, so that a reader can lose one, all or none of what it missed; one stream
  item is under way at a time and one stream or answer breaks. Two panes side by
  side see no break (`OneScenario`), a pane alone or after another one does.
* `db`: one slot, so that two calls contend for it, or one call and a
  transaction (`Meeting`); each engine kind; two guarded requests and two
  quarantine suffixes; SQL texts of five elements over a reading verb, a
  destructive one, a name and every mark, enough for a quote or a comment that
  opens under one reading and not under another with a statement behind it.
* `agent`: two calls over one resource of each kind, one family of tables at a
  time; two agent calls and two machines, a batch of two with one worker; two
  keys; all trees of `MCTree` with every input of one or two segments; three
  chunks against a cap of two and a recording that begins again.
* `remote`: two scripts and two paths with one base name, a clock of two
  ticks against a retention of one (an entry of the first moment expires in the last), one name spoilt by failing commands (`MaxSpoilt`); two editors or
  two servers; four listings; one big and three
  small files, begun in the order of the task, with two workers and one rename
  whose answer was lost (`MaxOwed`), beside which one link moves (`OneScenario`);
  two windows, two chunks, two versions, one retry between them; archives of two parts; two panes, two connections of which any may live
  when the page is loaded, two calls under way and three steps of the operator,
  the agent or the host (`MaxEvents`; answers are free), enough for a tab to
  vanish with a reference and a close elsewhere to meet it.

The 5000 entries of the transfer journal and the three reconnect attempts of one
upload are not bounds of the models: journals are small, attempts may repeat.
Exit tombstones age in `TerminalStream` only.

**Fairness.** Timers fire; a handshake, socket or storage write settles
(ssh2's `readyTimeout`, the file system); an `ensureAlive` wait has its own 30 s
limit; for `HarmlessExecEnds` servers answer an exec request (the code has no
timeout before the channel opens, see section 6). `SelfHeals` further assumes
that the server is reachable again infinitely often. `files`: ssh2 fails what is
outstanding on a closed connection and cleanup has a 2 s deadline, so a handler
leaves every await; an instance keeps working on its `writeQueue`. `terminal`:
the heartbeat and the read timeout fire, and the generator and the loop of the
first pane resume; nothing is assumed of the second pane, the shell or the
connection. `db`: the deadlines and the idle timer fire; nothing is assumed of
the server or the transport, which may fall silent for good. Two waits have no
ceiling in the code, so nothing is assumed of them and `DbCallsEnd` excepts the
calls that hang there: requests of the HTTP engines, and the write of an export to
the server (section 6). Nothing forces a body to end, a
client to leave or a write stream to fail.

`CHECK_DEADLOCK FALSE`: all of these systems may be at rest.

## 4. Proofs

Proved with TLAPS for every value of the constants, under the named assumptions
the modules declare beside their constants (`TransportAssumption`,
`UploadAssumption`, ...). They say that limits are natural numbers, that sentinels
(`NoRecord`, `NoTable`, `NoSnap`) are none of the values they stand beside,
that the casts are not empty where the code has a first element, and that panes
and connections are finitely many. Two say more:
`TrashAssumption` bounds the paths by the contents a behaviour may create, as a
path is trashed once per content; `OnePerProcess`, a hypothesis inside
`TasksExclusive`, excludes a reload in place (section 6 says why). Those of the
streams say what comes from the other side: an honest device asks for at least
one factor and none of them is "none", greetings are text, the payload is a
sequence; `WsAssumption` says that the paths of a tree's links, of the roots, the
directories and the inputs are finite sequences of names. TLC has checked each
inductive invariant on the instance of its run as well, but for two parts whose
quantifier it cannot enumerate (`LineExplained`, the shape of the parser in
`ParserAt`).

* `SshTransportProofs`. The inductive invariant joins the types with
  `RecordInv` (what each combination of flags, phase and outcome implies about
  timer and attempt), `KnownInv` (on plain records the client in use is watched
  or still in its handshake, so a loss cannot be missed and a replaced client is
  not open) and `WaitInv` (a waiting caller waits on a dead record). The flags
  alone are not inductive: `SingleAttempt` needs to know that a timer and an
  attempt exclude each other, which needs to know which outcomes reschedule.
  From it follow `SingleAttempt`, `NoLimbo`, `StopIsFinal`, `NoMissedLoss`,
  `NoLeakedTransport`; the action properties `OnlyRealLossKills`,
  `ClosingNeverComesUp`, `AnswersAreTrue`; and the refinement of `ConnLifecycle`.
* `ServiceProofs`. Every step of the service but the retry of `requireSftp` is one
  of the transport, so `TransportInv` carries over; `ServiceInv` adds what the
  service keeps on the records. `LinkBooks`: a dead record has no transport, a
  live one whose key was known has had its first connect. `CallBooks`,
  `SessionBooks`, `RecordBooks`: whom an operation waits for, in which maps its
  session is at each await, and that what a record holds is its own. The
  first of these was false as the model stood: an exception thrown while
  known_hosts is written was taken by the catch of the reconnect callback, which
  leaves a live transport on a dead record; in the code `connectClient` catches
  it itself (`PersistFails`). `ReconnectThrows` now excludes that moment, and
  `OnlyRealLossKills` needs no exception for thrown errors any more. The
  invariant yields `MapsSound`; that a listener is owned (`ListenersAreOwned`)
  needs that a record leaves the service only by a loss or a close, which shut its
  listeners (`InService`).

  The module also proves the streams a connection is made of, one part for each.
  Login: `LoginInv` says of a walk that every method before its position was
  offered since the last restart, that the steps are bounded by the restarts
  used, and that an honest device still wants a factor which is not among those
  refused since. Banner: `BannerInv` says that `inbox`, `head` and what ssh2 was
  given are consecutive pieces of what the peer sent, with one place where an
  identification line may stand. SOCKS: `SocksInv` says that the parser's buffer
  is what has arrived behind a position that its state determines. The three
  yield `ConnectingSound`.
  Input: what the mirror believes says nothing of the shell while keys are on the
  wire. `InputInv` therefore keeps, for every key on the wire, the view the mirror
  had when it was written: a chain of views exists that leads from the shell's
  line to the mirror, each following from the one before by the key between them
  (`LineExplained`). A directory switch is on the wire only alone and behind a
  view of an empty, known line (`SwitchOnPrompt`), because the revision did not
  move and the program in front was the shell since its probe (`QuietSinceProbe`).
  The views also carry whether an escape or a completion came before (`Agrees`),
  which is why a line the mirror calls known is not one the shell has changed. They
  yield `InputSound`, a part of `TerminalLineSound`, and the types of `TermInput`.

  Folds: `FoldLeft` of the community modules is a CHOOSE of a recursive function
  over sets of positions. `LadderIs` shows once that it ends where the ladder of
  partial results ends; from it the folds of `ShellMarks` and `AgentRead` go on
  from their fronts and join (`MarkedIs`, `ShownIs`, `RedactIsFolded`).

  Markers: `Scan` is a recursive function from the end of the buffer down;
  `ScanExists` and `ScanAgrees` show that there is exactly one. `ScanFollows` is an
  induction from the end of the buffer: a terminal that reads the buffer from an
  idle state ends with the state the found markers lead to, in the middle of
  exactly what is carried over, as long as no sequence outgrows the carry. It
  needs that a sequence up to its terminator is collected as it is (`OscRun`).
  `MarksInv` says that the carry leads an idle follower to where the follower is,
  which makes the next chunk, put behind the carry, a buffer of that kind. The
  terminal runs beside the follower (`Beside`): an interrupted sequence parts them,
  and the end of the next whole one brings them together again. Hence
  `MarksExact`; that the commands counted never exceed what was fed is a count of
  found markers and carry over one buffer (`ScanShape`).

  Reads: `captured`, `unread` and the snapshot are windows `Win(printed, a, b)` of
  what was printed, and `ReadInv` says which, by the drop flags. Two redactions of
  the same output, begun at different places, are compared place by place: what
  the later one absorbs into a mask the earlier one absorbs too (`InSync`), so that
  an item which is plain in the redaction of everything is plain, and a place of
  its own, in every window that contains it (`CoversNew`). Hence `ReadsInFull`.

  `EachAreaAlone`: the service and its streams share no state, so the theorems
  about each hold in every behaviour of `MCServiceSpec`; hence `TerminalLineSound`
  and `ServiceWorldTypeOK`.
* `ExecGateProofs`. `ExecInv` = types, `CallInv` (what a call may have sent
  follows from where it is, its retry and its approval) and `QueryInv` (a busy
  terminal has exactly one query). It yields `OnlyWhereAllowed`,
  `HarmIsNotReplayed` and `SingleQuery`.
* `FilesProofs`, the three modules of run `files`.
  Pipeline: acknowledged blocks are on the server, every block below the prefix
  is acknowledged, success needs the whole prefix (`PrefixInv`); hence
  `PipelineSound`.
  Streamed uploads: `UploadInv` says of each upload what its stage implies about
  the partial file, the sweep, the answer and the registry; a partial that
  stays has been reported or its sweep still runs. Hence `UploadsAccounted`.
  Resumable uploads: `TransferInv`. That no two instances are at work on one
  partial is not a fact about the two: it holds because the journal, and any
  journal being written under the lock, names the instance at work, and because
  every entry of `writeQueue` belongs to a task that waits for it (`TaskBooks`).
  All steps of a task are shown to be one kind of move (`Moves`, `MoveKeeps`),
  so that only the steps of `persist` need an argument of their own. Under
  `OnePerProcess` each partial has an entry (`NothingOrphaned`). Hence
  `TasksExclusive` and, for the composition, `TransfersSound`.
* `TerminalStreamProofs`. `TermInv` chains, for every pane, the offset of the
  pooled terminal to the items on their way (`chan`), to the offset at which the
  stream is suspended, to the journal; and says of each suspended reader that it
  is in the list of waiters or has something to read. What a consumer writes is
  the next piece of what was printed (`ConsumeWrites`). It yields `ReadersSound`.
* `DbProofs`. `PoolInv` says who may hold a slot at which await, that a slot
  which is held by nobody carries no transaction but one whose given-up ROLLBACK is
  in flight there, and what the server has done for each statement still in flight.
  `TxHonest` showed that answers on a connection come in the order of the
  questions, which the model had not said (`Quiet`). They yield `PoolSound` and
  `TxHonest`. `GuardInv` follows the tables through their names; it yields
  `NothingDropped`. `GatesInvariant` keeps the gates' lexers and the server's on
  the same text: one that shares the server's reading so far is in the state the
  server is in and has the same statements, so that `GatesHold` is about texts of
  any length.
* `RemoteProofs`, the modules of run `remote`. Trash: `TrashInv` relates files,
  entries and manifest lines to the script that is half-way between them, and says
  which names a failed command may have spoilt;
  `AloneInv` adds what holds while scripts do not overlap. That a free name exists
  is a pigeonhole argument (`NameIsFree`). It yields `TrashReversible`.
  `SimpleDeletesAreExact`: a line of `rm`, `rmdir` or `unlink` taken for a simple
  delete names exactly the operands the program would see.
  The others: `DownloadExact` (a window at work holds the lock and the
  staged checkpoint it began with), `ReplacesWhatWasRead` (an action property:
  what a save saw at its second read is what it had opened), `TransfersHonest`
  (directories, archives, SCP) and `ShowsTheLatest` of the file panel. The panes:
  what the folds of `PaneViews` compute is an induction along the list, done over
  a set of naturals (`NatInd`) and the chain of values a fold goes through
  (`FoldExists`). `EffectsIs` says what the effects of any panes in any order do
  to the page; `ViewsInv` adds that the page is good (`PageGood`: references and
  views agree), that a pane shown over a list was offered it, that no
  announcement is ahead of the host, and that what was closed in a pane was closed
  in one that had been offered the list. Hence `PanesSound`, and with the types of
  the other modules `RemoteTypeOK`.
* `AgentProofs`, the modules of run `agent`. Host keys: `TrustInv` follows who took
  the key of a host for a new one; as long as contacts have not overlapped that
  is at most one dialer, hence `OneKeyPerHost`. Agent connects: `AgentInv` says
  that a connection being dialled belongs to one call or one slot of a batch,
  hence `AgentSound`.

  Resources: two calls may be on one id only if they have met
  (`met`); what a call has found of the books still holds for one that has met
  nobody (`Minds`), whatever the others do to theirs (`OthersBooks`). `LineInv`
  adds that a row is what the last write that was not answered yet will put in
  force. Hence `ResourcesSound`.

  Recordings: while nobody deletes the recording
  or closes the tab before its exit (`Whole`) there is one recording, and what is
  in the file, in its stream and held in its entry are consecutive runs of the
  chunks shown (`Streamed`, over `Run(a, b)`); an `end()` that found it begun with
  its sidecar written leaves only final sidecars in flight (`FinalBooks`). Hence
  `RecordingSound`. `LogTypes` adds the types, and that sidecar writes in flight
  are no more than the begun recordings and the ends that are over.

  Paths: the links of a tree are followed by a recursive function over walks. A walk taken in
  strides, to the next link or gap, needs only the number of links left to exist
  (`StridesExist`), and it is the walk by components (`StrideIsPace`), so `Follow`
  satisfies its equation. A walk over a join is one over the first part and then
  over the rest (`AllJoin`); hence the path that `canonicalRemotePath` computes is
  where the path leads (`CanonicalIsLanding`), and a normalised path names no
  parent (`NormalizedIsClean`). `WsInv` keeps of the granted path that it passed
  the check against its root. Hence `WorkspaceContained`, and with `OneKeyPerHost`
  `AgentHeldInPlace`; with the types of all five modules `AgentWorldTypeOK`.

  The modules share no state (`AreasMoveApart`).

Only model-checked:

* liveness (`AnsweredAndHealed`, `HarmlessExecEnds`, `FilesSettle`,
  `FirstPaneSettles`, `DbCallsEnd`): TLAPS has no support for fairness;
* `MeetingHonest`, the part of `ReportsHonest` about commands that meet on one
  transaction.

Every other invariant and every other action property of a passing run is stated by a
theorem. A run that expects a violation shows one behaviour of its instance.

## 5. Not modelled, and the plan

Left out for good: rendering, colours and highlighting, localisation, schemas
and type descriptors, the regular expressions of the redactor and of the command
classifier, the layout of results, dumps and screens, the shell text of the
probes, the search for an agent socket (`ssh-agent.js`): string processing or
tables without protocol state. Single SFTP requests (mkdir, chmod, rename) keep
no state between calls.

Left for later, in this order:

1. `prune` of the session log, import and export of resources, the registration
   with the sidebar (`sidebar-lifecycle.js`).

## 6. Where the code and its comments part

Shown by a run:

* `transport_closed`: a disconnect while the jump chain or the repaired socket
  is awaited does not stop the attempt; its transport comes up on a removed
  record (`index.js` 1338; comment at 2955).
* `exec_twice`: after a silent timeout a dangerous command that ran under one
  approval is typed into the terminal as well (3360; comment at 3499).
* `db_commit`: `dbTxCommit` reports a commit for a PostgreSQL transaction one of
  whose statements failed; the server answers that COMMIT with a rollback
  (`db-ops.js` 1709; `tools/db.js` 522 says "committed").
* `integration_gate`: `enableShellIntegration` looks only at the exit status of
  its probe, which is 0 also for a busy shell, keeps no input revision and awaits
  a second probe before it types (2658, 2667; the comment at 2639 says "gated
  exactly like changeDirectory").

Seen in the models, without a run of their own:

* A transport that closes while the first-seen host key is written is not
  noticed: the handlers are attached after the write (1420).
* `ensureAlive` on a record that is still in its first connect waits its full
  30 s and answers no even if the connect succeeds in between (1162).
* A local listener that comes up after its connection was lost or disconnected,
  or while the first-seen key is still being written, is registered on that record
  all the same (5090): nothing is left that would close it, or a later failure of
  that write removes the record with the listener running (1226).
* Shells that exited count against `MAX_SESSIONS` until they are closed (2471).
* `cliBusy` stays set when the transport is lost during a CLI query (3484), and
  a login-shell probe cut by a loss is remembered as "no shell" (3279).
* A tier switched while the record is down survives the reconnect (2266).
* The await for an exec channel has no timeout of its own (3205), so a server that
  never answers the request holds the call for good; nor has the write of an
  export to the server (`db-ops.js` 1539; `index.js` 3870) or a request of the HTTP
  engines.
* A record that is still writing its first-seen key can be selected as target.
* A write stream that fails before the body is complete destroys the request,
  and with it the socket its 502 reply was to use (4216).
* A refused resume leaves the task in `ownedIds`: while the other process works
  on it, every upload of this instance is refused with "active in another DSH
  process", and afterwards its stale entry is journaled again (4730; the
  discard path does remove it, 4854).
* A plugin that is unloaded and reloaded in one process gives up its claims
  before its last `persist` is through; if that persist is late, it may delete
  the entry of an upload the new instance has begun again (`transfer-tasks.js` 25).
* A pane whose first subscription finds no stream polls without an offset, so it
  uses the destructive read: two such panes share the characters between them, a
  read that is pending when its pane unmounts swallows some, and a later mount
  that does get a stream writes them all again, since such reads leave no offset
  (2686 says cursor readers avoid this; the fallback is not one). `ShownExactly`
  is therefore about terminals no destructive read was made for.
* An exit that is recorded while a stream is suspended at its yield, and every
  exit set by a close, a disconnect or a loss, is reported at the next heartbeat
  or read timeout only (2800, 2946). A pane that polls after that learns of the
  exit from the tombstone and misses the output since its last read (2681).
* The loss handler empties the map of tunnels that the reconnect walks to restore
  remote forwards (1674, 1728); the plugin's README says they are registered
  again.
* A client that disconnects while the rename of its upload is awaited counts as
  cancelled, but the file is replaced (4224; comment at 4207).
* An upload that completes while `persist` writes the journal for another one is
  dropped from `ownedIds` and stays in the journal as running
  (`transfer-tasks.js` 81; comment at 20). A discard whose `removedIds` entry is
  cleared in the same window leaves its entry in the same way.
* An archive whose channel closes without an exit status ends like a whole one
  (4420; the comment at 4281 says it fails closed).
* The counter of partial successes belongs to the record (`ssh-auth.js` 85): a
  record that logs in with two factors restarts its walk fewer times after every
  reconnect, until the second factor is no longer offered. Evidence of an earlier
  transport is also read in the diagnosis of a later one (200).
* A banner that does not come in time leaves its socket paused and open
  (`ssh-banner.js` 124).
* A SOCKS client that goes while its channel is being opened leaves the channel
  open: the handlers are attached when it is there (`socks5.js` 139).
* The mirror passes over control characters other than escape, tab and those it
  knows (`terminal-input.js` 66; comment at 5), takes Ctrl-U for the whole line
  where the shell clears only up to the cursor (43), and takes keys for the line's
  which a program in front has read. Keys that are under way while the probe of
  `changeDirectory` looks, or another terminal opened and closed around it, are not
  noticed by its revision either.
* A sequence that an escape cuts short is over for the terminal; the tracker reads
  on to the next terminator and loses the markers up to there
  (`shell-integration.js` 117).
* What a shell printed last is not readable by `ssh_read` once it has exited.
* Two first contacts that overlap each record the key they saw; the later one
  stands (1301).
* Two trash scripts that overlap can pick the same name (`trash.js` 224), and a
  purge writes the manifest back without the lines appended meanwhile (206).
* Commands of the trash scripts that fail: one expired entry that was removed
  drops the lines of all expired ones (203); a failed `printf` of the line is
  answered "moved" (230); a failed `grep` leaves an empty file that the `cat` after
  it makes the manifest (308); a purge drops its line although the `rm` failed
  (329). The entry then stays in the trash without the line that leads back.
* A simple delete may carry `-i`, which the comment sends to approval (27), and
  `unlink` and `rmdir` count as well: a directory named to `rm` or `unlink`, which
  would refuse it, is moved to the trash (26).
* A rename whose answer is lost has replaced its destination, and the file is
  listed as failed (`index.js` 4701).
* A change that ends after the panel went to another server refreshes the panel by
  the listing of the old one (`client/SshFiles.jsx` 327, 346, 361, 378; the comment
  at 136 says a slow answer never comes back over a newer one).
* A PostgreSQL connection whose cleanup ROLLBACK timed out is released without an
  error and serves the next caller (`db-ops.js` 1758; the comment at 1782 says that
  it is always destroyed or released with one).
* A MySQL deadlock undoes a whole transaction, and a DDL statement or a COMMIT in
  it commits what was there, whatever is reported at its end (`tools/db.js` 534
  says that every statement is undone).
* Commands that meet on one transaction (the idle timer with a COMMIT, two
  finishers) release its MySQL connection twice (`db-ops.js` 1617, 1759): two later
  users may share it. What is reported of the transactions they met on is right
  (`MeetingHonest`).
* The gates read every text by one grammar. For PostgreSQL they take `#` for a
  comment, a backtick for a quote and `/*!` for SQL, and end a nested comment at
  its first `*/`; for MySQL they take `--` without a blank for a comment, `$$` for
  a quote, and one of their readings a backslash in backticks for an escape
  (`db-safety.js` 121, 127, 156). Behind such a mark (`Misread`) gates and server may read different statements.
* A link or directory of a workspace that is replaced between the check of a path
  and its use is followed (`remote-workspace.js`; the trees of `WorkspacePath` do
  not change).
* `credentialDelete` looks for users of a credential before it awaits its writes;
  a profile saved meanwhile keeps the name of a credential that is gone (1824).
* A connection made by a batch becomes the agent's active connection like any
  other (1256).
* A list that was answered before a connection came up, or the old list a pane
  finds when it is mounted, drops the connection from the pane that had just
  opened it (`client/SshPanel.jsx` 1081); no later list puts it back.
* After a page reload an agent's connection that the root poll announces opens
  the pane and is claimed before the first list is there; the adoption that
  follows finds a view that shows something and takes over none of the other
  connections (`client/pane-selection.js` 175; the comment at
  `client/SshPanel.jsx` 1084 calls them "invisible zombies no pane can
  disconnect").
* A tab that vanishes while it is hidden, or before its dialog or its failed
  disconnect is answered, keeps its references (`client/SshPanel.jsx` 1111): a
  close in another pane is then never the last one, and the connection stays up.
