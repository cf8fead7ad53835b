# A TLA+ model of stund

`stund` keeps SSH tunnels open in the background. `stund open HOST` connects to
a per-user daemon (starting it if need be); the daemon runs `ssh` in a PTY,
relays the password dialogue to the client, and keeps the process once the login
is complete. `stund close`, `stund status` and `stund exit` talk to the same
daemon over a Unix socket, `$HOME/.ssh/stund.sock`.

This directory holds TLA+ modules translated from the Rust source, the TLC
configurations that check them on small instances, and TLAPS proofs of the main
results for every instance. `PROJECT.json` lists the components, the runs, the
lines each definition models, the hazards, the findings and the theorems.
Source lines are those of `src/daemon.rs` unless another file is named.

## 1. Inventory

### The registry and the child monitors (`daemon.rs` 53-58, 193-359)

*State.* `State::children` maps a host name to `Running { tx_kill }` or
`Exited { status }`. For every SSH process there is a task, `ChildMonitor`, which
owns the `Child`, the host name (`key`) and the receiver of the oneshot channel
`tx_kill`/`rx_kill`.

*Operations.* Opening inserts `Running`. Closing removes the entry and sends on
`tx_kill`. The monitor looks at its child first and at the channel second; when
the child is reaped it inserts `Exited` under its key, replacing whatever is
there. Errors, among them a dropped sender, make the monitor fail, which drops
the `Child` and so kills the process (`tokio-pty-process/src/lib.rs` 350-356).

*What is hard.* An entry names a host, a monitor belongs to a process, and the
two get out of step: a host can be closed and opened again while the first
process is still being reaped. Monitors fail and leave entries behind. The
daemon stops at any time. What keeps processes from leaking is a chain of
destructors nobody wrote down.

*Correct if* no process escapes the registry without being killed, an entry is
never stale for good, the status report is explicable, and nothing survives the
daemon.

### The client sessions (`daemon.rs` 363-837, 842-944)

*State.* Per connection: the state machine `Client` (`AwaitingCommand`,
`CommunicatingForOpen`, `FinalizingTxn`, `Aborting`), the flag `exit_on_close`,
the write buffer and the socket behind it, and during a login both halves of the
PTY and the state of the search for the marker.

*Operations.* One per command; during a login, one poll that moves text both ways,
watches for the end of SSH and for the marker, and finally hands the PTY off to a
task of its own.

*What is hard.* Sessions share the registry: another client closes the tunnel
during the login. The socket may be full at any of five places. The client may
leave at any time, also with a command still unread.

*Correct if* the PTY of a login has exactly one owner, success is reported only
for a completed login, a login ends when either side is gone, and an exit command
stops the daemon.

### The search for the marker (`daemon.rs` 487-494, 599-624)

A counter of matched bytes that is kept across chunks. *Correct if* it fires exactly
when the marker was printed.

### Start-up (`daemon.rs` 66-185, `protocol/src/client.rs` 41-109)

*State.* The socket path in the file system, and where each client and each daemon
process is in its start-up. *Operations.* Connect; launch the daemon; sleep; connect
again; against probe, remove, daemonize, bind, accept. *What is hard.* None of it is
atomic. *Correct if* there is one daemon and clients reach it.

### The main task (`daemon.rs` 116-185)

Waits for one message on the exit channel, from a fatal signal or from a session,
then drops the reactor and everything in it.

### The client and the conversation (`protocol/src/client.rs` 111-398, `codecs.rs`)

*State.* The state machine `OpenWorkflow` (`Issue`, `FirstAck`, `Communicating`), two
text buffers, and the socket with what is on its way in either direction.
*Operations.* One request and one answer for `close`, `status` and `exit`; for `open` an
acknowledgement, a dialogue, and a final `Ok` or `Error`; then `Goodbye`.
*What is hard.* `codecs::split` puts bincode on `BytesCodec`, so nothing marks where a
message ends: a read takes what has arrived, the first message of it is decoded, the
rest is dropped. The two `Ok`s look alike. The loop of `poll_communicating` ignores the
end of the stream. Either program, SSH, or the user's patience may end at any time.
*Correct if* what the user is told is so, text arrives in order and once, and the
client ends when the login does.

### Child (`tokio-pty-process/src/lib.rs` 238-356)

*State.* The flag `reaped`, the pid, and a stream of SIGCHLD shared by all children.
*Operations.* `poll_exit` (waitpid, then the stream, again if there was a signal),
`kill`, `forget`, drop. *What is hard.* Processes die in the middle of a poll, one
signal stands for several deaths, the handler is installed by the first poll, and
pids are used again. *Correct if* every death is noticed and no other process is
signalled.

### Borrowed stdio (`tokio-borrow-stdio/src/lib.rs`, `src/main.rs` 104-167)

*State.* Two threads, two bounded channels, a stop message, the lock of stdout.
*Operations.* The stdin thread reads and sends, the stdout thread receives and writes,
the main thread runs the login and then leaves the threads to themselves. *What is
hard.* Full channels, blocking reads, a stop message that is never sent, threads that
nobody joins. *Correct if* no text is lost or doubled, the outcome is announced after
the output, and the program ends.

### The rest

The set-up of PTYs and their halves (`tokio-pty-process`, `split.rs`); option parsing
and printing (`src/main.rs`). See section 7.

### How they interact

The daemon is one thread, a `tokio_core` reactor: a poll of a task runs to its
end before another task is polled, so the mutex around `State` is never
contended and a poll is one atomic step. The SSH processes, the clients and other
daemons run beside it. Tasks interact through `State::children`, through the kill
and exit channels, and by spawning one another. The client is a process of its own,
with three threads during a login.

## 2. Modules

| module | models | uses |
|---|---|---|
| `Tunnels` | registry, monitors, kill channels, PTYs, SSH processes | |
| `TunnelStatus` | abstract: what a status query may say of a host | |
| `Daemon` | sessions, connections, main task | extends `Tunnels` |
| `KeySearch` | the search for the marker | |
| `Startup` | clients and daemons that start | |
| `Texts` | text as a sequence of numbered pieces | |
| `Conversation` | one run of a command: client, session, SSH, socket | extends `Texts` |
| `ChildPoll` | `Child` against waitpid, SIGCHLD and pids | |
| `BorrowStdio` | the stdin, stdout and main threads of `stund open` | extends `Texts` |
| `MC*` | the above with symmetry sets, for TLC | |
| `TunnelsProofs`, `DaemonProofs`, `KeySearchProofs`, `StartupProofs`, `ConversationProofs`, `ChildPollProofs`, `BorrowStdioProofs` | theorems | extend the module they are about |
| `TextTheorems` | facts about texts and their concatenation | extended by `ConversationProofs`, `BorrowStdioProofs` |

### Tunnels

A member of `Procs` names an SSH process with its monitor, kill channel and PTY,
and is used again when all of them are finished, so behaviours are unbounded.

| variable | code |
|---|---|
| `children` | `State::children`, `Absent` where the map has no entry |
| `mon`, `key` | the state of the `ChildMonitor` and its `key` field |
| `kill` | the oneshot channel as the receiver sees it: open, sent, canceled (sender dropped), none (receiver gone) |
| `proc`, `sig` | the process: logging in, logged in, zombie; and whether SIGKILL or SIGHUP is on its way |
| `pty` | who holds the master side: a session, the hand-off task, nobody |
| `up` | is the daemon running |
| `closed` | history: the hosts for which a kill order was sent |
| `handler`, `unheard` | whether a first poll of a `Child` has installed the handler for SIGCHLD; the dead process, if any, whose SIGCHLD came just before that |

One action per outcome of a poll: `SpawnTunnel`, `CloseRunning`, `CloseBroken`,
`CloseNotOpen` (the commands); `MonitorChildDied`, `MonitorPending`, `MonitorKill`,
`MonitorCanceled`, `MonitorPollError`, `MonitorReaped`; `DropPty`, `HandOff`,
`HandOffEnds`; `Shutdown`. `SshLogin`, `SshExits` and `SshExitsUnheard` are the
processes' own. The last is what `ChildPoll` calls a `deaf` death, as the monitors meet
it: the process dies during the poll that installs the handler, behind its waitpid, and
its monitor sleeps until another SIGCHLD, or its kill channel, wakes it (`Woken`).
Destructors are part of the action that runs them: `Report` replaces an entry and
`DropSender` says what that does to the channel in it; `KillChild` is the drop of a
`Child`.

`tx_die` and `ssh_die` are left out: nobody polls `ssh_die`, the one message always
fits the channel, and if the receiver is gone the monitor ends all the same.

### TunnelStatus

The status of a host (`NotListed`, `Open`, `Closed`, `Died`) and the *late*
tunnels: those taken off the list whose end is still to be reported. A status
changes by a command, by the death of the tunnel that is listed, or by the report
of a late tunnel, each of which is reported at most once. The refinement mapping
(in `Tunnels`) computes the status from `children` as `process_status_query` does.
Whether a closed tunnel stays on the list, as `Closed`, is left open (`Close`): the
documentation says it does, the code says it does not (section 6). But an open tunnel
turns into a closed one only by the command that closes it or by the report of a late
tunnel.

### Daemon

`client[s]` is a record of a session and its connection, `exitq` whether the exit
channel holds a message. A poll is one action; `FinalizingTxn` is never a resting
state (either the write completes within the poll, or the state is lost, line 700) and
is therefore an operator. Messages are counted, not stored: `unread` in the socket
(up to `SockCap`), `wbuf` in the write buffer (`WBufCap` before it pushes back; an
abort message may come on top). The bytes of the login are abstracted to the three
things one poll can see (`Heeded`): nothing, text, or text that completes the
marker, the latter only once the process is logged in; `KeySearch` treats the bytes.
What the user types is not followed here. The PTY may not take it at once, so a poll may
always stop short of the hand-off (line 669), and writing it may fail (`CommFails`).
What a client sends is unconstrained: any command at any time, at the end of which it
may leave with its last command unread (`"parting"`).

### KeySearch

One byte is one step: the search keeps nothing from one byte to the next but the
counter, so chunk boundaries make no difference. `out` is a history variable.

### Startup

A member of `Clients` is one run of `stund open` with the daemon it may launch, or a
`stund daemon` typed by the user (`StartByHand`). Only the latter makes the probe of
`State::new` matter: a client has already found the socket dead before it launches.
A client may fail to launch anything (`NoLaunch`), a daemon to remove the old socket
(`Remove`). `path` is whose socket the path refers to; it survives the daemon that made it, as
nobody removes it at exit. `overlap` is a history variable.

### Conversation

Client and session are composed in one module, since the questions are about the
two together; the registry is abstracted to the one entry of the host (`entry`), which
the rest of the daemon changes at any time (`EntryChanges`): another client's close is
that step, and `SshDies` later. `held` remembers what the entry was while the client
waited for its answer. `c2s` and `s2c` are the socket; a read empties it and yields the
head (`ClientReads`, `SessionReads`), and `lost` records what was behind it. A frame
is `Torn` if it holds text beyond `ReadCap`: the read buffer of 8 KB shrinks with
every message that is taken out of it, so that a long dialogue is eventually cut
inside a message. Text is a sequence of numbered pieces (`Texts`), so that loss,
repetition and reordering can be told apart. The poll of the client is split where messages can
arrive within it (`CommReadDone`, `CommUser`): text may be sent after the final `Ok`
was. Either buffer towards the other program may be full, stdout may be busy and then
keeps the client from flushing to the daemon (`CommUser`), and the PTY takes as much of
the typed text as it likes (`CommPoll(text, k)`) or fails (`CommPtyFails`). A session
that ends a login without a message, because of such a failure or at line 700, sets
`silent`. The end of the stream during a login has no action: the loop goes round and
changes nothing, which a behaviour shows as stuttering for ever.

| variable | code |
|---|---|
| `cl`, `saw_ok`, `user_buf`, `result` | `OpenWorkflow` and its fields; `"Relaying"` is `poll_communicating` behind its first loop; `"Await"` the future of the other requests |
| `typed`, `sent`, `tx_buf`, `got` | how far the user's text got: typed, passed to `FramedWrite`, still in its buffer, received by SSH |
| `printed`, `marker`, `shown` | how far SSH's text got; which piece completed the marker |
| `session`, `wbuf`, `cl_buf`, `ssh_buf`, `exit_on_close` | `Client` and its fields |
| `entry`, `ssh`, `up` | the host's entry, its process, the daemon |
| `held`, `lost`, `silent` | history, see above |

### ChildPoll

A poll is several steps (`PollExit`, `TryWait`, `PollSigchld`), polls exclude one
another (`turn`), and processes die between any two of them. `tokio_signal` is
external: the handler is installed and the receiver registered by the first poll of
the stream; the handler sets one flag; whichever stream is polled next clears it and
leaves a message for every receiver. `deaf` marks a death that no handler heard.
`stray` records a signal to a process that is not the Child's own.

### BorrowStdio

A step of a thread is what it does between two points at which another can notice.
`f`, the login, is what module `Conversation` describes. Here `wf` says as much of it as
the threads notice: it waits for the acknowledgement and looks at neither stream, it
relays (takes input, puts output), or it spins on the end of the daemon's stream
(`client.rs` 352) and does nothing any more; unless it spins it returns at any time.
`cut` marks a `write` that was not complete (its result is ignored at line 115), `late`
an announcement that was printed before the stdout thread had even started.

## 3. Runs

`tlc -config X.cfg M`, each within 5 minutes.

| run | instance | states | what it shows |
|---|---|---|---|
| `tunnels` | 2 hosts, 2 processes | 148,576 | invariants, refinement of `TunnelStatus`, liveness |
| `daemon` | 1 host, 1 process, 2 sessions, capacities 1 | 303,153 | invariants of the sessions; a login under another client's close ends |
| `daemon_live` | 1 host, 2 processes, 1 session, capacities 1 | 155,393 | refinement of `Tunnels`; logins and exit orders come to an end |
| `key_search` | key of 3 different bytes, 4 bytes with the newline, outputs up to 7 bytes | 21,845 | soundness, and completeness at the start of a line |
| `startup` | 3 clients | 120,546 | reachability of the daemon, termination |
| `conversation` | user types 3 pieces, SSH prints 3, socket of 2 messages, write buffers of 1, read buffer of 2 pieces | 319,422 | answers, text, termination |
| `child_poll` | 2 children, 2 pids | 8,092 | signals and deaths |
| `borrow_stdio` | 3 pieces either way, channels of 2 | 197,564 | text, announcement, termination |
| `tunnels_exited`, `key_search_miss`, `startup_two`, `conversation_error` | smallest that show it | | findings, section 6 |

*Why the bounds are enough to be interesting.* Two processes for one host are what
the race between an old and a new tunnel needs, and a death that is unheard until the
next; two hosts make sure that entries of different hosts do not mix. Two sessions and
one host make them compete for one tunnel: one closes what the other is opening, and
finds that it is open already. Capacities of one make every write that can block do so.
The runs of the daemon have either two sessions or two processes, not both, which would
take longer than five minutes: a rival's close concerns two sessions and one process,
what becomes of an abandoned or completed login one session and the processes of its
host. That a late report cancels another's login takes two of each; `DoomedDies` shows
that the process dies of it, and `daemon` that its death ends the login. Outputs
of seven bytes hold a partial match of the three-byte key, one that fails, and a true
one, with a newline in any place. With three clients a start-up can overlap another and
meet the remains of a third. A socket of two messages lets a frame of two form and
leaves no room for the final `Ok` behind two, and the third piece of text is the one that
tears a frame. Two pids are enough for the pid of a reaped child to be given to the
other child or to a stranger. Channels of two fill up with three pieces of text. The
proofs of section 5 do away with the bounds for everything they cover.

*Deadlock* is not checked: a daemon that has stopped, an output that has reached
its bound, clients that are all served and programs that have ended are proper ends.

### Properties

`Tunnels`: `NoOrphan` (a running process is listed, or about to be killed),
`RunningIsCurrent`, `ClosedWasAsked`, `NoTunnelWithoutDaemon`, `ImplementsStatus`;
`DoomedDies`, `DeathIsNoticed` (unless it is unheard), `ClosedIsReaped` (a process that
was ordered to be killed does not stay behind as a zombie, also if it died first).
`Daemon`: `PtyHasOneOwner`, `OpenNeverPanics` (the `panic!("cmon")` of line 815 is
dead code), `SuccessMeansLoggedIn`, `ImplementsTunnels`; `DoomedLoginEnds`,
`KeySeenIsSettled` (a tunnel whose marker was seen is handed off, or dies with its
session; that the client is told is another matter, see section 6),
`AbandonedLoginDies`, `ExitStopsDaemon`.
`KeySearch`: `FoundWasPrinted`, `FoundAfterNewline`.
`Startup`: `ListeningIsReachable`, `EstablishEnds`.
`Conversation`: `AnswerIsTrue` (what the user is told is so, or was while the client
waited, whatever other clients do to the registry), `TypedTextArrives` and
`PrintedTextArrives` (in order, once, and complete unless a frame swallowed some);
`RequestAnswered`, `LoginAnswered` (the client learns the end of the login, unless the
message was lost or torn in a frame, the session ended without one, or the daemon died),
`ExitHappens`, `TypedTextIsTaken`.
`ChildPoll`: `KillHitsOwnChild`, `DeathIsHeard` (no lost wake-up); `DeadIsReaped`.
`BorrowStdio`: `InputIsConserved`, `AnnouncedIsComplete`; `TypedIsDelivered` (while the
login relays; once it spins nothing is), `BorrowEnds`.
Every one of them fails under some small change of the model; those changes
are the operators whose comment says "Mutant".

## 4. Fairness

* A monitor that was woken moves if it can (`Woken(p) /\ MonitorStep(p)`): SIGCHLD, the
  kill channel and its cancellation all wake the task, and the reactor polls every task
  that was woken. A poll error is never forced. `DeadIsReaped` of `ChildPoll` is what
  justifies this for deaths. Its exception, a death between waitpid and the installation
  of the handler in the first poll of all, is the exception here: such a process is in
  `unheard`, and its monitor is not woken before the next SIGCHLD or a message.
* The hand-off task moves when the PTY reports its end.
* A process dies of SIGKILL and SIGHUP (`SshSignalled`). That it logs in, prints
  anything or exits is never forced.
* A session is polled when its socket or its PTY is ready: `RecvEof`, `CommSshEof`,
  `CommPoll` without new text, `PollAborting`, and `CommFails` when the client is
  gone. Commands are never forced.
* A client that stays reads what it is sent (`PeerReads`), and SSH reads its terminal, so
  that the hand-off is not put off for ever (`CommPoll` without new text stops short of
  it as long as text is left). `KeySeenIsSettled` needs both; a client that stops reading
  does block its own session.
* The main task is polled when its channel holds a message.
* In `Startup` both programs go on; accept errors and exits are not forced.
* In `Conversation` both programs go on (`ClientStep`, `SessionStep`) and SSH reads its
  terminal (`PtyTakes`); that a write fails is not forced, and nothing else is expected of
  SSH, or of the user, of other clients or of whoever kills a process. `TypedTextIsTaken`
  needs `PtyTakes`: an SSH that never reads its terminal is not the daemon's fault.
* In `ChildPoll` a poll goes on and a process dies of SIGKILL. A task that was woken is
  polled (strong fairness of `PollExit`: the reactor keeps a queue, so that a task gets
  its turn although other polls come between).
* In `BorrowStdio` every thread runs, and `f` takes input as long as it relays
  (`TakeInput` is enabled only then); that the user types, the daemon answers or the login
  ends is not forced.

All but `PollExit` is weak fairness.

## 5. Proofs

`tlapm M.tla` for the eight proof modules. They assume only what the modules they are
about assume of their constants: the "none" values are not members of their sets,
capacities are positive, the key is a non-empty sequence of bytes without a newline.

**TunnelsProofs.** `NoOrphan` is not inductive by itself: that an entry exists says
nothing of what will happen when it is dropped. The inductive invariant
`TunnelsInv` adds `MonitorInv`, which looks from the process to the registry: a
monitor listens exactly as long as its channel exists; a channel that is still open
is the one in the entry of its host; a process that runs without a listening
monitor has been signalled; and a kill order implies that the host was closed. The
crucial step is `ReportInv`: the report of one process overwrites the entry of
another, whose channel is then canceled, which keeps it from being open without an
entry. From `TunnelsInv` follow `NoOrphan`, `RunningIsCurrent`, `ClosedWasAsked` and
`NoTunnelWithoutDaemon`.

`TunnelsImplementStatus`: every step of `Tunnels`, from a state of the invariant, maps
to a step of `TunnelStatus` or to a stutter.

**DaemonProofs.** `TunnelsStep`: a step of the daemon is one of the tunnels or
leaves them alone. It needs `PtyHasOneOwner` (the session that drops a PTY has
one), whose inductive form is `DaemonInv`: each session is well-formed by itself
(`ClientOK`: what its buffer may hold in which state), processes and sessions
match one to one (`PtyInv`), and the marker is seen only after the login
(`FoundInv`). The steps are grouped by what they do with the process: the session
keeps it, releases it, or acquires a fresh one. `DaemonImplementsTunnels` carries
the theorems about `Tunnels` over (`DaemonLosesNoTunnel`).

**KeySearchProofs.** `SearchInv`: the counter is the length of a match that ends at
the end of the output, and a line that began with a part of the key has not been
given up. It yields both properties for every key, every set of bytes and every
length of output, and that the index never leaves the key.

**StartupProofs.** `ListeningIsReachable` alone does not survive `Remove`. `ExclusiveInv`
adds that, as long as nothing overlapped, one daemon starts at a time and nobody
listens once it has probed. The crucial step is `ProbeInv`: that the probe finds nobody
means that nobody listens, because who listens is reachable. So overlapping start-ups
are the only way to two daemons (`OnlyOverlapMakesTwo`).

**ChildPollProofs.** `PidInv`: a `Child` that has not reaped its process has one, whose
pid is nobody else's. This is `KillHitsOwnChild`. `StreamInv`: without a handler nothing
is signalled or queued, and a `Child` whose stream is not registered is still to be
polled. With it `DeathIsHeard` is inductive; the step that needs it is `ProcDiesInv`.

**TextTheorems.** Both modules that pass text on need to know what `FlattenSeq`
computes, and it is defined by recursion. The induction theorems of the library take a
predicate, which the provers cannot instantiate; here the induction hypothesis is a
*set*, so that induction is a consequence of the fact that every non-empty set of
natural numbers has a least element (`LeastElement`, `UpwardInduction`, and
`FrontInduction` for sequences). From it follow that `FlattenSeq` respects `Append` and
concatenation, for sequences of any length. `Join` is concatenation under another
name: the solver is lost in nested concatenations unless they are hidden from it, and
finds its way with the few facts in `JoinFacts`, `JoinDrop`, `JoinAfter`, `RangeJoin`.

**BorrowStdioProofs.** `OutputInv` follows every piece of output through the channel,
`ThreadInv` says in which state the stdout thread is found by the announcement.
Together they give `AnnouncedIsComplete`. `InputIsConserved` is inductive given
`ThreadInv`, which says that the stdin thread has a message in hand when it is
about to send: what was delivered, what is in the channel and the message in hand are,
in this order, all that was taken from the terminal (`ReadConserves`, `SendConserves`,
`TakeConserves`).

**ConversationProofs.** `AnswerIsTrue` looks at what the client has understood; what
it will understand next is in the socket and in the write buffer (`Outgoing`; what is on
its way to the daemon is `Incoming`).
`ConversationInv` has, beside the types, these parts:

* `RequestInv`: the request is the one of the command, it is sent once, and until the
  session has read it nothing else has happened (`Fresh`).
* `RegistryInv`: as long as the client waits and no SSH was launched for it, `held` keeps up
  with the entry, so that an answer about the registry, true when the session gave it,
  remains true of `held` although other clients change the entry on.
* `AnswerInv`: every answer on its way says what is so, and remains so (`IsTrue`). The
  hard one is that of a login, where the two `Ok`s look alike: until the marker is
  seen there is at most one `Ok` on its way, it is the first message, and there is
  none once the client has taken the first one (`OneOk`). A second `Ok`, the one that
  the client takes for success, therefore means that the marker was seen.
* `TypedInv` and `PrintedInv`: the text at the receiver, then in its buffer, in the
  socket, and in the sender's buffers is in order and, as long as no frame has
  swallowed any, all the text there is. What a read drops was in the middle of it, and
  leaves the rest in order. `PrintedInv` also says that the piece with the marker is
  not on its way: the session keeps it, and sends nothing more but the final `Ok`.
* `ClientInv`, `SessionInv`, `DataInv`: which states go with which command, what the
  write buffer may hold, and that only data carries text.

The actions are grouped by what they do to this state (`ClientMoves`,
`ClientSendsNew`, `ClientReadsFrame`, `SessionAnswers`, `SessionMoves`), each group is
shown to preserve the invariant once, and each action to be one of a group;
`CommUserData` and `CommPoll` are by themselves. `ConversationTypeOK`, `AnswerIsTrue`,
`TypedTextArrives` and `PrintedTextArrives` follow, for any amount of text and any
capacities.

*Model-checked only:* the liveness properties (fairness is out of the prover's
reach) and the findings. Every invariant and every refinement that a run checks is
also proved.

## 6. Findings

* `tunnels_exited` - close, then open again before the old process is reaped: the
  report of the old one replaces the new entry (lines 258 and 324). The status says
  `Died` or `Closed` for a tunnel that runs, and the loss of the entry kills it.
  `NoOrphan` shows that at least it does not leak.
* `key_search_miss` - the search misses a marker right after a partial match.
  `FoundAfterNewline` shows that this needs output before it on the same line.
* `startup_two` - two daemons that start together both come up, one out of reach.
  `ListeningIsReachable` shows that overlapping start-ups are the only cause.
* `conversation_error` - the `Error` that ends a failed login is written right behind
  SSH's last text; if both arrive in one read, the error is dropped and the client
  reads the end of the stream for ever. `LoginAnswered` lists the other ways to get
  there: a torn frame, a session that ends silently (it cannot write to the PTY, lines 661
  and 669, or not write the `Ok` at once), and the end of the daemon.

Seen while modelling, without a run of their own:

* A closed tunnel is taken off the list at once (line 875) and comes back as `Closed` or
  `Died` only when it is reaped; if its host is closed a second time after that, it is
  in no report any more, and the second client is told that there was no such tunnel.
  `protocol/src/lib.rs` 134-138 says that the list includes closed tunnels.
  `TunnelStatus` promises neither, so `ImplementsStatus` does not decide between the two.
* Line 699 takes the state before the write of the final `Ok` is complete: if the
  socket is full at that moment the session ends without a word, SSH having been handed
  off already, although the comment at lines 686-688 wants to make sure that the client
  receives its success notification. In `Daemon` this is the first branch of
  `FinalizingTxn`, in `Conversation` the "closed" branch of `Reply`.
* The flag `exit_on_close` is looked at only when the session ends properly (line 410):
  a session that ends in an error forgets the order to exit, which lines 521-523 promise
  to send when the connection is closed. `ExitHappens` shows that it is not forgotten
  once the client has read the answer.
* A tunnel counts as open from the launch of SSH on (line 734): a second client is told
  `TunnelAlreadyOpen` while the first is asked for its password, and also when SSH has
  died and its monitor has failed. `protocol/src/lib.rs` 72-73 says that it "is already
  open"; `AnswerIsTrue` says that it was listed.
* Text typed just before the final `Ok` reaches a session that awaits a command, which
  fails (line 544). The client announces the success and then fails to say `Goodbye`,
  so that the command given behind `--` is not run (`main.rs` 148).
* The first child of a daemon may die between waitpid and the installation of the
  handler (`deaf` in `ChildPoll`, `unheard` in `Tunnels`) and remain a zombie, listed as
  open, until the next SIGCHLD.

## 7. Not modelled, and the plan

* Option parsing, the table `stund status` prints, the log, the terminal's echo flag:
  straight-line code. (A client that is killed during a login leaves the echo off.)
* The set-up of PTYs, raw mode and window sizes: wrappers of system calls.
  `split.rs` is a copy of tokio-io's split that stund does not use.
* The bytes of a message: a frame is a sequence of messages, or torn.
* The generated state machine code, the examples and continuous integration.

Planned: that a poll of `ChildPoll` implements the atomic poll of `Tunnels`. To be
stated by an abstract `Child` (a poll reaps the process once it is dead, a signal
reaches only the Child's own process) that `ChildPoll` refines.
