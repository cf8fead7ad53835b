------------------------------- MODULE Daemon -------------------------------
(***************************************************************************)
(* The stund daemon: the client sessions (the state machine Client and the *)
(* commands it processes) and the main task that waits for an order to     *)
(* exit, on top of the tunnels of module Tunnels, whose variables the      *)
(* sessions share with the monitors.                                       *)
(*                                                                         *)
(* A poll of a session is one action.  The state machine goes on polling   *)
(* after a transition, so that FinalizingTxn, which never rests, is part   *)
(* of the poll that enters it.  Messages are counted, not stored: what     *)
(* matters to the daemon is whether a write completes.                     *)
(***************************************************************************)
EXTENDS Tunnels, Naturals

CONSTANTS Sessions,  \* identities for client connections
          NoProc,    \* the SSH process of a session that has none
          SockCap,   \* messages the socket holds until the client reads them
          WBufCap    \* messages the FramedWrite buffer takes before it pushes back

ASSUME NoProcAssumption == NoProc \notin Procs
ASSUME CapAssumption == SockCap \in Nat \ {0} /\ WBufCap \in Nat \ {0}

VARIABLES
  client,  \* the state of each session and of its connection
  exitq    \* has an order to exit been put into the channel to the main task?

daemonVars == <<tunnelVars, client, exitq>>

(***************************************************************************)
(* A session and its connection.  peer is "up", "gone", or "parting" when  *)
(* the client is gone but its last command has not been read yet.  unread  *)
(* counts the messages in the socket, wbuf those still in the write        *)
(* buffer.                                                                 *)
(***************************************************************************)
ClientState ==
  [state : {"none", "AwaitingCommand", "CommunicatingForOpen", "Aborting"},
   ssh : Procs \cup {NoProc},
   found : BOOLEAN,
   exit_on_close : BOOLEAN,
   peer : {"up", "parting", "gone"},
   unread : 0..SockCap,
   wbuf : 0..(WBufCap + 1)]

\* There is no session: it has not begun, or it is over (Finished or Failed)
\* and the connection has been dropped.
NoClient ==
  [state |-> "none", ssh |-> NoProc, found |-> FALSE, exit_on_close |-> FALSE,
   peer |-> "gone", unread |-> 0, wbuf |-> 0]

SessionLive(s) == client[s].state # "none"

DaemonTypeOK ==
  /\ TunnelsTypeOK
  /\ client \in [Sessions -> ClientState]
  /\ exitq \in BOOLEAN

DaemonInit ==
  /\ TunnelsInit
  /\ client = [s \in Sessions |-> NoClient]
  /\ exitq = FALSE
-----------------------------------------------------------------------------
(***************************************************************************)
(* Writing to the client.                                                  *)
(***************************************************************************)

\* Mutant: write whether or not the socket takes it.
FlushRegardless(c) == [c EXCEPT !.unread = @ + c.wbuf, !.wbuf = 0]

\* poll_complete towards a client that is there: as much as the socket takes.
Flush(c) ==
  LET room == SockCap - c.unread
      n == IF c.wbuf < room THEN c.wbuf ELSE room
  IN [c EXCEPT !.unread = @ + n, !.wbuf = @ - n]

\* Mutant: go on to the next command while the reply is still queued.
FinalizingTxnEarly(c) ==
  IF c.peer # "up"
  THEN NoClient
  ELSE [c EXCEPT !.state = "AwaitingCommand", !.ssh = NoProc, !.found = FALSE,
                 !.unread = IF @ < SockCap THEN @ + 1 ELSE @,
                 !.wbuf = IF c.unread < SockCap THEN 0 ELSE 1]

\* tx.send(reply) and poll_finalizing_txn: the write fails if the client is
\* gone; if it cannot complete at once the state has already been taken and
\* the session vanishes; otherwise the next command is awaited.
FinalizingTxn(c) ==
  IF c.peer # "up" \/ c.unread = SockCap
  THEN NoClient
  ELSE [c EXCEPT !.state = "AwaitingCommand", !.ssh = NoProc, !.found = FALSE,
                 !.unread = @ + 1]

\* abort_client: queue the error message.
AbortClient(c) ==
  [c EXCEPT !.state = "Aborting", !.ssh = NoProc, !.found = FALSE, !.wbuf = @ + 1]

\* c once the last message of a parting client has been read.
Heard(c) == [c EXCEPT !.peer = IF @ = "up" THEN "up" ELSE "gone"]

Becomes(s, c) == client' = [client EXCEPT ![s] = c]

-----------------------------------------------------------------------------
(***************************************************************************)
(* AwaitingCommand: one action per command and per outcome.                *)
(***************************************************************************)

\* process_client: a connection is accepted.
Connect(s) ==
  /\ up
  /\ ~SessionLive(s)
  /\ Becomes(s, [NoClient EXCEPT !.state = "AwaitingCommand", !.peer = "up"])
  /\ UNCHANGED <<tunnelVars, exitq>>

\* A message of the client can be read.
HasCommand(s) ==
  /\ up
  /\ client[s].state = "AwaitingCommand"
  /\ client[s].peer # "gone"

\* process_open_command
RecvOpenAlreadyOpen(s, h) ==
  /\ HasCommand(s)
  /\ children[h].tag = "Running"
  /\ Becomes(s, FinalizingTxn(client[s]))
  /\ UNCHANGED <<tunnelVars, exitq>>

\* The Ok is only queued; the first poll of CommunicatingForOpen flushes it.
RecvOpen(s, h, p) ==
  /\ HasCommand(s)
  /\ SpawnTunnel(h, p)
  /\ Becomes(s, [Heard(client[s]) EXCEPT !.state = "CommunicatingForOpen",
                                         !.ssh = p, !.wbuf = @ + 1])
  /\ UNCHANGED exitq

\* No PTY, or SSH cannot be launched: neither monitor nor entry are made.
RecvOpenFails(s, h) ==
  /\ HasCommand(s)
  /\ children[h].tag # "Running"
  /\ Becomes(s, AbortClient(Heard(client[s])))
  /\ UNCHANGED <<tunnelVars, exitq>>

\* process_close_command
RecvClose(s, h) ==
  /\ HasCommand(s)
  /\ \/ /\ CloseRunning(h) \/ CloseNotOpen(h)
        /\ Becomes(s, FinalizingTxn(client[s]))
     \/ /\ CloseBroken(h)
        /\ Becomes(s, AbortClient(Heard(client[s])))
  /\ UNCHANGED exitq

\* process_status_query: only reads the registry (StatusOf).
RecvQueryStatus(s) ==
  /\ HasCommand(s)
  /\ Becomes(s, FinalizingTxn(client[s]))
  /\ UNCHANGED <<tunnelVars, exitq>>

RecvExit(s) ==
  /\ HasCommand(s)
  /\ Becomes(s, FinalizingTxn([client[s] EXCEPT !.exit_on_close = TRUE]))
  /\ UNCHANGED <<tunnelVars, exitq>>

\* Finished, and the continuation of it in process_client.
Finish(s) ==
  /\ Becomes(s, NoClient)
  /\ exitq' = (exitq \/ client[s].exit_on_close)
  /\ UNCHANGED tunnelVars

RecvGoodbye(s) == HasCommand(s) /\ Finish(s)

\* Mutant: only Goodbye counts as a proper end.
RecvEofIgnoresExit(s) ==
  /\ up
  /\ client[s].state = "AwaitingCommand"
  /\ client[s].peer = "gone"
  /\ Becomes(s, NoClient)
  /\ UNCHANGED <<tunnelVars, exitq>>

\* The end of the stream; a socket that was closed with data still unread
\* may report an error instead.
RecvEof(s) ==
  /\ up
  /\ client[s].state = "AwaitingCommand"
  /\ client[s].peer = "gone"
  /\ \/ Finish(s)
     \/ /\ client[s].unread > 0
        /\ Becomes(s, NoClient)
        /\ UNCHANGED <<tunnelVars, exitq>>

\* UserData outside of a login, or bytes that do not decode.
RecvUnexpected(s) ==
  /\ HasCommand(s)
  /\ Becomes(s, NoClient)
  /\ UNCHANGED <<tunnelVars, exitq>>

-----------------------------------------------------------------------------
(***************************************************************************)
(* CommunicatingForOpen and Aborting.                                      *)
(***************************************************************************)
Communicating(s) == up /\ client[s].state = "CommunicatingForOpen"

\* Mutant: the PTY outlives the session.
CommFailsLeaksPty(s) ==
  /\ Communicating(s)
  /\ Becomes(s, NoClient)
  /\ UNCHANGED <<tunnelVars, exitq>>

\* The session fails and takes the PTY along: the client hung up or sent
\* something other than UserData, or writing to the PTY failed.
CommFails(s) ==
  /\ Communicating(s)
  /\ Becomes(s, NoClient)
  /\ DropPty(client[s].ssh)
  /\ UNCHANGED exitq

\* Mutants: the PTY outlives the session; only a tunnel that is listed as
\* dead counts as dead.
CommSshEofLeaksPty(s) ==
  /\ Communicating(s)
  /\ ~Alive(client[s].ssh)
  /\ Becomes(s, AbortClient(client[s]))
  /\ UNCHANGED <<tunnelVars, exitq>>
CommSshEofIfDied(s) ==
  /\ Communicating(s)
  /\ StatusOf(children[key[client[s].ssh]]) = "Died"
  /\ Becomes(s, AbortClient(client[s]))
  /\ DropPty(client[s].ssh)
  /\ UNCHANGED exitq

\* The end of SSH's output, or an error reading it, once SSH is dead.
CommSshEof(s) ==
  /\ Communicating(s)
  /\ ~Alive(client[s].ssh)
  /\ Becomes(s, AbortClient(client[s]))
  /\ DropPty(client[s].ssh)
  /\ UNCHANGED exitq

\* Mutant: any text is taken for the key.
HeededAsKey(c, text) == [c EXCEPT !.found = @ \/ text # "none"]

\* The new text from SSH of one poll: none, some, or some that completes
\* the key, which the remote shell prints once the login is done.
Heeded(c, text) ==
  CASE text = "key" -> [c EXCEPT !.found = TRUE]
    [] text = "some" /\ ~c.found /\ c.wbuf < WBufCap -> [c EXCEPT !.wbuf = @ + 1]
    [] OTHER -> c

\* Mutant: hand off only in a poll that sees the key.
CommPollForgetsKey(s, text) ==
  LET c == Heeded(client[s], text)
      flushed == Flush(c)
      now == flushed.wbuf = 0 /\ text = "key"
  IN /\ Communicating(s)
     /\ text = "key" => proc[c.ssh] = "online"
     /\ c.wbuf = 0 \/ c.peer = "up"
     /\ \/ Becomes(s, flushed) /\ UNCHANGED tunnelVars
        \/ now /\ Becomes(s, FinalizingTxn(flushed)) /\ HandOff(c.ssh)
     /\ UNCHANGED exitq

\* poll_communicating_for_open: take in the text, flush, and hand SSH off if
\* the key was seen and nothing is left to flush, neither to the client nor
\* to SSH.  How much the user typed, and whether the PTY takes it now, is left
\* open here (Conversation has the text), so a poll may always stop short of
\* the hand-off.
CommPoll(s, text) ==
  LET c == Heeded(client[s], text)
      flushed == Flush(c)
  IN /\ Communicating(s)
     /\ text = "key" => proc[c.ssh] = "online"
     /\ \/ /\ c.wbuf > 0 /\ c.peer # "up"
           /\ Becomes(s, NoClient)
           /\ DropPty(c.ssh)
        \/ /\ c.wbuf = 0 \/ c.peer = "up"
           /\ Becomes(s, flushed)
           /\ UNCHANGED tunnelVars
        \/ /\ c.wbuf = 0 \/ c.peer = "up"
           /\ flushed.wbuf = 0 /\ c.found
           /\ Becomes(s, FinalizingTxn(flushed))
           /\ HandOff(c.ssh)
     /\ UNCHANGED exitq

\* poll_aborting: the session ends, with an error, once the message is out.
PollAborting(s) ==
  LET c == client[s]
  IN /\ up
     /\ c.state = "Aborting"
     /\ Becomes(s, IF c.peer = "up" /\ Flush(c).wbuf > 0 THEN Flush(c)
                   ELSE NoClient)
     /\ UNCHANGED <<tunnelVars, exitq>>

-----------------------------------------------------------------------------
(***************************************************************************)
(* The client's side of the connection (external).                         *)
(***************************************************************************)
PeerReads(s) ==
  /\ SessionLive(s)
  /\ client[s].peer = "up"
  /\ client[s].unread > 0
  /\ Becomes(s, [client[s] EXCEPT !.unread = @ - 1])
  /\ UNCHANGED <<tunnelVars, exitq>>

PeerHangsUp(s) ==
  /\ SessionLive(s)
  /\ client[s].peer = "up"
  /\ \/ Becomes(s, [client[s] EXCEPT !.peer = "gone"])
     \/ /\ client[s].state = "AwaitingCommand"
        /\ Becomes(s, [client[s] EXCEPT !.peer = "parting"])
  /\ UNCHANGED <<tunnelVars, exitq>>

-----------------------------------------------------------------------------
(***************************************************************************)
(* State::serve: signals, and the main task.                               *)
(***************************************************************************)
FatalSignal ==
  /\ up
  /\ exitq' = TRUE
  /\ UNCHANGED <<tunnelVars, client>>

\* Mutant: the process ends without dropping the reactor (process::exit).
MainExitAbruptly ==
  /\ exitq
  /\ up
  /\ up' = FALSE
  /\ client' = [s \in Sessions |-> NoClient]
  /\ UNCHANGED <<children, mon, key, kill, proc, sig, pty, closed, chldVars, exitq>>

\* core.run returns: everything is dropped with the reactor.
MainExit ==
  /\ exitq
  /\ Shutdown
  /\ client' = [s \in Sessions |-> NoClient]
  /\ UNCHANGED exitq

-----------------------------------------------------------------------------
CommandStep(s) ==
  \/ \E h \in Hosts :
       \/ RecvOpenAlreadyOpen(s, h)
       \/ \E p \in Procs : RecvOpen(s, h, p)
       \/ RecvOpenFails(s, h)
       \/ RecvClose(s, h)
  \/ RecvQueryStatus(s)
  \/ RecvExit(s)
  \/ RecvGoodbye(s)
  \/ RecvEof(s)
  \/ RecvUnexpected(s)

LoginStep(s) ==
  \/ CommFails(s)
  \/ CommSshEof(s)
  \/ \E text \in {"none", "some", "key"} : CommPoll(s, text)
  \/ PollAborting(s)

\* The steps of Tunnels that are not part of a session's poll.
TunnelStep(p) ==
  /\ MonitorStep(p) \/ MonitorPollError(p) \/ SshStep(p) \/ HandOffEnds(p)
  /\ UNCHANGED <<client, exitq>>

DaemonNext ==
  \/ \E s \in Sessions :
       Connect(s) \/ CommandStep(s) \/ LoginStep(s) \/ PeerReads(s) \/ PeerHangsUp(s)
  \/ \E p \in Procs : TunnelStep(p)
  \/ FatalSignal
  \/ MainExit

DaemonSpec == DaemonInit /\ [][DaemonNext]_daemonVars

\* On top of the fairness of Tunnels: a session is polled when its socket or
\* its PTY is ready, the main task when something is in its channel, a client
\* that stays reads what it is sent, and SSH reads its terminal.  That a
\* client sends a command or hangs up, that SSH prints anything and that a
\* call fails is not forced.
DaemonFairness ==
  /\ \A p \in Procs :
       /\ WF_daemonVars(Woken(p) /\ MonitorStep(p) /\ UNCHANGED <<client, exitq>>)
       /\ WF_daemonVars(HandOffEnds(p) /\ UNCHANGED <<client, exitq>>)
       /\ WF_daemonVars(SshSignalled(p) /\ UNCHANGED <<client, exitq>>)
  /\ \A s \in Sessions :
       /\ WF_daemonVars(RecvEof(s))
       /\ WF_daemonVars(client[s].peer # "up" /\ CommFails(s))
       /\ WF_daemonVars(CommSshEof(s))
       /\ WF_daemonVars(CommPoll(s, "none"))
       /\ WF_daemonVars(PollAborting(s))
       /\ WF_daemonVars(PeerReads(s))
  /\ WF_daemonVars(MainExit)

DaemonFairSpec == DaemonSpec /\ DaemonFairness
-----------------------------------------------------------------------------
(***************************************************************************)
(* Properties.                                                             *)
(***************************************************************************)

\* The master side of a PTY that is used for a login belongs to exactly one
\* session (CommunicatingForOpen holds ssh_tx and ssh_rx).  Were it to belong
\* to none, SSH would wait for a password for ever; were it to belong to two,
\* they would steal each other's text.
PtyHasOneOwner ==
  /\ \A s \in Sessions :
       /\ (client[s].state = "CommunicatingForOpen") <=> (client[s].ssh # NoProc)
       /\ client[s].ssh # NoProc => pty[client[s].ssh] = "session"
  /\ \A s, t \in Sessions :
       client[s].ssh = client[t].ssh /\ client[s].ssh # NoProc => s = t
  /\ \A p \in Procs : pty[p] = "session" => \E s \in Sessions : client[s].ssh = p

\* A session that awaits a command has nothing left to flush, so start_send
\* accepts the first Ok of process_open_command at once and its
\* panic!("cmon"), which would take the daemon and all tunnels down, is dead
\* code.
OpenNeverPanics ==
  \A s \in Sessions : client[s].state = "AwaitingCommand" => client[s].wbuf = 0

\* A tunnel that was handed off, so that its client is told of success, has
\* completed its login (poll_communicating_for_open).
SuccessMeansLoggedIn ==
  \A p \in Procs : pty[p] = "handoff" /\ Alive(p) => proc[p] = "online"

\* The sessions use the tunnels only as module Tunnels allows: every step of
\* the daemon is a step of the tunnels or leaves them alone, so that what is
\* shown of Tunnels holds of the daemon.
ImplementsTunnels == TunnelsSpec

\* A login whose SSH process is dead, or sentenced to death by another client's
\* close or by a failed monitor, does not go on: the daemon keeps "tabs on
\* whether SSH bites the dust under us".
DoomedLoginEnds ==
  \A s \in Sessions : \A p \in Procs :
    (client[s].ssh = p /\ (Doomed(p) \/ ~Alive(p))) ~> client[s].ssh # p

\* Once the key was seen the tunnel's fate is settled, however much text is
\* still to be flushed to the client and to SSH: it is handed off, or the
\* session is over and SSH with it.  It does not say that the client is told:
\* after the hand-off the session vanishes if the Ok does not fit the socket
\* at once (FinalizingTxn).
KeySeenIsSettled ==
  \A s \in Sessions : \A p \in Procs :
    (client[s].ssh = p /\ client[s].found) ~> (pty[p] = "handoff" \/ ~Alive(p) \/ sig[p])

\* A client that leaves in the middle of its login does not leave an SSH
\* process behind, unless the login was completed before that was noticed.
AbandonedLoginDies ==
  \A s \in Sessions : \A p \in Procs :
    (client[s].ssh = p /\ client[s].peer = "gone") ~> (~Alive(p) \/ pty[p] = "handoff")

\* A client that commanded the daemon to exit, read the answer and left does
\* stop the daemon (exit_on_close, process_client, serve).
ExitStopsDaemon ==
  \A s \in Sessions :
    (/\ client[s].state = "AwaitingCommand"
     /\ client[s].exit_on_close
     /\ client[s].peer = "gone"
     /\ client[s].unread = 0) ~> ~up
=============================================================================
