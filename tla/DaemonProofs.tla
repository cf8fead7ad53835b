---------------------------- MODULE DaemonProofs ----------------------------
(***************************************************************************)
(* Proofs about module Daemon, for any number of sessions, hosts and       *)
(* processes and any capacities: the sessions use the tunnels as module    *)
(* Tunnels allows, so that its invariants are invariants of the daemon,    *)
(* and a login's PTY always belongs to exactly one session.                *)
(***************************************************************************)
EXTENDS Daemon, TunnelsProofs

\* A step of the daemon is a step of the tunnels or leaves them alone.
LEMMA TunnelsStep ==
  ASSUME DaemonTypeOK, PtyHasOneOwner, [DaemonNext]_daemonVars
  PROVE  [TunnelsNext]_tunnelVars
<1>0. \A s \in Sessions : Communicating(s) => client[s].ssh \in Procs
  BY DEF Communicating, DaemonTypeOK, PtyHasOneOwner, ClientState
<1>1. ASSUME NEW s \in Sessions, CommandStep(s) PROVE [TunnelsNext]_tunnelVars
  BY <1>1 DEF CommandStep, RecvOpenAlreadyOpen, RecvOpen, RecvOpenFails, RecvClose,
              RecvQueryStatus, RecvExit, RecvGoodbye, RecvEof, RecvUnexpected, Finish,
              TunnelsNext, RegistryStep
<1>2. ASSUME NEW s \in Sessions, LoginStep(s) PROVE [TunnelsNext]_tunnelVars
  <2>1. CASE CommFails(s) \/ CommSshEof(s)
    BY <1>0, <2>1 DEF CommFails, CommSshEof, TunnelsNext, PtyStep
  <2>2. ASSUME NEW text \in {"none", "some", "key"}, CommPoll(s, text)
        PROVE  [TunnelsNext]_tunnelVars
    <3>1. Heeded(client[s], text).ssh = client[s].ssh
      BY DEF Heeded, DaemonTypeOK, ClientState
    <3> QED
      BY <1>0, <2>2, <3>1 DEF CommPoll, TunnelsNext, PtyStep
  <2>3. CASE PollAborting(s)
    BY <2>3 DEF PollAborting
  <2> QED
    BY <1>2, <2>1, <2>2, <2>3 DEF LoginStep
<1>3. ASSUME NEW s \in Sessions, Connect(s) \/ PeerReads(s) \/ PeerHangsUp(s)
      PROVE  [TunnelsNext]_tunnelVars
  BY <1>3 DEF Connect, PeerReads, PeerHangsUp
<1>4. ASSUME NEW p \in Procs, TunnelStep(p) PROVE [TunnelsNext]_tunnelVars
  BY <1>4 DEF TunnelStep, TunnelsNext, PtyStep
<1>5. CASE FatalSignal \/ MainExit
  BY <1>5 DEF FatalSignal, MainExit, TunnelsNext
<1>6. CASE UNCHANGED daemonVars
  BY <1>6 DEF daemonVars
<1> QED
  BY <1>1, <1>2, <1>3, <1>4, <1>5, <1>6 DEF DaemonNext
-----------------------------------------------------------------------------
(***************************************************************************)
(* The inductive invariant: what holds of each session by itself, and what *)
(* relates the sessions to the PTYs.                                       *)
(***************************************************************************)
ClientOK(c) ==
  /\ c \in ClientState
  /\ c.state = "CommunicatingForOpen" <=> c.ssh # NoProc
  /\ c.state = "AwaitingCommand" => c.wbuf = 0
  /\ c.state = "CommunicatingForOpen" => c.wbuf <= WBufCap
  /\ c.found => c.ssh # NoProc

\* The key is seen only once the login is complete.
FoundInv ==
  \A s \in Sessions : client[s].found => proc[client[s].ssh] # "login"

PtyInv ==
  /\ \A s \in Sessions : client[s].ssh # NoProc => pty[client[s].ssh] = "session"
  /\ \A s, t \in Sessions :
       client[s].ssh = client[t].ssh /\ client[s].ssh # NoProc => s = t
  /\ \A p \in Procs : pty[p] = "session" => \E s \in Sessions : client[s].ssh = p

DaemonInv ==
  /\ TunnelsTypeOK
  /\ DOMAIN client = Sessions
  /\ client = [s \in Sessions |-> client[s]]
  /\ \A s \in Sessions : ClientOK(client[s])
  /\ exitq \in BOOLEAN
  /\ PtyInv
  /\ FoundInv
  /\ SuccessMeansLoggedIn

\* The invariant contains the properties of the runs.
LEMMA InvImplies == DaemonInv => DaemonTypeOK /\ PtyHasOneOwner /\ OpenNeverPanics
<1> SUFFICES ASSUME DaemonInv PROVE DaemonTypeOK /\ PtyHasOneOwner /\ OpenNeverPanics
  OBVIOUS
<1>1. client \in [Sessions -> ClientState]
  BY DEF DaemonInv, ClientOK
<1>2. DaemonTypeOK
  BY <1>1 DEF DaemonInv, DaemonTypeOK
<1>3. PtyHasOneOwner
  BY DEF DaemonInv, PtyInv, ClientOK, PtyHasOneOwner
<1>4. OpenNeverPanics
  BY DEF DaemonInv, ClientOK, OpenNeverPanics
<1> QED
  BY <1>2, <1>3, <1>4
-----------------------------------------------------------------------------
(***************************************************************************)
(* What the operations on one session return.                              *)
(***************************************************************************)
LEMMA NoClientOK == ClientOK(NoClient) /\ NoClient.ssh = NoProc /\ ~NoClient.found
BY CapAssumption DEF ClientOK, NoClient, ClientState

LEMMA FlushOK ==
  ASSUME NEW c \in ClientState
  PROVE  /\ Flush(c) \in ClientState
         /\ Flush(c).wbuf <= c.wbuf
         /\ Flush(c).state = c.state /\ Flush(c).ssh = c.ssh /\ Flush(c).found = c.found
         /\ Flush(c).peer = c.peer
<1> DEFINE room == SockCap - c.unread
           n == IF c.wbuf < room THEN c.wbuf ELSE room
<1>1. /\ SockCap \in Nat /\ WBufCap \in Nat
      /\ c.unread \in 0..SockCap /\ c.wbuf \in 0..(WBufCap + 1)
  BY CapAssumption DEF ClientState
<1>2. n \in Nat /\ n <= c.wbuf /\ c.unread + n \in 0..SockCap
  BY <1>1
<1>3. c.wbuf - n \in 0..(WBufCap + 1) /\ c.wbuf - n <= c.wbuf
  BY <1>1, <1>2
<1>4. Flush(c) = [c EXCEPT !.unread = c.unread + n, !.wbuf = c.wbuf - n]
  BY DEF Flush
<1> HIDE DEF n
<1> QED
  BY <1>2, <1>3, <1>4 DEF ClientState

LEMMA FinalizingOK ==
  ASSUME NEW c \in ClientState, c.wbuf = 0
  PROVE  /\ ClientOK(FinalizingTxn(c))
         /\ FinalizingTxn(c).ssh = NoProc
         /\ ~FinalizingTxn(c).found
<1>1. CASE c.peer # "up" \/ c.unread = SockCap
  BY <1>1, NoClientOK DEF FinalizingTxn
<1>2. CASE ~(c.peer # "up" \/ c.unread = SockCap)
  <2> DEFINE d == [c EXCEPT !.state = "AwaitingCommand", !.ssh = NoProc, !.found = FALSE,
                            !.unread = c.unread + 1]
  <2>1. FinalizingTxn(c) = d
    BY <1>2 DEF FinalizingTxn
  <2>2. c.unread + 1 \in 0..SockCap
    BY <1>2, CapAssumption DEF ClientState
  <2>3. d \in ClientState
    BY <2>2 DEF ClientState
  <2>4. d.state = "AwaitingCommand" /\ d.ssh = NoProc /\ ~d.found /\ d.wbuf = 0
    BY DEF ClientState
  <2> QED
    BY <2>1, <2>3, <2>4 DEF ClientOK
<1> QED
  BY <1>1, <1>2

LEMMA AbortOK ==
  ASSUME NEW c \in ClientState, c.wbuf <= WBufCap
  PROVE  /\ ClientOK(AbortClient(c))
         /\ AbortClient(c).ssh = NoProc
         /\ ~AbortClient(c).found
<1> DEFINE d == [c EXCEPT !.state = "Aborting", !.ssh = NoProc, !.found = FALSE,
                          !.wbuf = c.wbuf + 1]
<1>1. AbortClient(c) = d
  BY DEF AbortClient
<1>2. c.wbuf + 1 \in 0..(WBufCap + 1)
  BY CapAssumption DEF ClientState
<1>3. d \in ClientState
  BY <1>2 DEF ClientState
<1>4. d.state = "Aborting" /\ d.ssh = NoProc /\ ~d.found
  BY DEF ClientState
<1> QED
  BY <1>1, <1>3, <1>4 DEF ClientOK

LEMMA HeardOK ==
  ASSUME NEW c \in ClientState
  PROVE  /\ Heard(c) \in ClientState
         /\ Heard(c).wbuf = c.wbuf /\ Heard(c).ssh = c.ssh /\ Heard(c).found = c.found
BY DEF Heard, ClientState

LEMMA HeededOK ==
  ASSUME NEW c, ClientOK(c), c.state = "CommunicatingForOpen",
         NEW text \in {"none", "some", "key"}
  PROVE  /\ ClientOK(Heeded(c, text))
         /\ Heeded(c, text).state = c.state /\ Heeded(c, text).ssh = c.ssh
         /\ Heeded(c, text).peer = c.peer
         /\ Heeded(c, text).found => c.found \/ text = "key"
<1>1. CASE text = "key"
  BY <1>1 DEF Heeded, ClientOK, ClientState
<1>2. CASE text = "some" /\ ~c.found /\ c.wbuf < WBufCap
  <2>1. c.wbuf + 1 \in 0..(WBufCap + 1) /\ c.wbuf + 1 <= WBufCap
    BY <1>2, CapAssumption DEF ClientOK, ClientState
  <2>2. Heeded(c, text) = [c EXCEPT !.wbuf = c.wbuf + 1]
    BY <1>2 DEF Heeded
  <2> QED
    BY <2>1, <2>2 DEF ClientOK, ClientState
<1>3. CASE text # "key" /\ ~(text = "some" /\ ~c.found /\ c.wbuf < WBufCap)
  BY <1>3 DEF Heeded
<1> QED
  BY <1>1, <1>2, <1>3
-----------------------------------------------------------------------------
(***************************************************************************)
(* How a step may change the sessions together with the PTYs.              *)
(***************************************************************************)

\* One session changes and stays well-formed.
LEMMA SessionChange ==
  ASSUME DaemonInv, NEW s \in Sessions, NEW c, ClientOK(c),
         client' = [client EXCEPT ![s] = c]
  PROVE  /\ (DOMAIN client = Sessions)'
         /\ (client = [t \in Sessions |-> client[t]])'
         /\ (\A t \in Sessions : ClientOK(client[t]))'
         /\ client'[s] = c
         /\ \A t \in Sessions : t # s => client'[t] = client[t]
<1>1. client'[s] = c /\ DOMAIN client' = Sessions
  BY DEF DaemonInv
<1>2. \A t \in Sessions : t # s => client'[t] = client[t]
  BY DEF DaemonInv
<1>3. client' = [t \in Sessions |-> client'[t]]
  BY DEF DaemonInv
<1>4. \A t \in Sessions : ClientOK(client'[t])
  BY <1>1, <1>2 DEF DaemonInv
<1> QED
  BY <1>1, <1>2, <1>3, <1>4

\* A session that keeps the process it has, or has none, and does not take
\* the key for seen before the login is complete.
LEMMA KeepsProcess ==
  ASSUME DaemonInv, TunnelsTypeOK', exitq' \in BOOLEAN,
         NEW s \in Sessions, NEW c, ClientOK(c), client' = [client EXCEPT ![s] = c],
         c.ssh = client[s].ssh,
         c.found => client[s].found \/ proc[c.ssh] # "login",
         pty' = pty, proc' = proc
  PROVE  DaemonInv'
<1>0. \A t \in Sessions : client'[t].ssh = client[t].ssh
  BY SessionChange
<1>1. PtyInv'
  BY <1>0 DEF DaemonInv, PtyInv
<1>2. FoundInv'
  BY SessionChange DEF DaemonInv, FoundInv
<1>3. SuccessMeansLoggedIn'
  BY DEF DaemonInv, SuccessMeansLoggedIn, Alive
<1> QED
  BY <1>1, <1>2, <1>3, SessionChange DEF DaemonInv

\* A session that gives its process up: the PTY is dropped, or handed off
\* when the login is complete.
LEMMA ReleasesProcess ==
  ASSUME DaemonInv, TunnelsTypeOK', exitq' \in BOOLEAN,
         NEW s \in Sessions, NEW c, ClientOK(c), client' = [client EXCEPT ![s] = c],
         c.ssh = NoProc, ~c.found,
         NEW p \in Procs, client[s].ssh = p,
         NEW v \in {"none", "handoff"}, v = "handoff" => proc[p] # "login",
         pty' = [pty EXCEPT ![p] = v], proc' = proc
  PROVE  DaemonInv'
<1>0. pty'[p] = v /\ \A q \in Procs : q # p => pty'[q] = pty[q]
  BY DEF DaemonInv, TunnelsTypeOK
<1>1. PtyInv'
  <2>1. \A t \in Sessions : client'[t].ssh # NoProc => t # s /\ client'[t] = client[t]
    BY SessionChange
  <2>2. \A t \in Sessions : t # s => client[t].ssh # p
    BY NoProcAssumption DEF DaemonInv, PtyInv
  <2>3. \A t \in Sessions : client'[t].ssh # NoProc => client'[t].ssh \in Procs \ {p}
    BY <2>1, <2>2 DEF DaemonInv, ClientOK, ClientState
  <2>4. \A t \in Sessions : client'[t].ssh # NoProc => pty'[client'[t].ssh] = "session"
    BY <1>0, <2>1, <2>3 DEF DaemonInv, PtyInv
  <2>5. \A t, u \in Sessions :
          client'[t].ssh = client'[u].ssh /\ client'[t].ssh # NoProc => t = u
    BY <2>1 DEF DaemonInv, PtyInv
  <2>6. ASSUME NEW q \in Procs, pty'[q] = "session"
        PROVE  \E t \in Sessions : client'[t].ssh = q
    <3>1. q # p /\ pty[q] = "session"
      BY <1>0, <2>6
    <3>2. PICK t \in Sessions : client[t].ssh = q
      BY <3>1 DEF DaemonInv, PtyInv
    <3> QED
      BY <3>1, <3>2, SessionChange
  <2> QED
    BY <2>4, <2>5, <2>6 DEF PtyInv
<1>2. FoundInv'
  BY SessionChange DEF DaemonInv, FoundInv
<1>3. SuccessMeansLoggedIn'
  BY <1>0 DEF DaemonInv, SuccessMeansLoggedIn, Alive
<1> QED
  BY <1>1, <1>2, <1>3, SessionChange DEF DaemonInv

\* A session without a process gets a fresh one.
LEMMA AcquiresProcess ==
  ASSUME DaemonInv, TunnelsTypeOK', exitq' \in BOOLEAN,
         NEW s \in Sessions, NEW c, ClientOK(c), client' = [client EXCEPT ![s] = c],
         NEW p \in Procs, c.ssh = p, ~c.found, client[s].ssh = NoProc,
         pty[p] = "none", pty' = [pty EXCEPT ![p] = "session"],
         proc' = [proc EXCEPT ![p] = "login"]
  PROVE  DaemonInv'
<1>0. /\ pty'[p] = "session" /\ \A q \in Procs : q # p => pty'[q] = pty[q]
      /\ \A q \in Procs : q # p => proc'[q] = proc[q]
  BY DEF DaemonInv, TunnelsTypeOK
<1>1. \A t \in Sessions : client[t].ssh # p
  BY NoProcAssumption DEF DaemonInv, PtyInv
<1>2. \A t \in Sessions : client[t].ssh \in Procs \cup {NoProc}
  BY DEF DaemonInv, ClientOK, ClientState
<1>3. PtyInv'
  <2>1. \A t \in Sessions : client'[t].ssh # NoProc => pty'[client'[t].ssh] = "session"
    BY <1>0, <1>1, <1>2, SessionChange DEF DaemonInv, PtyInv
  <2>2. \A t, u \in Sessions :
          client'[t].ssh = client'[u].ssh /\ client'[t].ssh # NoProc => t = u
    BY <1>1, SessionChange DEF DaemonInv, PtyInv
  <2>3. ASSUME NEW q \in Procs, pty'[q] = "session"
        PROVE  \E t \in Sessions : client'[t].ssh = q
    <3>1. CASE q = p
      BY <3>1, SessionChange
    <3>2. CASE q # p
      <4>1. PICK t \in Sessions : client[t].ssh = q
        BY <1>0, <2>3, <3>2 DEF DaemonInv, PtyInv
      <4>2. t # s
        BY <4>1, NoProcAssumption
      <4> QED
        BY <4>1, <4>2, SessionChange
    <3> QED
      BY <3>1, <3>2
  <2> QED
    BY <2>1, <2>2, <2>3 DEF PtyInv
<1>4. FoundInv'
  <2>1. \A t \in Sessions : client[t].found => client[t].ssh \in Procs \ {p}
    BY <1>1, <1>2 DEF DaemonInv, ClientOK
  <2> QED
    BY <1>0, <2>1, SessionChange DEF DaemonInv, FoundInv
<1>5. SuccessMeansLoggedIn'
  BY <1>0 DEF DaemonInv, SuccessMeansLoggedIn, Alive
<1> QED
  BY <1>3, <1>4, <1>5, SessionChange DEF DaemonInv
-----------------------------------------------------------------------------
(***************************************************************************)
(* The steps.                                                              *)
(***************************************************************************)

\* A command: it ends or goes on without a process, or it gets a fresh one.
LEMMA CommandInv ==
  ASSUME DaemonInv, TunnelsTypeOK', NEW s \in Sessions, CommandStep(s)
  PROVE  DaemonInv'
<1>0. /\ ClientOK(client[s]) /\ client[s] \in ClientState
      /\ client[s].state = "AwaitingCommand" /\ client[s].ssh = NoProc
      /\ ~client[s].found /\ client[s].wbuf = 0
  <2>1. client[s].state = "AwaitingCommand"
    BY DEF CommandStep, RecvOpenAlreadyOpen, RecvOpen, RecvOpenFails, RecvClose,
           RecvQueryStatus, RecvExit, RecvGoodbye, RecvEof, RecvUnexpected, HasCommand
  <2> QED
    BY <2>1 DEF DaemonInv, ClientOK
<1>1. exitq' \in BOOLEAN
  BY DEF CommandStep, RecvOpenAlreadyOpen, RecvOpen, RecvOpenFails, RecvClose,
         RecvQueryStatus, RecvExit, RecvGoodbye, RecvEof, RecvUnexpected, Finish,
         DaemonInv
<1>2. ASSUME NEW c, ClientOK(c), c.ssh = NoProc, ~c.found, Becomes(s, c),
             pty' = pty, proc' = proc
      PROVE  DaemonInv'
  BY <1>0, <1>1, <1>2, KeepsProcess DEF Becomes
<1>3. ClientOK(FinalizingTxn(client[s])) /\ FinalizingTxn(client[s]).ssh = NoProc
      /\ ~FinalizingTxn(client[s]).found
  BY <1>0, FinalizingOK
<1>4. /\ Heard(client[s]) \in ClientState /\ Heard(client[s]).wbuf = 0
      /\ ~Heard(client[s]).found
  BY <1>0, HeardOK
<1>5. LET c == AbortClient(Heard(client[s]))
      IN  ClientOK(c) /\ c.ssh = NoProc /\ ~c.found
  BY <1>4, AbortOK, CapAssumption
<1>6. ASSUME NEW h \in Hosts, RecvOpenAlreadyOpen(s, h) PROVE DaemonInv'
  BY <1>2, <1>3, <1>6 DEF RecvOpenAlreadyOpen, tunnelVars
<1>7. ASSUME NEW h \in Hosts, NEW p \in Procs, RecvOpen(s, h, p) PROVE DaemonInv'
  <2> DEFINE d == [Heard(client[s]) EXCEPT !.state = "CommunicatingForOpen",
                                           !.ssh = p, !.wbuf = 1]
  <2>1. Becomes(s, d)
    BY <1>4, <1>7 DEF RecvOpen
  <2>2. 1 \in 0..(WBufCap + 1) /\ 1 <= WBufCap
    BY CapAssumption
  <2>3. /\ d \in ClientState /\ d.ssh = p /\ ~d.found
        /\ d.state = "CommunicatingForOpen" /\ d.wbuf = 1
    BY <1>4, <2>2 DEF ClientState
  <2>4. ClientOK(d)
    BY <2>2, <2>3, NoProcAssumption DEF ClientOK
  <2> HIDE DEF d
  <2> QED
    BY <1>0, <1>1, <1>7, <2>1, <2>3, <2>4, AcquiresProcess
    DEF RecvOpen, SpawnTunnel, Fresh, Becomes
<1>8. ASSUME NEW h \in Hosts, RecvOpenFails(s, h) PROVE DaemonInv'
  BY <1>2, <1>5, <1>8 DEF RecvOpenFails, tunnelVars
<1>9. ASSUME NEW h \in Hosts, RecvClose(s, h) PROVE DaemonInv'
  BY <1>2, <1>3, <1>5, <1>9 DEF RecvClose, CloseRunning, CloseNotOpen, CloseBroken
<1>10. CASE RecvQueryStatus(s)
  BY <1>2, <1>3, <1>10 DEF RecvQueryStatus, tunnelVars
<1>11. CASE RecvExit(s)
  <2> DEFINE d == [client[s] EXCEPT !.exit_on_close = TRUE]
  <2>1. d \in ClientState /\ d.wbuf = 0
    BY <1>0 DEF ClientState
  <2>2. Becomes(s, FinalizingTxn(d)) /\ pty' = pty /\ proc' = proc
    BY <1>11 DEF RecvExit, tunnelVars
  <2> HIDE DEF d
  <2> QED
    BY <1>2, <2>1, <2>2, FinalizingOK
<1>12. CASE RecvGoodbye(s) \/ RecvEof(s) \/ RecvUnexpected(s)
  BY <1>2, <1>12, NoClientOK DEF RecvGoodbye, RecvEof, RecvUnexpected, Finish, tunnelVars
<1> QED
  BY <1>6, <1>7, <1>8, <1>9, <1>10, <1>11, <1>12 DEF CommandStep

\* A poll of a login or of an aborted session.
LEMMA LoginInv ==
  ASSUME DaemonInv, TunnelsTypeOK', NEW s \in Sessions, LoginStep(s)
  PROVE  DaemonInv'
<1>0. ClientOK(client[s]) /\ client[s] \in ClientState
  BY DEF DaemonInv, ClientOK
<1>1. exitq' \in BOOLEAN
  BY DEF LoginStep, CommFails, CommSshEof, CommPoll, PollAborting, DaemonInv
<1>2. ASSUME Communicating(s) PROVE client[s].ssh \in Procs /\ client[s].wbuf <= WBufCap
  BY <1>0, <1>2 DEF Communicating, ClientOK, ClientState
<1>3. ASSUME NEW c, ClientOK(c), c.ssh = NoProc, ~c.found, Becomes(s, c),
             Communicating(s), DropPty(client[s].ssh)
      PROVE  DaemonInv'
  BY <1>1, <1>2, <1>3, ReleasesProcess DEF Becomes, DropPty
<1>4. CASE CommFails(s)
  BY <1>3, <1>4, NoClientOK DEF CommFails
<1>5. CASE CommSshEof(s)
  BY <1>0, <1>2, <1>3, <1>5, AbortOK DEF CommSshEof
<1>6. ASSUME NEW text \in {"none", "some", "key"}, CommPoll(s, text) PROVE DaemonInv'
  <2> DEFINE c == Heeded(client[s], text)
             flushed == Flush(c)
  <2>1. Communicating(s) /\ client[s].state = "CommunicatingForOpen"
    BY <1>6 DEF CommPoll, Communicating
  <2>2. /\ ClientOK(c) /\ c.ssh = client[s].ssh /\ c.state = client[s].state
        /\ c.found => client[s].found \/ text = "key"
    BY <1>0, <2>1, HeededOK
  <2>3. c.found => proc[c.ssh] # "login"
    BY <1>6, <2>2 DEF CommPoll, DaemonInv, FoundInv
  <2> HIDE DEF c
  <2>4. /\ flushed \in ClientState /\ flushed.wbuf <= c.wbuf /\ flushed.state = c.state
        /\ flushed.ssh = c.ssh /\ flushed.found = c.found
    BY <2>2, FlushOK DEF ClientOK
  <2>5. ClientOK(flushed)
    <3>1. c.wbuf <= WBufCap /\ c.wbuf \in Nat /\ WBufCap \in Nat /\ flushed.wbuf \in Nat
      BY <2>1, <2>2, <2>4, CapAssumption DEF ClientOK, ClientState
    <3>2. flushed.wbuf <= WBufCap
      BY <2>4, <3>1
    <3> HIDE DEF flushed
    <3> QED
      BY <2>1, <2>2, <2>4, <3>2 DEF ClientOK
  <2> HIDE DEF flushed
  <2>6. CASE Becomes(s, NoClient) /\ DropPty(c.ssh)
    BY <1>3, <2>1, <2>2, <2>6, NoClientOK
  <2>7. CASE Becomes(s, flushed) /\ UNCHANGED tunnelVars
    BY <1>1, <2>2, <2>3, <2>4, <2>5, <2>7, KeepsProcess DEF Becomes, tunnelVars
  <2>8. CASE flushed.wbuf = 0 /\ c.found /\ Becomes(s, FinalizingTxn(flushed)) /\ HandOff(c.ssh)
    <3> DEFINE d == FinalizingTxn(flushed)
    <3>1. ClientOK(d) /\ d.ssh = NoProc /\ ~d.found
      BY <2>4, <2>8, FinalizingOK
    <3> HIDE DEF d
    <3>2. client' = [client EXCEPT ![s] = d]
      BY <2>8 DEF d, Becomes
    <3>3. pty' = [pty EXCEPT ![client[s].ssh] = "handoff"] /\ proc' = proc
      BY <2>2, <2>8 DEF HandOff
    <3> QED
      BY <1>1, <1>2, <2>1, <2>2, <2>3, <2>8, <3>1, <3>2, <3>3, ReleasesProcess
  <2> QED
    BY <1>6, <2>6, <2>7, <2>8 DEF CommPoll, c, flushed
<1>7. CASE PollAborting(s)
  <2>1. client[s].state = "Aborting" /\ client[s].ssh = NoProc /\ ~client[s].found
    BY <1>0, <1>7 DEF PollAborting, ClientOK
  <2>2. ClientOK(Flush(client[s])) /\ Flush(client[s]).ssh = NoProc /\ ~Flush(client[s]).found
    BY <1>0, <2>1, FlushOK DEF ClientOK
  <2>3. pty' = pty /\ proc' = proc
    BY <1>7 DEF PollAborting, tunnelVars
  <2>4. CASE Becomes(s, Flush(client[s]))
    BY <1>1, <2>1, <2>2, <2>3, <2>4, KeepsProcess DEF Becomes
  <2>5. CASE Becomes(s, NoClient)
    BY <1>1, <2>1, <2>3, <2>5, KeepsProcess, NoClientOK DEF Becomes
  <2> QED
    BY <1>7, <2>4, <2>5 DEF PollAborting
<1> QED
  BY <1>4, <1>5, <1>6, <1>7 DEF LoginStep

\* A client connects, reads or leaves.
LEMMA PeerInv ==
  ASSUME DaemonInv, TunnelsTypeOK', NEW s \in Sessions,
         Connect(s) \/ PeerReads(s) \/ PeerHangsUp(s)
  PROVE  DaemonInv'
<1>0. ClientOK(client[s]) /\ client[s] \in ClientState
  BY DEF DaemonInv, ClientOK
<1>1. exitq' \in BOOLEAN /\ pty' = pty /\ proc' = proc
  BY DEF Connect, PeerReads, PeerHangsUp, tunnelVars, DaemonInv
<1>2. ASSUME NEW c, ClientOK(c), c.ssh = client[s].ssh, c.found = client[s].found,
             Becomes(s, c)
      PROVE  DaemonInv'
  BY <1>1, <1>2, KeepsProcess DEF Becomes
<1>3. CASE Connect(s)
  <2> DEFINE d == [NoClient EXCEPT !.state = "AwaitingCommand", !.peer = "up"]
  <2>1. ClientOK(d) /\ d.ssh = NoProc /\ ~d.found
    BY NoClientOK, CapAssumption DEF NoClient, ClientOK, ClientState
  <2>2. client[s].ssh = NoProc /\ ~client[s].found
    BY <1>0, <1>3 DEF Connect, SessionLive, ClientOK
  <2>3. Becomes(s, d)
    BY <1>3 DEF Connect
  <2> HIDE DEF d
  <2> QED
    BY <1>1, <2>1, <2>2, <2>3, KeepsProcess DEF Becomes
<1>4. CASE PeerReads(s)
  <2> DEFINE n == client[s].unread - 1
             d == [client[s] EXCEPT !.unread = n]
  <2>1. n \in 0..SockCap
    BY <1>0, <1>4, CapAssumption DEF PeerReads, ClientState
  <2>2. Becomes(s, d)
    BY <1>4 DEF PeerReads
  <2> HIDE DEF n
  <2>3. ClientOK(d) /\ d.ssh = client[s].ssh /\ d.found = client[s].found
    BY <1>0, <2>1 DEF ClientOK, ClientState
  <2> QED
    BY <1>2, <2>2, <2>3
<1>5. CASE PeerHangsUp(s)
  <2>1. ASSUME NEW v \in {"gone", "parting"}, Becomes(s, [client[s] EXCEPT !.peer = v])
        PROVE  DaemonInv'
    <3> DEFINE d == [client[s] EXCEPT !.peer = v]
    <3>1. ClientOK(d) /\ d.ssh = client[s].ssh /\ d.found = client[s].found
      BY <1>0 DEF ClientOK, ClientState
    <3> QED
      BY <1>2, <2>1, <3>1
  <2> QED
    BY <1>5, <2>1 DEF PeerHangsUp
<1> QED
  BY <1>3, <1>4, <1>5

\* A monitor or an SSH process moves: no PTY changes hands, and no process
\* returns to its login.
LEMMA TunnelInv ==
  ASSUME DaemonInv, TunnelsTypeOK', NEW p \in Procs, TunnelStep(p)
  PROVE  DaemonInv'
<1>0. client' = client /\ exitq' = exitq
  BY DEF TunnelStep
<1>1. \A q \in Procs : proc'[q] = "login" => proc[q] = "login"
  <2>1. ASSUME NEW st, Report(p, st) PROVE \A q \in Procs : proc'[q] = "login" => proc[q] = "login"
    BY <2>1 DEF Report, DaemonInv, TunnelsTypeOK
  <2> QED
    BY <2>1 DEF TunnelStep, MonitorStep, MonitorChildDied, MonitorPending, MonitorKill,
                MonitorCanceled, MonitorReaped, MonitorPollError, SshStep, SshLogin, SshExits,
                SshExitsUnheard, HandOffEnds, DaemonInv, TunnelsTypeOK
<1>2. \A q \in Procs : pty'[q] = pty[q] \/ (pty[q] = "handoff" /\ pty'[q] = "none")
  <2>1. CASE MonitorStep(p)
    BY <2>1 DEF MonitorStep, MonitorChildDied, MonitorPending, MonitorKill, MonitorCanceled,
                MonitorReaped, Report
  <2>2. CASE MonitorPollError(p) \/ SshStep(p)
    BY <2>2 DEF MonitorPollError, SshStep, SshLogin, SshExits, SshExitsUnheard
  <2>3. CASE HandOffEnds(p)
    BY <2>3 DEF HandOffEnds, DaemonInv, TunnelsTypeOK
  <2> QED
    BY <2>1, <2>2, <2>3 DEF TunnelStep
<1>3. \A s \in Sessions : client[s].ssh \in Procs \cup {NoProc}
                        /\ (client[s].found => client[s].ssh \in Procs)
  BY DEF DaemonInv, ClientOK, ClientState
<1>4. PtyInv'
  BY <1>0, <1>2, <1>3 DEF DaemonInv, PtyInv
<1>5. FoundInv'
  BY <1>0, <1>1, <1>3 DEF DaemonInv, FoundInv
<1>6. SuccessMeansLoggedIn'
  <2>1. \A q \in Procs : pty[q] = "handoff" => proc[q] # "login"
    BY DEF DaemonInv, SuccessMeansLoggedIn, Alive
  <2>2. \A q \in Procs : pty'[q] = "handoff" => proc'[q] # "login"
    BY <1>1, <1>2, <2>1
  <2> QED
    BY <2>2 DEF SuccessMeansLoggedIn, Alive
<1> QED
  BY <1>0, <1>4, <1>5, <1>6 DEF DaemonInv

\* The daemon stops: there are no sessions and no PTYs any more.
LEMMA MainExitInv ==
  ASSUME DaemonInv, TunnelsTypeOK', MainExit
  PROVE  DaemonInv'
<1>1. client' = [s \in Sessions |-> NoClient] /\ exitq' = exitq
  BY DEF MainExit
<1>2. pty' = [p \in Procs |-> "none"]
  BY DEF MainExit, Shutdown
<1>3. PtyInv' /\ FoundInv'
  BY <1>1, <1>2, NoClientOK DEF PtyInv, FoundInv
<1>4. SuccessMeansLoggedIn'
  BY <1>2 DEF SuccessMeansLoggedIn
<1>5. \A s \in Sessions : ClientOK(client'[s])
  BY <1>1, NoClientOK
<1> QED
  BY <1>1, <1>3, <1>4, <1>5 DEF DaemonInv
-----------------------------------------------------------------------------
\* The invariant is inductive.
LEMMA DaemonInvStep == DaemonInv /\ [DaemonNext]_daemonVars => DaemonInv'
<1> SUFFICES ASSUME DaemonInv, [DaemonNext]_daemonVars PROVE DaemonInv'
  OBVIOUS
<1>1. TunnelsTypeOK'
  BY InvImplies, TunnelsStep, TypeStep DEF DaemonInv
<1>2. CASE FatalSignal
  BY <1>1, <1>2 DEF FatalSignal, tunnelVars, DaemonInv, PtyInv, FoundInv,
                    SuccessMeansLoggedIn, Alive
<1>3. CASE UNCHANGED daemonVars
  BY <1>1, <1>3 DEF daemonVars, tunnelVars, DaemonInv, PtyInv, FoundInv,
                    SuccessMeansLoggedIn, Alive
<1> QED
  BY <1>1, <1>2, <1>3, CommandInv, LoginInv, PeerInv, TunnelInv, MainExitInv DEF DaemonNext

\* The sessions, the PTYs and the login marker stay consistent in every
\* reachable state of the daemon.
THEOREM DaemonInvHolds == DaemonSpec => []DaemonInv
<1>1. DaemonInit => DaemonInv
  <2> SUFFICES ASSUME DaemonInit PROVE DaemonInv
    OBVIOUS
  <2>1. TunnelsTypeOK
    BY TypeInit DEF DaemonInit
  <2>2. client = [s \in Sessions |-> NoClient] /\ exitq = FALSE /\ pty = [p \in Procs |-> "none"]
    BY DEF DaemonInit, TunnelsInit
  <2> QED
    BY <2>1, <2>2, NoClientOK DEF DaemonInv, PtyInv, FoundInv, SuccessMeansLoggedIn
<1> QED
  BY <1>1, DaemonInvStep, PTL DEF DaemonSpec

\* Every reachable state of the daemon is well-typed; in particular the write
\* buffer never holds more than one message beyond its limit.
THEOREM DaemonTypeCorrect == DaemonSpec => []DaemonTypeOK
BY DaemonInvHolds, InvImplies, PTL

\* The PTY of a login has exactly one owner.
THEOREM PtyHasOneOwnerHolds == DaemonSpec => []PtyHasOneOwner
BY DaemonInvHolds, InvImplies, PTL

\* The panic in process_open_command is dead code.
THEOREM OpenNeverPanicsHolds == DaemonSpec => []OpenNeverPanics
BY DaemonInvHolds, InvImplies, PTL

\* Only a login that completed is handed off and reported as a success.
THEOREM SuccessMeansLoggedInHolds == DaemonSpec => []SuccessMeansLoggedIn
<1>1. DaemonInv => SuccessMeansLoggedIn
  BY DEF DaemonInv
<1> QED
  BY <1>1, DaemonInvHolds, PTL

\* The daemon's sessions use the tunnels only as module Tunnels allows.
THEOREM DaemonImplementsTunnels == DaemonSpec => ImplementsTunnels
<1>1. DaemonInit => TunnelsInit
  BY DEF DaemonInit
<1>2. DaemonInv /\ [DaemonNext]_daemonVars => [TunnelsNext]_tunnelVars
  BY InvImplies, TunnelsStep
<1> QED
  BY <1>1, <1>2, DaemonInvHolds, PTL DEF DaemonSpec, ImplementsTunnels, TunnelsSpec

\* So what was proved of the tunnels holds of the daemon: no SSH process
\* escapes it, and none is left when it stops.
THEOREM DaemonLosesNoTunnel == DaemonSpec => [](NoOrphan /\ NoTunnelWithoutDaemon)
BY DaemonImplementsTunnels, NoOrphanHolds, NoTunnelWithoutDaemonHolds, PTL
   DEF ImplementsTunnels
=============================================================================
