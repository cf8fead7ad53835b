------------------------------ MODULE Tunnels ------------------------------
(***************************************************************************)
(* The SSH tunnels of one stund daemon: the registry State::children, the  *)
(* ChildMonitor task that owns each SSH process, the oneshot "kill"        *)
(* channel between the two, the PTY that ties the process to the daemon,   *)
(* and the processes themselves.                                           *)
(*                                                                         *)
(* The daemon is one thread (a tokio_core reactor), so a poll of one task  *)
(* is atomic with respect to the other tasks; the SSH processes run beside *)
(* it.  Who asks for a tunnel to be opened or closed is left to the        *)
(* environment here; module Daemon adds the client sessions.               *)
(*                                                                         *)
(* A member of Procs names an SSH process together with its monitor, its   *)
(* kill channel and its PTY.  It is used again once all four are finished, *)
(* so behaviours are unbounded although Procs is finite.                   *)
(***************************************************************************)

CONSTANTS Hosts,  \* the host names clients ask for
          Procs,  \* identities for SSH processes
          NoHost  \* the key of a monitor that was never started

ASSUME NoHostAssumption == NoHost \notin Hosts

VARIABLES
  up,        \* is the daemon process running?
  children,  \* State::children, a TunnelState or Absent for every host
  mon,       \* the state of each process's ChildMonitor; "none" if there is no
             \* such task, not yet or not any more
  key,       \* ChildMonitor::key, the host the monitor was started for
  kill,      \* the oneshot kill channel, as its receiver sees it; "none" if
             \* the receiver is gone
  proc,      \* the operating system's view of each SSH process; "none" before
             \* it is launched and after it is reaped
  sig,       \* has SIGKILL or SIGHUP been sent to the process?
  pty,       \* who holds the master side of the process's PTY
  closed,    \* history: the hosts for which a kill order was ever sent
  handler,   \* has the first poll of a Child installed the handler for SIGCHLD?
  unheard    \* dead processes, waited for by a monitor, whose SIGCHLD came before
             \* the handler; no other SIGCHLD has come since

chldVars == <<handler, unheard>>
tunnelVars == <<up, children, mon, key, kill, proc, sig, pty, closed, chldVars>>

(***************************************************************************)
(* The values of State::children.  Dropping a Running value drops the      *)
(* sender of the kill channel with it.                                     *)
(***************************************************************************)
Absent      == [tag |-> "Absent"]
Running(p)  == [tag |-> "Running", tx_kill |-> p]
Exited(st)  == [tag |-> "Exited", status |-> st]  \* "None": killed by order

TunnelState ==
  {Absent} \cup {Running(p) : p \in Procs} \cup {Exited(st) : st \in {"None", "Some"}}

MonitorState == {"none", "AwaitingChildEvent", "AwaitingChildReaped", "ChildError"}

Alive(p) == proc[p] \in {"login", "online"}

\* The monitor still owns the Child value, hence an unreaped process.
OwnsChild(p) == mon[p] \in {"AwaitingChildEvent", "AwaitingChildReaped"}

\* The receiver of the kill channel lives in the first state of the monitor.
ReceiverLive(p) == mon[p] = "AwaitingChildEvent"

\* Nothing is left of an earlier use of p.
Fresh(p) == proc[p] = "none" /\ mon[p] = "none" /\ pty[p] = "none"

TunnelsTypeOK ==
  /\ up \in BOOLEAN
  /\ children \in [Hosts -> TunnelState]
  /\ mon \in [Procs -> MonitorState]
  /\ key \in [Procs -> Hosts \cup {NoHost}]
  /\ kill \in [Procs -> {"none", "open", "sent", "canceled"}]
  /\ proc \in [Procs -> {"none", "login", "online", "zombie"}]
  /\ sig \in [Procs -> BOOLEAN]
  /\ pty \in [Procs -> {"none", "session", "handoff"}]
  /\ closed \in SUBSET Hosts
  /\ handler \in BOOLEAN /\ unheard \in SUBSET Procs

TunnelsInit ==
  /\ up = TRUE
  /\ children = [h \in Hosts |-> Absent]
  /\ mon = [p \in Procs |-> "none"]
  /\ key = [p \in Procs |-> NoHost]
  /\ kill = [p \in Procs |-> "none"]
  /\ proc = [p \in Procs |-> "none"]
  /\ sig = [p \in Procs |-> FALSE]
  /\ pty = [p \in Procs |-> "none"]
  /\ closed = {}
  /\ handler = FALSE /\ unheard = {}
-----------------------------------------------------------------------------
(***************************************************************************)
(* The registry.                                                           *)
(***************************************************************************)

\* kill after the value old of State::children has been dropped: a monitor
\* that listens gets Canceled.
DropSender(old) ==
  IF old.tag = "Running" /\ ReceiverLive(old.tx_kill)
  THEN [kill EXCEPT ![old.tx_kill] = "canceled"]
  ELSE kill

\* process_status_query: what is reported for an entry, "NotListed" if there is
\* none.
StatusOf(entry) ==
  CASE entry = Absent          -> "NotListed"
    [] entry = Exited("None")  -> "Closed"
    [] entry = Exited("Some")  -> "Died"
    [] OTHER                   -> "Open"

\* process_open_command, when no Running entry is in the way and SSH can be
\* launched: create the PTY and the process, spawn the monitor task, insert
\* the entry.  handle.spawn only queues the monitor, so it cannot be polled
\* before the entry is there.
SpawnTunnel(h, p) ==
  /\ up
  /\ children[h].tag # "Running"
  /\ Fresh(p)
  /\ children' = [children EXCEPT ![h] = Running(p)]
  /\ kill' = [kill EXCEPT ![p] = "open"]
  /\ mon' = [mon EXCEPT ![p] = "AwaitingChildEvent"]
  /\ key' = [key EXCEPT ![p] = h]
  /\ proc' = [proc EXCEPT ![p] = "login"]
  /\ sig' = [sig EXCEPT ![p] = FALSE]
  /\ pty' = [pty EXCEPT ![p] = "session"]
  /\ UNCHANGED <<up, closed, chldVars>>

\* Mutant: look the entry up, but do not remove it.
CloseRunningKeepsEntry(h) ==
  /\ up
  /\ children[h].tag = "Running"
  /\ LET p == children[h].tx_kill IN
       /\ ReceiverLive(p)
       /\ kill' = [kill EXCEPT ![p] = "sent"]
  /\ closed' = closed \cup {h}
  /\ UNCHANGED <<up, children, mon, key, proc, sig, pty, chldVars>>

\* process_close_command, entry Running, tx_kill.send(()) succeeds.
CloseRunning(h) ==
  /\ up
  /\ children[h].tag = "Running"
  /\ LET p == children[h].tx_kill IN
       /\ ReceiverLive(p)
       /\ kill' = [kill EXCEPT ![p] = "sent"]
  /\ children' = [children EXCEPT ![h] = Absent]
  /\ closed' = closed \cup {h}
  /\ UNCHANGED <<up, mon, key, proc, sig, pty, chldVars>>

\* process_close_command, entry Running, but the monitor has failed and with
\* it the receiver is gone: send fails.
CloseBroken(h) ==
  /\ up
  /\ children[h].tag = "Running"
  /\ ~ReceiverLive(children[h].tx_kill)
  /\ children' = [children EXCEPT ![h] = Absent]
  /\ UNCHANGED <<up, mon, key, kill, proc, sig, pty, closed, chldVars>>

\* process_close_command, no Running entry: an Exited entry is removed too,
\* although the client is told that there was no such tunnel.
CloseNotOpen(h) ==
  /\ up
  /\ children[h].tag # "Running"
  /\ children' = [children EXCEPT ![h] = Absent]
  /\ UNCHANGED <<up, mon, key, kill, proc, sig, pty, closed, chldVars>>

-----------------------------------------------------------------------------
(***************************************************************************)
(* The PTY.  Closing the master side hangs up the process's session.       *)
(***************************************************************************)

\* The session ends before the hand-off and drops both PTY halves.
DropPty(p) ==
  /\ up
  /\ pty[p] = "session"
  /\ pty' = [pty EXCEPT ![p] = "none"]
  /\ sig' = [sig EXCEPT ![p] = @ \/ Alive(p)]
  /\ UNCHANGED <<up, children, mon, key, kill, proc, closed, chldVars>>

\* hand_off_ssh_process: the reading half moves to a task of its own.  The
\* halves share the PTY, so dropping _ssh_tx does not close it.
HandOff(p) ==
  /\ up
  /\ pty[p] = "session"
  /\ pty' = [pty EXCEPT ![p] = "handoff"]
  /\ UNCHANGED <<up, children, mon, key, kill, proc, sig, closed, chldVars>>

\* The hand-off task sees the end of the stream, or an error, once nobody
\* has the slave side open any more, and drops the PTY.
HandOffEnds(p) ==
  /\ up
  /\ pty[p] = "handoff"
  /\ ~Alive(p)
  /\ pty' = [pty EXCEPT ![p] = "none"]
  /\ UNCHANGED <<up, children, mon, key, kill, proc, sig, closed, chldVars>>

-----------------------------------------------------------------------------
(***************************************************************************)
(* ChildMonitor: one action per outcome of a poll.                         *)
(***************************************************************************)

\* Child::drop with kill_on_drop set, as nobody calls forget: SIGKILL,
\* which a process that is already dead does not notice.
KillChild(p) == sig' = [sig EXCEPT ![p] = @ \/ Alive(p)]

\* Mutants: the replaced entry is not dropped; the registry is not told; the
\* raw status is filed.
ReportLeaksSender(p, status) ==
  /\ children' = [children EXCEPT ![key[p]] = Exited(status)]
  /\ kill' = [kill EXCEPT ![p] = "none"]
  /\ proc' = [proc EXCEPT ![p] = "none"]
  /\ mon' = [mon EXCEPT ![p] = "none"]
  /\ unheard' = unheard \ {p}
  /\ UNCHANGED <<up, key, sig, pty, closed, handler>>
ReportUnfiled(p, status) ==
  /\ kill' = [kill EXCEPT ![p] = "none"]
  /\ proc' = [proc EXCEPT ![p] = "none"]
  /\ mon' = [mon EXCEPT ![p] = "none"]
  /\ unheard' = unheard \ {p}
  /\ UNCHANGED <<up, children, key, sig, pty, closed, handler>>
ReportRawStatus(p, status) ==
  /\ children' = [children EXCEPT ![key[p]] = Exited(proc[p])]
  /\ kill' = [DropSender(children[key[p]]) EXCEPT ![p] = "none"]
  /\ proc' = [proc EXCEPT ![p] = "none"]
  /\ mon' = [mon EXCEPT ![p] = "none"]
  /\ unheard' = unheard \ {p}
  /\ UNCHANGED <<up, key, sig, pty, closed, handler>>

\* The child was reaped: State::children.insert(key, Exited { status }), which
\* drops the value it replaces, whichever process that is about.  Then
\* poll_notifying_child_died, still in the same poll, ends the task: the one
\* message fits the channel or the receiver ssh_die is gone, and as nobody
\* ever polls ssh_die neither has an effect.
Report(p, status) ==
  /\ children' = [children EXCEPT ![key[p]] = Exited(status)]
  /\ kill' = [DropSender(children[key[p]]) EXCEPT ![p] = "none"]
  /\ proc' = [proc EXCEPT ![p] = "none"]
  /\ mon' = [mon EXCEPT ![p] = "none"]
  /\ unheard' = unheard \ {p}
  /\ UNCHANGED <<up, key, sig, pty, closed, handler>>

\* Mutant: an unexpected death is filed as a close.
MonitorChildDiedAsClosed(p) ==
  /\ up
  /\ mon[p] = "AwaitingChildEvent"
  /\ proc[p] = "zombie"
  /\ Report(p, "None")

\* poll_awaiting_child_event: child.poll() is looked at first, whatever is
\* in the kill channel.
MonitorChildDied(p) ==
  /\ up
  /\ mon[p] = "AwaitingChildEvent"
  /\ proc[p] = "zombie"
  /\ Report(p, "Some")

\* poll_awaiting_child_event: the child runs and there is no order.  Asking
\* for SIGCHLD installs the handler, if this is the first poll of all.
MonitorPending(p) ==
  /\ up
  /\ mon[p] = "AwaitingChildEvent"
  /\ Alive(p)
  /\ kill[p] = "open"
  /\ handler' = TRUE
  /\ UNCHANGED <<up, children, mon, key, kill, proc, sig, pty, closed, unheard>>

\* Mutants: wait for the child without killing it; kill it and do not wait.
MonitorKillForgotten(p) ==
  /\ up
  /\ mon[p] = "AwaitingChildEvent"
  /\ Alive(p)
  /\ kill[p] = "sent"
  /\ mon' = [mon EXCEPT ![p] = "AwaitingChildReaped"]
  /\ kill' = [kill EXCEPT ![p] = "none"]
  /\ handler' = TRUE
  /\ UNCHANGED <<up, children, key, proc, sig, pty, closed, unheard>>

MonitorKillDoesNotWait(p) ==
  /\ up
  /\ mon[p] = "AwaitingChildEvent"
  /\ Alive(p)
  /\ kill[p] = "sent"
  /\ KillChild(p)
  /\ mon' = [mon EXCEPT ![p] = "none"]
  /\ kill' = [kill EXCEPT ![p] = "none"]
  /\ handler' = TRUE
  /\ UNCHANGED <<up, children, key, proc, pty, closed, unheard>>

\* poll_awaiting_child_event: the child runs and there is a kill order.
MonitorKill(p) ==
  /\ up
  /\ mon[p] = "AwaitingChildEvent"
  /\ Alive(p)
  /\ kill[p] = "sent"
  /\ KillChild(p)
  /\ mon' = [mon EXCEPT ![p] = "AwaitingChildReaped"]
  /\ kill' = [kill EXCEPT ![p] = "none"]
  /\ handler' = TRUE
  /\ UNCHANGED <<up, children, key, proc, pty, closed, unheard>>

\* poll_awaiting_child_event: the child runs and the sender was dropped.
\* The monitor fails, and with it the Child is dropped.
MonitorCanceled(p) ==
  /\ up
  /\ mon[p] = "AwaitingChildEvent"
  /\ Alive(p)
  /\ kill[p] = "canceled"
  /\ KillChild(p)
  /\ mon' = [mon EXCEPT ![p] = "ChildError"]
  /\ kill' = [kill EXCEPT ![p] = "none"]
  /\ handler' = TRUE
  /\ UNCHANGED <<up, children, key, proc, pty, closed, unheard>>

\* child.poll() fails in either waiting state (waitpid, or setting up the
\* SIGCHLD stream when the daemon is out of file descriptors).
MonitorPollError(p) ==
  /\ up
  /\ OwnsChild(p)
  /\ KillChild(p)
  /\ mon' = [mon EXCEPT ![p] = "ChildError"]
  /\ kill' = [kill EXCEPT ![p] = "none"]
  /\ unheard' = unheard \ {p}
  /\ UNCHANGED <<up, children, key, proc, pty, closed, handler>>

\* poll_awaiting_child_reaped
MonitorReaped(p) ==
  /\ up
  /\ mon[p] = "AwaitingChildReaped"
  /\ proc[p] = "zombie"
  /\ Report(p, "None")

-----------------------------------------------------------------------------
(***************************************************************************)
(* The SSH processes (external).                                           *)
(***************************************************************************)

\* Login completes: the remote shell prints the marker.
SshLogin(p) ==
  /\ proc[p] = "login"
  /\ proc' = [proc EXCEPT ![p] = "online"]
  /\ UNCHANGED <<up, children, mon, key, kill, sig, pty, closed, chldVars>>

\* SSH ends, of its own accord or by a signal; a dead process has no pending
\* signals.  SIGCHLD wakes every monitor, once there is a handler for it.
SshExits(p) ==
  /\ Alive(p)
  /\ proc' = [proc EXCEPT ![p] = "zombie"]
  /\ sig' = [sig EXCEPT ![p] = FALSE]
  /\ unheard' = {}
  /\ UNCHANGED <<up, children, mon, key, kill, pty, closed, handler>>

\* SSH ends during the poll that installs the handler, after waitpid and
\* before the installation (module ChildPoll): nobody hears of it.
SshExitsUnheard(p) ==
  /\ up
  /\ mon[p] = "AwaitingChildEvent"
  /\ Alive(p)
  /\ kill[p] = "open"
  /\ ~handler
  /\ handler' = TRUE
  /\ proc' = [proc EXCEPT ![p] = "zombie"]
  /\ sig' = [sig EXCEPT ![p] = FALSE]
  /\ unheard' = {p}
  /\ UNCHANGED <<up, children, mon, key, kill, pty, closed>>

\* SSH dies of SIGKILL and of SIGHUP.
SshSignalled(p) == sig[p] /\ SshExits(p)

-----------------------------------------------------------------------------
\* Mutant: the children are forgotten instead of killed (Child::forget), and
\* only a PTY in use by a login hangs up.
ShutdownForgets ==
  /\ up
  /\ up' = FALSE
  /\ children' = [h \in Hosts |-> Absent]
  /\ kill' = [p \in Procs |-> "none"]
  /\ mon' = [p \in Procs |-> "none"]
  /\ pty' = [p \in Procs |-> "none"]
  /\ sig' = [p \in Procs |-> sig[p] \/ (Alive(p) /\ pty[p] = "session")]
  /\ handler' = FALSE /\ unheard' = {}
  /\ UNCHANGED <<key, proc, closed>>

(***************************************************************************)
(* State::serve returns: the reactor is dropped with all its tasks, which  *)
(* drops every Child, PTY and kill channel, and the process ends.          *)
(***************************************************************************)
Shutdown ==
  /\ up
  /\ up' = FALSE
  /\ children' = [h \in Hosts |-> Absent]
  /\ kill' = [p \in Procs |-> "none"]
  /\ mon' = [p \in Procs |-> "none"]
  /\ pty' = [p \in Procs |-> "none"]
  /\ sig' = [p \in Procs |->
               sig[p] \/ (Alive(p) /\ (OwnsChild(p) \/ pty[p] # "none"))]
  /\ handler' = FALSE /\ unheard' = {}
  /\ UNCHANGED <<key, proc, closed>>

-----------------------------------------------------------------------------
MonitorStep(p) ==
  \/ MonitorChildDied(p)
  \/ MonitorPending(p)
  \/ MonitorKill(p)
  \/ MonitorCanceled(p)
  \/ MonitorReaped(p)

SshStep(p) == SshLogin(p) \/ SshExits(p) \/ SshExitsUnheard(p)

PtyStep(p) == DropPty(p) \/ HandOff(p) \/ HandOffEnds(p)

RegistryStep(h) ==
  \/ \E p \in Procs : SpawnTunnel(h, p)
  \/ CloseRunning(h)
  \/ CloseBroken(h)
  \/ CloseNotOpen(h)

TunnelsNext ==
  \/ \E h \in Hosts : RegistryStep(h)
  \/ \E p \in Procs : MonitorStep(p) \/ MonitorPollError(p) \/ SshStep(p) \/ PtyStep(p)
  \/ Shutdown

TunnelsSpec == TunnelsInit /\ [][TunnelsNext]_tunnelVars

\* A monitor's task is woken when it is spawned, by SIGCHLD and by its kill
\* channel, but not by a death that nobody heard.
Woken(p) == p \notin unheard \/ kill[p] # "open"

\* The reactor polls every task that was woken; the PTY wakes the hand-off
\* task.  A process dies of a fatal signal.  Logging in, exiting and failing
\* are never forced.
TunnelsFairness ==
  \A p \in Procs :
    /\ WF_tunnelVars(Woken(p) /\ MonitorStep(p))
    /\ WF_tunnelVars(HandOffEnds(p))
    /\ WF_tunnelVars(SshSignalled(p))

TunnelsFairSpec == TunnelsSpec /\ TunnelsFairness
-----------------------------------------------------------------------------
(***************************************************************************)
(* Properties.                                                             *)
(***************************************************************************)

\* Somebody has already decided that p must die: a signal is on its way, or
\* its monitor is going to send one at its next poll.
Doomed(p) == sig[p] \/ kill[p] \in {"sent", "canceled"}

\* No SSH process escapes the daemon: one that runs is either reachable
\* through the registry entry of its host (so that "close" can kill it), or
\* is about to be killed.  In particular an entry that is overwritten while
\* its process runs takes the process with it (daemon.rs, ChildMonitor).
NoOrphan ==
  \A p \in Procs : Alive(p) => Doomed(p) \/ children[key[p]] = Running(p)

\* A Running entry is never stale: it is filed under the host its monitor
\* will report on, its process has not been reaped, and the kill channel it
\* holds is connected to a monitor that listens - or that monitor failed.
\* Otherwise the host could neither be opened again nor closed.
RunningIsCurrent ==
  \A h \in Hosts : \A p \in Procs :
    children[h] = Running(p) =>
      /\ key[p] = h
      /\ proc[p] \in {"login", "online", "zombie"}
      /\ \/ mon[p] = "AwaitingChildEvent" /\ kill[p] = "open"
         \/ mon[p] = "ChildError"

\* Exited { status: None } is "manually closed" in the status report
\* (protocol/src/lib.rs): it appears only for a host somebody closed.
ClosedWasAsked ==
  \A h \in Hosts : children[h] = Exited("None") => h \in closed

\* When the daemon is gone no tunnel is left to stay (daemon.rs, serve:
\* "we don't need to explicitly close our SSH child processes").
NoTunnelWithoutDaemon ==
  ~up => \A p \in Procs : Alive(p) => sig[p]

\* A process somebody decided to kill does die.
DoomedDies == \A p \in Procs : (Alive(p) /\ Doomed(p)) ~> ~Alive(p)

\* The death of a tunnel's process reaches the registry, unless the monitor
\* itself failed or nobody heard of it; in that case the next SIGCHLD makes
\* up for it.
DeathIsNoticed ==
  \A h \in Hosts : \A p \in Procs :
    (children[h] = Running(p) /\ ~Alive(p))
      ~> (children[h] # Running(p) \/ mon[p] = "ChildError" \/ p \in unheard)

\* A process that was ordered to be killed is reaped, whether it dies of the
\* order or by itself before the order is looked at, so that it does not
\* "become a defunct process" (poll_awaiting_child_event), unless the monitor
\* failed or the daemon stopped.
ClosedIsReaped ==
  \A p \in Procs :
    kill[p] = "sent" ~> (proc[p] = "none" \/ mon[p] = "ChildError" \/ ~up)

\* The processes of h that are not listed any more but whose monitor will yet
\* report their end.
Late(h) == {p \in Procs : key[p] = h /\ OwnsChild(p) /\ children[h] # Running(p)}

Status == INSTANCE TunnelStatus
            WITH status <- [h \in Hosts |-> StatusOf(children[h])],
                 late <- [h \in Hosts |-> Late(h)]

\* What "stund status" reports of a host changes only as TunnelStatus allows:
\* in particular a tunnel ends up as Closed or Died at most once, and only a
\* monitor that still owned its SSH process, or a close, can make it so.
ImplementsStatus == Status!StatusSpec

\* Violated.  TunnelState::Exited is documented as "An SSH process that we launched but
\* is now dead" (daemon.rs:198).
ExitedMeansDead ==
  \A h \in Hosts :
    children[h].tag = "Exited" => \A p \in Procs : key[p] = h => ~Alive(p)
=============================================================================
