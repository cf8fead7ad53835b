--------------------------- MODULE TunnelsProofs ---------------------------
(***************************************************************************)
(* Proofs about module Tunnels, for any sets of hosts and processes: the   *)
(* inductive invariant TunnelsInv, the invariants that follow from it, and *)
(* that Tunnels implements TunnelStatus.                                   *)
(***************************************************************************)
EXTENDS Tunnels, TLAPS

(***************************************************************************)
(* The inductive invariant.  RunningIsCurrent looks from the registry to   *)
(* the monitors; MonitorInv looks back, and says what a process without a  *)
(* listening monitor has coming.                                           *)
(***************************************************************************)
MonitorInv(p) ==
  /\ mon[p] = "AwaitingChildEvent" <=> kill[p] # "none"
  /\ mon[p] # "none" => key[p] \in Hosts /\ proc[p] # "none"
  /\ Alive(p) /\ mon[p] # "AwaitingChildEvent" => sig[p]
  /\ kill[p] = "open" => children[key[p]] = Running(p)
  /\ kill[p] = "sent" \/ mon[p] = "AwaitingChildReaped" => key[p] \in closed

\* No task survives the reactor.
StoppedInv == ~up => \A p \in Procs : mon[p] = "none"

\* The inductive invariant of Tunnels.
TunnelsInv ==
  /\ TunnelsTypeOK
  /\ \A p \in Procs : MonitorInv(p)
  /\ RunningIsCurrent
  /\ ClosedWasAsked
  /\ StoppedInv
-----------------------------------------------------------------------------
(***************************************************************************)
(* The values of State::children.                                          *)
(***************************************************************************)

\* The three kinds of values are distinguished by their tag, and a Running
\* value determines its process.
LEMMA EntryFacts ==
  /\ Absent \in TunnelState /\ Absent.tag = "Absent"
  /\ \A p \in Procs :
       /\ Running(p) \in TunnelState
       /\ Running(p).tag = "Running"
       /\ Running(p).tx_kill = p
  /\ \A st \in {"None", "Some"} : Exited(st) \in TunnelState
  /\ \A st : Exited(st).tag = "Exited" /\ Exited(st).status = st
  /\ \A e \in TunnelState :
       e.tag = "Running" => e.tx_kill \in Procs /\ e = Running(e.tx_kill)
<1>1. Absent \in TunnelState /\ Absent.tag = "Absent"
  BY DEF TunnelState, Absent
<1>2. ASSUME NEW p \in Procs
      PROVE  Running(p) \in TunnelState /\ Running(p).tag = "Running" /\ Running(p).tx_kill = p
  <2>1. Running(p) \in {Running(q) : q \in Procs}
    OBVIOUS
  <2> QED
    BY <2>1 DEF TunnelState, Running
<1>3. \A st \in {"None", "Some"} : Exited(st) \in TunnelState
  BY DEF TunnelState
<1>4. \A st : Exited(st).tag = "Exited" /\ Exited(st).status = st
  BY DEF Exited
<1>5. ASSUME NEW e \in TunnelState, e.tag = "Running"
      PROVE  e.tx_kill \in Procs /\ e = Running(e.tx_kill)
  <2>1. e \in {Running(q) : q \in Procs}
    BY <1>1, <1>4, <1>5 DEF TunnelState
  <2> QED
    BY <2>1, <1>2
<1> QED
  BY <1>1, <1>2, <1>3, <1>4, <1>5

\* The kinds differ.
LEMMA EntryKinds ==
  ASSUME NEW p \in Procs, NEW st
  PROVE  Absent # Running(p) /\ Exited(st) # Running(p) /\ Absent # Exited(st)
BY EntryFacts
-----------------------------------------------------------------------------
(***************************************************************************)
(* Type correctness.                                                       *)
(***************************************************************************)

\* A step keeps the types.  Report files its entry under key[p] only for a
\* process that was launched, but EXCEPT is total, so types need no more.
LEMMA TypeStep == TunnelsTypeOK /\ [TunnelsNext]_tunnelVars => TunnelsTypeOK'
<1> SUFFICES ASSUME TunnelsTypeOK, [TunnelsNext]_tunnelVars PROVE TunnelsTypeOK'
  OBVIOUS
<1> USE DEF TunnelsTypeOK, MonitorState, chldVars
<1>1. ASSUME NEW h \in Hosts, RegistryStep(h) PROVE TunnelsTypeOK'
  <2>1. ASSUME NEW p \in Procs, SpawnTunnel(h, p) PROVE TunnelsTypeOK'
    BY <2>1, EntryFacts DEF SpawnTunnel
  <2>2. CASE CloseRunning(h)
    BY <2>2, EntryFacts DEF CloseRunning
  <2>3. CASE CloseBroken(h)
    BY <2>3, EntryFacts DEF CloseBroken
  <2>4. CASE CloseNotOpen(h)
    BY <2>4, EntryFacts DEF CloseNotOpen
  <2> QED
    BY <1>1, <2>1, <2>2, <2>3, <2>4 DEF RegistryStep
<1>2. ASSUME NEW p \in Procs, MonitorStep(p) \/ MonitorPollError(p) PROVE TunnelsTypeOK'
  <2>1. ASSUME NEW st \in {"None", "Some"}, Report(p, st), up PROVE TunnelsTypeOK'
    BY <2>1, EntryFacts DEF Report, DropSender
  <2> QED
    BY <1>2, <2>1 DEF MonitorStep, MonitorChildDied, MonitorPending, MonitorKill,
                      MonitorCanceled, MonitorReaped, MonitorPollError, KillChild, Alive
<1>3. ASSUME NEW p \in Procs, SshStep(p) \/ PtyStep(p) PROVE TunnelsTypeOK'
  <2>1. CASE SshLogin(p) \/ SshExits(p) \/ SshExitsUnheard(p)
    BY <2>1 DEF SshLogin, SshExits, SshExitsUnheard
  <2>2. CASE DropPty(p)
    <3>1. (sig[p] \/ Alive(p)) \in BOOLEAN
      BY DEF Alive
    <3> QED
      BY <2>2, <3>1 DEF DropPty
  <2>3. CASE HandOff(p) \/ HandOffEnds(p)
    BY <2>3 DEF HandOff, HandOffEnds
  <2> QED
    BY <1>3, <2>1, <2>2, <2>3 DEF SshStep, PtyStep
<1>4. CASE Shutdown
  BY <1>4, EntryFacts DEF Shutdown, Alive
<1>5. CASE UNCHANGED tunnelVars
  BY <1>5 DEF tunnelVars
<1> QED
  BY <1>1, <1>2, <1>3, <1>4, <1>5 DEF TunnelsNext

\* The initial states are well-typed.
LEMMA TypeInit == TunnelsInit => TunnelsTypeOK
<1> SUFFICES ASSUME TunnelsInit PROVE TunnelsTypeOK
  OBVIOUS
<1>1. closed \in SUBSET Hosts /\ handler \in BOOLEAN /\ unheard \in SUBSET Procs
  BY DEF TunnelsInit
<1> QED
  BY <1>1, EntryFacts DEF TunnelsInit, TunnelsTypeOK, MonitorState

\* Every reachable state is well-typed.
THEOREM TypeCorrect == TunnelsSpec => []TunnelsTypeOK
BY TypeInit, TypeStep, PTL DEF TunnelsSpec
-----------------------------------------------------------------------------
(***************************************************************************)
(* The inductive invariant.                                                *)
(***************************************************************************)

\* Opening a tunnel: the process is fresh, so no entry mentions it, and the
\* host has no Running entry, so no other process is tied to it.
LEMMA SpawnInv ==
  ASSUME TunnelsInv, TunnelsTypeOK', NEW h \in Hosts, NEW p \in Procs, SpawnTunnel(h, p)
  PROVE  TunnelsInv'
<1> USE EntryFacts DEF TunnelsInv, TunnelsTypeOK, SpawnTunnel, Fresh
<1>1. (\A q \in Procs : MonitorInv(q))'
  <2> SUFFICES ASSUME NEW q \in Procs PROVE MonitorInv(q)'
    OBVIOUS
  <2>1. CASE q = p
    BY <2>1 DEF MonitorInv, Alive
  <2>2. CASE q # p
    <3>1. kill[q] = "open" => key[q] # h
      BY <2>2 DEF MonitorInv
    <3> QED
      BY <2>2, <3>1 DEF MonitorInv, Alive
  <2> QED
    BY <2>1, <2>2
<1>2. RunningIsCurrent'
  <2> SUFFICES ASSUME NEW g \in Hosts, NEW q \in Procs, (children[g] = Running(q))'
               PROVE  /\ key'[q] = g
                      /\ proc'[q] \in {"login", "online", "zombie"}
                      /\ \/ mon'[q] = "AwaitingChildEvent" /\ kill'[q] = "open"
                         \/ mon'[q] = "ChildError"
    BY DEF RunningIsCurrent
  <2>1. CASE g = h
    <3>1. q = p
      BY <2>1
    <3> QED
      BY <2>1, <3>1
  <2>2. CASE g # h
    <3>1. children[g] = Running(q)
      BY <2>2
    <3>2. q # p
      BY <3>1 DEF RunningIsCurrent
    <3> QED
      BY <2>2, <3>1, <3>2 DEF RunningIsCurrent
  <2> QED
    BY <2>1, <2>2
<1>3. ClosedWasAsked'
  BY EntryKinds DEF ClosedWasAsked
<1>4. StoppedInv'
  BY DEF StoppedInv
<1> QED
  BY <1>1, <1>2, <1>3, <1>4

\* The three outcomes of a close command.
LEMMA CloseInv ==
  ASSUME TunnelsInv, TunnelsTypeOK', NEW h \in Hosts,
         CloseRunning(h) \/ CloseBroken(h) \/ CloseNotOpen(h)
  PROVE  TunnelsInv'
<1> USE EntryFacts DEF TunnelsInv, TunnelsTypeOK
<1>1. /\ children' = [children EXCEPT ![h] = Absent]
      /\ UNCHANGED <<up, mon, key, proc, sig, pty>>
      /\ h \in closed' \/ closed' = closed
      /\ closed \subseteq closed'
  BY DEF CloseRunning, CloseBroken, CloseNotOpen
<1>2. ASSUME NEW q \in Procs
      PROVE  \/ kill'[q] = kill[q] /\ (kill[q] = "open" => key[q] # h)
             \/ kill'[q] = "sent" /\ mon[q] = "AwaitingChildEvent" /\ key[q] \in closed'
  <2>1. CASE CloseRunning(h)
    <3> DEFINE p == children[h].tx_kill
    <3>1. p \in Procs /\ children[h] = Running(p) /\ key[p] = h
      BY <2>1 DEF CloseRunning, RunningIsCurrent
    <3>2. CASE q = p
      BY <2>1, <3>1, <3>2 DEF CloseRunning, ReceiverLive
    <3>3. CASE q # p
      <4>1. kill'[q] = kill[q]
        BY <2>1, <3>3, <3>1 DEF CloseRunning
      <4>2. children[h] # Running(q)
        BY <3>1, <3>3
      <4> QED
        BY <4>1, <4>2 DEF MonitorInv
    <3> QED
      BY <3>2, <3>3
  <2>2. CASE CloseBroken(h)
    <3>1. kill[q] = "open" => key[q] # h
      BY <2>2 DEF CloseBroken, ReceiverLive, MonitorInv
    <3> QED
      BY <2>2, <3>1 DEF CloseBroken
  <2>3. CASE CloseNotOpen(h)
    <3>1. kill[q] = "open" => key[q] # h
      BY <2>3 DEF CloseNotOpen, MonitorInv
    <3> QED
      BY <2>3, <3>1 DEF CloseNotOpen
  <2> QED
    BY <2>1, <2>2, <2>3
<1>3. (\A q \in Procs : MonitorInv(q))'
  BY <1>1, <1>2 DEF MonitorInv, Alive
<1>4. RunningIsCurrent'
  <2> SUFFICES ASSUME NEW g \in Hosts, NEW q \in Procs, (children[g] = Running(q))'
               PROVE  /\ key'[q] = g
                      /\ proc'[q] \in {"login", "online", "zombie"}
                      /\ \/ mon'[q] = "AwaitingChildEvent" /\ kill'[q] = "open"
                         \/ mon'[q] = "ChildError"
    BY DEF RunningIsCurrent
  <2>1. g # h /\ children[g] = Running(q)
    BY <1>1, EntryKinds
  <2>2. key[q] = g /\ (mon[q] = "AwaitingChildEvent" => kill[q] = "open")
    BY <2>1 DEF RunningIsCurrent
  <2>3. mon[q] = "AwaitingChildEvent" => kill'[q] = "open"
    <3>1. ASSUME CloseRunning(h) PROVE kill'[q] = kill[q]
      <4>1. children[h] = Running(children[h].tx_kill) /\ children[h].tx_kill \in Procs
        BY <3>1 DEF CloseRunning
      <4>2. key[children[h].tx_kill] = h
        BY <4>1 DEF RunningIsCurrent
      <4> QED
        BY <3>1, <4>1, <4>2, <2>1, <2>2 DEF CloseRunning
    <3> QED
      BY <2>2, <3>1 DEF CloseBroken, CloseNotOpen
  <2> QED
    BY <1>1, <2>1, <2>2, <2>3 DEF RunningIsCurrent
<1>5. ClosedWasAsked'
  BY <1>1, EntryKinds DEF ClosedWasAsked
<1>6. StoppedInv'
  BY <1>1 DEF StoppedInv
<1> QED
  BY <1>3, <1>4, <1>5, <1>6

\* A monitor files the end of its process.  The entry it replaces may be about
\* another process of the same host: that one is canceled, which is what
\* keeps it from becoming an orphan.
LEMMA ReportInv ==
  ASSUME TunnelsInv, TunnelsTypeOK', NEW p \in Procs, NEW st \in {"None", "Some"},
         Report(p, st), up, mon[p] # "none", st = "None" => key[p] \in closed
  PROVE  TunnelsInv'
<1> USE EntryFacts DEF TunnelsInv, TunnelsTypeOK, Report
<1> DEFINE h == key[p]
<1>1. h \in Hosts
  BY DEF MonitorInv
<1>2. children' = [children EXCEPT ![h] = Exited(st)]
  OBVIOUS
<1>3. ASSUME NEW q \in Procs, q # p
      PROVE  \/ kill'[q] = kill[q] /\ children[h] # Running(q)
             \/ /\ children[h] = Running(q) /\ key[q] = h
                /\ kill'[q] = IF ReceiverLive(q) THEN "canceled" ELSE kill[q]
  <2>1. CASE children[h].tag = "Running"
    <3>1. children[h].tx_kill \in Procs /\ children[h] = Running(children[h].tx_kill)
      BY <1>1, <2>1
    <3>2. CASE q = children[h].tx_kill
      <4>1. children[h] = Running(q) /\ key[q] = h
        BY <1>1, <3>1, <3>2 DEF RunningIsCurrent
      <4> QED
        BY <1>3, <2>1, <3>2, <4>1 DEF DropSender
    <3>3. CASE q # children[h].tx_kill
      BY <1>3, <2>1, <3>1, <3>3 DEF DropSender
    <3> QED
      BY <3>2, <3>3
  <2>2. CASE children[h].tag # "Running"
    BY <1>3, <2>2 DEF DropSender
  <2> QED
    BY <2>1, <2>2
<1>4. (\A q \in Procs : MonitorInv(q))'
  <2> SUFFICES ASSUME NEW q \in Procs PROVE MonitorInv(q)'
    OBVIOUS
  <2>1. CASE q = p
    BY <2>1 DEF MonitorInv, Alive, DropSender
  <2>2. CASE q # p
    <3>1. UNCHANGED <<mon[q], key[q], proc[q], sig[q], closed>>
      BY <2>2
    <3>2. kill'[q] = "none" <=> kill[q] = "none"
      BY <1>3, <2>2 DEF MonitorInv, ReceiverLive
    <3>3. kill'[q] = "open" => children'[key[q]] = Running(q)
      BY <1>1, <1>2, <1>3, <2>2 DEF MonitorInv, ReceiverLive
    <3>4. kill'[q] = "sent" => kill[q] = "sent"
      BY <1>3, <2>2
    <3> QED
      BY <3>1, <3>2, <3>3, <3>4 DEF MonitorInv, Alive
  <2> QED
    BY <2>1, <2>2
<1>5. RunningIsCurrent'
  <2> SUFFICES ASSUME NEW g \in Hosts, NEW q \in Procs, (children[g] = Running(q))'
               PROVE  /\ key'[q] = g
                      /\ proc'[q] \in {"login", "online", "zombie"}
                      /\ \/ mon'[q] = "AwaitingChildEvent" /\ kill'[q] = "open"
                         \/ mon'[q] = "ChildError"
    BY DEF RunningIsCurrent
  <2>1. g # h /\ children[g] = Running(q)
    BY <1>1, <1>2, EntryKinds
  <2>2. key[q] = g
    BY <2>1 DEF RunningIsCurrent
  <2>3. q # p
    BY <2>1, <2>2
  <2>4. kill'[q] = kill[q]
    BY <1>3, <2>1, <2>2, <2>3
  <2> QED
    BY <2>1, <2>2, <2>3, <2>4 DEF RunningIsCurrent
<1>6. ClosedWasAsked'
  <2> SUFFICES ASSUME NEW g \in Hosts, (children[g] = Exited("None"))' PROVE g \in closed
    BY DEF ClosedWasAsked
  <2>1. CASE g = h
    BY <1>1, <1>2, <2>1
  <2>2. CASE g # h
    BY <1>2, <2>2 DEF ClosedWasAsked
  <2> QED
    BY <2>1, <2>2
<1>7. StoppedInv'
  BY DEF StoppedInv
<1> QED
  BY <1>4, <1>5, <1>6, <1>7

\* A monitor that stops listening without a report has killed its child.
LEMMA KillInv ==
  ASSUME TunnelsInv, TunnelsTypeOK', NEW p \in Procs,
         MonitorKill(p) \/ MonitorCanceled(p) \/ MonitorPollError(p)
  PROVE  TunnelsInv'
<1> USE EntryFacts DEF TunnelsInv, TunnelsTypeOK
<1>1. /\ UNCHANGED <<up, children, key, proc, pty, closed>>
      /\ kill' = [kill EXCEPT ![p] = "none"]
      /\ sig' = [sig EXCEPT ![p] = @ \/ Alive(p)]
      /\ up /\ OwnsChild(p)
  BY DEF MonitorKill, MonitorCanceled, MonitorPollError, KillChild, OwnsChild
<1>2. \/ mon' = [mon EXCEPT ![p] = "AwaitingChildReaped"] /\ kill[p] = "sent"
      \/ mon' = [mon EXCEPT ![p] = "ChildError"]
  BY DEF MonitorKill, MonitorCanceled, MonitorPollError
<1>3. (\A q \in Procs : MonitorInv(q))'
  <2> SUFFICES ASSUME NEW q \in Procs PROVE MonitorInv(q)'
    OBVIOUS
  <2>1. CASE q = p
    <3>1. kill'[p] = "none" /\ mon'[p] # "AwaitingChildEvent" /\ mon'[p] # "none"
      BY <1>1, <1>2
    <3>2. key[p] \in Hosts /\ proc[p] # "none"
      BY <1>1 DEF MonitorInv, OwnsChild
    <3>3. Alive(p)' => sig'[p]
      <4>1. Alive(p)' <=> Alive(p)
        BY <1>1 DEF Alive
      <4>2. ASSUME Alive(p) PROVE sig'[p]
        <5>1. (sig[p] \/ Alive(p)) = TRUE
          BY <4>2
        <5>2. sig' = [sig EXCEPT ![p] = TRUE]
          BY <1>1, <5>1
        <5> QED
          BY <5>2
      <4> QED
        BY <4>1, <4>2
    <3>4. mon'[p] = "AwaitingChildReaped" => key[p] \in closed
      BY <1>2 DEF MonitorInv
    <3> QED
      BY <1>1, <2>1, <3>1, <3>2, <3>3, <3>4 DEF MonitorInv
  <2>2. CASE q # p
    BY <1>1, <1>2, <2>2 DEF MonitorInv, Alive
  <2> QED
    BY <2>1, <2>2
<1>4. RunningIsCurrent'
  <2> SUFFICES ASSUME NEW g \in Hosts, NEW q \in Procs, children[g] = Running(q)
               PROVE  \/ mon'[q] = "AwaitingChildEvent" /\ kill'[q] = "open"
                      \/ mon'[q] = "ChildError"
    BY <1>1 DEF RunningIsCurrent
  <2>1. \/ mon[q] = "AwaitingChildEvent" /\ kill[q] = "open"
        \/ mon[q] = "ChildError"
    BY DEF RunningIsCurrent
  <2>2. CASE q = p
    BY <1>1, <1>2, <2>1, <2>2 DEF OwnsChild
  <2>3. CASE q # p
    BY <1>1, <1>2, <2>1, <2>3
  <2> QED
    BY <2>2, <2>3
<1>5. ClosedWasAsked' /\ StoppedInv'
  BY <1>1 DEF ClosedWasAsked, StoppedInv
<1> QED
  BY <1>3, <1>4, <1>5

\* Steps of the processes and of their PTYs.
LEMMA ProcInv ==
  ASSUME TunnelsInv, TunnelsTypeOK', NEW p \in Procs, SshStep(p) \/ PtyStep(p)
  PROVE  TunnelsInv'
<1> USE DEF TunnelsInv, TunnelsTypeOK
<1>1. /\ UNCHANGED <<up, children, mon, key, kill, closed>>
      /\ \A q \in Procs :
           /\ proc'[q] = "none" <=> proc[q] = "none"
           /\ proc'[q] \in {"login", "online"} => Alive(q) /\ (sig[q] => sig'[q])
  BY DEF SshStep, PtyStep, SshLogin, SshExits, SshExitsUnheard, DropPty, HandOff, HandOffEnds,
         Alive
<1>2. (\A q \in Procs : MonitorInv(q))'
  BY <1>1 DEF MonitorInv, Alive
<1>3. RunningIsCurrent'
  BY <1>1 DEF RunningIsCurrent
<1>4. ClosedWasAsked' /\ StoppedInv'
  BY <1>1 DEF ClosedWasAsked, StoppedInv
<1> QED
  BY <1>2, <1>3, <1>4

\* The end of the daemon.
LEMMA ShutdownInv ==
  ASSUME TunnelsInv, TunnelsTypeOK', Shutdown
  PROVE  TunnelsInv'
<1> USE EntryFacts DEF TunnelsInv, TunnelsTypeOK, Shutdown
<1>1. (\A q \in Procs : MonitorInv(q))'
  <2> SUFFICES ASSUME NEW q \in Procs PROVE MonitorInv(q)'
    OBVIOUS
  <2>1. Alive(q)' => sig'[q]
    BY DEF MonitorInv, Alive, OwnsChild
  <2> QED
    BY <2>1 DEF MonitorInv
<1>2. RunningIsCurrent' /\ ClosedWasAsked' /\ StoppedInv'
  BY EntryKinds DEF RunningIsCurrent, ClosedWasAsked, StoppedInv
<1> QED
  BY <1>1, <1>2

\* Every step preserves the invariant.
LEMMA InvStep == TunnelsInv /\ [TunnelsNext]_tunnelVars => TunnelsInv'
<1> SUFFICES ASSUME TunnelsInv, [TunnelsNext]_tunnelVars PROVE TunnelsInv'
  OBVIOUS
<1>1. TunnelsTypeOK'
  BY TypeStep DEF TunnelsInv
<1>2. ASSUME NEW h \in Hosts, RegistryStep(h) PROVE TunnelsInv'
  BY <1>1, <1>2, SpawnInv, CloseInv DEF RegistryStep
<1>3. ASSUME NEW p \in Procs, MonitorStep(p) PROVE TunnelsInv'
  <2>1. CASE MonitorChildDied(p)
    BY <1>1, <2>1, ReportInv DEF MonitorChildDied
  <2>2. CASE MonitorReaped(p)
    <3>1. key[p] \in closed
      BY <2>2 DEF MonitorReaped, TunnelsInv, MonitorInv
    <3> QED
      BY <1>1, <2>2, <3>1, ReportInv DEF MonitorReaped
  <2>3. CASE MonitorKill(p) \/ MonitorCanceled(p)
    BY <1>1, <2>3, KillInv
  <2>4. CASE MonitorPending(p)
    BY <1>1, <2>4 DEF MonitorPending, TunnelsInv, MonitorInv, RunningIsCurrent, ClosedWasAsked,
                      StoppedInv, Alive
  <2> QED
    BY <1>3, <2>1, <2>2, <2>3, <2>4 DEF MonitorStep
<1>4. ASSUME NEW p \in Procs, MonitorPollError(p) PROVE TunnelsInv'
  BY <1>1, <1>4, KillInv
<1>5. ASSUME NEW p \in Procs, SshStep(p) \/ PtyStep(p) PROVE TunnelsInv'
  BY <1>1, <1>5, ProcInv
<1>6. CASE Shutdown
  BY <1>1, <1>6, ShutdownInv
<1>7. CASE UNCHANGED tunnelVars
  BY <1>1, <1>7 DEF tunnelVars, TunnelsInv, MonitorInv, RunningIsCurrent, ClosedWasAsked,
                    StoppedInv, Alive
<1> QED
  BY <1>2, <1>3, <1>4, <1>5, <1>6, <1>7 DEF TunnelsNext

\* TunnelsInv is an invariant of Tunnels.
THEOREM InvHolds == TunnelsSpec => []TunnelsInv
<1>1. TunnelsInit => TunnelsInv
  BY TypeInit, EntryFacts, EntryKinds
     DEF TunnelsInit, TunnelsInv, MonitorInv, RunningIsCurrent, ClosedWasAsked, StoppedInv, Alive
<1> QED
  BY <1>1, InvStep, PTL DEF TunnelsSpec
-----------------------------------------------------------------------------
(***************************************************************************)
(* The invariants of the runs.                                             *)
(***************************************************************************)

\* What a process that runs can rely on.
LEMMA InvNoOrphan == TunnelsInv => NoOrphan
<1> SUFFICES ASSUME TunnelsInv, NEW p \in Procs, Alive(p), ~sig[p],
                    kill[p] \notin {"sent", "canceled"}
             PROVE  children[key[p]] = Running(p)
  BY DEF NoOrphan, Doomed
<1>1. kill[p] = "open"
  BY DEF TunnelsInv, TunnelsTypeOK, MonitorInv
<1> QED
  BY <1>1 DEF TunnelsInv, MonitorInv

\* No SSH process escapes the daemon: one that runs is listed under its host,
\* where "close" finds it, or it is about to be killed, in spite of entries
\* that are overwritten by the late report of a predecessor.
THEOREM NoOrphanHolds == TunnelsSpec => []NoOrphan
BY InvHolds, InvNoOrphan, PTL

\* An entry that says Running belongs to its host, to an unreaped process, and
\* to a monitor that listens or has failed.
THEOREM RunningIsCurrentHolds == TunnelsSpec => []RunningIsCurrent
<1>1. TunnelsInv => RunningIsCurrent
  BY DEF TunnelsInv
<1> QED
  BY <1>1, InvHolds, PTL

\* A host is reported as closed only if somebody closed it.
THEOREM ClosedWasAskedHolds == TunnelsSpec => []ClosedWasAsked
<1>1. TunnelsInv => ClosedWasAsked
  BY DEF TunnelsInv
<1> QED
  BY <1>1, InvHolds, PTL

\* When the daemon has ended every SSH process has been sent a fatal signal.
THEOREM NoTunnelWithoutDaemonHolds == TunnelsSpec => []NoTunnelWithoutDaemon
<1>1. TunnelsInv => NoTunnelWithoutDaemon
  BY DEF TunnelsInv, StoppedInv, MonitorInv, NoTunnelWithoutDaemon
<1> QED
  BY <1>1, InvHolds, PTL
-----------------------------------------------------------------------------
(***************************************************************************)
(* Tunnels implements TunnelStatus: under the mapping of the instance      *)
(* Status, every step of the tunnels is a step of TunnelStatus or leaves   *)
(* it unchanged.                                                           *)
(***************************************************************************)
\* What is reported for each kind of entry.
LEMMA StatusFacts ==
  /\ StatusOf(Absent) = "NotListed"
  /\ StatusOf(Exited("None")) = "Closed"
  /\ StatusOf(Exited("Some")) = "Died"
  /\ \A e \in TunnelState : e.tag = "Running" <=> StatusOf(e) = "Open"
<1>1. Exited("None") # Exited("Some") /\ Absent # Exited("None") /\ Absent # Exited("Some")
  BY EntryFacts
<1>2. ASSUME NEW e \in TunnelState
      PROVE  e = Absent \/ e = Exited("None") \/ e = Exited("Some") \/ e.tag = "Running"
  BY EntryFacts DEF TunnelState
<1> QED
  BY <1>1, <1>2, EntryFacts DEF StatusOf

\* The mapped status after the entry of one host was changed.
LEMMA StatusChange ==
  ASSUME TunnelsTypeOK, NEW h \in Hosts, NEW v, children' = [children EXCEPT ![h] = v]
  PROVE  Status!Becomes(h, StatusOf(v))
BY DEF Status!Becomes, TunnelsTypeOK

\* The mapped set of late tunnels is the same if it is so for every host.
LEMMA LateSame ==
  ASSUME \A g \in Hosts : Late(g)' = Late(g)
  PROVE  [h \in Hosts |-> Late(h)]' = [h \in Hosts |-> Late(h)]
OBVIOUS

\* The same after a change for one host.
LEMMA LateChange ==
  ASSUME NEW h \in Hosts, \A g \in Hosts \ {h} : Late(g)' = Late(g)
  PROVE  [g \in Hosts |-> Late(g)]' = [[g \in Hosts |-> Late(g)] EXCEPT ![h] = Late(h)']
OBVIOUS
-----------------------------------------------------------------------------
\* Opening a tunnel.
LEMMA SpawnStatus ==
  ASSUME TunnelsInv, TunnelsInv', NEW h \in Hosts, NEW p \in Procs, SpawnTunnel(h, p)
  PROVE  Status!Open(h)
<1> USE DEF TunnelsInv
<1>1. children' = [children EXCEPT ![h] = Running(p)] /\ children[h].tag # "Running"
  BY DEF SpawnTunnel
<1>2. children'[h] = Running(p)
  BY <1>1 DEF TunnelsTypeOK
<1>3. StatusOf(Running(p)) = "Open" /\ StatusOf(children[h]) # "Open"
  BY <1>1, StatusFacts, EntryFacts DEF TunnelsTypeOK
<1>4. ASSUME NEW g \in Hosts PROVE Late(g)' = Late(g)
  <2>1. ASSUME NEW q \in Procs
        PROVE  (key[q] = g /\ OwnsChild(q) /\ children[g] # Running(q))'
                 <=> (key[q] = g /\ OwnsChild(q) /\ children[g] # Running(q))
    <3>1. CASE q = p
      BY <3>1, <1>2 DEF SpawnTunnel, Fresh, OwnsChild, TunnelsTypeOK
    <3>2. CASE q # p
      <4>1. UNCHANGED <<key[q], mon[q]>>
        BY <3>2 DEF SpawnTunnel, TunnelsTypeOK
      <4>2. (children'[g] = Running(q)) <=> (children[g] = Running(q))
        BY <1>1, <3>2, EntryFacts DEF TunnelsTypeOK
      <4> QED
        BY <4>1, <4>2 DEF OwnsChild
    <3> QED
      BY <3>1, <3>2
  <2> QED
    BY <2>1 DEF Late
<1> QED
  BY <1>1, <1>3, <1>4, StatusChange, LateSame DEF Status!Open

\* A close command that finds a tunnel makes it late; one that finds nothing to
\* kill only removes the entry.
LEMMA CloseStatus ==
  ASSUME TunnelsInv, NEW h \in Hosts,
         CloseRunning(h) \/ CloseBroken(h) \/ CloseNotOpen(h)
  PROVE  Status!Forget(h) \/ \E p \in Procs : Status!Close(h, p)
<1> USE DEF TunnelsInv
<1>1. children' = [children EXCEPT ![h] = Absent] /\ UNCHANGED <<key, mon>>
  BY DEF CloseRunning, CloseBroken, CloseNotOpen
<1>2. Status!Becomes(h, "NotListed")
  BY <1>1, StatusChange, StatusFacts
<1>3. \A q \in Procs : children'[h] # Running(q)
  BY <1>1, EntryKinds DEF TunnelsTypeOK
<1>4. \A g \in Hosts \ {h} : Late(g)' = Late(g)
  BY <1>1 DEF Late, OwnsChild, TunnelsTypeOK
<1>5. CASE CloseRunning(h)
  <2>1. PICK p \in Procs : children[h] = Running(p) /\ ReceiverLive(p)
    BY <1>5, EntryFacts DEF CloseRunning, TunnelsTypeOK
  <2>2. key[p] = h
    BY <2>1 DEF RunningIsCurrent
  <2>3. p \notin Late(h)
    BY <2>1 DEF Late
  <2>4. Late(h)' = Late(h) \cup {p}
    <3>1. \A q \in Procs : q # p => children[h] # Running(q)
      BY <2>1, EntryFacts
    <3> QED
      BY <1>1, <1>3, <2>1, <2>2, <3>1 DEF Late, OwnsChild, ReceiverLive
  <2>5. StatusOf(children[h]) = "Open"
    BY <2>1, StatusFacts, EntryFacts
  <2> QED
    BY <1>2, <1>4, <2>3, <2>4, <2>5, LateChange DEF Status!Close
<1>6. CASE CloseBroken(h) \/ CloseNotOpen(h)
  <2>1. ASSUME NEW q \in Procs, children[h] = Running(q) PROVE ~OwnsChild(q)
    <3>1. CloseBroken(h)
      BY <1>6, <2>1, EntryFacts DEF CloseNotOpen
    <3>2. mon[q] # "AwaitingChildEvent"
      BY <2>1, <3>1, EntryFacts DEF CloseBroken, ReceiverLive
    <3> QED
      BY <2>1, <3>2 DEF RunningIsCurrent, OwnsChild
  <2>2. Late(h)' = Late(h)
    BY <1>1, <1>3, <2>1 DEF Late, OwnsChild
  <2> QED
    BY <1>2, <1>4, <2>2, LateSame DEF Status!Forget
<1> QED
  BY <1>5, <1>6

\* A monitor files the end of its process, which is the listed one or late.
LEMMA ReportStatus ==
  ASSUME TunnelsInv, NEW p \in Procs, NEW st \in {"None", "Some"}, Report(p, st), up,
         OwnsChild(p), mon[p] = "AwaitingChildReaped" <=> st = "None",
         NEW h \in Hosts, key[p] = h
  PROVE  \/ Status!Die(h)
         \/ \E rep \in {"Closed", "Died"} : Status!ReportLate(h, p, rep)
<1> USE DEF TunnelsInv
<1> DEFINE rep == IF st = "None" THEN "Closed" ELSE "Died"
<1>2. children' = [children EXCEPT ![h] = Exited(st)] /\ UNCHANGED key
  BY DEF Report
<1>3. mon' = [mon EXCEPT ![p] = "none"]
  BY DEF Report
<1>4. Status!Becomes(h, rep)
  BY <1>2, StatusChange, StatusFacts
<1>5. \A q \in Procs : children'[h] # Running(q)
  BY <1>2, EntryKinds DEF TunnelsTypeOK
<1>6. \A g \in Hosts \ {h} : Late(g)' = Late(g)
  BY <1>2, <1>3 DEF Late, OwnsChild, TunnelsTypeOK
<1>7. \A q \in Procs : q \in Late(h)' <=> q # p /\ key[q] = h /\ OwnsChild(q)
  BY <1>2, <1>3, <1>5 DEF Late, OwnsChild, TunnelsTypeOK
<1>8. CASE children[h] = Running(p)
  <2>1. st = "Some"
    BY <1>8 DEF RunningIsCurrent
  <2>2. \A q \in Procs : q # p => children[h] # Running(q)
    BY <1>8, EntryFacts
  <2>3. Late(h)' = Late(h)
    BY <1>7, <1>8, <2>2 DEF Late
  <2>4. StatusOf(children[h]) = "Open"
    BY <1>8, StatusFacts, EntryFacts
  <2> QED
    BY <1>4, <1>6, <2>1, <2>3, <2>4, LateSame DEF Status!Die
<1>9. CASE children[h] # Running(p)
  <2>1. p \in Late(h)
    BY <1>9 DEF Late
  <2>2. CASE \E q \in Procs : children[h] = Running(q) /\ OwnsChild(q)
    <3>1. PICK q \in Procs : children[h] = Running(q) /\ OwnsChild(q)
      BY <2>2
    <3>2. key[q] = h /\ q # p
      BY <1>9, <3>1 DEF RunningIsCurrent
    <3>3. q \notin Late(h)
      BY <3>1 DEF Late
    <3>4. \A r \in Procs : r # q => children[h] # Running(r)
      BY <3>1, EntryFacts
    <3>5. Late(h)' = (Late(h) \ {p}) \cup {q}
      BY <1>7, <3>1, <3>2, <3>4 DEF Late
    <3>6. StatusOf(children[h]) = "Open"
      BY <3>1, StatusFacts, EntryFacts
    <3> QED
      BY <1>4, <1>6, <2>1, <3>3, <3>5, <3>6, LateChange DEF Status!ReportLate
  <2>3. CASE ~\E q \in Procs : children[h] = Running(q) /\ OwnsChild(q)
    <3>1. Late(h)' = Late(h) \ {p}
      BY <1>7, <2>3 DEF Late
    <3> QED
      BY <1>4, <1>6, <2>1, <3>1, LateChange DEF Status!ReportLate
  <2> QED
    BY <2>2, <2>3
<1> QED
  BY <1>8, <1>9

\* A monitor that gives up on its child will not report it.
LEMMA GiveUpStatus ==
  ASSUME TunnelsInv, NEW p \in Procs, MonitorCanceled(p) \/ MonitorPollError(p),
         NEW h \in Hosts, key[p] = h
  PROVE  Status!GiveUp(h, p) \/ UNCHANGED Status!statusVars
<1> USE DEF TunnelsInv
<1>1. /\ UNCHANGED <<children, key>>
      /\ mon' = [mon EXCEPT ![p] = "ChildError"]
      /\ OwnsChild(p)
  BY DEF MonitorCanceled, MonitorPollError, OwnsChild
<1>3. \A g \in Hosts \ {h} : Late(g)' = Late(g)
  BY <1>1 DEF Late, OwnsChild, TunnelsTypeOK
<1>4. Late(h)' = Late(h) \ {p}
  BY <1>1 DEF Late, OwnsChild, TunnelsTypeOK
<1>5. CASE p \in Late(h)
  BY <1>1, <1>3, <1>4, <1>5, LateChange DEF Status!GiveUp
<1>6. CASE p \notin Late(h)
  <2>1. \A g \in Hosts : Late(g)' = Late(g)
    BY <1>3, <1>4, <1>6
  <2> QED
    BY <1>1, <2>1, LateSame DEF Status!statusVars
<1> QED
  BY <1>5, <1>6

\* Steps that the status does not show.
LEMMA HiddenStatus ==
  ASSUME TunnelsTypeOK, UNCHANGED <<children, key>>,
         \A p \in Procs : OwnsChild(p)' <=> OwnsChild(p)
  PROVE  UNCHANGED Status!statusVars
<1>1. \A g \in Hosts : Late(g)' = Late(g)
  BY DEF Late
<1> QED
  BY <1>1, LateSame DEF Status!statusVars

\* The end of the daemon.
LEMMA ShutdownStatus ==
  ASSUME Shutdown
  PROVE  Status!Stop
<1>1. \A h \in Hosts : Late(h)' = {}
  BY DEF Shutdown, Late, OwnsChild
<1>2. \A h \in Hosts : StatusOf(children[h])' = "NotListed"
  BY StatusFacts DEF Shutdown
<1> QED
  BY <1>1, <1>2 DEF Status!Stop
-----------------------------------------------------------------------------
\* Every step of the tunnels is a step of TunnelStatus or a stuttering step.
LEMMA StatusStep ==
  TunnelsInv /\ TunnelsInv' /\ [TunnelsNext]_tunnelVars => [Status!StatusNext]_(Status!statusVars)
<1> SUFFICES ASSUME TunnelsInv, TunnelsInv', [TunnelsNext]_tunnelVars
             PROVE  Status!StatusNext \/ UNCHANGED Status!statusVars
  OBVIOUS
<1>1. ASSUME NEW h \in Hosts, RegistryStep(h) PROVE Status!StatusNext
  BY <1>1, SpawnStatus, CloseStatus DEF RegistryStep, Status!StatusNext
<1>2. ASSUME NEW p \in Procs, MonitorStep(p) \/ MonitorPollError(p)
      PROVE  Status!StatusNext \/ UNCHANGED Status!statusVars
  <2>1. OwnsChild(p) => key[p] \in Hosts
    BY DEF TunnelsInv, MonitorInv, OwnsChild
  <2>2. CASE MonitorChildDied(p)
    BY <2>1, <2>2, ReportStatus DEF MonitorChildDied, OwnsChild, Status!StatusNext
  <2>3. CASE MonitorReaped(p)
    BY <2>1, <2>3, ReportStatus DEF MonitorReaped, OwnsChild, Status!StatusNext
  <2>4. CASE MonitorKill(p)
    <3>1. \A q \in Procs : OwnsChild(q)' <=> OwnsChild(q)
      BY <2>4 DEF MonitorKill, OwnsChild, TunnelsInv, TunnelsTypeOK
    <3> QED
      BY <2>4, <3>1, HiddenStatus DEF MonitorKill, TunnelsInv
  <2>5. CASE MonitorCanceled(p) \/ MonitorPollError(p)
    <3>1. key[p] \in Hosts
      BY <2>1, <2>5 DEF MonitorCanceled, MonitorPollError, OwnsChild
    <3> QED
      BY <2>5, <3>1, GiveUpStatus DEF Status!StatusNext
  <2>6. CASE MonitorPending(p)
    BY <2>6, HiddenStatus DEF MonitorPending, OwnsChild, TunnelsInv
  <2> QED
    BY <1>2, <2>2, <2>3, <2>4, <2>5, <2>6 DEF MonitorStep
<1>3. ASSUME NEW p \in Procs, SshStep(p) \/ PtyStep(p) PROVE UNCHANGED Status!statusVars
  <2>1. UNCHANGED <<children, key, mon>>
    BY <1>3 DEF SshStep, PtyStep, SshLogin, SshExits, SshExitsUnheard, DropPty, HandOff,
                HandOffEnds
  <2> QED
    BY <2>1, HiddenStatus DEF OwnsChild, TunnelsInv
<1>4. CASE Shutdown
  BY <1>4, ShutdownStatus DEF Status!StatusNext
<1>5. CASE UNCHANGED tunnelVars
  BY <1>5, HiddenStatus DEF tunnelVars, OwnsChild, TunnelsInv
<1> QED
  BY <1>1, <1>2, <1>3, <1>4, <1>5 DEF TunnelsNext

\* The daemon's registry, monitors and kill channels implement TunnelStatus:
\* whatever the interleaving, the status of a host changes only by a command,
\* by the death of the listed tunnel, or by the one report of a late tunnel.
THEOREM TunnelsImplementStatus == TunnelsSpec => ImplementsStatus
<1>1. TunnelsInit => Status!StatusInit
  <2> SUFFICES ASSUME TunnelsInit PROVE Status!StatusInit
    OBVIOUS
  <2>1. \A h \in Hosts : StatusOf(children[h]) = "NotListed"
    BY StatusFacts DEF TunnelsInit
  <2>2. \A h \in Hosts : Late(h) = {}
    BY DEF TunnelsInit, Late, OwnsChild
  <2> QED
    BY <2>1, <2>2 DEF Status!StatusInit
<1> QED
  BY <1>1, StatusStep, InvHolds, PTL DEF TunnelsSpec, ImplementsStatus, Status!StatusSpec
=============================================================================
