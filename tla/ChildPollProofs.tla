-------------------------- MODULE ChildPollProofs --------------------------
(***************************************************************************)
(* Safety of a Child for any number of children and pids.                  *)
(***************************************************************************)
EXTENDS ChildPoll, TLAPS

\* The pid of a process that has not been reaped is its own, and a Child that
\* has not reaped its process has one.
PidInv ==
  /\ \A c \in Kids : child[c] = "live" => proc[c] # "none"
  /\ \A c \in Kids : proc[c] # "none" => pid[c] \notin others
  /\ \A c, k \in Kids :
       proc[c] # "none" /\ proc[k] # "none" /\ pid[c] = pid[k] => c = k

\* Nothing is signalled or queued without a handler, and a Child whose stream
\* has not been registered is still to be polled.
StreamInv ==
  /\ receivers # {} => handler
  /\ pending => handler
  /\ \A c \in Kids : child[c] = "live" => c \in receivers \cup woken \/ turn = c

ChildPollInv ==
  /\ ChildPollTypeOK
  /\ PidInv
  /\ StreamInv
  /\ KillHitsOwnChild
  /\ DeathIsHeard

LEMMA InitInv == ChildPollInit => ChildPollInv
  BY ChildPollAssumption
     DEF ChildPollInit, ChildPollInv, ChildPollTypeOK, PidInv, StreamInv,
         KillHitsOwnChild, DeathIsHeard

-----------------------------------------------------------------------------
(***************************************************************************)
(* The system.                                                             *)
(***************************************************************************)
LEMMA OtherStartsInv == ChildPollInv /\ OtherStarts => ChildPollInv'
<1> SUFFICES ASSUME ChildPollInv, OtherStarts PROVE ChildPollInv'
  OBVIOUS
<1> USE DEF ChildPollInv, OtherStarts, taskVars, sigVars
<1>1. ChildPollTypeOK'
  BY DEF ChildPollTypeOK
<1>2. PidInv'
  BY DEF PidInv, InUse
<1>3. StreamInv' /\ KillHitsOwnChild' /\ DeathIsHeard'
  BY DEF StreamInv, KillHitsOwnChild, DeathIsHeard
<1> QED
  BY <1>1, <1>2, <1>3

LEMMA OtherEndsInv == ChildPollInv /\ OtherEnds => ChildPollInv'
<1> SUFFICES ASSUME ChildPollInv, OtherEnds PROVE ChildPollInv'
  OBVIOUS
<1> USE DEF ChildPollInv, OtherEnds, taskVars, sigVars
<1>1. ChildPollTypeOK'
  BY DEF ChildPollTypeOK
<1>2. PidInv'
  BY DEF PidInv
<1>3. StreamInv' /\ KillHitsOwnChild' /\ DeathIsHeard'
  BY DEF StreamInv, KillHitsOwnChild, DeathIsHeard
<1> QED
  BY <1>1, <1>2, <1>3

\* After a signal that is heard every living child is woken or in its poll.
LEMMA ProcDiesInv ==
  ASSUME NEW c \in Kids, ChildPollInv, ProcDies(c)
  PROVE  ChildPollInv'
<1> USE DEF ChildPollInv, ProcDies, Sigchld
<1>1. ChildPollTypeOK'
  BY DEF ChildPollTypeOK
<1>2. PidInv'
  BY DEF PidInv, ChildPollTypeOK
<1>3. StreamInv' /\ KillHitsOwnChild'
  BY DEF StreamInv, KillHitsOwnChild
<1>4. DeathIsHeard'
  <2> SUFFICES ASSUME NEW k \in Kids, child[k] = "live", proc'[k] = "zombie",
                      k \notin deaf', k \notin woken'
               PROVE  turn = k /\ (step = "try_wait" \/ pending' \/ k \in queue)
    BY DEF DeathIsHeard
  <2>1. CASE handler
    BY <2>1 DEF StreamInv, ChildPollTypeOK
  <2>2. CASE ~handler /\ k = c
    BY <2>2 DEF StreamInv, ChildPollTypeOK
  <2>3. CASE ~handler /\ k # c
    <3>1. proc[k] = "zombie" /\ k \notin deaf /\ k \notin woken
      BY <2>3 DEF ChildPollTypeOK
    <3>2. turn = k /\ (step = "try_wait" \/ pending \/ k \in queue)
      BY <3>1 DEF DeathIsHeard
    <3>3. ~pending /\ k \notin queue
      BY <2>3 DEF StreamInv, ChildPollTypeOK
    <3> QED
      BY <3>2, <3>3
  <2> QED
    BY <2>1, <2>2, <2>3
<1> QED
  BY <1>1, <1>2, <1>3, <1>4

LEMMA ProcStopsInv ==
  ASSUME NEW c \in Kids, ChildPollInv, ProcStops(c)
  PROVE  ChildPollInv'
<1> USE ChildPollAssumption DEF ChildPollInv, ProcStops, Sigchld, osVars
<1>1. ChildPollTypeOK' /\ PidInv' /\ KillHitsOwnChild'
  BY DEF ChildPollTypeOK, PidInv, KillHitsOwnChild
<1>2. StreamInv' /\ DeathIsHeard'
  BY DEF StreamInv, DeathIsHeard, ChildPollTypeOK
<1> QED
  BY <1>1, <1>2

-----------------------------------------------------------------------------
(***************************************************************************)
(* Child.                                                                  *)
(***************************************************************************)
LEMMA SpawnInv ==
  ASSUME NEW c \in Kids, ChildPollInv, Spawn(c)
  PROVE  ChildPollInv'
<1> USE DEF ChildPollInv, Spawn, sigVars
<1>1. ChildPollTypeOK'
  BY DEF ChildPollTypeOK
<1>2. PidInv'
  BY DEF PidInv, InUse, ChildPollTypeOK
<1>3. StreamInv' /\ KillHitsOwnChild'
  BY DEF StreamInv, KillHitsOwnChild, ChildPollTypeOK
<1>4. DeathIsHeard'
  BY DEF DeathIsHeard, ChildPollTypeOK
<1> QED
  BY <1>1, <1>2, <1>3, <1>4

LEMMA PollExitInv ==
  ASSUME NEW c \in Kids, ChildPollInv, PollExit(c)
  PROVE  ChildPollInv'
<1> USE ChildPollAssumption DEF ChildPollInv, PollExit, osVars, sigVars
<1>1. ChildPollTypeOK' /\ PidInv' /\ KillHitsOwnChild'
  BY DEF ChildPollTypeOK, PidInv, KillHitsOwnChild
<1>2. StreamInv'
  BY DEF StreamInv
<1>3. DeathIsHeard'
  BY DEF DeathIsHeard
<1> QED
  BY <1>1, <1>2, <1>3

LEMMA TryWaitInv ==
  ASSUME NEW c \in Kids, ChildPollInv, TryWait(c)
  PROVE  ChildPollInv'
<1> USE ChildPollAssumption DEF ChildPollInv, TryWait, sigVars
<1>1. ChildPollTypeOK'
  BY DEF ChildPollTypeOK
<1>2. PidInv' /\ KillHitsOwnChild'
  BY DEF PidInv, KillHitsOwnChild, ChildPollTypeOK
<1>3. StreamInv'
  BY DEF StreamInv, ChildPollTypeOK
<1>4. DeathIsHeard'
  BY DEF DeathIsHeard, ChildPollTypeOK
<1> QED
  BY <1>1, <1>2, <1>3, <1>4

LEMMA PollSigchldInv ==
  ASSUME NEW c \in Kids, ChildPollInv, PollSigchld(c)
  PROVE  ChildPollInv'
<1> USE ChildPollAssumption DEF ChildPollInv, PollSigchld, osVars
<1>1. ChildPollTypeOK'
  BY DEF ChildPollTypeOK
<1>2. PidInv' /\ KillHitsOwnChild'
  BY DEF PidInv, KillHitsOwnChild
<1>3. StreamInv'
  BY DEF StreamInv
<1>4. DeathIsHeard'
  BY DEF DeathIsHeard
<1> QED
  BY <1>1, <1>2, <1>3, <1>4

\* The pid of a Child that has not reaped its process is not anybody else's.
LEMMA KillIsSafe ==
  ASSUME NEW c \in Kids, ChildPollInv, child[c] \in {"live", "reaped"}, Kill(c)
  PROVE  sig' \subseteq Kids /\ stray' = FALSE
<1> USE DEF ChildPollInv, ChildPollTypeOK, KillHitsOwnChild, Kill
<1>1. CASE child[c] = "reaped"
  BY <1>1
<1>2. CASE child[c] = "live"
  <2>1. proc[c] # "none" /\ pid[c] \notin others
    BY <1>2 DEF PidInv
  <2>2. ~\E k \in Kids \ {c} : proc[k] # "none" /\ pid[k] = pid[c]
    BY <2>1 DEF PidInv
  <2> QED
    BY <1>2, <2>1, <2>2 DEF Signal
<1> QED
  BY <1>1, <1>2

LEMMA KillChildInv ==
  ASSUME NEW c \in Kids, ChildPollInv, KillChild(c)
  PROVE  ChildPollInv'
<1>1. sig' \subseteq Kids /\ stray' = FALSE
  BY KillIsSafe DEF KillChild
<1> USE DEF ChildPollInv, KillChild, taskVars, sigVars
<1>2. ChildPollTypeOK' /\ KillHitsOwnChild'
  BY <1>1 DEF ChildPollTypeOK, KillHitsOwnChild
<1>3. PidInv' /\ StreamInv' /\ DeathIsHeard'
  BY DEF PidInv, StreamInv, DeathIsHeard
<1> QED
  BY <1>2, <1>3

LEMMA DropChildInv ==
  ASSUME NEW c \in Kids, NEW kill_on_drop \in BOOLEAN, ChildPollInv,
         DropChild(c, kill_on_drop)
  PROVE  ChildPollInv'
<1>1. sig' \subseteq Kids /\ stray' = FALSE
  BY KillIsSafe DEF DropChild, ChildPollInv, ChildPollTypeOK, KillHitsOwnChild
<1> USE ChildPollAssumption DEF ChildPollInv, DropChild
<1>2. ChildPollTypeOK' /\ KillHitsOwnChild'
  BY <1>1 DEF ChildPollTypeOK, KillHitsOwnChild
<1>3. PidInv'
  BY DEF PidInv, ChildPollTypeOK
<1>4. StreamInv'
  BY DEF StreamInv, ChildPollTypeOK
<1>5. DeathIsHeard'
  BY DEF DeathIsHeard, ChildPollTypeOK
<1> QED
  BY <1>2, <1>3, <1>4, <1>5

-----------------------------------------------------------------------------
\* ChildPollInv is an invariant of the children.
THEOREM ChildPollInvHolds == ChildPollSpec => []ChildPollInv
<1>1. ChildPollInv /\ [ChildPollNext]_vars => ChildPollInv'
  <2> SUFFICES ASSUME ChildPollInv, [ChildPollNext]_vars PROVE ChildPollInv'
    OBVIOUS
  <2>1. CASE OtherStarts \/ OtherEnds
    BY <2>1, OtherStartsInv, OtherEndsInv
  <2>2. ASSUME NEW c \in Kids,
               Spawn(c) \/ PollExit(c) \/ TryWait(c) \/ PollSigchld(c) \/ KillChild(c)
        PROVE  ChildPollInv'
    BY <2>2, SpawnInv, PollExitInv, TryWaitInv, PollSigchldInv, KillChildInv
  <2>3. ASSUME NEW c \in Kids, NEW kill_on_drop \in BOOLEAN, DropChild(c, kill_on_drop)
        PROVE  ChildPollInv'
    BY <2>3, DropChildInv
  <2>4. ASSUME NEW c \in Kids, ProcDies(c) \/ ProcStops(c)
        PROVE  ChildPollInv'
    BY <2>4, ProcDiesInv, ProcStopsInv
  <2>5. CASE UNCHANGED vars
    BY <2>5 DEF vars, osVars, taskVars, sigVars, ChildPollInv, ChildPollTypeOK, PidInv,
                StreamInv, KillHitsOwnChild, DeathIsHeard
  <2> QED
    BY <2>1, <2>2, <2>3, <2>4, <2>5 DEF ChildPollNext
<1> QED
  BY <1>1, InitInv, PTL DEF ChildPollSpec

\* The state of the children is well-typed; in particular only a stream that
\* is registered has messages to take.
THEOREM ChildPollTypeCorrect == ChildPollSpec => []ChildPollTypeOK
<1>1. ChildPollInv => ChildPollTypeOK
  BY DEF ChildPollInv
<1> QED
  BY <1>1, ChildPollInvHolds, PTL

\* kill and drop of a Child never signal another process, however pids are
\* used again.
THEOREM KillHitsOwnChildHolds == ChildPollSpec => []KillHitsOwnChild
<1>1. ChildPollInv => KillHitsOwnChild
  BY DEF ChildPollInv
<1> QED
  BY <1>1, ChildPollInvHolds, PTL

\* poll_exit loses no wake-up: a dead child that was heard is woken or in a
\* poll that will see it.
THEOREM DeathIsHeardHolds == ChildPollSpec => []DeathIsHeard
<1>1. ChildPollInv => DeathIsHeard
  BY DEF ChildPollInv
<1> QED
  BY <1>1, ChildPollInvHolds, PTL
=============================================================================
