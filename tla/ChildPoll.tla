----------------------------- MODULE ChildPoll -----------------------------
(***************************************************************************)
(* The Child of tokio-pty-process: how a task learns of the death of its   *)
(* process from waitpid and SIGCHLD, and how it kills it by its pid.       *)
(* Module Tunnels takes a poll of a Child to be one atomic step that is    *)
(* taken once the process is dead; this module looks into it.              *)
(*                                                                         *)
(* All tasks are polled by one thread, so that polls exclude one another,  *)
(* but processes die, and signals arrive, in the middle of a poll.  The    *)
(* SIGCHLD stream (tokio_signal, external) installs the signal handler and *)
(* registers its receiver when it is first polled, not when it is made.    *)
(* The handler sets one flag for all children; whichever stream is polled  *)
(* next clears it and puts a message into the queue of every receiver.     *)
(***************************************************************************)
EXTENDS FiniteSets

CONSTANTS Kids,    \* identities for Child values and their processes
          Pids,    \* the process identifiers the system hands out
          NoPid,   \* a process that was never started
          Nobody   \* no task is being polled

ASSUME ChildPollAssumption == NoPid \notin Pids /\ Nobody \notin Kids

VARIABLES
  child,    \* the Child value: none, live, reaped (its flag is set), dropped
  proc,     \* the process: none, running, zombie; none again once reaped
  pid,      \* inner.id(), which outlives the process
  sig,      \* processes that SIGKILL is on its way to
  others,   \* pids in use by processes that are not ours
  turn,     \* whose poll is going on ...
  step,     \* ... and what it does next, "try_wait" or "sigchld"
  woken,    \* tasks that will be polled
  handler,  \* has the handler for SIGCHLD been installed?
  pending,  \* has it run since the flag was last cleared?
  receivers,\* children whose stream has been registered
  queue,    \* receivers with a message to take
  deaf,     \* history: children that died unheard, and no signal came since
  stray     \* history: a signal was sent to somebody else's process

osVars   == <<proc, pid, sig, others>>
taskVars == <<child, turn, step, woken>>
sigVars  == <<handler, pending, receivers, queue, deaf>>
vars == <<osVars, taskVars, sigVars, stray>>

ChildPollTypeOK ==
  /\ child \in [Kids -> {"none", "live", "reaped", "dropped"}]
  /\ proc \in [Kids -> {"none", "running", "zombie"}]
  /\ pid \in [Kids -> Pids \cup {NoPid}]
  /\ sig \subseteq Kids /\ others \subseteq Pids
  /\ turn \in Kids \cup {Nobody} /\ step \in {"try_wait", "sigchld"}
  /\ woken \subseteq Kids /\ receivers \subseteq Kids
  /\ queue \subseteq receivers /\ deaf \subseteq Kids
  /\ handler \in BOOLEAN /\ pending \in BOOLEAN /\ stray \in BOOLEAN

ChildPollInit ==
  /\ child = [c \in Kids |-> "none"]
  /\ proc = [c \in Kids |-> "none"]
  /\ pid = [c \in Kids |-> NoPid]
  /\ sig = {} /\ others = {}
  /\ turn = Nobody /\ step = "try_wait" /\ woken = {}
  /\ handler = FALSE /\ pending = FALSE
  /\ receivers = {} /\ queue = {} /\ deaf = {} /\ stray = FALSE

\* A zombie keeps its pid until it is reaped.
InUse == others \cup {pid[c] : c \in {k \in Kids : proc[k] # "none"}}
-----------------------------------------------------------------------------
(***************************************************************************)
(* The system: other processes, and the death of a child.                  *)
(***************************************************************************)
OtherStarts ==
  /\ \E n \in Pids \ InUse : others' = others \cup {n}
  /\ UNCHANGED <<proc, pid, sig, taskVars, sigVars, stray>>

OtherEnds ==
  /\ \E n \in others : others' = others \ {n}
  /\ UNCHANGED <<proc, pid, sig, taskVars, sigVars, stray>>

\* SIGCHLD.  Without a handler it is ignored.  With one, the flag is set and
\* the tasks with a registered stream are woken through the handler's pipe.
Sigchld(d) ==
  /\ pending' = handler
  /\ woken' = IF handler THEN woken \cup receivers ELSE woken
  /\ deaf' = IF handler THEN {} ELSE deaf \cup d
  /\ UNCHANGED <<handler, receivers, queue>>

\* A death is unheard if it comes after waitpid of the poll that installs the
\* handler, and before it is installed.
ProcDies(c) ==
  /\ proc[c] = "running"
  /\ proc' = [proc EXCEPT ![c] = "zombie"]
  /\ sig' = sig \ {c}
  /\ Sigchld(IF turn = c /\ step = "sigchld" THEN {c} ELSE {})
  /\ UNCHANGED <<pid, others, child, turn, step, stray>>

\* A child is stopped or continued, which raises SIGCHLD as well; between two
\* polls, so that a poll is not kept busy for ever.
ProcStops(c) ==
  /\ turn = Nobody
  /\ proc[c] = "running"
  /\ handler
  /\ Sigchld({})
  /\ UNCHANGED <<osVars, child, turn, step, stray>>
-----------------------------------------------------------------------------
(***************************************************************************)
(* Child.                                                                  *)
(***************************************************************************)

\* spawn_pty_async_full and Child::new; the monitor's task is polled next.
\* c stands for another Child once all of the last one is gone.
Spawn(c) ==
  /\ turn = Nobody
  /\ child[c] \in {"none", "dropped"}
  /\ proc[c] = "none"
  /\ \E n \in Pids \ InUse : pid' = [pid EXCEPT ![c] = n]
  /\ proc' = [proc EXCEPT ![c] = "running"]
  /\ child' = [child EXCEPT ![c] = "live"]
  /\ woken' = woken \cup {c}
  /\ UNCHANGED <<sig, others, turn, step, sigVars, stray>>

\* A task that was woken is polled: poll_exit is entered.
PollExit(c) ==
  /\ turn = Nobody
  /\ c \in woken
  /\ child[c] = "live"
  /\ turn' = c
  /\ step' = "try_wait"
  /\ woken' = woken \ {c}
  /\ UNCHANGED <<osVars, child, sigVars, stray>>

\* Mutant: the process is reaped and the flag not set.
TryWaitForgets(c) ==
  /\ turn = c /\ step = "try_wait"
  /\ \/ /\ proc[c] = "zombie"
        /\ proc' = [proc EXCEPT ![c] = "none"]
        /\ turn' = Nobody
        /\ UNCHANGED <<step, child>>
     \/ /\ proc[c] # "zombie"
        /\ step' = "sigchld"
        /\ UNCHANGED <<proc, child, turn>>
  /\ UNCHANGED <<pid, sig, others, woken, sigVars, stray>>

\* try_wait: if the process is dead it is reaped, and the future is ready;
\* otherwise the stream is asked.
TryWait(c) ==
  /\ turn = c /\ step = "try_wait"
  /\ \/ /\ proc[c] = "zombie"
        /\ proc' = [proc EXCEPT ![c] = "none"]
        /\ child' = [child EXCEPT ![c] = "reaped"]
        /\ turn' = Nobody
        /\ UNCHANGED step
     \/ /\ proc[c] # "zombie"
        /\ step' = "sigchld"
        /\ UNCHANGED <<proc, child, turn>>
  /\ UNCHANGED <<pid, sig, others, woken, sigVars, stray>>

\* Mutant: a message ends the poll as if there had been none (no loop).
PollSigchldOnce(c) ==
  LET all == receivers \cup {c}
      q   == IF pending THEN all ELSE queue
  IN /\ turn = c /\ step = "sigchld"
     /\ handler' = TRUE
     /\ receivers' = all
     /\ pending' = FALSE
     /\ queue' = q \ {c}
     /\ woken' = IF pending THEN woken \cup (receivers \ {c}) ELSE woken
     /\ step' = "try_wait"
     /\ turn' = Nobody
     /\ UNCHANGED <<osVars, child, deaf, stray>>

\* sigchld.poll: register if this is the first time, distribute what has been
\* signalled, and look into one's own queue; if there was a message go round
\* the loop, if not go to sleep.
PollSigchld(c) ==
  LET all == receivers \cup {c}
      q   == IF pending THEN all ELSE queue
  IN /\ turn = c /\ step = "sigchld"
     /\ handler' = TRUE
     /\ receivers' = all
     /\ pending' = FALSE
     /\ queue' = q \ {c}
     /\ woken' = IF pending THEN woken \cup (receivers \ {c}) ELSE woken
     /\ step' = "try_wait"
     /\ turn' = IF c \in q THEN c ELSE Nobody
     /\ UNCHANGED <<osVars, child, deaf, stray>>

\* SIGKILL to the process that has c's pid.
Signal(c) ==
  /\ sig' = sig \cup {k \in Kids : proc[k] = "running" /\ pid[k] = pid[c]}
  /\ stray' = (stray \/ pid[c] \in others
                     \/ \E k \in Kids \ {c} : proc[k] # "none" /\ pid[k] = pid[c])

\* Mutant: kill whatever has the pid.
KillRegardless(c) == Signal(c)

\* kill, which does nothing once the process has been reaped.
Kill(c) ==
  IF child[c] = "reaped" THEN UNCHANGED <<sig, stray>> ELSE Signal(c)

\* The monitor has been ordered to kill its child.
KillChild(c) ==
  /\ turn = Nobody
  /\ child[c] \in {"live", "reaped"}
  /\ Kill(c)
  /\ UNCHANGED <<proc, pid, others, taskVars, sigVars>>

\* Mutant: the registration of the stream outlives it in part.
DropChildKeepsQueue(c, kill_on_drop) ==
  /\ turn = Nobody
  /\ child[c] \in {"live", "reaped"}
  /\ IF kill_on_drop THEN Kill(c) ELSE UNCHANGED <<sig, stray>>
  /\ child' = [child EXCEPT ![c] = "dropped"]
  /\ woken' = woken \ {c}
  /\ receivers' = receivers \ {c}
  /\ deaf' = deaf \ {c}
  /\ UNCHANGED <<proc, pid, others, turn, step, handler, pending, queue>>

\* Drop: kill, if kill_on_drop (forget has not cleared it).  The stream is
\* dropped as well.  Nobody waits for the process any more.
DropChild(c, kill_on_drop) ==
  /\ turn = Nobody
  /\ child[c] \in {"live", "reaped"}
  /\ IF kill_on_drop THEN Kill(c) ELSE UNCHANGED <<sig, stray>>
  /\ child' = [child EXCEPT ![c] = "dropped"]
  /\ woken' = woken \ {c}
  /\ receivers' = receivers \ {c}
  /\ queue' = queue \ {c}
  /\ deaf' = deaf \ {c}
  /\ UNCHANGED <<proc, pid, others, turn, step, handler, pending>>
-----------------------------------------------------------------------------
ChildPollNext ==
  \/ OtherStarts \/ OtherEnds
  \/ \E c \in Kids :
       \/ Spawn(c) \/ PollExit(c) \/ TryWait(c) \/ PollSigchld(c) \/ KillChild(c)
       \/ \E kill_on_drop \in BOOLEAN : DropChild(c, kill_on_drop)
       \/ ProcDies(c) \/ ProcStops(c)

ChildPollSpec == ChildPollInit /\ [][ChildPollNext]_vars

\* A poll goes on.  The reactor keeps a queue of the tasks that were woken, so
\* that each of them gets its turn however often others are polled before it.
\* A process dies of SIGKILL.
ChildPollFairSpec ==
  /\ ChildPollSpec
  /\ \A c \in Kids :
       /\ SF_vars(PollExit(c))
       /\ WF_vars(TryWait(c)) /\ WF_vars(PollSigchld(c))
       /\ WF_vars(c \in sig /\ ProcDies(c))
-----------------------------------------------------------------------------
(***************************************************************************)
(* Properties.                                                             *)
(***************************************************************************)

\* kill and drop never signal a process that is not the Child's own, although
\* the pid of a child that has been reaped may be given to somebody else
\* while the Child is still around: this is what the flag reaped is for.
KillHitsOwnChild == ~stray

\* No wake-up is lost: a process that is dead and not reaped has its task in
\* the reactor's queue, or its poll is going on and will call waitpid again.
\* The exception is a death between waitpid and the installation of the
\* handler in the poll that installs it.
DeathIsHeard ==
  \A c \in Kids :
    child[c] = "live" /\ proc[c] = "zombie" /\ c \notin deaf =>
      \/ c \in woken
      \/ turn = c /\ (step = "try_wait" \/ pending \/ c \in queue)

\* A child that was killed or died by itself is reaped while its Child lives,
\* "when it might be able to make progress" (poll_exit); also one whose death
\* was not heard, once another SIGCHLD comes.
DeadIsReaped ==
  \A c \in Kids :
    (child[c] = "live" /\ (proc[c] = "zombie" \/ c \in sig))
      ~> (child[c] # "live" \/ c \in deaf)
=============================================================================
