------------------------------ MODULE Startup ------------------------------
(***************************************************************************)
(* How the daemon comes to be: "stund open" and "stund close" connect to   *)
(* the socket and, if that fails, run "stund daemon" and try again         *)
(* (Connection::establish); "stund daemon" probes the socket, removes it,  *)
(* detaches itself and binds it anew (State::new, State::serve).  Nothing  *)
(* makes these steps atomic, and any number of clients may be at it.       *)
(*                                                                         *)
(* A member of Clients names one invocation of the program together with   *)
(* the daemon process it may launch.  It is "by hand" if it is a "stund    *)
(* daemon" that the user typed.                                            *)
(***************************************************************************)
CONSTANTS Clients,
          NoSocket  \* the socket path does not exist

ASSUME NoSocketAssumption == NoSocket \notin Clients

VARIABLES
  client,    \* where each client is in establish_inner
  daemon,    \* where the daemon process launched by each client is
  path,      \* whose socket the path $HOME/.ssh/stund.sock refers to
  conn,      \* the daemon each client is connected to
  overlap    \* history: was a daemon launched while another one was starting?

startupVars == <<client, daemon, path, conn, overlap>>

\* The states of a daemon process in which its start-up is not over yet.
Starting == {"probing", "removing", "detaching", "binding"}

\* The states of a daemon that has a socket.  A "deaf" one lost its listener to
\* an accept error, but still keeps its tunnels.
Serving(d) == daemon[d] \in {"listening", "deaf"}

\* Well-typed; and a client that went on has a connection, the others have none.
StartupTypeOK ==
  /\ client \in [Clients -> {"connecting", "launching", "sleeping", "connected", "failed",
                         "by hand"}]
  /\ daemon \in [Clients -> {"none", "listening", "deaf", "refused", "exited"} \cup Starting]
  /\ path \in Clients \cup {NoSocket}
  /\ conn \in [Clients -> Clients \cup {NoSocket}]
  /\ \A c \in Clients : conn[c] # NoSocket <=> client[c] = "connected"
  /\ overlap \in BOOLEAN

StartupInit ==
  /\ client = [c \in Clients |-> "connecting"]
  /\ daemon = [c \in Clients |-> "none"]
  /\ path = NoSocket
  /\ conn = [c \in Clients |-> NoSocket]
  /\ overlap = FALSE

\* connect(2) succeeds: the path leads to a socket somebody listens on.
Connectable == path # NoSocket /\ daemon[path] = "listening"

ClientBecomes(c, st) == client' = [client EXCEPT ![c] = st]
DaemonBecomes(d, st) == daemon' = [daemon EXCEPT ![d] = st]
-----------------------------------------------------------------------------
(***************************************************************************)
(* Connection::establish_inner.                                            *)
(***************************************************************************)

\* Both calls of UnixStream::connect, when they succeed.
ConnectSucceeds(c) ==
  /\ client[c] \in {"connecting", "sleeping"}
  /\ Connectable
  /\ ClientBecomes(c, "connected")
  /\ conn' = [conn EXCEPT ![c] = path]
  /\ UNCHANGED <<daemon, path, overlap>>

\* The first call fails: run "stund daemon" and wait for it.
Launch(c) ==
  /\ client[c] = "connecting"
  /\ ~Connectable
  /\ ClientBecomes(c, "launching")
  /\ DaemonBecomes(c, "probing")
  /\ overlap' = (overlap \/ \E d \in Clients : daemon[d] \in Starting)
  /\ UNCHANGED <<path, conn>>

\* The first call fails and nothing is launched: the command does without a
\* daemon (try_establish), or the launcher itself cannot be run.
NoLaunch(c) ==
  /\ client[c] = "connecting"
  /\ ~Connectable
  /\ ClientBecomes(c, "failed")
  /\ UNCHANGED <<daemon, path, conn, overlap>>

\* "stund daemon", typed by the user: no client has looked for a daemon first.
StartByHand(c) ==
  /\ client[c] = "connecting"
  /\ ClientBecomes(c, "by hand")
  /\ DaemonBecomes(c, "probing")
  /\ overlap' = (overlap \/ \E d \in Clients : daemon[d] \in Starting)
  /\ UNCHANGED <<path, conn>>

\* The launcher reports failure.
LaunchFails(c) ==
  /\ client[c] = "launching"
  /\ daemon[c] = "refused"
  /\ ClientBecomes(c, "failed")
  /\ UNCHANGED <<daemon, path, conn, overlap>>

\* Mutant: wait until the daemon listens.
LaunchSucceedsWhenListening(c) ==
  /\ client[c] = "launching"
  /\ daemon[c] = "listening"
  /\ ClientBecomes(c, "sleeping")
  /\ UNCHANGED <<daemon, path, conn, overlap>>

\* The launcher reports success as soon as the daemon has detached itself.
LaunchSucceeds(c) ==
  /\ client[c] = "launching"
  /\ daemon[c] \notin {"probing", "removing", "detaching", "refused"}
  /\ ClientBecomes(c, "sleeping")
  /\ UNCHANGED <<daemon, path, conn, overlap>>

\* Mutant: the result of the second call is not looked at.
ConnectFailsUnnoticed(c) ==
  /\ client[c] = "sleeping"
  /\ ~Connectable
  /\ ClientBecomes(c, "connected")
  /\ UNCHANGED <<daemon, path, conn, overlap>>

\* The second call comes after 300 milliseconds and fails: there is no retry.
ConnectFails(c) ==
  /\ client[c] = "sleeping"
  /\ ~Connectable
  /\ ClientBecomes(c, "failed")
  /\ UNCHANGED <<daemon, path, conn, overlap>>

-----------------------------------------------------------------------------
(***************************************************************************)
(* State::new and State::serve.                                            *)
(***************************************************************************)

\* Mutant: start without looking for another daemon.
ProbeSkipped(d) ==
  /\ daemon[d] = "probing"
  /\ DaemonBecomes(d, "removing")
  /\ UNCHANGED <<client, path, conn, overlap>>

\* "refusing to start: another daemon is already running", or go on.
Probe(d) ==
  /\ daemon[d] = "probing"
  /\ DaemonBecomes(d, IF Connectable THEN "refused" ELSE "removing")
  /\ UNCHANGED <<client, path, conn, overlap>>

\* fs::remove_file of whatever is there now; if that cannot be removed the
\* launcher says so.
Remove(d) ==
  /\ daemon[d] = "removing"
  /\ \/ DaemonBecomes(d, "detaching") /\ path' = NoSocket
     \/ path # NoSocket /\ DaemonBecomes(d, "refused") /\ UNCHANGED path
  /\ UNCHANGED <<client, conn, overlap>>

\* The log file and the fork.  If they fail the launcher says so.
Detach(d) ==
  /\ daemon[d] = "detaching"
  /\ \E st \in {"binding", "refused"} : DaemonBecomes(d, st)
  /\ UNCHANGED <<client, path, conn, overlap>>

\* UnixListener::bind fails if the path exists; nobody is there to be told.
Bind(d) ==
  /\ daemon[d] = "binding"
  /\ IF path = NoSocket
     THEN DaemonBecomes(d, "listening") /\ path' = d
     ELSE DaemonBecomes(d, "exited") /\ UNCHANGED path
  /\ UNCHANGED <<client, conn, overlap>>

\* An accept error ends the listener, but not the daemon.
AcceptError(d) ==
  /\ daemon[d] = "listening"
  /\ DaemonBecomes(d, "deaf")
  /\ UNCHANGED <<client, path, conn, overlap>>

\* The daemon exits on a signal or by command.  Its socket file stays.
DaemonExits(d) ==
  /\ Serving(d)
  /\ DaemonBecomes(d, "exited")
  /\ UNCHANGED <<client, path, conn, overlap>>

-----------------------------------------------------------------------------
ClientStep(c) ==
  \/ ConnectSucceeds(c)
  \/ Launch(c)
  \/ NoLaunch(c)
  \/ LaunchFails(c)
  \/ LaunchSucceeds(c)
  \/ ConnectFails(c)

DaemonStart(d) == Probe(d) \/ Remove(d) \/ Detach(d) \/ Bind(d)

StartupNext ==
  \E c \in Clients :
    ClientStep(c) \/ StartByHand(c) \/ DaemonStart(c) \/ AcceptError(c) \/ DaemonExits(c)

StartupSpec == StartupInit /\ [][StartupNext]_startupVars

\* Both programs go on; neither an accept error nor an exit has to happen.
StartupFairness ==
  \A c \in Clients : WF_startupVars(ClientStep(c)) /\ WF_startupVars(DaemonStart(c))

StartupFairSpec == StartupSpec /\ StartupFairness
-----------------------------------------------------------------------------
(***************************************************************************)
(* Properties.                                                             *)
(***************************************************************************)

\* As long as no two start-ups overlapped, the probe in State::new does what it
\* is for: a daemon that listens is the one the path leads to.  So there is at
\* most one, and no later start cuts it off from its clients by removing or
\* replacing its socket, whatever daemons failed, went deaf or exited before.
ListeningIsReachable ==
  ~overlap => \A d \in Clients : daemon[d] = "listening" => path = d

\* establish returns: every client is connected or reports an error.
EstablishEnds == \A c \in Clients : <>(client[c] \in {"connected", "failed", "by hand"})

\* State::new: "refusing to start: another daemon is already running".
OnlyOneDaemon ==
  \A d, e \in Clients : daemon[d] = "listening" /\ daemon[e] = "listening" => d = e
=============================================================================
