--------------------------- MODULE StartupProofs ---------------------------
(***************************************************************************)
(* Safety of the start-up for any number of clients and daemons.           *)
(***************************************************************************)
EXTENDS Startup, TLAPS

\* The states behind the probe: the daemon will remove or bind the path.
Committed == {"removing", "detaching", "binding"}

\* As long as start-ups do not overlap there is one at a time, and once it has
\* probed the socket nobody listens until it does itself.
ExclusiveInv ==
  ~overlap =>
    /\ \A d, e \in Clients : daemon[d] \in Starting /\ daemon[e] \in Starting => d = e
    /\ \A d, e \in Clients : daemon[d] \in Committed => daemon[e] # "listening"

StartupInv == StartupTypeOK /\ ExclusiveInv /\ ListeningIsReachable

LEMMA InitInv == StartupInit => StartupInv
  BY DEF StartupInit, StartupInv, StartupTypeOK, ExclusiveInv, ListeningIsReachable,
         Starting, Committed

\* A step of a client that launches nothing leaves the daemons alone.
LEMMA ClientInv ==
  ASSUME NEW c \in Clients, StartupInv,
         \/ ConnectSucceeds(c) \/ NoLaunch(c)
         \/ LaunchFails(c) \/ LaunchSucceeds(c) \/ ConnectFails(c)
  PROVE  StartupInv'
<1> USE DEF StartupInv, ConnectSucceeds, NoLaunch, LaunchFails, LaunchSucceeds, ConnectFails,
            ClientBecomes
<1>1. StartupTypeOK'
  BY DEF StartupTypeOK, Connectable
<1>2. ExclusiveInv' /\ ListeningIsReachable'
  BY DEF ExclusiveInv, ListeningIsReachable
<1> QED
  BY <1>1, <1>2

LEMMA LaunchInv ==
  ASSUME NEW c \in Clients, StartupInv, Launch(c) \/ StartByHand(c)
  PROVE  StartupInv'
<1> USE DEF StartupInv, Launch, StartByHand, ClientBecomes, DaemonBecomes
<1>1. StartupTypeOK'
  BY DEF StartupTypeOK, Starting
<1>2. ExclusiveInv'
  <2> SUFFICES ASSUME ~overlap', NEW x \in Clients, NEW y \in Clients
               PROVE  /\ daemon'[x] \in Starting /\ daemon'[y] \in Starting => x = y
                      /\ daemon'[x] \in Committed => daemon'[y] # "listening"
    BY DEF ExclusiveInv
  <2>1. /\ daemon[x] \in Starting /\ daemon[y] \in Starting => x = y
        /\ daemon[x] \in Committed => daemon[y] # "listening"
    BY DEF ExclusiveInv
  <2>2. \A e \in Clients : daemon[e] \notin Starting
    OBVIOUS
  <2>3. daemon' = [daemon EXCEPT ![c] = "probing"] /\ DOMAIN daemon = Clients
    BY DEF StartupTypeOK
  <2>4. \A e \in Clients : daemon'[e] = IF e = c THEN "probing" ELSE daemon[e]
    BY <2>3
  <2> QED
    BY <2>1, <2>2, <2>4 DEF Starting, Committed
<1>3. ListeningIsReachable'
  BY DEF ListeningIsReachable, StartupTypeOK
<1> QED
  BY <1>1, <1>2, <1>3

\* The crucial step: a probe that finds nobody has found out that nobody
\* listens at all, since who listens is reachable.
LEMMA ProbeInv ==
  ASSUME NEW d \in Clients, StartupInv, Probe(d)
  PROVE  StartupInv'
<1> USE DEF StartupInv, Probe, DaemonBecomes
<1>1. StartupTypeOK'
  BY DEF StartupTypeOK, Starting
<1>2. ExclusiveInv'
  <2> SUFFICES ASSUME ~overlap', NEW x \in Clients, NEW y \in Clients
               PROVE  /\ daemon'[x] \in Starting /\ daemon'[y] \in Starting => x = y
                      /\ daemon'[x] \in Committed => daemon'[y] # "listening"
    BY DEF ExclusiveInv
  <2>1. /\ daemon[x] \in Starting /\ daemon[y] \in Starting => x = y
        /\ daemon[x] \in Committed => daemon[y] # "listening"
    BY DEF ExclusiveInv
  <2>2. ~Connectable => daemon[y] # "listening"
    BY NoSocketAssumption DEF Connectable, ListeningIsReachable
  <2>3. \A e \in Clients :
          daemon'[e] = IF e = d THEN IF Connectable THEN "refused" ELSE "removing"
                       ELSE daemon[e]
    BY DEF StartupTypeOK
  <2>4. daemon[d] = "probing"
    OBVIOUS
  <2> HIDE DEF Probe, StartupInv
  <2> QED
    BY <2>1, <2>2, <2>3, <2>4 DEF Starting, Committed
<1>3. ListeningIsReachable'
  BY DEF ListeningIsReachable, StartupTypeOK
<1> QED
  BY <1>1, <1>2, <1>3

LEMMA RemoveInv ==
  ASSUME NEW d \in Clients, StartupInv, Remove(d) \/ Detach(d)
  PROVE  StartupInv'
<1> USE DEF StartupInv, Remove, Detach, DaemonBecomes
<1>1. StartupTypeOK'
  BY DEF StartupTypeOK, Starting
<1>2. ExclusiveInv'
  <2> SUFFICES ASSUME ~overlap', NEW x \in Clients, NEW y \in Clients
               PROVE  /\ daemon'[x] \in Starting /\ daemon'[y] \in Starting => x = y
                      /\ daemon'[x] \in Committed => daemon'[y] # "listening"
    BY DEF ExclusiveInv
  <2>1. /\ daemon[x] \in Starting /\ daemon[y] \in Starting => x = y
        /\ daemon[x] \in Committed => daemon[y] # "listening"
    BY DEF ExclusiveInv
  <2> QED
    BY <2>1 DEF StartupTypeOK, Starting, Committed
<1>3. ListeningIsReachable'
  <2>1. ~overlap => \A e \in Clients : daemon[e] # "listening"
    BY DEF ExclusiveInv, Committed
  <2> QED
    BY <2>1 DEF ListeningIsReachable, StartupTypeOK
<1> QED
  BY <1>1, <1>2, <1>3

LEMMA BindInv ==
  ASSUME NEW d \in Clients, StartupInv, Bind(d)
  PROVE  StartupInv'
<1> USE DEF StartupInv, Bind, DaemonBecomes
<1>1. StartupTypeOK'
  BY DEF StartupTypeOK, Starting
<1>2. ExclusiveInv'
  <2> SUFFICES ASSUME ~overlap', NEW x \in Clients, NEW y \in Clients
               PROVE  /\ daemon'[x] \in Starting /\ daemon'[y] \in Starting => x = y
                      /\ daemon'[x] \in Committed => daemon'[y] # "listening"
    BY DEF ExclusiveInv
  <2>1. /\ daemon[x] \in Starting /\ daemon[y] \in Starting => x = y
        /\ daemon[x] \in Committed => daemon[y] # "listening"
    BY DEF ExclusiveInv
  <2> QED
    BY <2>1 DEF StartupTypeOK, Starting, Committed
<1>3. ListeningIsReachable'
  BY DEF ListeningIsReachable, ExclusiveInv, StartupTypeOK, Committed
<1> QED
  BY <1>1, <1>2, <1>3

LEMMA EndInv ==
  ASSUME NEW d \in Clients, StartupInv, AcceptError(d) \/ DaemonExits(d)
  PROVE  StartupInv'
<1> USE DEF StartupInv, AcceptError, DaemonExits, Serving, DaemonBecomes
<1>1. StartupTypeOK'
  BY DEF StartupTypeOK
<1>2. ExclusiveInv'
  <2> SUFFICES ASSUME ~overlap', NEW x \in Clients, NEW y \in Clients
               PROVE  /\ daemon'[x] \in Starting /\ daemon'[y] \in Starting => x = y
                      /\ daemon'[x] \in Committed => daemon'[y] # "listening"
    BY DEF ExclusiveInv
  <2>1. /\ daemon[x] \in Starting /\ daemon[y] \in Starting => x = y
        /\ daemon[x] \in Committed => daemon[y] # "listening"
    BY DEF ExclusiveInv
  <2> QED
    BY <2>1 DEF StartupTypeOK, Starting, Committed
<1>3. ListeningIsReachable'
  BY DEF ListeningIsReachable, StartupTypeOK
<1> QED
  BY <1>1, <1>2, <1>3

-----------------------------------------------------------------------------
\* StartupInv is an invariant of the start-up.
THEOREM StartupInvHolds == StartupSpec => []StartupInv
<1>1. StartupInv /\ [StartupNext]_startupVars => StartupInv'
  <2> SUFFICES ASSUME StartupInv, [StartupNext]_startupVars PROVE StartupInv'
    OBVIOUS
  <2>1. ASSUME NEW c \in Clients, ClientStep(c) \/ StartByHand(c) PROVE StartupInv'
    BY <2>1, ClientInv, LaunchInv DEF ClientStep
  <2>2. ASSUME NEW d \in Clients, DaemonStart(d) PROVE StartupInv'
    BY <2>2, ProbeInv, RemoveInv, BindInv DEF DaemonStart
  <2>3. ASSUME NEW d \in Clients, AcceptError(d) \/ DaemonExits(d) PROVE StartupInv'
    BY <2>3, EndInv
  <2>4. CASE UNCHANGED startupVars
    BY <2>4 DEF startupVars, StartupInv, StartupTypeOK, ExclusiveInv, ListeningIsReachable
  <2> QED
    BY <2>1, <2>2, <2>3, <2>4 DEF StartupNext
<1> QED
  BY <1>1, InitInv, PTL DEF StartupSpec

\* The state of the start-up is well-typed.
THEOREM StartupTypeCorrect == StartupSpec => []StartupTypeOK
<1>1. StartupInv => StartupTypeOK
  BY DEF StartupInv
<1> QED
  BY <1>1, StartupInvHolds, PTL

\* As long as start-ups do not overlap, the probe of State::new keeps a daemon
\* that listens reachable, for any number of clients and daemons.
THEOREM ListeningIsReachableHolds == StartupSpec => []ListeningIsReachable
<1>1. StartupInv => ListeningIsReachable
  BY DEF StartupInv
<1> QED
  BY <1>1, StartupInvHolds, PTL

\* Two daemons can listen only after start-ups have overlapped: what
\* State::new refuses ("another daemon is already running") happens in no
\* other way.
THEOREM OnlyOverlapMakesTwo == StartupSpec => [](~overlap => OnlyOneDaemon)
<1>1. StartupInv => (~overlap => OnlyOneDaemon)
  BY DEF StartupInv, ListeningIsReachable, OnlyOneDaemon
<1> QED
  BY <1>1, StartupInvHolds, PTL
=============================================================================
