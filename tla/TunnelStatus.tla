---------------------------- MODULE TunnelStatus ----------------------------
(***************************************************************************)
(* What the daemon promises about the status of a host, as "stund status"  *)
(* reports it: an abstract specification that module Tunnels implements.   *)
(*                                                                         *)
(* A tunnel that is taken off the list while its SSH process may still run *)
(* (it was closed, or something else was listed in its place) is late: its *)
(* end is still to be reported.  Every late tunnel is reported at most     *)
(* once, and nothing but a command, the death of the tunnel that is listed *)
(* as open, or the report of a late one changes the status of a host.      *)
(*                                                                         *)
(* Whether a tunnel that was closed is still listed, as Closed, is left    *)
(* open: StatusInformation documents that it is, the code takes it off the *)
(* list until it is reaped.  A host that is listed as open is listed as    *)
(* Closed only by the command that closes it or by the report of a late    *)
(* tunnel.                                                                 *)
(***************************************************************************)
CONSTANTS Hosts, Procs

VARIABLES
  status,  \* what is reported of each host
  late     \* the late tunnels of each host

statusVars == <<status, late>>

StatusInit ==
  /\ status = [h \in Hosts |-> "NotListed"]
  /\ late = [h \in Hosts |-> {}]

Becomes(h, st) == status' = [status EXCEPT ![h] = st]

Open(h) ==
  /\ status[h] # "Open"
  /\ Becomes(h, "Open")
  /\ UNCHANGED late

Close(h, p) ==
  /\ status[h] = "Open"
  /\ p \notin late[h]
  /\ \E st \in {"NotListed", "Closed"} : Becomes(h, st)
  /\ late' = [late EXCEPT ![h] = @ \cup {p}]

\* A close command that finds nothing to kill may take the host off the list.
Forget(h) ==
  /\ Becomes(h, "NotListed")
  /\ UNCHANGED late

Die(h) ==
  /\ status[h] = "Open"
  /\ Becomes(h, "Died")
  /\ UNCHANGED late

\* The end of the late tunnel p is reported.  A tunnel q that was listed as
\* open meanwhile is late from now on; only then can there be one.
ReportLate(h, p, st) ==
  /\ p \in late[h]
  /\ Becomes(h, st)
  /\ \/ late' = [late EXCEPT ![h] = @ \ {p}]
     \/ /\ status[h] = "Open"
        /\ \E q \in Procs \ late[h] : late' = [late EXCEPT ![h] = (@ \ {p}) \cup {q}]

\* The end of p will never be reported.
GiveUp(h, p) ==
  /\ p \in late[h]
  /\ late' = [late EXCEPT ![h] = @ \ {p}]
  /\ UNCHANGED status

Stop ==
  /\ status' = [h \in Hosts |-> "NotListed"]
  /\ late' = [h \in Hosts |-> {}]

StatusNext ==
  \/ \E h \in Hosts :
       \/ Open(h)
       \/ Forget(h)
       \/ Die(h)
       \/ \E p \in Procs :
            \/ Close(h, p)
            \/ GiveUp(h, p)
            \/ \E st \in {"Closed", "Died"} : ReportLate(h, p, st)
  \/ Stop

StatusSpec == StatusInit /\ [][StatusNext]_statusVars
=============================================================================
