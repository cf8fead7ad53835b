---------------------------- MODULE Conversation ----------------------------
(***************************************************************************)
(* One run of a stund command, from its first message to its last: the     *)
(* client (Connection and OpenWorkflow), the session of the daemon that    *)
(* serves it, the SSH process of a login, and the Unix socket between      *)
(* them, which carries messages without marking where one ends.            *)
(*                                                                         *)
(* A read takes all the bytes that have arrived.  BytesCodec makes one     *)
(* frame of them and bincode decodes the first message in it; what follows *)
(* in the same frame is dropped without a word.  `lost' records that.      *)
(*                                                                         *)
(* Client and daemon are separate processes.  Each read, each write and    *)
(* each poll of the daemon is one action.  Text is a sequence of numbered  *)
(* pieces: 1, 2, ... in the order in which they were printed or typed.     *)
(***************************************************************************)
EXTENDS Texts

CONSTANTS TypeCap,  \* pieces of text the user types
          TextCap,  \* pieces of text SSH prints
          SockCap,  \* messages the socket holds towards the client
          WBufCap,  \* messages FramedWrite takes before it pushes back
          ReadCap   \* pieces that fit the read buffer; a read beyond them may
                    \* end in the middle of a message

ASSUME ConversationAssumption ==
  /\ TypeCap \in Nat /\ TextCap \in Nat /\ ReadCap \in Nat
  /\ SockCap \in Nat \ {0} /\ WBufCap \in Nat \ {0}

VARIABLES
  cmd,       \* the command that was typed
  cl,        \* how far the client is
  saw_ok,    \* FirstAck::saw_ok
  result,    \* what the client reports to its user
  user_buf,  \* Communicating::user_buf: text for the user
  shown,     \* the text that has been passed to the user
  typed,     \* how many pieces the user has typed ...
  sent,      \* ... and how many of them have been passed to FramedWrite
  tx_buf,    \* what FramedWrite has still to write to the daemon
  c2s, s2c,  \* the socket, either way
  wbuf,      \* what the daemon has still to write
  session,   \* the state of the daemon's session
  entry,     \* the entry of the host in State::children
  held,      \* history: the values of entry since the client sent its request
  ssh,       \* the SSH process of the login
  printed,   \* how many pieces of text it has printed
  marker,    \* the piece that completed the marker, 0 as long as none did
  cl_buf,    \* CommunicatingForOpen::cl_buf: text for the client
  ssh_buf,   \* text of the user that has not been passed to SSH
  got,       \* the text that SSH has received
  exit_on_close,
  up,        \* is the daemon running?
  lost,      \* history: kinds of messages that were sent and never looked at,
             \* and "torn" if one was cut in two
  silent     \* history: did the session end a login without a message?

clientVars  == <<cl, saw_ok, result, user_buf, shown, sent, tx_buf>>
socketVars  == <<c2s, s2c, lost>>
loginVars   == <<ssh, printed, marker, cl_buf, ssh_buf, got>>
registryVars == <<entry, held>>
sessionVars == <<wbuf, session, registryVars, exit_on_close, up, silent>>
vars == <<cmd, typed, clientVars, socketVars, loginVars, sessionVars>>

Msg(t)        == [type |-> t, text |-> <<>>]
Data(t, text) == [type |-> t, text |-> text]

Request == [open |-> "Open", close |-> "Close", status |-> "QueryStatus", exit |-> "Exit"]

Ended == {"done", "failed", "killed"}
Gone  == cl \in Ended     \* the client's end of the socket is closed

\* What either side can send.
ClientMessage == [type : {"Open", "Close", "QueryStatus", "Exit", "UserData", "Goodbye"},
                  text : Seq(1..TypeCap)]
ServerMessage == [type : {"Ok", "Error", "SshData", "TunnelAlreadyOpen", "TunnelNotOpen",
                          "StatusResponse"},
                  text : Seq(1..TextCap)]

\* An Exited entry counts as Absent, as it does for process_open_command and
\* process_close_command; Broken is the entry of a tunnel whose monitor failed.
TunnelState == {"Absent", "Running", "Broken"}

ConversationTypeOK ==
  /\ cmd \in DOMAIN Request
  /\ cl \in {"Issue", "FirstAck", "Communicating", "Relaying", "Await", "Finished"} \cup Ended
  /\ {saw_ok, exit_on_close, up, silent} \subseteq BOOLEAN
  /\ result \in {"none", "Success", "AlreadyOpen", "NotOpen", "Status"}
  /\ typed \in 0..TypeCap /\ sent \in 0..typed
  /\ printed \in 0..TextCap /\ marker \in 0..printed
  /\ {user_buf, shown, cl_buf} \subseteq Seq(1..TextCap)
  /\ {ssh_buf, got} \subseteq Seq(1..TypeCap)
  /\ c2s \in Seq(ClientMessage)
  /\ tx_buf \in Seq(ClientMessage) /\ Len(tx_buf) <= WBufCap
  /\ s2c \in Seq(ServerMessage) /\ Len(s2c) <= SockCap
  /\ wbuf \in Seq(ServerMessage) /\ Len(wbuf) <= WBufCap + 1
  /\ session \in {"AwaitingCommand", "CommunicatingForOpen", "Aborting", "closed"}
  /\ entry \in TunnelState /\ held \subseteq TunnelState
  /\ ssh \in {"none", "login", "online", "dead"}

\* The connection has been accepted.  The host may have a tunnel already.
ConversationInit ==
  /\ cmd \in DOMAIN Request
  /\ cl = "Issue" /\ saw_ok = FALSE /\ result = "none"
  /\ user_buf = <<>> /\ shown = <<>> /\ typed = 0 /\ sent = 0
  /\ c2s = <<>> /\ s2c = <<>> /\ wbuf = <<>> /\ tx_buf = <<>>
  /\ lost = {} /\ silent = FALSE
  /\ session = "AwaitingCommand"
  /\ entry \in TunnelState /\ held = {}
  /\ ssh = "none" /\ printed = 0 /\ marker = 0
  /\ cl_buf = <<>> /\ ssh_buf = <<>> /\ got = <<>>
  /\ exit_on_close = FALSE /\ up = TRUE
-----------------------------------------------------------------------------
(***************************************************************************)
(* The socket and the codec.                                               *)
(***************************************************************************)

\* The messages behind the first one of a frame.
Dropped(q) == {q[i].type : i \in 2..Len(q)}

\* A frame that may end inside a message, which then does not decode.
Torn(q) == \E i \in DOMAIN q : \E k \in DOMAIN q[i].text : q[i].text[k] > ReadCap

\* The client reads a frame, of which it sees the head; if it ignores that
\* too, it is among the swallowed.
ClientReads(swallowed) ==
  /\ s2c # <<>>
  /\ s2c' = <<>>
  /\ lost' = lost \cup Dropped(s2c) \cup swallowed
  /\ UNCHANGED c2s

\* The session reads a frame.
SessionReads ==
  /\ c2s # <<>>
  /\ c2s' = <<>>
  /\ lost' = lost \cup Dropped(c2s)

\* The stream has ended for the client.  If the daemon closed it without
\* having read everything, the client gets an error instead (external).
Eof   == session = "closed" /\ s2c = <<>> /\ c2s = <<>>
Reset == session = "closed" /\ s2c = <<>> /\ c2s # <<>>

ClientSends(m) ==
  /\ c2s' = Append(c2s, m)
  /\ UNCHANGED <<s2c, lost>>
-----------------------------------------------------------------------------
(***************************************************************************)
(* The client.                                                             *)
(***************************************************************************)

\* The user types; only stund open listens.
UserTypes ==
  /\ cmd = "open" /\ ~Gone
  /\ typed < TypeCap
  /\ typed' = typed + 1
  /\ UNCHANGED <<cmd, clientVars, socketVars, loginVars, sessionVars>>

ClientFails ==
  /\ cl' = "failed"
  /\ UNCHANGED <<saw_ok, result, user_buf, shown, sent, tx_buf>>

ClientFinds(r) ==
  /\ cl' = "Finished"
  /\ result' = r
  /\ UNCHANGED <<saw_ok, user_buf, shown, sent, tx_buf>>

ClientUnchanged == UNCHANGED <<cmd, typed, loginVars, sessionVars>>

\* send_open and poll_issue; send_close, query_status, send_exit.
Issue ==
  /\ cl = "Issue"
  /\ \/ /\ session = "closed"
        /\ ClientFails
        /\ UNCHANGED <<socketVars, held>>
     \/ /\ session # "closed"
        /\ ClientSends(Msg(Request[cmd]))
        /\ cl' = IF cmd = "open" THEN "FirstAck" ELSE "Await"
        /\ held' = {entry}
        /\ UNCHANGED <<saw_ok, result, user_buf, shown, sent, tx_buf>>
  /\ UNCHANGED <<cmd, typed, loginVars, wbuf, session, entry, exit_on_close, up, silent>>

\* Mutant: the acknowledgement is taken for the success of the login.
FirstAckReadHasty ==
  /\ cl = "FirstAck"
  /\ ClientReads({})
  /\ IF Head(s2c).type = "Ok" THEN ClientFinds("Success") ELSE ClientFails
  /\ ClientUnchanged

\* poll_first_ack, one turn of its loop.  A second Ok is swallowed, and text
\* that comes before the loop has ended is an error.
FirstAckRead ==
  /\ cl = "FirstAck" /\ s2c # <<>>
  /\ LET m == Head(s2c)
     IN \/ /\ m.type = "Ok"
           /\ ClientReads(IF saw_ok THEN {"Ok"} ELSE {})
           /\ saw_ok' = TRUE
           /\ UNCHANGED <<cl, result, user_buf, shown, sent, tx_buf>>
        \/ /\ m.type = "TunnelAlreadyOpen"
           /\ ClientReads({})
           /\ ClientFinds("AlreadyOpen")
        \/ /\ m.type \notin {"Ok", "TunnelAlreadyOpen"}
           /\ ClientReads({})
           /\ ClientFails
  /\ ClientUnchanged

FirstAckEof ==
  /\ cl = "FirstAck"
  /\ Eof \/ Reset
  /\ ClientFails
  /\ UNCHANGED socketVars
  /\ ClientUnchanged

\* The loop ends when nothing is left to read.
FirstAckDone ==
  /\ cl = "FirstAck"
  /\ saw_ok
  /\ s2c = <<>> /\ session # "closed"
  /\ cl' = "Communicating"
  /\ UNCHANGED <<saw_ok, result, user_buf, shown, sent, tx_buf, socketVars>>
  /\ ClientUnchanged

\* poll_communicating, one turn of its first loop.  On success user_buf is
\* dropped with the state.
CommRead ==
  /\ cl = "Communicating"
  /\ ClientReads({})
  /\ LET m == Head(s2c)
     IN \/ /\ m.type = "SshData"
           /\ user_buf' = user_buf \o m.text
           /\ UNCHANGED <<cl, saw_ok, result, shown, sent, tx_buf>>
        \/ m.type = "Ok" /\ ClientFinds("Success")
        \/ m.type \notin {"SshData", "Ok"} /\ ClientFails
  /\ ClientUnchanged

\* A read error ends the client.  The end of the stream does not: the loop
\* ignores it and goes round for ever, so that there is no action for it.
CommReset ==
  /\ cl = "Communicating"
  /\ Reset
  /\ ClientFails
  /\ UNCHANGED socketVars
  /\ ClientUnchanged

\* A frame that does not decode.
ClientReadsTorn ==
  /\ cl \in {"FirstAck", "Communicating"}
  /\ Torn(s2c)
  /\ s2c' = <<>>
  /\ lost' = lost \cup {"torn"}
  /\ ClientFails
  /\ UNCHANGED c2s
  /\ ClientUnchanged

\* The first loop ends when nothing is left to read.  What arrives from then
\* on is read by the next poll.
CommReadDone ==
  /\ cl = "Communicating"
  /\ s2c = <<>> /\ session # "closed"
  /\ typed > sent \/ user_buf # <<>> \/ tx_buf # <<>>
  /\ cl' = "Relaying"
  /\ UNCHANGED <<saw_ok, result, user_buf, shown, sent, tx_buf, socketVars>>
  /\ ClientUnchanged

\* Mutant: the buffer is not cleared once it has been sent.
CommUserResends ==
  /\ cl = "Relaying"
  /\ session # "closed"
  /\ typed > 0
  /\ ClientSends(Data("UserData", [i \in 1..typed |-> i]))
  /\ sent' = typed
  /\ shown' = shown \o user_buf
  /\ user_buf' = <<>>
  /\ cl' = "Communicating"
  /\ UNCHANGED <<saw_ok, result, tx_buf>>
  /\ ClientUnchanged

\* The rest of poll_communicating.  What SSH has printed goes to the user,
\* unless stdout is busy; what the user has typed goes to FramedWrite, unless
\* that is full.  If stdout is busy now nothing is flushed to the daemon;
\* otherwise the socket takes so much, or the write fails because the daemon
\* has closed it meanwhile.
CommUser ==
  LET n == IF Len(tx_buf) < WBufCap THEN typed ELSE sent
      m == Data("UserData", [i \in 1..(n - sent) |-> sent + i])
      w == IF n > sent THEN Append(tx_buf, m) ELSE tx_buf
  IN /\ cl = "Relaying"
     /\ \/ shown' = shown \o user_buf /\ user_buf' = <<>>
        \/ user_buf # <<>> /\ UNCHANGED <<shown, user_buf>>
     /\ sent' = n
     /\ \/ /\ cl' = "Communicating"
           /\ tx_buf' = w
           /\ UNCHANGED socketVars
        \/ /\ user_buf' = <<>> /\ session # "closed"
           /\ cl' = "Communicating"
           /\ \E k \in 1..Len(w) :
                c2s' = c2s \o SubSeq(w, 1, k) /\ tx_buf' = SubSeq(w, k + 1, Len(w))
           /\ UNCHANGED <<s2c, lost>>
        \/ /\ user_buf' = <<>> /\ session = "closed" /\ w # <<>>
           /\ cl' = "failed"
           /\ tx_buf' = w
           /\ UNCHANGED socketVars
     /\ UNCHANGED <<saw_ok, result>>
     /\ ClientUnchanged

\* The reply to close, status and exit.
AwaitRead ==
  /\ cl = "Await"
  /\ ClientReads({})
  /\ LET t == Head(s2c).type
         r == CASE t = "Ok" /\ cmd # "status" -> "Success"
                [] t = "TunnelNotOpen" /\ cmd = "close" -> "NotOpen"
                [] t = "StatusResponse" /\ cmd = "status" -> "Status"
                [] OTHER -> "none"
     IN IF r = "none" THEN ClientFails ELSE ClientFinds(r)
  /\ ClientUnchanged

\* Mutant: the end of the stream is ignored here, too.
AwaitEofIgnored ==
  /\ cl = "Await"
  /\ Reset
  /\ ClientFails
  /\ UNCHANGED socketVars
  /\ ClientUnchanged

AwaitEof ==
  /\ cl = "Await"
  /\ Eof \/ Reset
  /\ ClientFails
  /\ UNCHANGED socketVars
  /\ ClientUnchanged

\* Connection::close, and the end of the program.  The Goodbye goes out behind
\* what FramedWrite has still to write.
Close ==
  /\ cl = "Finished"
  /\ \/ /\ session = "closed"
        /\ ClientFails
        /\ UNCHANGED socketVars
     \/ /\ session # "closed"
        /\ c2s' = c2s \o Append(tx_buf, Msg("Goodbye"))
        /\ tx_buf' = <<>>
        /\ cl' = "done"
        /\ UNCHANGED <<saw_ok, result, user_buf, shown, sent, s2c, lost>>
  /\ ClientUnchanged

\* The user loses patience.
ClientKilled ==
  /\ ~Gone
  /\ cl' = "killed"
  /\ UNCHANGED <<saw_ok, result, user_buf, shown, sent, tx_buf, socketVars>>
  /\ ClientUnchanged
-----------------------------------------------------------------------------
(***************************************************************************)
(* The session of the daemon.                                              *)
(***************************************************************************)
SessionUnchanged == UNCHANGED <<cmd, typed, clientVars, up, silent>>

\* The entry becomes e.
EntryBecomes(e) ==
  /\ entry' = e
  /\ held' = IF cl \in {"FirstAck", "Await"} /\ ssh = "none" THEN held \cup {e} ELSE held

\* FinalizingTxn: the reply is written behind q, and the next command awaited.
\* If the client is gone, or the write cannot complete at once, the session
\* is over (see module Daemon).
Reply(q, m) ==
  IF ~Gone /\ Len(q) < SockCap
  THEN s2c' = Append(q, m) /\ session' = "AwaitingCommand"
  ELSE s2c' = q /\ session' = "closed"

\* Mutant: write whether or not the socket takes it.
FlushRegardless(w) == s2c' = s2c \o w /\ wbuf' = <<>>

\* poll_complete: what of the messages w the socket takes now.
Flush(w) ==
  LET room == SockCap - Len(s2c)
      k == IF Len(w) < room THEN Len(w) ELSE room
  IN /\ s2c' = s2c \o SubSeq(w, 1, k)
     /\ wbuf' = SubSeq(w, k + 1, Len(w))

Fits(w) == Len(s2c) + Len(w) <= SockCap

\* abort_client
Abort ==
  /\ session' = "Aborting"
  /\ wbuf' = Append(wbuf, Msg("Error"))
  /\ UNCHANGED s2c

\* A session that awaits a command reads one.
Receives(type) ==
  /\ session = "AwaitingCommand"
  /\ SessionReads
  /\ Head(c2s).type = type

\* process_open_command: there is a tunnel; SSH is launched, so that the answer
\* will not be about the registry; or it cannot be.  The Ok is only queued.
RecvOpen ==
  /\ Receives("Open")
  /\ \/ /\ entry # "Absent"
        /\ Reply(s2c, Msg("TunnelAlreadyOpen"))
        /\ UNCHANGED <<wbuf, registryVars, ssh>>
     \/ /\ entry = "Absent"
        /\ session' = "CommunicatingForOpen"
        /\ wbuf' = Append(wbuf, Msg("Ok"))
        /\ entry' = "Running" /\ held' = {}
        /\ ssh' = "login"
        /\ UNCHANGED s2c
     \/ /\ entry = "Absent"
        /\ Abort
        /\ UNCHANGED <<registryVars, ssh>>
  /\ UNCHANGED <<printed, marker, cl_buf, ssh_buf, got, exit_on_close>>
  /\ SessionUnchanged

\* process_close_command
RecvClose ==
  /\ Receives("Close")
  /\ EntryBecomes("Absent")
  /\ \/ entry = "Running" /\ Reply(s2c, Msg("Ok")) /\ UNCHANGED wbuf
     \/ entry = "Absent" /\ Reply(s2c, Msg("TunnelNotOpen")) /\ UNCHANGED wbuf
     \/ entry = "Broken" /\ Abort
  /\ UNCHANGED <<loginVars, exit_on_close>>
  /\ SessionUnchanged

\* process_status_query
RecvQueryStatus ==
  /\ Receives("QueryStatus")
  /\ Reply(s2c, Msg("StatusResponse"))
  /\ UNCHANGED <<wbuf, registryVars, loginVars, exit_on_close>>
  /\ SessionUnchanged

RecvExit ==
  /\ Receives("Exit")
  /\ exit_on_close' = TRUE
  /\ Reply(s2c, Msg("Ok"))
  /\ UNCHANGED <<wbuf, registryVars, loginVars>>
  /\ SessionUnchanged

\* Finished; the main task gets the order to exit, and the daemon stops.
Finish ==
  /\ session' = "closed"
  /\ up' = ~exit_on_close
  /\ UNCHANGED <<cmd, typed, clientVars, s2c, wbuf, registryVars, loginVars, exit_on_close, silent>>

\* Mutant: the order to exit is forgotten.
RecvGoodbyeForgetsExit ==
  /\ Receives("Goodbye")
  /\ session' = "closed"
  /\ UNCHANGED <<cmd, typed, clientVars, s2c, wbuf, registryVars, loginVars, exit_on_close, up,
                 silent>>

RecvGoodbye == Receives("Goodbye") /\ Finish

\* The client has closed the socket.
RecvEof ==
  /\ session = "AwaitingCommand"
  /\ Gone /\ c2s = <<>> /\ s2c = <<>>
  /\ Finish
  /\ UNCHANGED <<c2s, lost>>

\* UserData outside of a login; or the client has closed the socket without
\* having read everything.
RecvFails ==
  /\ \/ Receives("UserData")
     \/ /\ session = "AwaitingCommand"
        /\ Gone /\ c2s = <<>> /\ s2c # <<>>
        /\ UNCHANGED <<c2s, lost>>
  /\ session' = "closed"
  /\ UNCHANGED <<s2c, wbuf, registryVars, loginVars, exit_on_close>>
  /\ SessionUnchanged
-----------------------------------------------------------------------------
(***************************************************************************)
(* The login: poll_communicating_for_open.                                 *)
(***************************************************************************)
LoggingIn == session = "CommunicatingForOpen"

\* One turn of the loop that reads what the user has typed.
CommUserData ==
  /\ LoggingIn
  /\ SessionReads
  /\ Head(c2s).type = "UserData"
  /\ ssh_buf' = ssh_buf \o Head(c2s).text
  /\ UNCHANGED <<s2c, wbuf, session, registryVars, ssh, printed, marker, cl_buf, got,
                 exit_on_close>>
  /\ SessionUnchanged

\* The session fails, and SSH loses its terminal with it: the client is gone,
\* or a frame does not decode.
CommFails ==
  /\ LoggingIn
  /\ \/ Gone /\ UNCHANGED <<c2s, lost>>
     \/ Torn(c2s) /\ c2s' = <<>> /\ lost' = lost \cup {"torn"}
  /\ session' = "closed"
  /\ ssh' = "dead"
  /\ UNCHANGED <<s2c, wbuf, registryVars, printed, marker, cl_buf, ssh_buf, got,
                 exit_on_close>>
  /\ SessionUnchanged

\* The same when writing to the PTY fails, in start_send or, after a flush to
\* the client (CommPoll), in poll_complete.  The client is not told.
CommPtyFails ==
  /\ LoggingIn
  /\ ssh_buf # <<>>
  /\ session' = "closed"
  /\ ssh' = "dead"
  /\ silent' = TRUE
  /\ UNCHANGED <<cmd, typed, clientVars, socketVars, wbuf, registryVars, up, printed, marker,
                 cl_buf, ssh_buf, got, exit_on_close>>

\* Mutant: the session just ends.
CommSshEofSilent ==
  /\ LoggingIn
  /\ c2s = <<>> /\ ~Gone
  /\ ssh = "dead"
  /\ session' = "closed"
  /\ UNCHANGED <<socketVars, wbuf, registryVars, loginVars, exit_on_close>>
  /\ SessionUnchanged

\* The end of SSH's output.  What is left in cl_buf is dropped.
CommSshEof ==
  /\ LoggingIn
  /\ c2s = <<>> /\ ~Gone
  /\ ssh = "dead"
  /\ Abort
  /\ UNCHANGED <<c2s, lost, registryVars, loginVars, exit_on_close>>
  /\ SessionUnchanged

\* Mutant: without new text the poll is over (try_ready!).
SshSaysSomething(text) ==
  /\ text # "none" /\ printed < TextCap
  /\ text = "key" => ssh = "online" /\ marker = 0

\* What SSH has printed since the last poll: nothing, some text, or the text
\* that completes the marker, as the remote shell does after the login.
SshSays(text) ==
  /\ text # "none" => printed < TextCap
  /\ text = "key" => ssh = "online" /\ marker = 0

\* Mutant: whether or not the marker has been seen.
SendsToClientAlways(buf, key) ==
  buf # <<>> /\ (Len(wbuf) < WBufCap \/ Len(s2c) < SockCap)

\* buf is sent to the client unless the marker has been seen or start_send
\* pushes back.
SendsToClient(buf, key) ==
  /\ buf # <<>> /\ key = 0
  /\ Len(wbuf) < WBufCap \/ Len(s2c) < SockCap

\* The rest of the poll.  What the user has typed reaches SSH only when all
\* that was to be written to the client is written; the PTY takes k pieces of
\* it.  When it has taken everything and the marker has been seen, SSH is
\* handed off and the client told; if that cannot be written at once the
\* session vanishes.
CommPoll(text, k) ==
  LET n    == IF text = "none" THEN printed ELSE printed + 1
      key  == IF text = "key" THEN n ELSE marker
      buf  == IF text = "none" THEN cl_buf ELSE Append(cl_buf, n)
      send == SendsToClient(buf, key)
      w    == IF send THEN Append(wbuf, Data("SshData", buf)) ELSE wbuf
  IN /\ LoggingIn
     /\ c2s = <<>> /\ ~Gone /\ ssh # "dead"
     /\ SshSays(text)
     /\ k <= Len(ssh_buf)
     /\ printed' = n
     /\ marker' = key
     /\ got' = got \o SubSeq(ssh_buf, 1, k)
     /\ ssh_buf' = SubSeq(ssh_buf, k + 1, Len(ssh_buf))
     /\ \/ /\ ~Fits(w) /\ k = 0
           /\ cl_buf' = IF send THEN <<>> ELSE buf
           /\ Flush(w)
           /\ UNCHANGED <<session, silent>>
        \/ /\ Fits(w) /\ (key = 0 \/ k < Len(ssh_buf))
           /\ cl_buf' = IF send THEN <<>> ELSE buf
           /\ s2c' = s2c \o w
           /\ wbuf' = <<>>
           /\ UNCHANGED <<session, silent>>
        \/ /\ Fits(w) /\ key # 0 /\ k = Len(ssh_buf)
           /\ cl_buf' = <<>>
           /\ Reply(s2c \o w, Msg("Ok"))
           /\ wbuf' = <<>>
           /\ silent' = (silent \/ session' = "closed")
     /\ UNCHANGED <<c2s, lost, registryVars, ssh, exit_on_close>>
     /\ UNCHANGED <<cmd, typed, clientVars, up>>

\* poll_aborting: the session ends once the error message has been written.
PollAborting ==
  /\ session = "Aborting"
  /\ \/ Gone /\ session' = "closed" /\ UNCHANGED <<s2c, wbuf>>
     \/ ~Gone /\ Fits(wbuf) /\ session' = "closed" /\ Flush(wbuf)
     \/ ~Gone /\ ~Fits(wbuf) /\ Flush(wbuf) /\ UNCHANGED session
  /\ UNCHANGED <<c2s, lost, registryVars, loginVars, exit_on_close>>
  /\ SessionUnchanged

\* The login succeeds, as far as SSH is concerned.
SshLogin ==
  /\ ssh = "login"
  /\ ssh' = "online"
  /\ UNCHANGED <<cmd, typed, clientVars, socketVars, sessionVars, printed, marker,
                 cl_buf, ssh_buf, got>>

\* SSH gives up, or is killed because another client closed the tunnel.
SshDies ==
  /\ LoggingIn /\ ssh \in {"login", "online"}
  /\ ssh' = "dead"
  /\ UNCHANGED <<cmd, typed, clientVars, socketVars, sessionVars, printed, marker,
                 cl_buf, ssh_buf, got>>

\* The rest of the daemon (modules Tunnels and Daemon) changes the entry: other
\* clients open the host and close it, tunnels die and monitors fail.
EntryChanges ==
  /\ up
  /\ \/ entry # "Absent" /\ EntryBecomes("Absent")
     \/ entry = "Absent" /\ EntryBecomes("Running")
     \/ entry = "Running" /\ EntryBecomes("Broken")
  /\ UNCHANGED <<cmd, typed, clientVars, socketVars, loginVars, wbuf, session,
                 exit_on_close, up, silent>>

\* The daemon is killed, or told to exit by another client.
DaemonDies ==
  /\ up /\ session # "closed"
  /\ up' = FALSE
  /\ session' = "closed"
  /\ ssh' = IF ssh = "none" THEN "none" ELSE "dead"
  /\ UNCHANGED <<cmd, typed, clientVars, socketVars, wbuf, registryVars, exit_on_close, silent,
                 printed, marker, cl_buf, ssh_buf, got>>
-----------------------------------------------------------------------------
ClientStep ==
  \/ Issue
  \/ FirstAckRead \/ FirstAckEof \/ FirstAckDone
  \/ CommRead \/ CommReset \/ CommReadDone \/ CommUser
  \/ AwaitRead \/ AwaitEof
  \/ Close

SessionStep ==
  \/ RecvOpen \/ RecvClose \/ RecvQueryStatus \/ RecvExit \/ RecvGoodbye
  \/ RecvEof \/ RecvFails
  \/ CommUserData \/ CommFails \/ CommSshEof \/ CommPoll("none", 0)
  \/ PollAborting

\* SSH reads its terminal.
PtyTakes == \E k \in 1..TypeCap : CommPoll("none", k)

ConversationNext ==
  \/ ClientStep \/ ClientReadsTorn \/ ClientKilled \/ UserTypes
  \/ SessionStep \/ PtyTakes \/ CommPtyFails
  \/ \E k \in 0..TypeCap : CommPoll("some", k) \/ CommPoll("key", k)
  \/ SshLogin \/ SshDies \/ EntryChanges \/ DaemonDies

ConversationSpec == ConversationInit /\ [][ConversationNext]_vars

\* Both programs go on when they can, and SSH reads its terminal; that a write
\* fails is not forced.  Nothing else is expected of SSH, or of the user, of
\* other clients, or of whoever kills a process.
ConversationFairSpec ==
  /\ ConversationSpec
  /\ WF_vars(ClientStep)
  /\ WF_vars(SessionStep)
  /\ WF_vars(PtyTakes)
-----------------------------------------------------------------------------
(***************************************************************************)
(* Properties.                                                             *)
(***************************************************************************)
Text(q) == FlattenSeq([i \in DOMAIN q |-> q[i].text])

\* What the client tells its user is so: the tunnel is said to be open only
\* if the login was completed, although the Ok that acknowledges the command
\* and the one that reports success look alike; what it says of the registry
\* (a tunnel is listed already, there is none, it was closed) was so at some
\* time while it waited for the answer, whatever other clients did meanwhile;
\* and an Ok to exit means that the daemon is going to.  A tunnel is listed
\* from the launch of SSH on, and still when its monitor has failed, so that
\* "already open" says no more than that.
AnswerIsTrue ==
  /\ result = "Success" /\ cmd = "open" => marker # 0
  /\ result = "AlreadyOpen" => ssh = "none" /\ held \cap {"Running", "Broken"} # {}
  /\ result = "NotOpen" => "Absent" \in held
  /\ result = "Success" /\ cmd = "close" => {"Running", "Absent"} \subseteq held
  /\ result = "Success" /\ cmd = "exit" => exit_on_close

\* What the user types reaches SSH in order and without repetition, and on
\* its way through the two programs (ssh_buf of either) nothing is lost but
\* what arrives in one frame with something else.
TypedTextArrives ==
  /\ InOrder(got)
  /\ LoggingIn /\ "UserData" \notin lost => got \o ssh_buf \o Text(c2s \o tx_buf) = UpTo(sent)

\* The same for what SSH prints; and the text with the marker is not shown
\* to the user (the comment in poll_communicating_for_open).
PrintedTextArrives ==
  /\ InOrder(shown \o user_buf)
  /\ marker \notin Range(shown \o user_buf)
  /\ LoggingIn /\ cl \in {"Communicating", "Relaying"} /\ "SshData" \notin lost
       => shown \o user_buf \o Text(s2c \o wbuf) \o cl_buf = UpTo(printed)

\* Every command gets as far as its answer or, for open, as far as the login,
\* also if the daemon dies meanwhile.
RequestAnswered ==
  (cl \in {"Issue", "FirstAck", "Await", "Finished"}) ~> (cl \in Ended \cup {"Communicating"})

\* Once SSH has died or has completed the login, the client learns of it and
\* ends, unless the final message is lost in a frame, a frame is torn, the
\* session ends without a word (it cannot write to the PTY, or cannot write
\* the Ok at once) or the daemon dies: then the client reads the end of the
\* stream for ever (poll_communicating ignores it) or waits for what was
\* already sent.
LoginAnswered ==
  (cl = "Communicating" /\ (marker # 0 \/ ssh = "dead"))
    ~> (Gone \/ ~up \/ silent \/ lost \cap {"Ok", "Error", "torn"} # {})

\* A daemon that has acknowledged the order to exit does exit, whether the
\* client says Goodbye or is killed first.
ExitHappens == (cmd = "exit" /\ result = "Success") ~> ~up

\* Text that has been typed while the daemon serves the login gets to SSH,
\* however slowly the client reads and SSH takes it: the write to SSH waits
\* for the one to the client, and the hand-off for both.
TypedTextIsTaken ==
  (LoggingIn /\ ssh_buf # <<>>) ~> (ssh_buf = <<>> \/ ~LoggingIn)

\* Violated.  The message that ends a failed login reaches the client, which
\* poll_aborting is there to ensure: "Make sure the message gets out."
ErrorReachesClient == (\E i \in DOMAIN s2c : s2c[i].type = "Error") ~> Gone
=============================================================================
