---------------------------- MODULE BorrowStdio ----------------------------
(***************************************************************************)
(* stund open and the crate tokio-borrow-stdio: the main thread runs the   *)
(* login, while one thread reads stdin and one writes stdout for it, each  *)
(* connected to it by a bounded channel; then the outcome is announced and *)
(* the process ends, or becomes another program, with the threads in       *)
(* whatever state they are in.                                             *)
(*                                                                         *)
(* A step of a thread is what it does between two points at which another  *)
(* thread can notice.  Text is a sequence of numbered pieces, as in module *)
(* Conversation, whose client is the function f that is run here.          *)
(***************************************************************************)
EXTENDS Texts

CONSTANTS TypeCap,  \* pieces of text the user types
          TextCap,  \* pieces of text there are to print
          InCap,    \* packets the stdin channel takes (one, and one per sender)
          OutCap    \* packets the stdout channel takes

ASSUME StdioAssumption ==
  /\ TypeCap \in Nat /\ TextCap \in Nat
  /\ InCap \in Nat \ {0} /\ OutCap \in Nat \ {0}

VARIABLES
  main,       \* the main thread: in f, done with it, about to exit, exited
  wf,         \* how far f (OpenWorkflow) is: it uses stdin and stdout only in
              \* its state Communicating, and not when it spins there
  outcome,    \* what f returned
  quiet,      \* was the option --quiet given?
  typed,      \* how many pieces have been typed
  eof,        \* has the user closed stdin?
  taken,      \* how many pieces the stdin thread has read
  inth,       \* where the stdin thread is in its loop
  msg,        \* the packet it is sending
  inq,        \* the stdin channel
  delivered,  \* what f has received from it
  stop,       \* the oneshot channel rx_stdin_stop
  offered,    \* how many pieces f has put into the stdout channel
  outth,      \* the stdout thread: not started, holding the lock, ended
  outq,       \* the stdout channel
  written,    \* the pieces that have been written
  cut,        \* history: a write took only a part of its text
  announced,  \* has the outcome been printed?
  late        \* history: it was printed before the stdout thread had started

mainVars == <<main, wf, outcome, announced, late, stop>>
inVars   == <<taken, inth, msg>>
userVars == <<typed, eof>>
vars == <<mainVars, inVars, userVars, quiet, inq, delivered, offered, outth, outq,
          written, cut>>

\* A packet is a piece of text, an empty read at the end of the input, or an
\* error; NoPacket if nothing is being sent.
EofPacket == 0
ErrPacket == TypeCap + 1
NoPacket  == TypeCap + 2

StdioTypeOK ==
  /\ main \in {"running", "announcing", "closing", "exited"}
  /\ wf \in {"waiting", "Communicating", "spinning"}
  /\ outcome \in {"none", "ok", "failed"}
  /\ quiet \in BOOLEAN /\ eof \in BOOLEAN /\ stop \in BOOLEAN
  /\ cut \in BOOLEAN /\ announced \in BOOLEAN /\ late \in BOOLEAN
  /\ typed \in 0..TypeCap /\ taken \in 0..typed
  /\ inth \in {"check", "send", "read", "ended"}
  /\ msg \in 0..NoPacket
  /\ inq \in Seq(0..ErrPacket) /\ Len(inq) <= InCap
  /\ delivered \in Seq(1..TypeCap)
  /\ offered \in 0..TextCap
  /\ outth \in {"starting", "draining", "ended"}
  /\ outq \in Seq(1..TextCap) /\ Len(outq) <= OutCap
  /\ written \in Seq(1..TextCap)

StdioInit ==
  /\ main = "running" /\ wf = "waiting" /\ outcome = "none" /\ quiet \in BOOLEAN
  /\ announced = FALSE /\ late = FALSE /\ stop = FALSE
  /\ typed = 0 /\ eof = FALSE
  /\ taken = 0 /\ inth = "check" /\ msg = NoPacket
  /\ inq = <<>> /\ delivered = <<>>
  /\ offered = 0 /\ outth = "starting" /\ outq = <<>> /\ written = <<>>
  /\ cut = FALSE
-----------------------------------------------------------------------------
(***************************************************************************)
(* The user.                                                               *)
(***************************************************************************)
UserTypes ==
  /\ ~eof /\ typed < TypeCap /\ main # "exited"
  /\ typed' = typed + 1
  /\ UNCHANGED <<mainVars, inVars, eof, quiet, inq, delivered, offered, outth, outq,
                 written, cut>>

UserCloses ==
  /\ ~eof /\ main # "exited"
  /\ eof' = TRUE
  /\ UNCHANGED <<mainVars, inVars, typed, quiet, inq, delivered, offered, outth,
                 outq, written, cut>>
-----------------------------------------------------------------------------
(***************************************************************************)
(* The stdin thread: the body of loop_fn.                                  *)
(***************************************************************************)
StdinUnchanged ==
  UNCHANGED <<mainVars, userVars, quiet, delivered, offered, outth, outq, written, cut>>

\* Has the thread been told to stop?  If not, it goes on with what it has to
\* send, or else with a read.
StdinCheck ==
  /\ inth = "check" /\ main # "exited"
  /\ inth' = IF stop THEN "ended" ELSE IF msg = NoPacket THEN "read" ELSE "send"
  /\ UNCHANGED <<taken, msg, inq>>
  /\ StdinUnchanged

\* Mutants: the channel takes everything; a packet it does not take is
\* forgotten.
StdinSendRegardless ==
  /\ inth = "send" /\ main = "running"
  /\ inq' = Append(inq, msg)
  /\ msg' = NoPacket
  /\ inth' = "read"
  /\ UNCHANGED taken
  /\ StdinUnchanged
StdinSendForgets ==
  /\ inth = "send" /\ main = "running"
  /\ inq' = IF Len(inq) < InCap THEN Append(inq, msg) ELSE inq
  /\ msg' = NoPacket
  /\ inth' = "read"
  /\ UNCHANGED taken
  /\ StdinUnchanged

\* send.poll(): the receiver is gone; the packet is taken; or the loop goes
\* round until it is.
StdinSend ==
  /\ inth = "send" /\ main # "exited"
  /\ \/ /\ main # "running"
        /\ inth' = "ended"
        /\ UNCHANGED <<msg, inq>>
     \/ /\ main = "running" /\ Len(inq) < InCap
        /\ inq' = Append(inq, msg)
        /\ msg' = NoPacket
        /\ inth' = "read"
     \/ /\ main = "running" /\ Len(inq) = InCap
        /\ inth' = "check"
        /\ UNCHANGED <<msg, inq>>
  /\ UNCHANGED taken
  /\ StdinUnchanged

\* The blocking read returns text or the end of the input.
StdinRead ==
  /\ inth = "read" /\ main # "exited"
  /\ \/ /\ taken < typed
        /\ taken' = taken + 1
        /\ msg' = taken + 1
     \/ /\ eof /\ taken = typed
        /\ msg' = EofPacket
        /\ UNCHANGED taken
  /\ inth' = "check"
  /\ UNCHANGED inq
  /\ StdinUnchanged

StdinReadFails ==
  /\ inth = "read" /\ main # "exited"
  /\ msg' = ErrPacket
  /\ inth' = "check"
  /\ UNCHANGED <<taken, inq>>
  /\ StdinUnchanged
-----------------------------------------------------------------------------
(***************************************************************************)
(* The stdout thread.                                                      *)
(***************************************************************************)
StdoutUnchanged ==
  UNCHANGED <<mainVars, inVars, userVars, quiet, inq, delivered, offered>>

\* It takes the lock of stdout and keeps it until it ends.
StdoutStart ==
  /\ outth = "starting" /\ main # "exited"
  /\ outth' = "draining"
  /\ UNCHANGED <<outq, written, cut>>
  /\ StdoutUnchanged

\* write and flush; the number of bytes written is ignored, as are errors.
StdoutWrite ==
  /\ outth = "draining" /\ main # "exited"
  /\ outq # <<>>
  /\ outq' = Tail(outq)
  /\ \/ written' = Append(written, Head(outq)) /\ UNCHANGED cut
     \/ cut' = TRUE /\ UNCHANGED written
  /\ UNCHANGED outth
  /\ StdoutUnchanged

\* Mutants: the thread ends when f does; the thread waits for a None that is
\* never sent, since some sender is still there.
StdoutEndsEarly ==
  /\ outth = "draining" /\ main \in {"announcing", "closing"}
  /\ outth' = "ended"
  /\ UNCHANGED <<outq, written, cut>>
  /\ StdoutUnchanged
StdoutNeverEnds ==
  /\ outth = "draining" /\ main = "closing"
  /\ outq = <<>>
  /\ outth' = "ended"
  /\ UNCHANGED <<outq, written, cut>>
  /\ StdoutUnchanged

\* The channel is empty and all its senders have been dropped.  The None that
\* is meant to end the thread is never sent.
StdoutEnds ==
  /\ outth = "draining" /\ main \in {"announcing", "closing"}
  /\ outq = <<>>
  /\ outth' = "ended"
  /\ UNCHANGED <<outq, written, cut>>
  /\ StdoutUnchanged
-----------------------------------------------------------------------------
(***************************************************************************)
(* The main thread.                                                        *)
(***************************************************************************)

\* f returns: the stream and the sink it was given are dropped, the stdin
\* thread is told to stop, and the last sender of stdout is dropped with the
\* future that was to send None.
Returns(o) ==
  /\ main' = "announcing"
  /\ outcome' = o
  /\ stop' = TRUE
  /\ UNCHANGED <<wf, announced, late>>

\* The daemon acknowledges the command (poll_first_ack), and f begins to relay;
\* the daemon closes the connection, which f does not notice: from then on it
\* does nothing but read the end of the stream, over and over.
FProceeds ==
  /\ main = "running"
  /\ \/ wf = "waiting" /\ wf' = "Communicating"
     \/ wf = "Communicating" /\ wf' = "spinning"
  /\ UNCHANGED <<main, outcome, announced, late, stop, inVars, userVars, quiet, inq, delivered,
                 offered, outth, outq, written, cut>>

FReturns ==
  /\ main = "running" /\ wf # "spinning"
  /\ \E o \in {"ok", "failed"} : Returns(o)
  /\ inq' = <<>>
  /\ UNCHANGED <<inVars, userVars, quiet, delivered, offered, outth, outq, written, cut>>

\* f polls the StdinStream: text, the end of the input, or an error.
TakeInput ==
  /\ main = "running" /\ wf = "Communicating"
  /\ inq # <<>>
  /\ \/ /\ Head(inq) \in 1..TypeCap
        /\ delivered' = Append(delivered, Head(inq))
        /\ inq' = Tail(inq)
        /\ UNCHANGED mainVars
     \/ /\ Head(inq) = EofPacket
        /\ inq' = Tail(inq)
        /\ UNCHANGED <<mainVars, delivered>>
     \/ /\ Head(inq) = ErrPacket
        /\ Returns("failed")
        /\ inq' = <<>>
        /\ UNCHANGED delivered
  /\ UNCHANGED <<inVars, userVars, quiet, offered, outth, outq, written, cut>>

\* f sends text to the StdoutSink, if that is ready.
PutOutput ==
  /\ main = "running" /\ wf = "Communicating"
  /\ offered < TextCap /\ Len(outq) < OutCap
  /\ offered' = offered + 1
  /\ outq' = Append(outq, offered + 1)
  /\ UNCHANGED <<mainVars, inVars, userVars, quiet, inq, delivered, outth, written, cut>>

MainUnchanged ==
  UNCHANGED <<wf, outcome, stop, inVars, userVars, quiet, inq, delivered, offered, outth,
              outq, written, cut>>

\* println!, which needs the lock of stdout.
Announce ==
  /\ main = "announcing" /\ outcome = "ok" /\ ~quiet
  /\ outth # "draining"
  /\ main' = "closing"
  /\ announced' = TRUE
  /\ late' = (outth = "starting")
  /\ MainUnchanged

\* An error is reported on stderr, and --quiet means nothing is.
KeepQuiet ==
  /\ main = "announcing"
  /\ outcome = "failed" \/ quiet
  /\ main' = "closing"
  /\ UNCHANGED <<announced, late>>
  /\ MainUnchanged

\* process::exit, or exec of the command that was given.
Exit ==
  /\ main = "closing"
  /\ main' = "exited"
  /\ UNCHANGED <<announced, late>>
  /\ MainUnchanged
-----------------------------------------------------------------------------
StdinStep  == StdinCheck \/ StdinSend \/ StdinRead
StdoutStep == StdoutStart \/ StdoutWrite \/ StdoutEnds
EndStep    == Announce \/ KeepQuiet \/ Exit

StdioNext ==
  \/ UserTypes \/ UserCloses
  \/ StdinStep \/ StdinReadFails
  \/ StdoutStep
  \/ FProceeds \/ FReturns \/ TakeInput \/ PutOutput
  \/ EndStep

StdioSpec == StdioInit /\ [][StdioNext]_vars

\* Every thread runs, and f, as long as it relays, is polled when there is
\* input for it.  Nothing is expected of the user or of the daemon, nor that f
\* returns.
StdioFairSpec ==
  /\ StdioSpec
  /\ WF_vars(StdinStep) /\ WF_vars(StdoutStep) /\ WF_vars(TakeInput) /\ WF_vars(EndStep)
-----------------------------------------------------------------------------
(***************************************************************************)
(* Properties.                                                             *)
(***************************************************************************)
\* The text of a packet, and of several.
Piece(p) == IF p \in 1..TypeCap THEN <<p>> ELSE <<>>
Text(q)  == FlattenSeq([i \in DOMAIN q |-> Piece(q[i])])

\* While f runs, everything that has been read from stdin has been delivered
\* to it in order, or is on its way: a packet that the channel does not take
\* at once is kept by the loop and sent exactly once.
InputIsConserved ==
  main = "running" => delivered \o Text(Append(inq, msg)) = UpTo(taken)

\* When the user is told that the tunnel is open, all that was printed before
\* is on the screen: println! waits for the lock that the stdout thread holds
\* until the channel is empty.  Nothing else waits for the thread, so this
\* needs that it has taken the lock at all.
AnnouncedIsComplete ==
  announced /\ ~late /\ ~cut => written = UpTo(offered)

\* While f relays, what is typed and what was typed before gets to it, although
\* the stdin thread blocks in its read and spins while the channel is full;
\* unless f returns, or spins because the daemon has closed the connection.
TypedIsDelivered ==
  \A k \in 1..TypeCap :
    (typed >= k /\ wf = "Communicating")
      ~> (Len(delivered) >= k \/ main # "running" \/ wf = "spinning")

\* Once f has returned, the program ends: neither println! nor the threads it
\* leaves behind can hold it up, although no message tells the stdout thread
\* to stop.
BorrowEnds == (main # "running") ~> (main = "exited")
=============================================================================
