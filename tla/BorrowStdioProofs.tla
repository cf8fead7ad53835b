------------------------- MODULE BorrowStdioProofs -------------------------
(***************************************************************************)
(* What the stdout thread has done when the outcome is announced, and that *)
(* no input is lost, doubled or reordered on its way to the login, for any *)
(* amounts of text and any capacities of the channels.                     *)
(***************************************************************************)
EXTENDS BorrowStdio, TextTheorems

\* What has been written, followed by what is in the channel, is all that was
\* put into it, stated piece by piece.
OutputInv ==
  ~cut =>
    /\ Len(written) + Len(outq) = offered
    /\ \A i \in 1..Len(written) : written[i] = i
    /\ \A i \in 1..Len(outq) : outq[i] = Len(written) + i

\* The stdin thread sends only if it has something to send.  The stdout thread
\* ends with an empty channel and only after f, and who announces
\* the outcome finds it ended or not yet started.
ThreadInv ==
  /\ inth = "send" => msg # NoPacket
  /\ inth = "read" => msg = NoPacket
  /\ outth = "ended" => outq = <<>> /\ main # "running"
  /\ announced /\ ~late => outth = "ended"

\* The type invariant in three parts.
FlagsOK ==
  /\ main \in {"running", "announcing", "closing", "exited"}
  /\ wf \in {"waiting", "Communicating", "spinning"}
  /\ outcome \in {"none", "ok", "failed"}
  /\ quiet \in BOOLEAN /\ eof \in BOOLEAN /\ stop \in BOOLEAN
  /\ cut \in BOOLEAN /\ announced \in BOOLEAN /\ late \in BOOLEAN
  /\ inth \in {"check", "send", "read", "ended"}
  /\ outth \in {"starting", "draining", "ended"}

CountsOK ==
  /\ typed \in 0..TypeCap /\ taken \in 0..typed
  /\ msg \in 0..NoPacket
  /\ offered \in 0..TextCap

QueuesOK ==
  /\ inq \in Seq(0..ErrPacket) /\ Len(inq) <= InCap
  /\ delivered \in Seq(1..TypeCap)
  /\ outq \in Seq(1..TextCap) /\ Len(outq) <= OutCap
  /\ written \in Seq(1..TextCap)

StdioInv == FlagsOK /\ CountsOK /\ QueuesOK /\ OutputInv /\ ThreadInv

\* The type invariant in parts.
LEMMA TypeParts == StdioTypeOK <=> FlagsOK /\ CountsOK /\ QueuesOK
  BY DEF StdioTypeOK, FlagsOK, CountsOK, QueuesOK

\* The invariant holds at the start.
LEMMA InitInv == StdioInit => StdioInv
<1> SUFFICES ASSUME StdioInit PROVE StdioInv
  OBVIOUS
<1> USE DEF StdioInit
<1>1. FlagsOK
  BY DEF FlagsOK
<1>3. CountsOK
  BY StdioAssumption DEF CountsOK, NoPacket
<1>4. QueuesOK
  BY StdioAssumption DEF QueuesOK
<1>2. OutputInv /\ ThreadInv
  BY DEF OutputInv, ThreadInv
<1> QED
  BY <1>1, <1>2, <1>3, <1>4 DEF StdioInv

\* Steps of the user and of the stdin thread leave the output alone.
LEMMA InputInv ==
  ASSUME StdioInv, UserTypes \/ UserCloses \/ StdinStep \/ StdinReadFails
  PROVE  StdioInv'
<1> USE DEF StdioInv
<1>1. UNCHANGED <<mainVars, quiet, offered, outth, outq, written, cut>>
  BY DEF UserTypes, UserCloses, StdinStep, StdinCheck, StdinSend, StdinRead,
         StdinReadFails, StdinUnchanged
<1>2. OutputInv'
  BY <1>1 DEF OutputInv
<1>6. ThreadInv'
  <2> USE <1>1 DEF ThreadInv, mainVars
  <2>1. CASE UserTypes \/ UserCloses
    BY <2>1 DEF UserTypes, UserCloses, inVars
  <2>2. CASE StdinCheck
    BY <2>2 DEF StdinCheck
  <2>3. CASE StdinSend
    BY <2>3 DEF StdinSend
  <2>4. CASE StdinRead \/ StdinReadFails
    BY <2>4 DEF StdinRead, StdinReadFails
  <2> QED
    BY <2>1, <2>2, <2>3, <2>4 DEF StdinStep
<1>3. FlagsOK'
  <2> USE <1>1 DEF FlagsOK, mainVars
  <2>1. CASE UserTypes
    BY <2>1 DEF UserTypes, inVars
  <2>2. CASE UserCloses
    BY <2>2 DEF UserCloses, inVars
  <2>3. CASE StdinCheck
    BY <2>3 DEF StdinCheck, StdinUnchanged, userVars
  <2>4. CASE StdinSend
    BY <2>4 DEF StdinSend, StdinUnchanged, userVars
  <2>5. CASE StdinRead \/ StdinReadFails
    BY <2>5 DEF StdinRead, StdinReadFails, StdinUnchanged, userVars
  <2> QED
    BY <2>1, <2>2, <2>3, <2>4, <2>5 DEF StdinStep
<1>4. CountsOK'
  BY <1>1, StdioAssumption
     DEF CountsOK, NoPacket, ErrPacket, EofPacket, UserTypes, UserCloses, StdinStep,
         StdinCheck, StdinSend, StdinRead, StdinReadFails, StdinUnchanged, inVars, userVars
<1>5. QueuesOK'
  <2>1. CASE StdinSend
    <3>1. msg \in 0..ErrPacket
      BY <2>1, StdioAssumption DEF StdinSend, ThreadInv, CountsOK, NoPacket, ErrPacket
    <3>2. inq \in Seq(0..ErrPacket) /\ Len(inq) \in Nat
      BY DEF QueuesOK
    <3>3. Append(inq, msg) \in Seq(0..ErrPacket) /\ Len(Append(inq, msg)) = Len(inq) + 1
      BY <3>1, <3>2, AppendProperties
    <3>4. inq' = inq \/ (inq' = Append(inq, msg) /\ Len(inq) < InCap)
      BY <2>1 DEF StdinSend
    <3>5. inq' \in Seq(0..ErrPacket) /\ Len(inq') <= InCap
      <4>1. Len(inq) <= InCap /\ InCap \in Nat
        BY StdioAssumption DEF QueuesOK
      <4>2. CASE inq' = inq
        BY <4>1, <4>2, <3>2
      <4>3. CASE inq' = Append(inq, msg) /\ Len(inq) < InCap
        <5>1. Len(inq) + 1 <= InCap
          BY <4>1, <4>3, <3>2
        <5> QED
          BY <5>1, <4>3, <3>3
      <4> QED
        BY <4>2, <4>3, <3>4
    <3> QED
      BY <1>1, <2>1, <3>5 DEF QueuesOK, StdinSend, StdinUnchanged, ErrPacket
  <2>2. CASE ~StdinSend
    BY <1>1, <2>2 DEF QueuesOK, UserTypes, UserCloses, StdinStep, StdinCheck, StdinRead,
                      StdinReadFails, StdinUnchanged
  <2> QED
    BY <2>1, <2>2
<1> QED
  BY <1>2, <1>3, <1>4, <1>5, <1>6

\* A write of the stdout thread keeps the invariant.
LEMMA StdoutWriteInv == StdioInv /\ StdoutWrite => StdioInv'
<1> SUFFICES ASSUME StdioInv, StdoutWrite PROVE StdioInv'
  OBVIOUS
<1> USE DEF StdioInv, StdoutWrite, StdoutUnchanged, mainVars, inVars, userVars
<1>1. /\ outq \in Seq(1..TextCap) /\ Len(outq) \in Nat /\ Len(outq) <= OutCap
      /\ written \in Seq(1..TextCap) /\ Len(written) \in Nat
  BY DEF QueuesOK
<1>7. /\ outq' \in Seq(1..TextCap) /\ Len(outq') = Len(outq) - 1
      /\ \A i \in 1..Len(outq') : outq'[i] = outq[i + 1]
      /\ Head(outq) \in 1..TextCap /\ Head(outq) = outq[1]
  <2>1. outq # <<>> /\ outq' = Tail(outq)
    OBVIOUS
  <2> HIDE DEF StdioInv, StdoutWrite
  <2>2. /\ Head(outq) \in 1..TextCap /\ Tail(outq) \in Seq(1..TextCap)
        /\ Len(Tail(outq)) = Len(outq) - 1
        /\ \A i \in 1..Len(Tail(outq)) : Tail(outq)[i] = outq[i + 1]
    BY <1>1, <2>1, HeadTailProperties
  <2>3. Head(outq) = outq[1]
    BY <1>1, <2>1
  <2> QED
    BY <2>1, <2>2, <2>3
<1>8. /\ Append(written, Head(outq)) \in Seq(1..TextCap)
      /\ Len(Append(written, Head(outq))) = Len(written) + 1
      /\ \A i \in 1..Len(written) : Append(written, Head(outq))[i] = written[i]
      /\ Append(written, Head(outq))[Len(written) + 1] = Head(outq)
  BY <1>1, <1>7, AppendProperties
<1>2. FlagsOK'
  <2>1. cut' \in BOOLEAN
    BY DEF FlagsOK
  <2>2. UNCHANGED <<main, wf, outcome, announced, late, stop, quiet, eof, inth, outth>>
    OBVIOUS
  <2>3. FlagsOK
    OBVIOUS
  <2> HIDE DEF StdioInv, StdoutWrite
  <2> QED
    BY <2>1, <2>2, <2>3 DEF FlagsOK
<1>3. CountsOK'
  BY DEF CountsOK
<1>4. QueuesOK'
  <2>1. written' \in Seq(1..TextCap) /\ Len(outq') <= OutCap
    <3>1. written' = written \/ written' = Append(written, Head(outq))
      OBVIOUS
    <3> HIDE DEF StdioInv, StdoutWrite
    <3>2. Len(outq) - 1 <= OutCap
      BY <1>1, StdioAssumption
    <3> QED
      BY <1>1, <1>7, <1>8, <3>1, <3>2
  <2> QED
    BY <1>7, <2>1 DEF QueuesOK, ErrPacket
<1>5. OutputInv'
  <2>1. CASE cut'
    BY <2>1 DEF OutputInv
  <2>2. CASE ~cut' /\ written' = Append(written, Head(outq))
    <3>1. /\ Len(written') = Len(written) + 1
          /\ \A i \in 1..Len(written) : written'[i] = written[i]
          /\ written'[Len(written) + 1] = Head(outq)
      BY <1>8, <2>2
    <3>2. /\ Len(written) + Len(outq) = offered
          /\ \A i \in 1..Len(written) : written[i] = i
          /\ \A i \in 1..Len(outq) : outq[i] = Len(written) + i
      BY <2>2 DEF OutputInv
    <3>3. offered' = offered
      OBVIOUS
    <3>4. Len(written') + Len(outq') = offered'
      BY <1>1, <1>7, <3>1, <3>2, <3>3
    <3>5. \A i \in 1..Len(written') : written'[i] = i
      <4>1. Len(outq) # 0
        BY <1>1, <1>7
      <4>2. outq[1] = Len(written) + 1
        BY <1>1, <3>2, <4>1
      <4>3. ASSUME NEW i \in 1..(Len(written) + 1) PROVE written'[i] = i
        <5>1. CASE i \in 1..Len(written)
          BY <5>1, <3>1, <3>2
        <5>2. CASE i = Len(written) + 1
          BY <5>2, <1>7, <3>1, <4>2
        <5> QED
          BY <5>1, <5>2, <1>1
      <4> QED
        BY <3>1, <4>3
    <3>6. \A i \in 1..Len(outq') : outq'[i] = Len(written') + i
      BY <1>1, <1>7, <3>1, <3>2
    <3> QED
      BY <3>4, <3>5, <3>6 DEF OutputInv
  <2> QED
    BY <2>1, <2>2
<1>6. ThreadInv'
  BY DEF ThreadInv
<1> QED
  BY <1>2, <1>3, <1>4, <1>5, <1>6

\* The rest of the stdout thread.
LEMMA StdoutInv ==
  ASSUME StdioInv, StdoutStart \/ StdoutEnds
  PROVE  StdioInv'
<1> USE DEF StdioInv, StdoutStart, StdoutEnds, StdoutUnchanged, mainVars, inVars, userVars
<1>1. FlagsOK'
  BY DEF FlagsOK
<1>2. CountsOK' /\ QueuesOK'
  BY DEF CountsOK, QueuesOK
<1>3. OutputInv'
  BY DEF OutputInv
<1>4. ThreadInv'
  BY DEF ThreadInv, FlagsOK
<1> QED
  BY <1>1, <1>2, <1>3, <1>4

\* Output of the login keeps the invariant.
LEMMA PutOutputInv == StdioInv /\ PutOutput => StdioInv'
<1> SUFFICES ASSUME StdioInv, PutOutput PROVE StdioInv'
  OBVIOUS
<1> USE DEF StdioInv, PutOutput, mainVars, inVars, userVars
<1>1. FlagsOK'
  BY DEF FlagsOK
<1>2. CountsOK'
  BY StdioAssumption DEF CountsOK
<1>6. /\ outq \in Seq(1..TextCap) /\ Len(outq) \in Nat /\ Len(written) \in Nat
      /\ offered \in Nat /\ offered + 1 \in 1..TextCap
  BY StdioAssumption DEF CountsOK, QueuesOK
<1>7. /\ outq' \in Seq(1..TextCap) /\ Len(outq') = Len(outq) + 1
      /\ \A i \in 1..Len(outq) : outq'[i] = outq[i]
      /\ outq'[Len(outq) + 1] = offered + 1
  BY <1>6, AppendProperties
<1>3. QueuesOK'
  <2>1. Len(outq') <= OutCap
    BY <1>6, <1>7, StdioAssumption
  <2> QED
    BY <1>7, <2>1 DEF QueuesOK, ErrPacket
<1>4. OutputInv'
  <2> SUFFICES ASSUME ~cut
               PROVE  /\ Len(written) + Len(outq') = offered + 1
                      /\ \A i \in 1..Len(written) : written[i] = i
                      /\ \A i \in 1..Len(outq') : outq'[i] = Len(written) + i
    BY DEF OutputInv
  <2>1. /\ Len(written) + Len(outq) = offered
        /\ \A i \in 1..Len(written) : written[i] = i
        /\ \A i \in 1..Len(outq) : outq[i] = Len(written) + i
    BY DEF OutputInv
  <2> HIDE DEF StdioInv, PutOutput
  <2>2. Len(written) + Len(outq') = offered + 1
    BY <1>6, <1>7, <2>1
  <2>3. ASSUME NEW i \in 1..Len(outq') PROVE outq'[i] = Len(written) + i
    <3>1. i \in 1..Len(outq) \/ i = Len(outq) + 1
      BY <1>6, <1>7
    <3>2. CASE i \in 1..Len(outq)
      BY <1>7, <2>1, <3>2
    <3>3. CASE i = Len(outq) + 1
      <4>1. outq'[i] = offered + 1
        BY <1>7, <3>3
      <4>2. offered + 1 = Len(written) + i
        BY <1>6, <2>1, <3>3
      <4> QED
        BY <4>1, <4>2
    <3> QED
      BY <3>1, <3>2, <3>3
  <2> QED
    BY <2>1, <2>2, <2>3
<1>5. ThreadInv'
  BY DEF ThreadInv
<1> QED
  BY <1>1, <1>2, <1>3, <1>4, <1>5

\* f goes on or returns, the outcome is announced or not, the program ends.
LEMMA MainInv ==
  ASSUME StdioInv, FProceeds \/ FReturns \/ TakeInput \/ EndStep
  PROVE  StdioInv'
<1> USE DEF StdioInv
<1>1. UNCHANGED <<offered, outth, outq, written, cut>>
  BY DEF FProceeds, FReturns, TakeInput, EndStep, Announce, KeepQuiet, Exit, MainUnchanged
<1>2. OutputInv'
  BY <1>1 DEF OutputInv
<1>3. FlagsOK'
  <2> USE <1>1 DEF FlagsOK, inVars, userVars
  <2>5. CASE FProceeds
    BY <2>5 DEF FProceeds
  <2>1. CASE FReturns
    BY <2>1 DEF FReturns, Returns
  <2>2. CASE TakeInput
    BY <2>2 DEF TakeInput, Returns, mainVars
  <2>3. CASE Announce
    BY <2>3 DEF Announce, MainUnchanged
  <2>4. CASE KeepQuiet \/ Exit
    BY <2>4 DEF KeepQuiet, Exit, MainUnchanged
  <2> QED
    BY <2>1, <2>2, <2>3, <2>4, <2>5 DEF EndStep
<1>4. CountsOK'
  BY <1>1 DEF CountsOK, FProceeds, FReturns, TakeInput, EndStep, Announce, KeepQuiet, Exit,
              MainUnchanged, inVars, userVars
<1>5. QueuesOK'
  <2>1. CASE FReturns
    BY <1>1, <2>1, StdioAssumption DEF QueuesOK, FReturns
  <2>2. CASE TakeInput
    <3>1. Len(inq) \in Nat /\ inq # <<>> /\ inq \in Seq(0..ErrPacket) /\ Len(inq) <= InCap
      BY <2>2 DEF QueuesOK, TakeInput
    <3>2. Tail(inq) \in Seq(0..ErrPacket) /\ Len(Tail(inq)) = Len(inq) - 1
      BY <3>1, HeadTailProperties
    <3>3. inq' = Tail(inq) \/ inq' = <<>>
      BY <2>2 DEF TakeInput
    <3>4. inq' \in Seq(0..ErrPacket) /\ Len(inq') <= InCap
      <4>1. Len(inq) - 1 <= InCap /\ 0 <= InCap
        BY <3>1, StdioAssumption
      <4>2. <<>> \in Seq(0..ErrPacket) /\ Len(<<>>) = 0
        BY EmptySeq
      <4> HIDE DEF StdioInv
      <4> QED
        BY <3>2, <3>3, <4>1, <4>2
    <3>5. delivered' \in Seq(1..TypeCap)
      <4>1. \/ delivered' = delivered
            \/ Head(inq) \in 1..TypeCap /\ delivered' = Append(delivered, Head(inq))
        BY <2>2 DEF TakeInput
      <4>2. delivered \in Seq(1..TypeCap)
        BY DEF QueuesOK
      <4> HIDE DEF StdioInv
      <4>3. ASSUME NEW k \in 1..TypeCap PROVE Append(delivered, k) \in Seq(1..TypeCap)
        BY <4>2, AppendProperties
      <4> QED
        BY <4>1, <4>2, <4>3
    <3> QED
      BY <1>1, <3>4, <3>5 DEF QueuesOK, ErrPacket
  <2>3. CASE EndStep
    BY <1>1, <2>3 DEF QueuesOK, EndStep, Announce, KeepQuiet, Exit, MainUnchanged
  <2>4. CASE FProceeds
    BY <1>1, <2>4 DEF QueuesOK, FProceeds
  <2> QED
    BY <2>1, <2>2, <2>3, <2>4
<1>6. ThreadInv'
  <2> USE <1>1 DEF ThreadInv, FlagsOK
  <2>1. CASE FReturns
    BY <2>1 DEF FReturns, Returns, inVars
  <2>2. CASE TakeInput
    BY <2>2 DEF TakeInput, Returns, mainVars, inVars
  <2>3. CASE Announce
    BY <2>3 DEF Announce, MainUnchanged, inVars
  <2>4. CASE KeepQuiet \/ Exit
    BY <2>4 DEF KeepQuiet, Exit, MainUnchanged, inVars
  <2>5. CASE FProceeds
    BY <2>5 DEF FProceeds, inVars
  <2> QED
    BY <2>1, <2>2, <2>3, <2>4, <2>5 DEF EndStep
<1> QED
  BY <1>2, <1>3, <1>4, <1>5, <1>6

-----------------------------------------------------------------------------
\* StdioInv is an invariant of the three threads.
THEOREM StdioInvHolds == StdioSpec => []StdioInv
<1>1. StdioInv /\ [StdioNext]_vars => StdioInv'
  <2> SUFFICES ASSUME StdioInv, [StdioNext]_vars PROVE StdioInv'
    OBVIOUS
  <2>1. CASE StdioNext
    BY <2>1, InputInv, StdoutWriteInv, StdoutInv, PutOutputInv, MainInv
       DEF StdioNext, StdoutStep
  <2>2. CASE UNCHANGED vars
    BY <2>2 DEF vars, mainVars, inVars, userVars, StdioInv, FlagsOK, CountsOK, QueuesOK,
                OutputInv, ThreadInv
  <2> QED
    BY <2>1, <2>2
<1> QED
  BY <1>1, InitInv, PTL DEF StdioSpec

\* The state of the threads is well-typed; the channels are never overfull.
THEOREM StdioTypeCorrect == StdioSpec => []StdioTypeOK
<1>1. StdioInv => StdioTypeOK
  BY TypeParts DEF StdioInv
<1> QED
  BY <1>1, StdioInvHolds, PTL

\* When the success is announced all output is on the screen, unless a write
\* was cut short or the stdout thread had not even started.
THEOREM AnnouncedIsCompleteHolds == StdioSpec => []AnnouncedIsComplete
<1>1. StdioInv => AnnouncedIsComplete
  <2> SUFFICES ASSUME StdioInv, announced, ~late, ~cut
               PROVE  written = UpTo(offered)
    BY DEF AnnouncedIsComplete
  <2>1. outq = <<>> /\ Len(outq) = 0
    BY DEF StdioInv, ThreadInv
  <2>2. written \in Seq(1..TextCap) /\ Len(written) = offered /\ offered \in Nat
    BY <2>1, StdioAssumption DEF StdioInv, OutputInv, CountsOK, QueuesOK
  <2>3. \A i \in 1..offered : written[i] = i
    BY <2>2 DEF StdioInv, OutputInv
  <2> QED
    BY <2>2, <2>3 DEF UpTo
<1> QED
  BY <1>1, StdioInvHolds, PTL

-----------------------------------------------------------------------------
(***************************************************************************)
(* The way of the input.                                                   *)
(***************************************************************************)
Packets == 0..NoPacket

\* A packet holds a piece of text or none.
LEMMA PieceType ==
  ASSUME NEW p \in Packets
  PROVE  Piece(p) \in Seq(1..TypeCap)
<1>1. CASE p \in 1..TypeCap
  BY <1>1 DEF Piece
<1>2. CASE p \notin 1..TypeCap
  BY <1>2, EmptySeq DEF Piece
<1> QED
  BY <1>1, <1>2

\* The texts of the packets, as FlattenSeq gets them.
LEMMA PiecesType ==
  ASSUME NEW q \in Seq(Packets)
  PROVE  [i \in DOMAIN q |-> Piece(q[i])] \in Seq(Seq(1..TypeCap))
<1>1. DOMAIN q = 1..Len(q) /\ Len(q) \in Nat /\ \A i \in 1..Len(q) : q[i] \in Packets
  BY LenProperties
<1>2. \A i \in 1..Len(q) : Piece(q[i]) \in Seq(1..TypeCap)
  BY <1>1, PieceType
<1> QED
  BY <1>1, <1>2

\* An empty channel holds no text.
LEMMA TextEmpty == Text(<<>>) = <<>>
  BY FlattenEmpty DEF Text

\* The text in a channel is a text.
LEMMA TextType ==
  ASSUME NEW q \in Seq(Packets)
  PROVE  Text(q) \in Seq(1..TypeCap)
BY PiecesType, FlattenType DEF Text

\* A packet that is sent adds its piece at the end.
LEMMA TextAppend ==
  ASSUME NEW q \in Seq(Packets), NEW p \in Packets
  PROVE  Text(Append(q, p)) = Text(q) \o Piece(p)
<1> DEFINE pieces(s) == [i \in DOMAIN s |-> Piece(s[i])]
<1>1. pieces(q) \in Seq(Seq(1..TypeCap)) /\ Piece(p) \in Seq(1..TypeCap)
  BY PiecesType, PieceType
<1>2. pieces(Append(q, p)) = Append(pieces(q), Piece(p))
  OBVIOUS
<1>3. FlattenSeq(Append(pieces(q), Piece(p))) = FlattenSeq(pieces(q)) \o Piece(p)
  BY <1>1, FlattenAppend
<1> QED
  BY <1>2, <1>3 DEF Text

\* A packet that is received takes its piece from the front.
LEMMA TextHead ==
  ASSUME NEW q \in Seq(Packets), q # <<>>
  PROVE  Text(q) = Piece(Head(q)) \o Text(Tail(q))
<1> DEFINE pieces(s) == [i \in DOMAIN s |-> Piece(s[i])]
<1>1. pieces(q) \in Seq(Seq(1..TypeCap))
  BY PiecesType
<1>2. pieces(q) # <<>> /\ Head(pieces(q)) = Piece(Head(q)) /\ Tail(pieces(q)) = pieces(Tail(q))
  OBVIOUS
<1>3. FlattenSeq(pieces(q)) = Head(pieces(q)) \o FlattenSeq(Tail(pieces(q)))
  BY <1>1, <1>2, FlattenHead
<1> QED
  BY <1>2, <1>3 DEF Text

\* The queue with the packet that is being sent is a sequence of packets.
LEMMA PendingType ==
  ASSUME StdioInv
  PROVE  /\ inq \in Seq(Packets) /\ msg \in Packets
         /\ delivered \in Seq(1..TypeCap) /\ taken \in Nat
         /\ NoPacket \in Packets /\ Piece(NoPacket) = <<>>
<1>1. 0..ErrPacket \subseteq Packets /\ NoPacket \in Packets
  BY StdioAssumption DEF Packets, NoPacket, ErrPacket
<1>2. inq \in Seq(Packets)
  BY <1>1, SeqMonotonic DEF StdioInv, QueuesOK
<1>3. Piece(NoPacket) = <<>>
  BY StdioAssumption DEF Piece, NoPacket
<1> QED
  BY <1>1, <1>2, <1>3, StdioAssumption DEF StdioInv, QueuesOK, CountsOK, Packets

\* A packet that is read joins the end, and one that carries no text changes nothing.
LEMMA ReadConserves ==
  ASSUME StdioInv, InputIsConserved, main = "running", StdinRead \/ StdinReadFails
  PROVE  delivered \o Text(Append(inq, msg')) = UpTo(taken')
<1>1. Text(Append(inq, msg)) = Text(inq)
  <2>1. msg = NoPacket
    BY DEF StdioInv, ThreadInv, StdinRead, StdinReadFails
  <2>2. Text(inq) \o <<>> = Text(inq)
    BY PendingType, TextType, ConcatEmptySeq
  <2> QED
    BY <2>1, <2>2, PendingType, TextAppend
<1>2. delivered \o Text(inq) = UpTo(taken)
  BY <1>1 DEF InputIsConserved
<1>3. msg' \in Packets /\ Text(Append(inq, msg')) = Text(inq) \o Piece(msg')
  <2>1. msg' \in Packets
    BY StdioAssumption DEF StdinRead, StdinReadFails, StdioInv, CountsOK, Packets, NoPacket,
                           ErrPacket, EofPacket
  <2> QED
    BY <2>1, PendingType, TextAppend
<1>4. CASE taken' = taken + 1 /\ msg' = taken + 1 /\ taken < typed
  <2>1. taken + 1 \in 1..TypeCap
    BY <1>4, StdioAssumption DEF StdioInv, CountsOK
  <2>2. Piece(msg') = <<taken + 1>>
    BY <1>4, <2>1 DEF Piece
  <2>3. delivered \o (Text(inq) \o <<taken + 1>>) = (delivered \o Text(inq)) \o <<taken + 1>>
    BY <2>1, PendingType, TextType, ConcatAssociative
  <2>4. UpTo(taken) \o <<taken + 1>> = UpTo(taken + 1)
    BY PendingType, UpToNext
  <2> QED
    BY <1>2, <1>3, <1>4, <2>2, <2>3, <2>4
<1>5. CASE taken' = taken /\ msg' \in {EofPacket, ErrPacket}
  <2>1. Piece(msg') = <<>>
    BY <1>5, StdioAssumption DEF Piece, EofPacket, ErrPacket
  <2>2. Text(inq) \o <<>> = Text(inq)
    BY PendingType, TextType, ConcatEmptySeq
  <2> QED
    BY <1>2, <1>3, <1>5, <2>1, <2>2
<1> QED
  BY <1>4, <1>5 DEF StdinRead, StdinReadFails

\* A packet that the channel takes is behind the others, as it was before.
LEMMA SendConserves ==
  ASSUME StdioInv, InputIsConserved, main = "running", StdinSend
  PROVE  delivered \o Text(Append(inq', msg')) = UpTo(taken)
<1>1. CASE inq' = inq /\ msg' = msg
  BY <1>1 DEF InputIsConserved
<1>2. CASE inq' = Append(inq, msg) /\ msg' = NoPacket
  <2>1. Append(inq, msg) \in Seq(Packets)
    BY PendingType, AppendProperties
  <2>2. Text(Append(Append(inq, msg), NoPacket)) = Text(Append(inq, msg)) \o <<>>
    BY <2>1, PendingType, TextAppend
  <2>3. Text(Append(inq, msg)) \o <<>> = Text(Append(inq, msg))
    BY <2>1, TextType, ConcatEmptySeq
  <2> QED
    BY <1>2, <2>2, <2>3 DEF InputIsConserved
<1> QED
  BY <1>1, <1>2 DEF StdinSend

\* A packet that f takes moves its text from one side to the other.
LEMMA TakeConserves ==
  ASSUME StdioInv, InputIsConserved, TakeInput, main' = "running"
  PROVE  delivered' \o Text(Append(inq', msg)) = UpTo(taken)
<1>1. /\ inq \in Seq(Packets) /\ inq # <<>> /\ main = "running"
      /\ delivered \in Seq(1..TypeCap) /\ msg \in Packets
  BY PendingType DEF TakeInput
<1>2. inq' = Tail(inq) /\ delivered' = delivered \o Piece(Head(inq))
  <2>1. CASE Head(inq) \in 1..TypeCap
    <3>1. delivered' = Append(delivered, Head(inq)) /\ inq' = Tail(inq)
      BY <2>1, StdioAssumption DEF TakeInput, EofPacket, ErrPacket
    <3>2. Piece(Head(inq)) = <<Head(inq)>>
      BY <2>1 DEF Piece
    <3> QED
      BY <1>1, <2>1, <3>1, <3>2, AppendIsConcat
  <2>2. CASE Head(inq) = EofPacket
    <3>1. delivered' = delivered /\ inq' = Tail(inq)
      BY <2>2, StdioAssumption DEF TakeInput, EofPacket, ErrPacket
    <3>2. Piece(Head(inq)) = <<>>
      BY <2>2 DEF Piece, EofPacket
    <3> QED
      BY <1>1, <3>1, <3>2, ConcatEmptySeq
  <2> QED
    BY <2>1, <2>2 DEF TakeInput, Returns
<1>3. Text(Append(inq, msg)) = Piece(Head(inq)) \o Text(Append(Tail(inq), msg))
  <2>1. /\ Append(inq, msg) \in Seq(Packets) /\ Append(inq, msg) # <<>>
        /\ Head(Append(inq, msg)) = Head(inq)
        /\ Tail(Append(inq, msg)) = Append(Tail(inq), msg)
    BY <1>1, AppendProperties, HeadTailAppend
  <2> QED
    BY <2>1, TextHead
<1>4. /\ Piece(Head(inq)) \in Seq(1..TypeCap)
      /\ Text(Append(Tail(inq), msg)) \in Seq(1..TypeCap)
  <2>1. Head(inq) \in Packets /\ Tail(inq) \in Seq(Packets)
    BY <1>1, HeadTailProperties
  <2> QED
    BY <1>1, <2>1, PieceType, TextType, AppendProperties
<1>5. delivered \o (Piece(Head(inq)) \o Text(Append(Tail(inq), msg)))
        = (delivered \o Piece(Head(inq))) \o Text(Append(Tail(inq), msg))
  BY <1>1, <1>4, ConcatAssociative
<1> QED
  BY <1>1, <1>2, <1>3, <1>5 DEF InputIsConserved

\* No input is lost, doubled or reordered on its way from stdin to f, for any
\* amount of it and any capacity of the channel.
THEOREM InputIsConservedHolds == StdioSpec => []InputIsConserved
<1>1. StdioInit => InputIsConserved
  <2> SUFFICES ASSUME StdioInit PROVE <<>> \o Text(Append(<<>>, NoPacket)) = UpTo(0)
    BY DEF InputIsConserved, StdioInit
  <2>1. StdioInv
    BY InitInv
  <2>2. <<>> \in Seq(Packets) /\ Text(Append(<<>>, NoPacket)) = <<>> \o <<>>
    BY <2>1, PendingType, TextAppend, TextEmpty, EmptySeq
  <2> QED
    BY <2>2 DEF UpTo
<1>2. StdioInv /\ InputIsConserved /\ [StdioNext]_vars => InputIsConserved'
  <2> SUFFICES ASSUME StdioInv, InputIsConserved, [StdioNext]_vars, main' = "running"
               PROVE  delivered' \o Text(Append(inq', msg')) = UpTo(taken')
    BY DEF InputIsConserved, Text, Piece, UpTo
  <2>1. CASE StdinRead \/ StdinReadFails
    BY <2>1, ReadConserves DEF StdinRead, StdinReadFails, StdinUnchanged, mainVars
  <2>2. CASE StdinSend
    BY <2>2, SendConserves DEF StdinSend, StdinUnchanged, mainVars
  <2>3. CASE TakeInput
    BY <2>3, TakeConserves DEF TakeInput, inVars
  <2>4. CASE UserTypes \/ UserCloses \/ StdinCheck \/ StdoutStep \/ PutOutput \/ FProceeds
             \/ UNCHANGED vars
    BY <2>4 DEF UserTypes, UserCloses, FProceeds, StdinCheck, StdoutStep, StdoutStart, StdoutWrite,
                StdoutEnds, PutOutput, StdinUnchanged, StdoutUnchanged, vars, mainVars,
                inVars, InputIsConserved
  <2>5. CASE FReturns \/ EndStep
    BY <2>5 DEF FReturns, Returns, EndStep, Announce, KeepQuiet, Exit
  <2> QED
    BY <2>1, <2>2, <2>3, <2>4, <2>5 DEF StdioNext, StdinStep
<1> QED
  BY <1>1, <1>2, StdioInvHolds, PTL DEF StdioSpec
=============================================================================
