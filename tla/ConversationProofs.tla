------------------------- MODULE ConversationProofs -------------------------
(***************************************************************************)
(* Proofs about module Conversation, for any amounts of text and any       *)
(* capacities: what the user is told is so, and text arrives in order,     *)
(* once, and complete unless a frame has swallowed some of it.             *)
(***************************************************************************)
EXTENDS Conversation, TextTheorems

\* The registry is always taken apart into its entry and what was held.
USE DEF registryVars

(***************************************************************************)
(* The inductive invariant.                                                *)
(***************************************************************************)

\* What is on its way to the client, in the socket or in the write buffer, and
\* what is on its way to the daemon.
Outgoing == s2c \o wbuf
Incoming == c2s \o tx_buf

\* What the user was shown or is about to be shown.
Seen == Join(shown, user_buf)

\* The text on its way from the user to SSH, and from SSH to the user.
Typed   == Join(got, Join(ssh_buf, Text(Incoming)))
Printed == Join(Seen, Join(Text(Outgoing), cl_buf))

\* Nothing has happened yet.
Fresh ==
  /\ ssh = "none" /\ marker = 0 /\ printed = 0 /\ sent = 0
  /\ saw_ok = FALSE /\ result = "none"
  /\ s2c = <<>> /\ wbuf = <<>> /\ tx_buf = <<>> /\ cl_buf = <<>> /\ ssh_buf = <<>>
  /\ got = <<>> /\ shown = <<>> /\ user_buf = <<>>
  /\ session \in {"AwaitingCommand", "closed"}

\* The request is the one of the command, it is sent once, and nothing is sent
\* or done before it has been read.
RequestInv ==
  /\ cl = "Issue" => c2s = <<>> /\ Fresh
  /\ \A i \in 1..Len(Incoming) : Incoming[i].type \notin {"UserData", "Goodbye"} =>
       Incoming[i].type = Request[cmd] /\ Len(Incoming) = 1 /\ Fresh

\* The client waits for the login, or follows it.
Following == cl \in {"FirstAck", "Communicating", "Relaying"}

\* The client waits for an answer.
Waiting == cl \in {"FirstAck", "Await"}

\* As long as the answer may be about the registry, held keeps up with it.
RegistryInv == Waiting /\ ssh = "none" => entry \in held

\* Which command brings the client into which state.
ClientInv ==
  /\ Following => cmd = "open"
  /\ cl \in {"Communicating", "Relaying"} => saw_ok
  /\ cl = "Await" => cmd # "open"
  /\ cl = "Finished" => result # "none"

\* What the write buffer may hold.
SessionInv ==
  /\ session = "AwaitingCommand" => wbuf = <<>>
  /\ LoggingIn => Len(wbuf) <= WBufCap /\ ssh # "none" /\ cmd = "open"

\* Only data carries text.
DataInv ==
  /\ \A i \in 1..Len(Incoming) : Incoming[i].type # "UserData" => Incoming[i].text = <<>>
  /\ \A i \in 1..Len(Outgoing) : Outgoing[i].type # "SshData" => Outgoing[i].text = <<>>

\* What a message of type t says is so, or was while the client waited for it.
IsTrue(t) ==
  /\ t = "TunnelAlreadyOpen" => ssh = "none" /\ held \cap {"Running", "Broken"} # {}
  /\ t = "TunnelNotOpen" => "Absent" \in held
  /\ t = "Ok" /\ cmd = "close" => {"Running", "Absent"} \subseteq held
  /\ t = "Ok" /\ cmd = "exit" => exit_on_close

\* Before the marker is seen there is one Ok at most, it comes first, and the
\* client that has seen it will not see another.
OneOk(q) ==
  /\ \A i \in 2..Len(q) : q[i].type # "Ok"
  /\ saw_ok => \A i \in 1..Len(q) : q[i].type # "Ok"

AnswerInv ==
  /\ Waiting => \A i \in 1..Len(Outgoing) : IsTrue(Outgoing[i].type)
  /\ cmd = "open" /\ marker = 0 => OneOk(Outgoing)
  /\ AnswerIsTrue

TypedInv ==
  /\ InOrderUpTo(Typed, sent)
  /\ LoggingIn /\ "UserData" \notin lost => Typed = UpTo(sent)

PrintedInv ==
  /\ InOrderUpTo(Printed, printed)
  /\ marker # 0 => marker \notin Range(Join(Seen, Text(Outgoing)))
  /\ LoggingIn /\ Following /\ "SshData" \notin lost => Printed = UpTo(printed)

\* The inductive invariant of Conversation.
ConversationInv ==
  /\ ConversationTypeOK
  /\ RequestInv /\ RegistryInv /\ ClientInv /\ SessionInv /\ DataInv /\ AnswerInv
  /\ TypedInv /\ PrintedInv
-----------------------------------------------------------------------------
(***************************************************************************)
(* Messages and their texts.                                               *)
(***************************************************************************)
AnyMessage ==
  [type : {"Open", "Close", "QueryStatus", "Exit", "UserData", "Goodbye", "Ok", "Error",
           "SshData", "TunnelAlreadyOpen", "TunnelNotOpen", "StatusResponse"},
   text : Seq(Nat)]

\* The messages that the programs make are messages of the protocol.
LEMMA MessageTypes ==
  /\ \A t \in {"Open", "Close", "QueryStatus", "Exit", "Goodbye"} : Msg(t) \in ClientMessage
  /\ \A t \in {"Ok", "Error", "TunnelAlreadyOpen", "TunnelNotOpen", "StatusResponse"} :
       Msg(t) \in ServerMessage
  /\ \A text \in Seq(1..TypeCap) : Data("UserData", text) \in ClientMessage
  /\ \A text \in Seq(1..TextCap) : Data("SshData", text) \in ServerMessage
  /\ \A t : Msg(t).type = t /\ Msg(t).text = <<>>
  /\ \A t, text : Data(t, text).type = t /\ Data(t, text).text = text
BY EmptySeq DEF Msg, Data, ClientMessage, ServerMessage

\* Client and daemon send messages.
LEMMA SomeMessage ==
  /\ ClientMessage \subseteq AnyMessage
  /\ ServerMessage \subseteq AnyMessage
<1>1. ASSUME NEW m \in ClientMessage PROVE m \in AnyMessage
  <2>1. m.text \in Seq(1..TypeCap) /\ 1..TypeCap \subseteq Nat
    BY ConversationAssumption DEF ClientMessage
  <2>2. m.text \in Seq(Nat)
    BY <2>1, SeqMonotonic
  <2> QED
    BY <2>2 DEF ClientMessage, AnyMessage
<1>2. ASSUME NEW m \in ServerMessage PROVE m \in AnyMessage
  <2>1. m.text \in Seq(1..TextCap) /\ 1..TextCap \subseteq Nat
    BY ConversationAssumption DEF ServerMessage
  <2>2. m.text \in Seq(Nat)
    BY <2>1, SeqMonotonic
  <2> QED
    BY <2>2 DEF ServerMessage, AnyMessage
<1> QED
  BY <1>1, <1>2

\* The texts of messages.
LEMMA TextsType ==
  ASSUME NEW q \in Seq(AnyMessage)
  PROVE  [i \in DOMAIN q |-> q[i].text] \in Seq(Seq(Nat))
<1>1. DOMAIN q = 1..Len(q) /\ Len(q) \in Nat /\ \A i \in 1..Len(q) : q[i] \in AnyMessage
  BY LenProperties
<1>2. \A i \in 1..Len(q) : q[i].text \in Seq(Nat)
  BY <1>1 DEF AnyMessage
<1> QED
  BY <1>1, <1>2

\* No messages, no text.
LEMMA TextEmpty == Text(<<>>) = <<>>
  BY FlattenEmpty DEF Text

\* The text of messages is a text.
LEMMA TextType ==
  ASSUME NEW q \in Seq(AnyMessage)
  PROVE  Text(q) \in Seq(Nat)
BY TextsType, FlattenType DEF Text

\* A message that is sent adds its text at the end.
LEMMA TextAppend ==
  ASSUME NEW q \in Seq(AnyMessage), NEW m \in AnyMessage
  PROVE  Text(Append(q, m)) = Join(Text(q), m.text)
<1> DEFINE texts(s) == [i \in DOMAIN s |-> s[i].text]
<1>1. texts(q) \in Seq(Seq(Nat)) /\ m.text \in Seq(Nat)
  BY TextsType DEF AnyMessage
<1>2. texts(Append(q, m)) = Append(texts(q), m.text)
  OBVIOUS
<1>3. FlattenSeq(Append(texts(q), m.text)) = FlattenSeq(texts(q)) \o m.text
  BY <1>1, FlattenAppend
<1> QED
  BY <1>2, <1>3 DEF Text, Join

\* The text of the socket is followed by that of the write buffer.
LEMMA TextConcat ==
  ASSUME NEW q \in Seq(AnyMessage), NEW r \in Seq(AnyMessage)
  PROVE  Text(q \o r) = Join(Text(q), Text(r))
<1> DEFINE P == {u \in Seq(AnyMessage) : Text(q \o u) = Join(Text(q), Text(u))}
<1>1. <<>> \in P
  BY TextEmpty, TextType, EmptySeq, ConcatEmptySeq, JoinFacts
<1>2. ASSUME NEW u \in Seq(AnyMessage), NEW m \in AnyMessage, u \in P
      PROVE  Append(u, m) \in P
  <2>1. /\ q \o Append(u, m) = Append(q \o u, m) /\ q \o u \in Seq(AnyMessage)
        /\ Append(u, m) \in Seq(AnyMessage)
    OBVIOUS
  <2>2. Text(Append(q \o u, m)) = Join(Text(q \o u), m.text)
    BY <2>1, TextAppend
  <2>3. Text(Append(u, m)) = Join(Text(u), m.text)
    BY TextAppend
  <2>4. Join(Join(Text(q), Text(u)), m.text) = Join(Text(q), Join(Text(u), m.text))
    <3>1. Text(q) \in Seq(Nat) /\ Text(u) \in Seq(Nat) /\ m.text \in Seq(Nat)
      BY TextType DEF AnyMessage
    <3> QED
      BY <3>1, JoinFacts
  <2> QED
    BY <1>2, <2>1, <2>2, <2>3, <2>4
<1> HIDE DEF P
<1>3. r \in P
  BY <1>1, <1>2, FrontInduction
<1> QED
  BY <1>3 DEF P

\* A read yields the text of the first message and loses that of the others.
LEMMA TextRead ==
  ASSUME NEW q \in Seq(AnyMessage), q # <<>>
  PROVE  /\ Head(q) \in AnyMessage
         /\ Text(Tail(q)) \in Seq(Nat)
         /\ Text(q) = Join(Head(q).text, Text(Tail(q)))
         /\ (\A i \in 2..Len(q) : q[i].text = <<>>) => Text(Tail(q)) = <<>>
<1> DEFINE texts(s) == [i \in DOMAIN s |-> s[i].text]
<1>1. texts(q) \in Seq(Seq(Nat)) /\ Head(q) \in AnyMessage /\ Tail(q) \in Seq(AnyMessage)
  BY TextsType, HeadTailProperties
<1>2. texts(q) # <<>> /\ Head(texts(q)) = Head(q).text /\ Tail(texts(q)) = texts(Tail(q))
  OBVIOUS
<1>3. FlattenSeq(texts(q)) = Head(texts(q)) \o FlattenSeq(Tail(texts(q)))
  BY <1>1, <1>2, FlattenHead
<1>4. ASSUME \A i \in 2..Len(q) : q[i].text = <<>> PROVE Text(Tail(q)) = <<>>
  <2>1. texts(Tail(q)) \in Seq(Seq(Nat))
    BY <1>1, TextsType
  <2>2. \A i \in 1..Len(texts(Tail(q))) : texts(Tail(q))[i] = <<>>
    BY <1>4
  <2> QED
    BY <2>1, <2>2, FlattenBlank DEF Text
<1> QED
  BY <1>1, <1>2, <1>3, <1>4, TextType DEF Text, Join

-----------------------------------------------------------------------------
(***************************************************************************)
(* States.                                                                 *)
(***************************************************************************)
\* The types of the state and of what is defined from it.
LEMMA StateTypes ==
  ASSUME ConversationTypeOK
  PROVE  /\ printed \in Nat /\ sent \in Nat /\ typed \in Nat /\ marker \in Nat
         /\ user_buf \in Seq(Nat) /\ shown \in Seq(Nat) /\ cl_buf \in Seq(Nat)
         /\ ssh_buf \in Seq(Nat) /\ got \in Seq(Nat)
         /\ c2s \in Seq(AnyMessage) /\ s2c \in Seq(AnyMessage) /\ wbuf \in Seq(AnyMessage)
         /\ tx_buf \in Seq(AnyMessage)
         /\ Outgoing \in Seq(AnyMessage) /\ Outgoing \in Seq(ServerMessage)
         /\ Incoming \in Seq(AnyMessage) /\ Incoming \in Seq(ClientMessage)
         /\ Seen \in Seq(Nat) /\ Text(Outgoing) \in Seq(Nat) /\ Text(Incoming) \in Seq(Nat)
         /\ Join(ssh_buf, Text(Incoming)) \in Seq(Nat) /\ Typed \in Seq(Nat)
         /\ Join(Text(Outgoing), cl_buf) \in Seq(Nat) /\ Printed \in Seq(Nat)
<1>1. printed \in Nat /\ sent \in Nat /\ typed \in Nat /\ marker \in Nat
  BY ConversationAssumption DEF ConversationTypeOK
<1>2. 1..TypeCap \subseteq Nat /\ 1..TextCap \subseteq Nat
  BY ConversationAssumption
<1>3. /\ user_buf \in Seq(1..TextCap) /\ shown \in Seq(1..TextCap) /\ cl_buf \in Seq(1..TextCap)
      /\ ssh_buf \in Seq(1..TypeCap) /\ got \in Seq(1..TypeCap)
      /\ c2s \in Seq(ClientMessage) /\ s2c \in Seq(ServerMessage) /\ wbuf \in Seq(ServerMessage)
      /\ tx_buf \in Seq(ClientMessage)
  BY DEF ConversationTypeOK
<1>4. /\ user_buf \in Seq(Nat) /\ shown \in Seq(Nat) /\ cl_buf \in Seq(Nat)
      /\ ssh_buf \in Seq(Nat) /\ got \in Seq(Nat)
  BY <1>2, <1>3, SeqMonotonic
<1>5. /\ c2s \in Seq(AnyMessage) /\ s2c \in Seq(AnyMessage) /\ wbuf \in Seq(AnyMessage)
      /\ tx_buf \in Seq(AnyMessage)
  BY <1>3, SomeMessage, SeqMonotonic
<1>6. /\ Outgoing \in Seq(ServerMessage) /\ Outgoing \in Seq(AnyMessage)
      /\ Incoming \in Seq(ClientMessage) /\ Incoming \in Seq(AnyMessage)
  BY <1>3, <1>5, ConcatProperties DEF Outgoing, Incoming
<1>7. Text(Outgoing) \in Seq(Nat) /\ Text(Incoming) \in Seq(Nat)
  BY <1>6, TextType
<1>8. /\ Seen \in Seq(Nat)
      /\ Join(ssh_buf, Text(Incoming)) \in Seq(Nat) /\ Typed \in Seq(Nat)
      /\ Join(Text(Outgoing), cl_buf) \in Seq(Nat) /\ Printed \in Seq(Nat)
  BY <1>4, <1>7, JoinFacts DEF Seen, Typed, Printed
<1> QED
  BY <1>1, <1>4, <1>5, <1>6, <1>7, <1>8

\* The socket comes before the write buffer.
LEMMA OutgoingElements ==
  ASSUME ConversationTypeOK
  PROVE  /\ Len(s2c) \in Nat /\ Len(wbuf) \in Nat /\ Len(Outgoing) = Len(s2c) + Len(wbuf)
         /\ \A i \in 1..Len(s2c) : Outgoing[i] = s2c[i]
         /\ \A i \in 1..Len(wbuf) : Outgoing[Len(s2c) + i] = wbuf[i]
         /\ s2c # <<>> => Len(s2c) >= 1 /\ Head(s2c) = s2c[1]
         /\ s2c = <<>> => Outgoing = wbuf
         /\ wbuf = <<>> => Outgoing = s2c
         /\ Text(Outgoing) = Join(Text(s2c), Text(wbuf))
<1>1. /\ s2c \in Seq(ServerMessage) /\ wbuf \in Seq(ServerMessage)
      /\ s2c \in Seq(AnyMessage) /\ wbuf \in Seq(AnyMessage)
  BY StateTypes DEF ConversationTypeOK
<1>2. /\ Len(s2c) \in Nat /\ Len(wbuf) \in Nat /\ Len(Outgoing) = Len(s2c) + Len(wbuf)
      /\ \A i \in 1..Len(s2c) : Outgoing[i] = s2c[i]
      /\ \A i \in 1..Len(wbuf) : Outgoing[Len(s2c) + i] = wbuf[i]
  BY <1>1 DEF Outgoing
<1>3. s2c # <<>> => Len(s2c) >= 1 /\ Head(s2c) = s2c[1]
  BY <1>1
<1>4. (s2c = <<>> => Outgoing = wbuf) /\ (wbuf = <<>> => Outgoing = s2c)
  BY <1>1, ConcatEmptySeq DEF Outgoing
<1>5. Text(Outgoing) = Join(Text(s2c), Text(wbuf))
  BY <1>1, TextConcat DEF Outgoing
<1> QED
  BY <1>2, <1>3, <1>4, <1>5

\* The same on the way to the daemon.
LEMMA IncomingElements ==
  ASSUME ConversationTypeOK
  PROVE  /\ Len(c2s) \in Nat /\ Len(tx_buf) \in Nat /\ Len(Incoming) = Len(c2s) + Len(tx_buf)
         /\ \A i \in 1..Len(c2s) : Incoming[i] = c2s[i]
         /\ \A i \in 1..Len(tx_buf) : Incoming[Len(c2s) + i] = tx_buf[i]
         /\ c2s = <<>> => Incoming = tx_buf
         /\ tx_buf = <<>> => Incoming = c2s
         /\ Text(Incoming) = Join(Text(c2s), Text(tx_buf))
         /\ Text(c2s) \in Seq(Nat) /\ Text(tx_buf) \in Seq(Nat)
<1>1. /\ c2s \in Seq(ClientMessage) /\ tx_buf \in Seq(ClientMessage)
      /\ c2s \in Seq(AnyMessage) /\ tx_buf \in Seq(AnyMessage)
  BY StateTypes DEF ConversationTypeOK
<1>2. /\ Len(c2s) \in Nat /\ Len(tx_buf) \in Nat /\ Len(Incoming) = Len(c2s) + Len(tx_buf)
      /\ \A i \in 1..Len(c2s) : Incoming[i] = c2s[i]
      /\ \A i \in 1..Len(tx_buf) : Incoming[Len(c2s) + i] = tx_buf[i]
  BY <1>1 DEF Incoming
<1>3. (c2s = <<>> => Incoming = tx_buf) /\ (tx_buf = <<>> => Incoming = c2s)
  BY <1>1, ConcatEmptySeq DEF Incoming
<1>4. Text(Incoming) = Join(Text(c2s), Text(tx_buf))
  BY <1>1, TextConcat DEF Incoming
<1> QED
  BY <1>1, <1>2, <1>3, <1>4, TextType

\* The write buffer of the client holds no request, and only data has text.
LEMMA ClientBuffer ==
  ASSUME ConversationTypeOK, RequestInv, DataInv
  PROVE  \A i \in 1..Len(tx_buf) :
           /\ tx_buf[i].type \in {"UserData", "Goodbye"}
           /\ tx_buf[i].type # "UserData" => tx_buf[i].text = <<>>
<1> SUFFICES ASSUME NEW i \in 1..Len(tx_buf)
             PROVE  /\ tx_buf[i].type \in {"UserData", "Goodbye"}
                    /\ tx_buf[i].type # "UserData" => tx_buf[i].text = <<>>
  OBVIOUS
<1>1. Len(c2s) + i \in 1..Len(Incoming) /\ Incoming[Len(c2s) + i] = tx_buf[i] /\ tx_buf # <<>>
  BY IncomingElements
<1> QED
  BY <1>1 DEF RequestInv, DataInv, Fresh

\* The invariant holds when the connection has been accepted.
LEMMA InitInv == ConversationInit => ConversationInv
<1> SUFFICES ASSUME ConversationInit PROVE ConversationInv
  OBVIOUS
<1>1. ConversationTypeOK
  <2>1. /\ <<>> \in Seq(1..TextCap) /\ <<>> \in Seq(1..TypeCap)
        /\ <<>> \in Seq(ClientMessage) /\ <<>> \in Seq(ServerMessage) /\ Len(<<>>) = 0
    BY EmptySeq
  <2>2. /\ c2s \in Seq(ClientMessage) /\ tx_buf \in Seq(ClientMessage) /\ Len(tx_buf) <= WBufCap
        /\ s2c \in Seq(ServerMessage) /\ Len(s2c) <= SockCap
        /\ wbuf \in Seq(ServerMessage) /\ Len(wbuf) <= WBufCap + 1
    BY <2>1, ConversationAssumption DEF ConversationInit
  <2>3. /\ {user_buf, shown, cl_buf} \subseteq Seq(1..TextCap)
        /\ {ssh_buf, got} \subseteq Seq(1..TypeCap)
    BY <2>1 DEF ConversationInit
  <2>4. typed \in 0..TypeCap /\ sent \in 0..typed /\ printed \in 0..TextCap /\ marker \in 0..printed
    BY ConversationAssumption DEF ConversationInit
  <2> QED
    BY <2>2, <2>3, <2>4 DEF ConversationInit, ConversationTypeOK
<1>2. /\ Outgoing = <<>> /\ Text(Outgoing) = <<>>
      /\ Incoming = <<>> /\ Text(Incoming) = <<>>
  BY TextEmpty DEF ConversationInit, Outgoing, Incoming
<1>3. Typed = <<>> /\ Printed = <<>>
  BY <1>2, JoinFacts DEF ConversationInit, Typed, Printed, Seen
<1>4. RequestInv /\ RegistryInv /\ ClientInv /\ SessionInv
  BY <1>2 DEF ConversationInit, RequestInv, Fresh, RegistryInv, Waiting, ClientInv, SessionInv,
       Following, LoggingIn
<1>5. DataInv /\ AnswerInv
  BY <1>2 DEF ConversationInit, DataInv, AnswerInv, OneOk, AnswerIsTrue
<1>6. TypedInv /\ PrintedInv
  BY <1>3 DEF ConversationInit, TypedInv, PrintedInv, InOrderUpTo, InOrder, LoggingIn, Range
<1> QED
  BY <1>1, <1>4, <1>5, <1>6 DEF ConversationInv

\* The client moves without touching the socket; it may pass text to the user.
ClientMoves ==
  /\ UNCHANGED <<cmd, saw_ok, result, sent, tx_buf, c2s, s2c, lost, loginVars, sessionVars>>
  /\ \/ UNCHANGED <<user_buf, shown>>
     \/ shown' = shown \o user_buf /\ user_buf' = <<>>
  /\ typed' \in 0..TypeCap /\ typed <= typed'
  /\ cl' # cl => cl # "Issue" \/ cl' \in Ended
  /\ cl' # cl => cl' \in {"Communicating", "Relaying"} \cup Ended
  /\ cl' # cl /\ cl' \notin Ended => Following /\ saw_ok

\* Such a step keeps the invariant: no text gets lost or doubled in the client.
LEMMA ClientMovesInv == ConversationInv /\ ClientMoves => ConversationInv'
<1> SUFFICES ASSUME ConversationInv, ClientMoves PROVE ConversationInv'
  OBVIOUS
<1>0. /\ ConversationTypeOK /\ RequestInv /\ RegistryInv /\ ClientInv /\ SessionInv
      /\ DataInv /\ AnswerInv /\ TypedInv /\ PrintedInv
  BY DEF ConversationInv
<1>1. Seen' = Seen
  <2>1. user_buf \in Seq(Nat) /\ shown \in Seq(Nat) /\ Seen \in Seq(Nat)
    BY <1>0, StateTypes
  <2>2. CASE UNCHANGED <<user_buf, shown>>
    BY <2>2 DEF Seen
  <2>3. CASE shown' = Seen /\ user_buf' = <<>>
    BY <2>1, <2>3, JoinFacts DEF Seen
  <2> QED
    BY <2>2, <2>3 DEF ClientMoves, Seen, Join
<1>2. Outgoing' = Outgoing /\ Incoming' = Incoming
  BY <1>0 DEF ClientMoves, Outgoing, Incoming, sessionVars
<1>3. ConversationTypeOK'
  <2>1. user_buf' \in Seq(1..TextCap) /\ shown' \in Seq(1..TextCap)
    <3>1. user_buf \in Seq(1..TextCap) /\ shown \in Seq(1..TextCap)
      BY <1>0 DEF ConversationTypeOK
    <3>2. shown \o user_buf \in Seq(1..TextCap) /\ <<>> \in Seq(1..TextCap)
      BY <1>0, <3>1, ConcatProperties, EmptySeq
    <3> QED
      BY <1>0, <3>1, <3>2 DEF ClientMoves
  <2>2. typed' \in 0..TypeCap /\ sent' \in 0..typed'
    BY <1>0, ConversationAssumption DEF ConversationTypeOK, ClientMoves
  <2>3. cl' \in {"Issue", "FirstAck", "Communicating", "Relaying", "Await", "Finished"} \cup Ended
    BY <1>0 DEF ConversationTypeOK, ClientMoves
  <2> QED
    BY <1>0, <2>1, <2>2, <2>3 DEF ConversationTypeOK, ClientMoves, loginVars, sessionVars,
         ClientMessage, ServerMessage, Request, Ended
<1>4. RequestInv'
  <2>1. Fresh => Fresh'
    BY <1>0 DEF Fresh, ClientMoves, loginVars, sessionVars
  <2> QED
    BY <1>0, <1>2, <2>1 DEF RequestInv, ClientMoves, Ended, Request
<1>5. ClientInv'
  BY <1>0 DEF ClientInv, ClientMoves, Following, Ended
<1>11. RegistryInv' /\ (Waiting' => Waiting)
  BY <1>0 DEF RegistryInv, Waiting, ClientMoves, Ended, loginVars, sessionVars
<1>6. SessionInv'
  BY <1>0 DEF SessionInv, ClientMoves, LoggingIn, loginVars, sessionVars
<1>7. DataInv'
  BY <1>0, <1>2 DEF DataInv, ClientMoves
<1>8. AnswerInv'
  BY <1>0, <1>2, <1>11
  DEF AnswerInv, AnswerIsTrue, IsTrue, OneOk, ClientMoves, loginVars, sessionVars
<1>9. TypedInv'
  <2>1. Typed' = Typed
    BY <1>0, <1>2 DEF Typed, ClientMoves, loginVars
  <2> QED
    BY <1>0, <2>1 DEF TypedInv, ClientMoves, LoggingIn, sessionVars
<1>10. PrintedInv'
  <2>1. Printed' = Printed
    BY <1>0, <1>1, <1>2 DEF Printed, ClientMoves, loginVars
  <2>2. Following' => Following
    BY <1>0 DEF ClientMoves, Following, Ended
  <2> QED
    BY <1>0, <1>1, <1>2, <2>1, <2>2 DEF PrintedInv, ClientMoves, LoggingIn, loginVars, sessionVars
<1> QED
  BY <1>3, <1>4, <1>5, <1>6, <1>7, <1>8, <1>9, <1>10, <1>11 DEF ConversationInv

\* The client sends m or what it had in its write buffer, or both, as far as
\* that is possible; what is new in m is the text that was typed meanwhile.
ClientSendsNew(m) ==
  /\ \/ Incoming' = Append(Incoming, m)
     \/ Incoming' = Incoming /\ sent' = sent /\ cl # "Issue"
  /\ c2s' \in Seq(ClientMessage)
  /\ tx_buf' \in Seq(ClientMessage) /\ Len(tx_buf') <= WBufCap
  /\ UNCHANGED <<cmd, typed, saw_ok, result, s2c, lost, loginVars>>
  /\ UNCHANGED <<wbuf, session, entry, exit_on_close, up, silent>>
  /\ m \in ClientMessage
  /\ sent' \in sent..typed
  /\ m.text = [i \in 1..(sent' - sent) |-> sent + i]
  /\ m.type # "UserData" => sent' = sent
  /\ \/ UNCHANGED <<user_buf, shown>>
     \/ shown' = shown \o user_buf /\ user_buf' = <<>>
  /\ \/ /\ cl = "Issue" /\ m.type = Request[cmd] /\ sent' = sent
        /\ UNCHANGED <<user_buf, shown, tx_buf>>
        /\ cl' = IF cmd = "open" THEN "FirstAck" ELSE "Await"
        /\ held' = {entry}
     \/ /\ cl = "Relaying" /\ m.type = "UserData" /\ cl' \in {"Communicating", "failed"}
        /\ UNCHANGED held
     \/ cl = "Finished" /\ m.type = "Goodbye" /\ cl' = "done" /\ UNCHANGED held

\* Sending keeps the invariant: what is new follows upon what was sent before,
\* and nothing is sent ahead of the request.
LEMMA ClientSendsInv ==
  ASSUME ConversationInv, NEW m, ClientSendsNew(m)
  PROVE  ConversationInv'
<1>0. /\ ConversationTypeOK /\ RequestInv /\ RegistryInv /\ ClientInv /\ SessionInv
      /\ DataInv /\ AnswerInv /\ TypedInv /\ PrintedInv
  BY DEF ConversationInv
<1>1. Seen' = Seen
  <2>1. user_buf \in Seq(Nat) /\ shown \in Seq(Nat) /\ Seen \in Seq(Nat)
    BY <1>0, StateTypes
  <2>2. CASE UNCHANGED <<user_buf, shown>>
    BY <2>2 DEF Seen
  <2>3. CASE shown' = Seen /\ user_buf' = <<>>
    BY <2>1, <2>3, JoinFacts DEF Seen
  <2> QED
    BY <2>2, <2>3 DEF ClientSendsNew, Seen, Join
<1>2. Outgoing' = Outgoing
  BY <1>0 DEF ClientSendsNew, Outgoing
<1>3. /\ Incoming \in Seq(ClientMessage) /\ Len(Incoming) \in Nat
      /\ \/ /\ Len(Incoming') = Len(Incoming) + 1
            /\ \A i \in 1..Len(Incoming) : Incoming'[i] = Incoming[i]
            /\ Incoming'[Len(Incoming) + 1] = m
         \/ Incoming' = Incoming /\ sent' = sent /\ cl # "Issue"
  <2>1. Incoming \in Seq(ClientMessage) /\ m \in ClientMessage
    BY <1>0, StateTypes DEF ClientSendsNew
  <2> QED
    <3>1. CASE Incoming' = Append(Incoming, m)
      <4>1. /\ Len(Append(Incoming, m)) = Len(Incoming) + 1
            /\ \A i \in 1..Len(Incoming) : Append(Incoming, m)[i] = Incoming[i]
            /\ Append(Incoming, m)[Len(Incoming) + 1] = m
        BY <2>1, AppendProperties
      <4> QED
        BY <2>1, <3>1, <4>1, LenProperties
    <3>2. CASE Incoming' = Incoming /\ sent' = sent /\ cl # "Issue"
      BY <2>1, <3>2, LenProperties
    <3> QED
      BY <3>1, <3>2 DEF ClientSendsNew
<1>4. typed \in Nat /\ sent \in Nat /\ sent' \in Nat /\ sent' \in sent..typed /\ typed' = typed
  BY <1>0, ConversationAssumption DEF ConversationTypeOK, ClientSendsNew
<1>5. sent' = sent => m.text = <<>>
  BY <1>0, <1>4 DEF ClientSendsNew
<1>6. ConversationTypeOK'
  <2>1. user_buf' \in Seq(1..TextCap) /\ shown' \in Seq(1..TextCap)
    <3>1. user_buf \in Seq(1..TextCap) /\ shown \in Seq(1..TextCap)
      BY <1>0 DEF ConversationTypeOK
    <3>2. shown \o user_buf \in Seq(1..TextCap) /\ <<>> \in Seq(1..TextCap)
      BY <1>0, <3>1, ConcatProperties, EmptySeq
    <3> QED
      BY <1>0, <3>1, <3>2 DEF ClientSendsNew
  <2>2. typed' \in 0..TypeCap /\ sent' \in 0..typed'
    BY <1>0, <1>4, ConversationAssumption DEF ConversationTypeOK
  <2>3. cl' \in {"Issue", "FirstAck", "Communicating", "Relaying", "Await", "Finished"} \cup Ended
    BY <1>0 DEF ClientSendsNew, Ended
  <2> QED
    BY <1>0, <2>1, <2>2, <2>3
    DEF ConversationTypeOK, ClientSendsNew, loginVars, ClientMessage, ServerMessage,
        Request, Ended
<1>7. RequestInv'
  <2>1. CASE cl = "Issue"
    <3>1. c2s = <<>> /\ Fresh /\ Fresh' /\ cl' # "Issue"
      BY <1>0, <2>1 DEF RequestInv, Fresh, ClientSendsNew, loginVars
    <3>2. Incoming = <<>> /\ Len(<<>>) = 0
      BY <3>1 DEF Incoming, Fresh
    <3>3. Len(Incoming') = 1 /\ Incoming'[1] = m /\ m.type = Request[cmd] /\ cmd' = cmd
      BY <1>0, <1>3, <2>1, <3>2 DEF ClientSendsNew
    <3> QED
      BY <1>0, <3>1, <3>3 DEF RequestInv, Request
  <2>2. CASE cl # "Issue"
    <3>1. ~Fresh /\ m.type \in {"UserData", "Goodbye"} /\ cl' # "Issue"
      BY <1>0, <2>2 DEF ClientSendsNew, ClientInv, Fresh
    <3>2. \A i \in 1..Len(Incoming) : Incoming[i].type \in {"UserData", "Goodbye"}
      BY <1>0, <3>1 DEF RequestInv
    <3>3. \A i \in 1..Len(Incoming') : Incoming'[i].type \in {"UserData", "Goodbye"}
      BY <1>0, <1>3, <3>1, <3>2
    <3> QED
      BY <1>0, <3>1, <3>3 DEF RequestInv
  <2> QED
    BY <1>0, <2>1, <2>2
<1>8. ClientInv'
  BY <1>0 DEF ClientInv, ClientSendsNew, Following
<1>9. SessionInv'
  BY <1>0 DEF SessionInv, ClientSendsNew, LoggingIn, loginVars
<1>14. RegistryInv' /\ (Waiting' => cl = "Issue")
  BY <1>0 DEF RegistryInv, Waiting, ClientSendsNew
<1>15. cl = "Issue" => Fresh
  BY <1>0 DEF RequestInv
<1>10. DataInv'
  <2>1. m.type # "UserData" => m.text = <<>>
    BY <1>0, <1>5 DEF ClientSendsNew
  <2>2. \A i \in 1..Len(Incoming') :
          Incoming'[i].type # "UserData" => Incoming'[i].text = <<>>
    BY <1>0, <1>3, <2>1 DEF DataInv
  <2> QED
    BY <1>0, <1>2, <2>2 DEF DataInv
<1>11. AnswerInv'
  <2>1. Waiting' => Outgoing' = <<>> /\ Len(<<>>) = 0
    BY <1>2, <1>14, <1>15 DEF Fresh, Outgoing
  <2>2. AnswerIsTrue'
    BY <1>0, <1>15 DEF AnswerInv, AnswerIsTrue, Fresh, ClientSendsNew, loginVars
  <2> QED
    BY <1>0, <1>2, <2>1, <2>2 DEF AnswerInv, OneOk, ClientSendsNew, loginVars
<1>12. TypedInv'
  <2>1. PICK k \in Nat : sent' = sent + k /\ m.text = After(sent, k)
    <3>1. \A x, y \in Nat : y \in x..typed => y - x \in Nat /\ y = x + (y - x)
      BY <1>4
    <3>2. m.text = After(sent, sent' - sent)
      BY DEF ClientSendsNew, After
    <3> QED
      BY <1>4, <3>1, <3>2, Zenon
  <2>2. Text(Incoming') = Join(Text(Incoming), After(sent, k))
    <3>1. Incoming \in Seq(AnyMessage) /\ m \in AnyMessage /\ Text(Incoming) \in Seq(Nat)
      BY <1>0, StateTypes, SomeMessage DEF ClientSendsNew
    <3>2. CASE Incoming' = Append(Incoming, m)
      BY <2>1, <3>1, <3>2, TextAppend
    <3>3. CASE Incoming' = Incoming /\ sent' = sent
      BY <1>5, <2>1, <3>1, <3>3, JoinFacts
    <3> QED
      BY <3>2, <3>3 DEF ClientSendsNew
  <2>3. /\ After(sent, k) \in Seq(Nat)
        /\ Join(UpTo(sent), After(sent, k)) = UpTo(sent')
        /\ InOrderUpTo(Typed, sent) => InOrderUpTo(Join(Typed, After(sent, k)), sent')
    BY <1>0, <1>4, <2>1, JoinAfter, StateTypes
  <2>4. Typed' = Join(Typed, After(sent, k))
    <3>1. /\ got \in Seq(Nat) /\ ssh_buf \in Seq(Nat) /\ Text(Incoming) \in Seq(Nat)
          /\ Join(ssh_buf, Text(Incoming)) \in Seq(Nat)
      BY <1>0, StateTypes
    <3>2. got' = got /\ ssh_buf' = ssh_buf
      BY DEF ClientSendsNew, loginVars
    <3> QED
      BY <2>2, <2>3, <3>1, <3>2, JoinFacts DEF Typed
  <2> QED
    BY <1>0, <2>3, <2>4 DEF TypedInv, ClientSendsNew, LoggingIn
<1>13. PrintedInv'
  <2>1. Printed' = Printed
    BY <1>0, <1>1, <1>2 DEF Printed, ClientSendsNew, loginVars
  <2>2. LoggingIn' /\ Following' => LoggingIn /\ Following
    BY <1>0 DEF ClientSendsNew, Following, LoggingIn, RequestInv, Fresh
  <2> QED
    BY <1>0, <1>1, <1>2, <2>1, <2>2 DEF PrintedInv, ClientSendsNew, loginVars
<1> QED
  BY <1>6, <1>7, <1>8, <1>9, <1>10, <1>11, <1>12, <1>13, <1>14 DEF ConversationInv

\* The client reads a frame.
ClientReadsFrame ==
  /\ cl \in {"FirstAck", "Communicating", "Await"}
  /\ s2c # <<>> /\ s2c' = <<>>
  /\ UNCHANGED <<cmd, typed, sent, tx_buf, c2s, shown, loginVars, sessionVars>>
  /\ lost \subseteq lost'
  /\ \/ /\ cl = "FirstAck" /\ Head(s2c).type = "Ok" /\ saw_ok' = TRUE
        /\ Dropped(s2c) \subseteq lost' /\ UNCHANGED <<cl, result, user_buf>>
     \/ /\ cl = "Communicating" /\ Head(s2c).type = "SshData"
        /\ user_buf' = user_buf \o Head(s2c).text
        /\ Dropped(s2c) \subseteq lost' /\ UNCHANGED <<cl, saw_ok, result>>
     \/ /\ cl' = "Finished" /\ UNCHANGED <<saw_ok, user_buf>>
        /\ \/ cl = "FirstAck" /\ Head(s2c).type = "TunnelAlreadyOpen" /\ result' = "AlreadyOpen"
           \/ cl \in {"Communicating", "Await"} /\ Head(s2c).type = "Ok" /\ result' = "Success"
           \/ cl = "Await" /\ Head(s2c).type = "TunnelNotOpen" /\ result' = "NotOpen"
           \/ cl = "Await" /\ result' = "Status"
     \/ cl' = "failed" /\ UNCHANGED <<saw_ok, user_buf, result>>

\* Reading keeps the invariant: of the text, what is behind the first message
\* of the frame gets lost, which `lost' tells; and what the client concludes
\* from the message is so.
LEMMA ClientReadsInv == ConversationInv /\ ClientReadsFrame => ConversationInv'
<1> SUFFICES ASSUME ConversationInv, ClientReadsFrame PROVE ConversationInv'
  OBVIOUS
<1>0. /\ ConversationTypeOK /\ RequestInv /\ RegistryInv /\ ClientInv /\ SessionInv
      /\ DataInv /\ AnswerInv /\ TypedInv /\ PrintedInv
  BY DEF ConversationInv
<1>1. /\ Len(s2c) \in Nat /\ Len(wbuf) \in Nat /\ Len(Outgoing) = Len(s2c) + Len(wbuf)
      /\ \A i \in 1..Len(s2c) : Outgoing[i] = s2c[i]
      /\ \A i \in 1..Len(wbuf) : Outgoing[Len(s2c) + i] = wbuf[i]
      /\ Len(s2c) >= 1 /\ Head(s2c) = s2c[1] /\ Outgoing[1] = Head(s2c)
  BY <1>0, OutgoingElements DEF ClientReadsFrame
<1>2. s2c' = <<>> /\ wbuf' = wbuf /\ wbuf \in Seq(ServerMessage)
  BY <1>0 DEF ClientReadsFrame, ConversationTypeOK, sessionVars
<1>3. Outgoing' = wbuf /\ Incoming' = Incoming
  BY <1>2 DEF Outgoing, Incoming, ClientReadsFrame
<1>4. s2c \in Seq(ServerMessage) /\ Head(s2c) \in ServerMessage
      /\ Head(s2c).text \in Seq(1..TextCap)
  <2>1. s2c \in Seq(ServerMessage) /\ s2c # <<>>
    BY <1>0 DEF ConversationTypeOK, ClientReadsFrame
  <2>2. Head(s2c) \in ServerMessage
    BY <2>1, HeadTailProperties
  <2> QED
    BY <2>1, <2>2 DEF ServerMessage
<1>5. ~Fresh /\ cl # "Issue" /\ cl' # "Issue"
  BY DEF Fresh, ClientReadsFrame
<1>6. ConversationTypeOK'
  <2>1. user_buf' \in Seq(1..TextCap)
    <3>1. user_buf \in Seq(1..TextCap)
      BY <1>0 DEF ConversationTypeOK
    <3>2. user_buf \o Head(s2c).text \in Seq(1..TextCap)
      BY <1>4, <3>1, ConcatProperties
    <3> QED
      BY <3>1, <3>2 DEF ClientReadsFrame
  <2>2. s2c' \in Seq(ServerMessage) /\ Len(s2c') <= SockCap
    BY <1>2, EmptySeq, ConversationAssumption
  <2>3. /\ cl' \in {"Issue", "FirstAck", "Communicating", "Relaying", "Await", "Finished"}
                   \cup Ended
        /\ result' \in {"none", "Success", "AlreadyOpen", "NotOpen", "Status"}
        /\ saw_ok' \in BOOLEAN
    BY <1>0 DEF ClientReadsFrame, Ended, ConversationTypeOK
  <2> QED
    BY <1>0, <2>1, <2>2, <2>3
    DEF ConversationTypeOK, ClientReadsFrame, loginVars, sessionVars, ClientMessage, ServerMessage,
        Request, Ended
<1>7. RequestInv'
  BY <1>0, <1>3, <1>5 DEF RequestInv, ClientReadsFrame
<1>8. ClientInv'
  BY <1>0 DEF ClientInv, ClientReadsFrame, Following
<1>9. SessionInv'
  BY <1>0 DEF SessionInv, ClientReadsFrame, LoggingIn, loginVars, sessionVars
<1>14. RegistryInv' /\ (Waiting' => Waiting)
  BY <1>0 DEF RegistryInv, Waiting, ClientReadsFrame, loginVars, sessionVars
<1>10. DataInv'
  <2>1. \A i \in 1..Len(wbuf) : wbuf[i].type # "SshData" => wbuf[i].text = <<>>
    BY <1>0, <1>1 DEF DataInv
  <2> QED
    BY <1>0, <1>3, <2>1 DEF DataInv, ClientReadsFrame
<1>11. AnswerInv'
  <2>1. Waiting => \A i \in 1..Len(wbuf) : IsTrue(wbuf[i].type)
    BY <1>0, <1>1 DEF AnswerInv
  <2>3. ASSUME cmd = "open", marker = 0 PROVE \A i \in 1..Len(wbuf) : wbuf[i].type # "Ok"
    <3>1. \A i \in 2..Len(Outgoing) : Outgoing[i].type # "Ok"
      BY <1>0, <2>3 DEF AnswerInv, OneOk
    <3>2. \A i \in 1..Len(wbuf) : Len(s2c) + i \in 2..Len(Outgoing)
      BY <1>1
    <3> QED
      BY <1>1, <3>1, <3>2
  <2>4. Waiting => IsTrue(Head(s2c).type)
    BY <1>0, <1>1 DEF AnswerInv
  <2>5. cl = "Communicating" /\ marker = 0 => Head(s2c).type # "Ok"
    BY <1>0, <1>1 DEF AnswerInv, OneOk, ClientInv, Following
  <2>6. AnswerIsTrue'
    BY <1>0, <2>4, <2>5
    DEF AnswerInv, AnswerIsTrue, IsTrue, ClientReadsFrame, ClientInv, Following, Waiting,
        loginVars, sessionVars
  <2>7. (Waiting => \A i \in 1..Len(Outgoing) : IsTrue(Outgoing[i].type))'
    BY <1>3, <1>14, <2>1 DEF IsTrue, ClientReadsFrame, loginVars, sessionVars
  <2>8. cmd' = "open" /\ marker' = 0 => OneOk(Outgoing)'
    BY <1>1, <1>3, <2>3 DEF OneOk, ClientReadsFrame, loginVars
  <2> QED
    BY <2>6, <2>7, <2>8 DEF AnswerInv
<1>12. TypedInv'
  <2>1. Typed' = Typed
    BY <1>3 DEF Typed, ClientReadsFrame, loginVars
  <2> QED
    BY <1>0, <2>1 DEF TypedInv, ClientReadsFrame, LoggingIn, sessionVars
<1>13. PrintedInv'
  <2> DEFINE h == Head(s2c).text
             r == Text(Tail(s2c))
             w == Text(wbuf)
             t == Text(Outgoing)
             rest == Join(w, cl_buf)
  <2>1. /\ h \in Seq(Nat) /\ r \in Seq(Nat) /\ w \in Seq(Nat) /\ cl_buf \in Seq(Nat)
        /\ Seen \in Seq(Nat) /\ Text(s2c) = Join(h, r) /\ printed \in Nat
        /\ shown \in Seq(Nat) /\ user_buf \in Seq(Nat)
    <3>1. s2c \in Seq(AnyMessage) /\ s2c # <<>> /\ wbuf \in Seq(AnyMessage)
      BY <1>0, StateTypes DEF ClientReadsFrame
    <3> QED
      BY <1>0, <3>1, TextRead, TextType, StateTypes DEF AnyMessage
  <2>2. t = Join(Join(h, r), w)
    BY <1>0, <2>1, OutgoingElements
  <2>3. Text(Outgoing)' = w /\ cl_buf' = cl_buf /\ printed' = printed /\ marker' = marker
        /\ shown' = shown /\ LoggingIn' = LoggingIn
    BY <1>3 DEF ClientReadsFrame, loginVars, sessionVars, LoggingIn
  <2>4. Head(s2c).type # "SshData" => h = <<>>
    BY <1>0, <1>1 DEF DataInv
  <2>5. Dropped(s2c) \subseteq lost' /\ "SshData" \notin lost' => r = <<>>
    <3> SUFFICES ASSUME Dropped(s2c) \subseteq lost', "SshData" \notin lost' PROVE r = <<>>
      OBVIOUS
    <3>1. \A i \in 2..Len(s2c) : s2c[i].type # "SshData"
      BY DEF Dropped
    <3>2. \A i \in 2..Len(s2c) : s2c[i].text = <<>>
      BY <1>0, <1>1, <3>1 DEF DataInv
    <3>3. s2c \in Seq(AnyMessage) /\ s2c # <<>>
      BY <1>0, StateTypes DEF ClientReadsFrame
    <3> QED
      BY <3>2, <3>3, TextRead
  <2>6. Printed = Join(Seen, Join(t, cl_buf)) /\ Printed' = Join(Seen', rest)
    BY <2>3 DEF Printed
  <2>7. \/ /\ Seen' = Seen
           /\ Following' => h = <<>> /\ Dropped(s2c) \subseteq lost'
        \/ /\ Seen' = Join(Seen, h)
           /\ Dropped(s2c) \subseteq lost'
    <3>0. \/ /\ user_buf' = user_buf
             /\ Following' => Head(s2c).type = "Ok" /\ Dropped(s2c) \subseteq lost'
          \/ user_buf' = Join(user_buf, h) /\ Dropped(s2c) \subseteq lost'
      BY DEF ClientReadsFrame, Join, Following
    <3> HIDE DEF h
    <3>1. user_buf' = user_buf => Seen' = Seen
      BY <2>3 DEF Seen
    <3>2. user_buf' = Join(user_buf, h) => Seen' = Join(Seen, h)
      BY <2>1, <2>3, JoinFacts DEF Seen
    <3> QED
      BY <2>4, <3>0, <3>1, <3>2
  <2> HIDE DEF h, r, w, t, rest
  <2>8. Join(Seen, Join(t, cl_buf)) = Join(Seen, Join(Join(h, r), rest))
    <3> DEFINE hr == Join(h, r)
    <3>1. hr \in Seq(Nat)
      BY <2>1, JoinFacts
    <3> HIDE DEF hr
    <3>2. Join(Join(hr, w), cl_buf) = Join(hr, Join(w, cl_buf))
      BY <2>1, <3>1, JoinFacts
    <3> QED
      BY <2>2, <3>2 DEF rest, hr
  <2>9. rest \in Seq(Nat) /\ Join(h, r) \in Seq(Nat) /\ Join(Seen, h) \in Seq(Nat)
    BY <2>1, JoinFacts DEF rest
  <2>10. InOrderUpTo(Join(Seen, Join(Join(h, r), rest)), printed)
    BY <1>0, <2>6, <2>8 DEF PrintedInv
  <2>11. Range(Join(Seen', w)) \subseteq Range(Join(Seen, t))
    <3>1. t \in Seq(Nat) /\ Range(t) = (Range(h) \cup Range(r)) \cup Range(w)
      <4>1. Range(Join(h, r)) = Range(h) \cup Range(r)
        BY <2>1, RangeJoin
      <4> DEFINE hr == Join(h, r)
      <4> HIDE DEF hr
      <4>2. hr \in Seq(Nat) /\ t = Join(hr, w)
        BY <2>2, <2>9 DEF hr
      <4>3. t \in Seq(Nat) /\ Range(t) = Range(hr) \cup Range(w)
        BY <2>1, <4>2, RangeJoin, JoinFacts
      <4> QED
        BY <4>1, <4>3 DEF hr
    <3>2. Range(Join(Seen, t)) = Range(Seen) \cup Range(t)
      BY <2>1, <3>1, RangeJoin
    <3>3. Range(Join(Seen, w)) = Range(Seen) \cup Range(w)
      BY <2>1, RangeJoin
    <3>4. Range(Join(Join(Seen, h), w)) = (Range(Seen) \cup Range(h)) \cup Range(w)
      BY <2>1, <2>9, RangeJoin
    <3> QED
      BY <2>7, <3>1, <3>2, <3>3, <3>4
  <2>12. marker' # 0 => marker' \notin Range(Join(Seen, Text(Outgoing)))'
    BY <1>0, <2>3, <2>11 DEF PrintedInv, t
  <2>13. CASE Seen' = Seen /\ (Following' => h = <<>> /\ Dropped(s2c) \subseteq lost')
    <3>1. InOrderUpTo(Join(Seen, rest), printed)
      BY <2>1, <2>9, <2>10, JoinDrop
    <3>2. Following' /\ "SshData" \notin lost' => Join(Seen, rest) = Printed
      <4>1. Join(<<>>, <<>>) = <<>> /\ Join(<<>>, rest) = rest
        BY <2>9, JoinFacts
      <4> QED
        BY <2>5, <2>6, <2>8, <2>13, <4>1
    <3>3. Following' /\ "SshData" \notin lost' => Following /\ "SshData" \notin lost
      BY DEF ClientReadsFrame, Following
    <3> QED
      BY <1>0, <2>3, <2>6, <2>12, <2>13, <3>1, <3>2, <3>3 DEF PrintedInv
  <2>14. CASE Seen' = Join(Seen, h) /\ Dropped(s2c) \subseteq lost'
    <3>1. Join(Seen, Join(Join(h, r), rest)) = Join(Join(Seen, h), Join(r, rest))
      BY <2>1, <2>9, JoinFacts
    <3>2. InOrderUpTo(Join(Join(Seen, h), rest), printed)
      BY <2>1, <2>9, <2>10, <3>1, JoinDrop
    <3>3. "SshData" \notin lost' => Join(Join(Seen, h), rest) = Printed
      BY <2>5, <2>6, <2>8, <2>9, <2>14, <3>1, JoinFacts
    <3>4. Following' /\ "SshData" \notin lost' => Following /\ "SshData" \notin lost
      BY DEF ClientReadsFrame, Following
    <3> QED
      BY <1>0, <2>3, <2>6, <2>12, <2>14, <3>2, <3>3, <3>4 DEF PrintedInv
  <2> QED
    BY <2>7, <2>13, <2>14
<1> QED
  BY <1>6, <1>7, <1>8, <1>9, <1>10, <1>11, <1>12, <1>13, <1>14 DEF ConversationInv

\* The session reads the request and answers m, in the socket or as the first
\* message of the write buffer.
SessionAnswers(m) ==
  /\ Fresh /\ cl # "Issue" /\ c2s' = <<>>
  /\ UNCHANGED <<cmd, typed, clientVars, printed, marker, cl_buf, ssh_buf, got, up>>
  /\ entry' \in TunnelState /\ held' \subseteq TunnelState
  /\ exit_on_close' \in BOOLEAN /\ silent' \in BOOLEAN
  /\ ssh' \in {"none", "login"}
  /\ m \in ServerMessage /\ m.text = <<>>
  /\ Waiting => IsTrue(m.type)' /\ (ssh' = "none" => entry' \in held')
  /\ \/ s2c' = <<m>> /\ wbuf' = <<>> /\ session' = "AwaitingCommand"
     \/ s2c' = <<>> /\ wbuf' = <<>> /\ session' = "closed"
     \/ s2c' = <<>> /\ wbuf' = <<m>> /\ session' \in {"Aborting", "CommunicatingForOpen"}
  /\ LoggingIn' => ssh' # "none" /\ cmd = "open"

\* The answer to the request keeps the invariant: it is the first message of
\* all, and true.
LEMMA SessionAnswersInv ==
  ASSUME ConversationInv, NEW m, SessionAnswers(m)
  PROVE  ConversationInv'
<1>0. /\ ConversationTypeOK /\ RequestInv /\ RegistryInv /\ ClientInv /\ SessionInv
      /\ DataInv /\ AnswerInv /\ TypedInv /\ PrintedInv
  BY DEF ConversationInv
<1>1. m \in ServerMessage /\ m \in AnyMessage /\ m.text = <<>>
  BY SomeMessage DEF SessionAnswers
<1> DEFINE one == Append(<<>>, m)
<1>2. /\ one \in Seq(ServerMessage) /\ Len(one) = 1 /\ one[1] = m /\ one # <<>>
      /\ <<>> \in Seq(ServerMessage) /\ Len(<<>>) = 0
  BY <1>1
<1>3. /\ \/ s2c' = one /\ wbuf' = <<>> /\ session' = "AwaitingCommand"
         \/ s2c' = <<>> /\ wbuf' = <<>> /\ session' = "closed"
         \/ s2c' = <<>> /\ wbuf' = one /\ session' \in {"Aborting", "CommunicatingForOpen"}
  BY DEF SessionAnswers
<1> HIDE DEF one
<1>4. Outgoing' = <<>> \/ Outgoing' = one
  <2>1. <<>> \o <<>> = <<>> /\ <<>> \o one = one /\ one \o <<>> = one
    BY <1>2, ConcatEmptySeq
  <2> QED
    BY <1>3, <2>1 DEF Outgoing
<1>14. /\ c2s' = <<>> /\ tx_buf' = <<>> /\ tx_buf = <<>> /\ Incoming' = <<>> /\ Len(<<>>) = 0
       /\ Waiting' = Waiting
  BY ConcatEmptySeq, EmptySeq DEF SessionAnswers, Fresh, clientVars, Incoming, Waiting
<1>5. ConversationTypeOK'
  <2>1. c2s' \in Seq(ClientMessage) /\ tx_buf' \in Seq(ClientMessage) /\ Len(tx_buf') = 0
    BY <1>14, EmptySeq
  <2>2. s2c' \in Seq(ServerMessage) /\ wbuf' \in Seq(ServerMessage)
    BY <1>2, <1>3
  <2>3. Len(s2c') \in {0, 1} /\ Len(wbuf') \in {0, 1}
    BY <1>2, <1>3
  <2>4. Len(s2c') <= SockCap /\ Len(wbuf') <= WBufCap + 1
    <3>1. \A x \in {0, 1} : x <= SockCap /\ x <= WBufCap + 1
      BY ConversationAssumption
    <3> QED
      BY <2>3, <3>1, Zenon
  <2> QED
    BY <1>0, <2>1, <2>2, <2>4
    DEF ConversationTypeOK, SessionAnswers, clientVars, ClientMessage, ServerMessage, Request, Ended
<1>6. RequestInv'
  BY <1>14 DEF RequestInv, SessionAnswers, clientVars
<1>15. RegistryInv'
  BY <1>14 DEF RegistryInv, SessionAnswers
<1>7. ClientInv'
  BY <1>0 DEF ClientInv, SessionAnswers, clientVars, Following
<1>8. SessionInv'
  <2>1. session' = "AwaitingCommand" => wbuf' = <<>>
    BY <1>3
  <2>2. LoggingIn' => wbuf' = one /\ ssh' # "none" /\ cmd' = "open"
    BY <1>3 DEF SessionAnswers, LoggingIn
  <2>3. 1 <= WBufCap
    BY ConversationAssumption
  <2> QED
    BY <1>2, <2>1, <2>2, <2>3 DEF SessionInv
<1>9. DataInv'
  BY <1>1, <1>2, <1>4, <1>14 DEF DataInv
<1>10. AnswerInv'
  <2>1. (Waiting => \A i \in 1..Len(Outgoing) : IsTrue(Outgoing[i].type))'
    BY <1>2, <1>4, <1>14 DEF IsTrue, SessionAnswers
  <2>2. OneOk(Outgoing)'
    BY <1>2, <1>4 DEF OneOk, SessionAnswers, Fresh, clientVars
  <2>3. AnswerIsTrue'
    BY DEF AnswerIsTrue, SessionAnswers, Fresh, clientVars
  <2> QED
    BY <2>1, <2>2, <2>3 DEF AnswerInv
<1>11. Text(one) = <<>>
  <2>1. Text(one) = Join(Text(<<>>), m.text)
    BY <1>1, TextAppend, EmptySeq DEF one
  <2> QED
    BY <1>1, <2>1, TextEmpty, JoinFacts
<1>12. UpTo(0) = <<>>
  BY DEF UpTo
<1>13. TypedInv' /\ PrintedInv'
  <2>1. Text(Outgoing)' = <<>> /\ Text(Incoming)' = <<>>
    BY <1>4, <1>11, <1>14, TextEmpty
  <2>2. (Typed = <<>>)' /\ (Printed = <<>>)'
    BY <2>1, JoinFacts DEF Typed, Printed, Seen, SessionAnswers, Fresh, clientVars
  <2>3. InOrderUpTo(<<>>, 0)
    BY DEF InOrderUpTo, InOrder
  <2>4. sent' = 0 /\ printed' = 0 /\ marker' = 0
    BY DEF SessionAnswers, Fresh, clientVars
  <2> QED
    BY <1>12, <2>2, <2>3, <2>4 DEF TypedInv, PrintedInv
<1> QED
  BY <1>5, <1>6, <1>7, <1>8, <1>9, <1>10, <1>13, <1>15 DEF ConversationInv

\* It does not matter where a queue of messages is cut.
LEMMA MessagesAssociative ==
  ASSUME NEW S, NEW a \in Seq(S), NEW b \in Seq(S), NEW c \in Seq(S)
  PROVE  (a \o b) \o c = a \o (b \o c)
BY SMTT(60)

\* A write that takes the first k of the messages w neither loses any nor
\* changes their order.
LEMMA WriteKeeps ==
  ASSUME NEW S, NEW q \in Seq(S), NEW w \in Seq(S), NEW k \in 0..Len(w)
  PROVE  /\ SubSeq(w, 1, k) \in Seq(S) /\ Len(SubSeq(w, 1, k)) = k
         /\ SubSeq(w, k + 1, Len(w)) \in Seq(S) /\ Len(SubSeq(w, k + 1, Len(w))) = Len(w) - k
         /\ Join(SubSeq(w, 1, k), SubSeq(w, k + 1, Len(w))) = w
         /\ Join(Join(q, SubSeq(w, 1, k)), SubSeq(w, k + 1, Len(w))) = Join(q, w)
<1> DEFINE a == SubSeq(w, 1, k)
           b == SubSeq(w, k + 1, Len(w))
<1>1. Len(w) \in Nat /\ k \in Nat /\ k <= Len(w)
  BY LenProperties
<1>2. a \in Seq(S) /\ Len(a) = k /\ b \in Seq(S) /\ Len(b) = Len(w) - k
  BY <1>1
<1>3. a \o b = w
  <2>1. 1 \in 1..(Len(w) + 1) /\ k \in (1 - 1)..Len(w) /\ Len(w) \in k..Len(w)
    BY <1>1
  <2>2. SubSeq(w, 1, k) \o SubSeq(w, k + 1, Len(w)) = SubSeq(w, 1, Len(w))
    BY <2>1, ConcatAdjacentSubSeq
  <2> QED
    BY <2>2, SubSeqFull
<1> HIDE DEF a, b
<1>4. (q \o a) \o b = q \o (a \o b)
  BY <1>2, SMTT(60)
<1>5. (q \o a) \o b = q \o w
  BY <1>3, <1>4, Zenon
<1> QED
  BY <1>2, <1>3, <1>5, Zenon DEF a, b, Join

\* What Flush writes is what there was to write, in order.
LEMMA FlushKeeps ==
  ASSUME ConversationTypeOK, NEW w \in Seq(ServerMessage), Flush(w)
  PROVE  /\ s2c' \in Seq(ServerMessage) /\ Len(s2c') <= SockCap
         /\ wbuf' \in Seq(ServerMessage) /\ Len(wbuf') <= Len(w)
         /\ ~Fits(w) => Len(s2c') = SockCap /\ Len(wbuf') = Len(s2c) + Len(w) - SockCap
         /\ Outgoing' = s2c \o w
<1> DEFINE room == SockCap - Len(s2c)
           k    == IF Len(w) < room THEN Len(w) ELSE room
<1>1. /\ s2c \in Seq(ServerMessage) /\ Len(s2c) \in Nat /\ Len(s2c) <= SockCap
      /\ Len(w) \in Nat /\ SockCap \in Nat
  BY ConversationAssumption DEF ConversationTypeOK
<1>2. room \in Nat /\ k \in 0..Len(w) /\ k <= room /\ Len(s2c) + room = SockCap
      /\ (Len(s2c) + Len(w) > SockCap => k = room)
  BY <1>1
<1>3. s2c' = s2c \o SubSeq(w, 1, k) /\ wbuf' = SubSeq(w, k + 1, Len(w))
  BY DEF Flush
<1> HIDE DEF room, k
<1>4. /\ SubSeq(w, 1, k) \in Seq(ServerMessage) /\ Len(SubSeq(w, 1, k)) = k
      /\ SubSeq(w, k + 1, Len(w)) \in Seq(ServerMessage)
      /\ Len(SubSeq(w, k + 1, Len(w))) = Len(w) - k
      /\ (s2c \o SubSeq(w, 1, k)) \o SubSeq(w, k + 1, Len(w)) = s2c \o w
  <2> DEFINE M == ServerMessage
  <2>1. s2c \in Seq(M) /\ w \in Seq(M) /\ k \in 0..Len(w)
    BY <1>1, <1>2
  <2> HIDE DEF M
  <2>2. /\ SubSeq(w, 1, k) \in Seq(M) /\ Len(SubSeq(w, 1, k)) = k
        /\ SubSeq(w, k + 1, Len(w)) \in Seq(M)
        /\ Len(SubSeq(w, k + 1, Len(w))) = Len(w) - k
    BY <2>1, WriteKeeps
  <2>3. Join(Join(s2c, SubSeq(w, 1, k)), SubSeq(w, k + 1, Len(w))) = Join(s2c, w)
    BY <2>1, WriteKeeps
  <2> QED
    BY <2>2, <2>3, Zenon DEF M, Join
<1>5. /\ s2c' \in Seq(ServerMessage) /\ Len(s2c') = Len(s2c) + k
      /\ wbuf' \in Seq(ServerMessage) /\ Len(wbuf') = Len(w) - k
  BY <1>1, <1>3, <1>4, ConcatProperties
<1>8. Outgoing' = s2c \o w
  BY <1>3, <1>4 DEF Outgoing
<1>9. /\ Len(s2c) + k <= SockCap /\ Len(w) - k <= Len(w)
      /\ ~Fits(w) => Len(s2c) + k = SockCap /\ Len(w) - k = Len(s2c) + Len(w) - SockCap
  BY <1>1, <1>2 DEF Fits
<1> QED
  BY <1>5, <1>8, <1>9, Zenon

\* The session, SSH or the registry moves on; nothing is read that would be
\* used, and nothing new is written but the error message.
SessionMoves ==
  /\ UNCHANGED <<cmd, typed, clientVars, printed, marker, cl_buf, ssh_buf, got, exit_on_close>>
  /\ UNCHANGED registryVars \/ \E e \in TunnelState : EntryBecomes(e)
  /\ up' \in BOOLEAN /\ silent' \in BOOLEAN /\ lost \subseteq lost'
  /\ ssh' \in {"none", "login", "online", "dead"} /\ (ssh' = "none" <=> ssh = "none")
  /\ c2s' = c2s \/ (c2s' = <<>> /\ session' = "closed")
  /\ \/ UNCHANGED <<s2c, wbuf>> /\ session' \in {session, "closed"}
     \/ session = "Aborting" /\ Flush(wbuf) /\ session' \in {"Aborting", "closed"}
     \/ LoggingIn /\ Abort

\* Such a step keeps the invariant.
LEMMA SessionMovesInv == ConversationInv /\ SessionMoves => ConversationInv'
<1> SUFFICES ASSUME ConversationInv, SessionMoves PROVE ConversationInv'
  OBVIOUS
<1>0. /\ ConversationTypeOK /\ RequestInv /\ RegistryInv /\ ClientInv /\ SessionInv
      /\ DataInv /\ AnswerInv /\ TypedInv /\ PrintedInv
  BY DEF ConversationInv
<1>1. /\ s2c \in Seq(ServerMessage) /\ wbuf \in Seq(ServerMessage)
      /\ Len(s2c) <= SockCap /\ Len(wbuf) <= WBufCap + 1
      /\ Outgoing \in Seq(ServerMessage) /\ Outgoing \in Seq(AnyMessage)
  BY <1>0, StateTypes DEF ConversationTypeOK
<1> DEFINE e == Msg("Error")
<1>2. e \in ServerMessage /\ e \in AnyMessage /\ e.type = "Error" /\ e.text = <<>>
  BY MessageTypes, SomeMessage
<1> HIDE DEF e
<1>3. /\ s2c' \in Seq(ServerMessage) /\ wbuf' \in Seq(ServerMessage)
      /\ Len(s2c') <= SockCap /\ Len(wbuf') <= WBufCap + 1
      /\ Outgoing' = Outgoing \/ Outgoing' = Append(Outgoing, e)
  <2>1. CASE UNCHANGED <<s2c, wbuf>>
    BY <1>1, <2>1 DEF Outgoing
  <2>2. CASE Flush(wbuf)
    <3>1. /\ s2c' \in Seq(ServerMessage) /\ Len(s2c') <= SockCap
          /\ wbuf' \in Seq(ServerMessage) /\ Len(wbuf') <= Len(wbuf)
          /\ Outgoing' = s2c \o wbuf
      BY <1>0, <1>1, <2>2, FlushKeeps
    <3>2. Outgoing' = Outgoing
      BY <3>1 DEF Outgoing
    <3>3. Len(wbuf') \in Nat /\ Len(wbuf) \in Nat /\ WBufCap \in Nat
      BY <1>1, <3>1, LenProperties, ConversationAssumption
    <3>4. Len(wbuf') <= WBufCap + 1
      BY <1>1, <3>1, <3>3
    <3> QED
      BY <3>1, <3>2, <3>4, Zenon
  <2>3. CASE LoggingIn /\ Abort
    <3>1. wbuf' = Append(wbuf, e) /\ s2c' = s2c
      BY <2>3 DEF Abort, e
    <3>2. /\ wbuf' \in Seq(ServerMessage) /\ Len(wbuf') = Len(wbuf) + 1 /\ Len(wbuf) \in Nat
      BY <1>1, <1>2, <3>1, AppendProperties, LenProperties
    <3>3. Len(wbuf') <= WBufCap + 1
      BY <1>0, <2>3, <3>2, ConversationAssumption DEF SessionInv
    <3>4. s2c \o Append(wbuf, e) = Append(s2c \o wbuf, e)
      BY <1>1, <1>2
    <3>5. Outgoing' = Append(Outgoing, e)
      BY <3>1, <3>4, Zenon DEF Outgoing
    <3> QED
      BY <1>1, <3>1, <3>2, <3>3, <3>5
  <2> QED
    BY <2>1, <2>2, <2>3 DEF SessionMoves
<1>4. Text(Outgoing)' = Text(Outgoing)
  <2>1. Text(Append(Outgoing, e)) = Join(Text(Outgoing), <<>>)
    BY <1>1, <1>2, TextAppend
  <2>2. Join(Text(Outgoing), <<>>) = Text(Outgoing)
    BY <1>1, TextType, JoinFacts
  <2> QED
    BY <1>3, <2>1, <2>2
<1>5. \A i \in 1..Len(Outgoing)' :
        \/ i \in 1..Len(Outgoing) /\ Outgoing'[i] = Outgoing[i]
        \/ Outgoing'[i] = e
  <2>1. CASE Outgoing' = Outgoing
    BY <2>1
  <2>2. CASE Outgoing' = Append(Outgoing, e)
    <3>1. /\ Len(Outgoing') = Len(Outgoing) + 1 /\ Len(Outgoing) \in Nat
          /\ \A i \in 1..Len(Outgoing) : Outgoing'[i] = Outgoing[i]
          /\ Outgoing'[Len(Outgoing) + 1] = e
      BY <1>1, <1>2, <2>2, AppendProperties, LenProperties
    <3> QED
      BY <3>1
  <2> QED
    BY <1>3, <2>1, <2>2
<1>14. /\ held \subseteq held' /\ held' \subseteq TunnelState /\ entry' \in TunnelState
       /\ RegistryInv' /\ Waiting' = Waiting
  <2>1. entry \in TunnelState /\ held \subseteq TunnelState
    BY <1>0 DEF ConversationTypeOK
  <2>2. cl' = cl /\ (ssh' = "none" <=> ssh = "none")
    BY DEF SessionMoves, clientVars
  <2>3. CASE UNCHANGED registryVars
    BY <1>0, <2>1, <2>2, <2>3 DEF RegistryInv, Waiting
  <2>4. CASE \E e1 \in TunnelState : EntryBecomes(e1)
    BY <1>0, <2>1, <2>2, <2>4 DEF RegistryInv, Waiting, EntryBecomes
  <2> QED
    BY <2>3, <2>4 DEF SessionMoves
<1>15. /\ tx_buf' = tx_buf
       /\ Incoming' = Incoming \/ (c2s' = <<>> /\ Incoming' = tx_buf /\ session' = "closed")
  <2>1. tx_buf' = tx_buf
    BY DEF SessionMoves, clientVars
  <2>2. c2s' = c2s => Incoming' = Incoming
    BY <2>1 DEF Incoming
  <2>3. c2s' = <<>> => Incoming' = tx_buf
    BY <1>0, <2>1, ConcatEmptySeq DEF Incoming, ConversationTypeOK
  <2> QED
    BY <2>1, <2>2, <2>3 DEF SessionMoves
<1>16. \A i \in 1..Len(tx_buf) :
         /\ tx_buf[i].type \in {"UserData", "Goodbye"}
         /\ tx_buf[i].type # "UserData" => tx_buf[i].text = <<>>
  BY <1>0, ClientBuffer
<1>6. ConversationTypeOK'
  <2>1. c2s' \in Seq(ClientMessage)
    BY <1>0, EmptySeq DEF ConversationTypeOK, SessionMoves
  <2>2. session' \in {"AwaitingCommand", "CommunicatingForOpen", "Aborting", "closed"}
    BY <1>0 DEF ConversationTypeOK, SessionMoves, Abort
  <2> QED
    BY <1>0, <1>3, <1>14, <2>1, <2>2
    DEF ConversationTypeOK, SessionMoves, clientVars, ClientMessage, ServerMessage, Request, Ended
<1>7. RequestInv'
  <2>1. Fresh => Fresh'
    BY DEF Fresh, SessionMoves, LoggingIn, clientVars
  <2>2. c2s' = c2s \/ c2s' = <<>>
    BY DEF SessionMoves
  <2>3. cl' = cl /\ cmd' = cmd
    BY DEF SessionMoves, clientVars
  <2>4. CASE Incoming' = Incoming
    BY <1>0, <2>1, <2>2, <2>3, <2>4 DEF RequestInv, Request
  <2>5. CASE Incoming' = tx_buf
    BY <1>0, <2>1, <2>2, <2>3, <2>5, <1>16 DEF RequestInv, Request
  <2> QED
    BY <1>15, <2>4, <2>5
<1>8. ClientInv'
  BY <1>0 DEF ClientInv, SessionMoves, clientVars, Following
<1>9. SessionInv'
  <2>1. session' \in {"AwaitingCommand", "CommunicatingForOpen"} => UNCHANGED <<wbuf, session>>
    BY DEF SessionMoves, Abort
  <2> QED
    BY <1>0, <2>1 DEF SessionInv, SessionMoves, LoggingIn
<1>10. DataInv'
  <2>1. \A i \in 1..Len(Incoming') :
          Incoming'[i].type # "UserData" => Incoming'[i].text = <<>>
    BY <1>0, <1>15, <1>16 DEF DataInv
  <2> QED
    BY <1>0, <1>2, <1>5, <2>1 DEF DataInv
<1>11. AnswerInv'
  <2>1. (Waiting => \A i \in 1..Len(Outgoing) : IsTrue(Outgoing[i].type))'
    <3>1. \A t : IsTrue(t) => IsTrue(t)'
      BY <1>14 DEF IsTrue, SessionMoves
    <3>2. IsTrue("Error")'
      BY DEF IsTrue
    <3> QED
      BY <1>0, <1>2, <1>5, <1>14, <3>1, <3>2 DEF AnswerInv
  <2>2. \A i \in 2..Len(Outgoing)' :
          \/ i \in 2..Len(Outgoing) /\ Outgoing'[i] = Outgoing[i]
          \/ Outgoing'[i] = e
    BY <1>5
  <2>3. cmd' = "open" /\ marker' = 0 => OneOk(Outgoing)'
    BY <1>0, <1>2, <1>5, <2>2 DEF AnswerInv, OneOk, SessionMoves, clientVars
  <2>4. AnswerIsTrue'
    BY <1>0, <1>14 DEF AnswerInv, AnswerIsTrue, SessionMoves, clientVars
  <2> QED
    BY <2>1, <2>3, <2>4 DEF AnswerInv
<1>12. TypedInv'
  <2> DEFINE c == Text(c2s)
             t == Text(tx_buf)
  <2>1. /\ got \in Seq(Nat) /\ ssh_buf \in Seq(Nat) /\ sent \in Nat
        /\ c \in Seq(Nat) /\ t \in Seq(Nat) /\ Text(Incoming) = Join(c, t)
    BY <1>0, StateTypes, IncomingElements
  <2>2. got' = got /\ ssh_buf' = ssh_buf /\ sent' = sent
    BY DEF SessionMoves, clientVars
  <2>3. CASE Incoming' = Incoming
    <3>1. Typed' = Typed
      BY <2>2, <2>3 DEF Typed
    <3>2. LoggingIn' => LoggingIn
      BY DEF SessionMoves, LoggingIn, Abort
    <3> QED
      BY <1>0, <2>2, <3>1, <3>2 DEF TypedInv, SessionMoves
  <2>4. CASE Incoming' = tx_buf /\ session' = "closed"
    <3>1. Typed' = Join(got, Join(ssh_buf, t))
      BY <2>2, <2>4 DEF Typed
    <3>2. Typed = Join(got, Join(ssh_buf, Join(c, t)))
      BY <2>1 DEF Typed
    <3> HIDE DEF c, t
    <3>3. /\ Join(got, ssh_buf) \in Seq(Nat) /\ Join(c, t) \in Seq(Nat)
          /\ Join(got, Join(ssh_buf, t)) = Join(Join(got, ssh_buf), t)
      BY <2>1, JoinFacts
    <3>4. Join(got, Join(ssh_buf, Join(c, t))) = Join(Join(got, ssh_buf), Join(c, t))
      BY <2>1, <3>3, JoinFacts
    <3>5. InOrderUpTo(Join(Join(got, ssh_buf), Join(c, t)), sent)
      BY <1>0, <3>2, <3>4 DEF TypedInv
    <3>6. InOrderUpTo(Join(Join(got, ssh_buf), t), sent)
      BY <2>1, <3>3, <3>5, JoinDrop
    <3> QED
      BY <2>2, <2>4, <3>1, <3>3, <3>6 DEF TypedInv, LoggingIn
  <2> QED
    BY <1>15, <2>3, <2>4
<1>13. PrintedInv'
  <2>1. Seen' = Seen /\ Printed' = Printed
    BY <1>4 DEF Seen, Printed, SessionMoves, clientVars
  <2>2. LoggingIn' => LoggingIn
    BY DEF SessionMoves, LoggingIn, Abort
  <2> QED
    BY <1>0, <1>4, <2>1, <2>2 DEF PrintedInv, SessionMoves, clientVars, Following
<1> QED
  BY <1>6, <1>7, <1>8, <1>9, <1>10, <1>11, <1>12, <1>13, <1>14 DEF ConversationInv

\* The session reads what the user has typed.
LEMMA CommUserDataInv == ConversationInv /\ CommUserData => ConversationInv'
<1> SUFFICES ASSUME ConversationInv, CommUserData PROVE ConversationInv'
  OBVIOUS
<1>0. /\ ConversationTypeOK /\ RequestInv /\ RegistryInv /\ ClientInv /\ SessionInv
      /\ DataInv /\ AnswerInv /\ TypedInv /\ PrintedInv
  BY DEF ConversationInv
<1>1. /\ UNCHANGED <<cmd, typed, clientVars, s2c, wbuf, session, registryVars, ssh, printed,
                     marker, cl_buf, got, exit_on_close, up, silent>>
      /\ c2s # <<>> /\ c2s' = <<>> /\ lost' = lost \cup Dropped(c2s)
      /\ ssh_buf' = ssh_buf \o Head(c2s).text /\ LoggingIn /\ Head(c2s).type = "UserData"
  BY DEF CommUserData, SessionReads, SessionUnchanged
<1>2. /\ c2s \in Seq(ClientMessage) /\ Head(c2s) \in ClientMessage
      /\ Head(c2s).text \in Seq(1..TypeCap)
  <2>1. c2s \in Seq(ClientMessage)
    BY <1>0 DEF ConversationTypeOK
  <2>2. Head(c2s) \in ClientMessage
    BY <1>1, <2>1, HeadTailProperties
  <2> QED
    BY <2>1, <2>2 DEF ClientMessage
<1>3. Outgoing' = Outgoing /\ Incoming' = tx_buf
  BY <1>0, <1>1, ConcatEmptySeq DEF Outgoing, Incoming, ConversationTypeOK, clientVars
<1>4. ~Fresh
  BY <1>1 DEF Fresh, LoggingIn
<1>5. ConversationTypeOK'
  <2>1. ssh_buf' \in Seq(1..TypeCap)
    <3>1. ssh_buf \in Seq(1..TypeCap)
      BY <1>0 DEF ConversationTypeOK
    <3> QED
      BY <1>1, <1>2, <3>1, ConcatProperties
  <2>2. c2s' \in Seq(ClientMessage)
    BY <1>1, EmptySeq
  <2> QED
    BY <1>0, <1>1, <2>1, <2>2
    DEF ConversationTypeOK, clientVars, ClientMessage, ServerMessage, Request, Ended
<1>12. \A i \in 1..Len(tx_buf) :
         /\ tx_buf[i].type \in {"UserData", "Goodbye"}
         /\ tx_buf[i].type # "UserData" => tx_buf[i].text = <<>>
  BY <1>0, ClientBuffer
<1>6. RequestInv'
  BY <1>0, <1>1, <1>3, <1>4, <1>12 DEF RequestInv, clientVars
<1>7. RegistryInv' /\ ClientInv' /\ SessionInv'
  BY <1>0, <1>1 DEF RegistryInv, Waiting, ClientInv, SessionInv, LoggingIn, Following, clientVars
<1>8. DataInv'
  BY <1>0, <1>1, <1>3, <1>12 DEF DataInv
<1>9. AnswerInv'
  BY <1>0, <1>1, <1>3 DEF AnswerInv, IsTrue, OneOk, AnswerIsTrue, Waiting, clientVars
<1>10. TypedInv'
  <2> DEFINE h == Head(c2s).text
             r == Text(Tail(c2s))
             t == Text(tx_buf)
  <2>1. c2s \in Seq(AnyMessage) /\ c2s # <<>>
    BY <1>0, <1>1, StateTypes
  <2>2. /\ h \in Seq(Nat) /\ r \in Seq(Nat) /\ t \in Seq(Nat)
        /\ Text(Incoming) = Join(Join(h, r), t)
    <3>1. h \in Seq(Nat) /\ r \in Seq(Nat) /\ Text(c2s) = Join(h, r)
      BY <2>1, TextRead DEF AnyMessage
    <3>2. t \in Seq(Nat) /\ Text(Incoming) = Join(Text(c2s), t)
      BY <1>0, IncomingElements
    <3> QED
      BY <3>1, <3>2
  <2>3. "UserData" \notin lost' => r = <<>>
    <3> SUFFICES ASSUME "UserData" \notin lost' PROVE r = <<>>
      OBVIOUS
    <3>1. \A i \in 2..Len(c2s) : c2s[i].type # "UserData"
      BY <1>1 DEF Dropped
    <3>2. \A i \in 2..Len(c2s) : c2s[i].text = <<>>
      BY <1>0, <3>1, IncomingElements DEF DataInv
    <3> QED
      BY <2>1, <3>2, TextRead
  <2>4. ssh_buf' = Join(ssh_buf, h) /\ got' = got /\ Text(Incoming)' = t /\ sent' = sent
    BY <1>1, <1>3 DEF Join, clientVars
  <2>5. got \in Seq(Nat) /\ ssh_buf \in Seq(Nat) /\ sent \in Nat
    BY <1>0, StateTypes
  <2>11. Typed = Join(got, Join(ssh_buf, Join(Join(h, r), t)))
         /\ Typed' = Join(got, Join(Join(ssh_buf, h), t))
    BY <2>2, <2>4 DEF Typed
  <2> DEFINE a == Join(got, Join(ssh_buf, h))
  <2> HIDE DEF h, r, t
  <2>6. Join(ssh_buf, h) \in Seq(Nat) /\ a \in Seq(Nat) /\ Join(r, t) \in Seq(Nat)
    BY <2>2, <2>5, JoinFacts
  <2>7. Typed' = Join(a, t)
    BY <2>2, <2>5, <2>6, <2>11, JoinFacts
  <2>8. Typed = Join(a, Join(r, t))
    <3>1. Join(Join(h, r), t) = Join(h, Join(r, t))
      BY <2>2, JoinFacts
    <3>2. Join(ssh_buf, Join(h, Join(r, t))) = Join(Join(ssh_buf, h), Join(r, t))
      BY <2>2, <2>5, <2>6, JoinFacts
    <3>3. Join(got, Join(Join(ssh_buf, h), Join(r, t))) = Join(a, Join(r, t))
      BY <2>5, <2>6, JoinFacts
    <3> QED
      BY <2>11, <3>1, <3>2, <3>3
  <2> HIDE DEF a
  <2>9. InOrderUpTo(Typed', sent')
    BY <1>0, <2>2, <2>4, <2>5, <2>6, <2>7, <2>8, JoinDrop DEF TypedInv
  <2>10. "UserData" \notin lost' => Typed' = Typed
    BY <2>2, <2>3, <2>6, <2>7, <2>8, JoinFacts
  <2> QED
    BY <1>0, <1>1, <2>4, <2>9, <2>10 DEF TypedInv, LoggingIn
<1>11. PrintedInv'
  <2>1. Seen' = Seen /\ Printed' = Printed
    BY <1>1, <1>3 DEF Seen, Printed, clientVars
  <2>2. "SshData" \notin lost' => "SshData" \notin lost
    BY <1>1
  <2> QED
    BY <1>0, <1>1, <1>3, <2>1, <2>2 DEF PrintedInv, clientVars, Following, LoggingIn
<1> QED
  BY <1>5, <1>6, <1>7, <1>8, <1>9, <1>10, <1>11 DEF ConversationInv

\* The session and SSH exchange what there is, and SSH may be handed off.
LEMMA CommPollInv ==
  ASSUME ConversationInv, NEW text \in {"none", "some", "key"}, NEW j \in Nat,
         CommPoll(text, j)
  PROVE  ConversationInv'
<1>0. /\ ConversationTypeOK /\ RequestInv /\ RegistryInv /\ ClientInv /\ SessionInv
      /\ DataInv /\ AnswerInv /\ TypedInv /\ PrintedInv
  BY DEF ConversationInv
<1> DEFINE n    == IF text = "none" THEN printed ELSE printed + 1
           key  == IF text = "key" THEN n ELSE marker
           buf  == IF text = "none" THEN cl_buf ELSE Append(cl_buf, n)
           send == SendsToClient(buf, key)
           data == Data("SshData", buf)
           w    == IF send THEN Append(wbuf, data) ELSE wbuf
           left == IF send THEN <<>> ELSE buf
           ok   == Msg("Ok")
           out  == s2c \o w
<1>1. /\ LoggingIn /\ c2s = <<>> /\ ~Gone /\ SshSays(text) /\ printed' = n /\ marker' = key
      /\ UNCHANGED <<c2s, lost, registryVars, ssh, exit_on_close, cmd, typed, clientVars, up>>
      /\ got' = got \o SubSeq(ssh_buf, 1, j) /\ ssh_buf' = SubSeq(ssh_buf, j + 1, Len(ssh_buf))
      /\ j <= Len(ssh_buf)
      /\ silent' = silent \/ silent' = (silent \/ session' = "closed")
  BY DEF CommPoll
<1>2. \/ /\ ~Fits(w) /\ cl_buf' = left /\ Flush(w) /\ UNCHANGED session
      \/ /\ Fits(w) /\ wbuf' = <<>>
         /\ \/ cl_buf' = left /\ s2c' = out /\ UNCHANGED session
            \/ /\ key # 0 /\ cl_buf' = <<>>
               /\ \/ s2c' = Append(out, ok) /\ Len(out) < SockCap /\ session' = "AwaitingCommand"
                  \/ s2c' = out /\ session' = "closed"
  BY DEF CommPoll, Reply
<1>3. /\ printed \in Nat /\ marker \in Nat /\ TextCap \in Nat /\ marker <= printed
      /\ s2c \in Seq(ServerMessage) /\ wbuf \in Seq(ServerMessage) /\ cl_buf \in Seq(1..TextCap)
      /\ Len(s2c) \in Nat /\ Len(wbuf) \in Nat /\ Len(s2c) <= SockCap /\ Len(wbuf) <= WBufCap
      /\ SockCap \in Nat /\ WBufCap \in Nat /\ printed <= TextCap
  <2>1. LoggingIn
    BY <1>1
  <2> QED
    BY <1>0, <2>1, ConversationAssumption DEF ConversationTypeOK, SessionInv
<1>4. \E k \in Nat :
        /\ n = printed + k /\ n <= TextCap
        /\ buf \in Seq(1..TextCap) /\ buf = Join(cl_buf, After(printed, k))
        /\ key = marker \/ (key = n /\ key > printed /\ marker = 0)
  <2>1. CASE text = "none"
    <3>1. n = printed /\ key = marker /\ buf = cl_buf
      BY <2>1
    <3>2. After(printed, 0) = <<>>
      BY <1>3 DEF After
    <3>3. cl_buf \in Seq(Nat) /\ Join(cl_buf, <<>>) = cl_buf
      BY <1>0, StateTypes, JoinFacts
    <3>4. n = printed + 0
      BY <1>3, <3>1
    <3> HIDE DEF n, key, buf
    <3> QED
      BY <1>3, <3>1, <3>2, <3>3, <3>4
  <2>2. CASE text # "none"
    <3>1. n = printed + 1 /\ buf = Append(cl_buf, printed + 1)
      BY <2>2
    <3>2. printed + 1 \in 1..TextCap
      BY <1>1, <1>3, <2>2 DEF SshSays
    <3>3. key = marker \/ (key = printed + 1 /\ marker = 0)
      BY <1>1, <3>1 DEF SshSays
    <3>4. After(printed, 1) = <<printed + 1>>
      BY <1>3 DEF After
    <3> HIDE DEF n, key, buf
    <3>5. Append(cl_buf, printed + 1) = cl_buf \o <<printed + 1>>
      BY <1>3, <3>2
    <3>6. Append(cl_buf, printed + 1) \in Seq(1..TextCap)
      BY <1>3, <3>2, AppendProperties
    <3>7. buf = Join(cl_buf, After(printed, 1))
      BY <3>1, <3>4, <3>5, Zenon DEF Join
    <3>8. n <= TextCap /\ printed + 1 > printed
      BY <1>3, <3>1, <3>2
    <3> QED
      BY <3>1, <3>3, <3>6, <3>7, <3>8
  <2> QED
    BY <2>1, <2>2
<1>5. PICK k \in Nat :
        /\ n = printed + k /\ n <= TextCap
        /\ buf \in Seq(1..TextCap) /\ buf = Join(cl_buf, After(printed, k))
        /\ key = marker \/ (key = n /\ key > printed /\ marker = 0)
  BY <1>4
<1> HIDE DEF n, key, buf
<1>6. data \in ServerMessage /\ data.type = "SshData" /\ data.text = buf
  BY <1>5, MessageTypes
<1>7. ok \in ServerMessage /\ ok.type = "Ok" /\ ok.text = <<>>
  BY MessageTypes
<1>8. /\ send => key = 0 /\ (Len(wbuf) < WBufCap \/ Len(s2c) < SockCap)
      /\ send => w = Append(wbuf, data) /\ left = <<>>
      /\ ~send => w = wbuf /\ left = buf
  BY DEF SendsToClient
<1> HIDE DEF send, data, w, left, ok
<1>9. /\ w \in Seq(ServerMessage) /\ Len(w) \in Nat
      /\ send => Len(w) = Len(wbuf) + 1
      /\ send => out = Append(Outgoing, data)
      /\ ~send => out = Outgoing
      /\ out \in Seq(ServerMessage) /\ Len(out) = Len(s2c) + Len(w)
  <2>1. w \in Seq(ServerMessage) /\ Len(w) \in Nat /\ (send => Len(w) = Len(wbuf) + 1)
    <3>1. CASE send
      <4>1. wbuf \in Seq(ServerMessage) /\ data \in ServerMessage /\ w = Append(wbuf, data)
        BY <1>3, <1>6, <1>8, <3>1
      <4>2. w \in Seq(ServerMessage) /\ Len(w) = Len(wbuf) + 1
        BY <4>1, AppendProperties
      <4> QED
        BY <4>2, LenProperties
    <3>2. CASE ~send
      BY <1>3, <1>8, <3>2
    <3> QED
      BY <3>1, <3>2
  <2>2. s2c \o Append(wbuf, data) = Append(s2c \o wbuf, data)
    BY <1>3, <1>6
  <2>3. out \in Seq(ServerMessage) /\ Len(out) = Len(s2c) + Len(w)
    BY <1>3, <2>1, ConcatProperties
  <2>4. (send => out = Append(Outgoing, data)) /\ (~send => out = Outgoing)
    BY <1>8, <2>2, Zenon DEF Outgoing
  <2> HIDE DEF out
  <2> QED
    BY <2>1, <2>3, <2>4
<1>10. Flush(w) /\ ~Fits(w) =>
         /\ s2c' \in Seq(ServerMessage) /\ Len(s2c') <= SockCap
         /\ wbuf' \in Seq(ServerMessage) /\ Len(wbuf') <= WBufCap /\ Outgoing' = out
  <2> SUFFICES ASSUME Flush(w), ~Fits(w)
               PROVE  /\ s2c' \in Seq(ServerMessage) /\ Len(s2c') <= SockCap
                      /\ wbuf' \in Seq(ServerMessage) /\ Len(wbuf') <= WBufCap /\ Outgoing' = out
    OBVIOUS
  <2>1. /\ s2c' \in Seq(ServerMessage) /\ Len(s2c') <= SockCap
        /\ wbuf' \in Seq(ServerMessage) /\ Len(wbuf') <= Len(w)
        /\ Len(wbuf') = Len(s2c) + Len(w) - SockCap
        /\ Outgoing' = out
    BY <1>0, <1>9, FlushKeeps
  <2> HIDE DEF out
  <2>2. \A x : x <= Len(w) /\ x = Len(s2c) + Len(w) - SockCap => x <= WBufCap
    BY <1>3, <1>8, <1>9
  <2> QED
    BY <2>1, <2>2, Zenon
<1>11. /\ s2c' \in Seq(ServerMessage) /\ Len(s2c') <= SockCap
       /\ wbuf' \in Seq(ServerMessage) /\ Len(wbuf') <= WBufCap
       /\ Outgoing' = out \/ (key # 0 /\ Outgoing' = Append(out, ok))
       /\ key # 0 => ~send
       /\ session' = "AwaitingCommand" => wbuf' = <<>>
       /\ session' \in {session, "AwaitingCommand", "closed"}
  <2>1. Fits(w) => Len(out) <= SockCap
    BY <1>9 DEF Fits
  <2>2. /\ Append(out, ok) \in Seq(ServerMessage) /\ Len(Append(out, ok)) = Len(out) + 1
        /\ Append(out, ok) \o <<>> = Append(out, ok) /\ out \o <<>> = out
        /\ <<>> \in Seq(ServerMessage) /\ Len(<<>>) = 0 /\ Len(out) \in Nat
    <3> HIDE DEF out
    <3>1. Append(out, ok) \in Seq(ServerMessage) /\ Len(Append(out, ok)) = Len(out) + 1
      BY <1>7, <1>9, AppendProperties
    <3> QED
      BY <1>9, <3>1, ConcatEmptySeq, EmptySeq, LenProperties
  <2>3. Len(out) < SockCap => Len(out) + 1 <= SockCap
    BY <1>3, <2>2
  <2>4. 0 <= WBufCap
    BY <1>3
  <2>5. key # 0 => ~send
    BY <1>8
  <2> HIDE DEF out
  <2>6. CASE ~Fits(w) /\ Flush(w) /\ UNCHANGED session
    BY <1>1, <1>10, <2>5, <2>6 DEF LoggingIn
  <2>7. CASE Fits(w) /\ wbuf' = <<>> /\ s2c' = out /\ session' \in {session, "closed"}
    BY <1>1, <1>9, <2>1, <2>2, <2>4, <2>5, <2>7 DEF Outgoing, LoggingIn
  <2>8. CASE /\ Fits(w) /\ wbuf' = <<>> /\ key # 0 /\ s2c' = Append(out, ok)
             /\ Len(out) < SockCap /\ session' = "AwaitingCommand"
    BY <1>1, <2>2, <2>3, <2>4, <2>5, <2>8 DEF Outgoing
  <2> QED
    BY <1>2, <2>6, <2>7, <2>8
<1>12. /\ LoggingIn' => cl_buf' = left
       /\ cl_buf' = left \/ cl_buf' = <<>>
  BY <1>2 DEF LoggingIn
<1>13. Typed' = Typed /\ ssh_buf' \in Seq(1..TypeCap) /\ got' \in Seq(1..TypeCap)
  <2> DEFINE a == SubSeq(ssh_buf, 1, j)
             b == SubSeq(ssh_buf, j + 1, Len(ssh_buf))
             x == Text(Incoming)
  <2>1. /\ got \in Seq(Nat) /\ ssh_buf \in Seq(Nat) /\ x \in Seq(Nat)
        /\ Text(Incoming)' = x
    BY <1>0, <1>1, StateTypes DEF Incoming, clientVars
  <2>2. got \in Seq(1..TypeCap) /\ ssh_buf \in Seq(1..TypeCap)
    BY <1>0 DEF ConversationTypeOK
  <2>3. j \in 0..Len(ssh_buf)
    BY <1>1, <2>2
  <2>4. a \in Seq(1..TypeCap) /\ b \in Seq(1..TypeCap)
    BY <2>2, <2>3, WriteKeeps
  <2>5. a \in Seq(Nat) /\ b \in Seq(Nat) /\ Join(a, b) = ssh_buf
    BY <2>1, <2>3, WriteKeeps
  <2>6. got' = Join(got, a) /\ ssh_buf' = b
    BY <1>1 DEF Join
  <2>7. Typed' = Join(Join(got, a), Join(b, x)) /\ Typed = Join(got, Join(Join(a, b), x))
    BY <2>1, <2>5, <2>6 DEF Typed
  <2> HIDE DEF a, b, x
  <2>8. Join(Join(got, a), Join(b, x)) = Join(got, Join(Join(a, b), x))
    <3>1. Join(b, x) \in Seq(Nat) /\ Join(Join(a, b), x) = Join(a, Join(b, x))
      BY <2>1, <2>5, JoinFacts
    <3> QED
      BY <2>1, <2>5, <3>1, JoinFacts
  <2>9. Join(got, a) \in Seq(1..TypeCap)
    BY <2>2, <2>4, ConcatProperties DEF Join
  <2> QED
    BY <2>4, <2>6, <2>7, <2>8, <2>9
<1>14. ConversationTypeOK'
  <2>1. cl_buf' \in Seq(1..TextCap)
    BY <1>5, <1>8, <1>12, EmptySeq
  <2>2. printed' \in 0..TextCap /\ marker' \in 0..printed'
    <3>1. n \in 0..TextCap /\ key \in 0..n
      BY <1>3, <1>5
    <3> QED
      BY <1>1, <3>1
  <2>3. Len(wbuf') <= WBufCap + 1
    <3>1. Len(wbuf') \in Nat
      BY <1>11, LenProperties
    <3> QED
      BY <1>3, <1>11, <3>1
  <2>4. session' \in {"AwaitingCommand", "CommunicatingForOpen", "Aborting", "closed"}
    BY <1>1, <1>11 DEF LoggingIn
  <2> QED
    BY <1>0, <1>1, <1>11, <1>13, <2>1, <2>2, <2>3, <2>4
    DEF ConversationTypeOK, clientVars, ClientMessage, ServerMessage, Request, Ended
<1>23. Incoming' = Incoming /\ RegistryInv' /\ Waiting' = Waiting
  BY <1>0, <1>1 DEF Incoming, RegistryInv, Waiting, clientVars
<1>15. RequestInv'
  <2>1. cl # "Issue" /\ ~Fresh
    BY <1>0, <1>1 DEF RequestInv, Fresh, LoggingIn
  <2> QED
    BY <1>0, <1>1, <1>23, <2>1 DEF RequestInv, clientVars
<1>16. ClientInv'
  BY <1>0, <1>1 DEF ClientInv, Following, clientVars
<1>17. SessionInv'
  BY <1>0, <1>1, <1>11 DEF SessionInv, LoggingIn
<1>18. \A i \in 1..Len(Outgoing)' :
         \/ i \in 1..Len(Outgoing) /\ Outgoing'[i] = Outgoing[i]
         \/ key = 0 /\ Outgoing'[i] = data
         \/ key # 0 /\ Outgoing'[i] = ok
  <2>1. Outgoing \in Seq(ServerMessage) /\ Len(Outgoing) \in Nat
    BY <1>0, StateTypes, LenProperties
  <2>2. CASE Outgoing' = Outgoing
    BY <2>2
  <2>3. CASE key = 0 /\ Outgoing' = Append(Outgoing, data)
    <3>1. /\ Len(Outgoing') = Len(Outgoing) + 1
          /\ \A i \in 1..Len(Outgoing) : Outgoing'[i] = Outgoing[i]
          /\ Outgoing'[Len(Outgoing) + 1] = data
      BY <1>6, <2>1, <2>3, AppendProperties
    <3> QED
      BY <2>1, <2>3, <3>1
  <2>4. CASE key # 0 /\ Outgoing' = Append(Outgoing, ok)
    <3>1. /\ Len(Outgoing') = Len(Outgoing) + 1
          /\ \A i \in 1..Len(Outgoing) : Outgoing'[i] = Outgoing[i]
          /\ Outgoing'[Len(Outgoing) + 1] = ok
      BY <1>7, <2>1, <2>4, AppendProperties
    <3> QED
      BY <2>1, <2>4, <3>1
  <2> HIDE DEF out
  <2> QED
    BY <1>8, <1>9, <1>11, <2>2, <2>3, <2>4
<1> HIDE DEF out
<1>19. DataInv'
  BY <1>0, <1>6, <1>7, <1>18, <1>23 DEF DataInv
<1>20. AnswerInv'
  <2>1. (Waiting => \A i \in 1..Len(Outgoing) : IsTrue(Outgoing[i].type))'
    BY <1>0, <1>1, <1>6, <1>7, <1>18, <1>23 DEF AnswerInv, IsTrue, SessionInv
  <2>2. \A i \in 2..Len(Outgoing)' :
         \/ i \in 2..Len(Outgoing) /\ Outgoing'[i] = Outgoing[i]
         \/ key = 0 /\ Outgoing'[i] = data
         \/ key # 0 /\ Outgoing'[i] = ok
    BY <1>18
  <2>3. marker # 0 => key # 0
    BY <1>3, <1>5
  <2>4. cmd' = "open" /\ marker' = 0 => OneOk(Outgoing)'
    BY <1>0, <1>1, <1>6, <1>18, <2>2, <2>3 DEF AnswerInv, OneOk, clientVars
  <2>5. AnswerIsTrue'
    BY <1>0, <1>1, <2>3 DEF AnswerInv, AnswerIsTrue, clientVars
  <2> QED
    BY <2>1, <2>4, <2>5 DEF AnswerInv
<1>21. TypedInv'
  BY <1>0, <1>1, <1>13 DEF TypedInv, clientVars
<1>22. PrintedInv'
  <2> DEFINE t   == Text(Outgoing)
             u   == Text(out)
             new == After(printed, k)
             all == Join(Seen, Join(u, left))
  <2>1. /\ Seen \in Seq(Nat) /\ t \in Seq(Nat) /\ cl_buf \in Seq(Nat) /\ Seen' = Seen
        /\ Join(t, cl_buf) \in Seq(Nat) /\ Printed \in Seq(Nat)
    BY <1>0, <1>1, StateTypes DEF Seen, clientVars
  <2>2. /\ new \in Seq(Nat) /\ Join(UpTo(printed), new) = UpTo(n)
        /\ \A a \in Seq(Nat) : InOrderUpTo(a, printed) => InOrderUpTo(Join(a, new), n)
    BY <1>3, <1>5, JoinAfter
  <2>3. out \in Seq(AnyMessage) /\ Outgoing \in Seq(AnyMessage) /\ data \in AnyMessage
        /\ ok \in AnyMessage /\ left \in Seq(Nat) /\ buf \in Seq(Nat)
    <3>1. buf \in Seq(Nat)
      BY <1>5, <2>1, <2>2, JoinFacts
    <3>2. out \in Seq(AnyMessage)
      BY <1>9, SomeMessage, SeqMonotonic
    <3>3. Outgoing \in Seq(AnyMessage)
      BY <1>0, StateTypes
    <3> QED
      BY <1>6, <1>7, <1>8, <3>1, <3>2, <3>3, SomeMessage, JoinFacts
  <2>4. u \in Seq(Nat)
    BY <2>3, TextType
  <2>5. Text(Outgoing)' = u
    <3>1. Text(Append(out, ok)) = Join(Text(out), <<>>)
      BY <1>7, <2>3, TextAppend
    <3>2. Join(Text(out), <<>>) = Text(out)
      BY <2>4, JoinFacts
    <3> QED
      BY <1>11, <3>1, <3>2
  <2>6. Join(u, left) = Join(t, buf) /\ (~send => u = t)
    <3>1. CASE send
      <4>1. u = Join(t, buf)
        BY <1>6, <1>9, <2>3, <3>1, TextAppend
      <4> HIDE DEF t, u
      <4> QED
        BY <1>8, <2>4, <3>1, <4>1, JoinFacts
    <3>2. CASE ~send
      BY <1>8, <1>9, <3>2
    <3> QED
      BY <3>1, <3>2
  <2>7. Printed = Join(Seen, Join(t, cl_buf)) /\ Printed' = Join(Seen, Join(u, cl_buf'))
    BY <2>1, <2>5 DEF Printed
  <2> HIDE DEF t, u, new
  <2>8. all = Join(Printed, new)
    <3>1. Join(t, Join(cl_buf, new)) = Join(Join(t, cl_buf), new)
      BY <2>1, <2>2, JoinFacts
    <3>2. Join(Seen, Join(Join(t, cl_buf), new)) = Join(Join(Seen, Join(t, cl_buf)), new)
      BY <2>1, <2>2, JoinFacts
    <3> QED
      BY <1>5, <2>6, <2>7, <3>1, <3>2 DEF new
  <2>9. InOrderUpTo(all, n) /\ n \in Nat
    BY <1>0, <1>3, <1>5, <2>1, <2>2, <2>8 DEF PrintedInv
  <2>10. InOrderUpTo(Printed', printed')
    <3>1. InOrderUpTo(Join(Seen, u), n)
      BY <2>1, <2>3, <2>4, <2>9, JoinDrop
    <3>2. Join(u, <<>>) = u
      BY <2>4, JoinFacts
    <3> QED
      BY <1>1, <1>12, <2>7, <2>9, <3>1, <3>2
  <2>11. marker' # 0 => marker' \notin Range(Join(Seen, Text(Outgoing)))'
    <3> SUFFICES ASSUME key # 0 PROVE key \notin Range(Join(Seen, t))
      BY <1>1, <1>11, <2>1, <2>5, <2>6
    <3>1. CASE key = marker
      BY <1>0, <3>1 DEF PrintedInv, t
    <3>2. CASE key = n /\ key > printed
      <4>1. InOrderUpTo(Join(Seen, t), printed) /\ Join(Seen, t) \in Seq(Nat)
        BY <1>0, <1>3, <2>1, <2>7, JoinDrop, JoinFacts DEF PrintedInv
      <4> QED
        BY <1>3, <2>9, <3>2, <4>1, NotYet
    <3> QED
      BY <1>5, <3>1, <3>2
  <2>12. LoggingIn' /\ Following' /\ "SshData" \notin lost' => Printed' = UpTo(printed')
    <3> SUFFICES ASSUME LoggingIn', Following', "SshData" \notin lost'
                 PROVE  Printed' = UpTo(printed')
      OBVIOUS
    <3>1. LoggingIn /\ Following /\ "SshData" \notin lost /\ cl_buf' = left
      BY <1>1, <1>12 DEF Following, clientVars
    <3>2. Printed = UpTo(printed)
      BY <1>0, <3>1 DEF PrintedInv
    <3> QED
      BY <1>1, <2>2, <2>7, <2>8, <3>1, <3>2
  <2> QED
    BY <2>10, <2>11, <2>12 DEF PrintedInv
<1> QED
  BY <1>14, <1>15, <1>16, <1>17, <1>19, <1>20, <1>21, <1>22, <1>23
  DEF ConversationInv
-----------------------------------------------------------------------------
(***************************************************************************)
(* Every action is a step of one of these kinds.                           *)
(***************************************************************************)

\* A step of the client or of its user keeps the invariant.
LEMMA ClientStepInv ==
  ASSUME ConversationInv, ClientStep \/ ClientReadsTorn \/ ClientKilled \/ UserTypes
  PROVE  ConversationInv'
<1>1. ConversationTypeOK /\ ClientInv
  BY DEF ConversationInv
<1>2. typed \in 0..TypeCap /\ sent \in 0..typed /\ TypeCap \in Nat
  BY <1>1, ConversationAssumption DEF ConversationTypeOK
<1> USE DEF ClientMoves, ClientUnchanged, ClientFails, ClientFinds, socketVars, clientVars, Ended
<1>3. CASE Issue
  <2>1. CASE session = "closed" /\ ClientFails /\ UNCHANGED <<socketVars, held>>
    <3>1. ClientMoves
      BY <1>2, <2>1, <1>3 DEF Issue, sessionVars
    <3> QED
      BY <3>1, ClientMovesInv
  <2>2. CASE /\ ClientSends(Msg(Request[cmd])) /\ held' = {entry}
             /\ cl' = IF cmd = "open" THEN "FirstAck" ELSE "Await"
             /\ UNCHANGED <<saw_ok, result, user_buf, shown, sent, tx_buf>>
    <3> DEFINE m == Msg(Request[cmd])
    <3>1. m \in ClientMessage /\ m.type = Request[cmd] /\ m.text = <<>> /\ m.type # "UserData"
      BY <1>1, MessageTypes DEF ConversationTypeOK, Request
    <3>2. sent' = sent /\ sent' \in sent..typed /\ m.text = [i \in 1..(sent' - sent) |-> sent + i]
      BY <1>2, <2>2, <3>1
    <3>3. c2s' = Append(c2s, m) /\ UNCHANGED <<s2c, lost>>
      BY <2>2 DEF ClientSends
    <3> HIDE DEF m
    <3>5. /\ Incoming' = Append(Incoming, m) /\ c2s' \in Seq(ClientMessage)
          /\ tx_buf' \in Seq(ClientMessage) /\ Len(tx_buf') <= WBufCap
      <4>1. /\ c2s = <<>> /\ tx_buf = <<>> /\ tx_buf' = <<>> /\ <<>> \in Seq(ClientMessage)
            /\ Len(<<>>) = 0 /\ 0 <= WBufCap
        BY <1>3, <2>2, ConversationAssumption, EmptySeq
        DEF ConversationInv, RequestInv, Fresh, Issue
      <4>2. c2s' = Append(<<>>, m) /\ Append(<<>>, m) \in Seq(ClientMessage)
        BY <3>1, <3>3, <4>1, AppendProperties
      <4>3. Append(<<>>, m) \o <<>> = Append(<<>>, m) /\ <<>> \o <<>> = <<>>
        BY <4>1, <4>2, ConcatEmptySeq
      <4>4. Incoming' = Append(Incoming, m)
        BY <4>1, <4>2, <4>3, Zenon DEF Incoming
      <4> QED
        BY <4>1, <4>2, <4>4
    <3>4. ClientSendsNew(m)
      BY <1>3, <2>2, <3>1, <3>2, <3>3, <3>5 DEF ClientSendsNew, Issue
    <3> QED
      BY <3>4, ClientSendsInv
  <2> QED
    BY <1>3, <2>1, <2>2 DEF Issue
<1>4. CASE FirstAckRead
  <2>1. ClientReadsFrame
    BY <1>4 DEF FirstAckRead, ClientReads, ClientReadsFrame
  <2> QED
    BY <2>1, ClientReadsInv
<1>5. CASE FirstAckEof \/ CommReset \/ AwaitEof \/ ClientKilled
  <2>1. ClientMoves
    BY <1>2, <1>5 DEF FirstAckEof, CommReset, AwaitEof, ClientKilled
  <2> QED
    BY <2>1, ClientMovesInv
<1>6. CASE FirstAckDone \/ CommReadDone
  <2>1. ClientMoves
    BY <1>1, <1>2, <1>6 DEF FirstAckDone, CommReadDone, Following, ClientInv
  <2> QED
    BY <2>1, ClientMovesInv
<1>7. CASE CommRead
  <2>1. ClientReadsFrame
    BY <1>7 DEF CommRead, ClientReads, ClientReadsFrame
  <2> QED
    BY <2>1, ClientReadsInv
<1>8. CASE CommUser
  <2> DEFINE n == IF Len(tx_buf) < WBufCap THEN typed ELSE sent
             m == Data("UserData", [i \in 1..(n - sent) |-> sent + i])
             w == IF n > sent THEN Append(tx_buf, m) ELSE tx_buf
  <2>1. /\ cl = "Relaying" /\ sent' = n
        /\ \/ UNCHANGED <<user_buf, shown>>
           \/ shown' = shown \o user_buf /\ user_buf' = <<>>
        /\ cl' \in {"Communicating", "failed"}
        /\ \/ tx_buf' = w /\ UNCHANGED c2s
           \/ \E k \in 1..Len(w) :
                c2s' = c2s \o SubSeq(w, 1, k) /\ tx_buf' = SubSeq(w, k + 1, Len(w))
        /\ UNCHANGED <<cmd, typed, saw_ok, result, s2c, lost, loginVars, sessionVars>>
    BY <1>8 DEF CommUser
  <2>2. /\ tx_buf \in Seq(ClientMessage) /\ Len(tx_buf) \in Nat /\ Len(tx_buf) <= WBufCap
        /\ c2s \in Seq(ClientMessage) /\ WBufCap \in Nat
    BY <1>1, ConversationAssumption, LenProperties DEF ConversationTypeOK
  <2>3. n \in sent..typed /\ (n > sent => Len(tx_buf) < WBufCap) /\ (~(n > sent) => n = sent)
    BY <1>2, <2>2
  <2> HIDE DEF n
  <2>4. [i \in 1..(n - sent) |-> sent + i] \in Seq(1..TypeCap)
    BY <1>2, <2>3
  <2>5. /\ m \in ClientMessage /\ m.type = "UserData"
        /\ m.text = [i \in 1..(n - sent) |-> sent + i]
    BY <2>4, MessageTypes
  <2> HIDE DEF m
  <2>6. w \in Seq(ClientMessage) /\ Len(w) \in Nat /\ Len(w) <= WBufCap
    <3>1. CASE n > sent
      <4>1. w = Append(tx_buf, m) /\ Len(Append(tx_buf, m)) = Len(tx_buf) + 1
            /\ Append(tx_buf, m) \in Seq(ClientMessage)
        BY <2>2, <2>5, <3>1, AppendProperties
      <4> QED
        BY <2>2, <2>3, <3>1, <4>1
    <3>2. CASE ~(n > sent)
      BY <2>2, <3>2
    <3> QED
      BY <3>1, <3>2
  <2>7. \/ c2s \o w = Append(Incoming, m)
        \/ c2s \o w = Incoming /\ sent' = sent
    <3>1. c2s \o Append(tx_buf, m) = Append(c2s \o tx_buf, m)
      BY <2>2, <2>5
    <3>2. CASE n > sent
      BY <3>1, <3>2, Zenon DEF Incoming
    <3>3. CASE ~(n > sent)
      BY <2>1, <2>3, <3>3, Zenon DEF Incoming
    <3> QED
      BY <3>2, <3>3
  <2> HIDE DEF w
  <2>8. /\ Incoming' = c2s \o w
        /\ c2s' \in Seq(ClientMessage) /\ tx_buf' \in Seq(ClientMessage) /\ Len(tx_buf') <= WBufCap
    <3>1. CASE tx_buf' = w /\ UNCHANGED c2s
      BY <2>2, <2>6, <3>1 DEF Incoming
    <3>2. CASE \E k \in 1..Len(w) :
                 c2s' = c2s \o SubSeq(w, 1, k) /\ tx_buf' = SubSeq(w, k + 1, Len(w))
      <4>1. PICK k \in 1..Len(w) :
              c2s' = c2s \o SubSeq(w, 1, k) /\ tx_buf' = SubSeq(w, k + 1, Len(w))
        BY <3>2
      <4>2. k \in 0..Len(w) /\ Len(w) - k <= WBufCap
        BY <2>2, <2>6
      <4>3. /\ SubSeq(w, 1, k) \in Seq(ClientMessage)
            /\ SubSeq(w, k + 1, Len(w)) \in Seq(ClientMessage)
            /\ Len(SubSeq(w, k + 1, Len(w))) = Len(w) - k
            /\ Join(Join(c2s, SubSeq(w, 1, k)), SubSeq(w, k + 1, Len(w))) = Join(c2s, w)
        <5> DEFINE M == ClientMessage
        <5>1. c2s \in Seq(M) /\ w \in Seq(M)
          BY <2>2, <2>6
        <5> HIDE DEF M
        <5>2. /\ SubSeq(w, 1, k) \in Seq(M) /\ SubSeq(w, k + 1, Len(w)) \in Seq(M)
              /\ Len(SubSeq(w, k + 1, Len(w))) = Len(w) - k
              /\ Join(Join(c2s, SubSeq(w, 1, k)), SubSeq(w, k + 1, Len(w))) = Join(c2s, w)
          BY <4>2, <5>1, WriteKeeps
        <5> QED
          BY <5>2 DEF M
      <4>4. Incoming' = c2s \o w
        BY <4>1, <4>3, Zenon DEF Incoming, Join
      <4>5. c2s \o SubSeq(w, 1, k) \in Seq(ClientMessage)
        BY <2>2, <4>3, ConcatProperties
      <4> QED
        BY <4>1, <4>2, <4>3, <4>4, <4>5
    <3> QED
      BY <2>1, <3>1, <3>2
  <2>9. ClientSendsNew(m)
    BY <2>1, <2>3, <2>5, <2>7, <2>8 DEF ClientSendsNew, sessionVars
  <2> QED
    BY <2>9, ClientSendsInv
<1>9. CASE AwaitRead
  <2>1. ClientReadsFrame
    BY <1>9 DEF AwaitRead, ClientReads, ClientReadsFrame
  <2> QED
    BY <2>1, ClientReadsInv
<1>10. CASE Close
  <2>1. CASE ClientFails /\ UNCHANGED socketVars /\ ClientUnchanged
    <3>1. ClientMoves
      BY <1>2, <1>10, <2>1 DEF Close
    <3> QED
      BY <3>1, ClientMovesInv
  <2>2. CASE /\ c2s' = c2s \o Append(tx_buf, Msg("Goodbye")) /\ tx_buf' = <<>>
             /\ cl' = "done" /\ ClientUnchanged
             /\ UNCHANGED <<saw_ok, result, user_buf, shown, sent, s2c, lost>>
    <3> DEFINE m == Msg("Goodbye")
    <3>1. m \in ClientMessage /\ m.type = "Goodbye" /\ m.text = <<>>
      BY MessageTypes
    <3>2. sent' = sent /\ sent' \in sent..typed /\ m.text = [i \in 1..(sent' - sent) |-> sent + i]
      BY <1>2, <2>2, <3>1
    <3>3. c2s' = c2s \o Append(tx_buf, m) /\ tx_buf' = <<>>
      BY <2>2
    <3> HIDE DEF m
    <3>4. c2s \in Seq(ClientMessage) /\ tx_buf \in Seq(ClientMessage)
      BY <1>1 DEF ConversationTypeOK
    <3>5. /\ Append(tx_buf, m) \in Seq(ClientMessage) /\ <<>> \in Seq(ClientMessage)
          /\ Len(<<>>) = 0 /\ 0 <= WBufCap
      BY <3>1, <3>4, AppendProperties, EmptySeq, ConversationAssumption
    <3>6. c2s' \in Seq(ClientMessage) /\ c2s' \o <<>> = c2s'
      BY <3>3, <3>4, <3>5, ConcatProperties, ConcatEmptySeq
    <3>7. c2s \o Append(tx_buf, m) = Append(c2s \o tx_buf, m)
      BY <3>1, <3>4
    <3>8. Incoming' = Append(Incoming, m)
      BY <3>3, <3>6, <3>7, Zenon DEF Incoming
    <3>9. ClientSendsNew(m)
      BY <1>10, <2>2, <3>1, <3>2, <3>3, <3>5, <3>6, <3>8 DEF ClientSendsNew, Close, sessionVars
    <3> QED
      BY <3>9, ClientSendsInv
  <2> QED
    BY <1>10, <2>1, <2>2 DEF Close
<1>11. CASE ClientReadsTorn
  <2>1. s2c # <<>>
    BY <1>11 DEF ClientReadsTorn, Torn
  <2>2. ClientReadsFrame
    BY <1>11, <2>1 DEF ClientReadsTorn, ClientReadsFrame
  <2> QED
    BY <2>2, ClientReadsInv
<1>12. CASE UserTypes
  <2>1. ClientMoves
    BY <1>2, <1>12 DEF UserTypes
  <2> QED
    BY <2>1, ClientMovesInv
<1> QED
  BY <1>3, <1>4, <1>5, <1>6, <1>7, <1>8, <1>9, <1>10, <1>11, <1>12 DEF ClientStep

\* A frame that begins with a request is the request, and nothing was done yet.
LEMMA RequestRead ==
  ASSUME ConversationInv, NEW c \in DOMAIN Request, Receives(Request[c])
  PROVE  /\ Fresh /\ cmd = c /\ cl # "Issue" /\ session = "AwaitingCommand" /\ c2s' = <<>>
         /\ ssh = "none" /\ wbuf = <<>> /\ s2c = <<>>
<1>1. c2s \in Seq(ClientMessage) /\ c2s # <<>> /\ c2s[1].type = Request[c] /\ Len(c2s) \in Nat
  BY DEF ConversationInv, ConversationTypeOK, Receives, SessionReads
<1>2. 1 \in 1..Len(Incoming) /\ Incoming[1] = c2s[1]
  BY <1>1, IncomingElements DEF ConversationInv
<1>3. Request[c] \notin {"UserData", "Goodbye"}
  BY DEF Request
<1>4. Fresh /\ Request[c] = Request[cmd] /\ cmd \in DOMAIN Request /\ cl # "Issue"
  BY <1>1, <1>2, <1>3 DEF ConversationInv, ConversationTypeOK, RequestInv
<1>5. cmd = c
  BY <1>4 DEF Request
<1> QED
  BY <1>4, <1>5 DEF Receives, SessionReads, Fresh

\* A reply to a request, when nothing was written before.
LEMMA ReplyFresh ==
  ASSUME Fresh, NEW m, Reply(s2c, m)
  PROVE  \/ s2c' = <<m>> /\ session' = "AwaitingCommand"
         \/ s2c' = <<>> /\ session' = "closed"
BY DEF Fresh, Reply

\* A step of the session, of SSH or of whoever kills the daemon keeps the
\* invariant.
LEMMA SessionStepInv ==
  ASSUME ConversationInv,
         \/ SessionStep \/ PtyTakes \/ CommPtyFails
         \/ \E k \in 0..TypeCap : CommPoll("some", k) \/ CommPoll("key", k)
         \/ SshLogin \/ SshDies \/ EntryChanges \/ DaemonDies
  PROVE  ConversationInv'
<1>1. ConversationTypeOK /\ SessionInv /\ RegistryInv
  BY DEF ConversationInv
<1>2. /\ entry \in TunnelState /\ held \subseteq TunnelState
      /\ exit_on_close \in BOOLEAN /\ up \in BOOLEAN /\ silent \in BOOLEAN
      /\ ssh \in {"none", "login", "online", "dead"}
      /\ "Absent" \in TunnelState /\ "Running" \in TunnelState
      /\ \A e \in TunnelState : e \in {"Absent", "Running", "Broken"}
  BY <1>1 DEF ConversationTypeOK, TunnelState
<1>15. Waiting /\ ssh = "none" => entry \in held
  BY <1>1 DEF RegistryInv
<1> USE DEF SessionUnchanged
<1>3. CASE RecvOpen
  <2>1. /\ Fresh /\ cmd = "open" /\ cl # "Issue" /\ session = "AwaitingCommand" /\ c2s' = <<>>
        /\ ssh = "none" /\ wbuf = <<>> /\ s2c = <<>>
    <3>1. "open" \in DOMAIN Request /\ Receives(Request["open"])
      BY <1>3 DEF RecvOpen, Request
    <3> QED
      BY <3>1, RequestRead
  <2>2. /\ UNCHANGED <<cmd, typed, clientVars, printed, marker, cl_buf, ssh_buf, got, up,
                       exit_on_close, silent>>
    BY <1>3 DEF RecvOpen
  <2>3. CASE /\ entry # "Absent" /\ Reply(s2c, Msg("TunnelAlreadyOpen"))
             /\ UNCHANGED <<wbuf, registryVars, ssh>>
    <3> DEFINE m == Msg("TunnelAlreadyOpen")
    <3>1. m \in ServerMessage /\ m.type = "TunnelAlreadyOpen" /\ m.text = <<>>
      BY MessageTypes
    <3>2. \/ s2c' = <<m>> /\ session' = "AwaitingCommand"
          \/ s2c' = <<>> /\ session' = "closed"
      BY <2>1, <2>3, ReplyFresh
    <3> HIDE DEF m
    <3>3. SessionAnswers(m)
      BY <1>2, <1>15, <2>1, <2>2, <2>3, <3>1, <3>2 DEF SessionAnswers, IsTrue, LoggingIn
    <3> QED
      BY <3>3, SessionAnswersInv
  <2>4. CASE /\ session' = "CommunicatingForOpen" /\ wbuf' = Append(wbuf, Msg("Ok"))
             /\ entry' = "Running" /\ held' = {} /\ ssh' = "login" /\ UNCHANGED s2c
    <3> DEFINE m == Msg("Ok")
    <3>1. m \in ServerMessage /\ m.type = "Ok" /\ m.text = <<>>
      BY MessageTypes
    <3>2. wbuf' = <<m>>
      BY <2>1, <2>4
    <3> HIDE DEF m
    <3>3. SessionAnswers(m)
      BY <1>2, <2>1, <2>2, <2>4, <3>1, <3>2 DEF SessionAnswers, IsTrue, LoggingIn
    <3> QED
      BY <3>3, SessionAnswersInv
  <2>5. CASE Abort /\ UNCHANGED <<registryVars, ssh>>
    <3> DEFINE m == Msg("Error")
    <3>1. m \in ServerMessage /\ m.type = "Error" /\ m.text = <<>>
      BY MessageTypes
    <3>2. wbuf' = <<m>> /\ s2c' = <<>> /\ session' = "Aborting"
      BY <2>1, <2>5 DEF Abort
    <3> HIDE DEF m
    <3>3. SessionAnswers(m)
      BY <1>2, <1>15, <2>1, <2>2, <2>5, <3>1, <3>2 DEF SessionAnswers, IsTrue, LoggingIn
    <3> QED
      BY <3>3, SessionAnswersInv
  <2> QED
    BY <1>3, <2>3, <2>4, <2>5 DEF RecvOpen
<1>4. CASE RecvClose
  <2>1. /\ Fresh /\ cmd = "close" /\ cl # "Issue" /\ session = "AwaitingCommand" /\ c2s' = <<>>
        /\ ssh = "none" /\ wbuf = <<>> /\ s2c = <<>>
    <3>1. "close" \in DOMAIN Request /\ Receives(Request["close"])
      BY <1>4 DEF RecvClose, Request
    <3> QED
      BY <3>1, RequestRead
  <2>2. /\ UNCHANGED <<cmd, typed, clientVars, printed, marker, cl_buf, ssh_buf, got, up,
                       exit_on_close, silent, ssh>>
        /\ entry' = "Absent"
        /\ held' \subseteq TunnelState
        /\ Waiting => held' = held \cup {"Absent"} /\ entry \in held
    BY <1>2, <1>4, <1>15, <2>1 DEF RecvClose, loginVars, EntryBecomes, Waiting
  <2>3. ASSUME NEW t \in {"Ok", "TunnelNotOpen"}, Reply(s2c, Msg(t)), UNCHANGED wbuf,
               t = "Ok" => entry = "Running"
        PROVE  ConversationInv'
    <3> DEFINE m == Msg(t)
    <3>1. m \in ServerMessage /\ m.type = t /\ m.text = <<>>
      BY MessageTypes
    <3>2. \/ s2c' = <<m>> /\ session' = "AwaitingCommand"
          \/ s2c' = <<>> /\ session' = "closed"
      BY <2>1, <2>3, ReplyFresh
    <3> HIDE DEF m
    <3>3. SessionAnswers(m)
      BY <1>2, <2>1, <2>2, <2>3, <3>1, <3>2 DEF SessionAnswers, IsTrue, LoggingIn
    <3> QED
      BY <3>3, SessionAnswersInv
  <2>4. CASE Abort
    <3> DEFINE m == Msg("Error")
    <3>1. m \in ServerMessage /\ m.type = "Error" /\ m.text = <<>>
      BY MessageTypes
    <3>2. wbuf' = <<m>> /\ s2c' = <<>> /\ session' = "Aborting"
      BY <2>1, <2>4 DEF Abort
    <3> HIDE DEF m
    <3>3. SessionAnswers(m)
      BY <1>2, <2>1, <2>2, <2>4, <3>1, <3>2 DEF SessionAnswers, IsTrue, LoggingIn
    <3> QED
      BY <3>3, SessionAnswersInv
  <2> QED
    BY <1>4, <2>3, <2>4 DEF RecvClose
<1>5. CASE RecvQueryStatus
  <2> DEFINE m == Msg("StatusResponse")
  <2>1. /\ Fresh /\ cmd = "status" /\ cl # "Issue" /\ session = "AwaitingCommand" /\ c2s' = <<>>
        /\ ssh = "none" /\ wbuf = <<>> /\ s2c = <<>>
    <3>1. "status" \in DOMAIN Request /\ Receives(Request["status"])
      BY <1>5 DEF RecvQueryStatus, Request
    <3> QED
      BY <3>1, RequestRead
  <2>2. /\ UNCHANGED <<cmd, typed, clientVars, printed, marker, cl_buf, ssh_buf, got, up,
                       exit_on_close, silent, ssh, wbuf, registryVars>>
        /\ Reply(s2c, m)
    BY <1>5 DEF RecvQueryStatus, loginVars
  <2>3. m \in ServerMessage /\ m.type = "StatusResponse" /\ m.text = <<>>
    BY MessageTypes
  <2> HIDE DEF m
  <2>4. \/ s2c' = <<m>> /\ session' = "AwaitingCommand"
        \/ s2c' = <<>> /\ session' = "closed"
    BY <2>1, <2>2, ReplyFresh
  <2>5. SessionAnswers(m)
    BY <1>2, <1>15, <2>1, <2>2, <2>3, <2>4 DEF SessionAnswers, IsTrue, LoggingIn
  <2> QED
    BY <2>5, SessionAnswersInv
<1>6. CASE RecvExit
  <2> DEFINE m == Msg("Ok")
  <2>1. /\ Fresh /\ cmd = "exit" /\ cl # "Issue" /\ session = "AwaitingCommand" /\ c2s' = <<>>
        /\ ssh = "none" /\ wbuf = <<>> /\ s2c = <<>>
    <3>1. "exit" \in DOMAIN Request /\ Receives(Request["exit"])
      BY <1>6 DEF RecvExit, Request
    <3> QED
      BY <3>1, RequestRead
  <2>2. /\ UNCHANGED <<cmd, typed, clientVars, printed, marker, cl_buf, ssh_buf, got, up,
                       silent, ssh, wbuf, registryVars>>
        /\ exit_on_close' = TRUE /\ Reply(s2c, m)
    BY <1>6 DEF RecvExit, loginVars
  <2>3. m \in ServerMessage /\ m.type = "Ok" /\ m.text = <<>>
    BY MessageTypes
  <2> HIDE DEF m
  <2>4. \/ s2c' = <<m>> /\ session' = "AwaitingCommand"
        \/ s2c' = <<>> /\ session' = "closed"
    BY <2>1, <2>2, ReplyFresh
  <2>5. SessionAnswers(m)
    BY <1>2, <1>15, <2>1, <2>2, <2>3, <2>4 DEF SessionAnswers, IsTrue, LoggingIn
  <2> QED
    BY <2>5, SessionAnswersInv
<1>7. CASE RecvGoodbye \/ RecvEof
  <2>1. SessionMoves
    BY <1>2, <1>7 DEF RecvGoodbye, RecvEof, Receives, SessionReads, Finish, SessionMoves, loginVars
  <2> QED
    BY <2>1, SessionMovesInv
<1>8. CASE RecvFails
  <2>1. SessionMoves
    BY <1>2, <1>8 DEF RecvFails, Receives, SessionReads, SessionMoves, loginVars
  <2> QED
    BY <2>1, SessionMovesInv
<1>9. CASE CommUserData
  BY <1>9, CommUserDataInv
<1>10. CASE CommFails
  <2>1. SessionMoves
    BY <1>1, <1>2, <1>10 DEF CommFails, SessionMoves, SessionInv
  <2> QED
    BY <2>1, SessionMovesInv
<1>11. CASE CommSshEof
  <2>1. SessionMoves
    BY <1>2, <1>11 DEF CommSshEof, SessionMoves, loginVars
  <2> QED
    BY <2>1, SessionMovesInv
<1>12. CASE \/ CommPoll("none", 0) \/ PtyTakes
            \/ \E k \in 0..TypeCap : CommPoll("some", k) \/ CommPoll("key", k)
  <2>1. PICK text \in {"none", "some", "key"}, k \in 0..TypeCap : CommPoll(text, k)
    BY <1>12, ConversationAssumption DEF PtyTakes
  <2>2. k \in Nat
    BY ConversationAssumption
  <2> QED
    BY <2>1, <2>2, CommPollInv
<1>13. CASE PollAborting
  <2>1. SessionMoves
    BY <1>2, <1>13 DEF PollAborting, SessionMoves, loginVars
  <2> QED
    BY <2>1, SessionMovesInv
<1>16. CASE CommPtyFails
  <2>1. SessionMoves
    BY <1>1, <1>2, <1>16 DEF CommPtyFails, SessionMoves, SessionInv, socketVars
  <2> QED
    BY <2>1, SessionMovesInv
<1>17. CASE EntryChanges
  <2>1. SessionMoves
    BY <1>2, <1>17 DEF EntryChanges, SessionMoves, TunnelState, socketVars, loginVars
  <2> QED
    BY <2>1, SessionMovesInv
<1>14. CASE SshLogin \/ SshDies \/ DaemonDies
  <2>1. SessionMoves
    BY <1>2, <1>14 DEF SshLogin, SshDies, DaemonDies, SessionMoves, sessionVars, socketVars
  <2> QED
    BY <2>1, SessionMovesInv
<1> QED
  BY <1>3, <1>4, <1>5, <1>6, <1>7, <1>8, <1>9, <1>10, <1>11, <1>12, <1>13, <1>14,
     <1>16, <1>17
  DEF SessionStep

\* The invariant does not depend on anything but the variables.
LEMMA StutterInv == ConversationInv /\ UNCHANGED vars => ConversationInv'
<1> SUFFICES ASSUME ConversationInv, UNCHANGED vars PROVE ConversationInv'
  OBVIOUS
<1>1. ClientMoves
  BY DEF ClientMoves, ConversationInv, ConversationTypeOK, vars, clientVars, socketVars
<1> QED
  BY <1>1, ClientMovesInv
-----------------------------------------------------------------------------
(***************************************************************************)
(* The theorems.                                                           *)
(***************************************************************************)

\* The inductive invariant holds in every reachable state.
THEOREM ConversationInvHolds == ConversationSpec => []ConversationInv
<1>1. ConversationInit => ConversationInv
  BY InitInv
<1>2. ConversationInv /\ [ConversationNext]_vars => ConversationInv'
  BY ClientStepInv, SessionStepInv, StutterInv DEF ConversationNext
<1> QED
  BY <1>1, <1>2, PTL DEF ConversationSpec

\* The variables have their types: in particular, the socket never holds more
\* than it can, and the write buffer of FramedWrite never more than one message
\* beyond its mark, however the client and the daemon take turns.
THEOREM ConversationTypeCorrect == ConversationSpec => []ConversationTypeOK
<1>1. ConversationInv => ConversationTypeOK
  BY DEF ConversationInv
<1> QED
  BY <1>1, ConversationInvHolds, PTL

\* What the client tells its user is so, although Ok stands for the
\* acknowledgement of the command, for the end of a login and for the success
\* of close and exit.
THEOREM AnswerIsTrueHolds == ConversationSpec => []AnswerIsTrue
<1>1. ConversationInv => AnswerIsTrue
  BY DEF ConversationInv, AnswerInv
<1> QED
  BY <1>1, ConversationInvHolds, PTL

\* What the user types reaches SSH in order and once; if no frame has
\* swallowed a UserData message, all of it is on its way or has arrived.
THEOREM TypedTextArrivesHolds == ConversationSpec => []TypedTextArrives
<1>1. ConversationInv => TypedTextArrives
  <2> SUFFICES ASSUME ConversationInv PROVE TypedTextArrives
    OBVIOUS
  <2>1. /\ got \in Seq(Nat) /\ ssh_buf \in Seq(Nat) /\ Text(Incoming) \in Seq(Nat)
        /\ Join(ssh_buf, Text(Incoming)) \in Seq(Nat) /\ sent \in Nat
    BY StateTypes DEF ConversationInv
  <2>2. InOrder(got)
    <3>1. InOrderUpTo(got, sent)
      BY <2>1, JoinDrop DEF ConversationInv, TypedInv, Typed
    <3> QED
      BY <3>1 DEF InOrderUpTo
  <2>3. Typed = Join(Join(got, ssh_buf), Text(Incoming))
    BY <2>1, JoinFacts DEF Typed
  <2>4. LoggingIn /\ "UserData" \notin lost => Join(Join(got, ssh_buf), Text(Incoming)) = UpTo(sent)
    BY <2>3 DEF ConversationInv, TypedInv
  <2> QED
    BY <2>2, <2>4, Zenon DEF TypedTextArrives, Join, Incoming
<1> QED
  BY <1>1, ConversationInvHolds, PTL

\* What SSH prints reaches the user in order and once, without the marker; if
\* no frame has swallowed an SshData message, all of it is on its way or has
\* been shown.
THEOREM PrintedTextArrivesHolds == ConversationSpec => []PrintedTextArrives
<1>1. ConversationInv => PrintedTextArrives
  <2> SUFFICES ASSUME ConversationInv PROVE PrintedTextArrives
    OBVIOUS
  <2>1. /\ Seen \in Seq(Nat) /\ Text(Outgoing) \in Seq(Nat) /\ cl_buf \in Seq(Nat)
        /\ printed \in Nat
        /\ shown \in Seq(1..TextCap) /\ user_buf \in Seq(1..TextCap)
    BY StateTypes DEF ConversationInv, ConversationTypeOK
  <2>2. InOrder(Seen)
    <3>1. InOrderUpTo(Seen, printed)
      BY <2>1, JoinDrop DEF ConversationInv, PrintedInv, Printed
    <3> QED
      BY <3>1 DEF InOrderUpTo
  <2>3. marker \notin Range(Seen)
    <3>1. Range(Join(Seen, Text(Outgoing))) = Range(Seen) \cup Range(Text(Outgoing))
      BY <2>1, RangeJoin
    <3>2. Seen \in Seq(1..TextCap)
      BY <2>1, ConcatProperties DEF Seen, Join
    <3>3. 0 \notin Range(Seen)
      <4>1. \A i \in DOMAIN Seen : Seen[i] \in 1..TextCap
        BY <3>2, ElementOfSeq, LenProperties
      <4>2. 0 \notin 1..TextCap
        BY ConversationAssumption
      <4> QED
        BY <4>1, <4>2, Zenon DEF Range
    <3> QED
      BY <3>1, <3>3 DEF ConversationInv, PrintedInv
  <2>4. Printed = Join(Join(Seen, Text(Outgoing)), cl_buf)
    BY <2>1, JoinFacts DEF Printed
  <2>5. LoggingIn /\ cl \in {"Communicating", "Relaying"} /\ "SshData" \notin lost
          => Join(Join(Seen, Text(Outgoing)), cl_buf) = UpTo(printed)
    BY <2>4 DEF ConversationInv, PrintedInv, Following
  <2> QED
    BY <2>2, <2>3, <2>5, Zenon DEF PrintedTextArrives, Join, Seen, Outgoing
<1> QED
  BY <1>1, ConversationInvHolds, PTL
=============================================================================
